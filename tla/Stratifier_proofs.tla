------------------------- MODULE Stratifier_proofs -------------------------
(* The partitioner places every rule of a program it accepts exactly once,   *)
(* whatever cycles it broke, and orders the rules of a program without       *)
(* cycles.                                                                   *)
EXTENDS Stratifier, FiniteSetTheorems, SequenceTheorems, WellFoundedInduction, TLAPS

-----------------------------------------------------------------------------
(* The inductive invariant.                                                *)

Elems(q) == {q[k] : k \in 1..Len(q)}

Distinct(q) == \A a, b \in 1..Len(q) : q[a] = q[b] => a = b

Settled == UNION {Elems(p.stratification[k]) : k \in 1..Len(p.stratification)}

Placed == Settled \cup Elems(p.partition)

Roots == {j \in RuleSet : predecessors(p.rules, j) = {}}

\* The rules that wait for others.
Blocked == RuleSet \ (p.output \cup Roots)

Fields ==
    [rules            : Programs,
     num_predecessors : [RuleSet -> Nat],
     output           : SUBSET RuleSet,
     uses_negative    : SUBSET RuleSet,
     ready_queue      : Seq(RuleSet),
     next_queue       : Seq(RuleSet),
     partition        : Seq(RuleSet),
     stratification   : Seq(Seq(RuleSet)),
     candidates       : SUBSET RuleSet,
     visited          : SUBSET RuleSet,
     path             : Seq(RuleSet),
     todo             : Seq(SUBSET RuleSet),
     status           : {"start", "ordering", "searching", "ok", "not_stratifiable"}]

\* Each list holds a rule once, and no two of them hold the same rule.
QueuesApart ==
    /\ Distinct(p.ready_queue)
    /\ Distinct(p.next_queue)
    /\ Distinct(p.partition)
    /\ Elems(p.ready_queue) \cap Elems(p.next_queue) = {}
    /\ Elems(p.ready_queue) \cap Placed = {}
    /\ Elems(p.next_queue) \cap Placed = {}
    /\ Elems(p.partition) \cap Settled = {}

StrataApart ==
    \A k, l \in 1..Len(p.stratification) :
        \A a \in 1..Len(p.stratification[k]), b \in 1..Len(p.stratification[l]) :
            p.stratification[k][a] = p.stratification[l][b] => k = l /\ a = b

\* The rules that wait for nothing are in the lists, and no others.
AllQueued ==
    p.output \cup Roots = Placed \cup Elems(p.ready_queue) \cup Elems(p.next_queue)

\* A rule counts the rules it waits for.
Counts ==
    /\ \A j \in RuleSet \ p.output :
           p.num_predecessors[j] = Cardinality(predecessors(p.rules, j) \ Placed)
    /\ \A j \in Blocked : p.num_predecessors[j] # 0

\* Between partitions nothing is held back, and order_rules stops when nothing waits.
Between ==
    /\ p.partition = << >> => p.next_queue = << >> /\ p.uses_negative = {}
    /\ p.status = "ordering" =>
           /\ p.ready_queue = << >> /\ p.partition = << >> => Blocked = {}
           /\ p.visited = {} /\ p.path = << >> /\ p.todo = << >>

OrderingInv == QueuesApart /\ StrataApart /\ AllQueued /\ Counts /\ Between

\* The rules whose call of dfs_cycle has returned.
Done == p.visited \ Elems(p.path)

\* Every rule of T feeds another of T, or itself.
Endless(T) == \A t \in T : Unplaced(p, t) \cap T # {}

Stack ==
    /\ Distinct(p.path)
    /\ Elems(p.path) \subseteq p.visited
    /\ p.visited \subseteq Blocked
    /\ Len(p.todo) = Len(p.path)
    /\ \A k \in 1..Len(p.path) : p.todo[k] \subseteq Unplaced(p, p.path[k])

\* What a call has dealt with has returned, or is the call it is waiting for.
Progress ==
    \A k \in 1..Len(p.path) : \A j \in Unplaced(p, p.path[k]) \ p.todo[k] :
        j \in Done \/ (k < Len(p.path) /\ j = p.path[k + 1])

\* Calls have only returned from rules that lead to no cycle.
DoneEnds ==
    /\ \A i \in Done : Unplaced(p, i) \subseteq Done
    /\ \A T \in SUBSET Done : T # {} => ~Endless(T)

Tried ==
    /\ p.candidates \subseteq Blocked
    /\ \A c \in Blocked \ p.candidates :
           \/ p.path # << >> /\ c = p.path[1]
           \/ \A T \in SUBSET Blocked : c \in T => ~Endless(T)

SearchInv ==
    /\ p.ready_queue = << >>
    /\ p.partition = << >>
    /\ Blocked # {}
    /\ Stack
    /\ Progress
    /\ DoneEnds
    /\ Tried

\* Where no rule depends on itself, a rule is queued after what it consumes, and what it
\* negates is in an earlier stratum.
StrataOrdered ==
    \A k, l \in DOMAIN p.stratification : \A i, j \in RuleSet :
        InStratum(i, k) /\ InStratum(j, l) =>
            /\ Edge(p.rules, i, j) # "none" => k <= l
            /\ Edge(p.rules, i, j) = "negative" => k < l

AfterWhatItUses ==
    /\ \A j \in p.output \cup Roots : predecessors(p.rules, j) \subseteq Placed
    /\ \A j \in Settled : predecessors(p.rules, j) \subseteq Settled
    /\ \A i \in RuleSet, j \in Elems(p.ready_queue) \cup Elems(p.partition) :
           Edge(p.rules, i, j) = "negative" => i \in Settled
    /\ \A i \in Elems(p.partition), j \in RuleSet :
           Edge(p.rules, i, j) = "negative" => j \in p.uses_negative

IInv ==
    /\ p \in Fields
    /\ p.status = "start" => p = new(p.rules)
    /\ p.status \in {"ordering", "searching"} => OrderingInv
    /\ p.status \in {"ordering", "searching"} /\ ~Cyclic => AfterWhatItUses /\ StrataOrdered
    /\ p.status = "searching" => SearchInv
    /\ p.status = "not_stratifiable" => Cyclic
    /\ EachRuleOnce
    /\ p.status = "ok" /\ ~Cyclic => StrataOrdered

-----------------------------------------------------------------------------
(* Lists and sets of rules.                                                *)

\* A set of numbers has a least element, the one First chooses.
LEMMA FirstOfSet ==
    ASSUME NEW S \in SUBSET Nat, S # {}
    PROVE  First(S) \in S
<1> DEFINE R == OpToRel(<, Nat)
<1>1. IsWellFoundedOn(R, Nat)
  BY NatLessThanWellFounded
<1>2. \A x, y \in Nat : x < y => <<x, y>> \in R
  BY DEF OpToRel
<1> HIDE DEF R
<1>3. PICK x \in S : \A y \in S : ~(<<y, x>> \in R)
  BY <1>1, WFMin
<1>4. \A y \in S : x <= y
  <2> SUFFICES ASSUME NEW y \in S, ~(x <= y)
               PROVE  FALSE
    OBVIOUS
  <2>1. x \in Nat /\ y \in Nat /\ y < x
    OBVIOUS
  <2>2. QED
    BY <2>1, <1>2, <1>3
<1>5. QED
  BY <1>3, <1>4 DEF First

\* InOrder lists a set of rules.
LEMMA InOrderLists ==
    ASSUME NEW n \in Nat, NEW S \in SUBSET (1..n)
    PROVE  /\ InOrder(S) \in Seq(S)
           /\ Distinct(InOrder(S))
           /\ Elems(InOrder(S)) = S
<1> DEFINE m == Cardinality(S)
           Below(i) == {h \in S : h <= i}
           g == [i \in S |-> Cardinality(Below(i))]
           q == InOrder(S)
<1>1. IsFiniteSet(S) /\ m \in Nat
  <2>1. IsFiniteSet(1..n)
    BY FS_Interval
  <2>2. IsFiniteSet(S)
    BY <2>1, FS_Subset
  <2>3. QED
    BY <2>2, FS_CardinalityType
<1>2. ASSUME NEW i \in S PROVE IsFiniteSet(Below(i)) /\ g[i] \in 1..m
  <2>1. IsFiniteSet(Below(i)) /\ Cardinality(Below(i)) <= m
    BY <1>1, FS_Subset
  <2>2. Cardinality(Below(i)) \in Nat
    BY <2>1, FS_CardinalityType
  <2>3. i \in Below(i)
    OBVIOUS
  <2>4. Cardinality(Below(i)) # 0
    BY <2>1, <2>3, FS_EmptySet
  <2>5. QED
    BY <2>1, <2>2, <2>4, <1>1
<1>3. ASSUME NEW i \in S, NEW j \in S, i < j PROVE g[i] # g[j]
  <2>1. Below(i) \in SUBSET Below(j)
    <3> SUFFICES ASSUME NEW h \in S, h <= i
                 PROVE  h <= j
      OBVIOUS
    <3>1. h \in Nat /\ i \in Nat /\ j \in Nat
      OBVIOUS
    <3>2. QED
      BY <3>1, <1>3
  <2>2. j \in Below(j) /\ j \notin Below(i)
    BY <1>3
  <2>3. IsFiniteSet(Below(j))
    BY <1>2
  <2>4. Cardinality(Below(j)) # Cardinality(Below(i))
    BY <2>1, <2>2, <2>3, FS_Subset
  <2>5. QED
    BY <2>4
<1>4. \A i, j \in S : g[i] = g[j] => i = j
  <2> SUFFICES ASSUME NEW i \in S, NEW j \in S, g[i] = g[j], i # j
               PROVE  FALSE
    OBVIOUS
  <2>1. i < j \/ j < i
    OBVIOUS
  <2>2. QED
    BY <2>1, <1>3
<1>5. g \in Surjection(S, 1..m)
  <2>1. g \in Injection(S, 1..m)
    <3>1. g \in [S -> 1..m]
      BY <1>2
    <3> HIDE DEF g
    <3>2. QED
      BY <3>1, <1>4 DEF Injection, IsInjective
  <2>2. IsFiniteSet(1..m) /\ Cardinality(1..m) = m
    BY <1>1, FS_Interval
  <2> HIDE DEF g
  <2>3. QED
    BY <2>1, <2>2, FS_Injection
<1>6. \A k \in 1..m : \E i \in S : g[i] = k
  <2> HIDE DEF g
  <2>1. QED
    BY <1>5 DEF Surjection
<1>7. q = [k \in 1..m |-> CHOOSE i \in S : Cardinality(Below(i)) = k]
  BY DEF InOrder
<1>8. \A k \in 1..m : q[k] \in S /\ g[q[k]] = k
  <2> SUFFICES ASSUME NEW k \in 1..m
               PROVE  q[k] \in S /\ g[q[k]] = k
    OBVIOUS
  <2> DEFINE i == CHOOSE i \in S : Cardinality(Below(i)) = k
  <2>1. \E h \in S : Cardinality(Below(h)) = k
    BY <1>6
  <2>2. i \in S /\ Cardinality(Below(i)) = k
    BY <2>1
  <2>3. q[k] = i
    BY <1>7
  <2>4. g[i] = Cardinality(Below(i))
    BY <2>2
  <2>5. QED
    BY <2>2, <2>3, <2>4
<1> HIDE DEF g, q
<1>9. q \in Seq(S) /\ Len(q) = m
  <2> DEFINE Ranked(k) == CHOOSE i \in S : Cardinality(Below(i)) = k
  <2>1. q = [k \in 1..m |-> Ranked(k)]
    BY <1>7
  <2> HIDE DEF Ranked
  <2>2. q \in [1..m -> S]
    BY <2>1, <1>8
  <2>3. QED
    BY <2>2, <1>1
<1>10. Distinct(q)
  BY <1>8, <1>9 DEF Distinct
<1>11. ASSUME NEW i \in S PROVE i \in Elems(q)
  <2>1. g[i] \in 1..m
    BY <1>2
  <2>2. q[g[i]] = i
    BY <2>1, <1>4, <1>8
  <2>3. QED
    BY <2>1, <2>2, <1>9 DEF Elems
<1>12. Elems(q) = S
  BY <1>8, <1>9, <1>11 DEF Elems
<1>13. QED
  BY <1>9, <1>10, <1>12 DEF q

\* A list over a set is one over any larger set.
LEMMA SeqSubset ==
    ASSUME NEW S, NEW T, S \subseteq T, NEW q \in Seq(S)
    PROVE  q \in Seq(T)
OBVIOUS

\* Taking the first of a list.
LEMMA TakeFirst ==
    ASSUME NEW S, NEW q \in Seq(S), q # << >>, Distinct(q)
    PROVE  /\ Head(q) \in Elems(q)
           /\ Tail(q) \in Seq(S)
           /\ Distinct(Tail(q))
           /\ Elems(Tail(q)) = Elems(q) \ {Head(q)}
<1>1. Len(q) \in Nat \ {0} /\ Head(q) = q[1] /\ Tail(q) \in Seq(S)
  BY EmptySeq, LenProperties
<1>2. Len(Tail(q)) = Len(q) - 1 /\ \A k \in 1..Len(Tail(q)) : Tail(q)[k] = q[k + 1]
  OBVIOUS
<1>3. Distinct(Tail(q))
  BY <1>1, <1>2 DEF Distinct
<1>4. Elems(Tail(q)) \subseteq Elems(q) \ {Head(q)}
  <2> SUFFICES ASSUME NEW k \in 1..Len(Tail(q))
               PROVE  Tail(q)[k] \in Elems(q) \ {Head(q)}
    BY DEF Elems
  <2>1. k + 1 \in 1..Len(q) /\ k + 1 # 1 /\ 1 \in 1..Len(q)
    BY <1>1, <1>2
  <2>2. q[k + 1] # q[1]
    BY <2>1 DEF Distinct
  <2>3. QED
    BY <1>1, <1>2, <2>1, <2>2 DEF Elems
<1>5. Elems(q) \ {Head(q)} \subseteq Elems(Tail(q))
  <2> SUFFICES ASSUME NEW k \in 1..Len(q), q[k] # Head(q)
               PROVE  q[k] \in Elems(Tail(q))
    BY DEF Elems
  <2>1. k - 1 \in 1..Len(Tail(q)) /\ (k - 1) + 1 = k
    BY <1>1, <1>2
  <2>2. Tail(q)[k - 1] = q[k]
    BY <2>1, <1>2
  <2>3. QED
    BY <2>1, <2>2 DEF Elems
<1>6. Head(q) \in Elems(q)
  BY <1>1 DEF Elems
<1>7. QED
  BY <1>1, <1>3, <1>4, <1>5, <1>6

\* Appending to a list.
LEMMA AppendOne ==
    ASSUME NEW S, NEW q \in Seq(S), NEW x \in S
    PROVE  /\ Append(q, x) \in Seq(S)
           /\ Append(q, x) # << >>
           /\ Elems(Append(q, x)) = Elems(q) \cup {x}
           /\ Distinct(q) /\ x \notin Elems(q) => Distinct(Append(q, x))
<1> DEFINE r == Append(q, x)
<1>1. r \in Seq(S) /\ Len(q) \in Nat /\ Len(r) = Len(q) + 1 /\ r[Len(q) + 1] = x
      /\ \A k \in 1..Len(q) : r[k] = q[k]
  OBVIOUS
<1> HIDE DEF r
<1>2. Elems(r) = Elems(q) \cup {x}
  BY <1>1 DEF Elems
<1>3. r # << >>
  BY <1>1
<1>4. ASSUME Distinct(q), x \notin Elems(q) PROVE Distinct(r)
  BY <1>1, <1>4 DEF Distinct, Elems
<1>5. QED
  BY <1>1, <1>2, <1>3, <1>4 DEF r

\* Joining two lists.
LEMMA JoinLists ==
    ASSUME NEW S, NEW q \in Seq(S), NEW r \in Seq(S)
    PROVE  /\ q \o r \in Seq(S)
           /\ Elems(q \o r) = Elems(q) \cup Elems(r)
           /\ Distinct(q) /\ Distinct(r) /\ Elems(q) \cap Elems(r) = {} => Distinct(q \o r)
<1> DEFINE s == q \o r
<1>1. /\ s \in Seq(S) /\ Len(q) \in Nat /\ Len(r) \in Nat /\ Len(s) = Len(q) + Len(r)
      /\ \A k \in 1..Len(q) : s[k] = q[k]
      /\ \A k \in 1..Len(r) : s[Len(q) + k] = r[k]
  OBVIOUS
<1> HIDE DEF s
<1>2. \A k \in 1..Len(s) : k \in 1..Len(q) \/ (k - Len(q) \in 1..Len(r) /\ s[k] = r[k - Len(q)])
  <2> SUFFICES ASSUME NEW k \in 1..Len(s), ~(k \in 1..Len(q))
               PROVE  k - Len(q) \in 1..Len(r) /\ s[k] = r[k - Len(q)]
    OBVIOUS
  <2>1. k - Len(q) \in 1..Len(r) /\ Len(q) + (k - Len(q)) = k
    BY <1>1
  <2>2. s[Len(q) + (k - Len(q))] = r[k - Len(q)]
    BY <2>1, <1>1
  <2>3. QED
    BY <2>1, <2>2
<1>3. Elems(s) \subseteq Elems(q) \cup Elems(r)
  BY <1>1, <1>2 DEF Elems
<1>4. Elems(q) \subseteq Elems(s)
  BY <1>1 DEF Elems
<1>5. Elems(r) \subseteq Elems(s)
  <2> SUFFICES ASSUME NEW k \in 1..Len(r) PROVE r[k] \in Elems(s)
    BY DEF Elems
  <2>1. Len(q) + k \in 1..Len(s)
    BY <1>1
  <2>2. QED
    BY <2>1, <1>1 DEF Elems
<1>6. ASSUME Distinct(q), Distinct(r), Elems(q) \cap Elems(r) = {} PROVE Distinct(s)
  <2> SUFFICES ASSUME NEW a \in 1..Len(s), NEW b \in 1..Len(s), s[a] = s[b]
               PROVE  a = b
    BY DEF Distinct
  <2>1. CASE a \in 1..Len(q) /\ b \in 1..Len(q)
    BY <2>1, <1>1, <1>6 DEF Distinct
  <2>2. CASE a \in 1..Len(q) /\ b \notin 1..Len(q)
    <3>1. s[a] \in Elems(q)
      BY <2>2, <1>1 DEF Elems
    <3>2. s[b] \in Elems(r)
      BY <2>2, <1>2 DEF Elems
    <3>3. QED
      BY <3>1, <3>2, <1>6
  <2>3. CASE a \notin 1..Len(q) /\ b \in 1..Len(q)
    <3>1. s[b] \in Elems(q)
      BY <2>3, <1>1 DEF Elems
    <3>2. s[a] \in Elems(r)
      BY <2>3, <1>2 DEF Elems
    <3>3. QED
      BY <3>1, <3>2, <1>6
  <2>4. CASE a \notin 1..Len(q) /\ b \notin 1..Len(q)
    <3>1. a - Len(q) = b - Len(q)
      BY <2>4, <1>2, <1>6 DEF Distinct
    <3>2. QED
      BY <3>1, <1>1
  <2>5. QED
    BY <2>1, <2>2, <2>3, <2>4
<1>7. QED
  BY <1>1, <1>3, <1>4, <1>5, <1>6 DEF s

-----------------------------------------------------------------------------
(* The partitioner's rules.                                                *)

\* A rule vector is a finite list.
LEMMA RulesFinite ==
    ASSUME p \in Fields
    PROVE  /\ Len(p.rules) \in Nat
           /\ RuleSet = 1..Len(p.rules)
           /\ IsFiniteSet(RuleSet)
<1>1. p.rules \in Programs
  BY DEF Fields
<1>2. p.rules \in Seq({p.rules[k] : k \in DOMAIN p.rules})
  BY <1>1, ProgramsAssumption
<1>3. Len(p.rules) \in Nat
  BY <1>2, LenProperties
<1>4. RuleSet = 1..Len(p.rules)
  BY DEF RuleSet, RuleIds
<1>5. IsFiniteSet(1..Len(p.rules))
  BY <1>3, FS_Interval
<1>6. QED
  BY <1>3, <1>4, <1>5

\* What depends on the rules only stays as it is.
LEMMA SameRules ==
    ASSUME p'.rules = p.rules
    PROVE  /\ RuleSet' = RuleSet
           /\ Roots' = Roots
           /\ Cyclic' <=> Cyclic
           /\ \A i, j : Edge(p'.rules, i, j) = Edge(p.rules, i, j)
           /\ \A j : predecessors(p'.rules, j) = predecessors(p.rules, j)
<1>1. RuleSet' = RuleSet
  BY DEF RuleSet
<1>2. \A i, j : Edge(p'.rules, i, j) = Edge(p.rules, i, j)
  OBVIOUS
<1>3. \A j : predecessors(p'.rules, j) = predecessors(p.rules, j)
  OBVIOUS
<1>4. Roots' = Roots
  BY <1>1, <1>3 DEF Roots
<1>5. Cyclic' <=> Cyclic
  BY <1>1, <1>2 DEF Cyclic
<1>6. QED
  BY <1>1, <1>2, <1>3, <1>4, <1>5

\* The negated rules are among those a rule waits for.
LEMMA Predecessors ==
    /\ \A i \in RuleSet : \A j :
           /\ i \in predecessors(p.rules, j) <=> Edge(p.rules, i, j) # "none"
           /\ Edge(p.rules, i, j) = "negative" => i \in predecessors(p.rules, j)
    /\ \A j : predecessors(p.rules, j) \subseteq RuleSet
BY DEF RuleSet, predecessors

LEMMA PredecessorsFinite ==
    ASSUME p \in Fields
    PROVE  \A j : IsFiniteSet(predecessors(p.rules, j))
<1> SUFFICES ASSUME NEW j
             PROVE  IsFiniteSet(predecessors(p.rules, j))
  OBVIOUS
<1>1. predecessors(p.rules, j) \in SUBSET RuleSet
  BY Predecessors
<1>2. IsFiniteSet(RuleSet)
  BY RulesFinite
<1>3. QED
  BY <1>1, <1>2, FS_Subset

\* What waits for others waits for one of them, as they are all in RuleSet.
LEMMA BlockedIn ==
    Blocked \subseteq RuleSet /\ \A j \in Blocked : j \notin p.output /\ j \notin Roots
BY DEF Blocked

-----------------------------------------------------------------------------
(* Placing a rule.                                                         *)

\* The rule that get_partition takes, those that wait for nothing else, and those that
\* negate something of this partition then.
Taken == Head(p.ready_queue)

Due ==
    {j \in RuleSet : /\ Edge(p.rules, Taken, j) # "none"
                     /\ j \notin p.output
                     /\ p.num_predecessors[j] = 1}

Held == p.uses_negative \cup {j \in RuleSet : Edge(p.rules, Taken, j) = "negative"}

\* The fields after one iteration of get_partition.
Placing ==
    /\ p'.rules = p.rules
    /\ p'.num_predecessors =
          [j \in RuleSet |-> IF j \notin p.output /\ Edge(p.rules, Taken, j) # "none"
                                  /\ p.num_predecessors[j] # 0
                               THEN p.num_predecessors[j] - 1 ELSE p.num_predecessors[j]]
    /\ p'.output = p.output \cup Due
    /\ p'.uses_negative = Held
    /\ p'.ready_queue = Tail(p.ready_queue) \o InOrder(Due \ Held)
    /\ p'.next_queue = p.next_queue \o InOrder(Due \cap Held)
    /\ p'.partition = Append(p.partition, Taken)
    /\ p'.stratification = p.stratification
    /\ p'.candidates = p.candidates
    /\ p'.visited = p.visited
    /\ p'.path = p.path
    /\ p'.todo = p.todo
    /\ p'.status = p.status
    /\ DOMAIN p' = DOMAIN p

LEMMA PlacingFields ==
    ASSUME p \in Fields, p' = get_partition_step(p), p.ready_queue # << >>
    PROVE  Placing /\ (p \in Fields)'
<1> DEFINE q == [p EXCEPT !.ready_queue = Tail(@), !.partition = Append(@, Taken)]
<1>1. DOMAIN p = {"rules", "num_predecessors", "output", "uses_negative", "ready_queue",
                  "next_queue", "partition", "stratification", "candidates", "visited",
                  "path", "todo", "status"}
  BY DEF Fields
<1>2. /\ q.rules = p.rules /\ q.num_predecessors = p.num_predecessors /\ q.output = p.output
      /\ q.uses_negative = p.uses_negative /\ q.ready_queue = Tail(p.ready_queue)
      /\ q.next_queue = p.next_queue /\ q.partition = Append(p.partition, Taken)
      /\ q.stratification = p.stratification /\ q.candidates = p.candidates
      /\ q.visited = p.visited /\ q.path = p.path /\ q.todo = p.todo /\ q.status = p.status
      /\ DOMAIN q = DOMAIN p
  BY <1>1
<1>3. p' = update_successors(q, Taken)
  BY DEF get_partition_step, Taken
<1> HIDE DEF q
<1>4. Released(q, Taken) = Due
  BY <1>2 DEF Released, Awaits, RuleSet, Due
<1>5. HeldBack(q, Taken) = Held
  BY <1>2 DEF HeldBack, RuleSet, Held
<1>6. p' = [q EXCEPT !.num_predecessors = [j \in RuleIds(q.rules) |->
                                           IF Awaits(q, Taken, j) THEN @[j] - 1 ELSE @[j]],
                  !.output = @ \cup Due,
                  !.uses_negative = Held,
                  !.next_queue = @ \o InOrder(Due \cap Held),
                  !.ready_queue = @ \o InOrder(Due \ Held)]
  BY <1>3, <1>4, <1>5 DEF update_successors
<1>7. [j \in RuleIds(q.rules) |-> IF Awaits(q, Taken, j) THEN q.num_predecessors[j] - 1
                                    ELSE q.num_predecessors[j]]
      = [j \in RuleSet |-> IF j \notin p.output /\ Edge(p.rules, Taken, j) # "none"
                                  /\ p.num_predecessors[j] # 0
                               THEN p.num_predecessors[j] - 1 ELSE p.num_predecessors[j]]
  BY <1>2 DEF Awaits, RuleSet
<1>8. Placing
  BY <1>1, <1>2, <1>6, <1>7 DEF Placing
<1>9. (p \in Fields)'
  <2>1. Len(p.rules) \in Nat /\ RuleSet = 1..Len(p.rules)
    BY RulesFinite
  <2>2. Taken \in RuleSet /\ Tail(p.ready_queue) \in Seq(RuleSet)
    BY HeadTailProperties DEF Fields, Taken
  <2>3. Append(p.partition, Taken) \in Seq(RuleSet)
    BY <2>2 DEF Fields
  <2>4. Due \in SUBSET RuleSet /\ Held \in SUBSET RuleSet
    BY DEF Fields, Due, Held
  <2>5. InOrder(Due \cap Held) \in Seq(Due \cap Held) /\ InOrder(Due \ Held) \in Seq(Due \ Held)
    BY <2>1, <2>4, InOrderLists
  <2>6. InOrder(Due \cap Held) \in Seq(RuleSet) /\ InOrder(Due \ Held) \in Seq(RuleSet)
    BY <2>4, <2>5
  <2>7. /\ p'.next_queue \in Seq(RuleSet)
        /\ p'.ready_queue \in Seq(RuleSet)
    BY <1>8, <2>2, <2>6, ConcatProperties DEF Placing, Fields
  <2>8. p'.num_predecessors \in [RuleSet -> Nat]
    BY <1>8 DEF Placing, Fields
  <2>9. RuleSet' = RuleSet
    BY <1>8, SameRules DEF Placing
  <2>10. Fields' = Fields
    BY <2>9 DEF Fields
  <2>11. p' \in Fields
    <3> USE DEF Fields
    <3>1. q \in [rules : Programs, num_predecessors : [RuleSet -> Nat], output : SUBSET RuleSet,
                 uses_negative : SUBSET RuleSet, ready_queue : Seq(RuleSet), next_queue : Seq(RuleSet),
                 partition : Seq(RuleSet), stratification : Seq(Seq(RuleSet)),
                 candidates : SUBSET RuleSet, visited : SUBSET RuleSet, path : Seq(RuleSet),
                 todo : Seq(SUBSET RuleSet),
                 status : {"start", "ordering", "searching", "ok", "not_stratifiable"}]
      BY <2>2, <2>3 DEF q
    <3>2. QED
      BY <1>6, <1>8, <2>3, <2>4, <2>7, <2>8, <3>1 DEF Placing
  <2>12. QED
    BY <2>10, <2>11
<1>10. QED
  BY <1>8, <1>9

\* The rules that are due, in the terms of the invariant.
LEMMA DueRules ==
    ASSUME p \in Fields, OrderingInv, p.ready_queue # << >>
    PROVE  /\ Taken \in RuleSet /\ Taken \in Elems(p.ready_queue) /\ Taken \notin Placed
           /\ Due \subseteq Blocked
           /\ \A j \in Due : predecessors(p.rules, j) \subseteq Placed \cup {Taken}
           /\ \A j \in Blocked \ Due : ~(predecessors(p.rules, j) \subseteq Placed \cup {Taken})
           /\ \A j \in RuleSet \ p.output : Taken \in predecessors(p.rules, j) =>
                  /\ p.num_predecessors[j] # 0
                  /\ Cardinality(predecessors(p.rules, j) \ (Placed \cup {Taken})) = p.num_predecessors[j] - 1
<1>1. Taken \in Elems(p.ready_queue) /\ Taken \in RuleSet
  <2>1. p.ready_queue \in Seq(RuleSet) /\ Distinct(p.ready_queue)
    BY DEF Fields, OrderingInv, QueuesApart
  <2>2. QED
    BY <2>1, TakeFirst, HeadTailProperties DEF Taken
<1>2. Taken \notin Placed
  BY <1>1 DEF OrderingInv, QueuesApart
<1>3. \A j : IsFiniteSet(predecessors(p.rules, j))
  BY PredecessorsFinite
<1>4. ASSUME NEW j \in RuleSet \ p.output, Taken \in predecessors(p.rules, j)
      PROVE  /\ p.num_predecessors[j] # 0
             /\ Cardinality(predecessors(p.rules, j) \ (Placed \cup {Taken})) = p.num_predecessors[j] - 1
  <2> DEFINE W == predecessors(p.rules, j) \ Placed
  <2>1. IsFiniteSet(W)
    BY <1>3, FS_Difference
  <2>2. Taken \in W
    BY <1>2, <1>4
  <2>3. p.num_predecessors[j] = Cardinality(W)
    BY DEF OrderingInv, Counts
  <2>4. Cardinality(W \ {Taken}) = Cardinality(W) - 1
    BY <2>1, <2>2, FS_RemoveElement
  <2>5. W \ {Taken} = predecessors(p.rules, j) \ (Placed \cup {Taken})
    OBVIOUS
  <2>6. Cardinality(W) # 0
    BY <2>1, <2>2, FS_EmptySet
  <2>7. QED
    BY <2>3, <2>4, <2>5, <2>6
<1>5. \A j \in Due : Taken \in predecessors(p.rules, j) /\ j \in RuleSet \ p.output
  BY <1>1, Predecessors DEF Due
<1>6. \A j \in Due : j \in Blocked
  BY <1>5 DEF Blocked, Roots
<1>7. ASSUME NEW j \in Due PROVE predecessors(p.rules, j) \subseteq Placed \cup {Taken}
  <2> DEFINE V == predecessors(p.rules, j) \ (Placed \cup {Taken})
  <2>1. Cardinality(V) = 0
    BY <1>4, <1>5 DEF Due
  <2>2. IsFiniteSet(V)
    BY <1>3, FS_Difference
  <2>3. V = {}
    BY <2>1, <2>2, FS_EmptySet
  <2>4. QED
    BY <2>3
<1>8. ASSUME NEW j \in Blocked \ Due PROVE ~(predecessors(p.rules, j) \subseteq Placed \cup {Taken})
  <2> SUFFICES ASSUME predecessors(p.rules, j) \subseteq Placed \cup {Taken}
               PROVE  FALSE
    OBVIOUS
  <2>1. j \in RuleSet \ p.output /\ p.num_predecessors[j] # 0
        /\ p.num_predecessors[j] = Cardinality(predecessors(p.rules, j) \ Placed)
    BY BlockedIn DEF OrderingInv, Counts
  <2>2. CASE Taken \in predecessors(p.rules, j)
    <3>1. p.num_predecessors[j] # 1
      BY <2>1, <2>2, <1>1, <1>8, Predecessors DEF Due
    <3>2. p.num_predecessors[j] - 1 = 0
      <4>1. predecessors(p.rules, j) \ (Placed \cup {Taken}) = {}
        OBVIOUS
      <4>2. QED
        BY <4>1, <2>1, <2>2, <1>4, FS_EmptySet
    <3>3. p.num_predecessors[j] \in Nat
      BY <2>1 DEF Fields
    <3>4. QED
      BY <3>1, <3>2, <3>3
  <2>3. CASE Taken \notin predecessors(p.rules, j)
    <3>1. predecessors(p.rules, j) \ Placed = {}
      BY <2>3
    <3>2. QED
      BY <3>1, <2>1, FS_EmptySet
  <2>4. QED
    BY <2>2, <2>3
<1>9. QED
  BY <1>1, <1>2, <1>4, <1>6, <1>7, <1>8

\* Placing a rule keeps the lists apart and the counts right.
LEMMA PlaceOrdering ==
    ASSUME p \in Fields, OrderingInv, p.ready_queue # << >>,
           Placing
    PROVE  /\ OrderingInv'
           /\ Placed' = Placed \cup {Taken}
           /\ Settled' = Settled
           /\ Elems(p.partition)' = Elems(p.partition) \cup {Taken}
           /\ Elems(p.ready_queue)' = (Elems(p.ready_queue) \ {Taken}) \cup (Due \ Held)
           /\ p'.partition # << >>
<1>1. /\ RuleSet' = RuleSet
      /\ Roots' = Roots
      /\ \A h, j : Edge(p'.rules, h, j) = Edge(p.rules, h, j)
      /\ \A j : predecessors(p'.rules, j) = predecessors(p.rules, j)
  BY SameRules DEF Placing
<1>2. /\ Taken \in RuleSet /\ Taken \in Elems(p.ready_queue) /\ Taken \notin Placed
      /\ Due \subseteq Blocked
      /\ \A j \in Blocked \ Due : ~(predecessors(p.rules, j) \subseteq Placed \cup {Taken})
      /\ \A j \in RuleSet \ p.output : Taken \in predecessors(p.rules, j) =>
             /\ p.num_predecessors[j] # 0
             /\ Cardinality(predecessors(p.rules, j) \ (Placed \cup {Taken})) = p.num_predecessors[j] - 1
  BY DueRules
<1>3. Due \cap (p.output \cup Roots) = {}
  BY <1>2 DEF Blocked
<1>4. Due \cap (Placed \cup Elems(p.ready_queue) \cup Elems(p.next_queue)) = {}
  BY <1>3 DEF OrderingInv, AllQueued
<1>5. /\ p.ready_queue \in Seq(RuleSet) /\ p.next_queue \in Seq(RuleSet) /\ p.partition \in Seq(RuleSet)
      /\ Distinct(p.ready_queue) /\ Distinct(p.next_queue) /\ Distinct(p.partition)
      /\ Elems(p.ready_queue) \cap Elems(p.next_queue) = {}
      /\ Elems(p.ready_queue) \cap Placed = {}
      /\ Elems(p.next_queue) \cap Placed = {}
      /\ Elems(p.partition) \cap Settled = {}
  BY DEF Fields, OrderingInv, QueuesApart
<1>6. /\ Tail(p.ready_queue) \in Seq(RuleSet)
      /\ Distinct(Tail(p.ready_queue))
      /\ Elems(Tail(p.ready_queue)) = Elems(p.ready_queue) \ {Taken}
  BY <1>5, TakeFirst DEF Taken
<1>7. \A s : s \in SUBSET Due =>
         InOrder(s) \in Seq(RuleSet) /\ Distinct(InOrder(s)) /\ Elems(InOrder(s)) = s
  <2> SUFFICES ASSUME NEW s, s \in SUBSET Due
               PROVE  InOrder(s) \in Seq(RuleSet) /\ Distinct(InOrder(s)) /\ Elems(InOrder(s)) = s
    OBVIOUS
  <2>1. s \in SUBSET (1..Len(p.rules)) /\ Len(p.rules) \in Nat /\ s \subseteq RuleSet
    BY RulesFinite, <1>2, BlockedIn
  <2>2. InOrder(s) \in Seq(s) /\ Distinct(InOrder(s)) /\ Elems(InOrder(s)) = s
    BY <2>1, InOrderLists
  <2> DEFINE q == InOrder(s)
  <2> HIDE DEF q
  <2>3. q \in Seq(RuleSet)
    BY <2>1, <2>2, SeqSubset DEF q
  <2>4. QED
    BY <2>2, <2>3 DEF q
<1>8. /\ InOrder(Due \ Held) \in Seq(RuleSet) /\ Distinct(InOrder(Due \ Held))
      /\ Elems(InOrder(Due \ Held)) = Due \ Held
      /\ InOrder(Due \cap Held) \in Seq(RuleSet) /\ Distinct(InOrder(Due \cap Held))
      /\ Elems(InOrder(Due \cap Held)) = Due \cap Held
  BY <1>7
<1>9. /\ Elems(p'.ready_queue) = (Elems(p.ready_queue) \ {Taken}) \cup (Due \ Held)
      /\ Distinct(p'.ready_queue)
  <2>1. Elems(Tail(p.ready_queue)) \cap Elems(InOrder(Due \ Held)) = {}
    BY <1>4, <1>6, <1>8
  <2>2. p'.ready_queue = Tail(p.ready_queue) \o InOrder(Due \ Held)
    BY DEF Placing
  <2> DEFINE q == Tail(p.ready_queue)
             r == InOrder(Due \ Held)
  <2>3. q \in Seq(RuleSet) /\ r \in Seq(RuleSet) /\ Distinct(q) /\ Distinct(r)
    BY <1>6, <1>8
  <2>6. Elems(q) \cap Elems(r) = {}
    BY <2>1
  <2> HIDE DEF q, r
  <2>4. Elems(q \o r) = Elems(q) \cup Elems(r) /\ Distinct(q \o r)
    BY <2>6, <2>3, JoinLists
  <2>5. QED
    BY <2>2, <2>4, <1>6, <1>8 DEF q, r
<1>10. /\ Elems(p'.next_queue) = Elems(p.next_queue) \cup (Due \cap Held)
       /\ Distinct(p'.next_queue)
  <2>1. Elems(p.next_queue) \cap Elems(InOrder(Due \cap Held)) = {}
    BY <1>4, <1>8
  <2>2. p'.next_queue = p.next_queue \o InOrder(Due \cap Held)
    BY DEF Placing
  <2> DEFINE q == p.next_queue
             r == InOrder(Due \cap Held)
  <2>3. q \in Seq(RuleSet) /\ r \in Seq(RuleSet) /\ Distinct(q) /\ Distinct(r)
    BY <1>5, <1>8
  <2>6. Elems(q) \cap Elems(r) = {}
    BY <2>1
  <2> HIDE DEF q, r
  <2>4. Elems(q \o r) = Elems(q) \cup Elems(r) /\ Distinct(q \o r)
    BY <2>6, <2>3, JoinLists
  <2>5. QED
    BY <2>2, <2>4, <1>8 DEF q, r
<1>11. Settled' = Settled
  BY DEF Placing, Settled
<1>12. /\ Elems(p'.partition) = Elems(p.partition) \cup {Taken}
       /\ Distinct(p'.partition)
       /\ p'.partition # << >>
  <2>1. p'.partition = Append(p.partition, Taken) /\ Taken \notin Elems(p.partition)
    BY <1>2 DEF Placing, Placed
  <2>2. QED
    BY <2>1, <1>2, <1>5, AppendOne
<1>13. Placed' = Placed \cup {Taken}
  BY <1>11, <1>12 DEF Placed
<1>14. QueuesApart'
  <2>1. Taken \notin Elems(p.next_queue) /\ Taken \notin Settled
    BY <1>2, <1>5 DEF Placed
  <2>2. Elems(p'.ready_queue) \cap Elems(p'.next_queue) = {}
    BY <1>4, <1>5, <1>9, <1>10
  <2>3. Elems(p'.ready_queue) \cap (Placed \cup {Taken}) = {}
    BY <1>2, <1>4, <1>5, <1>9
  <2>4. Elems(p'.next_queue) \cap (Placed \cup {Taken}) = {}
    BY <2>1, <1>2, <1>4, <1>5, <1>10
  <2>5. Elems(p'.partition) \cap Settled = {}
    BY <2>1, <1>5, <1>12
  <2>6. QED
    BY <2>2, <2>3, <2>4, <2>5, <1>9, <1>10, <1>11, <1>12, <1>13 DEF QueuesApart
<1>15. StrataApart'
  BY DEF OrderingInv, StrataApart, Placing
<1>16. AllQueued'
  <2>1. p'.output = p.output \cup Due
    BY DEF Placing
  <2>2. p.output \cup Roots = Placed \cup Elems(p.ready_queue) \cup Elems(p.next_queue)
    BY DEF OrderingInv, AllQueued
  <2>3. p'.output \cup Roots' = Placed' \cup Elems(p'.ready_queue) \cup Elems(p'.next_queue)
    BY <2>1, <2>2, <1>1, <1>2, <1>9, <1>10, <1>13
  <2>4. QED
    BY <2>3 DEF AllQueued
<1>17. Blocked' = Blocked \ Due
  BY <1>1 DEF Blocked, Placing
<1>18. Counts'
  <2>1. ASSUME NEW j \in RuleSet \ p'.output
        PROVE  p'.num_predecessors[j] = Cardinality(predecessors(p.rules, j) \ (Placed \cup {Taken}))
    <3>1. j \in RuleSet \ p.output /\ j \in RuleSet
      BY DEF Placing
    <3>2. CASE Taken \in predecessors(p.rules, j)
      <4>1. Edge(p.rules, Taken, j) # "none"
        BY <1>2, <3>2, Predecessors
      <4>2. p.num_predecessors[j] # 0
            /\ Cardinality(predecessors(p.rules, j) \ (Placed \cup {Taken})) = p.num_predecessors[j] - 1
        BY <1>2, <3>1, <3>2
      <4>3. p'.num_predecessors[j] = p.num_predecessors[j] - 1
        BY <3>1, <4>1, <4>2 DEF Placing
      <4>4. QED
        BY <4>2, <4>3
    <3>3. CASE Taken \notin predecessors(p.rules, j)
      <4>1. Edge(p.rules, Taken, j) = "none"
        BY <1>2, <3>3, Predecessors
      <4>2. p'.num_predecessors[j] = p.num_predecessors[j]
        BY <3>1, <4>1 DEF Placing
      <4>3. predecessors(p.rules, j) \ (Placed \cup {Taken}) = predecessors(p.rules, j) \ Placed
        BY <3>3
      <4>4. p.num_predecessors[j] = Cardinality(predecessors(p.rules, j) \ Placed)
        BY <3>1 DEF OrderingInv, Counts
      <4>5. QED
        BY <4>2, <4>3, <4>4
    <3>4. QED
      BY <3>2, <3>3
  <2>2. ASSUME NEW j \in Blocked' PROVE p'.num_predecessors[j] # 0
    <3>1. j \in Blocked \ Due /\ j \in RuleSet \ p'.output
      BY <1>17, <1>3, BlockedIn DEF Placing
    <3>2. ~(predecessors(p.rules, j) \subseteq Placed \cup {Taken})
      BY <1>2, <3>1
    <3>3. IsFiniteSet(predecessors(p.rules, j) \ (Placed \cup {Taken}))
      BY PredecessorsFinite, FS_Difference
    <3>4. Cardinality(predecessors(p.rules, j) \ (Placed \cup {Taken})) # 0
      BY <3>2, <3>3, FS_EmptySet
    <3>5. QED
      BY <2>1, <3>1, <3>4
  <2>3. QED
    BY <2>1, <2>2, <1>1, <1>13 DEF Counts
<1>19. Between'
  BY <1>12 DEF Between, OrderingInv, Placing
<1>20. QED
  BY <1>9, <1>11, <1>12, <1>13, <1>14, <1>15, <1>16, <1>18, <1>19 DEF OrderingInv

\* Placing a rule keeps every rule after what it uses.
LEMMA PlaceAfter ==
    ASSUME p \in Fields, OrderingInv, p.ready_queue # << >>, Placing,
           AfterWhatItUses, StrataOrdered
    PROVE  AfterWhatItUses' /\ StrataOrdered'
<1>1. /\ RuleSet' = RuleSet
      /\ Roots' = Roots
      /\ \A h, j : Edge(p'.rules, h, j) = Edge(p.rules, h, j)
      /\ \A j : predecessors(p'.rules, j) = predecessors(p.rules, j)
  BY SameRules DEF Placing
<1>2. /\ Placed' = Placed \cup {Taken}
      /\ Settled' = Settled
      /\ Elems(p'.partition) = Elems(p.partition) \cup {Taken}
      /\ Elems(p'.ready_queue) = (Elems(p.ready_queue) \ {Taken}) \cup (Due \ Held)
  BY PlaceOrdering
<1>3. /\ Taken \in RuleSet /\ Taken \in Elems(p.ready_queue) /\ Due \subseteq Blocked
      /\ \A j \in Due : predecessors(p.rules, j) \subseteq Placed \cup {Taken}
  BY DueRules
<1>4. \A j \in p'.output \cup Roots' : predecessors(p'.rules, j) \subseteq Placed'
  <2>1. p'.output = p.output \cup Due
    BY DEF Placing
  <2>2. QED
    BY <2>1, <1>1, <1>2, <1>3 DEF AfterWhatItUses
<1>5. \A j \in Settled' : predecessors(p'.rules, j) \subseteq Settled'
  BY <1>1, <1>2 DEF AfterWhatItUses
<1>6. ASSUME NEW h \in Elems(p'.partition), NEW j \in RuleSet, Edge(p.rules, h, j) = "negative"
      PROVE  j \in Held
  BY <1>2, <1>6 DEF Held, AfterWhatItUses
<1>7. ASSUME NEW h \in RuleSet, NEW j \in Elems(p'.ready_queue) \cup Elems(p'.partition),
             Edge(p.rules, h, j) = "negative"
      PROVE  h \in Settled
  <2>1. CASE j \in Elems(p.ready_queue) \cup Elems(p.partition)
    BY <2>1, <1>7 DEF AfterWhatItUses
  <2>2. CASE j \in Due \ Held
    <3>1. h \in Placed \cup {Taken} /\ j \in RuleSet
      BY <2>2, <1>3, <1>7, Predecessors, BlockedIn
    <3>2. h \notin Elems(p'.partition)
      BY <2>2, <3>1, <1>6, <1>7
    <3>3. QED
      BY <3>1, <3>2, <1>2 DEF Placed
  <2>3. QED
    BY <2>1, <2>2, <1>2, <1>3
<1>8. AfterWhatItUses'
  <2>1. p'.uses_negative = Held
    BY DEF Placing
  <2>2. QED
    BY <2>1, <1>1, <1>2, <1>4, <1>5, <1>6, <1>7 DEF AfterWhatItUses
<1>9. StrataOrdered'
  BY <1>1 DEF StrataOrdered, InStratum, Placing
<1>10. QED
  BY <1>8, <1>9

-----------------------------------------------------------------------------
(* The end of a partition.                                                 *)

\* The fields after a partition is full.
Turning ==
    /\ p'.rules = p.rules
    /\ p'.num_predecessors = p.num_predecessors
    /\ p'.output = p.output
    /\ p'.uses_negative = {}
    /\ p'.ready_queue = p.next_queue
    /\ p'.next_queue = << >>
    /\ p'.partition = << >>
    /\ p'.stratification = Append(p.stratification, p.partition)
    /\ p'.visited = p.visited
    /\ p'.path = p.path
    /\ p'.todo = p.todo
    /\ \/ /\ p.next_queue = << >>
          /\ \E j \in RuleSet : j \notin p.output /\ p.num_predecessors[j] # 0
          /\ p'.candidates = {j \in RuleSet : j \notin p.output /\ p.num_predecessors[j] > 0}
          /\ p'.status = "searching"
       \/ /\ \/ p.next_queue # << >>
             \/ \A j \in RuleSet : j \in p.output \/ p.num_predecessors[j] = 0
          /\ p'.candidates = p.candidates
          /\ p'.status = p.status

LEMMA TurningFields ==
    ASSUME p \in Fields, p' = order_rules_next(p), p.ready_queue = << >>
    PROVE  Turning /\ (p \in Fields)'
<1> DEFINE r == [p EXCEPT !.stratification = Append(@, p.partition), !.partition = << >>]
           q == reset_stratification(r)
<1>1. DOMAIN p = {"rules", "num_predecessors", "output", "uses_negative", "ready_queue",
                  "next_queue", "partition", "stratification", "candidates", "visited",
                  "path", "todo", "status"}
  BY DEF Fields
<1>2. << >> \o p.next_queue = p.next_queue
  <2>1. p.next_queue \in Seq(RuleSet)
    BY DEF Fields
  <2>2. QED
    BY <2>1, ConcatEmptySeq
<1>3. /\ q.rules = p.rules /\ q.num_predecessors = p.num_predecessors /\ q.output = p.output
      /\ q.uses_negative = {} /\ q.ready_queue = p.next_queue
      /\ q.next_queue = << >> /\ q.partition = << >>
      /\ q.stratification = Append(p.stratification, p.partition) /\ q.candidates = p.candidates
      /\ q.visited = p.visited /\ q.path = p.path /\ q.todo = p.todo /\ q.status = p.status
      /\ DOMAIN q = DOMAIN p
  BY <1>1, <1>2 DEF reset_stratification
<1>4. q \in Fields
  <2>1. Append(p.stratification, p.partition) \in Seq(Seq(RuleSet)) /\ << >> \in Seq(RuleSet)
    BY DEF Fields
  <2>2. r \in Fields /\ r.ready_queue = << >> /\ r.next_queue = p.next_queue
    BY <2>1 DEF Fields
  <2> HIDE DEF r
  <2>3. QED
    BY <2>1, <2>2, <1>2 DEF reset_stratification, Fields
<1> HIDE DEF q
<1>5. p' = IF q.ready_queue = << >> /\ ~topological_sort_finished(q) THEN handle_cycle(q) ELSE q
  BY DEF order_rules_next, q
<1>6. topological_sort_finished(q) <=>
          \A j \in RuleSet : j \in p.output \/ p.num_predecessors[j] = 0
  BY <1>3 DEF topological_sort_finished, RuleSet
<1>7. CASE q.ready_queue = << >> /\ ~topological_sort_finished(q)
  <2> DEFINE c == {j \in RuleSet : j \notin p.output /\ p.num_predecessors[j] > 0}
  <2>1. p' = [q EXCEPT !.status = "searching", !.candidates = c]
    BY <1>3, <1>5, <1>7 DEF handle_cycle, RuleSet
  <2>2. c \in SUBSET RuleSet
    OBVIOUS
  <2> HIDE DEF c
  <2>3. Turning
    BY <2>1, <1>1, <1>3, <1>6, <1>7 DEF Turning, c
  <2>4. p' \in Fields
    BY <2>1, <2>2, <1>4 DEF Fields
  <2>5. RuleSet' = RuleSet
    BY <2>3, SameRules DEF Turning
  <2>6. QED
    BY <2>3, <2>4, <2>5 DEF Fields
<1>8. CASE ~(q.ready_queue = << >> /\ ~topological_sort_finished(q))
  <2>1. p' = q
    BY <1>5, <1>8
  <2>2. Turning
    BY <2>1, <1>3, <1>6, <1>8 DEF Turning
  <2>3. RuleSet' = RuleSet
    BY <2>2, SameRules DEF Turning
  <2>4. QED
    BY <2>1, <2>2, <2>3, <1>4 DEF Fields
<1>9. QED
  BY <1>7, <1>8

\* What a full partition adds to the strata.
LEMMA NewStratum ==
    ASSUME p \in Fields, p'.stratification = Append(p.stratification, p.partition)
    PROVE  /\ Len(p.stratification) \in Nat
           /\ Len(p'.stratification) = Len(p.stratification) + 1
           /\ p'.stratification[Len(p.stratification) + 1] = p.partition
           /\ \A k \in 1..Len(p.stratification) : p'.stratification[k] = p.stratification[k]
           /\ DOMAIN p.stratification = 1..Len(p.stratification)
           /\ DOMAIN p'.stratification = 1..Len(p'.stratification)
           /\ Settled' = Settled \cup Elems(p.partition)
<1>1. p.stratification \in Seq(Seq(RuleSet)) /\ p.partition \in Seq(RuleSet)
  BY DEF Fields
<1>2. /\ Len(p.stratification) \in Nat
      /\ Len(p'.stratification) = Len(p.stratification) + 1
      /\ p'.stratification[Len(p.stratification) + 1] = p.partition
      /\ \A k \in 1..Len(p.stratification) : p'.stratification[k] = p.stratification[k]
      /\ DOMAIN p.stratification = 1..Len(p.stratification)
      /\ DOMAIN p'.stratification = 1..Len(p'.stratification)
  BY <1>1
<1>3. ASSUME NEW x \in Settled' PROVE x \in Settled \cup Elems(p.partition)
  <2>1. PICK k \in 1..Len(p'.stratification) : x \in Elems(p'.stratification[k])
    BY <1>3 DEF Settled
  <2>2. CASE k \in 1..Len(p.stratification)
    BY <2>1, <2>2, <1>2 DEF Settled
  <2>3. CASE k \notin 1..Len(p.stratification)
    <3>1. k = Len(p.stratification) + 1
      BY <2>3, <1>2
    <3>2. QED
      BY <3>1, <2>1, <1>2
  <2>4. QED
    BY <2>2, <2>3
<1>4. ASSUME NEW x \in Settled PROVE x \in Settled'
  <2>1. PICK k \in 1..Len(p.stratification) : x \in Elems(p.stratification[k])
    BY <1>4 DEF Settled
  <2>2. k \in 1..Len(p'.stratification) /\ p'.stratification[k] = p.stratification[k]
    BY <1>2
  <2>3. QED
    BY <2>1, <2>2 DEF Settled
<1>5. Elems(p.partition) \subseteq Settled'
  <2>1. Len(p.stratification) + 1 \in 1..Len(p'.stratification)
    BY <1>2
  <2>2. QED
    BY <2>1, <1>2 DEF Settled
<1>6. QED
  BY <1>2, <1>3, <1>4, <1>5

\* A rule in a stratum is settled, and a settled rule is in a stratum.
LEMMA InStrata ==
    ASSUME p \in Fields
    PROVE  /\ DOMAIN p.stratification = 1..Len(p.stratification)
           /\ \A i : i \in Settled <=> \E k \in DOMAIN p.stratification : InStratum(i, k)
           /\ \A k \in DOMAIN p.stratification :
                  /\ p.stratification[k] \in Seq(RuleSet)
                  /\ DOMAIN p.stratification[k] = 1..Len(p.stratification[k])
                  /\ \A i : InStratum(i, k) <=> i \in Elems(p.stratification[k])
<1>1. p.stratification \in Seq(Seq(RuleSet))
  BY DEF Fields
<1>2. DOMAIN p.stratification = 1..Len(p.stratification)
  BY <1>1
<1>3. ASSUME NEW k \in DOMAIN p.stratification
      PROVE  /\ p.stratification[k] \in Seq(RuleSet)
             /\ DOMAIN p.stratification[k] = 1..Len(p.stratification[k])
             /\ \A i : InStratum(i, k) <=> i \in Elems(p.stratification[k])
  <2>1. p.stratification[k] \in Seq(RuleSet)
    BY <1>1, <1>3
  <2>2. DOMAIN p.stratification[k] = 1..Len(p.stratification[k])
    BY <2>1
  <2>3. QED
    BY <2>1, <2>2 DEF InStratum, Elems
<1>4. \A i : i \in Settled <=> \E k \in DOMAIN p.stratification : InStratum(i, k)
  BY <1>2, <1>3 DEF Settled
<1>5. QED
  BY <1>2, <1>3, <1>4

\* A search begins with every rule that waits as a candidate.
LEMMA SearchStarts ==
    ASSUME (p \in Fields)', OrderingInv', p'.ready_queue = << >>, p'.partition = << >>,
           p'.visited = {}, p'.path = << >>, p'.todo = << >>,
           \E j \in RuleSet' : j \notin p'.output /\ p'.num_predecessors[j] # 0,
           p'.candidates = {j \in RuleSet' : j \notin p'.output /\ p'.num_predecessors[j] > 0}
    PROVE  SearchInv'
<1>1. \A j \in RuleSet' : j \notin p'.output => p'.num_predecessors[j] \in Nat
  BY DEF Fields
<1>2. ASSUME NEW j \in Roots', j \notin p'.output PROVE p'.num_predecessors[j] = 0
  <2>1. j \in RuleSet' /\ predecessors(p'.rules, j) \ Placed' = {}
    BY DEF Roots
  <2>2. p'.num_predecessors[j] = Cardinality(predecessors(p'.rules, j) \ Placed')
    BY <2>1, <1>2 DEF OrderingInv, Counts
  <2>3. QED
    BY <2>1, <2>2, FS_EmptySet
<1>3. \A j \in Blocked' : j \in RuleSet' /\ j \notin p'.output /\ p'.num_predecessors[j] # 0
  BY DEF Blocked, OrderingInv, Counts
<1>4. p'.candidates = Blocked'
  <2>1. \A j \in p'.candidates : j \in Blocked'
    BY <1>2 DEF Blocked
  <2>2. \A j \in Blocked' : j \in p'.candidates
    BY <1>1, <1>3
  <2>3. QED
    BY <2>1, <2>2
<1>5. Blocked' # {}
  BY <1>2 DEF Blocked
<1>6. Elems(p'.path) = {} /\ Len(p'.path) = 0 /\ Len(p'.todo) = 0
  BY DEF Elems
<1>7. Done' = {}
  BY DEF Done
<1>8. Stack'
  BY <1>6 DEF Stack, Distinct
<1>9. Progress'
  BY <1>6 DEF Progress
<1>10. DoneEnds'
  BY <1>7 DEF DoneEnds
<1>11. Tried'
  BY <1>4 DEF Tried
<1>12. QED
  BY <1>5, <1>8, <1>9, <1>10, <1>11 DEF SearchInv

\* The end of a partition keeps the lists apart and the counts right; a search begins only
\* when every rule that is left waits for another.
LEMMA TurnOrdering ==
    ASSUME p \in Fields, (p \in Fields)', OrderingInv, p.status = "ordering",
           p.ready_queue = << >>, Turning
    PROVE  OrderingInv' /\ (p'.status = "searching" => SearchInv')
<1>1. /\ RuleSet' = RuleSet
      /\ Roots' = Roots
      /\ \A h, j : Edge(p'.rules, h, j) = Edge(p.rules, h, j)
      /\ \A j : predecessors(p'.rules, j) = predecessors(p.rules, j)
  BY SameRules DEF Turning
<1>2. /\ Len(p.stratification) \in Nat
      /\ Len(p'.stratification) = Len(p.stratification) + 1
      /\ p'.stratification[Len(p.stratification) + 1] = p.partition
      /\ \A k \in 1..Len(p.stratification) : p'.stratification[k] = p.stratification[k]
      /\ Settled' = Settled \cup Elems(p.partition)
  BY NewStratum DEF Turning
<1>3. Elems(<< >>) = {} /\ Distinct(<< >>)
  BY DEF Elems, Distinct
<1>4. Placed' = Placed /\ Settled' = Placed
  BY <1>2, <1>3 DEF Placed, Turning
<1>5. Elems(p'.ready_queue) = Elems(p.next_queue) /\ Elems(p'.next_queue) = {}
      /\ Elems(p'.partition) = {} /\ Elems(p.ready_queue) = {}
  BY <1>3 DEF Turning
<1>6. QueuesApart'
  BY <1>3, <1>4, <1>5 DEF QueuesApart, OrderingInv, Turning
<1>7. StrataApart'
  <2> DEFINE m == Len(p.stratification)
             s == p'.stratification
  <2>1. \A k, l \in 1..m : \A a \in 1..Len(s[k]), b \in 1..Len(s[l]) :
            s[k][a] = s[l][b] => k = l /\ a = b
    <3> DEFINE o == p.stratification
    <3>1. \A k \in 1..m : s[k] = o[k]
      BY <1>2
    <3>2. \A k, l \in 1..m : \A a \in 1..Len(o[k]), b \in 1..Len(o[l]) :
              o[k][a] = o[l][b] => k = l /\ a = b
      BY DEF OrderingInv, StrataApart
    <3> HIDE DEF o, s, m
    <3>3. QED
      BY <3>1, <3>2
  <2>2. \A a, b \in 1..Len(s[m + 1]) : s[m + 1][a] = s[m + 1][b] => a = b
    BY <1>2 DEF OrderingInv, QueuesApart, Distinct
  <2>3. ASSUME NEW k \in 1..m, NEW a \in 1..Len(s[k]), NEW b \in 1..Len(s[m + 1]),
               s[k][a] = s[m + 1][b]
        PROVE  FALSE
    <3>1. s[k][a] \in Settled
      <4>1. s[k] = p.stratification[k]
        BY <1>2
      <4>2. s[k][a] \in Elems(s[k])
        BY DEF Elems
      <4> HIDE DEF s
      <4>3. QED
        BY <4>1, <4>2 DEF Settled
    <3>2. s[m + 1][b] \in Elems(p.partition)
      BY <1>2, <2>3 DEF Elems
    <3>3. QED
      BY <3>1, <3>2, <2>3 DEF OrderingInv, QueuesApart
  <2>4. \A k \in 1..Len(s) : k \in 1..m \/ k = m + 1
    BY <1>2
  <2> HIDE DEF s, m
  <2>5. \A k, l \in 1..Len(s) : \A a \in 1..Len(s[k]), b \in 1..Len(s[l]) :
            s[k][a] = s[l][b] => k = l /\ a = b
    <3> SUFFICES ASSUME NEW k \in 1..Len(s), NEW l \in 1..Len(s),
                        NEW a \in 1..Len(s[k]), NEW b \in 1..Len(s[l]), s[k][a] = s[l][b]
                 PROVE  k = l /\ a = b
      OBVIOUS
    <3>1. CASE k \in 1..m /\ l \in 1..m
      BY <3>1, <2>1
    <3>2. CASE k \in 1..m /\ l = m + 1
      BY <3>2, <2>3
    <3>3. CASE k = m + 1 /\ l \in 1..m
      BY <3>3, <2>3
    <3>4. CASE k = m + 1 /\ l = m + 1
      BY <3>4, <2>2
    <3>5. QED
      BY <3>1, <3>2, <3>3, <3>4, <2>4
  <2>6. QED
    BY <2>5 DEF StrataApart, s
<1>8. AllQueued'
  BY <1>1, <1>4, <1>5 DEF AllQueued, OrderingInv, Turning
<1>9. Blocked' = Blocked
  BY <1>1 DEF Blocked, Turning
<1>10. Counts'
  BY <1>1, <1>4, <1>9 DEF Counts, OrderingInv, Turning
<1>11. ASSUME p.next_queue = << >>,
              \A j \in RuleSet : j \in p.output \/ p.num_predecessors[j] = 0
       PROVE  Blocked = {}
  BY <1>11 DEF OrderingInv, Counts, Blocked
<1>12. Between'
  BY <1>9, <1>11 DEF Between, OrderingInv, Turning
<1>13. OrderingInv'
  BY <1>6, <1>7, <1>8, <1>10, <1>12 DEF OrderingInv
<1>14. ASSUME p'.status = "searching" PROVE SearchInv'
  <2>1. /\ p'.visited = {} /\ p'.path = << >> /\ p'.todo = << >>
        /\ p'.ready_queue = << >> /\ p'.partition = << >>
    BY <1>14 DEF Turning, OrderingInv, Between
  <2>2. \E j \in RuleSet' : j \notin p'.output /\ p'.num_predecessors[j] # 0
    BY <1>1, <1>14 DEF Turning
  <2>3. p'.candidates = {j \in RuleSet' : j \notin p'.output /\ p'.num_predecessors[j] > 0}
    BY <1>1, <1>14 DEF Turning
  <2>4. QED
    BY <1>13, <2>1, <2>2, <2>3, SearchStarts
<1>15. QED
  BY <1>13, <1>14

\* The end of a partition puts its rules above all they use, and above what they negate.
LEMMA TurnAfter ==
    ASSUME p \in Fields, (p \in Fields)', OrderingInv, p.ready_queue = << >>, Turning,
           AfterWhatItUses, StrataOrdered
    PROVE  AfterWhatItUses' /\ StrataOrdered'
<1>1. /\ RuleSet' = RuleSet
      /\ Roots' = Roots
      /\ \A h, j : Edge(p'.rules, h, j) = Edge(p.rules, h, j)
      /\ \A j : predecessors(p'.rules, j) = predecessors(p.rules, j)
  BY SameRules DEF Turning
<1>2. /\ Len(p.stratification) \in Nat
      /\ Len(p'.stratification) = Len(p.stratification) + 1
      /\ p'.stratification[Len(p.stratification) + 1] = p.partition
      /\ \A k \in 1..Len(p.stratification) : p'.stratification[k] = p.stratification[k]
      /\ DOMAIN p.stratification = 1..Len(p.stratification)
      /\ DOMAIN p'.stratification = 1..Len(p'.stratification)
      /\ Settled' = Settled \cup Elems(p.partition)
  BY NewStratum DEF Turning
<1>3. Elems(<< >>) = {}
  BY DEF Elems
<1>4. Placed' = Placed /\ Settled' = Placed
  BY <1>2, <1>3 DEF Placed, Turning
<1>5. /\ Elems(p'.ready_queue) = Elems(p.next_queue) /\ Elems(p'.partition) = {}
      /\ p'.output = p.output
  BY <1>3 DEF Turning
<1>6. \A j \in Placed \cup Elems(p.next_queue) : predecessors(p.rules, j) \subseteq Placed
  BY DEF OrderingInv, AllQueued, AfterWhatItUses
<1>7. AfterWhatItUses'
  <2>1. \A h \in RuleSet, j \in Elems(p'.ready_queue) :
            Edge(p.rules, h, j) = "negative" => h \in Placed
    BY <1>5, <1>6, Predecessors
  <2>2. \A j \in p.output \cup Roots : predecessors(p.rules, j) \subseteq Placed
    BY DEF AfterWhatItUses
  <2>3. QED
    BY <2>1, <2>2, <1>1, <1>4, <1>5, <1>6 DEF AfterWhatItUses
<1>8. ASSUME NEW k \in DOMAIN p'.stratification, NEW l \in DOMAIN p'.stratification,
             NEW i \in RuleSet, NEW j \in RuleSet, InStratum(i, k)', InStratum(j, l)',
             Edge(p.rules, i, j) # "none"
      PROVE  k <= l /\ (Edge(p.rules, i, j) = "negative" => k < l)
  <2> DEFINE m == Len(p.stratification)
  <2>1. /\ (k \in 1..m /\ InStratum(i, k)) \/ (k = m + 1 /\ i \in Elems(p.partition))
        /\ (l \in 1..m /\ InStratum(j, l)) \/ (l = m + 1 /\ j \in Elems(p.partition))
    <3>1. DOMAIN p.partition = 1..Len(p.partition)
      BY DEF Fields
    <3>2. /\ k \in 1..m => InStratum(i, k)
          /\ l \in 1..m => InStratum(j, l)
      BY <1>2, <1>8 DEF InStratum
    <3>3. /\ k = m + 1 => i \in Elems(p.partition)
          /\ l = m + 1 => j \in Elems(p.partition)
      BY <3>1, <1>2, <1>8 DEF InStratum, Elems
    <3>4. QED
      BY <3>2, <3>3, <1>2
  <2>2. i \in predecessors(p.rules, j)
    BY <1>8, Predecessors
  <2>3. /\ k \in 1..m => i \in Settled
        /\ l \in 1..m => j \in Settled
    BY <2>1, <1>2, InStrata
  <2>4. Elems(p.partition) \cap Settled = {}
    BY DEF OrderingInv, QueuesApart
  <2>5. CASE k \in 1..m /\ l \in 1..m
    <3>1. InStratum(i, k) /\ InStratum(j, l)
      BY <2>1, <2>5, <1>2
    <3>2. QED
      BY <3>1, <2>5, <1>2, <1>8 DEF StrataOrdered
  <2>6. CASE k \in 1..m /\ l = m + 1
    BY <2>6, <1>2
  <2>7. CASE k = m + 1 /\ l \in 1..m
    <3>1. i \in Settled
      BY <2>2, <2>3, <2>7 DEF AfterWhatItUses
    <3>2. i \in Elems(p.partition)
      BY <2>1, <2>7, <1>2
    <3>3. QED
      BY <3>1, <3>2, <2>4
  <2>8. CASE k = m + 1 /\ l = m + 1
    <3>1. i \in Elems(p.partition) /\ j \in Elems(p.partition)
      BY <2>1, <2>8, <1>2
    <3>2. Edge(p.rules, i, j) # "negative"
      BY <3>1, <2>4 DEF AfterWhatItUses
    <3>3. QED
      BY <3>2, <2>8, <1>2
  <2>9. QED
    BY <2>5, <2>6, <2>7, <2>8, <1>2
<1>9. StrataOrdered'
  BY <1>1, <1>8 DEF StrataOrdered
<1>10. QED
  BY <1>7, <1>9

-----------------------------------------------------------------------------
(* The search for a cycle.                                                 *)

\* The call of dfs_cycle that is running, and the rule its loop is at.
Top == Len(p.path)

Called == First(p.todo[Top])

\* The search leaves the ordering as it is.
SameOrdering ==
    /\ p'.rules = p.rules
    /\ p'.num_predecessors = p.num_predecessors
    /\ p'.output = p.output
    /\ p'.uses_negative = p.uses_negative
    /\ p'.ready_queue = p.ready_queue
    /\ p'.next_queue = p.next_queue
    /\ p'.partition = p.partition
    /\ p'.stratification = p.stratification

Starting ==
    /\ p.path = << >> /\ p.candidates # {}
    /\ p'.candidates = p.candidates \ {First(p.candidates)}
    /\ p'.visited = {First(p.candidates)}
    /\ p'.path = Append(p.path, First(p.candidates))
    /\ p'.todo = Append(p.todo, Unplaced(p, First(p.candidates)))
    /\ p'.status = p.status
    /\ SameOrdering

Calling ==
    /\ p.path # << >> /\ p.todo[Top] # {} /\ Called \notin p.visited
    /\ p'.candidates = p.candidates
    /\ p'.visited = p.visited \cup {Called}
    /\ p'.path = Append(p.path, Called)
    /\ p'.todo = Append([p.todo EXCEPT ![Top] = @ \ {Called}], Unplaced(p, Called))
    /\ p'.status = p.status
    /\ SameOrdering

Skipping ==
    /\ p.path # << >> /\ p.todo[Top] # {}
    /\ Called \in p.visited /\ Called \notin Elems(p.path)
    /\ p'.candidates = p.candidates
    /\ p'.visited = p.visited
    /\ p'.path = p.path
    /\ p'.todo = [p.todo EXCEPT ![Top] = @ \ {Called}]
    /\ p'.status = p.status
    /\ SameOrdering

Returning ==
    /\ p.path # << >> /\ p.todo[Top] = {}
    /\ p'.candidates = p.candidates
    /\ p'.visited = p.visited
    /\ p'.path = SubSeq(p.path, 1, Top - 1)
    /\ p'.todo = SubSeq(p.todo, 1, Top - 1)
    /\ p'.status = p.status
    /\ SameOrdering

Refusing ==
    /\ p'.candidates = p.candidates
    /\ p'.visited = p.visited
    /\ p'.path = p.path
    /\ p'.todo = p.todo
    /\ p'.status = "not_stratifiable"
    /\ SameOrdering

Ending ==
    /\ p.path = << >> => p.candidates = {}
    /\ p'.rules = p.rules
    /\ p'.num_predecessors = p.num_predecessors
    /\ p'.output = p.output \cup Elems(p.path)
    /\ p'.uses_negative = p.uses_negative
    /\ p'.ready_queue = p.path
    /\ p'.next_queue = p.next_queue
    /\ p'.partition = p.partition
    /\ p'.stratification = p.stratification
    /\ p'.candidates = {}
    /\ p'.visited = {}
    /\ p'.path = << >>
    /\ p'.todo = << >>
    /\ p'.status = "ordering"

Searching == Starting \/ Calling \/ Skipping \/ Returning \/ Refusing \/ Ending

\* The end of a search.
LEMMA EndingFields ==
    ASSUME p \in Fields, p.ready_queue = << >>, p' = EndSearch(p),
           p.path = << >> => p.candidates = {}
    PROVE  Ending /\ (p \in Fields)'
<1>1. DOMAIN p = {"rules", "num_predecessors", "output", "uses_negative", "ready_queue",
                  "next_queue", "partition", "stratification", "candidates", "visited",
                  "path", "todo", "status"}
  BY DEF Fields
<1>2. p.path \in Seq(RuleSet) /\ << >> \o p.path = p.path
  <2>1. p.path \in Seq(RuleSet)
    BY DEF Fields
  <2>2. QED
    BY <2>1, ConcatEmptySeq
<1>3. Ending
  BY <1>1, <1>2 DEF EndSearch, Ending, Elems
<1>4. Elems(p.path) \in SUBSET RuleSet
  BY <1>2 DEF Elems
<1>5. p' \in Fields
  <2>1. p' = [p EXCEPT !.output = p.output \cup Elems(p.path), !.ready_queue = p.path,
                       !.candidates = {}, !.visited = {}, !.path = << >>, !.todo = << >>,
                       !.status = "ordering"]
    BY <1>2 DEF EndSearch, Elems
  <2>2. p.output \cup Elems(p.path) \in SUBSET RuleSet
    BY <1>4 DEF Fields
  <2>3. << >> \in Seq(RuleSet) /\ << >> \in Seq(SUBSET RuleSet)
    OBVIOUS
  <2> DEFINE o == p.output \cup Elems(p.path)
             r == [p EXCEPT !.output = o, !.ready_queue = p.path]
  <2> HIDE DEF o
  <2>4. r \in Fields
    BY <2>2, <1>2 DEF Fields, o
  <2>5. p' = [r EXCEPT !.candidates = {}, !.visited = {}, !.path = << >>, !.todo = << >>,
                       !.status = "ordering"]
    BY <2>1, <1>1 DEF o
  <2> HIDE DEF r
  <2>6. QED
    BY <2>3, <2>4, <2>5 DEF Fields
<1>6. RuleSet' = RuleSet
  BY <1>3, SameRules DEF Ending
<1>7. QED
  BY <1>3, <1>5, <1>6 DEF Fields

\* The fields after one iteration of the search.
LEMMA SearchingFields ==
    ASSUME p \in Fields, SearchInv, p' = find_cycle_step(p)
    PROVE  Searching /\ (p \in Fields)'
<1>1. DOMAIN p = {"rules", "num_predecessors", "output", "uses_negative", "ready_queue",
                  "next_queue", "partition", "stratification", "candidates", "visited",
                  "path", "todo", "status"}
  BY DEF Fields
<1>2. /\ p.path \in Seq(RuleSet) /\ p.todo \in Seq(SUBSET RuleSet) /\ p.visited \in SUBSET RuleSet
      /\ p.candidates \in SUBSET RuleSet
      /\ Len(p.todo) = Top /\ p.ready_queue = << >>
  BY DEF Fields, SearchInv, Stack, Top
<1>3. RuleSet \subseteq Nat
  BY RulesFinite
<1>4. \A i : Unplaced(p, i) \in SUBSET RuleSet
  BY DEF Unplaced, successors, RuleSet
<1>5. ASSUME p'.rules = p.rules, p' \in Fields PROVE (p \in Fields)'
  BY <1>5, SameRules DEF Fields
<1>6. CASE p.path = << >> /\ p.candidates = {}
  <2>1. p' = EndSearch(p)
    BY <1>6 DEF find_cycle_step, start_search
  <2>2. QED
    BY <2>1, <1>2, <1>6, EndingFields DEF Searching
<1>7. CASE p.path = << >> /\ p.candidates # {}
  <2> DEFINE c == First(p.candidates)
             q == [p EXCEPT !.candidates = @ \ {c}, !.visited = {}]
  <2>1. c \in p.candidates /\ c \in RuleSet
    BY <1>2, <1>3, <1>7, FirstOfSet
  <2>2. p' = Enter(q, c)
    BY <1>7 DEF find_cycle_step, start_search
  <2>3. Unplaced(q, c) = Unplaced(p, c)
    BY <1>1 DEF Unplaced
  <2> HIDE DEF c
  <2>4. p' = [p EXCEPT !.candidates = p.candidates \ {c}, !.visited = {c},
                       !.path = Append(p.path, c), !.todo = Append(p.todo, Unplaced(p, c))]
    BY <2>2, <2>3, <1>1 DEF Enter
  <2>5. Starting
    BY <2>4, <1>1, <1>7 DEF Starting, SameOrdering, c
  <2>6. Append(p.path, c) \in Seq(RuleSet) /\ Append(p.todo, Unplaced(p, c)) \in Seq(SUBSET RuleSet)
    BY <2>1, <1>2, <1>4
  <2>7. p' \in Fields
    <3> DEFINE r == [p EXCEPT !.candidates = p.candidates \ {c}, !.visited = {c}]
    <3>1. r \in Fields
      BY <2>1, <1>2 DEF Fields
    <3>2. p' = [r EXCEPT !.path = Append(p.path, c), !.todo = Append(p.todo, Unplaced(p, c))]
      BY <2>4, <1>1
    <3> HIDE DEF r
    <3>3. QED
      BY <2>6, <3>1, <3>2 DEF Fields
  <2>8. QED
    BY <2>5, <2>7, <1>5 DEF Searching, Starting, SameOrdering
<1>8. CASE p.path # << >>
  <2>1. p' = dfs_step(p) /\ Top \in Nat \ {0} /\ Top \in 1..Len(p.todo) /\ p.todo[Top] \in SUBSET RuleSet
    BY <1>2, <1>8, EmptySeq DEF find_cycle_step, Top
  <2>2. CASE p.todo[Top] = {}
    <3>1. p' = [p EXCEPT !.path = SubSeq(p.path, 1, Top - 1), !.todo = SubSeq(p.todo, 1, Top - 1)]
      BY <2>1, <2>2 DEF dfs_step, Top
    <3>2. SubSeq(p.path, 1, Top - 1) \in Seq(RuleSet) /\ SubSeq(p.todo, 1, Top - 1) \in Seq(SUBSET RuleSet)
      <4>1. Top - 1 \in Nat /\ Top - 1 <= Len(p.path) /\ Top - 1 <= Len(p.todo)
        BY <2>1, <1>2 DEF Top
      <4>2. QED
        BY <4>1, <1>2, SubSeqProperties
    <3>3. Returning
      BY <3>1, <1>1, <1>8, <2>2 DEF Returning, SameOrdering
    <3>4. p' \in Fields
      BY <3>1, <3>2 DEF Fields
    <3>5. QED
      BY <3>3, <3>4, <1>5 DEF Searching, Returning, SameOrdering
  <2>3. CASE p.todo[Top] # {}
    <3> DEFINE left == [p.todo EXCEPT ![Top] = @ \ {Called}]
               q == [p EXCEPT !.todo = left]
    <3>1. Called \in p.todo[Top] /\ Called \in RuleSet
      BY <2>1, <2>3, <1>3, FirstOfSet DEF Called
    <3>2. left \in Seq(SUBSET RuleSet)
      BY <2>1, <1>2
    <3>3. CASE Edge(p.rules, p.path[Top], Called) = "negative"
      <4>1. p' = [p EXCEPT !.status = "not_stratifiable"]
        BY <2>1, <2>3, <3>3 DEF dfs_step, Top, Called
      <4>2. Refusing /\ p' \in Fields
        BY <4>1, <1>1 DEF Refusing, SameOrdering, Fields
      <4>3. QED
        BY <4>2, <1>5 DEF Searching, Refusing, SameOrdering
    <3>4. CASE Edge(p.rules, p.path[Top], Called) # "negative"
      <4>1. p' = IF Called \notin p.visited THEN Enter(q, Called)
                 ELSE IF \E k \in 1..Top : p.path[k] = Called THEN EndSearch(p) ELSE q
        BY <2>1, <2>3, <3>4 DEF dfs_step, Top, Called
      <4>2. CASE Called \notin p.visited
        <5>1. Unplaced(q, Called) = Unplaced(p, Called) /\ q.visited = p.visited /\ q.path = p.path
              /\ q.todo = left
          BY <1>1 DEF Unplaced
        <5>2. p' = [p EXCEPT !.visited = p.visited \cup {Called}, !.path = Append(p.path, Called),
                             !.todo = Append(left, Unplaced(p, Called))]
          <6>1. p' = [q EXCEPT !.visited = p.visited \cup {Called}, !.path = Append(p.path, Called),
                               !.todo = Append(left, Unplaced(p, Called))]
            BY <4>1, <4>2, <5>1 DEF Enter
          <6> HIDE DEF left
          <6>2. QED
            BY <6>1, <1>1
        <5>3. Calling
          BY <5>2, <4>2, <2>3, <1>1, <1>8 DEF Calling, SameOrdering
        <5>4. Append(p.path, Called) \in Seq(RuleSet) /\ Append(left, Unplaced(p, Called)) \in Seq(SUBSET RuleSet)
          BY <3>1, <3>2, <1>2, <1>4
        <5> HIDE DEF left
        <5>5. p' \in Fields
          <6> DEFINE r == [p EXCEPT !.visited = p.visited \cup {Called}]
          <6>1. r \in Fields
            BY <3>1, <1>2 DEF Fields
          <6>2. p' = [r EXCEPT !.path = Append(p.path, Called), !.todo = Append(left, Unplaced(p, Called))]
            BY <5>2, <1>1
          <6> HIDE DEF r
          <6>3. QED
            BY <5>4, <6>1, <6>2 DEF Fields
        <5>6. QED
          BY <5>3, <5>5, <1>5 DEF Searching, Calling, SameOrdering
      <4>3. CASE Called \in p.visited /\ \E k \in 1..Top : p.path[k] = Called
        <5>1. p' = EndSearch(p)
          BY <4>1, <4>3
        <5>2. QED
          BY <5>1, <1>2, <1>8, EndingFields DEF Searching
      <4>4. CASE Called \in p.visited /\ ~(\E k \in 1..Top : p.path[k] = Called)
        <5>1. p' = q
          BY <4>1, <4>4
        <5>2. Called \notin Elems(p.path)
          BY <4>4 DEF Elems, Top
        <5>3. Skipping
          BY <5>1, <5>2, <4>4, <2>3, <1>1, <1>8 DEF Skipping, SameOrdering
        <5> HIDE DEF left
        <5>4. p' \in Fields
          BY <5>1, <3>2 DEF Fields
        <5>5. QED
          BY <5>3, <5>4, <1>5 DEF Searching, Skipping, SameOrdering
      <4>5. QED
        BY <4>2, <4>3, <4>4
    <3>5. QED
      BY <3>3, <3>4
  <2>4. QED
    BY <2>2, <2>3
<1>9. QED
  BY <1>6, <1>7, <1>8

\* A rule that was not placed and uses another waits.
LEMMA UnplacedBlocked ==
    ASSUME p \in Fields, NEW i \in RuleSet
    PROVE  /\ Unplaced(p, i) \subseteq Blocked
           /\ \A j \in Unplaced(p, i) : Edge(p.rules, i, j) # "none"
<1>1. \A j \in Unplaced(p, i) : j \in RuleSet /\ j \notin p.output /\ Edge(p.rules, i, j) # "none"
  BY DEF Unplaced, successors, RuleSet
<1>2. \A j \in Unplaced(p, i) : j \notin Roots
  BY <1>1, Predecessors DEF Roots
<1>3. QED
  BY <1>1, <1>2 DEF Blocked

\* When every rule that waits is used by one that waits, waiting goes round in circles.
LEMMA WaitingIsCyclic ==
    ASSUME p \in Fields, Blocked # {}, \A j \in Blocked : \E i \in Blocked : j \in Unplaced(p, i)
    PROVE  \E T \in SUBSET Blocked : T # {} /\ Endless(T)
<1> DEFINE C == {T \in SUBSET Blocked : T # {} /\ \A j \in T : \E i \in T : j \in Unplaced(p, i)}
           R == StrictSubsetOrdering(Blocked)
<1>1. IsFiniteSet(Blocked)
  <2>1. Blocked \in SUBSET RuleSet
    BY BlockedIn
  <2>2. QED
    BY <2>1, RulesFinite, FS_Subset
<1>2. IsWellFoundedOn(R, FiniteSubsetsOf(Blocked))
  BY FS_StrictSubsetOrderingWellFounded
<1>3. C \subseteq FiniteSubsetsOf(Blocked) /\ C # {}
  <2>1. Blocked \in C
    OBVIOUS
  <2>2. ASSUME NEW T \in C PROVE T \in FiniteSubsetsOf(Blocked)
    BY <1>1, FS_Subset DEF FiniteSubsetsOf
  <2>3. QED
    BY <2>1, <2>2
<1>4. \A S, T \in SUBSET Blocked : S \subseteq T /\ S # T => <<S, T>> \in R
  BY DEF StrictSubsetOrdering
<1> HIDE DEF R
<1>5. PICK T \in C : \A S \in C : ~(<<S, T>> \in R)
  BY <1>2, <1>3, WFMin
<1>6. T \in SUBSET Blocked /\ T # {} /\ \A j \in T : \E i \in T : j \in Unplaced(p, i)
  BY <1>5
<1>7. ASSUME NEW x \in T, \A j \in T : j \notin Unplaced(p, x)
      PROVE  FALSE
  <2> DEFINE S == T \ {x}
  <2>1. \A j \in S : \E i \in S : j \in Unplaced(p, i)
    BY <1>6, <1>7
  <2>2. S # {}
    <3>1. PICK i \in T : x \in Unplaced(p, i)
      BY <1>6
    <3>2. i # x
      BY <1>7, <3>1
    <3>3. QED
      BY <3>1, <3>2
  <2>3. S \in C
    BY <1>6, <2>1, <2>2
  <2>4. <<S, T>> \in R
    BY <1>4, <1>6, <1>7
  <2>5. QED
    BY <1>5, <2>3, <2>4
<1>8. Endless(T)
  BY <1>7 DEF Endless
<1>9. QED
  BY <1>6, <1>8

\* While a search is on, the rules that wait lead to a cycle, so the search does not come
\* to its end without finding one.
LEMMA SearchMeansCycle ==
    ASSUME p \in Fields, OrderingInv, SearchInv
    PROVE  Cyclic /\ (p.path = << >> => p.candidates # {})
<1>1. p.output \cup Roots = Placed
  <2>1. Elems(p.ready_queue) = {} /\ Elems(p.next_queue) = {}
    BY DEF SearchInv, OrderingInv, Between, Elems
  <2>2. QED
    BY <2>1 DEF OrderingInv, AllQueued
<1>2. ASSUME NEW j \in Blocked PROVE \E i \in Blocked : j \in Unplaced(p, i)
  <2>1. j \in RuleSet \ p.output /\ p.num_predecessors[j] # 0
        /\ p.num_predecessors[j] = Cardinality(predecessors(p.rules, j) \ Placed)
    BY BlockedIn DEF OrderingInv, Counts
  <2>2. PICK i \in predecessors(p.rules, j) : i \notin Placed
    <3>1. predecessors(p.rules, j) \ Placed # {}
      BY <2>1, FS_EmptySet
    <3>2. QED
      BY <3>1
  <2>3. i \in RuleSet
    BY Predecessors
  <2>4. i \in Blocked
    BY <2>2, <2>3, <1>1 DEF Blocked
  <2>5. j \in Unplaced(p, i)
    BY <2>1, <2>2, <2>3, Predecessors DEF Unplaced, successors, RuleSet
  <2>6. QED
    BY <2>4, <2>5
<1>3. PICK T \in SUBSET Blocked : T # {} /\ Endless(T)
  BY <1>2, WaitingIsCyclic DEF SearchInv
<1>4. Endless(T)
  BY <1>3
<1>5. T \in SUBSET RuleSet
  BY <1>3, BlockedIn
<1>6. \A i \in T : \E j \in T : Edge(p.rules, i, j) # "none"
  BY <1>4, <1>5, UnplacedBlocked DEF Endless
<1>7. Cyclic
  BY <1>3, <1>5, <1>6 DEF Cyclic
<1>8. ASSUME p.path = << >>, p.candidates = {} PROVE FALSE
  <2>1. PICK c \in T : TRUE
    BY <1>3
  <2>2. ~Endless(T)
    BY <2>1, <1>3, <1>8 DEF SearchInv, Tried
  <2>3. QED
    BY <2>2, <1>4
<1>9. QED
  BY <1>7, <1>8

\* While only the search goes on, the ordering stays as it is.
LEMMA OrderingStays ==
    ASSUME SameOrdering,
           p'.status = "ordering" => /\ p'.ready_queue # << >> /\ p'.visited = {}
                                     /\ p'.path = << >> /\ p'.todo = << >>
    PROVE  /\ RuleSet' = RuleSet
           /\ Blocked' = Blocked
           /\ \A i : Unplaced(p', i) = Unplaced(p, i)
           /\ \A T : Endless(T)' <=> Endless(T)
           /\ Cyclic' <=> Cyclic
           /\ OrderingInv => OrderingInv'
           /\ AfterWhatItUses => AfterWhatItUses'
           /\ StrataOrdered => StrataOrdered'
<1>1. /\ RuleSet' = RuleSet
      /\ Roots' = Roots
      /\ Cyclic' <=> Cyclic
      /\ \A h, j : Edge(p'.rules, h, j) = Edge(p.rules, h, j)
      /\ \A j : predecessors(p'.rules, j) = predecessors(p.rules, j)
  BY SameRules DEF SameOrdering
<1>2. Blocked' = Blocked
  BY <1>1 DEF Blocked, SameOrdering
<1>3. \A i : Unplaced(p', i) = Unplaced(p, i)
  BY DEF Unplaced, SameOrdering
<1>4. \A T : Endless(T)' <=> Endless(T)
  BY <1>3 DEF Endless
<1>5. Settled' = Settled /\ Placed' = Placed
  BY DEF Settled, Placed, SameOrdering
<1>6. ASSUME OrderingInv PROVE OrderingInv'
  <2>1. QueuesApart'
    BY <1>5, <1>6 DEF OrderingInv, QueuesApart, SameOrdering
  <2>2. StrataApart'
    BY <1>6 DEF OrderingInv, StrataApart, SameOrdering
  <2>3. AllQueued'
    BY <1>1, <1>5, <1>6 DEF OrderingInv, AllQueued, SameOrdering
  <2>4. Counts'
    BY <1>1, <1>2, <1>5, <1>6 DEF OrderingInv, Counts, SameOrdering
  <2>5. Between'
    BY <1>6 DEF OrderingInv, Between, SameOrdering
  <2>6. QED
    BY <2>1, <2>2, <2>3, <2>4, <2>5 DEF OrderingInv
<1>7. ASSUME AfterWhatItUses PROVE AfterWhatItUses'
  BY <1>1, <1>5, <1>7 DEF AfterWhatItUses, SameOrdering
<1>8. ASSUME StrataOrdered PROVE StrataOrdered'
  BY <1>1, <1>8 DEF StrataOrdered, InStratum, SameOrdering
<1>9. QED
  BY <1>1, <1>2, <1>3, <1>4, <1>6, <1>7, <1>8

\* The search from the next candidate.
LEMMA StartKeeps ==
    ASSUME p \in Fields, SearchInv, p.status = "searching", Starting
    PROVE  SearchInv'
<1> DEFINE c == First(p.candidates)
<1>1. c \in p.candidates /\ c \in Blocked /\ c \in RuleSet
  <2>1. RuleSet \subseteq Nat
    BY RulesFinite
  <2>2. p.candidates \in SUBSET RuleSet /\ p.candidates # {}
    BY DEF Fields, Starting
  <2>3. c \in p.candidates
    BY <2>1, <2>2, FirstOfSet
  <2>4. QED
    BY <2>2, <2>3, BlockedIn DEF SearchInv, Tried
<1> HIDE DEF c
<1>2. /\ p'.candidates = p.candidates \ {c} /\ p'.visited = {c}
      /\ p'.path = <<c>> /\ p'.todo = <<Unplaced(p, c)>> /\ p'.status = "searching"
      /\ SameOrdering
  <2>1. p.path = << >> /\ p.todo = << >>
    <3>1. p.todo \in Seq(SUBSET RuleSet) /\ Len(p.todo) = 0
      BY DEF Fields, SearchInv, Stack, Starting
    <3>2. QED
      BY <3>1, EmptySeq DEF Starting
  <2>2. Append(<< >>, c) = <<c>> /\ Append(<< >>, Unplaced(p, c)) = <<Unplaced(p, c)>>
    OBVIOUS
  <2>3. QED
    BY <2>1, <2>2 DEF Starting, c
<1>3. /\ Blocked' = Blocked
      /\ \A i : Unplaced(p', i) = Unplaced(p, i)
      /\ \A T : Endless(T)' <=> Endless(T)
  BY <1>2, OrderingStays
<1>4. /\ Len(p'.path) = 1 /\ Len(p'.todo) = 1 /\ p'.path[1] = c /\ p'.todo[1] = Unplaced(p, c)
      /\ p'.path # << >>
  BY <1>2
<1>5. Elems(p'.path) = {c}
  BY <1>4 DEF Elems
<1>6. Done' = {}
  BY <1>2, <1>5 DEF Done
<1>7. Stack'
  BY <1>1, <1>2, <1>3, <1>4, <1>5 DEF Stack, Distinct
<1>8. Progress'
  BY <1>3, <1>4 DEF Progress
<1>9. DoneEnds'
  BY <1>6 DEF DoneEnds
<1>10. Tried'
  BY <1>2, <1>3, <1>4 DEF Tried, SearchInv, Starting
<1>11. QED
  BY <1>2, <1>3, <1>7, <1>8, <1>9, <1>10 DEF SearchInv, SameOrdering

\* The rule the innermost loop is at.
LEMMA CalledRule ==
    ASSUME p \in Fields, SearchInv, p.path # << >>, p.todo[Top] # {}
    PROVE  /\ Top \in Nat /\ Top \in 1..Len(p.path) /\ Len(p.todo) = Top
           /\ Called \in p.todo[Top]
           /\ Called \in Unplaced(p, p.path[Top])
           /\ Called \in Blocked /\ Called \in RuleSet
<1>1. p.path \in Seq(RuleSet) /\ p.todo \in Seq(SUBSET RuleSet) /\ Len(p.todo) = Top
  BY DEF Fields, SearchInv, Stack, Top
<1>2. Top \in Nat /\ Top \in 1..Len(p.path) /\ p.path[Top] \in RuleSet
  BY <1>1, EmptySeq DEF Top
<1>3. p.todo[Top] \in SUBSET RuleSet /\ p.todo[Top] \subseteq Unplaced(p, p.path[Top])
  BY <1>1, <1>2 DEF SearchInv, Stack
<1>4. Called \in p.todo[Top]
  <2>1. p.todo[Top] \in SUBSET Nat
    BY <1>3, RulesFinite
  <2>2. QED
    BY <2>1, FirstOfSet DEF Called
<1>5. QED
  BY <1>1, <1>2, <1>3, <1>4, UnplacedBlocked

\* What the steps inside a call keep in common.
LEMMA CallFields ==
    ASSUME p \in Fields, SearchInv, p.path # << >>
    PROVE  /\ Top \in Nat \ {0} /\ Top \in 1..Len(p.path)
           /\ p.path \in Seq(RuleSet) /\ p.todo \in Seq(SUBSET RuleSet) /\ Len(p.todo) = Top
           /\ \A k \in 1..Top : p.path[k] \in RuleSet /\ p.path[k] \in Elems(p.path)
           /\ \A k \in 1..Top : p.path[k] \in Blocked /\ p.path[k] \in p.visited
<1>1. p.path \in Seq(RuleSet) /\ p.todo \in Seq(SUBSET RuleSet) /\ Len(p.todo) = Top
  BY DEF Fields, SearchInv, Stack, Top
<1>2. Top \in Nat \ {0} /\ Top \in 1..Len(p.path)
  BY <1>1, EmptySeq DEF Top
<1>3. \A k \in 1..Top : p.path[k] \in RuleSet /\ p.path[k] \in Elems(p.path)
  BY <1>1 DEF Top, Elems
<1>4. Elems(p.path) \subseteq p.visited /\ p.visited \subseteq Blocked
  BY DEF SearchInv, Stack
<1>5. QED
  BY <1>1, <1>2, <1>3, <1>4

\* The search goes deeper.
LEMMA CallKeeps ==
    ASSUME p \in Fields, SearchInv, p.status = "searching", Calling
    PROVE  SearchInv'
<1> DEFINE n == Top
           x == Called
           left == [p.todo EXCEPT ![n] = @ \ {x}]
<1>1. /\ n \in Nat \ {0} /\ n \in 1..Len(p.path) /\ n = Len(p.path)
      /\ p.path \in Seq(RuleSet) /\ p.todo \in Seq(SUBSET RuleSet) /\ Len(p.todo) = n
      /\ \A k \in 1..n : p.path[k] \in RuleSet
  BY CallFields DEF Calling, Top
<1>2. x \in p.todo[n] /\ x \in Blocked /\ x \in RuleSet
  BY CalledRule DEF Calling
<1>3. /\ p'.candidates = p.candidates /\ p'.visited = p.visited \cup {x}
      /\ p'.path = Append(p.path, x) /\ p'.todo = Append(left, Unplaced(p, x))
      /\ p'.status = "searching" /\ SameOrdering /\ x \notin p.visited
  BY DEF Calling
<1>4. /\ Blocked' = Blocked
      /\ \A i : Unplaced(p', i) = Unplaced(p, i)
      /\ \A T : Endless(T)' <=> Endless(T)
  BY <1>3, OrderingStays
<1>5. left \in Seq(SUBSET RuleSet) /\ Len(left) = n /\ left[n] = p.todo[n] \ {x}
      /\ \A k \in 1..n : k # n => left[k] = p.todo[k]
  BY <1>1
<1> HIDE DEF n, x, left
<1>6. /\ Len(p'.path) = n + 1 /\ Len(p'.todo) = n + 1
      /\ p'.path[n + 1] = x /\ p'.todo[n + 1] = Unplaced(p, x)
      /\ \A k \in 1..n : p'.path[k] = p.path[k] /\ p'.todo[k] = left[k]
      /\ p'.path # << >> /\ p'.path[1] = p.path[1]
  <2>1. Unplaced(p, x) \in SUBSET RuleSet
    BY DEF Unplaced, successors, RuleSet
  <2>2. QED
    BY <2>1, <1>1, <1>2, <1>3, <1>5
<1>7. /\ Distinct(p.path) /\ Elems(p.path) \subseteq p.visited /\ p.visited \subseteq Blocked
      /\ \A k \in 1..n : p.todo[k] \subseteq Unplaced(p, p.path[k])
  BY <1>1 DEF SearchInv, Stack
<1>8. Elems(p'.path) = Elems(p.path) \cup {x} /\ Distinct(p'.path)
  BY <1>1, <1>2, <1>3, <1>7, AppendOne
<1>9. Done' = Done
  BY <1>3, <1>8 DEF Done
<1>10. Stack'
  <2>1. ASSUME NEW k \in 1..(n + 1) PROVE p'.todo[k] \subseteq Unplaced(p, p'.path[k])
    <3>1. CASE k = n + 1
      BY <3>1, <1>6
    <3>2. CASE k \in 1..n
      <4>1. left[k] \subseteq p.todo[k]
        BY <3>2, <1>5
      <4>2. QED
        BY <4>1, <3>2, <1>6, <1>7
    <3>3. QED
      BY <3>1, <3>2, <1>1
  <2>2. p'.visited \subseteq Blocked' /\ Elems(p'.path) \subseteq p'.visited
    BY <1>2, <1>3, <1>4, <1>7, <1>8
  <2>3. QED
    BY <2>1, <2>2, <1>4, <1>6, <1>8 DEF Stack
<1>11. Progress'
  <2> SUFFICES ASSUME NEW k \in 1..(n + 1), NEW j \in Unplaced(p, p'.path[k]) \ p'.todo[k]
               PROVE  j \in Done \/ (k < n + 1 /\ j = p'.path[k + 1])
    BY <1>4, <1>6, <1>9 DEF Progress
  <2>1. CASE k = n + 1
    BY <2>1, <1>6
  <2>2. CASE k \in 1..n /\ j \notin p.todo[k]
    <3>1. j \in Unplaced(p, p.path[k]) \ p.todo[k]
      BY <2>2, <1>6
    <3>2. j \in Done \/ (k < n /\ j = p.path[k + 1])
      BY <3>1, <2>2, <1>1 DEF SearchInv, Progress
    <3>3. QED
      BY <3>2, <1>1, <1>6, <2>2
  <2>3. CASE k \in 1..n /\ j \in p.todo[k]
    <3>1. k = n /\ j = x
      BY <2>3, <1>5, <1>6
    <3>2. QED
      BY <3>1, <1>1, <1>6
  <2>4. QED
    BY <2>1, <2>2, <2>3, <1>1
<1>12. DoneEnds'
  BY <1>4, <1>9 DEF DoneEnds, SearchInv
<1>13. Tried'
  BY <1>3, <1>4, <1>6 DEF Tried, SearchInv, Calling
<1>14. QED
  BY <1>3, <1>4, <1>10, <1>11, <1>12, <1>13 DEF SearchInv, SameOrdering

\* The search meets a rule that leads to no cycle.
LEMMA SkipKeeps ==
    ASSUME p \in Fields, SearchInv, p.status = "searching", Skipping
    PROVE  SearchInv'
<1> DEFINE n == Top
           x == Called
<1>1. /\ n \in Nat \ {0} /\ n \in 1..Len(p.path) /\ n = Len(p.path)
      /\ p.path \in Seq(RuleSet) /\ p.todo \in Seq(SUBSET RuleSet) /\ Len(p.todo) = n
  BY CallFields DEF Skipping, Top
<1>2. /\ p'.candidates = p.candidates /\ p'.visited = p.visited
      /\ p'.path = p.path /\ p'.todo = [p.todo EXCEPT ![n] = @ \ {x}]
      /\ p'.status = "searching" /\ SameOrdering /\ x \in Done
  BY DEF Skipping, Done
<1>3. /\ Blocked' = Blocked
      /\ \A i : Unplaced(p', i) = Unplaced(p, i)
      /\ \A T : Endless(T)' <=> Endless(T)
  BY <1>2, OrderingStays
<1> HIDE DEF n, x
<1>4. /\ Len(p'.todo) = n /\ p'.todo[n] = p.todo[n] \ {x}
      /\ \A k \in 1..n : k # n => p'.todo[k] = p.todo[k]
  BY <1>1, <1>2
<1>5. Done' = Done /\ Elems(p'.path) = Elems(p.path)
  BY <1>2 DEF Done
<1>6. \A k \in 1..n : p.todo[k] \ {x} \subseteq p'.todo[k] /\ p'.todo[k] \subseteq p.todo[k]
  BY <1>4
<1>7. Stack'
  <2>1. \A k \in 1..n : p'.todo[k] \subseteq Unplaced(p', p'.path[k])
    BY <1>1, <1>2, <1>3, <1>6 DEF SearchInv, Stack
  <2>2. QED
    BY <2>1, <1>1, <1>2, <1>3, <1>4, <1>5 DEF SearchInv, Stack
<1>8. Progress'
  <2> SUFFICES ASSUME NEW k \in 1..n, NEW j \in Unplaced(p, p.path[k]) \ p'.todo[k]
               PROVE  j \in Done \/ (k < n /\ j = p.path[k + 1])
    BY <1>1, <1>2, <1>3, <1>5 DEF Progress
  <2>1. CASE j = x
    BY <2>1, <1>2
  <2>2. CASE j # x
    <3>1. j \notin p.todo[k]
      BY <2>2, <1>6
    <3>2. QED
      BY <3>1, <1>1 DEF SearchInv, Progress
  <2>3. QED
    BY <2>1, <2>2
<1>9. DoneEnds'
  BY <1>3, <1>5 DEF DoneEnds, SearchInv
<1>10. Tried'
  BY <1>2, <1>3 DEF Tried, SearchInv
<1>11. QED
  BY <1>2, <1>3, <1>7, <1>8, <1>9, <1>10 DEF SearchInv, SameOrdering

\* Rules that lead only to each other and to no cycle are in none.
LEMMA DoneInNoCycle ==
    ASSUME DoneEnds, NEW c \in Done, NEW T, c \in T
    PROVE  ~Endless(T)
<1> SUFFICES ASSUME Endless(T)
             PROVE  FALSE
  OBVIOUS
<1> DEFINE S == T \cap Done
<1>1. S \in SUBSET Done /\ S # {}
  OBVIOUS
<1>2. ASSUME NEW t \in S PROVE Unplaced(p, t) \cap S # {}
  <2>1. PICK u \in Unplaced(p, t) \cap T : TRUE
    BY DEF Endless
  <2>2. u \in Done
    BY <2>1 DEF DoneEnds
  <2>3. QED
    BY <2>1, <2>2
<1>3. Endless(S)
  BY <1>2 DEF Endless
<1>4. QED
  BY <1>1, <1>3 DEF DoneEnds

\* A call returns: the rule leads to no cycle.
LEMMA ReturnKeeps ==
    ASSUME p \in Fields, SearchInv, p.status = "searching", Returning
    PROVE  SearchInv'
<1> DEFINE n == Top
           x == p.path[n]
<1>1. /\ n \in Nat \ {0} /\ n \in 1..Len(p.path) /\ n = Len(p.path)
      /\ p.path \in Seq(RuleSet) /\ p.todo \in Seq(SUBSET RuleSet) /\ Len(p.todo) = n
      /\ x \in Elems(p.path) /\ x \in p.visited /\ x \in Blocked
  BY CallFields DEF Returning, Top
<1>2. /\ p'.candidates = p.candidates /\ p'.visited = p.visited
      /\ p'.path = SubSeq(p.path, 1, n - 1) /\ p'.todo = SubSeq(p.todo, 1, n - 1)
      /\ p'.status = "searching" /\ SameOrdering /\ p.todo[n] = {}
  BY DEF Returning
<1>3. /\ Blocked' = Blocked
      /\ \A i : Unplaced(p', i) = Unplaced(p, i)
      /\ \A T : Endless(T)' <=> Endless(T)
  BY <1>2, OrderingStays
<1> HIDE DEF n
<1>4. /\ Len(p'.path) = n - 1 /\ Len(p'.todo) = n - 1
      /\ \A k \in 1..(n - 1) : p'.path[k] = p.path[k] /\ p'.todo[k] = p.todo[k]
  BY <1>1, <1>2
<1>5. \A k \in 1..n : p.path[k] = x => k = n
  BY <1>1 DEF SearchInv, Stack, Distinct
<1>6. Elems(p'.path) = Elems(p.path) \ {x}
  <2> DEFINE q == p.path
             r == p'.path
  <2>1. Len(r) = n - 1 /\ Len(q) = n /\ (\A k \in 1..(n - 1) : r[k] = q[k]) /\ q[n] = x
        /\ \A k \in 1..n : q[k] = x => k = n
    BY <1>1, <1>4, <1>5
  <2> HIDE DEF q, r, x
  <2>2. \A i : i \in Elems(r) <=> \E k \in 1..(n - 1) : q[k] = i
    BY <2>1 DEF Elems
  <2>3. \A i : i \in Elems(q) <=> \E k \in 1..n : q[k] = i
    BY <2>1 DEF Elems
  <2>4. \A k \in 1..n : k \in 1..(n - 1) \/ k = n
    BY <1>1
  <2>5. \A k \in 1..(n - 1) : k \in 1..n /\ k # n
    BY <1>1
  <2>6. \A i : i \in Elems(r) <=> i \in Elems(q) /\ i # x
    BY <2>1, <2>2, <2>3, <2>4, <2>5
  <2>7. Elems(r) = Elems(q) \ {x}
    BY <2>6
  <2>8. QED
    BY <2>7 DEF q, r
<1>7. Done' = Done \cup {x}
  BY <1>1, <1>2, <1>6 DEF Done
<1>8. Unplaced(p, x) \subseteq Done
  <2>1. \A j \in Unplaced(p, x) : j \notin p.todo[n]
    BY <1>2
  <2>2. QED
    BY <2>1, <1>1 DEF SearchInv, Progress
<1>9. x \notin Done
  BY <1>1 DEF Done
<1> HIDE DEF x
<1>10. Stack'
  <2>1. Distinct(p'.path)
    BY <1>1, <1>4 DEF SearchInv, Stack, Distinct
  <2>2. Elems(p'.path) \subseteq p'.visited /\ p'.visited \subseteq Blocked'
    BY <1>2, <1>3, <1>6 DEF SearchInv, Stack
  <2>3. \A k \in 1..(n - 1) : p'.todo[k] \subseteq Unplaced(p', p'.path[k])
    BY <1>1, <1>3, <1>4 DEF SearchInv, Stack
  <2>4. QED
    BY <2>1, <2>2, <2>3, <1>4 DEF Stack
<1>11. Progress'
  <2> SUFFICES ASSUME NEW k \in 1..(n - 1), NEW j \in Unplaced(p, p.path[k]) \ p.todo[k]
               PROVE  j \in Done \/ j = x \/ (k < n - 1 /\ j = p'.path[k + 1])
    BY <1>3, <1>4, <1>7 DEF Progress
  <2>1. j \in Done \/ (k < n /\ j = p.path[k + 1])
    BY <1>1 DEF SearchInv, Progress
  <2>2. CASE k = n - 1
    BY <2>1, <2>2, <1>1 DEF x
  <2>3. CASE k < n - 1
    BY <2>1, <2>3, <1>1, <1>4
  <2>4. QED
    BY <2>2, <2>3, <1>1
<1>12. \A i \in Done \cup {x} : Unplaced(p, i) \subseteq Done
  BY <1>8 DEF SearchInv, DoneEnds
<1>13. ASSUME NEW T \in SUBSET (Done \cup {x}), T # {} PROVE ~Endless(T)
  <2>1. CASE T \cap Done = {}
    <3>1. x \in T /\ Unplaced(p, x) \cap T = {}
      BY <2>1, <1>13, <1>8
    <3>2. QED
      BY <3>1 DEF Endless
  <2>2. CASE T \cap Done # {}
    <3>1. PICK c \in Done : c \in T
      BY <2>2
    <3>2. QED
      BY <3>1, DoneInNoCycle DEF SearchInv
  <2>3. QED
    BY <2>1, <2>2
<1>14. DoneEnds'
  BY <1>3, <1>7, <1>12, <1>13 DEF DoneEnds
<1>15. Tried'
  <2> SUFFICES ASSUME NEW c \in Blocked \ p.candidates
               PROVE  \/ p'.path # << >> /\ c = p'.path[1]
                      \/ \A T \in SUBSET Blocked : c \in T => ~Endless(T)
    BY <1>2, <1>3 DEF Tried, SearchInv
  <2>1. CASE \A T \in SUBSET Blocked : c \in T => ~Endless(T)
    BY <2>1
  <2>2. CASE c = p.path[1] /\ n > 1
    <3>1. p'.path # << >> /\ p'.path[1] = p.path[1]
      BY <2>2, <1>1, <1>4
    <3>2. QED
      BY <3>1, <2>2
  <2>3. CASE c = p.path[1] /\ n = 1
    <3>1. c = x
      BY <2>3 DEF x
    <3>2. ASSUME NEW T \in SUBSET Blocked, c \in T, Endless(T) PROVE FALSE
      <4> DEFINE S == T \cap (Done \cup {x})
      <4>1. S \in SUBSET (Done \cup {x}) /\ S # {}
        BY <3>1, <3>2
      <4>2. \A t \in S : Unplaced(p, t) \cap S # {}
        BY <3>2, <1>12 DEF Endless
      <4>3. Endless(S)
        BY <4>2 DEF Endless
      <4> HIDE DEF S
      <4>4. QED
        BY <4>1, <4>3, <1>13
    <3>3. QED
      BY <3>2
  <2>4. c = p.path[1] \/ \A T \in SUBSET Blocked : c \in T => ~Endless(T)
    BY DEF SearchInv, Tried
  <2>5. n > 1 \/ n = 1
    <3>1. n \in Nat \ {0}
      BY <1>1
    <3>2. QED
      BY <3>1
  <2>6. QED
    BY <2>1, <2>2, <2>3, <2>4, <2>5
<1>16. QED
  BY <1>2, <1>3, <1>10, <1>11, <1>14, <1>15 DEF SearchInv, SameOrdering

\* A search ends with a cycle, whose rules are queued.
LEMMA EndKeeps ==
    ASSUME p \in Fields, OrderingInv, SearchInv, Ending
    PROVE  OrderingInv' /\ Cyclic'
<1>1. Cyclic /\ p.path # << >>
  BY SearchMeansCycle DEF Ending
<1>2. /\ RuleSet' = RuleSet
      /\ Roots' = Roots
      /\ Cyclic' <=> Cyclic
      /\ \A j : predecessors(p'.rules, j) = predecessors(p.rules, j)
  BY SameRules DEF Ending
<1>3. Settled' = Settled /\ Placed' = Placed
  BY DEF Settled, Placed, Ending
<1>4. /\ p.ready_queue = << >> /\ p.partition = << >> /\ p.next_queue = << >>
      /\ p.uses_negative = {}
  BY DEF SearchInv, OrderingInv, Between
<1>5. Elems(<< >>) = {} /\ Distinct(<< >>)
  BY DEF Elems, Distinct
<1>6. p.output \cup Roots = Placed
  BY <1>4, <1>5 DEF OrderingInv, AllQueued
<1>7. Distinct(p.path) /\ Elems(p.path) \subseteq Blocked
  BY DEF SearchInv, Stack
<1>8. Elems(p.path) \cap Placed = {}
  BY <1>6, <1>7 DEF Blocked
<1>9. QueuesApart'
  BY <1>3, <1>4, <1>5, <1>7, <1>8 DEF QueuesApart, Ending
<1>10. StrataApart'
  BY DEF StrataApart, Ending, OrderingInv
<1>11. AllQueued'
  BY <1>2, <1>3, <1>4, <1>5, <1>6 DEF AllQueued, Ending
<1>12. Counts'
  <2>1. \A j \in RuleSet' \ p'.output : j \in RuleSet \ p.output
    BY <1>2 DEF Ending
  <2>2. \A j \in Blocked' : j \in Blocked
    BY <1>2 DEF Blocked, Ending
  <2>3. QED
    BY <2>1, <2>2, <1>2, <1>3 DEF OrderingInv, Counts, Ending
<1>13. Between'
  BY <1>1, <1>4 DEF Between, Ending
<1>14. QED
  BY <1>1, <1>2, <1>9, <1>10, <1>11, <1>12, <1>13 DEF OrderingInv

\* One step of the search.
LEMMA SearchKeeps ==
    ASSUME IInv, Search
    PROVE  IInv'
<1>1. p \in Fields /\ p.status = "searching" /\ OrderingInv /\ SearchInv
  BY DEF IInv, Search
<1>2. p' = find_cycle_step(p)
  BY <1>1 DEF Search, order_rules_step
<1>3. Searching /\ (p \in Fields)'
  BY <1>1, <1>2, SearchingFields
<1>4. CASE p'.status = "searching"
  <2>1. SearchInv'
    BY <1>1, <1>3, <1>4, StartKeeps, CallKeeps, SkipKeeps, ReturnKeeps
       DEF Searching, Refusing, Ending
  <2>2. SameOrdering
    BY <1>3, <1>4 DEF Searching, Starting, Calling, Skipping, Returning, Refusing, Ending
  <2>3. OrderingInv' /\ (~Cyclic' => AfterWhatItUses' /\ StrataOrdered')
    BY <2>2, <1>1, <1>4, OrderingStays DEF IInv
  <2>4. QED
    BY <1>3, <1>4, <2>1, <2>3 DEF IInv, EachRuleOnce
<1>5. CASE p'.status = "not_stratifiable"
  <2>1. SameOrdering
    BY <1>1, <1>3, <1>5 DEF Searching, Starting, Calling, Skipping, Returning, Refusing, Ending
  <2>2. Cyclic'
    BY <2>1, <1>1, SameRules, SearchMeansCycle DEF SameOrdering
  <2>3. QED
    BY <1>3, <1>5, <2>2 DEF IInv, EachRuleOnce
<1>6. CASE Ending
  <2>1. OrderingInv' /\ Cyclic' /\ p'.status = "ordering"
    BY <1>1, <1>6, EndKeeps DEF Ending
  <2>2. QED
    BY <1>3, <2>1 DEF IInv, EachRuleOnce
<1>7. QED
  BY <1>1, <1>3, <1>4, <1>5, <1>6 DEF Searching, Starting, Calling, Skipping, Returning, Refusing

-----------------------------------------------------------------------------
(* The beginning and the end.                                              *)

\* The next rule is placed.
LEMMA PlaceKeeps ==
    ASSUME IInv, Place
    PROVE  IInv'
<1>1. p \in Fields /\ p.status = "ordering" /\ OrderingInv /\ p.ready_queue # << >>
  BY DEF IInv, Place
<1>2. p' = get_partition_step(p)
  BY <1>1 DEF Place, order_rules_step
<1>3. Placing /\ (p \in Fields)'
  BY <1>1, <1>2, PlacingFields
<1>4. p'.status = "ordering"
  BY <1>1, <1>3 DEF Placing
<1>5. OrderingInv'
  BY <1>1, <1>3, PlaceOrdering
<1>6. ~Cyclic' => AfterWhatItUses' /\ StrataOrdered'
  BY <1>1, <1>3, SameRules, PlaceAfter DEF Placing, IInv
<1>7. QED
  BY <1>3, <1>4, <1>5, <1>6 DEF IInv, EachRuleOnce

\* The partition is full.
LEMMA NextPartitionKeeps ==
    ASSUME IInv, NextPartition
    PROVE  IInv'
<1>1. p \in Fields /\ p.status = "ordering" /\ OrderingInv /\ p.ready_queue = << >>
  BY DEF IInv, NextPartition
<1>2. p' = order_rules_next(p)
  BY <1>1 DEF NextPartition, order_rules_step
<1>3. Turning /\ (p \in Fields)'
  BY <1>1, <1>2, TurningFields
<1>4. p'.status \in {"ordering", "searching"}
  BY <1>1, <1>3 DEF Turning
<1>5. OrderingInv' /\ (p'.status = "searching" => SearchInv')
  BY <1>1, <1>3, TurnOrdering
<1>6. ~Cyclic' => AfterWhatItUses' /\ StrataOrdered'
  BY <1>1, <1>3, SameRules, TurnAfter DEF Turning, IInv
<1>7. QED
  BY <1>3, <1>4, <1>5, <1>6 DEF IInv, EachRuleOnce

\* Nothing is left to place.
LEMMA FinishKeeps ==
    ASSUME IInv, Finish
    PROVE  IInv'
<1>1. /\ p \in Fields /\ p.status = "ordering" /\ OrderingInv
      /\ p.ready_queue = << >> /\ p.partition = << >> /\ p.next_queue = << >> /\ Blocked = {}
  BY DEF IInv, Finish, OrderingInv, Between
<1>2. p' = [p EXCEPT !.status = "ok"]
  BY <1>1 DEF Finish, order_rules_step
<1>3. p'.status = "ok" /\ p'.rules = p.rules /\ p'.stratification = p.stratification
  BY <1>1, <1>2 DEF Fields
<1>4. RuleSet' = RuleSet /\ (Cyclic' <=> Cyclic)
      /\ \A h, j : Edge(p'.rules, h, j) = Edge(p.rules, h, j)
  BY <1>3, SameRules
<1>5. (p \in Fields)'
  <2>1. p' \in Fields
    BY <1>1, <1>2 DEF Fields
  <2>2. QED
    BY <2>1, <1>4 DEF Fields
<1>6. RuleSet = Settled
  <2>1. Elems(<< >>) = {}
    BY DEF Elems
  <2>2. p.output \cup Roots = Settled
    BY <2>1, <1>1 DEF OrderingInv, AllQueued, Placed
  <2>3. p.output \subseteq RuleSet /\ Roots \subseteq RuleSet
    BY <1>1 DEF Fields, Roots
  <2>4. QED
    BY <2>2, <2>3, <1>1 DEF Blocked
<1>7. EachRuleOnce
  BY <1>1 DEF EachRuleOnce
<1>8. EachRuleOnce'
  <2>1. /\ DOMAIN p.stratification = 1..Len(p.stratification)
        /\ \A k \in DOMAIN p.stratification :
               DOMAIN p.stratification[k] = 1..Len(p.stratification[k])
    BY <1>1, InStrata
  <2>2. \A i \in RuleSet : \E k \in DOMAIN p.stratification : InStratum(i, k)
    BY <1>1, <1>6, InStrata
  <2>3. \A k \in DOMAIN p.stratification : \A a \in DOMAIN p.stratification[k] :
            p.stratification[k][a] \in RuleSet
    BY <1>1, InStrata
  <2>4. \A k, l \in DOMAIN p.stratification :
            \A a \in DOMAIN p.stratification[k], b \in DOMAIN p.stratification[l] :
                p.stratification[k][a] = p.stratification[l][b] => k = l /\ a = b
    BY <2>1, <1>1 DEF OrderingInv, StrataApart
  <2>5. QED
    BY <2>2, <2>3, <2>4, <1>3, <1>4 DEF EachRuleOnce, InStratum
<1>9. ~Cyclic' => StrataOrdered'
  BY <1>1, <1>3, <1>4 DEF IInv, StrataOrdered, InStratum
<1>10. QED
  BY <1>3, <1>5, <1>8, <1>9 DEF IInv

\* The fields that new fills in.
LEMMA NewFields ==
    ASSUME NEW rules \in Programs, p = new(rules)
    PROVE  p \in Fields /\ p.rules = rules /\ p.status = "start"
<1>1. /\ p.rules = rules
      /\ p.num_predecessors = [j \in RuleIds(rules) |-> Cardinality(predecessors(rules, j))]
      /\ p.output = {} /\ p.uses_negative = {}
      /\ p.ready_queue = InOrder({j \in RuleIds(rules) : predecessors(rules, j) = {}})
      /\ p.next_queue = << >> /\ p.partition = << >> /\ p.stratification = << >>
      /\ p.candidates = {} /\ p.visited = {} /\ p.path = << >> /\ p.todo = << >>
      /\ p.status = "start"
  BY DEF new
<1>2. Len(rules) \in Nat /\ RuleSet = 1..Len(rules) /\ RuleIds(rules) = RuleSet
  <2>1. rules \in Seq({rules[k] : k \in DOMAIN rules})
    BY ProgramsAssumption
  <2>2. QED
    BY <2>1, <1>1, LenProperties DEF RuleSet, RuleIds
<1>3. p.num_predecessors \in [RuleSet -> Nat]
  <2>1. IsFiniteSet(RuleSet)
    BY <1>2, FS_Interval
  <2>2. ASSUME NEW j \in RuleSet PROVE Cardinality(predecessors(rules, j)) \in Nat
    <3>1. predecessors(rules, j) \in SUBSET RuleSet
      BY <1>2 DEF predecessors
    <3>2. QED
      BY <2>1, <3>1, FS_Subset, FS_CardinalityType
  <2>3. QED
    BY <2>2, <1>1, <1>2
<1>4. p.ready_queue \in Seq(RuleSet)
  <2> DEFINE S == {j \in RuleIds(rules) : predecessors(rules, j) = {}}
             n == Len(rules)
  <2>1. n \in Nat /\ S \in SUBSET (1..n) /\ S \subseteq RuleSet
    BY <1>2
  <2>2. p.ready_queue = InOrder(S)
    BY <1>1
  <2> HIDE DEF S, n
  <2>3. InOrder(S) \in Seq(S)
    BY <2>1, InOrderLists
  <2>4. QED
    BY <2>1, <2>2, <2>3, SeqSubset
<1>5. p \in Fields
  <2>1. /\ p.output \in SUBSET RuleSet /\ p.uses_negative \in SUBSET RuleSet
        /\ p.candidates \in SUBSET RuleSet /\ p.visited \in SUBSET RuleSet
    BY <1>1
  <2>2. /\ p.next_queue \in Seq(RuleSet) /\ p.partition \in Seq(RuleSet)
        /\ p.stratification \in Seq(Seq(RuleSet)) /\ p.path \in Seq(RuleSet)
        /\ p.todo \in Seq(SUBSET RuleSet)
    BY <1>1
  <2>3. p = [rules |-> p.rules, num_predecessors |-> p.num_predecessors, output |-> p.output,
             uses_negative |-> p.uses_negative, ready_queue |-> p.ready_queue,
             next_queue |-> p.next_queue, partition |-> p.partition,
             stratification |-> p.stratification, candidates |-> p.candidates,
             visited |-> p.visited, path |-> p.path, todo |-> p.todo, status |-> p.status]
    BY DEF new
  <2>4. p.rules \in Programs /\ p.status \in {"start", "ordering", "searching", "ok", "not_stratifiable"}
    BY <1>1
  <2>5. QED
    BY <2>1, <2>2, <2>3, <2>4, <1>3, <1>4 DEF Fields
<1>6. QED
  BY <1>1, <1>5

\* At the start only the rules that use nothing are queued.
LEMMA NewOrdering ==
    ASSUME p \in Fields, p = new(p.rules)
    PROVE  /\ OrderingInv /\ AfterWhatItUses /\ StrataOrdered
           /\ p.ready_queue = << >> => Roots = {}
           /\ p.ready_queue = << >> /\ RuleSet # {} =>
                  \E j \in RuleSet : j \notin p.output /\ p.num_predecessors[j] # 0
           /\ p.partition = << >> /\ p.visited = {} /\ p.path = << >> /\ p.todo = << >>
           /\ p.stratification = << >>
<1>1. /\ p.num_predecessors = [j \in RuleSet |-> Cardinality(predecessors(p.rules, j))]
      /\ p.output = {} /\ p.uses_negative = {}
      /\ p.ready_queue = InOrder(Roots)
      /\ p.next_queue = << >> /\ p.partition = << >> /\ p.stratification = << >>
      /\ p.candidates = {} /\ p.visited = {} /\ p.path = << >> /\ p.todo = << >>
      /\ p.status = "start"
  <2> DEFINE rules == p.rules
  <2>1. p = new(rules)
    OBVIOUS
  <2>2. RuleSet = RuleIds(rules) /\ Roots = {j \in RuleIds(rules) : predecessors(rules, j) = {}}
    BY DEF RuleSet, Roots
  <2> HIDE DEF rules
  <2>3. QED
    BY <2>1, <2>2 DEF new, rules
<1>2. Distinct(p.ready_queue) /\ Elems(p.ready_queue) = Roots
  <2> DEFINE S == Roots
             n == Len(p.rules)
  <2>1. n \in Nat /\ S \in SUBSET (1..n)
    BY RulesFinite DEF Roots
  <2> HIDE DEF S, n
  <2>2. Distinct(InOrder(S)) /\ Elems(InOrder(S)) = S
    BY <2>1, InOrderLists
  <2>3. QED
    BY <2>2, <1>1 DEF S
<1>3. Elems(<< >>) = {} /\ Distinct(<< >>)
  BY DEF Elems, Distinct
<1>4. Settled = {} /\ Placed = {}
  BY <1>1, <1>3 DEF Settled, Placed
<1>5. \A j \in RuleSet : /\ p.num_predecessors[j] = Cardinality(predecessors(p.rules, j) \ Placed)
                         /\ j \notin Roots => p.num_predecessors[j] # 0
  <2> SUFFICES ASSUME NEW j \in RuleSet
               PROVE  /\ p.num_predecessors[j] = Cardinality(predecessors(p.rules, j) \ Placed)
                      /\ j \notin Roots => p.num_predecessors[j] # 0
    OBVIOUS
  <2>1. predecessors(p.rules, j) \ Placed = predecessors(p.rules, j)
    BY <1>4
  <2>2. p.num_predecessors[j] = Cardinality(predecessors(p.rules, j))
    BY <1>1
  <2>3. IsFiniteSet(predecessors(p.rules, j))
    BY PredecessorsFinite
  <2>4. j \notin Roots => predecessors(p.rules, j) # {}
    BY DEF Roots
  <2>5. predecessors(p.rules, j) # {} => Cardinality(predecessors(p.rules, j)) # 0
    BY <2>3, FS_EmptySet
  <2>6. QED
    BY <2>1, <2>2, <2>4, <2>5
<1>6. OrderingInv
  <2>1. QueuesApart
    BY <1>1, <1>2, <1>3, <1>4 DEF QueuesApart
  <2>2. StrataApart
    BY <1>1 DEF StrataApart
  <2>3. AllQueued
    BY <1>1, <1>2, <1>3, <1>4 DEF AllQueued
  <2>4. Counts
    BY <1>5 DEF Counts, Blocked
  <2>5. Between
    BY <1>1 DEF Between
  <2>6. QED
    BY <2>1, <2>2, <2>3, <2>4, <2>5 DEF OrderingInv
<1>7. AfterWhatItUses
  <2>1. \A j \in Roots : predecessors(p.rules, j) = {}
    BY DEF Roots
  <2>2. \A i \in RuleSet, j \in Roots : Edge(p.rules, i, j) # "negative"
    BY <2>1, Predecessors
  <2>3. QED
    BY <2>1, <2>2, <1>1, <1>2, <1>3, <1>4 DEF AfterWhatItUses
<1>8. StrataOrdered
  BY <1>1 DEF StrataOrdered
<1>9. p.ready_queue = << >> => Roots = {}
  BY <1>2, <1>3
<1>10. p.ready_queue = << >> /\ RuleSet # {} =>
           \E j \in RuleSet : j \notin p.output /\ p.num_predecessors[j] # 0
  BY <1>1, <1>5, <1>9
<1>11. QED
  BY <1>1, <1>6, <1>7, <1>8, <1>9, <1>10

\* The start: the fast path, the first partition or the first search.
LEMMA StartingKeeps ==
    ASSUME IInv, Start
    PROVE  IInv'
<1>1. p \in Fields /\ p = new(p.rules) /\ p.status = "start" /\ p' = order_rules_start(p)
  BY DEF IInv, Start, order_rules_step
<1>2. /\ OrderingInv /\ AfterWhatItUses /\ StrataOrdered
      /\ p.ready_queue = << >> /\ RuleSet # {} =>
             \E j \in RuleSet : j \notin p.output /\ p.num_predecessors[j] # 0
      /\ p.partition = << >> /\ p.visited = {} /\ p.path = << >> /\ p.todo = << >>
      /\ p.stratification = << >>
  BY <1>1, NewOrdering
<1>3. DOMAIN p = {"rules", "num_predecessors", "output", "uses_negative", "ready_queue",
                  "next_queue", "partition", "stratification", "candidates", "visited",
                  "path", "todo", "status"}
  BY <1>1 DEF Fields
<1>4. ASSUME p'.rules = p.rules, p' \in Fields PROVE (p \in Fields)'
  BY <1>4, SameRules DEF Fields
<1>5. CASE pure_positive(p.rules)
  <2> DEFINE all == [k \in RuleIds(p.rules) |-> k]
             strata == IF p.rules = << >> THEN << >> ELSE <<all>>
  <2>1. p' = [p EXCEPT !.status = "ok", !.stratification = strata]
    BY <1>1, <1>5 DEF order_rules_start
  <2>2. all \in Seq(RuleSet) /\ DOMAIN all = RuleSet /\ \A k \in RuleSet : all[k] = k
    BY <1>1, RulesFinite DEF RuleSet, RuleIds
  <2> HIDE DEF all
  <2>3. strata \in Seq(Seq(RuleSet))
    BY <2>2
  <2>4. /\ p.rules = << >> => DOMAIN strata = {} /\ RuleSet = {}
        /\ p.rules # << >> => DOMAIN strata = {1} /\ strata[1] = all
    BY <2>2 DEF RuleSet, RuleIds
  <2> HIDE DEF strata
  <2>5. p'.status = "ok" /\ p'.stratification = strata /\ p'.rules = p.rules
    BY <2>1, <1>3
  <2>6. (p \in Fields)'
    <3>1. p' \in Fields
      BY <2>1, <2>3, <1>1 DEF Fields
    <3>2. QED
      BY <3>1, <2>5, <1>4
  <2>7. RuleSet' = RuleSet
    BY <2>5, SameRules
  <2>8. EachRuleOnce'
    BY <2>2, <2>4, <2>5, <2>7 DEF EachRuleOnce, InStratum
  <2>9. StrataOrdered'
    <3>1. \A i, j \in RuleSet : Edge(p'.rules, i, j) # "negative"
      BY <1>5, <2>5 DEF pure_positive, RuleSet, Edge
    <3>2. \A k, l \in DOMAIN strata : k <= l
      BY <2>4
    <3>3. QED
      BY <3>1, <3>2, <2>5, <2>7 DEF StrataOrdered
  <2>10. QED
    BY <2>5, <2>6, <2>8, <2>9 DEF IInv
<1>6. CASE ~pure_positive(p.rules) /\ p.ready_queue = << >>
  <2> DEFINE waiting == {j \in RuleIds(p.rules) : j \notin p.output /\ p.num_predecessors[j] > 0}
  <2>1. p' = [p EXCEPT !.status = "searching", !.candidates = waiting]
    BY <1>1, <1>6 DEF order_rules_start, handle_cycle
  <2>2. waiting \in SUBSET RuleSet
    BY DEF RuleSet
  <2>3. /\ SameOrdering /\ p'.status = "searching" /\ p'.candidates = waiting
        /\ p'.visited = {} /\ p'.path = << >> /\ p'.todo = << >>
    BY <2>1, <1>2, <1>3 DEF SameOrdering
  <2>4. (p \in Fields)'
    <3> HIDE DEF waiting
    <3>1. p' \in Fields
      BY <2>1, <2>2, <1>1 DEF Fields
    <3>2. QED
      BY <3>1, <2>3, <1>4 DEF SameOrdering
  <2>5. RuleSet' = RuleSet /\ OrderingInv' /\ AfterWhatItUses' /\ StrataOrdered'
    BY <2>3, <1>2, OrderingStays
  <2>6. RuleSet # {}
    BY <1>6 DEF pure_positive, RuleSet
  <2>7. SearchInv'
    <3>1. \E j \in RuleSet' : j \notin p'.output /\ p'.num_predecessors[j] # 0
      BY <2>3, <2>5, <2>6, <1>2, <1>6 DEF SameOrdering
    <3>2. p'.candidates = {j \in RuleSet' : j \notin p'.output /\ p'.num_predecessors[j] > 0}
      BY <2>3, <2>5 DEF SameOrdering, RuleSet
    <3>3. p'.ready_queue = << >> /\ p'.partition = << >>
      BY <2>3, <1>2, <1>6 DEF SameOrdering
    <3>4. QED
      BY <3>1, <3>2, <3>3, <2>3, <2>4, <2>5, SearchStarts
  <2>8. QED
    BY <2>3, <2>4, <2>5, <2>7 DEF IInv, EachRuleOnce
<1>7. CASE ~pure_positive(p.rules) /\ p.ready_queue # << >>
  <2>1. p' = [p EXCEPT !.status = "ordering"]
    BY <1>1, <1>7 DEF order_rules_start
  <2>2. /\ SameOrdering /\ p'.status = "ordering"
        /\ p'.visited = {} /\ p'.path = << >> /\ p'.todo = << >> /\ p'.ready_queue # << >>
    BY <2>1, <1>2, <1>3, <1>7 DEF SameOrdering
  <2>3. (p \in Fields)'
    <3>1. p' \in Fields
      BY <2>1, <1>1 DEF Fields
    <3>2. QED
      BY <3>1, <2>2, <1>4 DEF SameOrdering
  <2>4. OrderingInv' /\ AfterWhatItUses' /\ StrataOrdered'
    BY <2>2, <1>2, OrderingStays
  <2>5. QED
    BY <2>2, <2>3, <2>4 DEF IInv, EachRuleOnce
<1>8. QED
  BY <1>5, <1>6, <1>7

-----------------------------------------------------------------------------
(* The theorems.                                                           *)

LEMMA InitIInv ==
    ASSUME Init
    PROVE  IInv
<1>1. PICK rules \in Programs : p = new(rules)
  BY DEF Init
<1>2. p \in Fields /\ p.rules = rules /\ p.status = "start"
  BY <1>1, NewFields
<1>3. QED
  BY <1>1, <1>2 DEF IInv, EachRuleOnce

LEMMA StepKeepsIInv ==
    ASSUME IInv, [Next]_p
    PROVE  IInv'
<1>1. CASE Start
  BY <1>1, StartingKeeps
<1>2. CASE Search
  BY <1>2, SearchKeeps
<1>3. CASE Place
  BY <1>3, PlaceKeeps
<1>4. CASE NextPartition
  BY <1>4, NextPartitionKeeps
<1>5. CASE Finish
  BY <1>5, FinishKeeps
<1>6. CASE p' = p
  <2>1. IInv' <=> IInv
    BY <1>6 DEF IInv, Fields, RuleSet, OrderingInv, QueuesApart, StrataApart, AllQueued, Counts,
       Between, AfterWhatItUses, StrataOrdered, SearchInv, Stack, Progress, DoneEnds, Tried,
       Endless, Done, Blocked, Roots, Placed, Settled, Cyclic, InStratum, EachRuleOnce
  <2>2. QED
    BY <2>1
<1>7. QED
  BY <1>1, <1>2, <1>3, <1>4, <1>5, <1>6 DEF Next

\* What the partitioner keeps: rules are in one queue or stratum at a time, each counts
\* what it still waits for, and a search has only returned from rules that lead to no cycle.
THEOREM Invariance == Spec => []IInv
<1>1. Init => IInv
  BY InitIInv
<1>2. IInv /\ [Next]_p => IInv'
  BY StepKeepsIInv
<1>3. QED
  BY <1>1, <1>2, PTL DEF Spec

\* Of a program that order_rules accepts, whatever cycles handle_cycle broke, every rule is
\* in exactly one stratum: none is lost in a queue, none is materialised twice.
THEOREM EachRuleIsOnce == Spec => []EachRuleOnce
<1>1. IInv => EachRuleOnce
  BY DEF IInv
<1>2. QED
  BY <1>1, Invariance, PTL

\* Rules that do not depend on themselves are accepted, and order_rules puts none in a
\* stratum below one it consumes, and each above all that it negates.
THEOREM AcyclicIsOrdered == Spec => []AcyclicOrdered
<1>1. ASSUME IInv PROVE AcyclicOrdered
  <2>1. SUFFICES ASSUME Finished(p), ~Cyclic
                 PROVE  p.status = "ok" /\ StrataOrdered
    BY DEF AcyclicOrdered, StrataOrdered
  <2>2. QED
    BY <1>1, <2>1 DEF IInv, Finished
<1>2. QED
  BY <1>1, Invariance, PTL
=============================================================================
