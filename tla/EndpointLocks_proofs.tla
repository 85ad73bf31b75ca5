------------------------ MODULE EndpointLocks_proofs ------------------------
(* Theorems about the endpoint's locks, for any number of requests in       *)
(* flight.  A handler is checked once, as a sequence of steps: Runs says    *)
(* that it takes its locks in one global order but for a second reading of  *)
(* the reasoner's slot, touches the slot only under the store's write lock, *)
(* changes what a lock guards only under that lock and tags a cache before  *)
(* it builds it.  What a request has left to do stays such a sequence,      *)
(* whatever runs beside it.                                                 *)
EXTENDS EndpointLocks, SequenceTheorems, WellFoundedInduction, TLAPS

\* The order in which every handler takes its locks the first time.
Rank(l) == CASE l = "registry"      -> 0
             [] l = "vqs_cache"     -> 1
             [] l = FirstStore      -> 2
             [] l = SecondStore     -> 3
             [] l = "transactions"  -> 4
             [] l = "rulesets"      -> 5
             [] l = "reasoner_slot" -> 6
             [] l = "reasoner"      -> 7
             [] l = "changelog"     -> 8

Guard(l, m) == [lock |-> l, mode |-> m]
Guards == [lock : Locks, mode : Modes]

\* The guards a request may hold together: the reasoner's slot only with the
\* store's write guard.
Nested == {H \in SUBSET Guards :
              (\E g \in H : g.lock = "reasoner_slot") => Guard("store", "w") \in H}

\* What is known of a request between two steps: the guards it holds, and
\* whether it has built a graph since it last read the generation.
Graph == {"none", "built"}
Situation == [held : Nested, graph : Graph]
At(H, b) == [held |-> H, graph |-> b]

\* Everything held comes before l in the order.
Above(H, l) == \A g \in H : Rank(g.lock) < Rank(l)

\* A guard of the reasoner's slot is asked for again, for reading as before.
Reread(H, l, m) == l = "reasoner_slot" /\ m = "r" /\ Guard(l, m) \in H

\* Step s is in order in situation x and leads to situation y.
StepOK(x, s, y) ==
    \/ /\ s.act = "acquire"
       /\ Above(x.held, s.lock) \/ Reread(x.held, s.lock, s.mode)
       /\ y = At(x.held \cup {Guard(s.lock, s.mode)}, x.graph)
    \/ /\ s.act = "release"
       /\ y = At({g \in x.held : g.lock # s.lock}, x.graph)
    \/ /\ s.act = "do"
       /\ s.effect = "write" => Guard("store", "w") \in x.held /\ y = x
       /\ s.effect = "read_generation" =>
              Guard("store", "r") \in x.held /\ y = At(x.held, "none")
       /\ s.effect = "check" => Guard("vqs_cache", "r") \in x.held /\ y = x
       /\ s.effect = "build" => Guard("store", "r") \in x.held /\ y = At(x.held, "built")
       /\ s.effect = "install" =>
              Guard("vqs_cache", "w") \in x.held /\ x.graph = "built" /\ y = At(x.held, "none")

\* The steps of s lead from x to y.
Runs(x, s, y) ==
    /\ s \in Seq(Step)
    /\ \E f \in [1..(Len(s) + 1) -> Situation] :
          /\ f[1] = x
          /\ f[Len(s) + 1] = y
          /\ \A i \in 1..Len(s) : StepOK(f[i], s[i], f[i + 1])

\* The steps of every handler but productive_values.
PlainStep == {s \in Step : s.act = "do" => s.effect = "write"}

Plain(H, s, K) == s \in Seq(PlainStep) /\ Runs(At(H, "none"), s, At(K, "none"))

-----------------------------------------------------------------------------
(* Sequences of steps                                                       *)

LEMMA Ranks ==
    /\ Rank("registry") = 0
    /\ Rank("vqs_cache") = 1
    /\ Rank(FirstStore) = 2
    /\ Rank(SecondStore) = 3
    /\ Rank("store") \in {2, 3}
    /\ Rank("store2") \in {2, 3}
    /\ Rank("transactions") = 4
    /\ Rank("rulesets") = 5
    /\ Rank("reasoner_slot") = 6
    /\ Rank("reasoner") = 7
    /\ Rank("changelog") = 8
    /\ FirstStore \in Locks
    /\ SecondStore \in Locks
BY FirstStoreAssumption DEF Rank, SecondStore, Locks

LEMMA RunsNothing ==
    ASSUME NEW x \in Situation
    PROVE  Runs(x, << >>, x)
<1> DEFINE f == [i \in 1..1 |-> x]
<1>1. f \in [1..(Len(<< >>) + 1) -> Situation]
  OBVIOUS
<1>2. << >> \in Seq(Step) /\ Len(<< >>) = 0
  OBVIOUS
<1>3. f[1] = x
  OBVIOUS
<1> HIDE DEF f
<1>4. QED
  BY <1>1, <1>2, <1>3 DEF Runs

LEMMA RunsStep ==
    ASSUME NEW x \in Situation, NEW y \in Situation, NEW s \in Step, StepOK(x, s, y)
    PROVE  Runs(x, <<s>>, y)
<1> DEFINE f == [i \in 1..2 |-> IF i = 1 THEN x ELSE y]
<1>1. f \in [1..(Len(<<s>>) + 1) -> Situation] /\ f[1] = x /\ f[2] = y
  OBVIOUS
<1>2. <<s>> \in Seq(Step) /\ Len(<<s>>) = 1 /\ <<s>>[1] = s
  OBVIOUS
<1>3. \A i \in 1..Len(<<s>>) : StepOK(f[i], <<s>>[i], f[i + 1])
  BY <1>1, <1>2
<1>4. f[Len(<<s>>) + 1] = y
  BY <1>1, <1>2
<1> HIDE DEF f
<1>5. QED
  BY <1>1, <1>2, <1>3, <1>4 DEF Runs

\* One sequence after the other.
LEMMA RunsConcat ==
    ASSUME NEW x, NEW y, NEW z, NEW s, NEW t, Runs(x, s, y), Runs(y, t, z)
    PROVE  Runs(x, s \o t, z)
<1>1. PICK f \in [1..(Len(s) + 1) -> Situation] :
          /\ f[1] = x
          /\ f[Len(s) + 1] = y
          /\ \A i \in 1..Len(s) : StepOK(f[i], s[i], f[i + 1])
  BY DEF Runs
<1>2. PICK g \in [1..(Len(t) + 1) -> Situation] :
          /\ g[1] = y
          /\ g[Len(t) + 1] = z
          /\ \A i \in 1..Len(t) : StepOK(g[i], t[i], g[i + 1])
  BY DEF Runs
<1> DEFINE m == Len(s)
           n == Len(t)
           h == [i \in 1..(m + n + 1) |-> IF i <= m THEN f[i] ELSE g[i - m]]
<1>3. /\ s \in Seq(Step) /\ t \in Seq(Step) /\ m \in Nat /\ n \in Nat
      /\ s \o t \in Seq(Step) /\ Len(s \o t) = m + n
      /\ \A i \in 1..m : (s \o t)[i] = s[i]
      /\ \A i \in (m + 1)..(m + n) : (s \o t)[i] = t[i - m]
  BY DEF Runs
<1> HIDE DEF m, n
<1>4. h \in [1..(m + n + 1) -> Situation]
  <2> SUFFICES ASSUME NEW i \in 1..(m + n + 1)
               PROVE  (IF i <= m THEN f[i] ELSE g[i - m]) \in Situation
    OBVIOUS
  <2>1. CASE i <= m
    <3>1. m \in Nat /\ i \in 1..(m + 1)
      BY <1>3, <2>1
    <3>2. f[i] \in Situation
      BY <3>1 DEF m
    <3>3. QED
      BY <2>1, <3>2
  <2>2. CASE ~(i <= m)
    <3>1. m \in Nat /\ n \in Nat
      BY <1>3
    <3>2. i - m \in 1..(n + 1)
      BY <2>2, <3>1
    <3>3. g[i - m] \in Situation
      BY <3>2 DEF n
    <3>4. QED
      BY <2>2, <3>3
  <2>3. QED
    BY <2>1, <2>2
<1>5. h[1] = x /\ h[m + n + 1] = z
  <2>1. h[m + n + 1] = z
    BY <1>2, <1>3 DEF n
  <2>2. CASE m = 0
    BY <1>1, <1>2, <1>3, <2>1, <2>2 DEF m
  <2>3. CASE m # 0
    BY <1>1, <1>3, <2>1, <2>3
  <2>4. QED
    BY <2>2, <2>3
<1>6. ASSUME NEW i \in 1..(m + n)
      PROVE  StepOK(h[i], (s \o t)[i], h[i + 1])
  <2>1. CASE i < m
    <3>1. i \in 1..m /\ h[i] = f[i] /\ h[i + 1] = f[i + 1]
      BY <1>3, <2>1
    <3>2. QED
      BY <1>1, <1>3, <3>1 DEF m
  <2>2. CASE i = m
    <3>1. i \in 1..m /\ h[i] = f[i] /\ h[i + 1] = g[1]
      BY <1>3, <2>2
    <3>2. QED
      BY <1>1, <1>2, <1>3, <2>2, <3>1 DEF m
  <2>3. CASE i > m
    <3>0. /\ m \in Nat /\ n \in Nat /\ i \in Int
          /\ i - m \in 1..n /\ (i + 1) - m = (i - m) + 1
          /\ i \in 1..(m + n + 1) /\ ~(i <= m)
          /\ i + 1 \in 1..(m + n + 1) /\ ~(i + 1 <= m)
          /\ i \in (m + 1)..(m + n)
      BY <1>3, <2>3
    <3>1. i - m \in 1..n /\ h[i] = g[i - m] /\ h[i + 1] = g[(i - m) + 1]
      BY <3>0
    <3>2. (s \o t)[i] = t[i - m]
      BY <1>3, <3>0
    <3>3. StepOK(g[i - m], t[i - m], g[(i - m) + 1])
      BY <1>2, <3>1 DEF n
    <3>4. QED
      BY <3>1, <3>2, <3>3
  <2>4. QED
    BY <1>3, <2>1, <2>2, <2>3
<1> HIDE DEF h
<1>7. QED
  BY <1>3, <1>4, <1>5, <1>6 DEF Runs

\* The first step is in order, and what follows it runs on from there.
LEMMA RunsTail ==
    ASSUME NEW x, NEW z, NEW s, Runs(x, s, z), s # << >>
    PROVE  \E y \in Situation : StepOK(x, Head(s), y) /\ Runs(y, Tail(s), z)
<1>1. PICK f \in [1..(Len(s) + 1) -> Situation] :
          /\ f[1] = x
          /\ f[Len(s) + 1] = z
          /\ \A i \in 1..Len(s) : StepOK(f[i], s[i], f[i + 1])
  BY DEF Runs
<1>2. /\ s \in Seq(Step) /\ Len(s) \in Nat \ {0} /\ Head(s) = s[1]
      /\ Tail(s) \in Seq(Step) /\ Len(Tail(s)) = Len(s) - 1
      /\ \A i \in 1..(Len(s) - 1) : Tail(s)[i] = s[i + 1]
  BY DEF Runs
<1> DEFINE g == [i \in 1..(Len(Tail(s)) + 1) |-> f[i + 1]]
<1>3. g \in [1..(Len(Tail(s)) + 1) -> Situation]
  BY <1>2
<1>4. g[1] = f[2] /\ g[Len(Tail(s)) + 1] = z
  BY <1>1, <1>2
<1>5. \A i \in 1..Len(Tail(s)) : StepOK(g[i], Tail(s)[i], g[i + 1])
  <2> SUFFICES ASSUME NEW i \in 1..Len(Tail(s))
               PROVE  StepOK(g[i], Tail(s)[i], g[i + 1])
    OBVIOUS
  <2>1. i + 1 \in 1..Len(s) /\ Tail(s)[i] = s[i + 1] /\ g[i] = f[i + 1] /\ g[i + 1] = f[(i + 1) + 1]
    BY <1>2
  <2>2. QED
    BY <1>1, <2>1
<1> HIDE DEF g
<1>6. Runs(f[2], Tail(s), z)
  BY <1>2, <1>3, <1>4, <1>5 DEF Runs
<1>7. f[2] \in Situation /\ StepOK(x, Head(s), f[2])
  BY <1>1, <1>2
<1>8. QED
  BY <1>6, <1>7

-----------------------------------------------------------------------------
(* The pieces that handlers are made of                                     *)

\* The reasoner's slot is asked for under the store's write lock.
SlotNeedsStore(H, l) == l = "reasoner_slot" => Guard("store", "w") \in H

LEMMA Situations ==
    ASSUME NEW H \in Nested, NEW b \in Graph, NEW l \in Locks, NEW m \in Modes,
           SlotNeedsStore(H, l)
    PROVE  /\ At(H, b) \in Situation
           /\ At(H, b).held = H
           /\ At(H, b).graph = b
           /\ H \cup {Guard(l, m)} \in Nested
BY DEF At, Situation, Guard, Guards, Nested, SlotNeedsStore

LEMMA RunsAcquire ==
    ASSUME NEW H \in Nested, NEW b \in Graph, NEW l \in Locks, NEW m \in Modes,
           SlotNeedsStore(H, l), Above(H, l) \/ Reread(H, l, m)
    PROVE  /\ Runs(At(H, b), <<Acquire(l, m)>>, At(H \cup {Guard(l, m)}, b))
           /\ Acquire(l, m) \in PlainStep
<1>1. Acquire(l, m) \in Step /\ Acquire(l, m) \in PlainStep
  BY DEF Acquire, Step, PlainStep
<1>2. At(H, b) \in Situation /\ At(H \cup {Guard(l, m)}, b) \in Situation
  BY Situations DEF At, Situation
<1>3. StepOK(At(H, b), Acquire(l, m), At(H \cup {Guard(l, m)}, b))
  <2>1. At(H, b).held = H /\ At(H, b).graph = b
    BY Situations
  <2>2. /\ Acquire(l, m).act = "acquire"
        /\ Acquire(l, m).lock = l
        /\ Acquire(l, m).mode = m
    BY DEF Acquire
  <2>3. QED
    BY <2>1, <2>2 DEF StepOK
<1>4. QED
  BY <1>1, <1>2, <1>3, RunsStep

LEMMA RunsRelease ==
    ASSUME NEW H \in Nested, NEW b \in Graph, NEW l \in Locks, NEW m \in Modes,
           SlotNeedsStore(H, l), Above(H, l)
    PROVE  /\ Runs(At(H \cup {Guard(l, m)}, b), <<Release(l)>>, At(H, b))
           /\ Release(l) \in PlainStep
<1>1. Release(l) \in Step /\ Release(l) \in PlainStep
  BY DEF Release, Step, PlainStep
<1>2. At(H, b) \in Situation /\ At(H \cup {Guard(l, m)}, b) \in Situation
  BY Situations DEF At, Situation
<1>3. \A g \in H : g.lock # l
  <2> SUFFICES ASSUME NEW g \in H, g.lock = l
               PROVE  FALSE
    OBVIOUS
  <2>1. Rank(l) < Rank(l)
    BY DEF Above
  <2>2. Rank(l) \in Nat
    BY Ranks DEF Locks
  <2>3. QED
    BY <2>1, <2>2
<1>4. {g \in H \cup {Guard(l, m)} : g.lock # l} = H
  BY <1>3 DEF Guard
<1>5. StepOK(At(H \cup {Guard(l, m)}, b), Release(l), At(H, b))
  <2>1. /\ At(H \cup {Guard(l, m)}, b).held = H \cup {Guard(l, m)}
        /\ At(H \cup {Guard(l, m)}, b).graph = b
    BY DEF At
  <2>2. Release(l).act = "release" /\ Release(l).lock = l
    BY DEF Release
  <2>3. QED
    BY <1>4, <2>1, <2>2 DEF StepOK
<1>6. QED
  BY <1>1, <1>2, <1>5, RunsStep

LEMMA RunsWithin ==
    ASSUME NEW H \in Nested, NEW b \in Graph, NEW c \in Graph,
           NEW l \in Locks, NEW m \in Modes, NEW s, Above(H, l), SlotNeedsStore(H, l),
           Runs(At(H \cup {Guard(l, m)}, b), s, At(H \cup {Guard(l, m)}, c))
    PROVE  Runs(At(H, b), Within(l, m, s), At(H, c))
<1>1. Runs(At(H, b), <<Acquire(l, m)>>, At(H \cup {Guard(l, m)}, b))
  BY RunsAcquire
<1>2. Runs(At(H, b), <<Acquire(l, m)>> \o s, At(H \cup {Guard(l, m)}, c))
  BY <1>1, RunsConcat
<1>3. Runs(At(H \cup {Guard(l, m)}, c), <<Release(l)>>, At(H, c))
  BY RunsRelease
<1>4. QED
  BY <1>2, <1>3, RunsConcat DEF Within

LEMMA PlainConcat ==
    ASSUME NEW H, NEW K, NEW L, NEW s, NEW t, Plain(H, s, K), Plain(K, t, L)
    PROVE  Plain(H, s \o t, L)
BY RunsConcat DEF Plain

LEMMA PlainNothing ==
    ASSUME NEW H \in Nested
    PROVE  Plain(H, << >>, H)
<1>1. At(H, "none") \in Situation
  BY DEF At, Situation, Graph, Nested
<1>2. QED
  BY <1>1, RunsNothing DEF Plain

LEMMA PlainAcquire ==
    ASSUME NEW H \in Nested, NEW l \in Locks, NEW m \in Modes,
           Above(H, l), SlotNeedsStore(H, l)
    PROVE  Plain(H, <<Acquire(l, m)>>, H \cup {Guard(l, m)})
BY RunsAcquire DEF Plain, Graph

LEMMA PlainAgain ==
    ASSUME NEW H \in Nested, Guard("reasoner_slot", "r") \in H
    PROVE  Plain(H, Again("reasoner_slot"), H)
<1>1. /\ "reasoner_slot" \in Locks /\ "r" \in Modes /\ "none" \in Graph
      /\ H \cup {Guard("reasoner_slot", "r")} = H
  BY DEF Locks, Modes, Graph
<1>2. SlotNeedsStore(H, "reasoner_slot") /\ Reread(H, "reasoner_slot", "r")
  BY DEF SlotNeedsStore, Reread, Nested, Guard
<1>3. QED
  BY <1>1, <1>2, RunsAcquire DEF Plain, Again

LEMMA PlainWithin ==
    ASSUME NEW H \in Nested, NEW l \in Locks, NEW m \in Modes, NEW s,
           Above(H, l), SlotNeedsStore(H, l),
           Plain(H \cup {Guard(l, m)}, s, H \cup {Guard(l, m)})
    PROVE  Plain(H, Within(l, m, s), H)
<1>1. Runs(At(H, "none"), Within(l, m, s), At(H, "none"))
  BY RunsWithin DEF Plain, Graph
<1>2. Within(l, m, s) \in Seq(PlainStep)
  <2>1. <<Acquire(l, m)>> \in Seq(PlainStep) /\ <<Release(l)>> \in Seq(PlainStep)
    BY DEF Acquire, Release, Step, PlainStep
  <2>2. s \in Seq(PlainStep)
    BY DEF Plain
  <2>3. QED
    BY <2>1, <2>2 DEF Within
<1>3. QED
  BY <1>1, <1>2 DEF Plain

LEMMA PlainPeek ==
    ASSUME NEW H \in Nested, NEW l \in Locks, Above(H, l), SlotNeedsStore(H, l)
    PROVE  Plain(H, Peek(l), H) /\ Plain(H, Within(l, "w", << >>), H)
<1>1. "r" \in Modes /\ "w" \in Modes
  BY DEF Modes
<1>2. Plain(H \cup {Guard(l, "r")}, << >>, H \cup {Guard(l, "r")})
  BY <1>1, PlainNothing, Situations DEF Graph
<1>3. Plain(H \cup {Guard(l, "w")}, << >>, H \cup {Guard(l, "w")})
  BY <1>1, PlainNothing, Situations DEF Graph
<1>4. Peek(l) = Within(l, "r", << >>)
  BY DEF Peek, Within
<1>5. QED
  BY <1>1, <1>2, <1>3, <1>4, PlainWithin

LEMMA PlainWrite ==
    ASSUME NEW H \in Nested, Guard("store", "w") \in H
    PROVE  Plain(H, <<Do("write")>>, H)
<1>1. Do("write") \in Step /\ Do("write") \in PlainStep
  BY DEF Do, Step, PlainStep
<1>2. At(H, "none") \in Situation /\ At(H, "none").held = H
  BY DEF At, Situation, Graph, Nested
<1>3. StepOK(At(H, "none"), Do("write"), At(H, "none"))
  BY <1>2 DEF StepOK, Do
<1>4. QED
  BY <1>1, <1>2, <1>3, RunsStep DEF Plain

LEMMA Tuples ==
    ASSUME NEW a, NEW b, NEW c
    PROVE  /\ <<a>> \o <<b>> = <<a, b>>
           /\ (<<a>> \o <<b>>) \o <<c>> = <<a, b, c>>
<1> DEFINE f == [i \in 1..2 |-> IF i <= 1 THEN <<a>>[i] ELSE <<b>>[i - 1]]
           g == [i \in 1..3 |-> IF i <= 2 THEN <<a, b>>[i] ELSE <<c>>[i - 2]]
<1>1. Len(<<a>>) = 1 /\ Len(<<b>>) = 1 /\ Len(<<c>>) = 1 /\ Len(<<a, b>>) = 2
  OBVIOUS
<1>2. <<a>> \o <<b>> = f /\ <<a, b>> \o <<c>> = g
  BY <1>1
<1>3. <<a, b>> = f /\ <<a, b, c>> = g
  OBVIOUS
<1> HIDE DEF f, g
<1>4. QED
  BY <1>2, <1>3

LEMMA PlainParts ==
    ASSUME NEW H \in Nested
    PROVE  /\ Above(H, "changelog") => Plain(H, LogAppend, H)
           /\ Above(H, "reasoner_slot") /\ Guard("store", "w") \in H =>
                 /\ Plain(H, Reason, H)
                 /\ Plain(H, CombineDiff, H)
                 /\ Plain(H, CombineFirst, H)
                 /\ Plain(H, CombineUnload, H)
<1> DEFINE G == H \cup {Guard("reasoner_slot", "r")}
<1>1. /\ "changelog" \in Locks /\ "reasoner_slot" \in Locks /\ "reasoner" \in Locks
      /\ "r" \in Modes /\ "w" \in Modes
      /\ SlotNeedsStore(H, "changelog") /\ SlotNeedsStore(H, "reasoner")
      /\ SlotNeedsStore(G, "reasoner")
  BY DEF Locks, Modes, SlotNeedsStore
<1>2. ASSUME Above(H, "changelog") PROVE Plain(H, LogAppend, H)
  BY <1>1, <1>2, PlainPeek DEF LogAppend
<1>3. ASSUME Above(H, "reasoner_slot"), Guard("store", "w") \in H
      PROVE  /\ Plain(H, Reason, H)
             /\ Plain(H, CombineDiff, H)
             /\ Plain(H, CombineFirst, H)
             /\ Plain(H, CombineUnload, H)
  <2>1. SlotNeedsStore(H, "reasoner_slot")
    BY <1>3 DEF SlotNeedsStore
  <2>2. G \in Nested
    BY <1>1, <2>1, Situations DEF Graph
  <2>3. Above(G, "reasoner") /\ Above(H, "reasoner")
    <3>1. \A g \in H : Rank(g.lock) \in Nat
      BY Ranks DEF Nested, Guards, Locks
    <3>2. QED
      BY <1>3, <3>1, Ranks DEF Above, Guard
  <2>4. Plain(G, Within("reasoner", "w", << >>), G)
    BY <1>1, <2>2, <2>3, PlainPeek
  <2>5. Plain(H, Reason, H)
    BY <1>1, <1>3, <2>1, <2>4, PlainWithin DEF Reason
  <2>6. /\ Plain(H, Peek("reasoner_slot"), H)
        /\ Plain(H, Within("reasoner", "w", << >>), H)
        /\ Plain(H, Within("reasoner_slot", "w", << >>), H)
    BY <1>1, <1>3, <2>1, <2>3, PlainPeek
  <2>7. QED
    BY <2>5, <2>6, PlainConcat DEF CombineDiff, CombineFirst, CombineUnload
<1>4. QED
  BY <1>2, <1>3

\* A handler that starts without locks and gets through.
Good(h) == \E K \in Nested : Plain({}, h, K)

\* The guards of a handler that has the store for itself, or for reading.
StoreW == {Guard("store", "w")}
StoreR == {Guard("store", "r")}

LEMMA StoreGuards ==
    /\ {} \in Nested /\ StoreW \in Nested /\ StoreR \in Nested
    /\ "r" \in Modes /\ "w" \in Modes
    /\ \A l \in Locks : Above({}, l)
    /\ \A l \in {"changelog", "transactions", "reasoner_slot", "reasoner", "rulesets"} :
          l \in Locks /\ Above(StoreW, l) /\ Above(StoreR, l)
    /\ \A H, l : l # "reasoner_slot" => SlotNeedsStore(H, l)
    /\ \A l : SlotNeedsStore(StoreW, l)
    /\ Guard("store", "w") \in StoreW
    /\ Plain({}, <<Acquire("store", "w")>>, StoreW)
    /\ Plain({}, <<Acquire("store", "r")>>, StoreR)
    /\ Plain({}, Peek("registry"), {})
<1>1. /\ {} \in Nested /\ StoreW \in Nested /\ StoreR \in Nested
      /\ "r" \in Modes /\ "w" \in Modes /\ "store" \in Locks /\ "registry" \in Locks
  BY DEF StoreW, StoreR, Guard, Guards, Nested, Locks, Modes
<1>2. /\ \A l \in Locks : Above({}, l)
      /\ \A H, l : l # "reasoner_slot" => SlotNeedsStore(H, l)
      /\ \A l : SlotNeedsStore(StoreW, l)
  BY DEF Above, SlotNeedsStore, StoreW
<1>3. \A l \in {"changelog", "transactions", "reasoner_slot", "reasoner", "rulesets"} :
          l \in Locks /\ Above(StoreW, l) /\ Above(StoreR, l)
  BY Ranks DEF Above, StoreW, StoreR, Guard, Locks
<1>4. {} \cup {Guard("store", "w")} = StoreW /\ {} \cup {Guard("store", "r")} = StoreR
  BY DEF StoreW, StoreR
<1>5. /\ Plain({}, <<Acquire("store", "w")>>, StoreW)
      /\ Plain({}, <<Acquire("store", "r")>>, StoreR)
  <2>1. SlotNeedsStore({}, "store")
    BY <1>2
  <2>2. QED
    BY <1>1, <1>2, <1>4, <2>1, PlainAcquire
<1>6. Plain({}, Peek("registry"), {})
  <2>1. SlotNeedsStore({}, "registry")
    BY <1>2
  <2>2. QED
    BY <1>1, <1>2, <2>1, PlainPeek
<1>7. QED
  BY <1>1, <1>2, <1>3, <1>5, <1>6 DEF StoreW

\* What the handlers do under the store's lock.
LEMMA UnderStore ==
    /\ Plain(StoreW, LogAppend, StoreW)
    /\ Plain(StoreW, Reason, StoreW)
    /\ Plain(StoreW, Peek("reasoner_slot"), StoreW)
    /\ Plain(StoreW, <<Do("write")>>, StoreW)
    /\ Plain(StoreW, Within("rulesets", "w", << >>), StoreW)
    /\ Plain(StoreR, Within("transactions", "w", << >>), StoreR)
    /\ \A c \in {CombineDiff, CombineFirst, CombineUnload} :
          Plain(StoreW, c, StoreW) /\ Plain(StoreW, Within("rulesets", "w", c), StoreW)
<1> USE StoreGuards
<1>1. /\ Plain(StoreW, LogAppend, StoreW) /\ Plain(StoreW, Reason, StoreW)
      /\ \A c \in {CombineDiff, CombineFirst, CombineUnload} : Plain(StoreW, c, StoreW)
  BY PlainParts
<1>2. /\ Plain(StoreW, Peek("reasoner_slot"), StoreW)
      /\ Plain(StoreW, Within("rulesets", "w", << >>), StoreW)
      /\ Plain(StoreR, Within("transactions", "w", << >>), StoreR)
  BY PlainPeek
<1>3. Plain(StoreW, <<Do("write")>>, StoreW)
  BY PlainWrite
<1>4. ASSUME NEW c \in {CombineDiff, CombineFirst, CombineUnload}
      PROVE  Plain(StoreW, Within("rulesets", "w", c), StoreW)
  <2> DEFINE G == StoreW \cup {Guard("rulesets", "w")}
  <2>1. G \in Nested /\ Guard("store", "w") \in G
    BY Situations DEF Graph
  <2>2. Above(G, "reasoner_slot")
    BY Ranks DEF Above, Guard, StoreW
  <2>3. Plain(G, c, G)
    BY <2>1, <2>2, PlainParts
  <2>4. QED
    BY <2>3, PlainWithin
<1>5. QED
  BY <1>1, <1>2, <1>3, <1>4

LEMMA PlainPrefix ==
    ASSUME NEW h, Good(h)
    PROVE  Good(Peek("registry") \o h)
BY StoreGuards, PlainConcat DEF Good

LEMMA GoodRead ==
    /\ Good(run_select_query) /\ Good(run_transactional_query) /\ Good(gsp_get_inner)
    /\ Good(transaction_begin) /\ Good(transaction_rollback) /\ Good(admin_info)
<1> USE StoreGuards
<1>1. Good(run_select_query) /\ Good(gsp_get_inner)
  BY DEF Good, run_select_query, gsp_get_inner
<1>2. Good(run_transactional_query)
  <2>1. {} \cup {Guard("store", "r")} = StoreR /\ "store" \in Locks
    BY DEF StoreR, Locks
  <2>2. Plain({}, Within("store", "r", Within("transactions", "w", << >>)), {})
    BY <2>1, UnderStore, PlainWithin
  <2>3. QED
    BY <2>2 DEF Good, run_transactional_query
<1>3. Good(transaction_begin)
  <2>1. "store" \in Locks /\ "transactions" \in Locks
    BY DEF Locks
  <2>2. Plain({}, Peek("store"), {}) /\ Plain({}, Within("transactions", "w", << >>), {})
    BY <2>1, PlainPeek
  <2>3. QED
    BY <2>2, PlainConcat DEF Good, transaction_begin
<1>4. Good(transaction_rollback) /\ Good(admin_info)
  <2>1. /\ "registry" \in Locks /\ "transactions" \in Locks
        /\ {} \cup {Guard("registry", "r")} \in Nested
        /\ {} \cup {Guard("transactions", "w")} \in Nested
    BY DEF Locks, Guard, Guards, Nested, Modes
  <2>2. /\ Plain({}, transaction_rollback, {} \cup {Guard("transactions", "w")})
        /\ Plain({}, admin_info, {} \cup {Guard("registry", "r")})
    BY <2>1, PlainAcquire DEF transaction_rollback, admin_info
  <2>3. QED
    BY <2>1, <2>2 DEF Good
<1>5. QED
  BY <1>1, <1>2, <1>3, <1>4

\* The handlers of one dataset that change its store.
LEMMA GoodWrite ==
    /\ Good(run_update) /\ Good(run_transactional_update) /\ Good(upload_turtle)
    /\ Good(gsp_write) /\ Good(gsp_write_reasoner)
    /\ Good(dataset_ottr_post) /\ Good(dataset_rml_post) /\ Good(dataset_update_post)
    /\ Good(transaction_commit)
<1> USE StoreGuards, UnderStore
<1> DEFINE S == StoreW \cup {Guard("reasoner_slot", "r")}
<1>1. /\ Plain({}, LogAppend, {}) /\ Plain({}, Within("transactions", "w", << >>), {})
      /\ "store" \in Locks /\ "reasoner" \in Locks /\ "transactions" \in Locks
      /\ "changelog" \in Locks /\ "reasoner_slot" \in Locks
  <2>1. /\ "store" \in Locks /\ "reasoner" \in Locks /\ "transactions" \in Locks
        /\ "changelog" \in Locks /\ "reasoner_slot" \in Locks
    BY DEF Locks
  <2>2. QED
    BY <2>1, PlainParts, PlainPeek
<1>2. Plain({}, <<Acquire("store", "w")>> \o LogAppend, StoreW)
  BY PlainConcat
<1>3. /\ S \in Nested /\ Above(S, "reasoner") /\ Guard("store", "w") \in S
      /\ S \cup {Guard("reasoner", "w")} \in Nested
      /\ StoreW \cup {Guard("transactions", "w")} \in Nested
  <2>1. S \in Nested /\ StoreW \cup {Guard("transactions", "w")} \in Nested
    BY <1>1, Situations DEF Graph
  <2>2. S \cup {Guard("reasoner", "w")} \in Nested
    BY <1>1, <2>1, Situations DEF Graph
  <2>3. Above(S, "reasoner") /\ Guard("store", "w") \in S
    BY Ranks DEF Guard, Above, StoreW
  <2>4. QED
    BY <2>1, <2>2, <2>3
<1>4. Good(run_update)
  <2>1. Plain({}, <<Acquire("store", "w")>> \o LogAppend \o Reason, StoreW)
    BY <1>2, PlainConcat
  <2>2. Plain({}, <<Acquire("store", "w")>> \o LogAppend \o Reason \o Peek("reasoner_slot"),
              StoreW)
    BY <2>1, PlainConcat
  <2>3. Plain({}, <<Acquire("store", "w")>> \o LogAppend \o Reason \o Peek("reasoner_slot")
                      \o Reason, StoreW)
    BY <2>2, PlainConcat
  <2>4. Plain({}, run_update, StoreW)
    BY <2>3, PlainConcat DEF run_update
  <2>5. QED
    BY <2>4 DEF Good
<1>5. Good(gsp_write) /\ Good(gsp_write_reasoner)
  <2>1. Plain(StoreW, <<Acquire("reasoner_slot", "r")>>, S)
    BY <1>1, PlainAcquire
  <2>2. Plain(S, <<Do("write")>>, S)
    BY <1>3, PlainWrite
  <2>3. Plain(S, <<Acquire("reasoner", "w")>>, S \cup {Guard("reasoner", "w")})
    BY <1>1, <1>3, PlainAcquire
  <2>4. /\ <<Acquire("reasoner_slot", "r"), Do("write")>>
              = <<Acquire("reasoner_slot", "r")>> \o <<Do("write")>>
        /\ <<Acquire("reasoner_slot", "r"), Acquire("reasoner", "w")>>
              = <<Acquire("reasoner_slot", "r")>> \o <<Acquire("reasoner", "w")>>
    OBVIOUS
  <2> HIDE DEF S
  <2>5. Plain(StoreW, <<Acquire("reasoner_slot", "r")>> \o <<Do("write")>>, S)
    BY <2>1, <2>2, PlainConcat
  <2>6. Plain(StoreW, <<Acquire("reasoner_slot", "r")>> \o <<Acquire("reasoner", "w")>>,
              S \cup {Guard("reasoner", "w")})
    BY <2>1, <2>3, PlainConcat
  <2>7. Plain({}, gsp_write, S)
    <3>1. Plain(StoreW, <<Acquire("reasoner_slot", "r"), Do("write")>>, S)
      BY <2>4, <2>5, Zenon
    <3>2. QED
      BY <1>2, <3>1, PlainConcat DEF gsp_write
  <2>8. Plain({}, gsp_write_reasoner, S \cup {Guard("reasoner", "w")})
    <3>1. Plain(StoreW, <<Acquire("reasoner_slot", "r"), Acquire("reasoner", "w")>>,
                S \cup {Guard("reasoner", "w")})
      BY <2>4, <2>6, Zenon
    <3>2. QED
      BY <1>2, <3>1, PlainConcat DEF gsp_write_reasoner
  <2>9. QED
    BY <1>3, <2>7, <2>8 DEF Good
<1>6. Good(upload_turtle)
  BY <1>1, PlainConcat DEF Good, upload_turtle
<1>7. Good(dataset_ottr_post) /\ Good(dataset_rml_post)
  <2>1. <<Acquire("store", "w"), Do("write")>> = <<Acquire("store", "w")>> \o <<Do("write")>>
    OBVIOUS
  <2>2. Plain({}, <<Acquire("store", "w"), Do("write")>>, StoreW)
    BY <2>1, PlainConcat
  <2>3. Plain({}, Peek("registry") \o LogAppend, {})
    BY <1>1, PlainConcat
  <2>4. QED
    BY <2>2, <2>3, PlainConcat DEF Good, dataset_ottr_post, dataset_rml_post
<1>8. Good(dataset_update_post)
  <2>1. Plain({}, Peek("registry") \o <<Acquire("store", "w")>>, StoreW)
    BY PlainConcat
  <2>2. Plain({}, Peek("registry") \o <<Acquire("store", "w")>> \o LogAppend, StoreW)
    BY <2>1, PlainConcat
  <2>3. Plain({}, Peek("registry") \o <<Acquire("store", "w")>> \o LogAppend \o Reason, StoreW)
    BY <2>2, PlainConcat
  <2>4. QED
    BY <2>3, PlainConcat DEF Good, dataset_update_post
<1>9. Good(transaction_commit)
  <2> DEFINE T == Within("transactions", "w", << >>)
             U == <<Acquire("store", "w"), Acquire("reasoner_slot", "r")>>
             R == Within("reasoner", "w", << >>)
  <2>1. Plain(StoreW, <<Acquire("reasoner_slot", "r")>>, S)
    BY <1>1, PlainAcquire
  <2>2. Plain(S, R, S) /\ Plain(S, Again("reasoner_slot"), S) /\ Plain(S, <<Do("write")>>, S)
    <3>1. Plain(S, R, S)
      BY <1>1, <1>3, PlainPeek
    <3>2. QED
      BY <1>3, <3>1, PlainAgain, PlainWrite
  <2>3. U = <<Acquire("store", "w")>> \o <<Acquire("reasoner_slot", "r")>>
    OBVIOUS
  <2> HIDE DEF S, R
  <2>4. Plain({}, <<Acquire("store", "w")>> \o <<Acquire("reasoner_slot", "r")>>, S)
    BY <2>1, PlainConcat
  <2>5. Plain({}, U, S)
    BY <2>3, <2>4, Zenon
  <2> HIDE DEF U
  <2>6. Plain({}, T \o U, S)
    BY <1>1, <2>5, PlainConcat
  <2>7. Plain({}, T \o U \o R, S)
    BY <2>2, <2>6, PlainConcat
  <2>8. Plain({}, T \o U \o R \o Again("reasoner_slot"), S)
    BY <2>2, <2>7, PlainConcat
  <2>9. Plain({}, T \o U \o R \o Again("reasoner_slot") \o Again("reasoner_slot"), S)
    BY <2>2, <2>8, PlainConcat
  <2>10. Plain({}, T \o U \o R \o Again("reasoner_slot") \o Again("reasoner_slot") \o R, S)
    BY <2>2, <2>9, PlainConcat
  <2>11. Plain({}, transaction_commit, S)
    BY <2>2, <2>10, PlainConcat DEF transaction_commit, R, U
  <2>12. QED
    BY <1>3, <2>11 DEF Good
<1>10. Good(run_transactional_update)
  <2>1. <<Acquire("store", "w"), Acquire("transactions", "w")>>
           = <<Acquire("store", "w")>> \o <<Acquire("transactions", "w")>>
    OBVIOUS
  <2>2. Plain(StoreW, <<Acquire("transactions", "w")>>, StoreW \cup {Guard("transactions", "w")})
    BY <1>1, PlainAcquire
  <2>3. Plain({}, <<Acquire("store", "w")>> \o <<Acquire("transactions", "w")>>,
              StoreW \cup {Guard("transactions", "w")})
    BY <2>2, PlainConcat
  <2>4. Plain({}, run_transactional_update, StoreW \cup {Guard("transactions", "w")})
    BY <2>1, <2>3, Zenon DEF run_transactional_update
  <2>5. QED
    BY <1>3, <2>4 DEF Good
<1>11. QED
  BY <1>4, <1>5, <1>6, <1>7, <1>8, <1>9, <1>10

\* The handlers of rulesets and of the registry, and the other dataset's writer.
LEMMA GoodAdmin ==
    /\ \A c \in {CombineDiff, CombineFirst, CombineUnload} :
          Good(dataset_rules_post(c)) /\ Good(dataset_rules_id(c))
    /\ Good(admin_registry) /\ Good(admin_compact) /\ Good(write_store2)
<1> USE StoreGuards, UnderStore
<1>1. ASSUME NEW c \in {CombineDiff, CombineFirst, CombineUnload}
      PROVE  Good(dataset_rules_post(c)) /\ Good(dataset_rules_id(c))
  <2> DEFINE T == Peek("registry") \o <<Acquire("store", "w")>>
  <2>1. Plain({}, T, StoreW)
    BY PlainConcat
  <2>2. Plain({}, T \o c, StoreW) /\ Plain({}, T \o Within("rulesets", "w", c), StoreW)
    BY <2>1, PlainConcat
  <2>3. Plain({}, T \o c \o Within("rulesets", "w", << >>), StoreW)
    BY <2>2, PlainConcat
  <2>4. Plain({}, dataset_rules_post(c), StoreW) /\ Plain({}, dataset_rules_id(c), StoreW)
    BY <2>2, <2>3, PlainConcat DEF dataset_rules_post, dataset_rules_id
  <2>5. QED
    BY <2>4 DEF Good
<1>2. Good(admin_registry)
  <2> DEFINE G == {} \cup {Guard("registry", "w")}
  <2>1. G \in Nested /\ Above(G, "changelog") /\ "registry" \in Locks
    BY Ranks DEF Guards, Guard, Nested, Modes, Locks, Above
  <2>2. Plain(G, LogAppend, G)
    BY <2>1, PlainParts
  <2>3. Plain({}, admin_registry, {})
    BY <2>1, <2>2, PlainWithin DEF admin_registry
  <2>4. QED
    BY <2>3 DEF Good
<1>3. Good(write_store2)
  <2> DEFINE G == {} \cup {Guard("store2", "w")}
  <2>1. G \in Nested /\ Above(G, "changelog") /\ "store2" \in Locks
    BY Ranks DEF Guards, Guard, Nested, Modes, Locks, Above
  <2>2. Plain(G, LogAppend, G)
    BY <2>1, PlainParts
  <2>3. Plain({}, <<Acquire("store2", "w")>>, G)
    BY <2>1, PlainAcquire
  <2>4. Plain({}, write_store2, G)
    BY <2>2, <2>3, PlainConcat DEF write_store2
  <2>5. QED
    BY <2>1, <2>4 DEF Good
<1>4. Good(admin_compact)
  <2> DEFINE a == Acquire("registry", "r")
             b == Acquire(FirstStore, "r")
             c == Acquire(SecondStore, "r")
             A == {} \cup {Guard("registry", "r")}
             B == A \cup {Guard(FirstStore, "r")}
             C == B \cup {Guard(SecondStore, "r")}
  <2>1. /\ A \in Nested /\ B \in Nested /\ C \in Nested
        /\ "registry" \in Locks /\ FirstStore \in Locks /\ SecondStore \in Locks
        /\ FirstStore # "reasoner_slot" /\ SecondStore # "reasoner_slot"
    BY Ranks, FirstStoreAssumption DEF Guards, Guard, Nested, Modes, Locks, SecondStore
  <2>2. Above(A, FirstStore) /\ Above(B, SecondStore) /\ Above(C, "changelog")
    BY Ranks DEF Above, Guard
  <2>3. Plain({}, <<a>>, A) /\ Plain(A, <<b>>, B) /\ Plain(B, <<c>>, C)
    BY <2>1, <2>2, PlainAcquire
  <2>4. Plain(C, LogAppend, C)
    BY <2>1, <2>2, PlainParts
  <2> HIDE DEF a, b, c, A, B, C
  <2>5. Plain({}, (<<a>> \o <<b>>) \o <<c>>, C)
    <3>1. Plain({}, <<a>> \o <<b>>, B)
      BY <2>3, PlainConcat
    <3>2. QED
      BY <2>3, <3>1, PlainConcat
  <2>6. (<<a>> \o <<b>>) \o <<c>> = <<a, b, c>>
    BY Tuples, Zenon
  <2>7. Plain({}, <<a, b, c>>, C)
    BY <2>5, <2>6, Zenon
  <2>8. Plain({}, <<a, b, c>> \o LogAppend, C)
    BY <2>4, <2>7, PlainConcat
  <2>9. QED
    BY <2>1, <2>8 DEF Good, admin_compact, a, b, c
<1>5. QED
  BY <1>1, <1>2, <1>3, <1>4

LEMMA HandlersGood ==
    \A h \in Handlers : h = productive_values \/ Good(h)
<1>1. \A h \in sparql_post : Good(h)
  BY GoodRead, GoodWrite DEF sparql_post, sparql_get
<1>2. \A h \in dataset_read : Good(h)
  <2>1. \A h \in sparql_get \cup {gsp_get_inner} : Good(Peek("registry") \o h)
    BY GoodRead, PlainPrefix DEF sparql_get
  <2>2. QED
    BY <2>1 DEF dataset_read, Scoped
<1>3. \A h \in dataset_write : Good(h)
  <2>1. \A h \in {gsp_write, gsp_write_reasoner, run_update, run_transactional_update} :
            Good(Peek("registry") \o h)
    BY GoodWrite, PlainPrefix
  <2>2. QED
    BY <2>1 DEF dataset_write, Scoped
<1>4. QED
  BY <1>1, <1>2, <1>3, GoodRead, GoodWrite, GoodAdmin, Zenon DEF Handlers

\* An effect under guards H that takes the graph from b to c.
LEMMA RunsDo ==
    ASSUME NEW H \in Nested, NEW b \in Graph, NEW c \in Graph,
           NEW e, Do(e) \in Step, StepOK(At(H, b), Do(e), At(H, c))
    PROVE  Runs(At(H, b), <<Do(e)>>, At(H, c))
<1>1. At(H, b) \in Situation /\ At(H, c) \in Situation
  BY DEF At, Situation
<1>2. QED
  BY <1>1, RunsStep

\* The guards under which productive_values answers.
Answer == <<Acquire("vqs_cache", "r"), Acquire("store", "r")>>

LEMMA AnswerRuns ==
    \E K \in Situation : Runs(At({}, "none"), Answer, K)
<1> DEFINE V == {} \cup {Guard("vqs_cache", "r")}
           E == At(V \cup {Guard("store", "r")}, "none")
           N == At({}, "none")
<1>1. /\ {} \in Nested /\ V \in Nested
      /\ "store" \in Locks /\ "vqs_cache" \in Locks /\ "r" \in Modes /\ "none" \in Graph
      /\ Above({}, "vqs_cache") /\ Above(V, "store")
      /\ SlotNeedsStore({}, "vqs_cache") /\ SlotNeedsStore(V, "store")
      /\ V \cup {Guard("store", "r")} \in Nested
  BY Ranks DEF Guard, Guards, Nested, Locks, Modes, Graph, Above, SlotNeedsStore
<1>2. Runs(N, <<Acquire("vqs_cache", "r")>>, At(V, "none"))
  BY <1>1, RunsAcquire
<1>3. Runs(At(V, "none"), <<Acquire("store", "r")>>, E)
  BY <1>1, RunsAcquire
<1>4. <<Acquire("vqs_cache", "r")>> \o <<Acquire("store", "r")>> = Answer
  BY Tuples, Zenon DEF Answer
<1>5. E \in Situation
  BY <1>1 DEF At, Situation
<1> HIDE DEF N, V, E
<1>6. Runs(N, <<Acquire("vqs_cache", "r")>> \o <<Acquire("store", "r")>>, E)
  BY <1>2, <1>3, RunsConcat
<1>7. Runs(N, Answer, E)
  BY <1>4, <1>6, Zenon
<1>8. QED
  BY <1>5, <1>7 DEF N

\* productive_values reads its tag, builds and installs, each under its lock.
LEMMA ProductiveRuns ==
    \E K \in Situation : Runs(At({}, "none"), productive_values, K)
<1> DEFINE R == {} \cup {Guard("store", "r")}
           V == {} \cup {Guard("vqs_cache", "r")}
           W == {} \cup {Guard("vqs_cache", "w")}
           N == At({}, "none")
           B == At({}, "built")
<1>1. /\ {} \in Nested /\ R \in Nested /\ V \in Nested /\ W \in Nested
      /\ "store" \in Locks /\ "vqs_cache" \in Locks /\ "r" \in Modes /\ "w" \in Modes
      /\ "none" \in Graph /\ "built" \in Graph
      /\ Above({}, "store") /\ Above({}, "vqs_cache")
      /\ SlotNeedsStore({}, "store") /\ SlotNeedsStore({}, "vqs_cache")
  BY Ranks DEF Guard, Guards, Nested, Locks, Modes, Graph, Above, SlotNeedsStore
<1>2. \A e \in {"write", "read_generation", "check", "build", "install"} :
          Do(e) \in Step /\ Do(e).act = "do" /\ Do(e).effect = e
  BY DEF Do, Step
<1>3. Runs(N, Within("store", "r", <<Do("read_generation")>>), N)
  <2>1. StepOK(At(R, "none"), Do("read_generation"), At(R, "none"))
    BY <1>2 DEF StepOK, At, Guard
  <2>2. QED
    BY <1>1, <1>2, <2>1, RunsDo, RunsWithin
<1>4. Runs(N, Within("vqs_cache", "r", <<Do("check")>>), N)
  <2>1. StepOK(At(V, "none"), Do("check"), At(V, "none"))
    BY <1>2 DEF StepOK, At, Guard
  <2>2. QED
    BY <1>1, <1>2, <2>1, RunsDo, RunsWithin
<1>5. Runs(N, Within("store", "r", <<Do("build")>>), B)
  <2>1. StepOK(At(R, "none"), Do("build"), At(R, "built"))
    BY <1>2 DEF StepOK, At, Guard
  <2>2. QED
    BY <1>1, <1>2, <2>1, RunsDo, RunsWithin
<1>6. Runs(B, Within("vqs_cache", "w", <<Do("install")>>), N)
  <2>1. StepOK(At(W, "built"), Do("install"), At(W, "none"))
    BY <1>2 DEF StepOK, At, Guard
  <2>2. QED
    BY <1>1, <1>2, <2>1, RunsDo, RunsWithin
<1>7. PICK E \in Situation : Runs(N, Answer, E)
  BY AnswerRuns
<1> HIDE DEF N, B
<1>8. Runs(N, Within("store", "r", <<Do("read_generation")>>)
                 \o Within("vqs_cache", "r", <<Do("check")>>), N)
  BY <1>3, <1>4, RunsConcat
<1>9. Runs(N, Within("store", "r", <<Do("read_generation")>>)
                 \o Within("vqs_cache", "r", <<Do("check")>>)
                 \o Within("store", "r", <<Do("build")>>), B)
  BY <1>5, <1>8, RunsConcat
<1>10. Runs(N, Within("store", "r", <<Do("read_generation")>>)
                 \o Within("vqs_cache", "r", <<Do("check")>>)
                 \o Within("store", "r", <<Do("build")>>)
                 \o Within("vqs_cache", "w", <<Do("install")>>), N)
  BY <1>6, <1>9, RunsConcat
<1>11. Runs(N, productive_values, E)
  BY <1>7, <1>10, RunsConcat DEF productive_values, Answer
<1>12. QED
  BY <1>7, <1>11 DEF N

-----------------------------------------------------------------------------
(* The rebuild that a current cache skips                                   *)

\* A request that has still to check the cache ends with the two guards of its
\* answer.
CheckTail(s) ==
    (\E i \in 1..Len(s) : s[i] = Do("check")) =>
        /\ Len(s) >= 2
        /\ s[Len(s) - 1] = Acquire("vqs_cache", "r")
        /\ s[Len(s)] = Acquire("store", "r")

LEMMA StepsDiffer ==
    /\ \A l, m, e : Acquire(l, m) # Do(e)
    /\ \A s \in PlainStep : s # Do("check")
<1>1. \A l, m, e : Acquire(l, m).act = "acquire" /\ Do(e).act = "do"
  BY DEF Acquire, Do
<1>2. ASSUME NEW s \in PlainStep PROVE s # Do("check")
  <2>1. Do("check").act = "do" /\ Do("check").effect = "check"
    BY DEF Do
  <2>2. QED
    BY <2>1 DEF PlainStep
<1>3. QED
  BY <1>1, <1>2

LEMMA CheckTailTail ==
    ASSUME NEW s \in Seq(Step), s # << >>, CheckTail(s)
    PROVE  CheckTail(Tail(s))
<1>1. /\ Len(s) \in Nat \ {0} /\ Len(Tail(s)) = Len(s) - 1
      /\ \A i \in 1..(Len(s) - 1) : Tail(s)[i] = s[i + 1]
  OBVIOUS
<1> SUFFICES ASSUME NEW i \in 1..(Len(s) - 1), s[i + 1] = Do("check")
             PROVE  /\ Len(s) - 1 >= 2
                    /\ Tail(s)[Len(s) - 2] = Acquire("vqs_cache", "r")
                    /\ Tail(s)[Len(s) - 1] = Acquire("store", "r")
  BY <1>1 DEF CheckTail
<1>2. i + 1 \in 1..Len(s)
  BY <1>1
<1>3. /\ Len(s) >= 2
      /\ s[Len(s) - 1] = Acquire("vqs_cache", "r")
      /\ s[Len(s)] = Acquire("store", "r")
  BY <1>2 DEF CheckTail
<1>4. i + 1 # Len(s)
  BY <1>3, StepsDiffer
<1>5. Len(s) - 1 >= 2
  <2> DEFINE n == Len(s)
             j == i + 1
  <2>0. n \in Nat /\ i \in 1..(n - 1) /\ i + 1 # n
    BY <1>1, <1>4
  <2>1. n \in Nat /\ j \in 2..n /\ j # n
    BY <2>0
  <2> HIDE DEF n, j
  <2>2. n - 1 >= 2
    BY <2>1
  <2>3. QED
    BY <2>2 DEF n
<1>6. Len(s) - 2 \in 1..(Len(s) - 1) /\ Len(s) - 1 \in 1..(Len(s) - 1)
  BY <1>1, <1>5
<1>7. /\ Tail(s)[Len(s) - 2] = s[(Len(s) - 2) + 1]
      /\ Tail(s)[Len(s) - 1] = s[(Len(s) - 1) + 1]
  BY <1>1, <1>6
<1>8. (Len(s) - 2) + 1 = Len(s) - 1 /\ (Len(s) - 1) + 1 = Len(s)
  BY <1>1
<1>9. QED
  BY <1>3, <1>5, <1>7, <1>8

LEMMA CheckTailPlain ==
    ASSUME NEW s \in Seq(PlainStep)
    PROVE  CheckTail(s)
BY StepsDiffer DEF CheckTail

LEMMA SkipsToAnswer ==
    ASSUME NEW s \in Seq(Step), s # << >>, CheckTail(s), Head(s) = Do("check")
    PROVE  SkipRebuild(s) = Answer
<1>1. Len(s) \in Nat \ {0} /\ s[1] = Do("check")
  OBVIOUS
<1>2. /\ Len(s) >= 2
      /\ s[Len(s) - 1] = Acquire("vqs_cache", "r")
      /\ s[Len(s)] = Acquire("store", "r")
  BY <1>1 DEF CheckTail
<1> DEFINE a == Acquire("vqs_cache", "r")
           b == Acquire("store", "r")
           n == Len(s) - 1
<1>3. n \in Nat \ {0} /\ Len(s) = n + 1
  BY <1>1, <1>2
<1>4. SubSeq(s, n, n + 1) = [i \in 1..2 |-> s[n + i - 1]]
  BY <1>3
<1>5. s[n + 1 - 1] = a /\ s[n + 2 - 1] = b
  BY <1>2, <1>3
<1> HIDE DEF a, b, n
<1>6. [i \in 1..2 |-> s[n + i - 1]] = [i \in 1..2 |-> IF i = 1 THEN a ELSE b]
  BY <1>3, <1>5
<1>7. <<a, b>> = [i \in 1..2 |-> IF i = 1 THEN a ELSE b]
  OBVIOUS
<1>8. SubSeq(s, n, n + 1) = <<a, b>>
  BY <1>4, <1>6, <1>7
<1>9. QED
  BY <1>3, <1>8 DEF SkipRebuild, Answer, a, b, n

LEMMA CheckTailProductive == CheckTail(productive_values)
<1> DEFINE X == Within("store", "r", <<Do("read_generation")>>)
                  \o Within("vqs_cache", "r", <<Do("check")>>)
                  \o Within("store", "r", <<Do("build")>>)
                  \o Within("vqs_cache", "w", <<Do("install")>>)
           a == Acquire("vqs_cache", "r")
           b == Acquire("store", "r")
<1>1. X \in Seq(Step)
  <2>1. \A l \in {"store", "vqs_cache"}, m \in {"r", "w"},
           e \in {"read_generation", "check", "build", "install"} :
            /\ <<Acquire(l, m)>> \in Seq(Step)
            /\ <<Release(l)>> \in Seq(Step)
            /\ <<Do(e)>> \in Seq(Step)
    BY DEF Acquire, Release, Do, Step, Locks, Modes
  <2>2. \A l \in {"store", "vqs_cache"}, m \in {"r", "w"},
           e \in {"read_generation", "check", "build", "install"} :
            Within(l, m, <<Do(e)>>) \in Seq(Step)
    <3> SUFFICES ASSUME NEW l \in {"store", "vqs_cache"}, NEW m \in {"r", "w"},
                        NEW e \in {"read_generation", "check", "build", "install"}
                 PROVE  Within(l, m, <<Do(e)>>) \in Seq(Step)
      OBVIOUS
    <3>1. <<Acquire(l, m)>> \o <<Do(e)>> \in Seq(Step)
      BY <2>1
    <3>2. QED
      BY <2>1, <3>1 DEF Within
  <2>3. /\ Within("store", "r", <<Do("read_generation")>>) \in Seq(Step)
        /\ Within("vqs_cache", "r", <<Do("check")>>) \in Seq(Step)
        /\ Within("store", "r", <<Do("build")>>) \in Seq(Step)
        /\ Within("vqs_cache", "w", <<Do("install")>>) \in Seq(Step)
    BY <2>2
  <2>4. QED
    BY <2>3
<1>2. productive_values = X \o <<a, b>>
  BY DEF productive_values
<1>3. a \in Step /\ b \in Step
  BY DEF Acquire, Step, Locks, Modes
<1> HIDE DEF X, a, b
<1>4. /\ <<a, b>> \in Seq(Step) /\ Len(<<a, b>>) = 2
      /\ <<a, b>>[1] = a /\ <<a, b>>[2] = b /\ Len(X) \in Nat
  BY <1>1, <1>3
<1>5. Len(X \o <<a, b>>) = Len(X) + 2
  BY <1>1, <1>4
<1>6. (X \o <<a, b>>)[Len(X) + 1] = a /\ (X \o <<a, b>>)[Len(X) + 2] = b
  BY <1>1, <1>4
<1>7. Len(X) + 2 - 1 = Len(X) + 1 /\ Len(X) + 2 >= 2
  BY <1>4
<1>8. QED
  BY <1>2, <1>5, <1>6, <1>7 DEF CheckTail, a, b

-----------------------------------------------------------------------------
(* One request                                                              *)

\* The guards H, the steps s left and the generations m of a request fit
\* together: the steps are in order from here on, and a built graph is at
\* least as new as its tag.
Sound(H, s, m) ==
    /\ s = << >> => H = {}
    /\ CheckTail(s)
    /\ \E b \in Graph, K \in Situation :
          Runs(At(H, b), s, K) /\ (b = "built" => m.tag <= m.built)

\* What a request holds after the first of its steps s.
Left(s, H) == IF Len(s) = 1 THEN {} ELSE H

LEMMA SoundHandlers ==
    ASSUME NEW h \in Handlers, NEW m
    PROVE  h \in Seq(Step) /\ Sound({}, h, m)
<1>1. CheckTail(h) /\ \E K \in Situation : Runs(At({}, "none"), h, K)
  <2>1. CASE h = productive_values
    BY <2>1, ProductiveRuns, CheckTailProductive
  <2>2. CASE Good(h)
    <3>1. PICK K \in Nested : Plain({}, h, K)
      BY <2>2 DEF Good
    <3>2. At(K, "none") \in Situation
      BY DEF At, Situation, Graph, Nested
    <3>3. QED
      BY <3>1, <3>2, CheckTailPlain DEF Plain
  <2>3. QED
    BY <2>1, <2>2, HandlersGood
<1>2. h \in Seq(Step)
  BY <1>1 DEF Runs
<1>3. QED
  BY <1>1, <1>2 DEF Sound, Graph

LEMMA SoundAfter ==
    ASSUME NEW s \in Seq(Step), s # << >>, CheckTail(s), NEW H \in SUBSET Guards,
           NEW c \in Graph, NEW K \in Situation, NEW m,
           Runs(At(H, c), Tail(s), K), c = "built" => m.tag <= m.built
    PROVE  Sound(Left(s, H), Tail(s), m)
<1>1. CheckTail(Tail(s))
  BY CheckTailTail
<1>2. CASE Len(s) = 1
  <2>1. Tail(s) = << >>
    BY <1>2
  <2>2. Runs(At({}, "none"), << >>, At({}, "none")) /\ At({}, "none") \in Situation
    <3>1. At({}, "none") \in Situation
      BY DEF At, Situation, Graph, Nested
    <3>2. QED
      BY <3>1, RunsNothing
  <2>3. Left(s, H) = {}
    BY <1>2 DEF Left
  <2>4. QED
    BY <1>1, <2>1, <2>2, <2>3 DEF Sound, Graph
<1>3. CASE Len(s) # 1
  <2>1. Tail(s) # << >>
    <3>1. Len(s) \in Nat \ {0} /\ Len(Tail(s)) = Len(s) - 1
      OBVIOUS
    <3>2. Len(Tail(s)) # 0
      BY <1>3, <3>1
    <3>3. Len(<< >>) = 0
      OBVIOUS
    <3>4. QED
      BY <3>2, <3>3, Zenon
  <2>2. Left(s, H) = H
    BY <1>3 DEF Left
  <2>3. QED
    BY <1>1, <2>1, <2>2 DEF Sound
<1>4. QED
  BY <1>2, <1>3

\* Who holds the reasoner's slot holds the store's write lock.
LEMMA SoundHolds ==
    ASSUME NEW H, NEW s, NEW m, Sound(H, s, m)
    PROVE  H \in Nested
<1>1. PICK b \in Graph, K \in Situation : Runs(At(H, b), s, K)
  BY DEF Sound
<1>2. At(H, b) \in Situation
  <2>1. PICK f \in [1..(Len(s) + 1) -> Situation] : f[1] = At(H, b)
    BY <1>1 DEF Runs
  <2>2. Len(s) \in Nat
    BY <1>1 DEF Runs
  <2>3. 1 \in 1..(Len(s) + 1)
    BY <2>2
  <2>4. QED
    BY <2>1, <2>3
<1>3. At(H, b).held = H
  BY DEF At
<1>4. QED
  BY <1>2, <1>3 DEF Situation

\* A request asks for a lock above all those it holds, or reads the reasoner's
\* slot once more; it asks for the slot under the store's write lock.  It goes
\* on with the lock.
LEMMA SoundAcquire ==
    ASSUME NEW H \in SUBSET Guards, NEW s \in Seq(Step), s # << >>, NEW m, Sound(H, s, m),
           Head(s).act = "acquire"
    PROVE  /\ Above(H, Head(s).lock) \/ Reread(H, Head(s).lock, Head(s).mode)
           /\ SlotNeedsStore(H, Head(s).lock)
           /\ Sound(Left(s, H \cup {Guard(Head(s).lock, Head(s).mode)}), Tail(s), m)
<1>1. PICK b \in Graph, K \in Situation :
          Runs(At(H, b), s, K) /\ (b = "built" => m.tag <= m.built)
  BY DEF Sound
<1>2. PICK y \in Situation : StepOK(At(H, b), Head(s), y) /\ Runs(y, Tail(s), K)
  BY <1>1, RunsTail
<1>3. At(H, b).held = H /\ At(H, b).graph = b
  BY DEF At
<1>4. /\ Above(H, Head(s).lock) \/ Reread(H, Head(s).lock, Head(s).mode)
      /\ y = At(H \cup {Guard(Head(s).lock, Head(s).mode)}, b)
  BY <1>2, <1>3 DEF StepOK
<1>5. H \cup {Guard(Head(s).lock, Head(s).mode)} \in Nested
  BY <1>4 DEF At, Situation
<1>6. CheckTail(s)
  BY DEF Sound
<1>7. SlotNeedsStore(H, Head(s).lock)
  BY <1>5 DEF SlotNeedsStore, Nested, Guard
<1>8. H \cup {Guard(Head(s).lock, Head(s).mode)} \in SUBSET Guards
  BY <1>5 DEF Nested
<1>9. QED
  BY <1>1, <1>2, <1>4, <1>6, <1>7, <1>8, SoundAfter

LEMMA SoundRelease ==
    ASSUME NEW H \in SUBSET Guards, NEW s \in Seq(Step), s # << >>, NEW m, Sound(H, s, m),
           Head(s).act = "release"
    PROVE  Sound(Left(s, {g \in H : g.lock # Head(s).lock}), Tail(s), m)
<1>1. PICK b \in Graph, K \in Situation :
          Runs(At(H, b), s, K) /\ (b = "built" => m.tag <= m.built)
  BY DEF Sound
<1>2. PICK y \in Situation : StepOK(At(H, b), Head(s), y) /\ Runs(y, Tail(s), K)
  BY <1>1, RunsTail
<1>3. At(H, b).held = H /\ At(H, b).graph = b
  BY DEF At
<1>4. y = At({g \in H : g.lock # Head(s).lock}, b)
  BY <1>2, <1>3 DEF StepOK
<1>5. {g \in H : g.lock # Head(s).lock} \in SUBSET Guards /\ CheckTail(s)
  BY DEF Sound
<1>6. QED
  BY <1>1, <1>2, <1>4, <1>5, SoundAfter

LEMMA SoundAnswer ==
    ASSUME NEW m
    PROVE  Sound({}, Answer, m)
<1>1. PICK K \in Situation : Runs(At({}, "none"), Answer, K)
  BY AnswerRuns
<1>2. CheckTail(Answer)
  <2>1. Answer \in Seq(PlainStep)
    <3>1. Acquire("vqs_cache", "r") \in PlainStep /\ Acquire("store", "r") \in PlainStep
      BY DEF Acquire, PlainStep, Step, Locks, Modes
    <3>2. QED
      BY <3>1 DEF Answer
  <2>2. QED
    BY <2>1, CheckTailPlain
<1>3. QED
  BY <1>1, <1>2 DEF Sound, Graph

\* What the code relies on when it reads or changes something shared.
Protected(e, H) ==
    /\ e = "write" => Guard("store", "w") \in H
    /\ e \in {"read_generation", "build"} => Guard("store", "r") \in H
    /\ e = "check" => Guard("vqs_cache", "r") \in H
    /\ e = "install" => Guard("vqs_cache", "w") \in H

\* An effect happens under its lock.  It leads to a sound request: with the
\* generations m unchanged after "write" and "check", with any after
\* "read_generation" and "install", with a graph as new as its tag after
\* "build"; what "install" installs is as new as its tag.
LEMMA SoundEffect ==
    ASSUME NEW H \in SUBSET Guards, NEW s \in Seq(Step), s # << >>, NEW m, Sound(H, s, m),
           Head(s).act = "do", NEW n
    PROVE  LET e == Head(s).effect
           IN  /\ e \in {"write", "read_generation", "check", "build", "install"}
               /\ Protected(e, H)
               /\ e \in {"write", "check"} => Sound(Left(s, H), Tail(s), m)
               /\ e \in {"read_generation", "install"} => Sound(Left(s, H), Tail(s), n)
               /\ e = "build" /\ n.tag <= n.built => Sound(Left(s, H), Tail(s), n)
               /\ e = "install" => m.tag <= m.built
               /\ e = "check" => Sound({}, SkipRebuild(s), n)
<1> DEFINE e == Head(s).effect
<1>1. PICK b \in Graph, K \in Situation :
          Runs(At(H, b), s, K) /\ (b = "built" => m.tag <= m.built)
  BY DEF Sound
<1>2. PICK y \in Situation : StepOK(At(H, b), Head(s), y) /\ Runs(y, Tail(s), K)
  BY <1>1, RunsTail
<1>3. At(H, b).held = H /\ At(H, b).graph = b
  BY DEF At
<1>4. Head(s) \in Step
  OBVIOUS
<1>5. e \in {"write", "read_generation", "check", "build", "install"}
  BY <1>4 DEF Step
<1>6. /\ e = "write" => Guard("store", "w") \in H /\ y = At(H, b)
      /\ e = "read_generation" => Guard("store", "r") \in H /\ y = At(H, "none")
      /\ e = "check" => Guard("vqs_cache", "r") \in H /\ y = At(H, b)
      /\ e = "build" => Guard("store", "r") \in H /\ y = At(H, "built")
      /\ e = "install" =>
            Guard("vqs_cache", "w") \in H /\ b = "built" /\ y = At(H, "none")
  BY <1>2, <1>3 DEF StepOK
<1>7. CheckTail(s)
  BY DEF Sound
<1>8. Protected(e, H)
  BY <1>6 DEF Protected
<1>9. e \in {"write", "check"} => Sound(Left(s, H), Tail(s), m)
  BY <1>1, <1>2, <1>6, <1>7, SoundAfter
<1>10. e \in {"read_generation", "install"} => Sound(Left(s, H), Tail(s), n)
  <2>1. "none" \in Graph /\ "none" # "built"
    BY DEF Graph
  <2>2. QED
    BY <1>2, <1>6, <1>7, <2>1, SoundAfter
<1>11. e = "build" /\ n.tag <= n.built => Sound(Left(s, H), Tail(s), n)
  <2>1. "built" \in Graph
    BY DEF Graph
  <2>2. QED
    BY <1>2, <1>6, <1>7, <2>1, SoundAfter
<1>12. e = "install" => m.tag <= m.built
  BY <1>1, <1>6
<1>13. ASSUME e = "check" PROVE Sound({}, SkipRebuild(s), n)
  <2>1. Head(s) = Do("check")
    BY <1>4, <1>13 DEF Step, Do
  <2>2. SkipRebuild(s) = Answer
    BY <1>7, <2>1, SkipsToAnswer
  <2>3. Sound({}, Answer, n)
    BY SoundAnswer
  <2>4. QED
    BY <2>2, <2>3
<1>14. QED
  BY <1>5, <1>8, <1>9, <1>10, <1>11, <1>12, <1>13

-----------------------------------------------------------------------------
(* All requests together                                                    *)

Fits == \A p \in Requests : Sound(held[p], todo[p], mine[p])

\* Nothing is tagged with, or built at, a generation yet to come.
Bounded ==
    /\ cache.tag <= cache.built /\ cache.built <= generation
    /\ \A p \in Requests : mine[p].tag <= generation /\ mine[p].built <= generation

\* Two guards of one lock are two readers' guards.
Exclusive ==
    \A p, q \in Requests : \A g \in held[p], h \in held[q] :
        g.lock = h.lock => (p = q /\ g = h) \/ (g.mode = "r" /\ h.mode = "r")

\* Whoever waits in a queue is at the step that asks for that lock, and waits
\* there once.
Waiters ==
    \A l \in Locks : \A i \in 1..Len(queue[l]) :
        /\ todo[queue[l][i].who] # << >>
        /\ Head(todo[queue[l][i].who]) = Acquire(l, queue[l][i].mode)
OnePlace ==
    \A l \in Locks : \A i, j \in 1..Len(queue[l]) :
        queue[l][i].who = queue[l][j].who => i = j


\* Nobody ever waits for the reasoner's slot: who asks for it has the store for
\* itself.
SlotAtOnce == queue["reasoner_slot"] = << >>

LockInv == TypeOK /\ Fits /\ Bounded /\ Exclusive /\ Waiters /\ OnePlace /\ SlotAtOnce

LEMMA InitInv == Init => LockInv
<1> SUFFICES ASSUME Init
             PROVE  LockInv
  OBVIOUS
<1>1. << >> \in Seq(Step) /\ << >> \in Seq([who : Requests, mode : Modes])
  OBVIOUS
<1>2. TypeOK
  BY <1>1 DEF Init, TypeOK, Fresh
<1>3. Fits
  <2> SUFFICES ASSUME NEW p \in Requests
               PROVE  Sound(held[p], todo[p], mine[p])
    BY DEF Fits
  <2>1. held[p] = {} /\ todo[p] = << >>
    BY DEF Init
  <2>2. At({}, "none") \in Situation
    BY DEF At, Situation, Graph, Nested
  <2>3. Runs(At({}, "none"), << >>, At({}, "none"))
    BY <2>2, RunsNothing
  <2>4. CheckTail(<< >>)
    BY DEF CheckTail
  <2>5. QED
    BY <2>1, <2>2, <2>3, <2>4 DEF Sound, Graph
<1>4. Bounded
  BY DEF Init, Bounded, Fresh
<1>5. Exclusive
  BY DEF Init, Exclusive
<1>6. Waiters /\ OnePlace /\ SlotAtOnce
  BY DEF Init, Waiters, OnePlace, SlotAtOnce, Locks
<1>7. QED
  BY <1>2, <1>3, <1>4, <1>5, <1>6 DEF LockInv

\* A lock that is given to the request at the step that asks for it.
LEMMA HoldKeeps ==
    ASSUME LockInv, NEW p \in Requests, NEW l, NEW m, todo[p] # << >>,
           Head(todo[p]).act = "acquire", l = Head(todo[p]).lock, m = Head(todo[p]).mode,
           Compatible(l, m), Hold(p, l, m), mine' = mine
    PROVE  /\ todo' \in [Requests -> Seq(Step)]
           /\ held' \in [Requests -> SUBSET Guards]
           /\ Fits' /\ Exclusive'
           /\ \A q \in Requests : q # p => todo'[q] = todo[q]
<1> DEFINE s == todo[p]
           H == held[p] \cup {Guard(l, m)}
<1>1. /\ s \in Seq(Step) /\ Head(s) \in Step /\ Tail(s) \in Seq(Step)
      /\ held[p] \in SUBSET Guards
  BY DEF LockInv, TypeOK, Guards
<1>2. l \in Locks /\ m \in Modes /\ H \in SUBSET Guards /\ Left(s, H) \in SUBSET H
  <2>1. l \in Locks /\ m \in Modes
    BY <1>1 DEF Step
  <2>2. QED
    BY <1>1, <2>1 DEF Guard, Guards, Left
<1>3. /\ todo' = [todo EXCEPT ![p] = Tail(s)]
      /\ held' = [held EXCEPT ![p] = Left(s, H)]
  BY DEF Hold, After, Left, Guard
<1>4. todo' \in [Requests -> Seq(Step)] /\ held' \in [Requests -> SUBSET Guards]
  BY <1>1, <1>2, <1>3 DEF LockInv, TypeOK, Guards
<1>5. Sound(Left(s, H), Tail(s), mine[p])
  BY <1>1, SoundAcquire DEF LockInv, Fits
<1>6. /\ \A q \in Requests : q # p => todo'[q] = todo[q] /\ held'[q] = held[q]
      /\ todo'[p] = Tail(s) /\ held'[p] = Left(s, H)
  BY <1>3 DEF LockInv, TypeOK
<1>7. Fits'
  BY <1>5, <1>6 DEF LockInv, Fits
<1>8. Exclusive'
  <2> SUFFICES ASSUME NEW q \in Requests, NEW r \in Requests,
                      NEW g \in held'[q], NEW h \in held'[r], g.lock = h.lock
               PROVE  (q = r /\ g = h) \/ (g.mode = "r" /\ h.mode = "r")
    BY DEF Exclusive
  <2>1. g \in held[q] \/ (q = p /\ g = Guard(l, m))
    BY <1>2, <1>6
  <2>2. h \in held[r] \/ (r = p /\ h = Guard(l, m))
    BY <1>2, <1>6
  <2>3. Guard(l, m).lock = l /\ Guard(l, m).mode = m
    BY DEF Guard
  <2>4. CASE g \in held[q] /\ h \in held[r]
    BY <2>4 DEF LockInv, Exclusive
  <2>5. CASE g \in held[q] /\ r = p /\ h = Guard(l, m)
    BY <2>3, <2>5 DEF Compatible
  <2>6. CASE q = p /\ g = Guard(l, m) /\ h \in held[r]
    BY <2>3, <2>6 DEF Compatible
  <2>7. CASE q = p /\ g = Guard(l, m) /\ r = p /\ h = Guard(l, m)
    BY <2>7
  <2>8. QED
    BY <2>1, <2>2, <2>4, <2>5, <2>6, <2>7
<1>9. QED
  BY <1>4, <1>6, <1>7, <1>8

LEMMA QueueTypes ==
    ASSUME TypeOK, NEW l \in Locks
    PROVE  /\ queue[l] \in Seq([who : Requests, mode : Modes])
           /\ Len(queue[l]) \in Nat
           /\ DOMAIN queue[l] = 1..Len(queue[l])
           /\ \A i \in 1..Len(queue[l]) : queue[l][i].who \in Requests /\ queue[l][i].mode \in Modes
<1>1. queue[l] \in Seq([who : Requests, mode : Modes])
  BY DEF TypeOK
<1>2. Len(queue[l]) \in Nat /\ DOMAIN queue[l] = 1..Len(queue[l])
  BY <1>1, LenProperties
<1>3. \A i \in 1..Len(queue[l]) : queue[l][i] \in [who : Requests, mode : Modes]
  BY <1>1, ElementOfSeq
<1>4. QED
  BY <1>1, <1>2, <1>3

LEMMA ArriveKeeps ==
    ASSUME LockInv, NEW p \in Requests, NEW h \in Handlers, Arrive(p, h)
    PROVE  LockInv'
<1>1. h \in Seq(Step) /\ Sound({}, h, mine[p])
  BY SoundHandlers
<1>2. held[p] = {}
  BY DEF LockInv, Fits, Sound, Arrive
<1>3. /\ todo' = [todo EXCEPT ![p] = h] /\ todo[p] = << >>
      /\ held' = held /\ queue' = queue /\ generation' = generation
      /\ cache' = cache /\ mine' = mine
  BY DEF Arrive
<1>4. /\ todo'[p] = h
      /\ \A q \in Requests : q # p => todo'[q] = todo[q]
  BY <1>3 DEF LockInv, TypeOK
<1>5. TypeOK'
  BY <1>1, <1>3 DEF LockInv, TypeOK
<1>6. Fits'
  BY <1>1, <1>2, <1>3, <1>4 DEF LockInv, Fits
<1>7. Bounded' /\ Exclusive' /\ OnePlace' /\ SlotAtOnce'
  BY <1>3 DEF LockInv, Bounded, Exclusive, OnePlace, SlotAtOnce
<1>8. Waiters'
  <2> SUFFICES ASSUME NEW l \in Locks, NEW i \in 1..Len(queue[l])
               PROVE  /\ todo'[queue[l][i].who] # << >>
                      /\ Head(todo'[queue[l][i].who]) = Acquire(l, queue[l][i].mode)
    BY <1>3 DEF Waiters
  <2>1. /\ todo[queue[l][i].who] # << >>
        /\ Head(todo[queue[l][i].who]) = Acquire(l, queue[l][i].mode)
    BY DEF LockInv, Waiters
  <2>2. queue[l][i].who \in Requests
    BY QueueTypes DEF LockInv
  <2>3. queue[l][i].who # p
    BY <1>3, <2>1
  <2>4. QED
    BY <1>4, <2>1, <2>2, <2>3
<1>9. QED
  BY <1>5, <1>6, <1>7, <1>8 DEF LockInv

\* Requests that wait keep waiting while another request makes a step.
LEMMA WaitersKeep ==
    ASSUME LockInv, NEW p \in Requests, queue' = queue,
           \A q \in Requests : q # p => todo'[q] = todo[q],
           \A l \in Locks : \A i \in 1..Len(queue[l]) : queue[l][i].who # p
    PROVE  Waiters' /\ OnePlace' /\ SlotAtOnce'
<1>1. \A l \in Locks : \A i \in 1..Len(queue[l]) : queue[l][i].who \in Requests
  BY QueueTypes DEF LockInv
<1>2. \A l \in Locks : \A i \in 1..Len(queue[l]) : todo'[queue[l][i].who] = todo[queue[l][i].who]
  BY <1>1
<1>3. Waiters'
  BY <1>2 DEF LockInv, Waiters
<1>4. OnePlace' /\ SlotAtOnce'
  BY DEF LockInv, OnePlace, SlotAtOnce
<1>5. QED
  BY <1>3, <1>4

\* Only a request that asks for a lock is in a queue.
LEMMA AcquirersWait ==
    ASSUME LockInv, NEW p \in Requests, Head(todo[p]).act # "acquire"
    PROVE  \A l \in Locks : \A i \in 1..Len(queue[l]) : queue[l][i].who # p
<1> SUFFICES ASSUME NEW l \in Locks, NEW i \in 1..Len(queue[l]), queue[l][i].who = p
             PROVE  FALSE
  OBVIOUS
<1>1. Head(todo[p]) = Acquire(l, queue[l][i].mode)
  BY DEF LockInv, Waiters
<1>2. QED
  BY <1>1 DEF Acquire

LEMMA TakeKeeps ==
    ASSUME LockInv, NEW p \in Requests, Take(p)
    PROVE  LockInv'
<1> DEFINE l == Head(todo[p]).lock
           m == Head(todo[p]).mode
<1>1. /\ todo[p] # << >> /\ Head(todo[p]).act = "acquire" /\ Compatible(l, m) /\ Hold(p, l, m)
      /\ queue' = queue /\ generation' = generation /\ cache' = cache /\ mine' = mine
  BY DEF Take, Free
<1> HIDE DEF l, m
<1>2. /\ todo' \in [Requests -> Seq(Step)]
      /\ held' \in [Requests -> SUBSET Guards]
      /\ Fits' /\ Exclusive'
      /\ \A q \in Requests : q # p => todo'[q] = todo[q]
  BY <1>1, HoldKeeps DEF l, m
<1>3. TypeOK' /\ Bounded'
  BY <1>1, <1>2 DEF LockInv, TypeOK, Bounded, Guards
<1>4. \A k \in Locks : \A i \in 1..Len(queue[k]) : queue[k][i].who # p
  <2>1. \A k \in Locks : \A i \in DOMAIN queue[k] : queue[k][i].who # p
    BY DEF Take, Waiting
  <2>2. \A k \in Locks : DOMAIN queue[k] = 1..Len(queue[k])
    BY QueueTypes DEF LockInv
  <2>3. QED
    BY <2>1, <2>2
<1>5. Waiters' /\ OnePlace' /\ SlotAtOnce'
  BY <1>1, <1>2, <1>4, WaitersKeep
<1>6. QED
  BY <1>2, <1>3, <1>5 DEF LockInv

\* A request asks for the reasoner's slot with the store's write lock.  Nobody
\* else can hold the slot then; the request itself holds it at most for
\* reading, and only when it reads it again.
LEMMA SlotIsFree ==
    ASSUME LockInv, NEW p \in Requests, todo[p] # << >>, Head(todo[p]).act = "acquire",
           Head(todo[p]).lock = "reasoner_slot"
    PROVE  Free("reasoner_slot", Head(todo[p]).mode)
<1> DEFINE m == Head(todo[p]).mode
<1>1. todo[p] \in Seq(Step) /\ held[p] \in SUBSET Guards /\ Sound(held[p], todo[p], mine[p])
  BY DEF LockInv, TypeOK, Fits, Guards
<1>2. /\ Above(held[p], "reasoner_slot") \/ Reread(held[p], "reasoner_slot", m)
      /\ Guard("store", "w") \in held[p]
  BY <1>1, SoundAcquire DEF SlotNeedsStore
<1> SUFFICES ASSUME NEW q \in Requests, NEW h \in held[q], h.lock = "reasoner_slot"
             PROVE  m = "r" /\ h.mode = "r"
  BY DEF Free, Compatible, LockInv, SlotAtOnce
<1> HIDE DEF m
<1>3. Guard("store", "w") \in held[q]
  BY SoundHolds DEF LockInv, Fits, Nested
<1>4. q = p
  BY <1>2, <1>3 DEF LockInv, Exclusive, Guard
<1>5. ~Above(held[p], "reasoner_slot")
  BY <1>4, Ranks DEF Above
<1>6. m = "r" /\ Guard("reasoner_slot", "r") \in held[p]
  BY <1>2, <1>5 DEF Reread
<1>7. h.mode = "r"
  BY <1>4, <1>6 DEF LockInv, Exclusive, Guard
<1>8. QED
  BY <1>6, <1>7

LEMMA WaitKeeps ==
    ASSUME LockInv, NEW p \in Requests, Wait(p)
    PROVE  LockInv'
<1> DEFINE l == Head(todo[p]).lock
           m == Head(todo[p]).mode
           e == [who |-> p, mode |-> m]
<1>1. /\ todo[p] # << >> /\ Head(todo[p]).act = "acquire"
      /\ queue' = [queue EXCEPT ![l] = Append(queue[l], e)]
      /\ todo' = todo /\ held' = held /\ generation' = generation
      /\ cache' = cache /\ mine' = mine
  BY DEF Wait
<1>2. Head(todo[p]) \in Step
  BY <1>1 DEF LockInv, TypeOK
<1>3. l \in Locks /\ m \in Modes /\ Head(todo[p]) = Acquire(l, m)
  BY <1>1, <1>2 DEF Step, Acquire
<1>4. /\ e \in [who : Requests, mode : Modes] /\ e.who = p /\ e.mode = m
      /\ queue[l] \in Seq([who : Requests, mode : Modes])
  BY <1>3 DEF LockInv, TypeOK
<1> HIDE DEF e, l, m
<1>5. /\ Append(queue[l], e) \in Seq([who : Requests, mode : Modes])
      /\ Len(Append(queue[l], e)) = Len(queue[l]) + 1
      /\ \A i \in 1..Len(queue[l]) : Append(queue[l], e)[i] = queue[l][i]
      /\ Append(queue[l], e)[Len(queue[l]) + 1] = e
      /\ Len(queue[l]) \in Nat
  BY <1>4
<1>6. /\ queue'[l] = Append(queue[l], e)
      /\ \A k \in Locks : k # l => queue'[k] = queue[k]
  BY <1>1, <1>3 DEF LockInv, TypeOK
<1>7. TypeOK' /\ Fits' /\ Bounded' /\ Exclusive'
  <2>1. TypeOK'
    BY <1>1, <1>3, <1>5 DEF LockInv, TypeOK
  <2>2. QED
    BY <1>1, <2>1 DEF LockInv, Fits, Bounded, Exclusive
<1>8. \A i \in 1..Len(queue[l]) : queue[l][i].who # p
  <2>1. \A i \in DOMAIN queue[l] : queue[l][i].who # p
    BY <1>3 DEF Wait, Waiting
  <2>2. DOMAIN queue[l] = 1..Len(queue[l])
    BY <1>4
  <2>3. QED
    BY <2>1, <2>2
<1>9. Waiters'
  <2> SUFFICES ASSUME NEW k \in Locks, NEW i \in 1..Len(queue'[k])
               PROVE  /\ todo[queue'[k][i].who] # << >>
                      /\ Head(todo[queue'[k][i].who]) = Acquire(k, queue'[k][i].mode)
    BY <1>1 DEF Waiters
  <2>1. CASE k # l
    BY <1>6, <2>1 DEF LockInv, Waiters
  <2>2. CASE k = l /\ i \in 1..Len(queue[l])
    <3>1. queue'[k][i] = queue[l][i]
      BY <1>5, <1>6, <2>2
    <3>2. QED
      BY <1>3, <2>2, <3>1 DEF LockInv, Waiters
  <2>3. CASE k = l /\ i = Len(queue[l]) + 1
    <3>1. queue'[k][i] = e
      BY <1>5, <1>6, <2>3
    <3>2. QED
      BY <1>1, <1>3, <1>4, <2>3, <3>1
  <2>4. k = l => i \in 1..Len(queue[l]) \/ i = Len(queue[l]) + 1
    BY <1>5, <1>6
  <2>5. QED
    BY <2>1, <2>2, <2>3, <2>4
<1>10. OnePlace'
  <2> SUFFICES ASSUME NEW k \in Locks, NEW i \in 1..Len(queue'[k]), NEW j \in 1..Len(queue'[k]),
                      queue'[k][i].who = queue'[k][j].who
               PROVE  i = j
    BY DEF OnePlace
  <2>1. CASE k # l
    BY <1>6, <2>1 DEF LockInv, OnePlace
  <2>2. CASE k = l
    <3>1. /\ i \in 1..Len(queue[l]) \/ i = Len(queue[l]) + 1
          /\ j \in 1..Len(queue[l]) \/ j = Len(queue[l]) + 1
      BY <1>5, <1>6, <2>2
    <3>2. /\ \A n \in 1..Len(queue[l]) : queue'[k][n] = queue[l][n]
          /\ queue'[k][Len(queue[l]) + 1] = e
      BY <1>5, <1>6, <2>2
    <3>3. CASE i \in 1..Len(queue[l]) /\ j \in 1..Len(queue[l])
      BY <1>3, <3>2, <3>3 DEF LockInv, OnePlace
    <3>4. CASE i \in 1..Len(queue[l]) /\ j = Len(queue[l]) + 1
      BY <1>4, <1>8, <3>2, <3>4
    <3>5. CASE i = Len(queue[l]) + 1 /\ j \in 1..Len(queue[l])
      BY <1>4, <1>8, <3>2, <3>5
    <3>6. QED
      BY <3>1, <3>3, <3>4, <3>5
  <2>3. QED
    BY <2>1, <2>2
<1>11. SlotAtOnce'
  <2>1. l # "reasoner_slot"
    BY SlotIsFree DEF Wait, l
  <2>2. QED
    BY <1>6, <2>1 DEF LockInv, SlotAtOnce, Locks
<1>12. QED
  BY <1>7, <1>9, <1>10, <1>11 DEF LockInv

LEMMA GrantKeeps ==
    ASSUME LockInv, NEW l \in Locks, Grant(l)
    PROVE  LockInv'
<1> DEFINE p == Head(queue[l]).who
           m == Head(queue[l]).mode
<1>1. /\ queue[l] # << >> /\ Compatible(l, m) /\ Hold(p, l, m)
      /\ queue' = [queue EXCEPT ![l] = Tail(queue[l])]
      /\ generation' = generation /\ cache' = cache /\ mine' = mine
  BY DEF Grant
<1>2. queue[l] \in Seq([who : Requests, mode : Modes])
  BY DEF LockInv, TypeOK
<1>3. /\ Len(queue[l]) \in Nat \ {0} /\ Head(queue[l]) = queue[l][1]
      /\ Tail(queue[l]) \in Seq([who : Requests, mode : Modes])
      /\ Len(Tail(queue[l])) = Len(queue[l]) - 1
      /\ \A i \in 1..(Len(queue[l]) - 1) : Tail(queue[l])[i] = queue[l][i + 1]
  BY <1>1, <1>2
<1>4. p \in Requests /\ m \in Modes /\ 1 \in 1..Len(queue[l])
  BY <1>3, QueueTypes DEF LockInv
<1>5. todo[p] # << >> /\ Head(todo[p]) = Acquire(l, m)
  BY <1>3, <1>4 DEF LockInv, Waiters
<1>6. Head(todo[p]).act = "acquire" /\ l = Head(todo[p]).lock /\ m = Head(todo[p]).mode
  BY <1>5 DEF Acquire
<1> HIDE DEF p, m
<1>7. /\ todo' \in [Requests -> Seq(Step)]
      /\ held' \in [Requests -> SUBSET Guards]
      /\ Fits' /\ Exclusive'
      /\ \A q \in Requests : q # p => todo'[q] = todo[q]
  BY <1>1, <1>4, <1>5, <1>6, HoldKeeps
<1>8. /\ queue'[l] = Tail(queue[l])
      /\ \A k \in Locks : k # l => queue'[k] = queue[k]
  BY <1>1 DEF LockInv, TypeOK
<1>9. TypeOK' /\ Bounded'
  <2>1. queue' \in [Locks -> Seq([who : Requests, mode : Modes])]
    BY <1>1, <1>3 DEF LockInv, TypeOK
  <2>2. QED
    BY <1>1, <1>7, <2>1 DEF LockInv, TypeOK, Bounded, Guards
<1>10. \A k \in Locks : k # l => \A i \in 1..Len(queue[k]) :
           queue[k][i].who # p /\ queue[k][i].who \in Requests
  <2> SUFFICES ASSUME NEW k \in Locks, k # l, NEW i \in 1..Len(queue[k])
               PROVE  queue[k][i].who # p /\ queue[k][i].who \in Requests
    OBVIOUS
  <2>1. Head(todo[queue[k][i].who]) = Acquire(k, queue[k][i].mode)
    BY DEF LockInv, Waiters
  <2>2. Acquire(k, queue[k][i].mode).lock = k
    BY DEF Acquire
  <2>3. queue[k][i].who \in Requests
    BY QueueTypes DEF LockInv
  <2>4. QED
    BY <1>6, <2>1, <2>2, <2>3
<1>11. \A i \in 1..(Len(queue[l]) - 1) :
           /\ i + 1 \in 1..Len(queue[l])
           /\ queue[l][i + 1].who # p /\ queue[l][i + 1].who \in Requests
  <2> SUFFICES ASSUME NEW i \in 1..(Len(queue[l]) - 1)
               PROVE  /\ i + 1 \in 1..Len(queue[l])
                      /\ queue[l][i + 1].who # p /\ queue[l][i + 1].who \in Requests
    OBVIOUS
  <2>1. i + 1 \in 1..Len(queue[l]) /\ i + 1 # 1
    BY <1>3
  <2>2. queue[l][i + 1].who # p
    BY <1>3, <1>4, <2>1 DEF LockInv, OnePlace, p
  <2>3. queue[l][i + 1].who \in Requests
    BY <2>1, QueueTypes DEF LockInv
  <2>4. QED
    BY <2>1, <2>2, <2>3
<1>12. Waiters'
  <2> SUFFICES ASSUME NEW k \in Locks, NEW i \in 1..Len(queue'[k])
               PROVE  /\ todo'[queue'[k][i].who] # << >>
                      /\ Head(todo'[queue'[k][i].who]) = Acquire(k, queue'[k][i].mode)
    BY DEF Waiters
  <2>1. CASE k # l
    <3>1. i \in 1..Len(queue[k]) /\ queue'[k][i] = queue[k][i]
      BY <1>8, <2>1
    <3>2. todo'[queue[k][i].who] = todo[queue[k][i].who]
      BY <1>7, <1>10, <2>1, <3>1
    <3>3. QED
      BY <3>1, <3>2 DEF LockInv, Waiters
  <2>2. CASE k = l
    <3>1. i \in 1..(Len(queue[l]) - 1) /\ queue'[k][i] = queue[l][i + 1]
      BY <1>3, <1>8, <2>2
    <3>2. todo'[queue[l][i + 1].who] = todo[queue[l][i + 1].who] /\ i + 1 \in 1..Len(queue[l])
      BY <1>7, <1>11, <3>1
    <3>3. QED
      BY <2>2, <3>1, <3>2 DEF LockInv, Waiters
  <2>3. QED
    BY <2>1, <2>2
<1>13. OnePlace'
  <2> SUFFICES ASSUME NEW k \in Locks, NEW i \in 1..Len(queue'[k]), NEW j \in 1..Len(queue'[k]),
                      queue'[k][i].who = queue'[k][j].who
               PROVE  i = j
    BY DEF OnePlace
  <2>1. CASE k # l
    BY <1>8, <2>1 DEF LockInv, OnePlace
  <2>2. CASE k = l
    <3>1. /\ i \in 1..(Len(queue[l]) - 1) /\ queue'[k][i] = queue[l][i + 1]
          /\ j \in 1..(Len(queue[l]) - 1) /\ queue'[k][j] = queue[l][j + 1]
      BY <1>3, <1>8, <2>2
    <3>2. i + 1 = j + 1
      BY <1>11, <3>1 DEF LockInv, OnePlace
    <3>3. QED
      BY <1>3, <3>1, <3>2
  <2>3. QED
    BY <2>1, <2>2
<1>14. SlotAtOnce'
  BY <1>1, <1>8 DEF LockInv, SlotAtOnce, Locks
<1>15. QED
  BY <1>7, <1>9, <1>12, <1>13, <1>14 DEF LockInv

LEMMA ExclusiveKeeps ==
    ASSUME LockInv, \A q \in Requests : held'[q] \in SUBSET held[q]
    PROVE  Exclusive'
<1> SUFFICES ASSUME NEW q \in Requests, NEW r \in Requests,
                    NEW g \in held'[q], NEW h \in held'[r], g.lock = h.lock
             PROVE  (q = r /\ g = h) \/ (g.mode = "r" /\ h.mode = "r")
  BY DEF Exclusive
<1>1. g \in held[q] /\ h \in held[r]
  OBVIOUS
<1>2. QED
  BY <1>1 DEF LockInv, Exclusive

LEMMA DropKeeps ==
    ASSUME LockInv, NEW p \in Requests, Drop(p)
    PROVE  LockInv'
<1> DEFINE s == todo[p]
           H == {h \in held[p] : h.lock # Head(s).lock}
<1>1. /\ s # << >> /\ Head(s).act = "release"
      /\ todo' = [todo EXCEPT ![p] = Tail(s)]
      /\ held' = [held EXCEPT ![p] = Left(s, H)]
      /\ queue' = queue /\ generation' = generation /\ cache' = cache /\ mine' = mine
  BY DEF Drop, After, Left
<1>2. s \in Seq(Step) /\ Tail(s) \in Seq(Step) /\ held[p] \in SUBSET Guards
  BY <1>1 DEF LockInv, TypeOK, Guards
<1>3. Left(s, H) \in SUBSET held[p]
  BY DEF Left
<1>4. Sound(Left(s, H), Tail(s), mine[p])
  BY <1>1, <1>2, SoundRelease DEF LockInv, Fits
<1> HIDE DEF H
<1>5. /\ todo'[p] = Tail(s) /\ held'[p] = Left(s, H)
      /\ \A q \in Requests : q # p => todo'[q] = todo[q] /\ held'[q] = held[q]
  BY <1>1 DEF LockInv, TypeOK
<1>6. TypeOK' /\ Bounded'
  BY <1>1, <1>2, <1>3 DEF LockInv, TypeOK, Bounded, Guards
<1>7. Fits'
  BY <1>1, <1>4, <1>5 DEF LockInv, Fits
<1>8. Exclusive'
  <2>1. \A q \in Requests : held'[q] \in SUBSET held[q]
    BY <1>3, <1>5
  <2>2. QED
    BY <2>1, ExclusiveKeeps
<1>9. Waiters' /\ OnePlace' /\ SlotAtOnce'
  BY <1>1, <1>5, WaitersKeep, AcquirersWait
<1>10. QED
  BY <1>6, <1>7, <1>8, <1>9 DEF LockInv

LEMMA EffectKeeps ==
    ASSUME LockInv, NEW p \in Requests, Effect(p)
    PROVE  LockInv'
<1> DEFINE s == todo[p]
           e == Head(s).effect
<1>1. /\ s # << >> /\ Head(s).act = "do" /\ queue' = queue
      /\ generation' = IF e = "write" THEN generation + 1 ELSE generation
      /\ cache' = IF e = "install" THEN mine[p] ELSE cache
  BY DEF Effect
<1>2. /\ s \in Seq(Step) /\ Tail(s) \in Seq(Step) /\ held[p] \in SUBSET Guards
      /\ mine[p] \in [tag : Nat, built : Nat] /\ generation \in Nat
      /\ cache \in [tag : Nat, built : Nat]
  BY <1>1 DEF LockInv, TypeOK, Guards
<1>3. Sound(held[p], s, mine[p])
  BY DEF LockInv, Fits
<1>4. ASSUME NEW n
      PROVE  /\ e \in {"write", "read_generation", "check", "build", "install"}
             /\ Protected(e, held[p])
             /\ e \in {"write", "check"} => Sound(Left(s, held[p]), Tail(s), mine[p])
             /\ e \in {"read_generation", "install"} => Sound(Left(s, held[p]), Tail(s), n)
             /\ e = "build" /\ n.tag <= n.built => Sound(Left(s, held[p]), Tail(s), n)
             /\ e = "install" => mine[p].tag <= mine[p].built
             /\ e = "check" => Sound({}, SkipRebuild(s), n)
  BY <1>1, <1>2, <1>3, SoundEffect
\* What the step leaves of the request, and of what it has read.
<1>5. \E H \in SUBSET held[p], t \in Seq(Step), n \in [tag : Nat, built : Nat] :
          /\ todo' = [todo EXCEPT ![p] = t]
          /\ held' = [held EXCEPT ![p] = H]
          /\ mine' = [mine EXCEPT ![p] = n]
          /\ n.tag <= generation /\ n.built <= generation
          /\ Sound(H, t, n)
  <2>1. mine[p].tag <= generation /\ mine[p].built <= generation
    BY DEF LockInv, Bounded
  <2>2. Left(s, held[p]) \in SUBSET held[p] /\ {} \in SUBSET held[p]
    BY DEF Left
  <2>3. Fresh \in [tag : Nat, built : Nat] /\ Fresh.tag = 0 /\ Fresh.built = 0
    BY DEF Fresh
  <2>4. ~(e = "check" /\ UpToDate(p)) =>
            /\ todo' = [todo EXCEPT ![p] = Tail(s)]
            /\ held' = [held EXCEPT ![p] = Left(s, held[p])]
    BY DEF Effect, After, Left
  <2>5. mine = [mine EXCEPT ![p] = mine[p]]
    BY DEF LockInv, TypeOK
  <2>6. CASE e = "write"
    <3>1. mine' = [mine EXCEPT ![p] = mine[p]]
      BY <2>5, <2>6 DEF Effect
    <3>2. Sound(Left(s, held[p]), Tail(s), mine[p])
      BY <1>4, <2>6
    <3>3. QED
      BY <1>2, <2>1, <2>2, <2>4, <2>6, <3>1, <3>2
  <2>7. CASE e = "read_generation"
    <3> DEFINE n == [mine[p] EXCEPT !.tag = generation]
    <3>1. mine' = [mine EXCEPT ![p] = n]
      BY <2>7 DEF Effect
    <3>2. Sound(Left(s, held[p]), Tail(s), n)
      BY <1>4, <2>7
    <3>3. n \in [tag : Nat, built : Nat] /\ n.tag = generation /\ n.built = mine[p].built
      BY <1>2
    <3>4. n.tag <= generation /\ n.built <= generation
      BY <1>2, <2>1, <3>3
    <3>5. todo' = [todo EXCEPT ![p] = Tail(s)] /\ held' = [held EXCEPT ![p] = Left(s, held[p])]
      BY <2>4, <2>7
    <3> HIDE DEF n, s
    <3>6. QED
      BY <1>2, <2>2, <3>1, <3>2, <3>3, <3>4, <3>5
  <2>8. CASE e = "build"
    <3> DEFINE n == [mine[p] EXCEPT !.built = generation]
    <3>1. mine' = [mine EXCEPT ![p] = n]
      BY <2>8 DEF Effect
    <3>2. n \in [tag : Nat, built : Nat] /\ n.built = generation /\ n.tag = mine[p].tag
      BY <1>2
    <3>3. Sound(Left(s, held[p]), Tail(s), n)
      BY <1>4, <2>1, <2>8, <3>2
    <3>4. n.tag <= generation /\ n.built <= generation
      BY <1>2, <2>1, <3>2
    <3>5. todo' = [todo EXCEPT ![p] = Tail(s)] /\ held' = [held EXCEPT ![p] = Left(s, held[p])]
      BY <2>4, <2>8
    <3> HIDE DEF n, s
    <3>6. QED
      BY <1>2, <2>2, <3>1, <3>2, <3>3, <3>4, <3>5
  <2>9. CASE e = "check" /\ UpToDate(p)
    <3>1. mine' = [mine EXCEPT ![p] = Fresh]
      BY <2>9 DEF Effect
    <3>2. todo' = [todo EXCEPT ![p] = SkipRebuild(s)] /\ held' = [held EXCEPT ![p] = {}]
      BY <2>9 DEF Effect
    <3>3. Sound({}, SkipRebuild(s), Fresh)
      BY <1>4, <2>9
    <3>4. SkipRebuild(s) \in Seq(Step)
      BY <3>3 DEF Sound, Runs
    <3>5. Fresh.tag <= generation /\ Fresh.built <= generation
      BY <1>2, <2>3
    <3> HIDE DEF s
    <3>6. QED
      BY <2>2, <2>3, <3>1, <3>2, <3>3, <3>4, <3>5
  <2>10. CASE e = "check" /\ ~UpToDate(p)
    <3>1. mine' = [mine EXCEPT ![p] = mine[p]]
      BY <2>5, <2>10 DEF Effect
    <3>2. Sound(Left(s, held[p]), Tail(s), mine[p])
      BY <1>4, <2>10
    <3>3. QED
      BY <1>2, <2>1, <2>2, <2>4, <2>10, <3>1, <3>2
  <2>11. CASE e = "install"
    <3>1. mine' = [mine EXCEPT ![p] = Fresh]
      BY <2>11 DEF Effect
    <3>2. Sound(Left(s, held[p]), Tail(s), Fresh)
      BY <1>4, <2>11
    <3>3. Fresh.tag <= generation /\ Fresh.built <= generation
      BY <1>2, <2>3
    <3>4. todo' = [todo EXCEPT ![p] = Tail(s)] /\ held' = [held EXCEPT ![p] = Left(s, held[p])]
      BY <2>4, <2>11
    <3> HIDE DEF s
    <3>5. QED
      BY <1>2, <2>2, <2>3, <3>1, <3>2, <3>3, <3>4
  <2>12. QED
    BY <1>4, <2>6, <2>7, <2>8, <2>9, <2>10, <2>11
<1>6. PICK H \in SUBSET held[p], t \in Seq(Step), n \in [tag : Nat, built : Nat] :
          /\ todo' = [todo EXCEPT ![p] = t]
          /\ held' = [held EXCEPT ![p] = H]
          /\ mine' = [mine EXCEPT ![p] = n]
          /\ n.tag <= generation /\ n.built <= generation
          /\ Sound(H, t, n)
  BY <1>5
<1>7. /\ todo'[p] = t /\ held'[p] = H /\ mine'[p] = n
      /\ \A q \in Requests : q # p =>
            todo'[q] = todo[q] /\ held'[q] = held[q] /\ mine'[q] = mine[q]
  BY <1>6 DEF LockInv, TypeOK
<1>8. TypeOK'
  <2>1. generation' \in Nat /\ cache' \in [tag : Nat, built : Nat]
    BY <1>1, <1>2
  <2>2. QED
    BY <1>1, <1>2, <1>6, <2>1 DEF LockInv, TypeOK, Guards
<1>9. Fits'
  BY <1>6, <1>7 DEF LockInv, Fits
<1>10. Exclusive'
  <2>1. \A q \in Requests : held'[q] \in SUBSET held[q]
    BY <1>7
  <2>2. QED
    BY <2>1, ExclusiveKeeps
<1>11. Bounded'
  <2>1. generation' \in Nat /\ generation <= generation'
    BY <1>1, <1>2
  <2>2. \A q \in Requests : mine'[q].tag <= generation' /\ mine'[q].built <= generation'
    <3> SUFFICES ASSUME NEW q \in Requests
                 PROVE  mine'[q].tag <= generation' /\ mine'[q].built <= generation'
      OBVIOUS
    <3>1. mine'[q].tag \in Nat /\ mine'[q].built \in Nat
      BY <1>8 DEF TypeOK
    <3>2. mine'[q].tag <= generation /\ mine'[q].built <= generation
      BY <1>6, <1>7 DEF LockInv, Bounded
    <3>3. QED
      BY SMTT(30), <1>2, <2>1, <3>1, <3>2
  <2>3. cache'.tag <= cache'.built /\ cache'.built <= generation'
    <3>1. mine[p].tag <= generation /\ mine[p].built <= generation
      BY DEF LockInv, Bounded
    <3>2. CASE e = "install"
      BY <1>1, <1>2, <1>4, <2>1, <3>1, <3>2
    <3>3. CASE e # "install"
      BY <1>1, <1>2, <2>1, <3>3 DEF LockInv, Bounded
    <3>4. QED
      BY <3>2, <3>3
  <2>4. QED
    BY <2>2, <2>3 DEF Bounded
<1>12. Waiters' /\ OnePlace' /\ SlotAtOnce'
  BY <1>1, <1>7, WaitersKeep, AcquirersWait
<1>13. QED
  BY <1>8, <1>9, <1>10, <1>11, <1>12 DEF LockInv

LEMMA NextKeeps ==
    ASSUME LockInv, [Next]_vars
    PROVE  LockInv'
<1>1. CASE UNCHANGED vars
  <2> USE <1>1 DEF vars, LockInv
  <2>1. TypeOK'
    BY DEF TypeOK
  <2>2. Fits' /\ Bounded'
    BY DEF Fits, Bounded
  <2>3. Exclusive'
    BY DEF Exclusive
  <2>4. Waiters' /\ OnePlace' /\ SlotAtOnce'
    BY DEF Waiters, OnePlace, SlotAtOnce
  <2>5. QED
    BY <2>1, <2>2, <2>3, <2>4
<1>2. ASSUME NEW l \in Locks, Grant(l) PROVE LockInv'
  BY <1>2, GrantKeeps
<1>3. ASSUME NEW p \in Requests, Progress(p) PROVE LockInv'
  BY <1>3, TakeKeeps, WaitKeeps, DropKeeps, EffectKeeps DEF Progress
<1>4. ASSUME NEW p \in Requests, NEW h \in Handlers, Arrive(p, h) PROVE LockInv'
  BY <1>4, ArriveKeeps
<1>5. QED
  BY <1>1, <1>2, <1>3, <1>4 DEF Next

-----------------------------------------------------------------------------
(* The theorems                                                             *)

\* Every lock is free, held by one writer or held by readers; what a request has
\* left to do takes its locks in order, but for the commit's second readings of
\* the reasoner's slot, which is only touched under the store's write lock; the
\* queues fit what the requests ask for, however many requests there are.
THEOREM LocksInvariant == Spec => []LockInv
<1>1. Init => LockInv
  BY InitInv
<1>2. LockInv /\ [Next]_vars => LockInv'
  BY NextKeeps
<1>3. QED
  BY <1>1, <1>2, PTL DEF Spec

\* Type correctness of the locks, the queues and the VQS cache.
THEOREM TypeCorrect == Spec => []TypeOK
<1>1. LockInv => TypeOK
  BY DEF LockInv
<1>2. QED
  BY <1>1, LocksInvariant, PTL

\* The VQS cache: a cache tagged with the store's generation has seen all of
\* the store's tracked writes, however many requests read, write and rebuild it
\* at once.
THEOREM CacheStaysCurrent == Spec => []CacheCurrent
<1>1. LockInv => CacheCurrent
  <2> SUFFICES ASSUME LockInv, cache.tag = generation
               PROVE  cache.built = generation
    BY DEF CacheCurrent
  <2>1. cache.tag \in Nat /\ cache.built \in Nat /\ generation \in Nat
    BY DEF LockInv, TypeOK
  <2>2. cache.tag <= cache.built /\ cache.built <= generation
    BY DEF LockInv, Bounded
  <2>3. QED
    BY <2>1, <2>2
<1>2. QED
  BY <1>1, LocksInvariant, PTL

\* A writer is alone: no other request holds the lock it holds.
WritersAlone ==
    \A p, q \in Requests : p # q =>
        \A g \in held[p], h \in held[q] : g.lock = h.lock => g.mode = "r" /\ h.mode = "r"

\* tokio's RwLock and Mutex keep their promise in the model: what Take and Grant
\* hand out is never shared with a writer.
THEOREM WritersStayAlone == Spec => []WritersAlone
<1>1. LockInv => WritersAlone
  BY DEF LockInv, Exclusive, WritersAlone
<1>2. QED
  BY <1>1, LocksInvariant, PTL

\* The effect a request is about to have.
About(p, e) == todo[p] # << >> /\ Head(todo[p]).act = "do" /\ Head(todo[p]).effect = e

\* No request is about to move the generation while another is about to move or
\* to use it, and none is about to replace the cache while another is about to
\* replace or to look at it.
NoConflict ==
    \A p, q \in Requests : p # q =>
        /\ About(p, "write") => \A e \in {"write", "read_generation", "build"} : ~About(q, e)
        /\ About(p, "install") => \A e \in {"install", "check"} : ~About(q, e)

\* The handlers change and read the store's generation and the VQS cache only
\* under the locks that keep others away from them.
THEOREM EffectsNeverConflict == Spec => []NoConflict
<1>1. LockInv => NoConflict
  <2> SUFFICES ASSUME LockInv, NEW p \in Requests, NEW q \in Requests, p # q
               PROVE  /\ About(p, "write") =>
                            \A e \in {"write", "read_generation", "build"} : ~About(q, e)
                      /\ About(p, "install") => \A e \in {"install", "check"} : ~About(q, e)
    BY DEF NoConflict
  <2>1. \A r \in Requests, e \in {"write", "read_generation", "check", "build", "install"} :
            About(r, e) => Protected(e, held[r])
    <3> SUFFICES ASSUME NEW r \in Requests, NEW e, About(r, e)
                 PROVE  Protected(e, held[r])
      OBVIOUS
    <3>1. todo[r] \in Seq(Step) /\ held[r] \in SUBSET Guards /\ Sound(held[r], todo[r], mine[r])
      BY DEF LockInv, TypeOK, Fits, Guards
    <3>2. QED
      BY <3>1, SoundEffect DEF About
  <2>2. \A g \in held[p], h \in held[q] : g.lock = h.lock => g.mode = "r" /\ h.mode = "r"
    BY DEF LockInv, Exclusive
  <2>3. \A l, m : Guard(l, m).lock = l /\ Guard(l, m).mode = m
    BY DEF Guard
  <2>4. ASSUME About(p, "write"), NEW e \in {"write", "read_generation", "build"}, About(q, e)
        PROVE  FALSE
    <3>1. Guard("store", "w") \in held[p]
      BY <2>1, <2>4 DEF Protected
    <3>2. Guard("store", "w") \in held[q] \/ Guard("store", "r") \in held[q]
      BY <2>1, <2>4 DEF Protected
    <3>3. QED
      BY <2>2, <2>3, <3>1, <3>2
  <2>5. ASSUME About(p, "install"), NEW e \in {"install", "check"}, About(q, e)
        PROVE  FALSE
    <3>1. Guard("vqs_cache", "w") \in held[p]
      BY <2>1, <2>5 DEF Protected
    <3>2. Guard("vqs_cache", "w") \in held[q] \/ Guard("vqs_cache", "r") \in held[q]
      BY <2>1, <2>5 DEF Protected
    <3>3. QED
      BY <2>2, <2>3, <3>1, <3>2
  <2>6. QED
    BY <2>4, <2>5
<1>2. QED
  BY <1>1, LocksInvariant, PTL

\* No request finds the reasoner's slot taken.  This is what saves a commit that
\* reads the slot again while it holds it: no writer can wait for the slot
\* between its two guards, since the writer would hold the store.
THEOREM SlotNeverAwaited == Spec => []SlotAtOnce
<1>1. LockInv => SlotAtOnce
  BY DEF LockInv
<1>2. QED
  BY <1>1, LocksInvariant, PTL

-----------------------------------------------------------------------------
(* No circle of requests that wait                                          *)

\* p waits for l.
Awaits(p, l) == \E i \in 1..Len(queue[l]) : queue[l][i].who = p

\* What a request that waits for l holds comes before l: the one lock asked for
\* out of order is never waited for.
LEMMA WaitersHoldBelow ==
    ASSUME LockInv, NEW q \in Requests, NEW k \in Locks, Awaits(q, k)
    PROVE  Above(held[q], k)
<1>1. PICK i \in 1..Len(queue[k]) : queue[k][i].who = q
  BY DEF Awaits
<1>2. todo[q] # << >> /\ Head(todo[q]) = Acquire(k, queue[k][i].mode)
  BY <1>1 DEF LockInv, Waiters
<1>3. Head(todo[q]).act = "acquire" /\ Head(todo[q]).lock = k
  BY <1>2 DEF Acquire
<1>4. todo[q] \in Seq(Step) /\ held[q] \in SUBSET Guards /\ Sound(held[q], todo[q], mine[q])
  BY DEF LockInv, TypeOK, Fits, Guards
<1>5. Above(held[q], k) \/ Reread(held[q], k, Head(todo[q]).mode)
  BY <1>2, <1>3, <1>4, SoundAcquire
<1>6. k # "reasoner_slot"
  BY <1>1 DEF LockInv, SlotAtOnce
<1>7. QED
  BY <1>5, <1>6 DEF Reread

\* Of the requests of S that wait for l, one is first in the queue.
LEMMA FirstOf ==
    ASSUME LockInv, NEW S \in SUBSET Requests, NEW l \in Locks, NEW p \in S, Awaits(p, l)
    PROVE  \E i \in 1..Len(queue[l]) :
              /\ queue[l][i].who \in S
              /\ \A j \in 1..(i - 1) : queue[l][j].who \notin S
<1> DEFINE I == {i \in 1..Len(queue[l]) : queue[l][i].who \in S}
<1>1. Len(queue[l]) \in Nat
  BY QueueTypes DEF LockInv
<1>2. I # {} /\ I \subseteq Nat
  BY <1>1 DEF Awaits
<1>3. PICK i \in I : \A j \in I : ~(<<j, i>> \in OpToRel(<, Nat))
  BY <1>2, NatLessThanWellFounded, WFMin
<1>4. ASSUME NEW j \in 1..(i - 1), queue[l][j].who \in S PROVE FALSE
  <2>1. i \in 1..Len(queue[l]) /\ j \in 1..Len(queue[l]) /\ j < i /\ i \in Nat /\ j \in Nat
    BY <1>1
  <2>2. j \in I
    BY <1>4, <2>1
  <2>3. <<j, i>> \in OpToRel(<, Nat)
    BY <2>1 DEF OpToRel
  <2>4. QED
    BY <1>3, <2>2, <2>3
<1>5. QED
  BY <1>4

\* Whoever a request of such a circle waits for, by way of the first of the
\* circle in the queue, holds that lock and waits for a higher one.
LEMMA CircleClimbs ==
    ASSUME LockInv, NEW S \in SUBSET Requests, \A p \in S : \E q \in S : WaitsFor(p, q),
           NEW l \in Locks, \E p \in S : Awaits(p, l)
    PROVE  \E k \in Locks : Rank(l) < Rank(k) /\ \E p \in S : Awaits(p, k)
<1>1. \A k \in Locks : DOMAIN queue[k] = 1..Len(queue[k])
  BY QueueTypes DEF LockInv
<1>2. PICK i \in 1..Len(queue[l]) :
          /\ queue[l][i].who \in S
          /\ \A j \in 1..(i - 1) : queue[l][j].who \notin S
  BY FirstOf
<1> DEFINE p == queue[l][i].who
<1>3. PICK q \in S : WaitsFor(p, q)
  BY <1>2
<1>4. PICK k \in Locks : \E n \in 1..Len(queue[k]) :
          /\ queue[k][n].who = p
          /\ \/ \E h \in held[q] : h.lock = k
             \/ \E j \in 1..(n - 1) : queue[k][j].who = q
  BY <1>1, <1>3 DEF WaitsFor
<1>5. k = l
  <2>1. Head(todo[p]) = Acquire(l, queue[l][i].mode)
    BY <1>2 DEF LockInv, Waiters
  <2>2. PICK n \in 1..Len(queue[k]) : Head(todo[p]) = Acquire(k, queue[k][n].mode)
    BY <1>4 DEF LockInv, Waiters
  <2>3. QED
    BY <2>1, <2>2 DEF Acquire
<1>6. PICK h \in held[q] : h.lock = l
  <2>1. PICK n \in 1..Len(queue[l]) :
            /\ queue[l][n].who = p
            /\ \/ \E h \in held[q] : h.lock = l
               \/ \E j \in 1..(n - 1) : queue[l][j].who = q
    BY <1>4, <1>5
  <2>2. n = i
    BY <1>2, <2>1 DEF LockInv, OnePlace
  <2>3. QED
    BY <1>2, <2>1, <2>2
<1>7. PICK w \in Locks : Awaits(q, w)
  <2>1. \E r \in S : WaitsFor(q, r)
    OBVIOUS
  <2>2. QED
    BY <1>1, <2>1 DEF WaitsFor, Awaits
<1>8. Rank(l) < Rank(w)
  BY <1>6, <1>7, WaitersHoldBelow DEF Above
<1>9. QED
  BY <1>7, <1>8

\* The endpoint never locks up, whatever handlers run beside each other: they
\* take the locks that may be waited for in one order.  (That every request
\* returns then rests on the fairness of the runtime and of the locks, which
\* TLC checks.)
THEOREM NeverLocksUp == Spec => []NoWaitCircle
<1>1. LockInv => NoWaitCircle
  <2> SUFFICES ASSUME LockInv, NEW S \in SUBSET Requests, NEW p \in S,
                      \A a \in S : \E b \in S : WaitsFor(a, b)
               PROVE  FALSE
    BY DEF NoWaitCircle
  <2> DEFINE Awaited(l) == \E a \in S : Awaits(a, l)
  <2>1. \A l \in Locks : Awaited(l) => \E k \in Locks : Rank(l) < Rank(k) /\ Awaited(k)
    BY CircleClimbs
  <2>2. \E l \in Locks : Awaited(l)
    <3>1. \A k \in Locks : DOMAIN queue[k] = 1..Len(queue[k])
      BY QueueTypes DEF LockInv
    <3>2. PICK q \in S : WaitsFor(p, q)
      OBVIOUS
    <3>3. PICK l \in Locks : \E i \in DOMAIN queue[l] : queue[l][i].who = p
      BY <3>2, Zenon DEF WaitsFor
    <3>4. Awaits(p, l)
      BY <3>1, <3>3 DEF Awaits
    <3>5. QED
      BY <3>4
  <2> HIDE DEF Awaited
  <2>3. \A l \in Locks : Rank(l) \in 0..8
    BY Ranks DEF Locks
  <2>4. \A l \in Locks : Awaited(l) => Rank(l) < 7
    BY <2>1, <2>3
  <2>5. \A l \in Locks : Awaited(l) => Rank(l) < 5
    BY <2>1, <2>3, <2>4
  <2>6. \A l \in Locks : Awaited(l) => Rank(l) < 3
    BY <2>1, <2>3, <2>5
  <2>7. \A l \in Locks : Awaited(l) => Rank(l) < 1
    BY <2>1, <2>3, <2>6
  <2>8. QED
    BY <2>1, <2>2, <2>3, <2>7
<1>2. QED
  BY <1>1, LocksInvariant, PTL
=============================================================================
