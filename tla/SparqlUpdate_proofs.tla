------------------------ MODULE SparqlUpdate_proofs ------------------------
(* Lemmas about the operators of SparqlUpdate and Changelog, for the proofs  *)
(* of the modules built over them: what the operations of a request make of  *)
(* a store, what the entries logged for them make of it when they are        *)
(* replayed.  Before them, lemmas about the folds that define the operators; *)
(* the library's theorems on induction and recursion take an operator, these *)
(* take a set or a function instead.                                         *)
EXTENDS SparqlUpdate, FiniteSetsExt, FiniteSetTheorems, SequenceTheorems,
        WellFoundedInduction, TLAPS

-----------------------------------------------------------------------------
(* Induction and folds                                                       *)

\* Induction over the natural numbers.
LEMMA SetInduction ==
    ASSUME NEW S, 0 \in S, \A n \in Nat : n \in S => n + 1 \in S
    PROVE  Nat \subseteq S
<1> DEFINE T == Nat \ S
           R == OpToRel(<, Nat)
<1> SUFFICES ASSUME T # {}
             PROVE  FALSE
  OBVIOUS
<1>1. IsWellFoundedOn(R, Nat)
  BY NatLessThanWellFounded
<1>2. \A x, y \in Nat : x < y => <<x, y>> \in R
  BY DEF OpToRel
<1> HIDE DEF R
<1>3. PICK x \in T : \A y \in T : ~(<<y, x>> \in R)
  <2>1. T \subseteq Nat
    OBVIOUS
  <2>2. QED
    BY <1>1, <2>1, WFMin
<1>4. x # 0
  BY <1>3
<1>5. x - 1 \in Nat /\ x - 1 < x /\ (x - 1) + 1 = x
  BY <1>3, <1>4
<1>6. x - 1 \notin T
  BY <1>2, <1>3, <1>5
<1>7. QED
  BY <1>3, <1>5, <1>6

\* A finite set of numbers has a greatest element, the one Max chooses.
LEMMA MaxOfSet ==
    ASSUME NEW n \in Nat, NEW s \in SUBSET (1..n), s # {}
    PROVE  Max(s) \in s /\ \A y \in s : y <= Max(s)
<1> DEFINE HasMax(t) == \E x \in t : \A y \in t : x >= y
           S == {m \in Nat : \A t \in SUBSET (1..m) : t # {} => HasMax(t)}
<1>1. 0 \in S
  <2>1. \A t \in SUBSET (1..0) : t = {}
    OBVIOUS
  <2>2. QED
    BY <2>1
<1>2. ASSUME NEW m \in Nat, m \in S
      PROVE  m + 1 \in S
  <2> SUFFICES ASSUME NEW t \in SUBSET (1..(m + 1)), t # {}
               PROVE  HasMax(t)
    BY <1>2
  <2>1. CASE m + 1 \in t
    BY <2>1
  <2>2. CASE m + 1 \notin t
    <3>1. t \in SUBSET (1..m)
      BY <2>2
    <3>2. QED
      BY <1>2, <3>1
  <2>3. QED
    BY <2>1, <2>2
<1> HIDE DEF S
<1>3. Nat \subseteq S
  BY <1>1, <1>2, SetInduction
<1>4. HasMax(s)
  BY <1>3 DEF S
<1>5. Max(s) \in s /\ \A y \in s : Max(s) >= y
  BY <1>4 DEF Max
<1>6. QED
  BY <1>5

\* What is left of a set of numbers without its greatest element.
LEMMA WithoutMax ==
    ASSUME NEW n \in Nat, NEW s \in SUBSET (1..n), s # {}
    PROVE  /\ Max(s) \in 1..n
           /\ s \ {Max(s)} \in SUBSET (1..n)
           /\ n \in s => Max(s) = n /\ s \ {Max(s)} \in SUBSET (1..(n - 1))
           /\ n \notin s => n # 0 /\ s \in SUBSET (1..(n - 1))
<1>1. Max(s) \in s /\ \A y \in s : y <= Max(s)
  BY MaxOfSet
<1>2. Max(s) \in 1..n /\ s \ {Max(s)} \in SUBSET (1..n)
  BY <1>1
<1>3. ASSUME n \in s PROVE Max(s) = n /\ s \ {Max(s)} \in SUBSET (1..(n - 1))
  <2>1. Max(s) = n
    BY <1>1, <1>2, <1>3
  <2>2. ASSUME NEW x \in s \ {n} PROVE x \in 1..(n - 1)
    <3>1. x \in 1..n /\ x # n
      OBVIOUS
    <3>2. QED
      BY <3>1
  <2>3. QED
    BY <2>1, <2>2
<1>4. ASSUME n \notin s PROVE n # 0 /\ s \in SUBSET (1..(n - 1))
  <2>1. ASSUME NEW x \in s PROVE x \in 1..(n - 1)
    <3>1. x \in 1..n /\ x # n
      BY <1>4
    <3>2. QED
      BY <3>1
  <2>2. n # 0
    BY <1>2
  <2>3. QED
    BY <2>1, <2>2
<1>5. QED
  BY <1>2, <1>3, <1>4

\* The fold over every subset of the positions, the greatest position last.
IsFold(f, b, F, n) ==
    /\ f[{}] = b
    /\ \A s \in SUBSET (1..n) : s # {} => f[s] = F[Max(s)][f[s \ {Max(s)}]]

LEMMA FoldExists ==
    ASSUME NEW N \in Nat, NEW U, NEW b \in U, NEW F \in [1..N -> [U -> U]]
    PROVE  \E f \in [SUBSET (1..N) -> U] : IsFold(f, b, F, N)
<1> DEFINE P(n) == \E f \in [SUBSET (1..n) -> U] : IsFold(f, b, F, n)
           S == {n \in Nat : n <= N => P(n)}
<1>1. P(0)
  <2> DEFINE f == [s \in SUBSET (1..0) |-> b]
  <2>1. \A s \in SUBSET (1..0) : s = {}
    OBVIOUS
  <2>2. f \in [SUBSET (1..0) -> U] /\ IsFold(f, b, F, 0)
    BY <2>1 DEF IsFold
  <2>3. QED
    BY <2>2
<1>2. ASSUME NEW n \in Nat, n + 1 <= N, P(n)
      PROVE  P(n + 1)
  <2>1. PICK f \in [SUBSET (1..n) -> U] : IsFold(f, b, F, n)
    BY <1>2
  <2>2. n + 1 \in 1..N /\ F[n + 1] \in [U -> U]
    BY <1>2
  <2> DEFINE g == [s \in SUBSET (1..(n + 1)) |->
                      IF n + 1 \in s THEN F[n + 1][f[s \ {n + 1}]] ELSE f[s]]
  <2>3. ASSUME NEW s \in SUBSET (1..(n + 1))
        PROVE  /\ n + 1 \in s => s \ {n + 1} \in SUBSET (1..n)
               /\ n + 1 \notin s => s \in SUBSET (1..n)
    <3>1. ASSUME NEW x \in s, x # n + 1 PROVE x \in 1..n
      <4>1. x \in 1..(n + 1)
        OBVIOUS
      <4>2. QED
        BY <3>1, <4>1
    <3>2. QED
      BY <3>1
  <2>4. g \in [SUBSET (1..(n + 1)) -> U]
    BY <2>2, <2>3
  <2>5. g[{}] = b
    BY <2>1 DEF IsFold
  <2>6. ASSUME NEW s \in SUBSET (1..(n + 1)), s # {}
        PROVE  g[s] = F[Max(s)][g[s \ {Max(s)}]]
    <3>1. CASE n + 1 \in s
      <4>1. Max(s) = n + 1
        BY <2>6, <3>1, WithoutMax
      <4>2. s \ {n + 1} \in SUBSET (1..(n + 1)) /\ n + 1 \notin s \ {n + 1}
        OBVIOUS
      <4>3. g[s \ {n + 1}] = f[s \ {n + 1}]
        BY <4>2
      <4>4. QED
        BY <3>1, <4>1, <4>3
    <3>2. CASE n + 1 \notin s
      <4>1. s \in SUBSET (1..n)
        BY <2>3, <3>2
      <4>2. f[s] = F[Max(s)][f[s \ {Max(s)}]]
        BY <2>1, <2>6, <4>1 DEF IsFold
      <4>3. s \ {Max(s)} \in SUBSET (1..(n + 1)) /\ n + 1 \notin s \ {Max(s)}
        BY <3>2
      <4>4. g[s] = f[s] /\ g[s \ {Max(s)}] = f[s \ {Max(s)}]
        BY <3>2, <4>3
      <4>5. QED
        BY <4>2, <4>4
    <3>3. QED
      BY <3>1, <3>2
  <2> HIDE DEF g
  <2>7. IsFold(g, b, F, n + 1)
    BY <2>5, <2>6 DEF IsFold
  <2>8. QED
    BY <2>4, <2>7
<1> HIDE DEF P
<1>3. 0 \in S /\ \A n \in Nat : n \in S => n + 1 \in S
  BY <1>1, <1>2
<1>4. Nat \subseteq S
  BY <1>3, SetInduction
<1>5. P(N)
  BY <1>4
<1>6. QED
  BY <1>5 DEF P

\* A fold is determined by its first value and its steps.
LEMMA FoldUnique ==
    ASSUME NEW N \in Nat, NEW f, NEW g, f[{}] = g[{}],
           \A s \in SUBSET (1..N) :
              s # {} /\ f[s \ {Max(s)}] = g[s \ {Max(s)}] => f[s] = g[s]
    PROVE  f[1..N] = g[1..N]
<1> DEFINE P(n) == \A s \in SUBSET (1..n) : f[s] = g[s]
           S == {n \in Nat : n <= N => P(n)}
<1>1. P(0)
  <2>1. \A s \in SUBSET (1..0) : s = {}
    OBVIOUS
  <2>2. QED
    BY <2>1
<1>2. ASSUME NEW n \in Nat, n + 1 <= N, P(n)
      PROVE  P(n + 1)
  <2> SUFFICES ASSUME NEW s \in SUBSET (1..(n + 1)), s # {}
               PROVE  f[s] = g[s]
    OBVIOUS
  <2>1. s \in SUBSET (1..N)
    BY <1>2
  <2>2. \A t \in SUBSET (1..n) : f[t] = g[t]
    BY <1>2
  <2>3. /\ n + 1 \in s => s \ {Max(s)} \in SUBSET (1..((n + 1) - 1))
        /\ n + 1 \notin s => s \in SUBSET (1..((n + 1) - 1))
    <3>1. n + 1 \in Nat
      OBVIOUS
    <3>2. QED
      BY <3>1, WithoutMax
  <2>4. (n + 1) - 1 = n
    OBVIOUS
  <2>5. QED
    BY <2>1, <2>2, <2>3, <2>4
<1> HIDE DEF P
<1>3. 0 \in S /\ \A n \in Nat : n \in S => n + 1 \in S
  BY <1>1, <1>2
<1>4. Nat \subseteq S
  BY <1>3, SetInduction
<1>5. P(N)
  BY <1>4
<1>6. QED
  BY <1>5 DEF P

\* A fold over a prefix, one step at a time.
LEMMA FoldPrefix ==
    ASSUME NEW N \in Nat, NEW f, NEW b, NEW F, IsFold(f, b, F, N), NEW n \in 1..N
    PROVE  f[1..n] = F[n][f[1..(n - 1)]]
<1>1. 1..n \in SUBSET (1..N) /\ 1..n # {} /\ n \in Nat /\ n \in 1..n
  OBVIOUS
<1>2. Max(1..n) = n
  BY <1>1, WithoutMax
<1>3. (1..n) \ {n} = 1..(n - 1)
  OBVIOUS
<1>4. f[1..n] = F[Max(1..n)][f[(1..n) \ {Max(1..n)}]]
  BY <1>1 DEF IsFold
<1>5. QED
  BY <1>2, <1>3, <1>4

-----------------------------------------------------------------------------
(* Folds, step by step                                                       *)

\* Induction up to a bound.
LEMMA BoundedInduction ==
    ASSUME NEW N \in Nat, NEW P, 0 \in P, \A n \in 1..N : n - 1 \in P => n \in P
    PROVE  \A n \in 0..N : n \in P
<1> DEFINE S == {n \in Nat : n <= N => n \in P}
<1>1. 0 \in S
  OBVIOUS
<1>2. ASSUME NEW n \in Nat, n \in S PROVE n + 1 \in S
  <2> SUFFICES ASSUME n + 1 <= N PROVE n + 1 \in P
    OBVIOUS
  <2>1. n + 1 \in 1..N /\ (n + 1) - 1 = n /\ n \in P
    BY <1>2
  <2>2. QED
    BY <2>1
<1> HIDE DEF S
<1>3. Nat \subseteq S
  BY <1>1, <1>2, SetInduction
<1>4. QED
  BY <1>3 DEF S

\* h[n] is what the first n of the functions F make of b.
Steps(h, b, F, N) ==
    /\ h[0] = b
    /\ \A n \in 1..N : h[n] = F[n][h[n - 1]]

\* The function that FoldLeft chooses, restricted to the prefixes, goes step
\* by step through a set U that the steps do not leave.
FoldsIn(h, b, F, N, U) ==
    /\ h[{}] = b
    /\ \A s \in SUBSET (1..N) :
          s # {} /\ h[s \ {Max(s)}] \in U => h[s] = F[Max(s)][h[s \ {Max(s)}]]

LEMMA FoldSteps ==
    ASSUME NEW N \in Nat, NEW U, NEW b \in U, NEW F \in [1..N -> [U -> U]],
           NEW h, FoldsIn(h, b, F, N, U)
    PROVE  \E g \in [0..N -> U] : Steps(g, b, F, N) /\ g[N] = h[1..N]
<1> DEFINE g == [n \in 0..N |-> h[1..n]]
           P == {n \in 0..N : g[n] \in U}
<1>1. ASSUME NEW n \in 1..N, g[n - 1] \in U
      PROVE  g[n] = F[n][g[n - 1]]
  <2>1. 1..n \in SUBSET (1..N) /\ 1..n # {} /\ n \in Nat /\ n \in 1..n
    <3>1. n \in Nat /\ n \in 1..n
      OBVIOUS
    <3>2. \A i \in 1..n : i \in 1..N
      OBVIOUS
    <3>3. QED
      BY <3>1, <3>2
  <2>2. Max(1..n) = n
    BY <2>1, WithoutMax
  <2>3. (1..n) \ {n} = 1..(n - 1)
    OBVIOUS
  <2>4. g[n - 1] = h[1..(n - 1)] /\ g[n] = h[1..n]
    <3>1. n \in 0..N /\ n - 1 \in 0..N
      OBVIOUS
    <3>2. QED
      BY <3>1
  <2>5. h[(1..n) \ {Max(1..n)}] \in U
    BY <1>1, <2>2, <2>3, <2>4
  <2>6. h[1..n] = F[Max(1..n)][h[(1..n) \ {Max(1..n)}]]
    BY <2>1, <2>5 DEF FoldsIn
  <2>7. QED
    BY <2>2, <2>3, <2>4, <2>6
<1>2. g[0] = b
  <2>1. 1..0 = {} /\ 0 \in 0..N
    OBVIOUS
  <2>2. h[{}] = b
    BY DEF FoldsIn
  <2>3. QED
    BY <2>1, <2>2
<1> HIDE DEF g
<1>3. 0 \in P
  BY <1>2
<1>4. ASSUME NEW n \in 1..N, n - 1 \in P PROVE n \in P
  BY <1>1, <1>4
<1> HIDE DEF P
<1>5. \A n \in 0..N : n \in P
  BY <1>3, <1>4, BoundedInduction
<1>6. \A n \in 0..N : g[n] \in U
  BY <1>5 DEF P
<1>7. g \in [0..N -> U]
  BY <1>6 DEF g
<1>8. \A n \in 1..N : n - 1 \in 0..N
  OBVIOUS
<1>9. Steps(g, b, F, N)
  BY <1>1, <1>2, <1>6, <1>8 DEF Steps
<1>10. g[N] = h[1..N]
  BY DEF g
<1>11. QED
  BY <1>7, <1>9, <1>10

-----------------------------------------------------------------------------
(* Stores over a finite set Q of quads                                       *)

Store(Q) == [quads : SUBSET Q, generation : Nat]

\* The stores that a writer may leave behind one at generation g.
From(Q, g) == {st \in Store(Q) : g <= st.generation}

LEMMA SubsetFinite ==
    ASSUME NEW Q, IsFiniteSet(Q), NEW R, R \subseteq Q
    PROVE  IsFiniteSet(R) /\ Cardinality(R) \in Nat
<1>1. IsFiniteSet(R)
  BY FS_Subset
<1>2. QED
  BY <1>1, FS_CardinalityType

LEMMA AddStore ==
    ASSUME NEW Q, IsFiniteSet(Q), NEW g \in Nat, NEW st \in From(Q, g), NEW R, R \subseteq Q
    PROVE  AddQuads(st, R) \in From(Q, g) /\ RemoveQuads(st, R) \in From(Q, g)
<1>1. Cardinality(R) \in Nat
  BY SubsetFinite
<1>2. st.quads \subseteq Q /\ st.generation \in Nat /\ g <= st.generation
  BY DEF From, Store
<1>3. st.generation + Cardinality(R) \in Nat /\ g <= st.generation + Cardinality(R)
  BY <1>1, <1>2
<1>4. AddQuads(st, R) \in From(Q, g)
  BY <1>2, <1>3 DEF AddQuads, From, Store
<1>5. RemoveQuads(st, R) \in From(Q, g)
  BY <1>2, <1>3 DEF RemoveQuads, From, Store
<1>6. QED
  BY <1>4, <1>5

LEMMA GraphsFinite ==
    ASSUME NEW st, IsFiniteSet(st.quads)
    PROVE  IsFiniteSet(GraphsOf(st)) /\ IsFiniteSet(NamedGraphs(st))
<1> DEFINE f == [q \in st.quads |-> q.graph]
<1>1. f \in Surjection(st.quads, GraphsOf(st))
  BY DEF Surjection, GraphsOf
<1>2. IsFiniteSet(GraphsOf(st))
  BY <1>1, FS_Surjection
<1>3. NamedGraphs(st) \in SUBSET GraphsOf(st)
  BY DEF NamedGraphs
<1>4. QED
  BY <1>2, <1>3, FS_Subset

LEMMA RemoveStore ==
    ASSUME NEW Q, NEW g \in Nat, NEW st \in From(Q, g), NEW G, IsFiniteSet(G)
    PROVE  RemoveGraphs(st, G) \in From(Q, g)
<1>1. Cardinality(G) \in Nat
  BY FS_CardinalityType
<1>2. st.quads \subseteq Q /\ st.generation \in Nat /\ g <= st.generation
  BY DEF From, Store
<1>3. st.generation + Cardinality(G) \in Nat /\ g <= st.generation + Cardinality(G)
  BY <1>1, <1>2
<1>4. QED
  BY <1>2, <1>3 DEF RemoveGraphs, From, Store

\* CLEAR and DROP name finitely many graphs.
LEMMA ClearFinite ==
    ASSUME NEW st, IsFiniteSet(st.quads), NEW op
    PROVE  IsFiniteSet(ClearTargets(op, st))
<1>1. IsFiniteSet(GraphsOf(st)) /\ IsFiniteSet(NamedGraphs(st)) /\ IsFiniteSet({Default})
  BY GraphsFinite, FS_Singleton
<1>2. IsFiniteSet({op.target} \cap GraphsOf(st))
  <2>1. {op.target} \cap GraphsOf(st) \in SUBSET GraphsOf(st)
    OBVIOUS
  <2>2. QED
    BY <1>1, <2>1, FS_Subset
<1>3. ClearTargets(op, st) \in
          {{Default}, NamedGraphs(st), GraphsOf(st), {op.target} \cap GraphsOf(st)}
  BY DEF ClearTargets
<1>4. QED
  BY <1>1, <1>2, <1>3

-----------------------------------------------------------------------------
(* A SPARQL Update request                                                   *)

\* A request in progress that began at generation g.
Progressing(Q, g) ==
    [store : From(Q, g), pending_inserts : SUBSET Q, pending_deletes : SUBSET Q,
     failed : BOOLEAN]

LEMMA ApplyOpType ==
    ASSUME NEW Q, IsFiniteSet(Q), NEW g \in Nat, NEW u \in Progressing(Q, g), NEW op,
           WellFormed(op, Q)
    PROVE  ApplyOp(u, op) \in Progressing(Q, g)
<1>1. /\ u.store \in From(Q, g) /\ u.store \in Store(Q)
      /\ u.pending_inserts \subseteq Q /\ u.pending_deletes \subseteq Q
      /\ u.store.quads \subseteq Q
  BY DEF Progressing, From, Store
<1>2. \/ ApplyOp(u, op) = u
      \/ op.kind = "InsertData" /\ ApplyOp(u, op) = ApplyInsertData(u, op)
      \/ op.kind = "DeleteData" /\ ApplyOp(u, op) = ApplyDeleteData(u, op)
      \/ op.kind = "Clear" /\ ApplyOp(u, op) = ApplyClear(u, op)
      \/ op.kind = "PatternUpdate" /\ ApplyOp(u, op) = ApplyPatternUpdate(u, op)
      \/ op.kind = "LoadGraph" /\ ApplyOp(u, op) = ApplyLoad(u, op)
  BY DEF ApplyOp
<1>3. ASSUME op.kind = "InsertData" PROVE ApplyInsertData(u, op) \in Progressing(Q, g)
  <2>1. op.quads \subseteq Q
    BY <1>3 DEF WellFormed
  <2>2. QED
    BY <1>1, <2>1 DEF ApplyInsertData, Progressing
<1>4. ASSUME op.kind = "DeleteData" PROVE ApplyDeleteData(u, op) \in Progressing(Q, g)
  BY <1>1 DEF ApplyDeleteData, Progressing
<1>5. ASSUME op.kind = "Clear" PROVE ApplyClear(u, op) \in Progressing(Q, g)
  <2>1. RemoveGraphs(u.store, ClearTargets(op, u.store)) \in From(Q, g)
    BY <1>1, SubsetFinite, ClearFinite, RemoveStore
  <2>2. QED
    BY <2>1 DEF ApplyClear, Progressing
<1>6. ASSUME op.kind = "PatternUpdate" PROVE ApplyPatternUpdate(u, op) \in Progressing(Q, g)
  <2> DEFINE rows == op.where \cap View(u)
  <2>1. \A r \in rows : op.delete[r] \subseteq Q /\ op.insert[r] \subseteq Q
    BY <1>6 DEF WellFormed
  <2>2. Instances(op.delete, rows) \subseteq Q /\ Instances(op.insert, rows) \subseteq Q
    BY <2>1 DEF Instances
  <2>3. QED
    BY <1>1, <2>2 DEF ApplyPatternUpdate, Progressing
<1>7. ASSUME op.kind = "LoadGraph" PROVE ApplyLoad(u, op) \in Progressing(Q, g)
  <2>1. op.quads \subseteq Q
    BY <1>7 DEF WellFormed
  <2>2. AddQuads(u.store, op.quads) \in From(Q, g)
    BY <1>1, <2>1, AddStore
  <2>3. [u EXCEPT !.store = AddQuads(@, op.quads)] \in Progressing(Q, g)
    BY <2>2 DEF Progressing
  <2>4. [u EXCEPT !.failed = ~op.silent] \in Progressing(Q, g)
    BY DEF Progressing
  <2>5. QED
    BY <2>3, <2>4 DEF ApplyLoad
<1>8. QED
  BY <1>2, <1>3, <1>4, <1>5, <1>6, <1>7

\* The operations of a request go one after the other: u[n] is the request after its first n operations.
CollectStep(u, st, ops) ==
    /\ u[0] = Start(st)
    /\ \A n \in 1..Len(ops) : u[n] = ApplyOp(u[n - 1], ops[n])

LEMMA CollectSteps ==
    ASSUME NEW Q, IsFiniteSet(Q), NEW g \in Nat, NEW st \in From(Q, g), NEW ops,
           Len(ops) \in Nat, DOMAIN ops = 1..Len(ops),
           \A i \in DOMAIN ops : WellFormed(ops[i], Q)
    PROVE  \E u \in [0..Len(ops) -> Progressing(Q, g)] :
               CollectStep(u, st, ops) /\ Collect(st, ops) = u[Len(ops)]
<1> DEFINE N == Len(ops)
           U == Progressing(Q, g)
           b == Start(st)
           F == [i \in 1..N |-> [u \in U |-> ApplyOp(u, ops[i])]]
           Eq(f) == f = [s \in SUBSET (1..N) |->
                            IF s = {} THEN b ELSE ApplyOp(f[s \ {Max(s)}], ops[Max(s)])]
<1>1. N \in Nat /\ DOMAIN ops = 1..N /\ \A i \in 1..N : WellFormed(ops[i], Q)
  OBVIOUS
<1>2. b \in U
  BY DEF Start, Progressing
<1>3. \A i \in 1..N, u \in U : ApplyOp(u, ops[i]) \in U
  BY <1>1, ApplyOpType
<1>4. F \in [1..N -> [U -> U]]
  BY <1>3
<1>5. Collect(st, ops) = (CHOOSE f : Eq(f))[1..N]
  BY <1>1 DEF Collect, FoldLeft, MapThenFoldSet
<1> HIDE DEF N, U, b
<1>6. PICK f \in [SUBSET (1..N) -> U] : IsFold(f, b, F, N)
  BY <1>1, <1>2, <1>4, FoldExists
<1>7. \A s \in SUBSET (1..N) : s # {} =>
          Max(s) \in 1..N /\ s \ {Max(s)} \in SUBSET (1..N)
  BY <1>1, WithoutMax
<1>8. \A n \in 1..N, u \in U : F[n][u] = ApplyOp(u, ops[n])
  OBVIOUS
<1> HIDE DEF F
<1>9. Eq(f)
  <2>1. ASSUME NEW s \in SUBSET (1..N), s # {}
        PROVE  f[s] = ApplyOp(f[s \ {Max(s)}], ops[Max(s)])
    BY <1>6, <1>7, <1>8, <2>1 DEF IsFold
  <2>2. f[{}] = b
    BY <1>6 DEF IsFold
  <2>3. QED
    BY <1>6, <2>1, <2>2
<1> DEFINE h == CHOOSE k : Eq(k)
<1>10. Eq(h)
  BY <1>9
<1>11. FoldsIn(h, b, F, N, U)
  <2>1. h[{}] = b
    BY <1>10
  <2>2. ASSUME NEW s \in SUBSET (1..N), s # {}, h[s \ {Max(s)}] \in U
        PROVE  h[s] = F[Max(s)][h[s \ {Max(s)}]]
    <3>1. h[s] = ApplyOp(h[s \ {Max(s)}], ops[Max(s)])
      BY <1>10, <2>2
    <3> HIDE DEF h
    <3>2. QED
      BY <1>7, <1>8, <2>2, <3>1
  <2>3. QED
    BY <2>1, <2>2 DEF FoldsIn
<1> HIDE DEF h, Eq
<1>12. PICK u \in [0..N -> U] : Steps(u, b, F, N) /\ u[N] = h[1..N]
  <2>1. N \in Nat
    BY <1>1
  <2>2. QED
    BY <1>2, <1>4, <1>11, <2>1, FoldSteps
<1>13. CollectStep(u, st, ops)
  <2>1. \A n \in 1..N : u[n - 1] \in U /\ u[n] = F[n][u[n - 1]]
    BY <1>1, <1>12 DEF Steps
  <2>2. \A n \in 1..N : u[n] = ApplyOp(u[n - 1], ops[n])
    BY <1>8, <2>1
  <2>3. QED
    BY <1>12, <2>2 DEF CollectStep, Steps, N, b
<1>14. Collect(st, ops) = u[N]
  BY <1>5, <1>12 DEF h
<1>15. u \in [0..N -> Progressing(Q, g)]
  BY <1>12 DEF U
<1>16. QED
  BY <1>13, <1>14, <1>15 DEF N

LEMMA CollectType ==
    ASSUME NEW Q, IsFiniteSet(Q), NEW g \in Nat, NEW st \in From(Q, g), NEW ops,
           Len(ops) \in Nat, DOMAIN ops = 1..Len(ops),
           \A i \in DOMAIN ops : WellFormed(ops[i], Q)
    PROVE  Collect(st, ops) \in Progressing(Q, g)
<1>1. PICK u \in [0..Len(ops) -> Progressing(Q, g)] :
          CollectStep(u, st, ops) /\ Collect(st, ops) = u[Len(ops)]
  BY CollectSteps
<1>2. Len(ops) \in 0..Len(ops)
  OBVIOUS
<1>3. QED
  BY <1>1, <1>2

-----------------------------------------------------------------------------
(* Replay                                                                    *)

Replay(S, log) == FoldLeft(apply_entry, S, log)

\* f[n] is what the first n entries make of S.
Replays(f, S, log) ==
    /\ f[0] = S
    /\ \A n \in 1..Len(log) : f[n] = apply_entry(f[n - 1], log[n])

LEMMA ReplaySteps ==
    ASSUME NEW S, NEW X, NEW log \in Seq(X)
    PROVE  \E f : Replays(f, S, log) /\ Replay(S, log) = f[Len(log)]
<1> DEFINE N == Len(log)
           U == SUBSET (S \cup {log[i].quad : i \in 1..N})
           F == [i \in 1..N |-> [T \in U |-> apply_entry(T, log[i])]]
           Eq(f) == f = [s \in SUBSET (1..N) |->
                            IF s = {} THEN S ELSE apply_entry(f[s \ {Max(s)}], log[Max(s)])]
<1>1. N \in Nat /\ DOMAIN log = 1..N
  OBVIOUS
<1>2. S \in U
  OBVIOUS
<1>3. \A i \in 1..N, T \in U : apply_entry(T, log[i]) \in U
  BY DEF apply_entry
<1>4. F \in [1..N -> [U -> U]]
  BY <1>3
<1>5. Replay(S, log) = (CHOOSE f : Eq(f))[1..N]
  BY <1>1 DEF Replay, FoldLeft, MapThenFoldSet
<1> HIDE DEF N, U
<1>6. PICK f \in [SUBSET (1..N) -> U] : IsFold(f, S, F, N)
  BY <1>1, <1>2, <1>4, FoldExists
<1>7. ASSUME NEW s \in SUBSET (1..N), s # {}
      PROVE  /\ Max(s) \in 1..N /\ s \ {Max(s)} \in SUBSET (1..N)
             /\ f[s] = apply_entry(f[s \ {Max(s)}], log[Max(s)])
  <2>1. Max(s) \in 1..N /\ s \ {Max(s)} \in SUBSET (1..N)
    BY <1>1, <1>7, WithoutMax
  <2>2. f[s] = F[Max(s)][f[s \ {Max(s)}]] /\ f[s \ {Max(s)}] \in U
    BY <1>6, <1>7, <2>1 DEF IsFold
  <2>3. QED
    BY <2>1, <2>2
<1>8. f[{}] = S
  BY <1>6 DEF IsFold
<1>9. Eq(f)
  BY <1>6, <1>7, <1>8
<1> DEFINE h == CHOOSE k : Eq(k)
<1>10. Eq(h)
  BY <1>9
<1>11. h[{}] = S /\ \A s \in SUBSET (1..N) : s # {} =>
           h[s] = apply_entry(h[s \ {Max(s)}], log[Max(s)])
  BY <1>10
<1> DEFINE g == [n \in 0..N |-> h[1..n]]
<1>12. g[0] = S
  <2>1. 1..0 = {}
    OBVIOUS
  <2>2. QED
    BY <1>1, <1>11, <2>1
<1> HIDE DEF h, F
<1>13. ASSUME NEW n \in 1..N PROVE g[n] = apply_entry(g[n - 1], log[n])
  <2>1. 1..n \in SUBSET (1..N) /\ n \in 1..n /\ n \in Nat /\ n - 1 \in 0..N /\ n \in 0..N
    BY <1>1
  <2>2. Max(1..n) = n
    BY <2>1, WithoutMax
  <2>3. (1..n) \ {n} = 1..(n - 1)
    BY <1>1
  <2>4. h[1..n] = apply_entry(h[(1..n) \ {Max(1..n)}], log[Max(1..n)])
    BY <1>11, <2>1
  <2>5. g[n] = h[1..n] /\ g[n - 1] = h[1..(n - 1)]
    BY <2>1
  <2>6. QED
    BY <2>2, <2>3, <2>4, <2>5
<1>14. g[N] = h[1..N]
  BY <1>1
<1> HIDE DEF g
<1>15. Replays(g, S, log)
  BY <1>12, <1>13 DEF Replays, N
<1>16. Replay(S, log) = g[Len(log)]
  BY <1>5, <1>14 DEF h, N
<1>17. QED
  BY <1>15, <1>16

\* What the entries make of a store is determined entry by entry.
LEMMA ReplayUnique ==
    ASSUME NEW S, NEW X, NEW log \in Seq(X), NEW f, Replays(f, S, log)
    PROVE  Replay(S, log) = f[Len(log)]
<1>1. PICK g : Replays(g, S, log) /\ Replay(S, log) = g[Len(log)]
  BY ReplaySteps
<1> DEFINE N == Len(log)
           T == {n \in Nat : n <= N => f[n] = g[n]}
<1>2. 0 \in T
  BY <1>1 DEF Replays
<1>3. ASSUME NEW n \in Nat, n \in T PROVE n + 1 \in T
  <2> SUFFICES ASSUME n + 1 <= N PROVE f[n + 1] = g[n + 1]
    OBVIOUS
  <2>1. N \in Nat /\ n + 1 \in 1..N /\ (n + 1) - 1 = n /\ f[n] = g[n]
    BY <1>3
  <2>2. /\ f[n + 1] = apply_entry(f[(n + 1) - 1], log[n + 1])
        /\ g[n + 1] = apply_entry(g[(n + 1) - 1], log[n + 1])
    BY <1>1, <2>1 DEF Replays
  <2>3. QED
    BY <2>1, <2>2
<1> HIDE DEF T
<1>4. Nat \subseteq T
  BY <1>2, <1>3, SetInduction
<1>5. N \in Nat
  OBVIOUS
<1>6. f[N] = g[N]
  BY <1>4, <1>5 DEF T
<1>7. QED
  BY <1>1, <1>6

\* Replaying more entries goes on from where the first ones led.
LEMMA ReplayConcat ==
    ASSUME NEW S, NEW X, NEW log \in Seq(X), NEW Y, NEW es \in Seq(Y)
    PROVE  Replay(S, log \o es) = Replay(Replay(S, log), es)
<1> DEFINE M == Len(log)
           N == Len(es)
           T == Replay(S, log)
<1>1. PICK f : Replays(f, S, log) /\ T = f[M]
  BY ReplaySteps
<1>2. PICK g : Replays(g, T, es) /\ Replay(T, es) = g[N]
  BY ReplaySteps
<1> DEFINE h == [n \in 0..(M + N) |-> IF n <= M THEN f[n] ELSE g[n - M]]
<1>3. M \in Nat /\ N \in Nat
  OBVIOUS
<1>4. /\ log \o es \in Seq(X \cup Y)
      /\ Len(log \o es) = M + N
      /\ \A n \in 1..(M + N) : (log \o es)[n] = IF n <= M THEN log[n] ELSE es[n - M]
  OBVIOUS
<1> HIDE DEF M, N, T
<1>5. h[0] = S
  BY <1>1, <1>3 DEF Replays
<1>6. ASSUME NEW n \in 1..(M + N)
      PROVE  h[n] = apply_entry(h[n - 1], (log \o es)[n])
  <2>1. n \in 0..(M + N) /\ n - 1 \in 0..(M + N)
    BY <1>3
  <2>2. CASE n <= M
    <3>1. n \in 1..M /\ n - 1 <= M
      BY <1>3, <2>2
    <3>2. f[n] = apply_entry(f[n - 1], log[n])
      BY <1>1, <3>1 DEF Replays, M
    <3>3. h[n] = f[n] /\ h[n - 1] = f[n - 1]
      BY <2>1, <2>2, <3>1
    <3>4. QED
      BY <1>4, <2>2, <3>2, <3>3
  <2>3. CASE ~(n <= M)
    <3>1. n - M \in 1..N /\ (n - M) - 1 = (n - 1) - M
      BY <1>3, <2>3
    <3>2. g[n - M] = apply_entry(g[(n - M) - 1], es[n - M])
      BY <1>2, <3>1 DEF Replays, N
    <3>3. h[n] = g[n - M]
      BY <2>1, <2>3
    <3>4. h[n - 1] = g[(n - M) - 1]
      <4>1. CASE n - 1 <= M
        <5>1. n - 1 = M /\ (n - M) - 1 = 0
          BY <1>3, <2>3, <4>1
        <5>2. QED
          BY <1>1, <1>2, <2>1, <5>1 DEF Replays
      <4>2. CASE ~(n - 1 <= M)
        BY <2>1, <3>1, <4>2
      <4>3. QED
        BY <4>1, <4>2
    <3>5. QED
      BY <1>4, <2>3, <3>2, <3>3, <3>4
  <2>4. QED
    BY <2>2, <2>3
<1>7. h[M + N] = g[N]
  <2>1. M + N \in 0..(M + N) /\ (M + N) - M = N
    BY <1>3
  <2>2. CASE M + N <= M
    <3>1. N = 0 /\ M + N = M
      BY <1>3, <2>2
    <3>2. QED
      BY <1>1, <1>2, <2>1, <3>1 DEF Replays
  <2>3. CASE ~(M + N <= M)
    BY <2>1, <2>3
  <2>4. QED
    BY <2>2, <2>3
<1> HIDE DEF h
<1>8. Replays(h, S, log \o es)
  BY <1>4, <1>5, <1>6 DEF Replays
<1>9. Replay(S, log \o es) = h[M + N]
  BY <1>4, <1>8, ReplayUnique
<1>10. QED
  BY <1>2, <1>7, <1>9 DEF T

LEMMA ReplayNothing ==
    ASSUME NEW S
    PROVE  Replay(S, << >>) = S
<1> DEFINE f == [n \in {0} |-> S]
<1>1. << >> \in Seq({}) /\ Len(<< >>) = 0
  OBVIOUS
<1>2. Replays(f, S, << >>)
  BY <1>1 DEF Replays
<1>3. Replay(S, << >>) = f[0]
  BY <1>1, <1>2, ReplayUnique
<1>4. QED
  BY <1>3

LEMMA ReplayOne ==
    ASSUME NEW S, NEW X, NEW log \in Seq(X), NEW e
    PROVE  Replay(S, Append(log, e)) = apply_entry(Replay(S, log), e)
<1> DEFINE es == <<e>>
           T == Replay(S, log)
           f == [n \in {0, 1} |-> IF n = 0 THEN T ELSE apply_entry(T, e)]
<1>1. es \in Seq({e}) /\ Len(es) = 1 /\ es[1] = e /\ Append(log, e) = log \o es
  OBVIOUS
<1> HIDE DEF es, T
<1>2. Replays(f, T, es)
  <2>1. 1..1 = {1} /\ 1 - 1 = 0
    OBVIOUS
  <2>2. QED
    BY <1>1, <2>1 DEF Replays
<1>3. Replay(T, es) = f[1]
  BY <1>1, <1>2, ReplayUnique
<1>4. Replay(S, log \o es) = Replay(T, es)
  BY <1>1, ReplayConcat DEF T
<1>5. QED
  BY <1>1, <1>3, <1>4 DEF T

\* The entries of a finite set, each of them once in the sequence.
LEMMA Listed ==
    ASSUME NEW E, IsFiniteSet(E)
    PROVE  /\ SetToSeq(E) \in Seq(E)
           /\ E = {SetToSeq(E)[i] : i \in 1..Len(SetToSeq(E))}
           /\ \A i, j \in 1..Len(SetToSeq(E)) : SetToSeq(E)[i] = SetToSeq(E)[j] => i = j
<1> DEFINE n == Cardinality(E)
           f == SetToSeq(E)
<1>1. n \in Nat /\ ExistsBijection(1..n, E)
  BY FS_CardinalityType
<1>2. PICK g : g \in Bijection(1..n, E)
  BY <1>1 DEF ExistsBijection
<1>3. g \in [1..n -> E] /\ IsInjective(g)
  BY <1>2 DEF Bijection, Injection, IsInjective
<1>4. f \in [1..n -> E] /\ IsInjective(f)
  BY <1>3 DEF SetToSeq
<1> HIDE DEF f, n
<1>5. f \in Injection(1..n, E)
  BY <1>4 DEF Injection
<1>6. IsFiniteSet(1..n) /\ Cardinality(1..n) = n
  BY <1>1, FS_Interval
<1>7. f \in Surjection(1..n, E)
  BY <1>5, <1>6, FS_Injection DEF n
<1>8. f \in Seq(E) /\ Len(f) = n
  BY <1>1, <1>4
<1>9. E = {f[i] : i \in 1..n}
  BY <1>4, <1>7 DEF Surjection
<1>10. \A i, j \in 1..n : f[i] = f[j] => i = j
  BY <1>4 DEF IsInjective
<1>11. QED
  BY <1>8, <1>9, <1>10 DEF f

\* Entries that insert add their quads ...
LEMMA ReplayInserts ==
    ASSUME NEW S, NEW E, IsFiniteSet(E), \A e \in E : e.op = "InsertQuad"
    PROVE  Replay(S, SetToSeq(E)) = S \cup {e.quad : e \in E}
<1> DEFINE es == SetToSeq(E)
           N == Len(es)
           f == [n \in 0..N |-> S \cup {es[i].quad : i \in 1..n}]
<1>1. es \in Seq(E) /\ E = {es[i] : i \in 1..N} /\ N \in Nat
  BY Listed
<1> HIDE DEF es
<1>2. f[0] = S
  BY <1>1
<1>3. ASSUME NEW n \in 1..N PROVE f[n] = apply_entry(f[n - 1], es[n])
  <2>1. n \in 0..N /\ n - 1 \in 0..N /\ 1..n = (1..(n - 1)) \cup {n}
    BY <1>1
  <2>2. es[n].op = "InsertQuad"
    BY <1>1
  <2>3. apply_entry(f[n - 1], es[n]) = f[n - 1] \cup {es[n].quad}
    BY <2>2 DEF apply_entry
  <2>4. f[n - 1] = S \cup {es[i].quad : i \in 1..(n - 1)}
    BY <2>1
  <2>5. f[n] = S \cup {es[i].quad : i \in 1..n}
    BY <2>1
  <2>6. {es[i].quad : i \in 1..n} = {es[i].quad : i \in 1..(n - 1)} \cup {es[n].quad}
    BY <2>1
  <2>7. QED
    BY <2>3, <2>4, <2>5, <2>6
<1>4. f[N] = S \cup {e.quad : e \in E}
  BY <1>1
<1> HIDE DEF f
<1>5. Replays(f, S, es)
  BY <1>2, <1>3 DEF Replays
<1>6. Replay(S, es) = f[N]
  BY <1>1, <1>5, ReplayUnique
<1>7. QED
  BY <1>4, <1>6 DEF es

\* ... entries that delete take them away ...
LEMMA ReplayDeletes ==
    ASSUME NEW S, NEW E, IsFiniteSet(E), \A e \in E : e.op = "DeleteQuad"
    PROVE  Replay(S, SetToSeq(E)) = S \ {e.quad : e \in E}
<1> DEFINE es == SetToSeq(E)
           N == Len(es)
           f == [n \in 0..N |-> S \ {es[i].quad : i \in 1..n}]
<1>1. es \in Seq(E) /\ E = {es[i] : i \in 1..N} /\ N \in Nat
  BY Listed
<1> HIDE DEF es
<1>2. f[0] = S
  BY <1>1
<1>3. ASSUME NEW n \in 1..N PROVE f[n] = apply_entry(f[n - 1], es[n])
  <2>1. n \in 0..N /\ n - 1 \in 0..N /\ 1..n = (1..(n - 1)) \cup {n}
    BY <1>1
  <2>2. es[n].op = "DeleteQuad"
    BY <1>1
  <2>3. apply_entry(f[n - 1], es[n]) = f[n - 1] \ {es[n].quad}
    BY <2>2 DEF apply_entry
  <2>4. f[n - 1] = S \ {es[i].quad : i \in 1..(n - 1)}
    BY <2>1
  <2>5. f[n] = S \ {es[i].quad : i \in 1..n}
    BY <2>1
  <2>6. {es[i].quad : i \in 1..n} = {es[i].quad : i \in 1..(n - 1)} \cup {es[n].quad}
    BY <2>1
  <2>7. QED
    BY <2>3, <2>4, <2>5, <2>6
<1>4. f[N] = S \ {e.quad : e \in E}
  BY <1>1
<1> HIDE DEF f
<1>5. Replays(f, S, es)
  BY <1>2, <1>3 DEF Replays
<1>6. Replay(S, es) = f[N]
  BY <1>1, <1>5, ReplayUnique
<1>7. QED
  BY <1>4, <1>6 DEF es

\* ... and entries that clear take away what their graphs hold.
LEMMA ReplayClears ==
    ASSUME NEW S, NEW E, IsFiniteSet(E), \A e \in E : e.op = "ClearGraph"
    PROVE  Replay(S, SetToSeq(E)) = {q \in S : \A e \in E : q.graph # e.graph}
<1> DEFINE es == SetToSeq(E)
           N == Len(es)
           f == [n \in 0..N |-> {q \in S : \A i \in 1..n : q.graph # es[i].graph}]
<1>1. es \in Seq(E) /\ E = {es[i] : i \in 1..N} /\ N \in Nat
  BY Listed
<1> HIDE DEF es
<1>2. f[0] = S
  BY <1>1
<1>3. ASSUME NEW n \in 1..N PROVE f[n] = apply_entry(f[n - 1], es[n])
  <2>1. n \in 0..N /\ n - 1 \in 0..N /\ 1..n = (1..(n - 1)) \cup {n}
    BY <1>1
  <2>2. es[n].op = "ClearGraph"
    BY <1>1
  <2>3. apply_entry(f[n - 1], es[n]) = {q \in f[n - 1] : q.graph # es[n].graph}
    BY <2>2 DEF apply_entry
  <2>4. f[n - 1] = {q \in S : \A i \in 1..(n - 1) : q.graph # es[i].graph}
    BY <2>1
  <2>5. f[n] = {q \in S : \A i \in 1..n : q.graph # es[i].graph}
    BY <2>1
  <2>6. QED
    BY <2>1, <2>3, <2>4, <2>5
<1>4. f[N] = {q \in S : \A e \in E : q.graph # e.graph}
  BY <1>1
<1> HIDE DEF f
<1>5. Replays(f, S, es)
  BY <1>2, <1>3 DEF Replays
<1>6. Replay(S, es) = f[N]
  BY <1>1, <1>5, ReplayUnique
<1>7. QED
  BY <1>4, <1>6 DEF es

-----------------------------------------------------------------------------
(* The entries of an operation                                               *)

\* The quads that quads are read back as.
Reprs(Q) == {Repr[q] : q \in Q}

\* What the entries of a kind hold.
LEMMA EntryFields ==
    ASSUME NEW ds, NEW Q
    PROVE  /\ \A e \in InsertEntries(ds, Q) : e.op = "InsertQuad"
           /\ {e.quad : e \in InsertEntries(ds, Q)} = Reprs(Q)
           /\ \A e \in DeleteEntries(ds, Q) : e.op = "DeleteQuad"
           /\ {e.quad : e \in DeleteEntries(ds, Q)} = Reprs(Q)
           /\ \A e \in ClearEntries(ds, Q) : e.op = "ClearGraph"
           /\ {e.graph : e \in ClearEntries(ds, Q)} = Q
<1> DEFINE ins(q) == [op |-> "InsertQuad", dataset |-> ds, quad |-> Repr[q]]
           del(q) == [op |-> "DeleteQuad", dataset |-> ds, quad |-> Repr[q]]
           clear(g) == [op |-> "ClearGraph", dataset |-> ds, graph |-> g]
<1>1. /\ \A q : ins(q).op = "InsertQuad" /\ ins(q).quad = Repr[q]
      /\ \A q : del(q).op = "DeleteQuad" /\ del(q).quad = Repr[q]
      /\ \A g : clear(g).op = "ClearGraph" /\ clear(g).graph = g
  OBVIOUS
<1>2. /\ InsertEntries(ds, Q) = {ins(q) : q \in Q}
      /\ DeleteEntries(ds, Q) = {del(q) : q \in Q}
      /\ ClearEntries(ds, Q) = {clear(g) : g \in Q}
  BY DEF InsertEntries, DeleteEntries, ClearEntries
<1> HIDE DEF ins, del, clear
<1>3. /\ \A e \in InsertEntries(ds, Q) : e.op = "InsertQuad"
      /\ {e.quad : e \in InsertEntries(ds, Q)} = Reprs(Q)
  BY <1>1, <1>2 DEF Reprs
<1>4. /\ \A e \in DeleteEntries(ds, Q) : e.op = "DeleteQuad"
      /\ {e.quad : e \in DeleteEntries(ds, Q)} = Reprs(Q)
  BY <1>1, <1>2 DEF Reprs
<1>5. /\ \A e \in ClearEntries(ds, Q) : e.op = "ClearGraph"
      /\ {e.graph : e \in ClearEntries(ds, Q)} = Q
  BY <1>1, <1>2
<1>6. QED
  BY <1>3, <1>4, <1>5

LEMMA EntriesFinite ==
    ASSUME NEW ds, NEW Q, IsFiniteSet(Q)
    PROVE  /\ IsFiniteSet(InsertEntries(ds, Q))
           /\ IsFiniteSet(DeleteEntries(ds, Q))
           /\ IsFiniteSet(ClearEntries(ds, Q))
<1> DEFINE f == [q \in Q |-> [op |-> "InsertQuad", dataset |-> ds, quad |-> Repr[q]]]
           g == [q \in Q |-> [op |-> "DeleteQuad", dataset |-> ds, quad |-> Repr[q]]]
           h == [q \in Q |-> [op |-> "ClearGraph", dataset |-> ds, graph |-> q]]
<1>1. f \in Surjection(Q, InsertEntries(ds, Q))
  BY DEF Surjection, InsertEntries
<1>2. g \in Surjection(Q, DeleteEntries(ds, Q))
  BY DEF Surjection, DeleteEntries
<1>3. h \in Surjection(Q, ClearEntries(ds, Q))
  BY DEF Surjection, ClearEntries
<1>4. QED
  BY <1>1, <1>2, <1>3, FS_Surjection

\* The graphs that the log of a CLEAR or DROP names.
LoggedGraphs(op, st) ==
    CASE op.target = "default" -> {Default}
      [] op.target = "named"   -> NamedGraphs(st)
      [] op.target = "all"     -> {Default} \cup NamedGraphs(st)
      [] OTHER                 -> {op.target}

\* What replaying the entries of one operation does.
LEMMA PreparedEffect ==
    ASSUME NEW S, NEW ds, NEW op, NEW st, IsFiniteSet(st.quads),
           op.kind \in {"InsertData", "DeleteData"} => IsFiniteSet(op.quads)
    PROVE  /\ \E Y : prepare_op(ds, op, st) \in Seq(Y)
           /\ op.kind = "InsertData" =>
                 Replay(S, prepare_op(ds, op, st)) = S \cup Reprs(op.quads)
           /\ op.kind = "DeleteData" =>
                 Replay(S, prepare_op(ds, op, st)) = S \ Reprs(op.quads)
           /\ op.kind = "Clear" =>
                 Replay(S, prepare_op(ds, op, st)) =
                     {q \in S : q.graph \notin LoggedGraphs(op, st)}
           /\ op.kind \notin {"InsertData", "DeleteData", "Clear"} =>
                 Replay(S, prepare_op(ds, op, st)) = S
<1> DEFINE es == prepare_op(ds, op, st)
<1>1. ASSUME op.kind = "InsertData"
      PROVE  (\E Y : es \in Seq(Y)) /\ Replay(S, es) = S \cup Reprs(op.quads)
  <2> DEFINE E == InsertEntries(ds, op.quads)
  <2>1. IsFiniteSet(E)
    BY <1>1, EntriesFinite
  <2>2. /\ \A e \in E : e.op = "InsertQuad"
        /\ {e.quad : e \in E} = Reprs(op.quads)
    BY EntryFields
  <2>3. es = SetToSeq(E)
    BY <1>1 DEF prepare_op
  <2> HIDE DEF E, es
  <2>4. es \in Seq(E)
    BY <2>1, <2>3, Listed
  <2>5. Replay(S, SetToSeq(E)) = S \cup {e.quad : e \in E}
    BY <2>1, <2>2, ReplayInserts
  <2>6. QED
    BY <2>2, <2>3, <2>4, <2>5
<1>2. ASSUME op.kind = "DeleteData"
      PROVE  (\E Y : es \in Seq(Y)) /\ Replay(S, es) = S \ Reprs(op.quads)
  <2> DEFINE E == DeleteEntries(ds, op.quads)
  <2>1. IsFiniteSet(E)
    BY <1>2, EntriesFinite
  <2>2. /\ \A e \in E : e.op = "DeleteQuad"
        /\ {e.quad : e \in E} = Reprs(op.quads)
    BY EntryFields
  <2>3. es = SetToSeq(E)
    BY <1>2 DEF prepare_op
  <2> HIDE DEF E, es
  <2>4. es \in Seq(E)
    BY <2>1, <2>3, Listed
  <2>5. Replay(S, SetToSeq(E)) = S \ {e.quad : e \in E}
    BY <2>1, <2>2, ReplayDeletes
  <2>6. QED
    BY <2>2, <2>3, <2>4, <2>5
<1>3. ASSUME op.kind = "Clear"
      PROVE  /\ \E Y : es \in Seq(Y)
             /\ Replay(S, es) = {q \in S : q.graph \notin LoggedGraphs(op, st)}
  <2> DEFINE G == LoggedGraphs(op, st)
             E == ClearEntries(ds, G)
  <2>1. IsFiniteSet(E)
    <3>1. /\ IsFiniteSet(NamedGraphs(st)) /\ IsFiniteSet({Default}) /\ IsFiniteSet({op.target})
          /\ IsFiniteSet({Default} \cup NamedGraphs(st))
      <4>1. IsFiniteSet(NamedGraphs(st))
        BY GraphsFinite
      <4>2. {Default} \cup NamedGraphs(st) = NamedGraphs(st) \cup {Default}
        OBVIOUS
      <4>3. QED
        BY <4>1, <4>2, FS_Singleton, FS_AddElement
    <3>2. IsFiniteSet(G)
      BY <3>1 DEF LoggedGraphs
    <3>3. QED
      BY <3>2, EntriesFinite
  <2>2. /\ \A e \in E : e.op = "ClearGraph"
        /\ \A x : (\A e \in E : x # e.graph) <=> x \notin G
    <3>1. /\ \A e \in E : e.op = "ClearGraph"
          /\ {e.graph : e \in E} = G
      BY EntryFields
    <3> HIDE DEF E, G
    <3>2. QED
      BY <3>1
  <2>3. es = SetToSeq(E)
    BY <1>3 DEF prepare_op, ClearLog, LoggedGraphs
  <2> HIDE DEF E, es, G
  <2>4. es \in Seq(E)
    BY <2>1, <2>3, Listed
  <2>5. Replay(S, SetToSeq(E)) = {q \in S : \A e \in E : q.graph # e.graph}
    BY <2>1, <2>2, ReplayClears
  <2>6. {q \in S : \A e \in E : q.graph # e.graph} = {q \in S : q.graph \notin G}
    BY <2>2
  <2>7. QED
    BY <2>3, <2>4, <2>5, <2>6 DEF G
<1>4. ASSUME op.kind \notin {"InsertData", "DeleteData", "Clear"}
      PROVE  (\E Y : es \in Seq(Y)) /\ Replay(S, es) = S
  <2>1. es = << >>
    BY <1>4 DEF prepare_op
  <2>2. << >> \in Seq({})
    OBVIOUS
  <2>3. QED
    BY <2>1, <2>2, ReplayNothing
<1> HIDE DEF es
<1>5. QED
  BY <1>1, <1>2, <1>3, <1>4 DEF es
=============================================================================
