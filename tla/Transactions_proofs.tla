------------------------ MODULE Transactions_proofs ------------------------
(* Theorems about transactions, for any number of clients, transactions and  *)
(* quads and for requests of any length.  The generation counter carries the *)
(* argument: no writer moves it backwards, COMMIT always moves it, and while *)
(* it stands still only the writers that go behind it change the store.      *)
EXTENDS Transactions, SparqlUpdate_proofs

LEMMA QuadSets ==
    ASSUME NEW R, R \subseteq Quads
    PROVE  IsFiniteSet(R) /\ Cardinality(R) \in Nat /\ (Cardinality(R) = 0 <=> R = {})
<1>1. IsFiniteSet(Quads)
  BY QuadsAssumption
<1>2. QED
  BY <1>1, SubsetFinite, FS_EmptySet

-----------------------------------------------------------------------------
(* An update inside a transaction                                            *)

Delta == [ins : SUBSET Quads, del : SUBSET Quads]

\* The quads of the first n operations that are of a kind.
UpTo(ops, n, kind) == UNION {ops[i].quads : i \in {j \in 1..n : ops[j].kind = kind}}

LEMMA CollectOpStep ==
    ASSUME store.quads \subseteq Quads, NEW ops \in TxRequests, NEW i \in 1..Len(ops),
           NEW d \in Delta
    PROVE  /\ CollectOp(d, ops[i]) \in Delta
           /\ ops[i].kind = "InsertData" =>
                 /\ CollectOp(d, ops[i]).ins = d.ins \cup ops[i].quads
                 /\ CollectOp(d, ops[i]).del = d.del
           /\ ops[i].kind = "DeleteData" =>
                 /\ CollectOp(d, ops[i]).ins = d.ins
                 /\ CollectOp(d, ops[i]).del =
                        d.del \cup (ops[i].quads \cap (store.quads \cup d.ins))
<1>1. ops[i].kind \in {"InsertData", "DeleteData"} /\ ops[i].quads \subseteq Quads
  <2>1. WellFormed(ops[i], Quads) /\ ops[i].kind \in {"InsertData", "DeleteData"}
    BY RequestsAssumption
  <2>2. QED
    BY <2>1 DEF WellFormed
<1>2. QED
  BY <1>1 DEF CollectOp, Delta

LEMMA UpToStep ==
    ASSUME NEW ops, NEW n \in Nat, NEW kind
    PROVE  /\ UpTo(ops, 0, kind) = {}
           /\ ops[n + 1].kind = kind =>
                 UpTo(ops, n + 1, kind) = UpTo(ops, n, kind) \cup ops[n + 1].quads
           /\ ops[n + 1].kind # kind => UpTo(ops, n + 1, kind) = UpTo(ops, n, kind)
<1>1. 1..0 = {} /\ 1..(n + 1) = (1..n) \cup {n + 1}
  OBVIOUS
<1>2. UpTo(ops, 0, kind) = {}
  BY <1>1 DEF UpTo
<1>3. ASSUME ops[n + 1].kind = kind
      PROVE  UpTo(ops, n + 1, kind) = UpTo(ops, n, kind) \cup ops[n + 1].quads
  <2>1. {j \in 1..(n + 1) : ops[j].kind = kind} = {j \in 1..n : ops[j].kind = kind} \cup {n + 1}
    BY <1>1, <1>3
  <2>2. QED
    BY <2>1 DEF UpTo
<1>4. ASSUME ops[n + 1].kind # kind
      PROVE  UpTo(ops, n + 1, kind) = UpTo(ops, n, kind)
  <2>1. {j \in 1..(n + 1) : ops[j].kind = kind} = {j \in 1..n : ops[j].kind = kind}
    BY <1>1, <1>4
  <2>2. QED
    BY <2>1 DEF UpTo
<1>5. QED
  BY <1>2, <1>3, <1>4

\* What the first n operations collect: every insert, and of the deletes at
\* least those of stored quads.
CollectsUpTo(ops, n, d) ==
    /\ d.ins = UpTo(ops, n, "InsertData")
    /\ d.del \subseteq UpTo(ops, n, "DeleteData")
    /\ UpTo(ops, n, "DeleteData") \cap store.quads \subseteq d.del

LEMMA CollectsStep ==
    ASSUME store.quads \subseteq Quads, NEW ops \in TxRequests,
           NEW n \in Nat, n + 1 \in 1..Len(ops), NEW d \in Delta, CollectsUpTo(ops, n, d)
    PROVE  CollectsUpTo(ops, n + 1, CollectOp(d, ops[n + 1]))
<1> DEFINE m == n + 1
           e == CollectOp(d, ops[m])
           I == UpTo(ops, n, "InsertData")
           D == UpTo(ops, n, "DeleteData")
<1>1. ops[m].kind \in {"InsertData", "DeleteData"}
  BY RequestsAssumption
<1>2. d.ins = I /\ d.del \subseteq D /\ D \cap store.quads \subseteq d.del
  BY DEF CollectsUpTo
<1>3. /\ ops[m].kind = "InsertData" => e.ins = d.ins \cup ops[m].quads /\ e.del = d.del
      /\ ops[m].kind = "DeleteData" =>
            /\ e.ins = d.ins
            /\ e.del = d.del \cup (ops[m].quads \cap (store.quads \cup d.ins))
  BY CollectOpStep
<1>4. /\ ops[m].kind = "InsertData" => UpTo(ops, m, "InsertData") = I \cup ops[m].quads
      /\ ops[m].kind # "InsertData" => UpTo(ops, m, "InsertData") = I
  BY ZenonT(30), UpToStep
<1>5. /\ ops[m].kind = "DeleteData" => UpTo(ops, m, "DeleteData") = D \cup ops[m].quads
      /\ ops[m].kind # "DeleteData" => UpTo(ops, m, "DeleteData") = D
  BY ZenonT(30), UpToStep
<1> HIDE DEF m, e, I, D
<1>6. CollectsUpTo(ops, m, e)
  <2>1. CASE ops[m].kind = "InsertData"
    BY <1>2, <1>3, <1>4, <1>5, <2>1 DEF CollectsUpTo
  <2>2. CASE ops[m].kind = "DeleteData"
    BY <1>2, <1>3, <1>4, <1>5, <2>2 DEF CollectsUpTo
  <2>3. QED
    BY <1>1, <2>1, <2>2
<1>7. QED
  BY <1>6 DEF m, e

LEMMA NewDeltaExact ==
    ASSUME store.quads \subseteq Quads, NEW ops \in TxRequests
    PROVE  /\ NewDelta(ops) \in Delta
           /\ NewDelta(ops).ins = OfKind(ops, "InsertData")
           /\ NewDelta(ops).del \subseteq OfKind(ops, "DeleteData")
           /\ OfKind(ops, "DeleteData") \cap store.quads \subseteq NewDelta(ops).del
<1> DEFINE N == Len(ops)
           b == [ins |-> {}, del |-> {}]
           F == [i \in 1..N |-> [d \in Delta |-> CollectOp(d, ops[i])]]
           Eq(f) == f = [s \in SUBSET (1..N) |->
                            IF s = {} THEN b ELSE CollectOp(f[s \ {Max(s)}], ops[Max(s)])]
<1>1. N \in Nat /\ DOMAIN ops = 1..N
  BY RequestsAssumption
<1>2. b \in Delta /\ b.ins = {} /\ b.del = {}
  BY DEF Delta
<1>3. \A i \in 1..N, d \in Delta : CollectOp(d, ops[i]) \in Delta
  BY CollectOpStep
<1>4. F \in [1..N -> [Delta -> Delta]]
  BY <1>3
<1>5. NewDelta(ops) = (CHOOSE f : Eq(f))[1..N]
  BY <1>1 DEF NewDelta, FoldLeft, MapThenFoldSet
<1>6. /\ OfKind(ops, "InsertData") = UpTo(ops, N, "InsertData")
      /\ OfKind(ops, "DeleteData") = UpTo(ops, N, "DeleteData")
  BY <1>1 DEF OfKind, UpTo
<1> HIDE DEF b
<1>7. PICK f \in [SUBSET (1..N) -> Delta] : IsFold(f, b, F, N)
  BY <1>1, <1>2, <1>4, FoldExists
<1>8. ASSUME NEW s \in SUBSET (1..N), s # {}
      PROVE  f[s] = CollectOp(f[s \ {Max(s)}], ops[Max(s)])
  <2>1. Max(s) \in 1..N /\ s \ {Max(s)} \in SUBSET (1..N)
    BY <1>1, <1>8, WithoutMax
  <2>2. f[s] = F[Max(s)][f[s \ {Max(s)}]] /\ f[s \ {Max(s)}] \in Delta
    BY <1>7, <1>8, <2>1 DEF IsFold
  <2>3. QED
    BY <2>1, <2>2
<1>9. f[{}] = b
  BY <1>7 DEF IsFold
<1>10. Eq(f)
  BY <1>7, <1>8, <1>9
<1> DEFINE h == CHOOSE k : Eq(k)
<1>11. Eq(h)
  BY <1>10
<1>12. h[{}] = b /\ \A s \in SUBSET (1..N) : s # {} =>
           h[s] = CollectOp(h[s \ {Max(s)}], ops[Max(s)])
  BY <1>11
<1>13. ASSUME NEW n \in Nat, n + 1 \in 1..N
       PROVE  f[1..n] \in Delta /\ f[1..(n + 1)] = CollectOp(f[1..n], ops[n + 1])
  <2> DEFINE m == n + 1
  <2>1. 1..n \in SUBSET (1..N) /\ m - 1 = n /\ m \in 1..N
    BY <1>1, <1>13
  <2> HIDE DEF m, F
  <2>2. N \in Nat /\ IsFold(f, b, F, N)
    BY <1>1, <1>7
  <2>3. f[1..m] = F[m][f[1..(m - 1)]]
    BY <2>1, <2>2, FoldPrefix
  <2>4. f[1..n] \in Delta
    BY <1>7, <2>1
  <2>5. f[1..m] = CollectOp(f[1..n], ops[m])
    BY <2>1, <2>3, <2>4 DEF F
  <2>6. QED
    BY <2>4, <2>5 DEF m
<1> HIDE DEF h, F
<1>14. f[1..N] = h[1..N]
  <2>1. ASSUME NEW s \in SUBSET (1..N), s # {}, f[s \ {Max(s)}] = h[s \ {Max(s)}]
        PROVE  f[s] = h[s]
    <3>1. f[s] = CollectOp(f[s \ {Max(s)}], ops[Max(s)])
      BY <1>8, <2>1
    <3>2. h[s] = CollectOp(h[s \ {Max(s)}], ops[Max(s)])
      BY <1>12, <2>1
    <3>3. QED
      BY <2>1, <3>1, <3>2
  <2>2. f[{}] = h[{}]
    BY <1>9, <1>12
  <2>3. QED
    BY <1>1, <2>1, <2>2, FoldUnique
<1> DEFINE P(n) == CollectsUpTo(ops, n, f[1..n])
           S == {n \in Nat : n <= N => P(n)}
<1>15. P(0)
  <2>1. 1..0 = {}
    OBVIOUS
  <2>2. /\ UpTo(ops, 0, "InsertData") = {}
        /\ UpTo(ops, 0, "DeleteData") = {}
    BY UpToStep
  <2>3. CollectsUpTo(ops, 0, b)
    BY <1>2, <2>2 DEF CollectsUpTo
  <2>4. QED
    BY <1>9, <2>1, <2>3
<1>16. ASSUME NEW n \in Nat, n + 1 <= N, P(n)
       PROVE  P(n + 1)
  <2>1. n + 1 \in 1..N
    BY <1>1, <1>16
  <2>2. f[1..n] \in Delta /\ f[1..(n + 1)] = CollectOp(f[1..n], ops[n + 1])
    BY <1>13, <2>1
  <2>3. CollectsUpTo(ops, n + 1, CollectOp(f[1..n], ops[n + 1]))
    BY <1>16, <2>1, <2>2, CollectsStep
  <2>4. QED
    BY <2>2, <2>3
<1> HIDE DEF P
<1>17. 0 \in S /\ \A n \in Nat : n \in S => n + 1 \in S
  BY <1>1, <1>15, <1>16
<1>18. Nat \subseteq S
  BY <1>17, SetInduction
<1>19. P(N)
  BY <1>1, <1>18
<1>20. f[1..N] \in Delta
  BY <1>7
<1>21. NewDelta(ops) = f[1..N]
  BY <1>5, <1>14 DEF h
<1>22. QED
  BY <1>6, <1>19, <1>20, <1>21 DEF P, CollectsUpTo

-----------------------------------------------------------------------------
(* The inductive invariant                                                   *)

\* tx is the server's record of the open transaction t: it holds what t's
\* client was told, but for deletes of quads that were not stored, and as long
\* as nothing moved the generation since BEGIN these are still not stored or
\* were stored behind the counter.
Sits(t, tx) ==
    /\ t \in Tx
    /\ fate[t] = "open"
    /\ tx \in OpenTransaction
    /\ tx.snapshot_generation = began[t]
    /\ tx.pending_inserts = acked[t].ins
    /\ tx.pending_deletes \subseteq acked[t].del
    /\ store.generation = began[t] =>
          acked[t].del \cap store.quads \subseteq tx.pending_deletes \cup hidden

Registered == \A t \in DOMAIN registry : Sits(t, registry[t])

\* A transaction that is being committed is out of the registry.
Serving(c) ==
    \/ req[c] = Idle
    \/ req[c].pc = "begin" /\ req[c].generation \in 0..store.generation
    \/ /\ req[c].pc = "commit"
       /\ Sits(req[c].id, req[c].tx)
       /\ req[c].id \notin DOMAIN registry

InFlight == \A c \in Clients : Serving(c)

\* No two requests commit one transaction.
Once ==
    \A c, d \in Clients :
        req[c].pc = "commit" /\ req[d].pc = "commit" /\ req[c].id = req[d].id => c = d

Hist ==
    /\ DOMAIN req = Clients
    /\ acked \in [Tx -> Delta]
    /\ began \in [Tx -> Nat]
    /\ \A t \in Tx : began[t] <= store.generation
    /\ \A t \in Tx : fate[t] = "unborn" => acked[t] = NoWrites
    /\ \A t \in Tx : fate[t] = "committed" => began[t] < store.generation

Vers ==
    /\ DOMAIN versions \subseteq 0..store.generation
    /\ store.generation \in DOMAIN versions
    /\ Changed(versions[store.generation], store.quads) \subseteq hidden

TxInv ==
    /\ TypeOK
    /\ Registered
    /\ InFlight
    /\ Once
    /\ Hist
    /\ Vers
    /\ FirstCommitterWins

LEMMA TxInit == Init => TxInv
<1> SUFFICES ASSUME Init PROVE TxInv
  OBVIOUS
<1>1. /\ store.quads \in Initial /\ store.generation = 0
      /\ store \in [quads : SUBSET Quads, generation : 0..MaxGeneration]
  BY QuadsAssumption DEF Init
<1>2. DOMAIN registry = {} /\ Idle.pc = "idle"
  BY DEF Init, Idle
<1>3. DOMAIN req = Clients /\ \A c \in Clients : req[c] = Idle
  BY DEF Init
<1>4. NoWrites \in Delta
  BY DEF NoWrites, Delta
<1>5. TypeOK
  BY <1>1, <1>2, <1>3 DEF Init, TypeOK, Final
<1>6. Registered
  BY <1>2 DEF Registered
<1>7. InFlight
  BY <1>3 DEF InFlight, Serving
<1>8. Once
  BY <1>2, <1>3 DEF Once
<1>9. Hist
  BY <1>1, <1>3, <1>4 DEF Init, Hist
<1>10. Vers
  <2>1. DOMAIN versions = {0} /\ versions[0] = store.quads
    BY DEF Init
  <2>2. QED
    BY <1>1, <2>1 DEF Vers, Changed
<1>11. FirstCommitterWins
  BY DEF Init, FirstCommitterWins
<1>12. QED
  BY <1>5, <1>6, <1>7, <1>8, <1>9, <1>10, <1>11 DEF TxInv

-----------------------------------------------------------------------------
(* Writing the store                                                         *)

LEMMA WriteStore ==
    ASSUME TypeOK, Vers, NEW st \in From(Quads, store.generation), Write(st)
    PROVE  /\ store' = st
           /\ store' \in [quads : SUBSET Quads, generation : 0..MaxGeneration]
           /\ hidden' \subseteq Quads
           /\ store.generation <= store'.generation
           /\ Vers'
<1>1. /\ store' = st /\ st.quads \subseteq Quads /\ st.generation \in Nat
      /\ st = [quads |-> st.quads, generation |-> st.generation]
      /\ st.generation <= MaxGeneration /\ store.generation <= st.generation
      /\ store.generation \in Nat /\ store.quads \subseteq Quads /\ hidden \subseteq Quads
      /\ MaxGeneration \in Nat
  BY QuadsAssumption DEF From, Store, Write, TypeOK
<1>2. store' \in [quads : SUBSET Quads, generation : 0..MaxGeneration]
  BY <1>1
<1>3. hidden' \subseteq Quads
  BY <1>1 DEF Write, Changed
<1>4. CASE st.generation = store.generation
  <2>1. hidden' = hidden \cup Changed(st.quads, store.quads) /\ versions' = versions
    BY <1>4 DEF Write
  <2>2. Changed(versions[store.generation], st.quads) \subseteq hidden'
    BY <2>1 DEF Vers, Changed
  <2>3. QED
    BY <1>1, <1>2, <1>3, <1>4, <2>1, <2>2 DEF Vers
<1>5. CASE st.generation # store.generation
  <2> DEFINE g == st.generation
  <2>1. versions' = [v \in DOMAIN versions \cup {g} |->
                        IF v = g THEN st.quads ELSE versions[v]]
    BY <1>5 DEF Write
  <2>2. DOMAIN versions' = DOMAIN versions \cup {g} /\ versions'[g] = st.quads
    BY <2>1
  <2>3. DOMAIN versions \cup {g} \subseteq 0..g
    BY <1>1 DEF Vers
  <2>4. Changed(versions'[g], st.quads) = {}
    BY <2>2 DEF Changed
  <2>5. QED
    BY <1>1, <1>2, <1>3, <2>2, <2>3, <2>4 DEF Vers
<1>6. QED
  BY <1>4, <1>5

LEMMA SitsKeeps ==
    ASSUME TypeOK, Hist, NEW st \in From(Quads, store.generation), Write(st),
           NEW t, NEW tx, Sits(t, tx),
           fate'[t] = fate[t], began'[t] = began[t], acked'[t] = acked[t]
    PROVE  Sits(t, tx)'
<1>1. /\ store' = st /\ st.generation \in Nat /\ store.generation <= st.generation
      /\ store.generation \in Nat /\ began[t] \in Nat /\ began[t] <= store.generation
  BY DEF From, Store, Write, TypeOK, Sits, Hist
<1>2. ASSUME store'.generation = began[t]
      PROVE  acked[t].del \cap store'.quads \subseteq tx.pending_deletes \cup hidden'
  <2>1. st.generation = store.generation /\ store.generation = began[t]
    BY <1>1, <1>2
  <2>2. hidden' = hidden \cup Changed(st.quads, store.quads)
    BY <2>1 DEF Write
  <2>3. acked[t].del \cap store.quads \subseteq tx.pending_deletes \cup hidden
    BY <2>1 DEF Sits
  <2>4. QED
    BY <1>1, <2>2, <2>3 DEF Changed
<1>3. QED
  BY <1>2 DEF Sits

\* The writers outside transactions.
LEMMA WriteKeeps ==
    ASSUME TxInv, NEW st \in From(Quads, store.generation), Write(st),
           UNCHANGED <<registry, req, fate, began, acked>>
    PROVE  TxInv'
<1> USE DEF TxInv
<1>1. /\ store' \in [quads : SUBSET Quads, generation : 0..MaxGeneration]
      /\ hidden' \subseteq Quads
      /\ store.generation <= store'.generation
      /\ Vers'
  BY WriteStore
<1>2. store.generation \in Nat /\ store'.generation \in Nat
  BY <1>1 DEF TypeOK
<1>3. TypeOK'
  BY <1>1 DEF TypeOK
<1>4. \A t, tx : Sits(t, tx) => Sits(t, tx)'
  BY SitsKeeps
<1>5. Registered'
  BY <1>4 DEF Registered
<1>6. InFlight'
  BY <1>1, <1>2, <1>4 DEF InFlight, Serving
<1>7. Once'
  BY DEF Once
<1>8. Hist'
  BY <1>1, <1>2 DEF Hist
<1>9. FirstCommitterWins'
  BY DEF FirstCommitterWins
<1>10. QED
  BY <1>1, <1>3, <1>5, <1>6, <1>7, <1>8, <1>9

LEMMA CheckedStore ==
    ASSUME NEW g \in Nat, NEW st \in From(Quads, g), NEW ins, ins \subseteq Quads,
           NEW del, del \subseteq Quads
    PROVE  Checked(st, ins, del) \in From(Quads, g)
<1>1. RemoveQuads(st, del) \in From(Quads, g)
  BY QuadsAssumption, AddStore
<1>2. AddQuads(RemoveQuads(st, del), ins) \in From(Quads, g)
  BY <1>1, QuadsAssumption, AddStore
<1>3. RemoveQuads(AddQuads(RemoveQuads(st, del), ins), ins) \in From(Quads, g)
  BY <1>2, QuadsAssumption, AddStore
<1>4. AddQuads(RemoveQuads(AddQuads(RemoveQuads(st, del), ins), ins), del) \in From(Quads, g)
  BY <1>3, QuadsAssumption, AddStore
<1>5. QED
  BY <1>2, <1>4 DEF Checked

LEMMA UpdatedStore ==
    ASSUME TypeOK, NEW ops \in UpdateRequests
    PROVE  Updated(ops) \in From(Quads, store.generation)
<1> DEFINE d == Collect(store, ops)
           g == store.generation
<1>1. g \in Nat /\ store \in From(Quads, g)
  BY DEF TypeOK, From, Store
<1>2. d \in Progressing(Quads, g)
  BY <1>1, QuadsAssumption, RequestsAssumption, CollectType
<1> HIDE DEF d
<1>3. d.store \in From(Quads, g) /\ NetInserts(d) \subseteq Quads /\ NetDeletes(d) \subseteq Quads
  BY <1>2 DEF Progressing, NetInserts, NetDeletes
<1> HIDE DEF g
<1>4. Checked(d.store, NetInserts(d), NetDeletes(d)) \in From(Quads, g)
  BY <1>1, <1>3, CheckedStore
<1>5. QED
  BY <1>3, <1>4 DEF Updated, d, g

LEMMA GspKeeps ==
    ASSUME TxInv, NEW old, NEW new, new \subseteq Quads,
           NEW tracked \in From(Quads, store.generation), Gsp(old, new, tracked)
    PROVE  TxInv'
<1> DEFINE st == IF reasoning THEN [store EXCEPT !.quads = (@ \ old) \cup new] ELSE tracked
<1>1. st \in From(Quads, store.generation)
  BY DEF TxInv, TypeOK, From, Store
<1>2. Write(st) /\ UNCHANGED <<registry, req, fate, began, acked>>
  BY DEF Gsp
<1> HIDE DEF st
<1>3. QED
  BY <1>1, <1>2, WriteKeeps

OtherWriter ==
    \/ \E ops \in UpdateRequests :
          \/ RunUpdate(ops)
          \/ \E g \in DOMAIN versions : UpdateIfMatch(g, ops)
    \/ \E Q \in Bodies :
          \/ Upload(Q)
          \/ DocumentPost(Q)
          \/ GspPost(Q)
    \/ \E g \in {q.graph : q \in Quads} :
          \/ GspDelete(g)
          \/ \E Q \in Bodies : (\A q \in Q : q.graph = g) /\ GspPut(g, Q)

LEMMA OtherWriterKeeps ==
    ASSUME TxInv, OtherWriter
    PROVE  TxInv' /\ fate' = fate
<1>1. store.generation \in Nat /\ store \in From(Quads, store.generation) /\ TypeOK
  BY DEF TxInv, TypeOK, From, Store
<1>2. ASSUME NEW ops \in UpdateRequests,
             RunUpdate(ops) \/ \E g \in DOMAIN versions : UpdateIfMatch(g, ops)
      PROVE  TxInv' /\ fate' = fate
  <2>1. Updated(ops) \in From(Quads, store.generation)
    BY <1>1, UpdatedStore
  <2>2. Write(Updated(ops)) /\ UNCHANGED <<registry, req, fate, began, acked>>
    BY <1>2 DEF RunUpdate, UpdateIfMatch
  <2>3. QED
    BY <2>1, <2>2, WriteKeeps
<1>3. ASSUME NEW Q \in Bodies, Upload(Q) \/ DocumentPost(Q)
      PROVE  TxInv' /\ fate' = fate
  <2>1. Q \subseteq Quads
    BY QuadsAssumption
  <2>2. AddQuads(store, Q) \in From(Quads, store.generation)
    BY <1>1, <2>1, QuadsAssumption, AddStore
  <2>3. AddUntracked(store, Q) \in From(Quads, store.generation)
    BY <1>1, <2>1 DEF AddUntracked, From, Store
  <2>4. PICK st \in From(Quads, store.generation) : Write(st)
    BY <1>3, <2>2, <2>3 DEF Upload, DocumentPost
  <2>5. UNCHANGED <<registry, req, fate, began, acked>>
    BY <1>3 DEF Upload, DocumentPost
  <2>6. QED
    BY <2>4, <2>5, WriteKeeps
<1>4. ASSUME NEW Q \in Bodies, GspPost(Q)
      PROVE  TxInv' /\ fate' = fate
  <2>1. Q \subseteq Quads
    BY QuadsAssumption
  <2>2. AddQuads(store, Q) \in From(Quads, store.generation)
    BY <1>1, <2>1, QuadsAssumption, AddStore
  <2>3. Gsp({}, Q, AddQuads(store, Q))
    BY <1>4 DEF GspPost
  <2>4. QED
    BY <2>1, <2>2, <2>3, GspKeeps DEF Gsp
<1>5. ASSUME NEW g
      PROVE  RemoveGraphs(store, {g}) \in From(Quads, store.generation)
  BY <1>1, FS_Singleton, QuadsAssumption, RemoveStore
<1>6. ASSUME NEW g, GspDelete(g)
      PROVE  TxInv' /\ fate' = fate
  <2>1. Gsp({q \in store.quads : q.graph = g}, {}, RemoveGraphs(store, {g}))
    BY <1>6 DEF GspDelete
  <2>2. QED
    BY <1>5, <2>1, GspKeeps DEF Gsp
<1>7. ASSUME NEW g, NEW Q \in Bodies, GspPut(g, Q)
      PROVE  TxInv' /\ fate' = fate
  <2>1. Q \subseteq Quads
    BY QuadsAssumption
  <2>2. AddQuads(RemoveGraphs(store, {g}), Q) \in From(Quads, store.generation)
    BY <1>1, <1>5, <2>1, QuadsAssumption, AddStore
  <2>3. Gsp({q \in store.quads : q.graph = g}, Q, AddQuads(RemoveGraphs(store, {g}), Q))
    BY <1>7 DEF GspPut
  <2>4. QED
    BY <2>1, <2>2, <2>3, GspKeeps DEF Gsp
<1>8. QED
  BY <1>2, <1>3, <1>4, <1>6, <1>7 DEF OtherWriter

-----------------------------------------------------------------------------
(* The steps of a transaction                                                *)

\* What no step of another transaction and no step outside the store disturbs.
LEMMA SitsSame ==
    ASSUME NEW t, NEW tx, Sits(t, tx), UNCHANGED <<store, hidden>>,
           fate'[t] = fate[t], began'[t] = began[t], acked'[t] = acked[t]
    PROVE  Sits(t, tx)'
BY DEF Sits

LEMMA VersSame ==
    ASSUME Vers, UNCHANGED <<store, versions, hidden>>
    PROVE  Vers'
BY DEF Vers, Changed

LEMMA BeginReadKeeps ==
    ASSUME TxInv, NEW c \in Clients, BeginRead(c)
    PROVE  TxInv' /\ fate' = fate
<1> DEFINE r == [pc |-> "begin", generation |-> store.generation]
<1>1. /\ UNCHANGED <<store, reasoning, registry, fate, began, acked, versions, hidden>>
      /\ req' = [req EXCEPT ![c] = r]
  BY DEF BeginRead, history
<1>2. DOMAIN req = Clients /\ store.generation \in 0..store.generation
  BY DEF TxInv, Hist, TypeOK
<1>3. DOMAIN req' = Clients /\ req'[c] = r /\ \A d \in Clients : d # c => req'[d] = req[d]
  BY <1>1, <1>2
<1>4. r.pc = "begin" /\ r.generation = store.generation
  OBVIOUS
<1> HIDE DEF r
<1>5. \A t, tx : Sits(t, tx) => Sits(t, tx)'
  BY <1>1, SitsSame
<1>6. TypeOK'
  BY <1>1, <1>3, <1>4 DEF TxInv, TypeOK
<1>7. Registered'
  BY <1>1, <1>5 DEF TxInv, Registered
<1>8. InFlight'
  BY <1>1, <1>2, <1>3, <1>4, <1>5 DEF TxInv, InFlight, Serving
<1>9. Once'
  BY <1>3, <1>4 DEF TxInv, Once
<1>10. Hist' /\ FirstCommitterWins'
  BY <1>1, <1>3 DEF TxInv, Hist, FirstCommitterWins
<1>11. Vers'
  BY <1>1, VersSame DEF TxInv
<1>12. QED
  BY <1>1, <1>6, <1>7, <1>8, <1>9, <1>10, <1>11 DEF TxInv

LEMMA BeginRegisterKeeps ==
    ASSUME TxInv, NEW c \in Clients, NEW t \in Tx, BeginRegister(c, t)
    PROVE  TxInv' /\ \A s \in Tx : fate'[s] # fate[s] => fate[s] \in {"unborn", "open"}
                                                          /\ fate'[s] # "committed"
<1> DEFINE g == req[c].generation
           new == [snapshot_generation |-> g, pending_inserts |-> {},
                   pending_deletes |-> {}, idle |-> FALSE]
<1>1. /\ UNCHANGED <<store, versions, hidden>>
      /\ DOMAIN registry' = (DOMAIN registry \ Stale) \cup {t}
      /\ registry'[t] = new
      /\ \A s \in DOMAIN registry \ Stale : s # t => registry'[s] = registry[s]
      /\ req' = [req EXCEPT ![c] = Idle]
      /\ req[c].pc = "begin"
      /\ fate[t] = "unborn"
  BY DEF BeginRegister
<1>2. \A s \in DOMAIN registry : s \in Tx /\ fate[s] = "open" /\ s # t
  BY <1>1 DEF TxInv, Registered, Sits
<1>3. Stale \subseteq DOMAIN registry /\ t \notin Stale
  BY <1>2 DEF Stale
<1>4. /\ fate' \in [Tx -> Final \cup {"unborn", "open"}]
      /\ fate'[t] = "open"
      /\ \A s \in Stale : fate'[s] = "evicted"
      /\ \A s \in Tx : s # t /\ s \notin Stale => fate'[s] = fate[s]
  <2>1. fate \in [Tx -> Final \cup {"unborn", "open"}] /\ "evicted" \in Final
    BY DEF TxInv, TypeOK, Final
  <2>2. fate' = [s \in Tx |-> CASE s = t -> "open" [] s \in Stale -> "evicted"
                                [] OTHER -> fate[s]]
    BY DEF BeginRegister
  <2>3. QED
    BY <1>2, <1>3, <2>1, <2>2
<1>5. g \in Nat /\ g <= store.generation /\ g \in 0..MaxGeneration
  <2>1. g \in 0..store.generation
    BY <1>1 DEF TxInv, InFlight, Serving, Idle
  <2>2. QED
    BY <2>1, QuadsAssumption DEF TxInv, TypeOK
<1>6. /\ began' \in [Tx -> Nat]
      /\ began'[t] = g
      /\ \A s \in Tx : s # t => began'[s] = began[s]
  BY <1>5 DEF BeginRegister, TxInv, Hist
<1>7. /\ acked' \in [Tx -> Delta]
      /\ acked'[t] = NoWrites
      /\ \A s \in Tx : s \notin Stale => acked'[s] = acked[s]
  <2>1. NoWrites \in Delta
    BY DEF NoWrites, Delta
  <2>2. acked' = [s \in Tx |-> IF s \in Stale THEN NoWrites ELSE acked[s]]
    BY DEF BeginRegister
  <2>3. QED
    BY <1>1, <1>3, <2>1, <2>2 DEF TxInv, Hist
<1>8. PICK tx : /\ tx = new
                /\ tx \in OpenTransaction /\ tx.snapshot_generation = g
                /\ tx.pending_inserts = {} /\ tx.pending_deletes = {}
  <2>1. /\ new \in OpenTransaction /\ new.snapshot_generation = g
        /\ new.pending_inserts = {} /\ new.pending_deletes = {}
    BY <1>5 DEF OpenTransaction
  <2> HIDE DEF new
  <2>2. QED
    BY <2>1
<1> HIDE DEF g, new
<1>9. /\ DOMAIN req' = Clients /\ req'[c] = Idle /\ Idle.pc = "idle"
      /\ \A d \in Clients : d # c => req'[d] = req[d]
  BY <1>1 DEF TxInv, Hist, Idle
<1>10. \A s, x : Sits(s, x) /\ s \notin Stale => Sits(s, x)' /\ s # t
  <2> SUFFICES ASSUME NEW s, NEW x, Sits(s, x), s \notin Stale
               PROVE  Sits(s, x)' /\ s # t
    OBVIOUS
  <2>1. s \in Tx /\ s # t
    BY <1>1 DEF Sits
  <2>2. fate'[s] = fate[s] /\ began'[s] = began[s] /\ acked'[s] = acked[s]
    BY <1>4, <1>6, <1>7, <2>1
  <2>3. QED
    BY <1>1, <2>1, <2>2, SitsSame
<1>11. Sits(t, tx)'
  <2>1. NoWrites.ins = {} /\ NoWrites.del = {}
    BY DEF NoWrites
  <2>2. QED
    BY <1>4, <1>6, <1>7, <1>8, <2>1 DEF Sits
<1>12. Registered'
  <2> SUFFICES ASSUME NEW s \in DOMAIN registry' PROVE Sits(s, registry[s])'
    BY DEF Registered
  <2>1. CASE s = t
    BY <1>1, <1>8, <1>11, <2>1 DEF Sits
  <2>2. CASE s # t
    <3>1. s \in DOMAIN registry /\ s \notin Stale /\ registry'[s] = registry[s]
      BY <1>1, <2>2
    <3>2. Sits(s, registry[s])
      BY <3>1 DEF TxInv, Registered
    <3>3. QED
      BY <1>10, <3>1, <3>2 DEF Sits
  <2>3. QED
    BY <2>1, <2>2
<1>13. TypeOK'
  <2>1. DOMAIN registry' \subseteq Tx
    BY <1>1, <1>2
  <2>2. \A s \in DOMAIN registry' : registry'[s] \in OpenTransaction
    BY <1>12 DEF Registered, Sits
  <2>3. \A d \in Clients : req'[d].pc \in {"idle", "begin", "commit"}
    BY <1>9 DEF TxInv, TypeOK
  <2>4. QED
    BY <1>1, <1>4, <2>1, <2>2, <2>3 DEF TxInv, TypeOK
<1>14. InFlight'
  <2> SUFFICES ASSUME NEW d \in Clients PROVE Serving(d)'
    BY DEF InFlight
  <2>1. CASE d = c
    BY <1>9, <2>1 DEF Serving
  <2>2. CASE d # c /\ req[d].pc = "commit"
    <3>1. Sits(req[d].id, req[d].tx) /\ req[d].id \notin DOMAIN registry
      BY <2>2 DEF TxInv, InFlight, Serving, Idle
    <3>2. req[d].id \notin Stale
      BY <1>3, <3>1
    <3>3. Sits(req[d].id, req[d].tx)' /\ req[d].id # t
      BY <1>9, <1>10, <2>2, <3>1, <3>2 DEF Sits
    <3>4. req'[d] = req[d] /\ req[d].id \notin DOMAIN registry'
      BY <1>1, <1>9, <2>2, <3>1, <3>3
    <3>5. QED
      BY <2>2, <3>3, <3>4 DEF Serving
  <2>3. CASE d # c /\ req[d].pc # "commit"
    <3>1. req'[d] = req[d] /\ Serving(d) /\ store' = store
      BY <1>1, <1>9, <2>3 DEF TxInv, InFlight
    <3>2. QED
      BY <2>3, <3>1 DEF Serving
  <2>4. QED
    BY <2>1, <2>2, <2>3
<1>15. Once'
  BY <1>9 DEF TxInv, Once
<1>16. Hist'
  <2>1. \A s \in Tx : began'[s] <= store.generation
    BY <1>5, <1>6 DEF TxInv, Hist
  <2>2. \A s \in Tx : fate'[s] = "unborn" => acked'[s] = NoWrites
    BY <1>4, <1>7 DEF TxInv, Hist
  <2>3. \A s \in Tx : fate'[s] = "committed" => began'[s] < store.generation
    BY <1>4, <1>6 DEF TxInv, Hist
  <2>4. QED
    BY <1>1, <1>6, <1>7, <1>9, <2>1, <2>2, <2>3 DEF Hist
<1>17. \A s \in Tx : fate'[s] # fate[s] => fate[s] \in {"unborn", "open"}
                                            /\ fate'[s] # "committed"
  BY <1>1, <1>2, <1>3, <1>4
<1>18. FirstCommitterWins'
  <2>1. \A s \in Tx : fate'[s] = "committed" => fate[s] = "committed" /\ began'[s] = began[s]
    BY <1>4, <1>6
  <2>2. QED
    BY <2>1 DEF TxInv, FirstCommitterWins
<1>19. Vers'
  BY <1>1, VersSame DEF TxInv
<1>20. QED
  BY <1>12, <1>13, <1>14, <1>15, <1>16, <1>17, <1>18, <1>19 DEF TxInv

LEMMA TransactionalUpdateKeeps ==
    ASSUME TxInv, NEW t \in Tx, NEW ops \in TxRequests, TransactionalUpdate(t, ops)
    PROVE  TxInv' /\ fate' = fate
<1> DEFINE tx == registry[t]
           d == NewDelta(ops)
           I == OfKind(ops, "InsertData")
           D == OfKind(ops, "DeleteData")
           all == tx.pending_inserts \cup d.ins
<1>1. /\ UNCHANGED <<store, reasoning, req, fate, began, versions, hidden>>
      /\ t \in DOMAIN registry
      /\ registry' = [registry EXCEPT ![t] = Buffered(tx, d)]
      /\ acked' = [acked EXCEPT ![t] = [ins |-> acked[t].ins \cup I, del |-> acked[t].del \cup D]]
  BY DEF TransactionalUpdate
<1>2. /\ d \in Delta /\ d.ins = I /\ d.del \subseteq D
      /\ D \cap store.quads \subseteq d.del
  BY NewDeltaExact DEF TxInv, TypeOK
<1>3. I \subseteq Quads /\ D \subseteq Quads
  <2>1. \A i \in DOMAIN ops : ops[i].kind \in {"InsertData", "DeleteData"} /\ WellFormed(ops[i], Quads)
    BY RequestsAssumption
  <2>2. \A i \in DOMAIN ops : ops[i].quads \subseteq Quads
    BY <2>1 DEF WellFormed
  <2>3. QED
    BY <2>2 DEF OfKind
<1> HIDE DEF d, I, D
<1>4. Sits(t, tx) /\ acked[t] \in Delta
  BY <1>1 DEF TxInv, Registered, Hist
<1>5. PICK y : y = Buffered(tx, d)
  OBVIOUS
<1>6. /\ y \in OpenTransaction
      /\ y.snapshot_generation = tx.snapshot_generation
      /\ y.pending_inserts = tx.pending_inserts \cup d.ins
      /\ y.pending_deletes = tx.pending_deletes \cup (d.del \cap (store.quads \cup all))
  <2>1. tx \in OpenTransaction /\ d.ins \subseteq Quads /\ d.del \subseteq Quads
    BY <1>2, <1>4 DEF Sits, Delta
  <2> HIDE DEF tx
  <2>2. QED
    BY <1>5, <2>1 DEF Buffered, OpenTransaction
<1>7. /\ acked'[t].ins = acked[t].ins \cup I /\ acked'[t].del = acked[t].del \cup D
      /\ acked' \in [Tx -> Delta]
      /\ \A s \in Tx : s # t => acked'[s] = acked[s]
  <2>1. [ins |-> acked[t].ins \cup I, del |-> acked[t].del \cup D] \in Delta
    BY <1>3, <1>4 DEF Delta
  <2>2. QED
    BY <1>1, <2>1 DEF TxInv, Hist
<1>8. Sits(t, y)'
  <2>1. y.pending_inserts = acked'[t].ins /\ y.pending_deletes \subseteq acked'[t].del
    BY <1>2, <1>4, <1>6, <1>7 DEF Sits
  <2>2. store.generation = began[t] =>
           acked'[t].del \cap store.quads \subseteq y.pending_deletes \cup hidden
    BY <1>2, <1>4, <1>6, <1>7 DEF Sits
  <2>3. t \in Tx /\ fate[t] = "open" /\ y \in OpenTransaction /\ y.snapshot_generation = began[t]
    BY <1>4, <1>6 DEF Sits
  <2>4. QED
    BY <1>1, <2>1, <2>2, <2>3 DEF Sits
<1>9. \A s, x : Sits(s, x) /\ s # t => Sits(s, x)'
  BY <1>1, <1>7, SitsSame DEF Sits
<1>10. /\ DOMAIN registry' = DOMAIN registry /\ registry'[t] = y
       /\ \A s \in DOMAIN registry : s # t => registry'[s] = registry[s]
  BY <1>1, <1>5
<1>11. Registered'
  <2> SUFFICES ASSUME NEW s \in DOMAIN registry' PROVE Sits(s, registry[s])'
    BY DEF Registered
  <2>1. CASE s = t
    BY <1>8, <1>10, <2>1 DEF Sits
  <2>2. CASE s # t
    <3>1. registry'[s] = registry[s] /\ Sits(s, registry[s])
      BY <1>10, <2>2 DEF TxInv, Registered
    <3>2. QED
      BY <1>9, <2>2, <3>1 DEF Sits
  <2>3. QED
    BY <2>1, <2>2
<1>12. TypeOK'
  <2>1. \A s \in DOMAIN registry' : registry'[s] \in OpenTransaction
    BY <1>11 DEF Registered, Sits
  <2>2. QED
    BY <1>1, <1>10, <2>1 DEF TxInv, TypeOK
<1>13. InFlight'
  <2> SUFFICES ASSUME NEW c \in Clients PROVE Serving(c)'
    BY DEF InFlight
  <2>1. Serving(c) /\ req' = req /\ store' = store /\ DOMAIN registry' = DOMAIN registry
    BY <1>1, <1>10 DEF TxInv, InFlight
  <2>2. ASSUME Sits(req[c].id, req[c].tx), req[c].id \notin DOMAIN registry
        PROVE  Sits(req[c].id, req[c].tx)'
    BY <1>1, <1>9, <2>1, <2>2 DEF Sits
  <2>3. QED
    BY <2>1, <2>2 DEF Serving
<1>14. Once'
  BY <1>1 DEF TxInv, Once
<1>15. Hist'
  <2>1. \A s \in Tx : fate[s] = "unborn" => acked'[s] = NoWrites
    BY <1>4, <1>7 DEF TxInv, Hist, Sits
  <2>2. QED
    BY <1>1, <1>7, <2>1 DEF TxInv, Hist
<1>16. Vers' /\ FirstCommitterWins'
  BY <1>1, VersSame DEF TxInv, FirstCommitterWins
<1>17. QED
  BY <1>1, <1>11, <1>12, <1>13, <1>14, <1>15, <1>16 DEF TxInv

LEMMA ExpireKeeps ==
    ASSUME TxInv, NEW t \in Tx, Expire(t)
    PROVE  TxInv' /\ fate' = fate
<1>1. /\ UNCHANGED <<store, reasoning, req, fate, began, acked, versions, hidden>>
      /\ t \in DOMAIN registry
      /\ registry' = [registry EXCEPT ![t].idle = TRUE]
  BY DEF Expire, history
<1>2. \A s, x : Sits(s, x) => Sits(s, x)'
  BY <1>1, SitsSame
<1>3. DOMAIN registry' = DOMAIN registry
  BY <1>1
<1>4. Registered'
  <2> SUFFICES ASSUME NEW s \in DOMAIN registry PROVE Sits(s, registry[s])'
    BY <1>3 DEF Registered
  <2>1. Sits(s, registry[s])
    BY DEF TxInv, Registered
  <2>2. CASE s = t
    <3>1. registry'[s] = [registry[s] EXCEPT !.idle = TRUE]
      BY <1>1, <2>2
    <3>2. registry[s] \in OpenTransaction
      BY <2>1 DEF Sits
    <3>3. /\ registry'[s] \in OpenTransaction
          /\ registry'[s].snapshot_generation = registry[s].snapshot_generation
          /\ registry'[s].pending_inserts = registry[s].pending_inserts
          /\ registry'[s].pending_deletes = registry[s].pending_deletes
      BY <3>1, <3>2 DEF OpenTransaction
    <3>4. QED
      BY <1>1, <2>1, <3>3 DEF Sits
  <2>3. CASE s # t
    <3>1. registry'[s] = registry[s]
      BY <1>1, <2>3
    <3>2. QED
      BY <1>2, <2>1, <3>1 DEF Sits
  <2>4. QED
    BY <2>2, <2>3
<1>5. TypeOK'
  <2>1. \A s \in DOMAIN registry' : registry'[s] \in OpenTransaction
    BY <1>4 DEF Registered, Sits
  <2>2. QED
    BY <1>1, <1>3, <2>1 DEF TxInv, TypeOK
<1>6. InFlight'
  BY <1>1, <1>2, <1>3 DEF TxInv, InFlight, Serving
<1>7. Once' /\ Hist' /\ FirstCommitterWins'
  BY <1>1 DEF TxInv, Once, Hist, FirstCommitterWins
<1>8. Vers'
  BY <1>1, VersSame DEF TxInv
<1>9. QED
  BY <1>1, <1>4, <1>5, <1>6, <1>7, <1>8 DEF TxInv

LEMMA CommitTakeKeeps ==
    ASSUME TxInv, NEW c \in Clients, NEW t \in Tx, CommitTake(c, t)
    PROVE  TxInv' /\ fate' = fate
<1> DEFINE r == [pc |-> "commit", id |-> t, tx |-> registry[t]]
<1>1. /\ UNCHANGED <<store, reasoning, fate, began, acked, versions, hidden>>
      /\ t \in DOMAIN registry
      /\ req' = [req EXCEPT ![c] = r]
      /\ registry' = Drop(registry, {t})
  BY DEF CommitTake, history
<1>2. DOMAIN req' = Clients /\ req'[c] = r /\ \A d \in Clients : d # c => req'[d] = req[d]
  BY <1>1 DEF TxInv, Hist
<1>3. r.pc = "commit" /\ r.id = t /\ r.tx = registry[t]
  OBVIOUS
<1> HIDE DEF r
<1>4. /\ DOMAIN registry' = DOMAIN registry \ {t}
      /\ \A s \in DOMAIN registry' : registry'[s] = registry[s]
  BY <1>1 DEF Drop
<1>5. \A s, x : Sits(s, x) => Sits(s, x)'
  BY <1>1, SitsSame
<1>6. Registered'
  BY <1>4, <1>5 DEF TxInv, Registered
<1>7. TypeOK'
  <2>1. \A s \in DOMAIN registry' : registry'[s] \in OpenTransaction
    BY <1>6 DEF Registered, Sits
  <2>2. \A d \in Clients : req'[d].pc \in {"idle", "begin", "commit"}
    BY <1>2, <1>3 DEF TxInv, TypeOK
  <2>3. QED
    BY <1>1, <1>4, <2>1, <2>2 DEF TxInv, TypeOK
<1>8. InFlight'
  <2> SUFFICES ASSUME NEW d \in Clients PROVE Serving(d)'
    BY DEF InFlight
  <2>1. CASE d = c
    <3>1. Sits(t, registry[t])
      BY <1>1 DEF TxInv, Registered
    <3>2. Sits(req[d].id, req[d].tx)'
      BY <1>2, <1>3, <1>5, <2>1, <3>1 DEF Sits
    <3>3. QED
      BY <1>2, <1>3, <1>4, <2>1, <3>2 DEF Serving
  <2>2. CASE d # c
    <3>1. Serving(d) /\ req'[d] = req[d] /\ store' = store
      BY <1>1, <1>2, <2>2 DEF TxInv, InFlight
    <3>2. ASSUME Sits(req[d].id, req[d].tx)
          PROVE  Sits(req[d].id, req[d].tx)'
      BY <1>5, <3>1, <3>2 DEF Sits
    <3>3. QED
      BY <1>4, <3>1, <3>2 DEF Serving
  <2>3. QED
    BY <2>1, <2>2
<1>9. Once'
  <2>1. \A d \in Clients : req[d].pc = "commit" => req[d].id # t
    BY <1>1 DEF TxInv, InFlight, Serving, Idle
  <2>2. QED
    BY <1>2, <1>3, <2>1 DEF TxInv, Once
<1>10. Hist' /\ FirstCommitterWins'
  BY <1>1, <1>2 DEF TxInv, Hist, FirstCommitterWins
<1>11. Vers'
  BY <1>1, VersSame DEF TxInv
<1>12. QED
  BY <1>1, <1>6, <1>7, <1>8, <1>9, <1>10, <1>11 DEF TxInv

LEMMA DecideOne ==
    ASSUME TxInv, NEW t \in Tx, NEW f \in Final, Decide({t}, f)
    PROVE  /\ fate' \in [Tx -> Final \cup {"unborn", "open"}]
           /\ acked' \in [Tx -> Delta]
           /\ began' = began
           /\ fate'[t] = f
           /\ \A s \in Tx : s # t => fate'[s] = fate[s] /\ acked'[s] = acked[s]
           /\ \A s \in Tx : fate'[s] = "unborn" => acked'[s] = NoWrites
<1>1. NoWrites \in Delta
  BY DEF NoWrites, Delta
<1>2. /\ fate \in [Tx -> Final \cup {"unborn", "open"}]
      /\ acked \in [Tx -> Delta]
      /\ \A s \in Tx : fate[s] = "unborn" => acked[s] = NoWrites
  BY DEF TxInv, TypeOK, Hist
<1>3. QED
  BY <1>1, <1>2 DEF Decide, Final

\* A transaction that ends without a commit.
LEMMA EndKeeps ==
    ASSUME TxInv, NEW t \in Tx, NEW f \in Final \ {"committed"}, Decide({t}, f),
           UNCHANGED <<store, reasoning, versions, hidden>>,
           DOMAIN registry' \subseteq DOMAIN registry \ {t},
           \A s \in DOMAIN registry' : registry'[s] = registry[s],
           DOMAIN req' = Clients,
           \A c \in Clients : req'[c] = Idle \/ (req'[c] = req[c] /\
                                                 (req[c].pc = "commit" => req[c].id # t))
    PROVE  TxInv'
<1>1. /\ fate' \in [Tx -> Final \cup {"unborn", "open"}]
      /\ acked' \in [Tx -> Delta]
      /\ began' = began
      /\ fate'[t] = f
      /\ \A s \in Tx : s # t => fate'[s] = fate[s] /\ acked'[s] = acked[s]
      /\ \A s \in Tx : fate'[s] = "unborn" => acked'[s] = NoWrites
  BY DecideOne
<1>2. Idle.pc = "idle"
  BY DEF Idle
<1>3. \A s, x : Sits(s, x) /\ s # t => Sits(s, x)'
  BY <1>1, SitsSame DEF Sits
<1>4. Registered'
  BY <1>3 DEF TxInv, Registered, Sits
<1>5. TypeOK'
  <2>1. \A s \in DOMAIN registry' : registry'[s] \in OpenTransaction
    BY <1>4 DEF Registered, Sits
  <2>2. \A c \in Clients : req'[c].pc \in {"idle", "begin", "commit"}
    BY <1>2 DEF TxInv, TypeOK
  <2>3. QED
    BY <1>1, <2>1, <2>2 DEF TxInv, TypeOK
<1>6. InFlight'
  <2> SUFFICES ASSUME NEW d \in Clients, req'[d] # Idle PROVE Serving(d)'
    BY DEF InFlight, Serving
  <2>1. /\ Serving(d) /\ req'[d] = req[d] /\ req[d] # Idle
        /\ req[d].pc = "commit" => req[d].id # t
    BY DEF TxInv, InFlight
  <2>2. ASSUME Sits(req[d].id, req[d].tx), req[d].pc = "commit"
        PROVE  Sits(req[d].id, req[d].tx)'
    BY <1>3, <2>1, <2>2 DEF Sits
  <2>3. QED
    BY <2>1, <2>2 DEF Serving
<1>7. Once'
  <2>1. \A d \in Clients : req'[d].pc = "commit" => req'[d] = req[d]
    BY <1>2
  <2>2. QED
    BY <2>1 DEF TxInv, Once
<1>8. \A s \in Tx : fate'[s] = "committed" => fate[s] = "committed"
  BY <1>1
<1>9. Hist' /\ FirstCommitterWins'
  BY <1>1, <1>8 DEF TxInv, Hist, FirstCommitterWins
<1>10. Vers'
  BY VersSame DEF TxInv
<1>11. QED
  BY <1>4, <1>5, <1>6, <1>7, <1>9, <1>10 DEF TxInv

LEMMA CommitConflictKeeps ==
    ASSUME TxInv, NEW c \in Clients, CommitConflict(c)
    PROVE  TxInv' /\ \A s \in Tx : fate'[s] # fate[s] => fate[s] = "open"
                                                         /\ fate'[s] # "committed"
<1> DEFINE t == req[c].id
<1>1. /\ t \in Tx /\ fate[t] = "open" /\ t \notin DOMAIN registry /\ req[c].pc = "commit"
  BY DEF CommitConflict, TxInv, InFlight, Serving, Idle, Sits
<1>2. /\ Decide({t}, "conflict") /\ "conflict" \in Final \ {"committed"}
      /\ UNCHANGED <<store, reasoning, registry, versions, hidden>>
      /\ req' = [req EXCEPT ![c] = Idle]
  BY DEF CommitConflict, Final
<1>3. \A d \in Clients : d # c /\ req[d].pc = "commit" => req[d].id # t
  BY <1>1 DEF TxInv, Once
<1>4. DOMAIN req' = Clients /\ req'[c] = Idle /\ \A d \in Clients : d # c => req'[d] = req[d]
  BY <1>2 DEF TxInv, Hist
<1>5. fate'[t] = "conflict" /\ \A s \in Tx : s # t => fate'[s] = fate[s]
  BY <1>1, <1>2, DecideOne
<1> HIDE DEF t
<1>6. TxInv'
  BY <1>1, <1>2, <1>3, <1>4, EndKeeps
<1>7. QED
  BY <1>1, <1>5, <1>6

LEMMA RollbackKeeps ==
    ASSUME TxInv, NEW t \in Tx, Rollback(t)
    PROVE  TxInv' /\ \A s \in Tx : fate'[s] # fate[s] => fate[s] = "open"
                                                         /\ fate'[s] # "committed"
<1>1. t \in DOMAIN registry /\ fate[t] = "open"
  BY DEF Rollback, TxInv, Registered, Sits
<1>2. /\ Decide({t}, "rolled_back") /\ "rolled_back" \in Final \ {"committed"}
      /\ UNCHANGED <<store, reasoning, req, versions, hidden>>
  BY DEF Rollback, Final
<1>3. /\ DOMAIN registry' = DOMAIN registry \ {t}
      /\ \A s \in DOMAIN registry' : registry'[s] = registry[s]
  BY DEF Rollback, Drop
<1>4. \A d \in Clients : req[d].pc = "commit" => req[d].id # t
  BY <1>1 DEF TxInv, InFlight, Serving, Idle
<1>5. DOMAIN req' = Clients /\ \A d \in Clients : req'[d] = req[d]
  BY <1>2 DEF TxInv, Hist
<1>6. fate'[t] = "rolled_back" /\ \A s \in Tx : s # t => fate'[s] = fate[s]
  BY <1>2, DecideOne
<1>7. TxInv'
  BY <1>2, <1>3, <1>4, <1>5, EndKeeps
<1>8. QED
  BY <1>1, <1>6, <1>7

-----------------------------------------------------------------------------
(* The commit that succeeds or is refused by the constraint check            *)

\* It always moves the generation, and when it is not refused the store is
\* what the buffers make of it.
LEMMA CommittedStore ==
    ASSUME TypeOK, NEW tx \in OpenTransaction
    PROVE  /\ Committed(tx) \in From(Quads, store.generation)
           /\ store.generation < Committed(tx).generation
           /\ ~CommitRejected(tx) =>
                 Committed(tx).quads = (store.quads \ CommitDeletes(tx)) \cup CommitInserts(tx)
<1> DEFINE I == CommitInserts(tx)
           D == CommitDeletes(tx)
           g == store.generation
<1>1. /\ g \in Nat /\ store \in From(Quads, g) /\ store.quads \subseteq Quads
      /\ store = [quads |-> store.quads, generation |-> g]
  BY DEF TypeOK, From, Store
<1>2. I \subseteq Quads /\ D \subseteq Quads
  BY <1>1 DEF CommitInserts, CommitDeletes, OpenTransaction
<1> HIDE DEF I, D
<1>3. CASE I = {} /\ D = {}
  <2>1. Committed(tx) = [quads |-> store.quads, generation |-> g + 1]
    BY <1>1, <1>3 DEF Committed, I, D
  <2>2. QED
    BY <1>1, <1>3, <2>1 DEF From, Store, I, D
<1>4. CASE I # {} \/ D # {}
  <2>1. Committed(tx) = Checked(store, I, D)
    BY <1>4 DEF Committed, I, D
  <2>2. Checked(store, I, D) \in From(Quads, g)
    BY <1>1, <1>2, CheckedStore
  <2>3. /\ Cardinality(I) \in Nat /\ Cardinality(D) \in Nat
        /\ Cardinality(I) # 0 \/ Cardinality(D) # 0
    BY <1>2, <1>4, QuadSets
  <2> DEFINE i == Cardinality(I)
             d == Cardinality(D)
             applied == AddQuads(RemoveQuads(store, D), I)
             undone == AddQuads(RemoveQuads(applied, I), D)
  <2> HIDE DEF g
  <2>4. applied = [quads |-> (store.quads \ D) \cup I, generation |-> (g + d) + i]
    BY DEF AddQuads, RemoveQuads, g
  <2>5. undone.generation = (((g + d) + i) + i) + d
    BY <2>4 DEF AddQuads, RemoveQuads
  <2>6. Checked(store, I, D) = IF check_owl_nothing(applied.quads) THEN undone ELSE applied
    BY DEF Checked
  <2> HIDE DEF i, d, applied, undone
  <2>7. g < (g + d) + i /\ g < (((g + d) + i) + i) + d
    BY <1>1, <2>3 DEF i, d
  <2>8. g < Checked(store, I, D).generation
    BY <2>4, <2>5, <2>6, <2>7
  <2>9. ASSUME ~CommitRejected(tx)
        PROVE  Checked(store, I, D).quads = (store.quads \ D) \cup I
    <3>1. ~check_owl_nothing(applied.quads)
      BY <2>4, <2>9 DEF CommitRejected, I, D
    <3>2. QED
      BY <2>4, <2>6, <3>1
  <2>10. QED
    BY <2>1, <2>2, <2>8, <2>9 DEF I, D, g
<1>5. QED
  BY <1>3, <1>4

LEMMA CommitApplyKeeps ==
    ASSUME TxInv, NEW c \in Clients, CommitApply(c)
    PROVE  /\ TxInv'
           /\ Sits(req[c].id, req[c].tx)
           /\ store.generation = began[req[c].id]
           /\ \A s \in Tx : fate'[s] # fate[s] => s = req[c].id
           /\ fate'[req[c].id] = "committed" =>
                 store'.quads = (store.quads \ CommitDeletes(req[c].tx)) \cup CommitInserts(req[c].tx)
<1> DEFINE t == req[c].id
           tx == req[c].tx
           st == Committed(tx)
           f == IF CommitRejected(tx) THEN "rejected" ELSE "committed"
<1>1. /\ Sits(t, tx) /\ t \notin DOMAIN registry /\ req[c].pc = "commit"
  BY DEF CommitApply, TxInv, InFlight, Serving, Idle
<1>2. t \in Tx /\ fate[t] = "open" /\ tx \in OpenTransaction /\ store.generation = began[t]
  BY <1>1 DEF CommitApply, Conflict, Sits
<1>3. /\ Write(st) /\ Decide({t}, f) /\ registry' = registry /\ f \in Final
      /\ req' = [req EXCEPT ![c] = Idle]
  BY DEF CommitApply, Final
<1>4. /\ st \in From(Quads, store.generation)
      /\ store.generation < st.generation
      /\ ~CommitRejected(tx) => st.quads = (store.quads \ CommitDeletes(tx)) \cup CommitInserts(tx)
  BY <1>2, CommittedStore DEF TxInv
<1>5. f = "committed" => ~CommitRejected(tx)
  OBVIOUS
<1> HIDE DEF t, tx, st, f
<1>6. /\ store' = st
      /\ store' \in [quads : SUBSET Quads, generation : 0..MaxGeneration]
      /\ hidden' \subseteq Quads
      /\ Vers'
  BY <1>3, <1>4, WriteStore DEF TxInv
<1>7. /\ fate' \in [Tx -> Final \cup {"unborn", "open"}]
      /\ acked' \in [Tx -> Delta]
      /\ began' = began
      /\ fate'[t] = f
      /\ \A s \in Tx : s # t => fate'[s] = fate[s] /\ acked'[s] = acked[s]
      /\ \A s \in Tx : fate'[s] = "unborn" => acked'[s] = NoWrites
  BY <1>2, <1>3, DecideOne
<1>8. /\ DOMAIN req' = Clients /\ req'[c] = Idle /\ Idle.pc = "idle"
      /\ \A d \in Clients : d # c => req'[d] = req[d]
  BY <1>3 DEF TxInv, Hist, Idle
<1>9. \A s, x : Sits(s, x) /\ s # t => Sits(s, x)'
  <2> SUFFICES ASSUME NEW s, NEW x, Sits(s, x), s # t PROVE Sits(s, x)'
    OBVIOUS
  <2>1. fate'[s] = fate[s] /\ began'[s] = began[s] /\ acked'[s] = acked[s]
    BY <1>7 DEF Sits
  <2>2. QED
    BY <1>3, <1>4, <2>1, SitsKeeps DEF TxInv
<1>10. Registered'
  BY <1>1, <1>3, <1>9 DEF TxInv, Registered, Sits
<1>11. store.generation \in Nat /\ store'.generation \in Nat
       /\ store.generation < store'.generation
  BY <1>4, <1>6 DEF TxInv, TypeOK
<1>12. TypeOK'
  <2>1. \A d \in Clients : req'[d].pc \in {"idle", "begin", "commit"}
    BY <1>8 DEF TxInv, TypeOK
  <2>2. QED
    BY <1>3, <1>6, <1>7, <2>1 DEF TxInv, TypeOK
<1>13. InFlight'
  <2> SUFFICES ASSUME NEW d \in Clients, d # c PROVE Serving(d)'
    BY <1>8 DEF InFlight, Serving
  <2>1. Serving(d) /\ req'[d] = req[d]
    BY <1>8 DEF TxInv, InFlight
  <2>2. req[d].pc = "commit" => req[d].id # t
    BY <1>1 DEF TxInv, Once, t
  <2>3. ASSUME Sits(req[d].id, req[d].tx), req[d].pc = "commit"
        PROVE  Sits(req[d].id, req[d].tx)'
    BY <1>9, <2>1, <2>2, <2>3 DEF Sits
  <2>4. ASSUME req[d].generation \in 0..store.generation
        PROVE  req[d].generation \in 0..store'.generation
    BY <1>11, <2>4
  <2>5. QED
    BY <1>3, <2>1, <2>3, <2>4 DEF Serving
<1>14. Once'
  BY <1>8 DEF TxInv, Once
<1>15. Hist'
  <2>1. \A s \in Tx : began[s] \in Nat /\ began[s] <= store.generation
    BY DEF TxInv, Hist
  <2>2. \A s \in Tx : began[s] <= store'.generation
    BY <1>11, <2>1
  <2>3. \A s \in Tx : fate'[s] = "committed" => began[s] < store'.generation
    BY <1>11, <2>1
  <2>4. QED
    BY <1>7, <1>8, <2>1, <2>2, <2>3 DEF TxInv, Hist
<1>16. FirstCommitterWins'
  <2>1. \A s \in Tx : s # t /\ fate'[s] = "committed" => fate[s] = "committed"
    BY <1>7
  <2>2. \A s \in Tx : fate[s] = "committed" => began[s] # began[t]
    BY <1>2, <1>11 DEF TxInv, Hist
  <2>3. QED
    BY <1>7, <2>1, <2>2 DEF TxInv, FirstCommitterWins
<1>17. TxInv'
  BY <1>6, <1>10, <1>12, <1>13, <1>14, <1>15, <1>16 DEF TxInv
<1>18. \A s \in Tx : fate'[s] # fate[s] => s = t
  BY <1>7
<1>19. QED
  BY <1>1, <1>2, <1>4, <1>5, <1>6, <1>7, <1>17, <1>18 DEF t, tx

-----------------------------------------------------------------------------
(* Theorems                                                                  *)

LEMMA TxNext ==
    ASSUME TxInv, [Next]_vars
    PROVE  /\ TxInv'
           /\ \A s \in Tx : fate'[s] # fate[s] => fate[s] \in {"unborn", "open"}
           /\ \A s \in Tx : Commits(s) => \E c \in Clients : CommitApply(c) /\ req[c].id = s
<1> DEFINE Goal == /\ TxInv'
                   /\ \A s \in Tx : fate'[s] # fate[s] => fate[s] \in {"unborn", "open"}
                   /\ \A s \in Tx : Commits(s) => \E c \in Clients : CommitApply(c) /\ req[c].id = s
<1>1. ASSUME NEW c \in Clients, BeginRead(c) PROVE Goal
  BY <1>1, BeginReadKeeps DEF Commits
<1>2. ASSUME NEW c \in Clients, CommitConflict(c) PROVE Goal
  BY <1>2, CommitConflictKeeps DEF Commits
<1>3. ASSUME NEW c \in Clients, CommitApply(c) PROVE Goal
  <2>1. /\ TxInv' /\ Sits(req[c].id, req[c].tx)
        /\ \A s \in Tx : fate'[s] # fate[s] => s = req[c].id
    BY <1>3, CommitApplyKeeps
  <2>2. fate[req[c].id] = "open"
    BY <2>1 DEF Sits
  <2>3. QED
    BY <1>3, <2>1, <2>2 DEF Commits
<1>4. ASSUME NEW c \in Clients, NEW t \in Tx, BeginRegister(c, t) PROVE Goal
  BY <1>4, BeginRegisterKeeps DEF Commits
<1>5. ASSUME NEW c \in Clients, NEW t \in Tx, CommitTake(c, t) PROVE Goal
  BY <1>5, CommitTakeKeeps DEF Commits
<1>6. ASSUME NEW t \in Tx, Rollback(t) PROVE Goal
  BY <1>6, RollbackKeeps DEF Commits
<1>7. ASSUME NEW t \in Tx, Expire(t) PROVE Goal
  BY <1>7, ExpireKeeps DEF Commits
<1>8. ASSUME NEW t \in Tx, NEW ops \in TxRequests, TransactionalUpdate(t, ops) PROVE Goal
  BY <1>8, TransactionalUpdateKeeps DEF Commits
<1>9. ASSUME OtherWriter PROVE Goal
  BY <1>9, OtherWriterKeeps DEF Commits
<1>10. ASSUME UNCHANGED vars PROVE Goal
  <2>1. UNCHANGED <<store, reasoning, registry, req, fate, began, acked, versions, hidden>>
    BY <1>10 DEF vars
  <2>2. TypeOK' /\ FirstCommitterWins'
    BY <2>1 DEF TxInv, TypeOK, FirstCommitterWins
  <2>3. Registered'
    BY <2>1 DEF TxInv, Registered, Sits
  <2>4. InFlight'
    BY <2>1 DEF TxInv, InFlight, Serving, Sits
  <2>5. Once' /\ Hist'
    BY <2>1 DEF TxInv, Once, Hist
  <2>6. Vers'
    BY <2>1, VersSame DEF TxInv
  <2>7. QED
    BY <2>1, <2>2, <2>3, <2>4, <2>5, <2>6 DEF TxInv, Commits
<1> HIDE DEF Goal
<1>11. Goal
  BY <1>1, <1>2, <1>3, <1>4, <1>5, <1>6, <1>7, <1>8, <1>9, <1>10 DEF Next, OtherWriter
<1>12. QED
  BY <1>11 DEF Goal

\* The inductive invariant: what the registry and the requests in flight hold
\* of an open transaction agrees with what its client was told.
THEOREM TransactionsInvariant == Spec => []TxInv
<1>1. TxInv /\ [Next]_vars => TxInv'
  BY TxNext
<1>2. QED
  BY <1>1, TxInit, PTL DEF Spec

\* The types hold at any number of requests, transactions and quads; in
\* particular no buffer holds a quad that no request sent.
THEOREM TypeCorrect == Spec => []TypeOK
<1>1. TxInv => TypeOK
  BY DEF TxInv
<1>2. QED
  BY <1>1, TransactionsInvariant, PTL

\* Of the transactions that began at one generation at most one commits.
THEOREM OneCommitPerGeneration == Spec => []FirstCommitterWins
<1>1. TxInv => FirstCommitterWins
  BY DEF TxInv
<1>2. QED
  BY <1>1, TransactionsInvariant, PTL

\* No commit, rollback or eviction touches a transaction that is decided.
THEOREM TransactionsDecidedOnce == Spec => DecidedOnce
<1>1. TxInv /\ [Next]_vars => [\A t \in Tx : fate[t] \in Final => fate'[t] = fate[t]]_vars
  <2> SUFFICES ASSUME TxInv, [Next]_vars, NEW t \in Tx, fate[t] \in Final
               PROVE  fate'[t] = fate[t]
    OBVIOUS
  <2>1. fate[t] \notin {"unborn", "open"}
    BY DEF Final
  <2>2. QED
    BY <2>1, TxNext
<1>2. QED
  BY <1>1, TransactionsInvariant, PTL DEF Spec, DecidedOnce

\* A commit meets the content of the generation that BEGIN read, but for the
\* writers that go behind the counter.
THEOREM CommitsMeetSnapshot == Spec => CommitOnSnapshot
<1>1. TxInv /\ [Next]_vars =>
         [\A t \in Tx : Commits(t) =>
             Changed(versions[began[t]], store.quads) \subseteq hidden]_vars
  <2> SUFFICES ASSUME TxInv, [Next]_vars, NEW t \in Tx, Commits(t)
               PROVE  Changed(versions[began[t]], store.quads) \subseteq hidden
    OBVIOUS
  <2>1. PICK c \in Clients : CommitApply(c) /\ req[c].id = t
    BY TxNext
  <2>2. store.generation = began[t]
    BY <2>1, CommitApplyKeeps
  <2>3. QED
    BY <2>2 DEF TxInv, Vers
<1>2. QED
  BY <1>1, TransactionsInvariant, PTL DEF Spec, CommitOnSnapshot

\* Every update answered 200 inside a transaction is in what it commits.
THEOREM AcknowledgedWritesKept == Spec => AcknowledgedWritesCommitted
<1> DEFINE Kept(t) ==
        /\ acked[t].ins \ acked[t].del \subseteq store'.quads
        /\ ((acked[t].del \ acked[t].ins) \ hidden) \cap store'.quads = {}
        /\ \A c \in Clients : req[c].pc = "commit" /\ req[c].id = t =>
              Changed(TxView(req[c].tx), store'.quads) =
                  (req[c].tx.pending_inserts \cap req[c].tx.pending_deletes) \ store.quads
<1>1. TxInv /\ [Next]_vars => [\A t \in Tx : Commits(t) => Kept(t)]_vars
  <2> SUFFICES ASSUME TxInv, [Next]_vars, NEW t \in Tx, Commits(t)
               PROVE  Kept(t)
    OBVIOUS
  <2>1. PICK c \in Clients : CommitApply(c) /\ req[c].id = t
    BY TxNext
  <2> DEFINE tx == req[c].tx
  <2>2. /\ Sits(t, tx)
        /\ store'.quads = (store.quads \ CommitDeletes(tx)) \cup CommitInserts(tx)
        /\ store.generation = began[t]
    BY <2>1, CommitApplyKeeps DEF Commits
  <2>3. /\ tx.pending_inserts = acked[t].ins
        /\ tx.pending_deletes \subseteq acked[t].del
        /\ acked[t].del \cap store.quads \subseteq tx.pending_deletes \cup hidden
    BY <2>2 DEF Sits
  <2>4. \A d \in Clients : req[d].pc = "commit" /\ req[d].id = t => d = c
    BY <2>1 DEF TxInv, Once, CommitApply
  <2> HIDE DEF tx
  <2>5. /\ acked[t].ins \ acked[t].del \subseteq store'.quads
        /\ ((acked[t].del \ acked[t].ins) \ hidden) \cap store'.quads = {}
    BY <2>2, <2>3 DEF CommitDeletes, CommitInserts
  <2>6. Changed(TxView(tx), store'.quads) =
           (tx.pending_inserts \cap tx.pending_deletes) \ store.quads
    BY <2>2 DEF CommitDeletes, CommitInserts, TxView, Changed
  <2>7. QED
    BY <2>4, <2>5, <2>6 DEF tx
<1>2. QED
  BY <1>1, TransactionsInvariant, PTL DEF Spec, AcknowledgedWritesCommitted
=============================================================================
