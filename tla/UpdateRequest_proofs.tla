------------------------ MODULE UpdateRequest_proofs ------------------------
(* Theorems about one SPARQL Update request, for any quads, any operations   *)
(* and requests of any length: what was collected and what CLEAR and LOAD    *)
(* did at once together stand for the operations taking effect in order, and *)
(* the log says the same.                                                    *)
EXTENDS UpdateRequest, SparqlUpdate_proofs

-----------------------------------------------------------------------------
(* The inductive invariant                                                   *)

Types ==
    /\ TypeOK
    /\ clash = touched.added \cap touched.removed
    /\ \E X : log \in Seq(X)

\* The collected quads are among those the operations touch, as long as the
\* WHERE clauses see what they would see in order.
Touched ==
    clash = {} \/ logged = TRUE =>
        u.pending_inserts \subseteq touched.added /\ u.pending_deletes \subseteq touched.removed

InOrder == clash = {} => View(u) = sequential

EagerOnly == u.store.quads \ eager = initial.quads \ eager

\* Without LOAD, the live store only shrinks until the end.
OnlyCleared == logged = TRUE => u.store.quads \subseteq initial.quads

\* The entries so far, replayed, against what was collected so far.
LogAgrees ==
    logged = TRUE => \A q \in Faithful(Quads) \ clash :
        q \in Replay(initial.quads, log) <=> q \in View(u)

RequestInv ==
    /\ Types
    /\ phase = "open" => Touched /\ InOrder /\ EagerOnly /\ OnlyCleared /\ LogAgrees
    /\ RequestOutcome
    /\ LogReplaysToResult

-----------------------------------------------------------------------------
(* The operations                                                            *)

LEMMA ViewOf ==
    ASSUME NEW v
    PROVE  View(v) = (v.store.quads \cup v.pending_inserts) \ v.pending_deletes
BY DEF View

\* What an operation does, before the parts that are kept by all of them.
Effect(op) ==
    LET I == u.pending_inserts
        D == u.pending_deletes
        S == u.store.quads
    IN  \/ /\ op.kind = "InsertData"
           /\ op.quads \subseteq Quads
           /\ Added(op, sequential) = op.quads
           /\ Removed(op, sequential) = {}
           /\ u'.store.quads = S
           /\ u'.pending_inserts = I \cup op.quads
           /\ u'.pending_deletes = D
        \/ /\ op.kind = "DeleteData"
           /\ op.quads \subseteq Quads
           /\ Added(op, sequential) = {}
           /\ Removed(op, sequential) = op.quads
           /\ u'.store.quads = S
           /\ u'.pending_inserts = I
           /\ u'.pending_deletes = D \cup (op.quads \cap (S \cup I))
        \/ /\ op.kind = "PatternUpdate"
           /\ Added(op, sequential) = Instances(op.insert, op.where \cap sequential)
           /\ Removed(op, sequential) = Instances(op.delete, op.where \cap sequential)
           /\ u'.store.quads = S
           /\ u'.pending_inserts = I \cup Instances(op.insert, op.where \cap View(u))
           /\ u'.pending_deletes = D \cup Instances(op.delete, op.where \cap View(u))
        \/ /\ op.kind = "Clear"
           /\ Added(op, sequential) = {}
           /\ u'.store.quads = S \ Removed(op, sequential)
           /\ u'.pending_inserts = I
           /\ u'.pending_deletes = D
        \/ /\ op.kind = "LoadGraph"
           /\ Added(op, sequential) \subseteq Quads
           /\ Removed(op, sequential) = {}
           /\ u'.store.quads = S \cup Added(op, sequential)
           /\ u'.pending_inserts = I
           /\ u'.pending_deletes = D
        \/ /\ op.kind \notin {"InsertData", "DeleteData", "PatternUpdate", "Clear", "LoadGraph"}
           /\ Added(op, sequential) = {}
           /\ Removed(op, sequential) = {}
           /\ u' = u

\* The quads that a CLEAR or DROP takes away, in any store.
LEMMA ClearedQuads ==
    ASSUME NEW op, op.kind = "Clear", NEW st, st.quads \subseteq Quads, NEW S
    PROVE  RemoveGraphs(st, ClearTargets(op, st)).quads = st.quads \ Removed(op, S)
<1>1. \A q \in st.quads : q.graph \in GraphsOf(st)
  BY DEF GraphsOf
<1>2. \A q \in st.quads : q.graph \in ClearTargets(op, st) <=> q \in Removed(op, S)
  BY <1>1 DEF Removed, ClearTargets, NamedGraphs
<1>3. RemoveGraphs(st, ClearTargets(op, st)).quads =
          {q \in st.quads : q.graph \notin ClearTargets(op, st)}
  BY DEF RemoveGraphs
<1>4. QED
  BY <1>2, <1>3

LEMMA OperationEffect ==
    ASSUME TypeOK, NEW op \in Ops, Operate(op)
    PROVE  Effect(op) /\ u' \in Progressing(Quads, 0)
<1>1. WellFormed(op, Quads) /\ IsFiniteSet(Quads)
  BY RequestAssumption
<1>2. u \in Progressing(Quads, 0)
  BY DEF TypeOK, Progressing, From, Store
<1>3. u' = ApplyOp(u, op) /\ u.failed = FALSE
  BY DEF Operate, TypeOK
<1>4. u' \in Progressing(Quads, 0)
  BY <1>1, <1>2, <1>3, ApplyOpType
<1>5. /\ DOMAIN u = {"store", "pending_inserts", "pending_deletes", "failed"}
      /\ DOMAIN u.store = {"quads", "generation"} /\ u.store.quads \subseteq Quads
  BY DEF TypeOK
<1>6. CASE op.kind = "InsertData"
  <2>1. u' = [u EXCEPT !.pending_inserts = @ \cup op.quads]
    BY <1>3, <1>6 DEF ApplyOp, ApplyInsertData
  <2>2. op.quads \subseteq Quads
    BY <1>1, <1>6 DEF WellFormed
  <2>3. Added(op, sequential) = op.quads /\ Removed(op, sequential) = {}
    BY <1>6 DEF Added, Removed
  <2>4. QED
    BY <1>4, <1>5, <1>6, <2>1, <2>2, <2>3 DEF Effect
<1>7. CASE op.kind = "DeleteData"
  <2>1. u' = [u EXCEPT !.pending_deletes =
                  @ \cup (op.quads \cap (u.store.quads \cup u.pending_inserts))]
    BY <1>3, <1>7 DEF ApplyOp, ApplyDeleteData
  <2>2. op.quads \subseteq Quads
    BY <1>1, <1>7 DEF WellFormed
  <2>3. Added(op, sequential) = {} /\ Removed(op, sequential) = op.quads
    BY <1>7 DEF Added, Removed
  <2>4. QED
    BY <1>4, <1>5, <1>7, <2>1, <2>2, <2>3 DEF Effect
<1>8. CASE op.kind = "PatternUpdate"
  <2> DEFINE rows == op.where \cap View(u)
  <2>1. u' = [u EXCEPT !.pending_deletes = @ \cup Instances(op.delete, rows),
                       !.pending_inserts = @ \cup Instances(op.insert, rows)]
    BY <1>3, <1>8 DEF ApplyOp, ApplyPatternUpdate
  <2>2. /\ Added(op, sequential) = Instances(op.insert, op.where \cap sequential)
        /\ Removed(op, sequential) = Instances(op.delete, op.where \cap sequential)
    BY <1>8 DEF Added, Removed
  <2>3. QED
    BY <1>4, <1>5, <1>8, <2>1, <2>2 DEF Effect
<1>9. CASE op.kind = "Clear"
  <2>1. u' = [u EXCEPT !.store = RemoveGraphs(@, ClearTargets(op, u.store))]
    BY <1>3, <1>9 DEF ApplyOp, ApplyClear
  <2>2. u'.store.quads = u.store.quads \ Removed(op, sequential)
    BY <1>5, <1>9, <2>1, ClearedQuads
  <2>3. Added(op, sequential) = {}
    BY <1>9 DEF Added
  <2>4. QED
    BY <1>4, <1>5, <1>9, <2>1, <2>2, <2>3 DEF Effect
<1>10. CASE op.kind = "LoadGraph"
  <2>1. op.quads \subseteq Quads /\ op.fetched \in BOOLEAN
    BY <1>1, <1>10 DEF WellFormed
  <2>2. u' = IF op.fetched THEN [u EXCEPT !.store = AddQuads(@, op.quads)]
             ELSE [u EXCEPT !.failed = ~op.silent]
    BY <1>3, <1>10 DEF ApplyOp, ApplyLoad
  <2>3. Removed(op, sequential) = {}
    BY <1>10 DEF Removed
  <2>4. CASE op.fetched
    <3>1. Added(op, sequential) = op.quads
      BY <1>10, <2>4 DEF Added
    <3>2. AddQuads(u.store, op.quads).quads = u.store.quads \cup op.quads
      BY DEF AddQuads
    <3>3. QED
      BY <1>4, <1>5, <1>10, <2>1, <2>2, <2>3, <2>4, <3>1, <3>2 DEF Effect
  <2>5. CASE ~op.fetched
    <3>1. Added(op, sequential) = {}
      BY <1>10, <2>5 DEF Added
    <3>2. QED
      BY <1>4, <1>5, <1>10, <2>2, <2>3, <2>5, <3>1 DEF Effect
  <2>6. QED
    BY <2>4, <2>5
<1>11. CASE op.kind \notin {"InsertData", "DeleteData", "PatternUpdate", "Clear", "LoadGraph"}
  <2>1. u' = u
    BY <1>3, <1>11 DEF ApplyOp
  <2>2. Added(op, sequential) = {} /\ Removed(op, sequential) = {}
    BY <1>11 DEF Added, Removed
  <2>3. QED
    BY <1>4, <1>11, <2>1, <2>2 DEF Effect
<1>12. QED
  BY <1>6, <1>7, <1>8, <1>9, <1>10, <1>11

-----------------------------------------------------------------------------
(* Every operation keeps the invariant                                       *)

\* An operation touches quads of the instance only.
LEMMA TouchedQuads ==
    ASSUME NEW op \in Ops, Effect(op)
    PROVE  Added(op, sequential) \subseteq Quads /\ Removed(op, sequential) \subseteq Quads
<1>1. CASE op.kind = "PatternUpdate"
  <2>1. \A r \in op.where : op.delete[r] \subseteq Quads /\ op.insert[r] \subseteq Quads
    BY <1>1, RequestAssumption DEF WellFormed
  <2>2. /\ Instances(op.insert, op.where \cap sequential) \subseteq Quads
        /\ Instances(op.delete, op.where \cap sequential) \subseteq Quads
    BY <2>1 DEF Instances
  <2>3. QED
    BY <1>1, <2>2 DEF Added, Removed
<1>2. CASE op.kind = "Clear"
  <2>1. Removed(op, sequential) \subseteq Quads
    BY <1>2 DEF Removed
  <2>2. QED
    BY <1>2, <2>1 DEF Effect
<1>3. CASE op.kind \notin {"PatternUpdate", "Clear"}
  BY <1>3 DEF Effect
<1>4. QED
  BY <1>1, <1>2, <1>3

\* The graphs whose clearing is logged are those that lose quads.
LEMMA ClearedIsLogged ==
    ASSUME NEW op, op.kind = "Clear", NEW q \in Quads
    PROVE  /\ q \in Removed(op, sequential) /\ q \in initial.quads
                => q.graph \in LoggedGraphs(op, initial)
           /\ q \notin Removed(op, sequential) => q.graph \notin LoggedGraphs(op, initial)
<1>1. q \in initial.quads => q.graph \in GraphsOf(initial)
  BY DEF GraphsOf
<1>2. q \in Removed(op, sequential) <=>
          CASE op.target = "all"     -> TRUE
            [] op.target = "default" -> q.graph = Default
            [] op.target = "named"   -> q.graph # Default
            [] OTHER                 -> q.graph = op.target
  BY DEF Removed
<1>3. CASE op.target \in {"all", "default", "named"}
  BY <1>1, <1>2, <1>3 DEF LoggedGraphs, NamedGraphs
<1>4. CASE op.target \notin {"all", "default", "named"}
  BY <1>1, <1>2, <1>4 DEF LoggedGraphs, NamedGraphs
<1>5. QED
  BY <1>3, <1>4

\* A quad that reads back as itself is among what quads read back as exactly
\* when it is among the quads.
LEMMA FaithfulReprs ==
    ASSUME NEW R, R \subseteq Quads, NEW q \in Faithful(Quads)
    PROVE  q \in Reprs(R) <=> q \in R
BY DEF Faithful, Reprs

LEMMA OperateKeeps ==
    ASSUME RequestInv, NEW op \in Ops, Operate(op)
    PROVE  RequestInv'
<1> DEFINE I == u.pending_inserts
           D == u.pending_deletes
           S == u.store.quads
           A == touched.added
           R == touched.removed
           add == Added(op, sequential)
           rem == Removed(op, sequential)
<1>1. /\ TypeOK /\ clash = A \cap R
      /\ phase = "open" /\ Touched /\ InOrder /\ EagerOnly /\ OnlyCleared /\ LogAgrees
  BY DEF RequestInv, Types, Operate
<1>2. Effect(op) /\ u' \in Progressing(Quads, 0)
  BY <1>1, OperationEffect
<1>3. /\ touched' = [added |-> A \cup add, removed |-> R \cup rem]
      /\ clash' = (A \cup add) \cap (R \cup rem)
      /\ operations < MaxOps /\ operations' = operations + 1
      /\ log' = log \o prepare_op(MainDataset, op, initial)
      /\ sequential' = (sequential \ rem) \cup add
      /\ eager' = IF op.kind \in {"Clear", "LoadGraph"} THEN eager \cup rem \cup add ELSE eager
      /\ logged' = (logged /\ op.kind \notin {"PatternUpdate", "LoadGraph"})
      /\ initial' = initial /\ phase' = phase
  BY DEF Operate
<1>4. touched'.added = A \cup add /\ touched'.removed = R \cup rem
  BY <1>3
<1>5. add \subseteq Quads /\ rem \subseteq Quads
  BY <1>2, TouchedQuads
<1>6. clash \subseteq clash'
  BY <1>1, <1>3
<1>7. logged' = TRUE => /\ logged = TRUE
                        /\ op.kind \notin {"PatternUpdate", "LoadGraph"}
  BY <1>3
<1>8. /\ View(u) = (S \cup I) \ D
      /\ View(u)' = (u'.store.quads \cup u'.pending_inserts) \ u'.pending_deletes
  BY DEF View
<1>9. /\ clash = {} => I \subseteq A /\ D \subseteq R /\ View(u) = sequential
      /\ logged = TRUE => I \subseteq A /\ D \subseteq R /\ S \subseteq initial.quads
  BY <1>1 DEF Touched, InOrder, OnlyCleared
<1>10. Types'
  <2>1. TypeOK'
    <3>1. /\ u' \in [store : [quads : SUBSET Quads, generation : Nat],
                     pending_inserts : SUBSET Quads, pending_deletes : SUBSET Quads,
                     failed : BOOLEAN]
      BY <1>2 DEF Progressing, From, Store
    <3>2. touched' \in [added : SUBSET Quads, removed : SUBSET Quads]
      BY <1>1, <1>3, <1>5 DEF TypeOK
    <3>3. sequential' \subseteq Quads
      BY <1>1, <1>3, <1>5 DEF TypeOK
    <3>4. logged' \in BOOLEAN
      BY <1>3
    <3>5. operations' \in 0..MaxOps
      BY <1>1, <1>3, RequestAssumption DEF TypeOK
    <3>6. /\ initial' \in [quads : SUBSET Quads, generation : Nat]
          /\ phase' \in {"open", "applied", "failed"}
      BY <1>1, <1>3 DEF TypeOK
    <3>7. QED
      BY <3>1, <3>2, <3>3, <3>4, <3>5, <3>6 DEF TypeOK
  <2>2. clash' = touched'.added \cap touched'.removed
    BY <1>3, <1>4
  <2>3. \E X : log' \in Seq(X)
    <3>1. PICK X : log \in Seq(X)
      BY DEF RequestInv, Types
    <3>2. PICK Y : prepare_op(MainDataset, op, initial) \in Seq(Y)
      BY <1>1, <1>2, RequestAssumption, SubsetFinite, PreparedEffect DEF Effect, TypeOK
    <3>3. log \in Seq(X \cup Y) /\ prepare_op(MainDataset, op, initial) \in Seq(X \cup Y)
      BY <3>1, <3>2
    <3>4. QED
      BY <1>3, <3>3
  <2>4. QED
    BY <2>1, <2>2, <2>3 DEF Types
<1>11. Touched'
  <2>1. ASSUME clash' = {} \/ logged' = TRUE
        PROVE  u'.pending_inserts \subseteq A \cup add /\ u'.pending_deletes \subseteq R \cup rem
    <3>1. clash = {} \/ logged = TRUE
      BY <1>6, <1>7, <2>1
    <3>2. I \subseteq A /\ D \subseteq R
      BY <1>9, <3>1
    <3>3. CASE op.kind = "PatternUpdate"
      <4>1. View(u) = sequential
        BY <1>6, <1>7, <1>9, <2>1, <3>3
      <4>2. QED
        BY <1>2, <3>2, <3>3, <4>1 DEF Effect
    <3>4. CASE op.kind # "PatternUpdate"
      BY <1>2, <3>2, <3>4 DEF Effect
    <3>5. QED
      BY <3>3, <3>4
  <2>2. QED
    BY <1>4, <2>1 DEF Touched
<1>12. InOrder'
  <2>1. ASSUME clash' = {}
        PROVE  View(u)' = (sequential \ rem) \cup add
    <3>1. /\ I \subseteq A /\ D \subseteq R /\ View(u) = sequential
          /\ (A \cup add) \cap (R \cup rem) = {}
      BY <1>3, <1>6, <1>9, <2>1
    <3> HIDE DEF I, D, S, A, R, add, rem
    <3>2. CASE op.kind = "InsertData"
      BY <1>2, <1>8, <3>1, <3>2 DEF Effect, I, D, S, add, rem
    <3>3. CASE op.kind = "DeleteData"
      BY <1>2, <1>8, <3>1, <3>3 DEF Effect, I, D, S, add, rem
    <3>4. CASE op.kind = "PatternUpdate"
      <4>1. View(u)' = (S \cup I \cup add) \ (D \cup rem)
        BY <1>2, <1>8, <3>1, <3>4 DEF Effect, I, D, S, add, rem
      <4>2. QED
        BY <1>8, <3>1, <4>1
    <3>5. CASE op.kind = "Clear"
      <4>1. View(u)' = ((S \ rem) \cup I) \ D /\ add = {}
        BY <1>2, <1>8, <3>5 DEF Effect, I, D, S, add, rem
      <4>2. QED
        BY <1>8, <3>1, <4>1 DEF I, D, S
    <3>6. CASE op.kind = "LoadGraph"
      <4>1. View(u)' = (S \cup add \cup I) \ D /\ rem = {}
        BY <1>2, <1>8, <3>6 DEF Effect, I, D, S, add, rem
      <4>2. QED
        BY <1>8, <3>1, <4>1 DEF I, D, S
    <3>7. CASE op.kind \notin {"InsertData", "DeleteData", "PatternUpdate", "Clear", "LoadGraph"}
      BY <1>2, <1>8, <3>1, <3>7 DEF Effect, add, rem
    <3>8. QED
      BY <3>2, <3>3, <3>4, <3>5, <3>6, <3>7
  <2>2. QED
    BY <1>3, <2>1 DEF InOrder
<1>13. EagerOnly'
  <2>1. CASE op.kind \in {"Clear", "LoadGraph"}
    <3>1. eager' = eager \cup rem \cup add
      BY <1>3, <2>1
    <3>2. u'.store.quads = S \ rem \/ u'.store.quads = S \cup add
      BY <1>2, <2>1 DEF Effect
    <3>3. QED
      BY <1>1, <1>3, <3>1, <3>2 DEF EagerOnly
  <2>2. CASE op.kind \notin {"Clear", "LoadGraph"}
    <3>1. eager' = eager /\ u'.store.quads = S
      BY <1>2, <1>3, <2>2 DEF Effect
    <3>2. QED
      BY <1>1, <1>3, <3>1 DEF EagerOnly
  <2>3. QED
    BY <2>1, <2>2
<1>14. OnlyCleared'
  <2>1. ASSUME logged' = TRUE
        PROVE  u'.store.quads \subseteq S
    BY <1>2, <1>7, <2>1 DEF Effect
  <2>2. QED
    BY <1>3, <1>7, <1>9, <2>1 DEF OnlyCleared
<1>15. LogAgrees'
  <2> SUFFICES ASSUME logged' = TRUE, NEW q \in Faithful(Quads) \ clash'
               PROVE  q \in Replay(initial.quads, log') <=> q \in View(u)'
    BY <1>3 DEF LogAgrees, Faithful
  <2> DEFINE es == prepare_op(MainDataset, op, initial)
             T == Replay(initial.quads, log)
  <2>1. /\ q \in T <=> q \in View(u)
        /\ I \subseteq A /\ D \subseteq R /\ S \subseteq initial.quads
        /\ op.kind \notin {"PatternUpdate", "LoadGraph"}
    BY <1>1, <1>6, <1>7, <1>9 DEF LogAgrees
  <2>2. ~(q \in A \cup add /\ q \in R \cup rem) /\ q \in Quads
    BY <1>3 DEF Faithful
  <2>3. /\ IsFiniteSet(initial.quads)
        /\ op.kind \in {"InsertData", "DeleteData"} => IsFiniteSet(op.quads)
    BY <1>1, <1>2, RequestAssumption, SubsetFinite DEF Effect, TypeOK
  <2>4. Replay(initial.quads, log') = Replay(T, es)
    <3>1. PICK X : log \in Seq(X)
      BY DEF RequestInv, Types
    <3>2. PICK Y : es \in Seq(Y)
      BY <2>3, PreparedEffect
    <3> HIDE DEF es
    <3>3. Replay(initial.quads, log \o es) = Replay(T, es)
      BY <3>1, <3>2, ReplayConcat
    <3>4. QED
      BY <1>3, <3>3 DEF es
  <2> HIDE DEF T, es, I, D, S, A, R, add, rem
  <2>5. CASE op.kind = "InsertData"
    <3>1. /\ op.quads \subseteq Quads /\ add = op.quads
          /\ View(u)' = (S \cup I \cup op.quads) \ D
      BY <1>2, <1>8, <2>5 DEF Effect, I, D, S, add
    <3>2. Replay(T, es) = T \cup Reprs(op.quads)
      BY <2>3, <2>5, PreparedEffect DEF es
    <3>3. q \in Reprs(op.quads) <=> q \in op.quads
      BY <3>1, FaithfulReprs
    <3>4. QED
      BY <1>8, <2>1, <2>2, <2>4, <3>1, <3>2, <3>3 DEF I, D, S
  <2>6. CASE op.kind = "DeleteData"
    <3>1. /\ op.quads \subseteq Quads
          /\ View(u)' = (S \cup I) \ (D \cup (op.quads \cap (S \cup I)))
      BY <1>2, <1>8, <2>6 DEF Effect, I, D, S
    <3>2. Replay(T, es) = T \ Reprs(op.quads)
      BY <2>3, <2>6, PreparedEffect DEF es
    <3>3. q \in Reprs(op.quads) <=> q \in op.quads
      BY <3>1, FaithfulReprs
    <3>4. QED
      BY <1>8, <2>1, <2>4, <3>1, <3>2, <3>3 DEF I, D, S
  <2>7. CASE op.kind = "Clear"
    <3>1. View(u)' = ((S \ rem) \cup I) \ D
      BY <1>2, <1>8, <2>7 DEF Effect, I, D, S, rem
    <3>2. Replay(T, es) = {p \in T : p.graph \notin LoggedGraphs(op, initial)}
      BY <2>3, <2>7, PreparedEffect DEF es
    <3>3. /\ q \in rem /\ q \in initial.quads => q.graph \in LoggedGraphs(op, initial)
          /\ q \notin rem => q.graph \notin LoggedGraphs(op, initial)
      BY <2>2, <2>7, ClearedIsLogged DEF rem
    <3>4. View(u) = (S \cup I) \ D
      BY <1>8 DEF S, I, D
    <3>5. CASE q \in rem
      <4>1. q \notin I
        BY <2>1, <2>2, <3>5
      <4>2. q \notin View(u)'
        BY <3>1, <3>5, <4>1
      <4>3. q \in T => q \in initial.quads
        BY <2>1, <3>4, <4>1
      <4>4. QED
        BY <2>4, <3>2, <3>3, <3>5, <4>2, <4>3
    <3>6. CASE q \notin rem
      BY <2>1, <2>4, <3>1, <3>2, <3>3, <3>4, <3>6
    <3>7. QED
      BY <3>5, <3>6
  <2>8. CASE op.kind \notin {"InsertData", "DeleteData", "Clear"}
    <3>1. u' = u
      BY <1>2, <2>1, <2>8 DEF Effect
    <3>2. Replay(T, es) = T
      BY <2>3, <2>8, PreparedEffect DEF es
    <3>3. QED
      BY <1>8, <2>1, <2>4, <3>1, <3>2 DEF I, D, S
  <2>9. QED
    BY <2>5, <2>6, <2>7, <2>8
<1>16. phase' = "open"
  BY <1>1, <1>3
<1>17. RequestOutcome' /\ LogReplaysToResult'
  BY <1>16 DEF RequestOutcome, SequentialUnlessClash, FailureDropsCollected, LogReplaysToResult
<1>18. QED
  BY <1>10, <1>11, <1>12, <1>13, <1>14, <1>15, <1>17 DEF RequestInv

-----------------------------------------------------------------------------
(* The end of the request                                                    *)

\* The net delta of a request that did not fail is what it collected.
LEMMA FinishIsView ==
    ASSUME ~u.failed
    PROVE  Finish(u).quads = View(u)
<1> DEFINE st == RemoveQuads(u.store, NetDeletes(u))
<1>1. st.quads = u.store.quads \ (u.pending_deletes \cap u.store.quads)
  BY DEF RemoveQuads, NetDeletes
<1>2. Finish(u).quads = st.quads \cup (u.pending_inserts \ u.pending_deletes)
  <2>1. Finish(u) = AddQuads(st, NetInserts(u))
    BY DEF Finish
  <2> HIDE DEF st
  <2>2. QED
    BY <2>1 DEF AddQuads, NetInserts
<1> HIDE DEF st
<1>3. QED
  BY <1>1, <1>2 DEF View

LEMMA FinishType ==
    ASSUME TypeOK
    PROVE  Finish(u) \in [quads : SUBSET Quads, generation : Nat]
<1>1. /\ u.store \in From(Quads, 0)
      /\ NetDeletes(u) \subseteq Quads /\ NetInserts(u) \subseteq Quads
  BY DEF TypeOK, From, Store, NetDeletes, NetInserts
<1>2. RemoveQuads(u.store, NetDeletes(u)) \in From(Quads, 0)
  BY <1>1, RequestAssumption, AddStore
<1>3. AddQuads(RemoveQuads(u.store, NetDeletes(u)), NetInserts(u)) \in From(Quads, 0)
  BY <1>1, <1>2, RequestAssumption, AddStore
<1>4. Finish(u) \in From(Quads, 0)
  BY <1>1, <1>3 DEF Finish
<1>5. QED
  BY <1>4 DEF From, Store

LEMMA ApplyKeeps ==
    ASSUME RequestInv, Apply
    PROVE  RequestInv'
<1>1. /\ TypeOK /\ Types
      /\ phase = "open" /\ InOrder /\ EagerOnly /\ LogAgrees
  BY DEF RequestInv, Types, Apply
<1>2. /\ u' = [u EXCEPT !.store = Finish(u)]
      /\ phase' = IF u.failed THEN "failed" ELSE "applied"
      /\ initial' = initial /\ log' = log /\ sequential' = sequential /\ clash' = clash
      /\ touched' = touched /\ eager' = eager /\ logged' = logged
      /\ operations' = operations
  BY DEF Apply
<1>3. Types'
  <2>1. u' \in [store : [quads : SUBSET Quads, generation : Nat],
                pending_inserts : SUBSET Quads, pending_deletes : SUBSET Quads,
                failed : BOOLEAN]
    BY <1>1, <1>2, FinishType DEF TypeOK
  <2>2. TypeOK'
    BY <1>1, <1>2, <2>1 DEF TypeOK
  <2>3. QED
    BY <1>1, <1>2, <2>2 DEF Types
<1>4. phase' # "open"
  BY <1>2
<1>5. u'.store = Finish(u)
  BY <1>1, <1>2 DEF TypeOK
<1>6. CASE u.failed
  <2>1. phase' = "failed" /\ u'.store = u.store
    BY <1>2, <1>5, <1>6 DEF Finish
  <2>2. FailureDropsCollected' /\ SequentialUnlessClash'
    BY <1>1, <1>2, <2>1 DEF EagerOnly, FailureDropsCollected, SequentialUnlessClash
  <2>3. LogReplaysToResult'
    BY <2>1 DEF LogReplaysToResult
  <2>4. QED
    BY <1>3, <1>4, <2>2, <2>3 DEF RequestInv, RequestOutcome
<1>7. CASE ~u.failed
  <2>1. phase' = "applied" /\ u'.store.quads = View(u)
    BY <1>2, <1>5, <1>7, FinishIsView
  <2>2. FailureDropsCollected' /\ SequentialUnlessClash'
    BY <1>1, <1>2, <2>1 DEF InOrder, FailureDropsCollected, SequentialUnlessClash
  <2>3. LogReplaysToResult'
    <3>1. logged = TRUE => \A q \in Faithful(Quads) \ clash :
              q \in FoldLeft(apply_entry, initial.quads, log) <=> q \in u'.store.quads
      BY <1>1, <2>1 DEF LogAgrees, Replay
    <3>2. QED
      BY <1>2, <3>1 DEF LogReplaysToResult, Faithful
  <2>4. QED
    BY <1>3, <1>4, <2>2, <2>3 DEF RequestInv, RequestOutcome
<1>8. QED
  BY <1>6, <1>7

-----------------------------------------------------------------------------
(* The theorems                                                              *)

LEMMA RequestInvInit ==
    ASSUME Init
    PROVE  RequestInv
<1>1. /\ initial \in [quads : SUBSET Quads, generation : Nat]
      /\ u = [store |-> initial, pending_inserts |-> {}, pending_deletes |-> {},
              failed |-> FALSE]
      /\ log = << >> /\ sequential = initial.quads /\ clash = {}
      /\ touched = [added |-> {}, removed |-> {}]
      /\ eager = {} /\ logged = TRUE /\ operations = 0 /\ phase = "open"
  BY DEF Init, Start
<1>2. TypeOK
  <2>1. initial.quads \subseteq Quads /\ 0 \in 0..MaxOps
    BY <1>1, RequestAssumption
  <2>2. QED
    BY <1>1, <2>1 DEF TypeOK
<1>3. Types
  <2>1. log \in Seq({})
    BY <1>1
  <2>2. clash = touched.added \cap touched.removed
    BY <1>1
  <2>3. QED
    BY <1>2, <2>1, <2>2 DEF Types
<1>4. View(u) = initial.quads
  BY <1>1 DEF View
<1>5. Touched /\ InOrder /\ EagerOnly /\ OnlyCleared
  BY <1>1, <1>4 DEF Touched, InOrder, EagerOnly, OnlyCleared
<1>6. LogAgrees
  BY <1>1, <1>4, ReplayNothing DEF LogAgrees
<1>7. RequestOutcome /\ LogReplaysToResult
  BY <1>1 DEF RequestOutcome, SequentialUnlessClash, FailureDropsCollected, LogReplaysToResult
<1>8. QED
  BY <1>3, <1>5, <1>6, <1>7 DEF RequestInv

\* For requests of any length over any quads: what was collected stands, with
\* what CLEAR and LOAD did, for the operations in order, as long as no quad is
\* both added and taken away, and the log for what was collected.
THEOREM RequestInvariant == Spec => []RequestInv
<1>1. Init => RequestInv
  BY RequestInvInit
<1>2. RequestInv /\ [Next]_vars => RequestInv'
  <2> SUFFICES ASSUME RequestInv, [Next]_vars
               PROVE  RequestInv'
    OBVIOUS
  <2>1. CASE Apply
    BY <2>1, ApplyKeeps
  <2>2. ASSUME NEW op \in Ops, Operate(op)
        PROVE  RequestInv'
    BY <2>2, OperateKeeps
  <2>3. CASE UNCHANGED vars
    BY <2>3 DEF vars, RequestInv, Types, TypeOK, Touched, InOrder, EagerOnly, OnlyCleared,
                LogAgrees, View, Faithful, RequestOutcome, SequentialUnlessClash,
                FailureDropsCollected, LogReplaysToResult
  <2>4. QED
    BY <2>1, <2>2, <2>3 DEF Next
<1>3. QED
  BY <1>1, <1>2, PTL DEF Spec

\* The state of a request keeps its shape: what is collected are quads, the
\* store stays a store.
THEOREM TypeCorrect == Spec => []TypeOK
<1>1. RequestInv => TypeOK
  BY DEF RequestInv, Types
<1>2. QED
  BY <1>1, RequestInvariant, PTL

\* apply_prepared_update, which defers inserts and deletes and applies CLEAR
\* and LOAD at once, ends with what SPARQL Update prescribes when the request
\* does not both add and take away a quad; and when it fails, nothing that was
\* collected reaches the store.
THEOREM RequestsTakeEffectInOrder == Spec => []RequestOutcome
<1>1. RequestInv => RequestOutcome
  BY DEF RequestInv
<1>2. QED
  BY <1>1, RequestInvariant, PTL

\* prepare_update logs every operation from the store as it was before the
\* request; replaying the log still gives what the request made of the store,
\* for every quad that its portable form can hold and that the request does
\* not both add and take away.
THEOREM LogSaysTheSame == Spec => []LogReplaysToResult
<1>1. RequestInv => LogReplaysToResult
  BY DEF RequestInv
<1>2. QED
  BY <1>1, RequestInvariant, PTL
=============================================================================
