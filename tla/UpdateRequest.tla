--------------------------- MODULE UpdateRequest ---------------------------
(* One SPARQL Update request, operation by operation, beside what SPARQL    *)
(* 1.1 Update prescribes: the operations take effect one after the other.   *)
(* Each step chooses the request's next operation, so the behaviours cover  *)
(* every request of at most MaxOps operations on every initial store.       *)
EXTENDS SparqlUpdate

CONSTANTS Quads,      \* the quads a store may hold
          Ops,        \* the operations a request may consist of
          MaxOps      \* bound on the operations of a request

ASSUME RequestAssumption ==
    /\ IsFiniteSet(Quads)
    /\ \A op \in Ops : WellFormed(op, Quads)
    /\ MaxOps \in Nat

VARIABLES initial,    \* the store when the request arrived
          u,          \* the request in progress, as the code holds it
          log,        \* the changelog entries prepared for it
          sequential, \* the quads if each operation had taken effect at once
          clash,      \* the quads the request both adds and takes away
          touched,    \* [added, removed]: quads the request did either to
          eager,      \* quads whose presence an operation changed at once
          logged,     \* every operation so far is one that is logged
          operations, \* the number of operations so far
          phase       \* "open", "applied" or "failed"

vars == <<initial, u, log, sequential, clash, touched, eager, logged, operations, phase>>

-----------------------------------------------------------------------------
(* The reference: one operation, applied to a set of quads at once.         *)

Added(op, S) ==
    CASE op.kind = "InsertData"    -> op.quads
      [] op.kind = "PatternUpdate" -> Instances(op.insert, op.where \cap S)
      [] op.kind = "LoadGraph" /\ op.fetched -> op.quads
      [] OTHER -> {}

Removed(op, S) ==
    CASE op.kind = "DeleteData"    -> op.quads
      [] op.kind = "PatternUpdate" -> Instances(op.delete, op.where \cap S)
      [] op.kind = "Clear" ->
           {q \in Quads : CASE op.target = "all"     -> TRUE
                            [] op.target = "default" -> q.graph = Default
                            [] op.target = "named"   -> q.graph # Default
                            [] OTHER                 -> q.graph = op.target}
      [] OTHER -> {}

-----------------------------------------------------------------------------

Init ==
    /\ initial \in [quads : SUBSET Quads, generation : {0}]
    /\ u = Start(initial)
    /\ log = << >>
    /\ sequential = initial.quads
    /\ clash = {}
    /\ touched = [added |-> {}, removed |-> {}]
    /\ eager = {}
    /\ logged = TRUE
    /\ operations = 0
    /\ phase = "open"

\* The next operation of the request.  prepare_update has logged it, from the
\* initial store, before the first operation was applied.
Operate(op) ==
    /\ phase = "open"
    /\ ~u.failed
    /\ operations < MaxOps
    /\ operations' = operations + 1
    /\ LET add == touched.added \cup Added(op, sequential)
           rem == touched.removed \cup Removed(op, sequential)
       IN  /\ touched' = [added |-> add, removed |-> rem]
           /\ clash' = add \cap rem
    /\ u' = ApplyOp(u, op)
    /\ log' = log \o prepare_op(MainDataset, op, initial)
    /\ sequential' = (sequential \ Removed(op, sequential)) \cup Added(op, sequential)
    /\ eager' = IF op.kind \in {"Clear", "LoadGraph"}
                THEN eager \cup Removed(op, sequential) \cup Added(op, sequential)
                ELSE eager
    /\ logged' = (logged /\ op.kind \notin {"PatternUpdate", "LoadGraph"})
    /\ UNCHANGED <<initial, phase>>

\* The request is over: the net delta is applied, or it failed.
Apply ==
    /\ phase = "open"
    /\ operations > 0
    /\ u' = [u EXCEPT !.store = Finish(u)]
    /\ phase' = IF u.failed THEN "failed" ELSE "applied"
    /\ UNCHANGED <<initial, log, sequential, clash, touched, eager, logged, operations>>

Next == Apply \/ \E op \in Ops : Operate(op)

Spec == Init /\ [][Next]_vars

-----------------------------------------------------------------------------
(* Properties                                                               *)

TypeOK ==
    /\ initial \in [quads : SUBSET Quads, generation : Nat]
    /\ u \in [store : [quads : SUBSET Quads, generation : Nat],
              pending_inserts : SUBSET Quads, pending_deletes : SUBSET Quads,
              failed : BOOLEAN]
    /\ sequential \subseteq Quads
    /\ touched \in [added : SUBSET Quads, removed : SUBSET Quads]
    /\ logged \in BOOLEAN
    /\ phase \in {"open", "applied", "failed"}
    /\ operations \in 0..MaxOps

\* A request that succeeds and does not both add and take away some quad ends
\* with the result of running its operations one after the other, although the
\* code runs CLEAR and LOAD first and all inserts and deletes at the end.
SequentialUnlessClash ==
    phase = "applied" /\ clash = {} => u.store.quads = sequential

\* A failed request has changed no quad but those a CLEAR or a LOAD of it
\* acted on: nothing that was collected reaches the store.  (Not even those
\* would change if "the live store is unmodified", as the comment of
\* apply_prepared_update has it.)
FailureDropsCollected ==
    phase = "failed" => u.store.quads \ eager = initial.quads \ eager

\* What a client may conclude from the answer to a request
\* (apply_prepared_update): 200 means the operations took effect in order, an
\* error that none of the collected inserts and deletes did.
RequestOutcome == SequentialUnlessClash /\ FailureDropsCollected

\* Replaying the entries prepared from the initial store gives what the
\* request made of it, when every operation is logged: quad by quad, but for
\* quads that are both added and taken away and quads the log cannot hold.
LogReplaysToResult ==
    phase = "applied" /\ logged
        => \A q \in Faithful(Quads) \ clash :
              q \in FoldLeft(apply_entry, initial.quads, log)
                  <=> q \in u.store.quads
=============================================================================
