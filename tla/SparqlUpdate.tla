---------------------------- MODULE SparqlUpdate ----------------------------
(* The execution of a SPARQL Update request (sparql_endpoint/src/           *)
(* sparql_update.rs): prepare_update turns the operations of the request    *)
(* into changelog entries, apply_prepared_update applies them.  INSERT and  *)
(* DELETE are collected and applied when the last operation has succeeded;  *)
(* CLEAR, DROP and LOAD act on the live store at once.                      *)
(*                                                                          *)
(* An operation is a record with a field "kind":                            *)
(*   InsertData, DeleteData  quads: the ground quads of the block           *)
(*   Clear                   target: "default", "named", "all" or a graph;  *)
(*                           CLEAR and DROP execute alike                   *)
(*   CreateGraph             graph: interned, no quad                       *)
(*   PatternUpdate           where: the quads the WHERE clause can match,   *)
(*                           delete, insert: the template's instances for a *)
(*                           match, as functions on where                   *)
(*   LoadGraph               quads: what the document holds, in the target  *)
(*                           graph; fetched: FALSE when the policy denies   *)
(*                           it, the request or the parser fails; silent    *)
EXTENDS Changelog

\* An operation on quads of Q.
WellFormed(op, Q) ==
    /\ op.kind \in {"InsertData", "DeleteData", "LoadGraph"} => op.quads \subseteq Q
    /\ op.kind = "PatternUpdate" =>
          \A r \in op.where : op.delete[r] \subseteq Q /\ op.insert[r] \subseteq Q
    /\ op.kind = "LoadGraph" => op.fetched \in BOOLEAN /\ op.silent \in BOOLEAN

NamedGraphs(st) == GraphsOf(st) \ {Default}

\* The graphs a CLEAR or DROP removes.  CLEAR GRAPH of a graph never written
\* to removes nothing.
ClearTargets(op, st) ==
    CASE op.target = "default" -> {Default}
      [] op.target = "named"   -> NamedGraphs(st)
      [] op.target = "all"     -> GraphsOf(st)
      [] OTHER                 -> {op.target} \cap GraphsOf(st)

-----------------------------------------------------------------------------
(* Changelog entries.  A graph enters the log by name, so ClearNamed and    *)
(* ClearAll list the graphs of the store as it was before the request.      *)

\* Mutant: CLEAR ALL leaves the default graph in the log.
ClearLogNamedOnly(ds, op, st) ==
    IF op.target \in {"named", "all"} THEN ClearEntries(ds, NamedGraphs(st))
    ELSE ClearEntries(ds, {op.target})

\* collect_named_graph_entries and the CLEAR/DROP arms of prepare_update.
ClearLog(ds, op, st) ==
    CASE op.target = "default" -> ClearEntries(ds, {Default})
      [] op.target = "named"   -> ClearEntries(ds, NamedGraphs(st))
      [] op.target = "all"     -> ClearEntries(ds, {Default} \cup NamedGraphs(st))
      [] OTHER                 -> ClearEntries(ds, {op.target})

\* The entries of one operation.  They commute with one another, so their
\* order within the operation is left open; WHERE updates and LOAD are not
\* logged.
prepare_op(ds, op, st) ==
    CASE op.kind = "InsertData" -> SetToSeq(InsertEntries(ds, op.quads))
      [] op.kind = "DeleteData" -> SetToSeq(DeleteEntries(ds, op.quads))
      [] op.kind = "Clear"      -> SetToSeq(ClearLog(ds, op, st))
      [] OTHER                  -> << >>

prepare_update(ds, ops, st) ==
    FoldLeft(LAMBDA log, op : log \o prepare_op(ds, op, st), << >>, ops)

-----------------------------------------------------------------------------
(* Application.  A request in progress is a record: the live store, the     *)
(* collected inserts and deletes, and whether an operation failed.          *)

Start(st) == [store |-> st, pending_inserts |-> {}, pending_deletes |-> {},
              failed |-> FALSE]

\* What the WHERE clause of a later operation sees.
View(u) == (u.store.quads \cup u.pending_inserts) \ u.pending_deletes

\* materialise_template and ground_quad for every solution.
Instances(template, rows) == UNION {template[r] : r \in rows}

ApplyInsertData(u, op) == [u EXCEPT !.pending_inserts = @ \cup op.quads]

\* Only quads that are stored, or inserted earlier in the request, are kept.
ApplyDeleteData(u, op) ==
    [u EXCEPT !.pending_deletes =
        @ \cup (op.quads \cap (u.store.quads \cup u.pending_inserts))]

ApplyClear(u, op) ==
    [u EXCEPT !.store = RemoveGraphs(@, ClearTargets(op, u.store))]

\* Mutant: the WHERE clause sees the live store, not the request's own changes.
PatternOnLiveStore(u, op) ==
    LET rows == op.where \cap u.store.quads
    IN  [u EXCEPT !.pending_deletes = @ \cup Instances(op.delete, rows),
                  !.pending_inserts = @ \cup Instances(op.insert, rows)]

ApplyPatternUpdate(u, op) ==
    LET rows == op.where \cap View(u)
    IN  [u EXCEPT !.pending_deletes = @ \cup Instances(op.delete, rows),
                  !.pending_inserts = @ \cup Instances(op.insert, rows)]

\* load_fetched writes to the live store; a failure that is not SILENT ends
\* the request.
ApplyLoad(u, op) ==
    IF op.fetched THEN [u EXCEPT !.store = AddQuads(@, op.quads)]
    ELSE [u EXCEPT !.failed = ~op.silent]

ApplyOp(u, op) ==
    CASE u.failed                  -> u
      [] op.kind = "InsertData"    -> ApplyInsertData(u, op)
      [] op.kind = "DeleteData"    -> ApplyDeleteData(u, op)
      [] op.kind = "Clear"         -> ApplyClear(u, op)
      [] op.kind = "PatternUpdate" -> ApplyPatternUpdate(u, op)
      [] op.kind = "LoadGraph"     -> ApplyLoad(u, op)
      [] OTHER                     -> u

\* The net delta of a request that did not fail.
NetDeletes(u) == u.pending_deletes \cap u.store.quads
NetInserts(u) == u.pending_inserts \ u.pending_deletes

\* Deletes first, then inserts; a failed request drops what it collected.
Finish(u) ==
    IF u.failed THEN u.store
    ELSE AddQuads(RemoveQuads(u.store, NetDeletes(u)), NetInserts(u))

\* The request in progress after every operation of it.
Collect(st, ops) == FoldLeft(ApplyOp, Start(st), ops)

\* apply_prepared_update without a reasoner.
apply_prepared_update(st, ops) == Finish(Collect(st, ops))
=============================================================================
