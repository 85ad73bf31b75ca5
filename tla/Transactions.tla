---------------------------- MODULE Transactions ----------------------------
(* Transactions over one dataset (sparql_endpoint/src/transactions.rs,      *)
(* transaction_routes.rs and the transactional paths of query.rs), beside   *)
(* the other writers of the same store: SPARQL Update with and without      *)
(* If-Match, the Turtle upload, which writes behind the generation counter, *)
(* and the Graph Store Protocol, which does so when there is a reasoner.    *)
(*                                                                          *)
(* A handler that keeps the store's write lock from its checks to its last  *)
(* change is one action.  BEGIN reads the generation and registers the      *)
(* transaction in two critical sections, COMMIT takes the transaction out   *)
(* of the registry before it waits for the store: each is two actions, with *)
(* the request's local state in req.                                        *)
EXTENDS SparqlUpdate

CONSTANTS Quads,          \* the quads of the dataset
          Initial,        \* the contents the server may start with
          Tx,             \* transaction identifiers (fresh UUIDs)
          Clients,        \* requests in flight
          UpdateRequests, \* the SPARQL Update requests sent outside a transaction
          TxRequests,     \* those sent inside one: INSERT DATA and DELETE DATA
          Bodies,         \* the sets of quads the other writers send
          Forbidden,      \* sets of quads that make an instance of owl:Nothing
          MaxGeneration   \* bound on the generation counter

ASSUME QuadsAssumption ==
    /\ IsFiniteSet(Quads)
    /\ Initial \subseteq SUBSET Quads
    /\ Bodies \subseteq SUBSET Quads
    /\ MaxGeneration \in Nat

\* A request is a sequence of operations on quads of the dataset.
ASSUME RequestsAssumption ==
    /\ \A ops \in UpdateRequests \cup TxRequests :
          /\ Len(ops) \in Nat
          /\ DOMAIN ops = 1..Len(ops)
          /\ \A i \in DOMAIN ops : WellFormed(ops[i], Quads)
    /\ \A ops \in TxRequests : \A i \in DOMAIN ops : ops[i].kind \in {"InsertData", "DeleteData"}

VARIABLES store,      \* the live store: quads and generation
          reasoning,  \* the dataset has a reasoner
          registry,   \* the open transactions, by identifier
          req         \* what each request in flight holds

\* History: fate[t] is what became of t, began[t] the generation BEGIN read for
\* it, acked[t] the quads of the updates answered 200 inside t until t is
\* decided; versions[g] is the store's content when it reached generation g,
\* hidden the quads changed behind its back since.
VARIABLES fate, began, acked, versions, hidden

history == <<fate, began, acked, versions, hidden>>
vars == <<store, reasoning, registry, req, fate, began, acked, versions, hidden>>

Idle == [pc |-> "idle"]
NoWrites == [ins |-> {}, del |-> {}]
Final == {"committed", "conflict", "rejected", "rolled_back", "evicted"}
OpenTransaction == [snapshot_generation : 0..MaxGeneration,
                    pending_inserts : SUBSET Quads,
                    pending_deletes : SUBSET Quads,
                    idle : BOOLEAN]

Init ==
    /\ store \in [quads : Initial, generation : {0}]
    /\ reasoning \in BOOLEAN
    /\ registry = << >>
    /\ req = [c \in Clients |-> Idle]
    /\ fate = [t \in Tx |-> "unborn"]
    /\ began = [t \in Tx |-> 0]
    /\ acked = [t \in Tx |-> NoWrites]
    /\ versions = [g \in {0} |-> store.quads]
    /\ hidden = {}

Changed(S, T) == (S \ T) \cup (T \ S)

\* Every change of the store.
Write(st) ==
    /\ st.generation <= MaxGeneration
    /\ store' = st
    /\ IF st.generation = store.generation
       THEN /\ hidden' = hidden \cup Changed(st.quads, store.quads)
            /\ UNCHANGED versions
       ELSE /\ versions' = [g \in DOMAIN versions \cup {st.generation} |->
                             IF g = st.generation THEN st.quads ELSE versions[g]]
            /\ hidden' = {}
    /\ UNCHANGED reasoning

\* The transactions of T end with the given fate.
Decide(T, f) ==
    /\ fate' = [t \in Tx |-> IF t \in T THEN f ELSE fate[t]]
    /\ acked' = [t \in Tx |-> IF t \in T THEN NoWrites ELSE acked[t]]
    /\ UNCHANGED began

Drop(r, T) == [t \in DOMAIN r \ T |-> r[t]]

-----------------------------------------------------------------------------
(* The constraint check of run_update and of COMMIT                         *)

\* Only a dataset with a reasoner is checked.
check_owl_nothing(S) == reasoning /\ \E F \in Forbidden : F \subseteq S

\* The change the client asked for, or the change undone: what was inserted
\* is removed and what was deleted is put back.
Checked(st, net_inserts, net_deletes) ==
    LET applied == AddQuads(RemoveQuads(st, net_deletes), net_inserts)
    IN  IF check_owl_nothing(applied.quads)
        THEN AddQuads(RemoveQuads(applied, net_inserts), net_deletes)
        ELSE applied

-----------------------------------------------------------------------------
(* Transactions                                                             *)

\* transaction_begin, first the generation under the store's read lock ...
BeginRead(c) ==
    /\ req[c] = Idle
    /\ req' = [req EXCEPT ![c] = [pc |-> "begin", generation |-> store.generation]]
    /\ UNCHANGED <<store, reasoning, registry>> /\ UNCHANGED history

\* ... then, under the registry's lock, purge_stale(60) and begin.
Stale == {t \in DOMAIN registry : registry[t].idle}

BeginRegister(c, t) ==
    /\ req[c].pc = "begin"
    /\ fate[t] = "unborn"
    /\ registry' = [s \in (DOMAIN registry \ Stale) \cup {t} |->
                       IF s # t THEN registry[s] ELSE
                       [snapshot_generation |-> req[c].generation,
                        pending_inserts |-> {}, pending_deletes |-> {},
                        idle |-> FALSE]]
    /\ req' = [req EXCEPT ![c] = Idle]
    /\ fate' = [s \in Tx |-> CASE s = t -> "open" [] s \in Stale -> "evicted"
                               [] OTHER -> fate[s]]
    /\ began' = [began EXCEPT ![t] = req[c].generation]
    /\ acked' = [s \in Tx |-> IF s \in Stale THEN NoWrites ELSE acked[s]]
    /\ UNCHANGED <<store, reasoning, versions, hidden>>

\* run_transactional_update: the request's quads, collected under the store's
\* write lock.  A delete is kept if the quad is stored or inserted earlier in
\* this request ...
CollectOp(d, op) ==
    IF op.kind = "InsertData" THEN [d EXCEPT !.ins = @ \cup op.quads]
    ELSE [d EXCEPT !.del = @ \cup (op.quads \cap (store.quads \cup d.ins))]

NewDelta(ops) == FoldLeft(CollectOp, [ins |-> {}, del |-> {}], ops)

\* Mutant: a request's inserts replace those of the requests before it.
BufferedLastRequest(tx, d) ==
    [tx EXCEPT !.pending_inserts = d.ins,
               !.pending_deletes = @ \cup (d.del \cap (store.quads \cup d.ins)),
               !.idle = FALSE]

\* ... and once more if it is stored or pending in the transaction.
Buffered(tx, d) ==
    LET all == tx.pending_inserts \cup d.ins
    IN  [tx EXCEPT !.pending_inserts = all,
                   !.pending_deletes = @ \cup (d.del \cap (store.quads \cup all)),
                   !.idle = FALSE]

OfKind(ops, kind) == UNION {ops[i].quads : i \in {j \in DOMAIN ops : ops[j].kind = kind}}

TransactionalUpdate(t, ops) ==
    /\ t \in DOMAIN registry
    /\ registry' = [registry EXCEPT ![t] = Buffered(@, NewDelta(ops))]
    /\ acked' = [acked EXCEPT ![t] =
                    [ins |-> @.ins \cup OfKind(ops, "InsertData"),
                     del |-> @.del \cup OfKind(ops, "DeleteData")]]
    /\ UNCHANGED <<store, reasoning, req, fate, began, versions, hidden>>

\* run_transactional_query answers from the live store, inserts, then deletes.
TxView(tx) == (store.quads \cup tx.pending_inserts) \ tx.pending_deletes

\* No update for the idle timeout.  The transaction stays registered until
\* the next BEGIN.
Expire(t) ==
    /\ t \in DOMAIN registry
    /\ registry' = [registry EXCEPT ![t].idle = TRUE]
    /\ UNCHANGED <<store, reasoning, req>> /\ UNCHANGED history

\* Mutant: COMMIT looks the transaction up and leaves it registered.
CommitLookup(c, t) ==
    /\ req[c] = Idle
    /\ t \in DOMAIN registry
    /\ req' = [req EXCEPT ![c] = [pc |-> "commit", id |-> t, tx |-> registry[t]]]
    /\ UNCHANGED <<store, reasoning, registry>> /\ UNCHANGED history

\* transaction_commit takes the transaction out of the registry ...
CommitTake(c, t) ==
    /\ req[c] = Idle
    /\ t \in DOMAIN registry
    /\ req' = [req EXCEPT ![c] = [pc |-> "commit", id |-> t, tx |-> registry[t]]]
    /\ registry' = Drop(registry, {t})
    /\ UNCHANGED <<store, reasoning>> /\ UNCHANGED history

\* Mutant: only a store that went backwards is a conflict.
ConflictIfOlder(tx) == store.generation < tx.snapshot_generation

\* ... and compares generations once it has the store: a conflict changes
\* nothing, and the transaction is gone.
Conflict(tx) == store.generation # tx.snapshot_generation

CommitConflict(c) ==
    /\ req[c].pc = "commit"
    /\ Conflict(req[c].tx)
    /\ req' = [req EXCEPT ![c] = Idle]
    /\ Decide({req[c].id}, "conflict")
    /\ UNCHANGED <<store, reasoning, registry, versions, hidden>>

\* The deletes that are stored, then the inserts none of these cancelled.
CommitDeletes(tx) == tx.pending_deletes \cap store.quads
CommitInserts(tx) == tx.pending_inserts \ CommitDeletes(tx)

\* Mutant: an empty commit leaves the generation alone.
CommittedNoBump(tx) == Checked(store, CommitInserts(tx), CommitDeletes(tx))

\* An empty commit moves the generation by hand.
Committed(tx) ==
    IF CommitInserts(tx) = {} /\ CommitDeletes(tx) = {}
    THEN [store EXCEPT !.generation = @ + 1]
    ELSE Checked(store, CommitInserts(tx), CommitDeletes(tx))

CommitRejected(tx) ==
    check_owl_nothing((store.quads \ CommitDeletes(tx)) \cup CommitInserts(tx))

CommitApply(c) ==
    /\ req[c].pc = "commit"
    /\ ~Conflict(req[c].tx)
    /\ Write(Committed(req[c].tx))
    /\ req' = [req EXCEPT ![c] = Idle]
    /\ Decide({req[c].id},
              IF CommitRejected(req[c].tx) THEN "rejected" ELSE "committed")
    /\ UNCHANGED registry

Rollback(t) ==
    /\ t \in DOMAIN registry
    /\ registry' = Drop(registry, {t})
    /\ Decide({t}, "rolled_back")
    /\ UNCHANGED <<store, reasoning, req, versions, hidden>>

-----------------------------------------------------------------------------
(* The other writers of the store                                           *)

\* run_update, from the If-Match check on: the operations, then the check.
\* Rolling back undoes the net delta only: a CLEAR or LOAD stays.
Updated(ops) ==
    LET d == Collect(store, ops)
    IN  IF d.failed THEN d.store
        ELSE Checked(d.store, NetInserts(d), NetDeletes(d))

RunUpdate(ops) ==
    /\ Write(Updated(ops))
    /\ UNCHANGED <<registry, req, fate, began, acked>>

\* With If-Match: the client may send any ETag it was ever given.
ETagMatches(g) == g = store.generation

UpdateIfMatch(g, ops) ==
    /\ ETagMatches(g)
    /\ Write(Updated(ops))
    /\ UNCHANGED <<registry, req, fate, began, acked>>

\* dataset_ottr_post and dataset_rml_post add quads without the reasoner.
DocumentPost(Q) ==
    /\ Write(AddQuads(store, Q))
    /\ UNCHANGED <<registry, req, fate, began, acked>>

\* Graph Store Protocol: PUT replaces a graph, POST adds to it, DELETE removes
\* it.  None of them checks owl:Nothing.  With a reasoner the delta goes through apply_reasoner_delta
\* alone, which works on the quad table itself.
Gsp(old, new, tracked) ==
    /\ Write(IF reasoning THEN [store EXCEPT !.quads = (@ \ old) \cup new] ELSE tracked)
    /\ UNCHANGED <<registry, req, fate, began, acked>>

GspPut(g, Q) ==
    Gsp({q \in store.quads : q.graph = g}, Q, AddQuads(RemoveGraphs(store, {g}), Q))

GspPost(Q) == Gsp({}, Q, AddQuads(store, Q))

GspDelete(g) ==
    /\ g \in GraphsOf(store) \cup {Default}
    /\ Gsp({q \in store.quads : q.graph = g}, {}, RemoveGraphs(store, {g}))

\* upload_turtle adds to the quad table itself.
Upload(Q) ==
    /\ Write(AddUntracked(store, Q))
    /\ UNCHANGED <<registry, req, fate, began, acked>>

-----------------------------------------------------------------------------

Next ==
    \/ \E c \in Clients :
          \/ BeginRead(c)
          \/ CommitConflict(c)
          \/ CommitApply(c)
          \/ \E t \in Tx : BeginRegister(c, t) \/ CommitTake(c, t)
    \/ \E t \in Tx :
          \/ Rollback(t)
          \/ Expire(t)
          \/ \E ops \in TxRequests : TransactionalUpdate(t, ops)
    \/ \E ops \in UpdateRequests :
          \/ RunUpdate(ops)
          \/ \E g \in DOMAIN versions : UpdateIfMatch(g, ops)
    \/ \E Q \in Bodies :
          \/ Upload(Q)
          \/ DocumentPost(Q)
          \/ GspPost(Q)
    \/ \E g \in {q.graph : q \in Quads} :
          \/ GspDelete(g)
          \/ \E Q \in Bodies : (\A q \in Q : q.graph = g) /\ GspPut(g, Q)

Spec == Init /\ [][Next]_vars

-----------------------------------------------------------------------------
(* Properties                                                               *)

TypeOK ==
    /\ store \in [quads : SUBSET Quads, generation : 0..MaxGeneration]
    /\ DOMAIN registry \subseteq Tx
    /\ \A t \in DOMAIN registry : registry[t] \in OpenTransaction
    /\ \A c \in Clients : req[c].pc \in {"idle", "begin", "commit"}
    /\ fate \in [Tx -> Final \cup {"unborn", "open"}]
    /\ hidden \subseteq Quads

Commits(t) == fate[t] # "committed" /\ fate'[t] = "committed"

\* Optimistic concurrency control works: a transaction commits only on the
\* content the store had when it reached the generation BEGIN read, but for
\* quads the upload and graph store endpoints changed behind the counter (of
\* these "reject if the store was modified after begin" does not hold).
CommitOnSnapshot ==
    [][\A t \in Tx : Commits(t) =>
          Changed(versions[began[t]], store.quads) \subseteq hidden]_vars

\* Of the transactions that began at one generation at most one commits, the
\* empty commit included: COMMIT always moves the generation.
FirstCommitterWins ==
    \A s, t \in Tx :
        /\ s # t
        /\ fate[s] = "committed"
        /\ fate[t] = "committed"
        => began[s] # began[t]

\* A transaction is decided once: no commit, rollback or eviction touches one
\* that was committed, refused, rolled back or evicted before, whatever
\* requests for it are in flight.
DecidedOnce ==
    [][\A t \in Tx : fate[t] \in Final => fate'[t] = fate[t]]_vars

\* Every update answered 200 inside a transaction is in what it commits,
\* also when it raced the COMMIT: a quad the transaction only inserted is in
\* the store afterwards, one it only deleted is not (unless it was put there
\* behind the counter), and the store is what a query inside the transaction
\* would have shown (run_transactional_query applies the buffers in another
\* order), but for the quads that it both inserted and deleted while they were
\* not stored: these the commit adds, and the query does not show.
AcknowledgedWritesCommitted ==
    [][\A t \in Tx : Commits(t) =>
          /\ acked[t].ins \ acked[t].del \subseteq store'.quads
          /\ ((acked[t].del \ acked[t].ins) \ hidden) \cap store'.quads = {}
          /\ \A c \in Clients : req[c].pc = "commit" /\ req[c].id = t =>
                Changed(TxView(req[c].tx), store'.quads) =
                    (req[c].tx.pending_inserts \cap req[c].tx.pending_deletes) \ store.quads]_vars
=============================================================================
