----------------------------- MODULE Persistence -----------------------------
(* A server with a changelog: datasets, their quads and rulesets, the       *)
(* handlers that change them, crashes and restarts (sparql_endpoint/src/    *)
(* registry.rs, admin.rs, rules_endpoint.rs, query.rs, graph_store.rs,      *)
(* upload.rs, ottr_endpoint.rs, rml_endpoint.rs and serve_on_listener in    *)
(* lib.rs).                                                                 *)
(*                                                                          *)
(* A handler first looks up its dataset and then waits for the dataset's    *)
(* store: the dataset may be deleted, and created again, in between, and    *)
(* the handler then writes to a store nobody sees but logs under the name.  *)
(* The root routes always use the store the server started with.            *)
(* A handler that logs and changes the store under one store lock is one    *)
(* action after that; a crash between the two loses the memory anyway.      *)
(* upload_turtle, dataset_ottr_post and dataset_rml_post log before they    *)
(* wait for the store: two actions.                                         *)
EXTENDS SparqlUpdate

CONSTANTS Quads,           \* the quads of a dataset
          Datasets,        \* dataset names, MainDataset among them
          FileData,        \* the quads of the --data files, for MainDataset
          InitialRules,    \* the --rules ruleset of MainDataset
          Clients,         \* requests in flight
          Updates,         \* the SPARQL Update requests
          Bodies,          \* the sets of quads uploaded in one request
          Rulesets,        \* the rulesets that are posted: sets of rules
          RulesetIds,      \* the names they are posted under
          Contradictory,   \* pairs <<rule, quad>> that yield a contradiction
          Consequences,    \* triples <<rule, quad, quad>>: what a rule derives
          MaxLog,          \* bound on the length of the changelog
          MaxStores,       \* bound on the number of stores in memory
          MaxRequests      \* bound on the number of requests

ASSUME PersistenceAssumption ==
    /\ MainDataset \in Datasets /\ IsFiniteSet(Datasets)
    /\ IsFiniteSet(Quads) /\ FileData \subseteq Quads
    /\ Repr \in [Quads -> Quads]
    /\ \A ops \in Updates :
          /\ Len(ops) \in Nat /\ DOMAIN ops = 1..Len(ops)
          /\ \A i \in DOMAIN ops : WellFormed(ops[i], Quads)
    /\ Bodies \subseteq SUBSET Quads
    /\ MaxLog \in Nat

VARIABLES log,         \* the durable changelog
          stores,      \* the stores in memory: base quads and rulesets
          registry,    \* DatasetRegistry: the store of each registered dataset
          req,         \* what each request in flight holds
          up,          \* the server runs
          requests     \* the number of requests so far

\* History: the pairs <<dataset, quad>> a known cause lets differ between
\* memory and log, the datasets whose rulesets may, and the datasets that
\* were written to without asking the reasoner.
VARIABLES tainted, rulesTainted, unchecked

history == <<tainted, rulesTainted, unchecked>>
vars == <<log, stores, registry, req, up, requests, tainted, rulesTainted, unchecked>>

Idle == [pc |-> "idle"]
NoRules == [active |-> {}, named |-> << >>]
Root == 1   \* AppState.store

Contradiction(rules, S) == \E p \in Contradictory : p[1] \in rules /\ p[2] \in S

\* What the reasoner adds to the quad table.
Derived(s) ==
    {q \in Quads : \E p \in Consequences :
        p[1] \in s.rules.active /\ p[2] \in s.quads /\ p[3] = q}

-----------------------------------------------------------------------------
(* Rulesets.  [active, named]: the rules of the reasoner, and the rules     *)
(* loaded under each id.                                                    *)

Put(f, x, y) == [z \in DOMAIN f \cup {x} |-> IF z = x THEN y ELSE f[z]]

Without(named, id) == [i \in DOMAIN named \ {id} |-> named[i]]

\* union_other_rulesets
Others(named, id) == UNION {named[i] : i \in DOMAIN named \ {id}}

\* apply_replace_ruleset_text: every rule loaded before goes.
ReplaceRuleset(rs, e) == [active |-> e.rules, named |-> << >>]

\* apply_set_named_ruleset_text: the union of the named rulesets, so a
\* ruleset that was loaded without an id goes too.
SetNamedRuleset(rs, e) ==
    [active |-> Others(rs.named, e.id) \cup e.rules,
     named  |-> IF e.rules = {} THEN Without(rs.named, e.id)
                ELSE Put(rs.named, e.id, e.rules)]

\* apply_delete_named_ruleset: nothing to do for an id that is not loaded.
DeleteNamedRuleset(rs, e) ==
    IF e.id \notin DOMAIN rs.named THEN rs
    ELSE [active |-> Others(rs.named, e.id), named |-> Without(rs.named, e.id)]

ApplyRuleset(rs, e) ==
    CASE e.op = "ReplaceRuleset"     -> ReplaceRuleset(rs, e)
      [] e.op = "SetNamedRuleset"    -> SetNamedRuleset(rs, e)
      [] e.op = "DeleteNamedRuleset" -> DeleteNamedRuleset(rs, e)

RulesetEntries(d) ==
    [op : {"ReplaceRuleset"}, dataset : {d}, rules : Rulesets]
    \cup [op : {"SetNamedRuleset"}, dataset : {d}, id : RulesetIds, rules : Rulesets]
    \cup [op : {"DeleteNamedRuleset"}, dataset : {d}, id : RulesetIds]

-----------------------------------------------------------------------------
(* What a restart would find                                                *)

\* A dataset named like the main one that was created after the main one was
\* deleted takes its place in the registry.
Recovered(d) ==
    IF d \in discover_dataset_names(log) THEN replay_dataset(log, d)
    ELSE replay_into(log, FileData)

StartRules(d) ==
    IF d = MainDataset /\ d \notin discover_dataset_names(log)
    THEN [active |-> InitialRules, named |-> << >>]
    ELSE NoRules

\* What the rulesets that l holds at the positions of K make of rs.
rules_at(rs, l, K) ==
    FoldLeftDomain(LAMBDA r, i : IF i \in K THEN ApplyRuleset(r, l[i]) ELSE r, rs, l)

RulesetLog(d) == ruleset_entries(log, {d})

\* The rulesets in force after the one persisted at position n.
RulesAfter(d, n) == rules_at(StartRules(d), log, {i \in RulesetLog(d) : i <= n})

RecoveredRules(d) == rules_at(StartRules(d), log, RulesetLog(d))

RecoveredNames == {MainDataset} \cup discover_dataset_names(log)

\* serve_on_listener gives up when the --rules, or a persisted ruleset on the
\* way to the last one, contradict the recovered quads.
Startable ==
    /\ ~Contradiction(InitialRules, replay_into(log, FileData))
    /\ \A d \in RecoveredNames : \A n \in RulesetLog(d) :
          ~Contradiction(RulesAfter(d, n).active, Recovered(d))

-----------------------------------------------------------------------------
(* Start, crash, restart                                                    *)

RootStore == [quads |-> replay_into(log, FileData),
              rules |-> [active |-> InitialRules, named |-> << >>]]

Found(d) == [quads |-> Recovered(d), rules |-> RecoveredRules(d)]

\* The stores a start builds, the root store first; a dataset found in the
\* log gets a store of its own.
BootNames == SetToSeq(discover_dataset_names(log))

BootStores ==
    <<IF MainDataset \in discover_dataset_names(log) THEN RootStore
      ELSE Found(MainDataset)>>
    \o [i \in DOMAIN BootNames |-> Found(BootNames[i])]

BootRegistry ==
    [d \in RecoveredNames |->
        IF d \in discover_dataset_names(log)
        THEN 1 + CHOOSE i \in DOMAIN BootNames : BootNames[i] = d
        ELSE Root]

Init ==
    /\ log = << >>
    /\ Startable
    /\ stores = <<RootStore>>
    /\ registry = [d \in {MainDataset} |-> Root]
    /\ req = [c \in Clients |-> Idle]
    /\ up = TRUE
    /\ requests = 0
    /\ tainted = {} /\ rulesTainted = {} /\ unchecked = {}

Crash ==
    /\ up
    /\ up' = FALSE
    /\ stores' = << >>
    /\ registry' = << >>
    /\ req' = [c \in Clients |-> Idle]
    /\ tainted' = {} /\ rulesTainted' = {} /\ unchecked' = {}
    /\ UNCHANGED <<log, requests>>

Restart ==
    /\ ~up
    /\ Startable
    /\ up' = TRUE
    /\ stores' = BootStores
    /\ registry' = BootRegistry
    /\ UNCHANGED <<log, req, requests, tainted, rulesTainted, unchecked>>

-----------------------------------------------------------------------------
(* Requests                                                                 *)

\* DatasetRegistry::get_entry, or the root route.
Resolve(c, d) ==
    /\ up
    /\ req[c] = Idle
    /\ requests < MaxRequests
    /\ requests' = requests + 1
    /\ \E sid \in (IF d \in DOMAIN registry THEN {registry[d]} ELSE {})
                  \cup (IF d = MainDataset THEN {Root} ELSE {}) :
          req' = [req EXCEPT ![c] = [pc |-> "resolved", d |-> d, sid |-> sid]]
    /\ UNCHANGED <<log, stores, registry, up>> /\ UNCHANGED history

Held(c) == stores[req[c].sid]

\* The handler's store is the one its dataset's name stands for.
Current(c) == req[c].d \in DOMAIN registry /\ registry[req[c].d] = req[c].sid

Appendable(entries) == Len(log) + Len(entries) <= MaxLog

Pairs(d, Q) == {d} \X Q

\* The quads whose presence after replay an entry decides.
Decides(e) == IF e.op = "ClearGraph" THEN {q \in Quads : q.graph = e.graph} ELSE {e.quad}
Mentioned(entries) == UNION {Decides(entries[i]) : i \in DOMAIN entries}

\* Requests that wait with their entries already logged lose the race against
\* whatever changes the dataset or rewrites the log in the meantime.
Done(c, D) ==
    req' = [b \in Clients |->
               CASE b = c -> Idle
                 [] b # c /\ req[b].pc = "logged" /\ req[b].d \in D ->
                      [req[b] EXCEPT !.raced = TRUE]
                 [] OTHER -> req[b]]

\* An outcome is what a handler logs, what it makes of the store, of which
\* quads (if any) the log then tells the truth, and whether the reasoner was
\* asked about all the quads that the store gained.
Outcome(entries, quads, settled, checked) ==
    [entries |-> entries, quads |-> quads, settled |-> settled, checked |-> checked]

\* The quads of a request that an entry inserts and another takes away.
Clash(entries) ==
    {q \in Quads : \E i, j \in DOMAIN entries :
        /\ q \in Decides(entries[i]) /\ entries[i].op = "InsertQuad"
        /\ q \in Decides(entries[j]) /\ entries[j].op # "InsertQuad"}

\* run_update: log, apply, and when the reasoner finds a contradiction undo
\* the net delta.  The entries stay in the log, and what a LOAD added stays in
\* the store.
Update(ds, ops, s) ==
    LET st == [quads |-> s.quads, generation |-> 0]
        entries == prepare_update(ds, ops, st)
        d == Collect(st, ops)
        applied == Finish(d).quads
        logged == \A i \in DOMAIN ops : ops[i].kind \notin {"PatternUpdate", "LoadGraph"}
        loads == \E i \in DOMAIN ops : ops[i].kind = "LoadGraph"
    IN  CASE d.failed -> Outcome(entries, applied, {}, ~loads)
          [] ~d.failed /\ Contradiction(s.rules.active, applied) ->
               Outcome(entries, (applied \ NetInserts(d)) \cup NetDeletes(d), {}, ~loads)
          [] OTHER -> Outcome(entries, applied,
                              IF logged THEN Mentioned(entries) \ Clash(entries) ELSE {}, TRUE)

\* Mutant: a write the reasoner refuses is kept.
ReplaceUnchecked(entries, old, new, s) ==
    Outcome(entries, (s.quads \ old) \cup new, Mentioned(entries), TRUE)

\* gsp_put_inner, gsp_post_inner, gsp_delete_inner and the direct routes:
\* old is taken away, new is put in.
Replace(entries, old, new, s) ==
    LET applied == (s.quads \ old) \cup new
    IN  IF Contradiction(s.rules.active, applied)
        THEN Outcome(entries, (applied \ new) \cup old, {}, TRUE)
        ELSE Outcome(entries, applied, Mentioned(entries), TRUE)

Graph(s, g) == {q \in s.quads : q.graph = g}

GspPut(ds, g, Q, s) ==
    Replace(SetToSeq(ClearEntries(ds, {g})) \o SetToSeq(InsertEntries(ds, Q)), Graph(s, g), Q, s)
GspPost(ds, Q, s) == Replace(SetToSeq(InsertEntries(ds, Q)), {}, Q, s)
GspDelete(ds, g, s) == Replace(SetToSeq(ClearEntries(ds, {g})), Graph(s, g), {}, s)

\* A committed transaction is not logged.
TransactionCommit(ds, ops, s) ==
    Outcome(<< >>, Update(ds, ops, s).quads, {}, Update(ds, ops, s).checked)

GraphOf(Q) == (CHOOSE q \in Q : TRUE).graph

Writes(ds, s) ==
    {Update(ds, ops, s) : ops \in Updates}
    \cup {TransactionCommit(ds, ops, s) : ops \in Updates}
    \cup {GspPost(ds, Q, s) : Q \in Bodies}
    \cup {GspPut(ds, GraphOf(Q), Q, s) : Q \in Bodies}
    \cup {GspDelete(ds, g, s) : g \in {GraphOf(Q) : Q \in Bodies}
                                        \cap ({Default} \cup GraphsOf(s))}

\* The quads that may have come apart: what the memory changed and what the
\* log mentions.  Both sides agree again on the settled ones, unless the
\* handler held a store that is no longer the dataset's.
Changed(S, T) == (S \ T) \cup (T \ S)

Settle(c, o) ==
    LET both == Changed(Held(c).quads, o.quads) \cup Mentioned(o.entries)
    IN  IF Current(c)
        THEN (tainted \cup Pairs(req[c].d, both))
               \ Pairs(req[c].d, o.settled \cap Faithful(Quads))
        ELSE tainted \cup Pairs(req[c].d, Mentioned(o.entries))

LockedWrite(c) ==
    /\ req[c].pc = "resolved"
    /\ \E o \in Writes(req[c].d, Held(c)) :
          /\ Appendable(o.entries)
          /\ log' = log \o o.entries
          /\ stores' = [stores EXCEPT ![req[c].sid].quads = o.quads]
          /\ tainted' = Settle(c, o)
          /\ unchecked' = IF o.checked THEN unchecked ELSE unchecked \cup {req[c].d}
    /\ Done(c, {req[c].d})
    /\ UNCHANGED <<registry, up, requests, rulesTainted>>

\* upload_turtle, dataset_ottr_post, dataset_rml_post: the entries are logged
\* without the store's lock ...
UploadLog(c, Q) ==
    LET entries == SetToSeq(InsertEntries(req[c].d, Q))
    IN  /\ req[c].pc = "resolved"
        /\ Appendable(entries)
        /\ log' = log \o entries
        /\ req' = [req EXCEPT ![c] = [pc |-> "logged", d |-> @.d, sid |-> @.sid,
                                      quads |-> Q, raced |-> FALSE]]
        /\ tainted' = tainted \cup Pairs(req[c].d, Q \cup Mentioned(entries))
        /\ UNCHANGED <<stores, registry, up, requests, rulesTainted, unchecked>>

\* ... and the quads are added later, whatever happened in between and
\* without asking the reasoner.
UploadApply(c) ==
    /\ req[c].pc = "logged"
    /\ stores' = [stores EXCEPT ![req[c].sid].quads = @ \cup req[c].quads]
    /\ unchecked' = unchecked \cup {req[c].d}
    /\ tainted' = IF Current(c) /\ ~req[c].raced
                  THEN tainted \ Pairs(req[c].d, req[c].quads \cap Faithful(Quads))
                  ELSE tainted \cup Pairs(req[c].d, req[c].quads)
    /\ Done(c, {})
    /\ UNCHANGED <<log, registry, up, requests, rulesTainted>>

-----------------------------------------------------------------------------
(* Rulesets over HTTP                                                       *)

\* dataset_rules_post, dataset_rules_id_post, dataset_rules_id_delete: apply,
\* then log.  A ruleset that contradicts the quads changes nothing (409), an
\* unknown id neither (404).  When the append fails the client is told so, but
\* the rules stay.
RulesOp(c, e) ==
    LET rules == ApplyRuleset(Held(c).rules, e)
    IN  /\ req[c].pc = "resolved"
        /\ req[c].d = e.dataset
        /\ e.op = "DeleteNamedRuleset" => e.id \in DOMAIN Held(c).rules.named
        /\ ~Contradiction(rules.active, Held(c).quads)
        /\ stores' = [stores EXCEPT ![req[c].sid].rules = rules]
        /\ \/ /\ Appendable(<<e>>)
              /\ log' = Append(log, e)
              /\ rulesTainted' = IF Current(c) THEN rulesTainted
                                 ELSE rulesTainted \cup {e.dataset}
           \/ /\ UNCHANGED log
              /\ rulesTainted' = rulesTainted \cup {e.dataset}
        /\ Done(c, {})
        /\ UNCHANGED <<registry, up, requests, tainted, unchecked>>

-----------------------------------------------------------------------------
(* Administration                                                           *)

\* admin_create_dataset: under the registry's write lock, log first.
CreateDataset(d) ==
    LET e == [op |-> "CreateDataset", name |-> d]
    IN  /\ up
        /\ d \notin DOMAIN registry
        /\ Len(stores) < MaxStores
        /\ Appendable(<<e>>)
        /\ log' = Append(log, e)
        /\ stores' = Append(stores, [quads |-> {}, rules |-> NoRules])
        /\ registry' = Put(registry, d, Len(stores) + 1)
        /\ tainted' = tainted \ Pairs(d, Quads)
        /\ rulesTainted' = rulesTainted \ {d}
        /\ unchecked' = unchecked \ {d}
        /\ UNCHANGED <<req, up, requests>>

\* admin_delete_dataset; the main dataset may be deleted too.
DeleteDataset(d) ==
    LET e == [op |-> "DeleteDataset", name |-> d]
    IN  /\ up
        /\ d \in DOMAIN registry
        /\ Appendable(<<e>>)
        /\ log' = Append(log, e)
        /\ registry' = [n \in DOMAIN registry \ {d} |-> registry[n]]
        /\ UNCHANGED <<stores, req, up, requests>> /\ UNCHANGED history

\* admin_compact holds every registered store and the log.  The snapshot is
\* what the quad table holds, the derived quads included; the data files are
\* loaded again under it.
Contents == [d \in DOMAIN registry |->
                stores[registry[d]].quads \cup Derived(stores[registry[d]])]

Compact ==
    /\ up
    /\ log' = compact_multi(log, Contents)
    /\ Len(log') <= MaxLog
    /\ tainted' = UNION {Pairs(d,
                          Derived(stores[registry[d]])
                          \cup (IF d = MainDataset THEN FileData ELSE {})
                          \cup UNION {{q, Repr[q]} : q \in {r \in Contents[d] : Repr[r] # r}})
                         : d \in DOMAIN registry}
    /\ rulesTainted' = IF MainDataset \in DOMAIN registry /\ registry[MainDataset] # Root
                       THEN rulesTainted \cup {MainDataset} ELSE rulesTainted
    /\ req' = [b \in Clients |-> IF req[b].pc = "logged"
                                 THEN [req[b] EXCEPT !.raced = TRUE] ELSE req[b]]
    /\ UNCHANGED <<stores, registry, up, requests, unchecked>>

-----------------------------------------------------------------------------

Next ==
    \/ Crash
    \/ Restart
    \/ Compact
    \/ \E d \in Datasets : CreateDataset(d) \/ DeleteDataset(d)
    \/ \E c \in Clients :
          \/ LockedWrite(c)
          \/ UploadApply(c)
          \/ \E Q \in Bodies : UploadLog(c, Q)
          \/ \E d \in Datasets : Resolve(c, d)
          \/ \E e \in UNION {RulesetEntries(d) : d \in Datasets} : RulesOp(c, e)

Spec == Init /\ [][Next]_vars

-----------------------------------------------------------------------------
(* Properties                                                               *)

TypeOK ==
    /\ Len(log) <= MaxLog
    /\ \A i \in DOMAIN stores : stores[i].quads \subseteq Quads
    /\ DOMAIN registry \subseteq Datasets
    /\ \A d \in DOMAIN registry : registry[d] \in DOMAIN stores
    /\ \A c \in Clients : req[c] # Idle => req[c].sid \in DOMAIN stores
    /\ tainted \subseteq Datasets \X Quads
    /\ rulesTainted \subseteq Datasets
    /\ unchecked \subseteq Datasets

\* What a crash and restart would rebuild is what the server holds, dataset
\* by dataset and quad by quad, except for the quads the documented gaps
\* account for: refused requests, transactions, WHERE and LOAD updates, a
\* request that adds and removes one quad, uploads that lost a race, requests
\* to a dataset deleted under them, and what compaction cannot say.
QuadsDurable ==
    \A d \in DOMAIN registry :
        Pairs(d, Changed(stores[registry[d]].quads, Recovered(d))) \subseteq tainted

\* The log names exactly the registered datasets, whatever sequence of
\* creations, deletions, compactions and restarts led here.
DatasetsDurable ==
    up => DOMAIN registry \ {MainDataset} = RecoveredNames \ {MainDataset}

\* The rulesets in force, the plain ones and the named ones, are the ones a
\* restart would replay.
RulesDurable ==
    \A d \in DOMAIN registry \ rulesTainted : stores[registry[d]].rules = RecoveredRules(d)

\* The server can be restarted when memory and log agree, no upload slipped
\* past the reasoner and no dataset ever had more than one ruleset: a ruleset
\* is accepted, and a write let through, only if they do not contradict.
RestartSucceeds ==
    /\ up
    /\ tainted = {} /\ rulesTainted = {} /\ unchecked = {}
    /\ MainDataset \in DOMAIN registry /\ registry[MainDataset] = Root
    /\ \A d \in DOMAIN registry :
          Cardinality(RulesetLog(d)) + (IF StartRules(d) = NoRules THEN 0 ELSE 1) <= 1
    => Startable
=============================================================================
