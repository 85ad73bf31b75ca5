----------------------------- MODULE Changelog -----------------------------
(* The durable changelog (sparql_endpoint/src/persistence.rs): what an      *)
(* entry records, what replaying the log rebuilds and what compaction       *)
(* leaves of it.  A log is a sequence of entries; redb makes every append   *)
(* and every compaction atomic, so a log is never seen half written.        *)
(*                                                                          *)
(* Quad entries do not hold the quad but a portable form of its terms.      *)
(* Repr[q] is the quad that form reads back as: q itself for IRIs and       *)
(* parsed literals, another quad when q holds an RDF 1.2 triple term, which *)
(* is written as a blank node.                                              *)
EXTENDS Naturals, FiniteSets, Sequences, SequencesExt

CONSTANTS Default,      \* the default graph
          MainDataset,  \* "ds", which exists without being created
          Repr          \* to_repr followed by from_repr, on quads

-----------------------------------------------------------------------------
(* The quads and the generation counter of a store (dag_rdf/src/datastore.rs). *)
(* A store is a record [quads, generation]; a quad is a record with a field  *)
(* "graph".  Every operator is one mutator of struct Datastore, applied to a *)
(* set of quads one call per quad.  A caller that holds a list with          *)
(* repetitions calls the mutator once more for each: only whether the        *)
(* generation moved at all is ever observed.                                 *)

\* Datastore::add_quad bumps the generation whether or not the quad is new.
AddQuads(st, Q) ==
    [quads |-> st.quads \cup Q, generation |-> st.generation + Cardinality(Q)]

\* Datastore::remove_quad, likewise.
RemoveQuads(st, Q) ==
    [quads |-> st.quads \ Q, generation |-> st.generation + Cardinality(Q)]

\* Datastore::remove_graph, once per graph of G.
RemoveGraphs(st, G) ==
    [quads |-> {q \in st.quads : q.graph \notin G},
     generation |-> st.generation + Cardinality(G)]

\* store.named_graphs.add_quad: the quad table behind the datastore's back,
\* which leaves the generation alone.
AddUntracked(st, Q) == [st EXCEPT !.quads = @ \cup Q]

\* The graphs that hold a quad: the keys of triple_id_index.
GraphsOf(st) == {q.graph : q \in st.quads}

-----------------------------------------------------------------------------
(* Entries                                                                  *)

InsertEntries(ds, Q) ==
    {[op |-> "InsertQuad", dataset |-> ds, quad |-> Repr[q]] : q \in Q}
DeleteEntries(ds, Q) ==
    {[op |-> "DeleteQuad", dataset |-> ds, quad |-> Repr[q]] : q \in Q}
ClearEntries(ds, G) ==
    {[op |-> "ClearGraph", dataset |-> ds, graph |-> g] : g \in G}

is_ruleset_entry(e) ==
    e.op \in {"ReplaceRuleset", "SetNamedRuleset", "DeleteNamedRuleset"}

\* The dataset an entry belongs to; registration entries belong to none.
entry_dataset(e) ==
    IF e.op \in {"CreateDataset", "DeleteDataset"} THEN {} ELSE {e.dataset}

\* The effect of an entry on a bare set of quads.
apply_entry(S, e) ==
    CASE e.op = "ClearGraph" -> {q \in S : q.graph # e.graph}
      [] e.op = "InsertQuad" -> S \cup {e.quad}
      [] e.op = "DeleteQuad" -> S \ {e.quad}
      [] OTHER -> S

\* The quads that read back as themselves, and that no other one reads back as.
Faithful(Q) == {q \in Q : \A p \in Q : Repr[p] = q <=> p = q}

-----------------------------------------------------------------------------
(* Replay                                                                   *)

\* The entries at the positions of K, in log order.
At(log, K) ==
    FoldLeftDomain(LAMBDA es, i : IF i \in K THEN Append(es, log[i]) ELSE es, << >>, log)

\* What the entries at the positions of K make of S, one after the other.
replay_at(S, log, K) ==
    FoldLeftDomain(LAMBDA T, i : IF i \in K THEN apply_entry(T, log[i]) ELSE T, S, log)

Registrations(log, d, ops) ==
    {i \in DOMAIN log : log[i].op \in ops /\ log[i].name = d}

\* create_cutoffs: the position of the dataset's latest CreateDataset.
Cutoff(log, d) == Max({0} \cup Registrations(log, d, {"CreateDataset"}))

\* Mutant: deletions are not looked at.
discover_created(log) ==
    {log[i].name : i \in {j \in DOMAIN log : log[j].op = "CreateDataset"}}

\* The names whose latest registration entry is a CreateDataset.
discover_dataset_names(log) ==
    {d \in {log[i].name : i \in {j \in DOMAIN log : log[j].op = "CreateDataset"}} :
        Cutoff(log, d) > Max({0} \cup Registrations(log, d, {"DeleteDataset"}))}

\* Mutant: the dataset's earlier lives are replayed too.
SinceEver(log, d, from) == {i \in DOMAIN log : d \in entry_dataset(log[i])}

Since(log, d, from) == {i \in DOMAIN log : i >= from /\ d \in entry_dataset(log[i])}

\* The main dataset's entries on top of the quads of the data files.
replay_into(log, base) ==
    replay_at(base, log, Since(log, MainDataset, 0))

\* Any other dataset starts empty at its latest creation.
replay_dataset(log, d) ==
    replay_at({}, log, Since(log, d, Cutoff(log, d)))

\* ruleset_entries: the positions of the rulesets of D's present lives.
ruleset_entries(log, D) ==
    {i \in DOMAIN log : /\ is_ruleset_entry(log[i])
                        /\ log[i].dataset \in D
                        /\ i >= Cutoff(log, log[i].dataset)}

-----------------------------------------------------------------------------
(* Compaction: one snapshot per registered dataset, with a creation marker  *)
(* for all but the main one, then the ruleset entries still in force.       *)

Snapshot(d, Q) ==
    (IF d = MainDataset THEN << >> ELSE <<[op |-> "CreateDataset", name |-> d]>>)
        \o SetToSeq(InsertEntries(d, Q))

\* stores maps every registered dataset to its quads.
Snapshots(stores) ==
    FoldLeft(LAMBDA l, d : l \o Snapshot(d, stores[d]), << >>, SetToSeq(DOMAIN stores))

\* Mutant: the rulesets are forgotten.
CompactQuadsOnly(log, stores) == Snapshots(stores)

compact_multi(log, stores) ==
    Snapshots(stores) \o At(log, ruleset_entries(log, DOMAIN stores))
=============================================================================
