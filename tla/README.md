# A TLA+ model of dagalog (rdf-datalog)

dagalog is an RDF quad store with a Datalog reasoner, a SPARQL endpoint, a SHACL validator and
readers and writers of OWL ontologies. This directory models the parts of it where correctness
depends on long sequences of operations, on what runs beside them, on what fails half-way, or
on two pieces of code that have to agree; it checks them with TLC on small instances and proves
the storage layer, the stratifier, the reasoner, update requests, transactions, the changelog and the
lock discipline with TLAPS, for every instance.

## 1. Inventory

| Component | State | Operations | Uses | Hard about it |
|---|---|---|---|---|
| Quad table (`dag_rdf/src/quadtable.rs`) | vector of quads, dedup map, four indexes of positions, set of derived quads | `add_quad`, `add_intensional_quad`, `remove_quad`, `remove_graph`, `truncate_to`, getters | - | swap-removal moves a quad under every index; rollback by length |
| Pattern lookup (`datastore.rs`, `datalog.rs`) | - | `quads_matching`, `evaluate_pattern` | quad table | 16 binding patterns, each through another index |
| Stratifier (`datalog/src/stratifier.rs`, `unification.rs`) | dependency graph, predecessor counts, two queues | `RulePartitioner::new`, `order_rules` | - | breaking cycles; negation |
| Incremental reasoner (`datalog/src/incremental.rs`, `reasoner.rs`, `types.rs`) | programs (strata), disabled rules, derivation index, which rules negate | `new`, `apply_insertions`, `apply_deletions`, `apply_rule_insertions`, `apply_rule_deletions`, `rebuild_from_base` | quad table, stratifier | backward/forward maintenance, a threshold between two algorithms, undo logs, negation |
| Its callers (`reasoner_delta.rs`, `rules_endpoint.rs`, end of `sparql_update.rs`) | the reasoner slot of a dataset | `apply_reasoner_delta`, `apply_combined_ruleset`, `full_rebuild` | reasoner, quad table | recovery when a call fails half-way |
| Datastore (`datastore.rs`) | quads, interned resources, generation | mutators bump the generation | quad table | the reasoner and the uploads bypass the generation |
| SPARQL Update (`sparql_update.rs`) | the delta collected so far | one step per operation, then one application | datastore, changelog | CLEAR, DROP and LOAD act at once, the rest is collected |
| Transactions (`transactions.rs`, `transaction_routes.rs`, `query.rs`) | open transactions with buffers and a snapshot generation | begin, update, query, commit, rollback, lazy eviction after 60 s | datastore, reasoner | optimistic concurrency, eviction racing a commit |
| Changelog (`persistence.rs`, start-up in `lib.rs`, `admin.rs`) | an ordered log of entries | append, replay, discover, compact | datastore | log before apply, crash in between, compaction |
| Registry and rulesets (`registry.rs`, `rules_endpoint.rs`, `admin.rs`) | datasets, plain and named rulesets | create, delete, load, unload | reasoner, changelog | a dataset deleted under a request, log after apply |
| Endpoint locks (`lib.rs`, all routes, `vqs_routes.rs`) | registry, stores, changelog, transactions, reasoner slot, reasoner, rulesets, VQS cache with its tag | the lock order of each handler | everything above | deadlock; a cache built without the store's lock |
| Query planning and evaluation (`sparql_parser/src`) | the solutions so far | `order_components`, `order_patterns`, `eval_component`, paths, aggregates, query forms, EXPLAIN | datastore | reordering around OPTIONAL and MINUS; early stopping |
| SHACL (`shacl/src`) | shapes, derived violation facts, answers of queries, the report | read shapes, check cycles, rules, direct evaluation, batched queries, report | query evaluation, reasoner | two evaluators of one language |
| OWL syntaxes (`owl_ontology`, `owl2rl2datalog/src/owl_to_rdf.rs`, `rdf_owl_translator`, `owl_functional_parser`, `manchester_parser`, `owl_xml_parser`) | an ontology, a document | write and read in four syntaxes | - | writers skip, readers guess |
| OWL to Datalog (`owl2rl2datalog`, `eli`) | - | `owl2datalog`, ELI extraction and normalisation | stratifier | soundness and completeness of the rules |
| Turtle, TriG, JSON-LD, SPARQL and Datalog text, RML, OTTR, canonicalisation, VQS index, notebook kernel, authentication, blob snapshots, service description, front end | none shared | - | - | - |

How the parts interact: a request looks its dataset up in the registry, waits for the dataset's
store (a fair read-write lock), and under it takes the changelog, the transactions or the reasoner
in turn. Between the lookup and the store, between BEGIN's two critical sections, between COMMIT's
removal from the registry and its check, and between an upload's log entry and its write, other
requests run. Under the write lock a call is alone, and what it leaves behind when it fails
half-way is where the difficulty lies. The reasoner changes the quad table without the generation
counter; the changelog sees what was asked for, not what happened. Rules come from OWL documents
or from rulesets, through the stratifier, to the reasoner. SHACL evaluates shapes by Datalog rules,
by SPARQL queries and by its own code.

What makes each part correct:

- *Quad table*: indexes and vector always agree; a rollback restores quads and flags exactly;
  it behaves as a set.
- *Stratifier*: every rule is placed once; a rule comes after what it consumes and strictly
  after what it negates; exactly the programs with a negative cycle are rejected.
- *Reasoner*: between calls the store is the perfect model of its base facts under its active
  rules; the derivation index knows every derivation; a failed call changes nothing; calls return.
- *Updates and transactions*: a request has the effect of its operations in order, or none; a
  commit sees the state its transaction began with, and commits what was acknowledged; a
  transaction is decided once.
- *Persistence*: what was acknowledged survives a restart, and a restart is possible.
- *Locks*: every request returns; a cache that claims to be current is.
- *Queries*: planning, early stopping and threading leave the algebra's answers alone.
- *SHACL*: a shape means the same at the top and inside another; batching is invisible; circular
  shapes, and only they, are refused; the report says what was found.
- *OWL*: a document read back means what was written; annotations stay with their axioms; the
  rules derive what follows and nothing else.

## 2. Modules

| Module | Models | Kind |
|---|---|---|
| `QuadSet` | what the table promises: a set of quads with marks and one savepoint | abstract specification |
| `QuadTable` | `QuadTable`, one action per method; its getters and the two dispatchers over them | refines `QuadSet` |
| `RulePartitioner` | `RulePartitioner`, its methods as operators on its fields, one step at a time | operators |
| `Stratifier` | a run of `order_rules` on any of a set of rule vectors | specification |
| `IncrementalReasoner` | the reasoner and its two callers | specification |
| `StratifiedReasoner` | the reasoner with the strata that `RulePartitioner` computes when it runs to its end | composition |
| `Changelog` | quads, graphs and generation of a `Datastore`; log entries, append, replay, discovery, compaction | operators |
| `SparqlUpdate` | `prepare_update`, `apply_prepared_update` | operators over `Changelog` |
| `UpdateRequest` | one request, operation by operation | specification |
| `Transactions` | transactions beside every other writer | specification over `SparqlUpdate` |
| `Persistence` | datasets, rulesets, log, crash and restart | specification over `SparqlUpdate` |
| `EndpointLocks` | the lock order of every handler, the VQS cache | specification |
| `SparqlValues`, `SparqlPatterns` | terms, expressions; patterns, BGPs, paths | operators |
| `SparqlPlan`, `SparqlEval` | ordering and EXPLAIN; components, groups, query forms | operators |
| `SparqlQuery` | a query from planning to its answer; SPARQL's algebra as reference | specification |
| `ShaclShapes` | reading shapes and paths | operators |
| `ShaclEval`, `ShaclRules` | direct evaluation; what the Datalog rules derive | operators over `SparqlEval` |
| `ShaclValidate` | a validation, phase by phase | specification |
| `OwlOntology` | constructors of classes, ranges, axioms and rules, and what they hold | operators |
| `OwlRdf`, `OwlRdfReader` | writing to and reading from triples | operators |
| `OwlFunctional` | functional style, both ways | operators |
| `OwlManchester` | Manchester syntax, both ways | operators |
| `OwlXml` | reading OWL/XML | operators |
| `OwlRules` | `owl2datalog` | operators |
| `OwlSemantics` | OWL's direct semantics over a finite domain | reference definition |
| `OwlDocuments` | an ontology that is written, read back, written again, compiled and stratified | specification over all of the above and `Stratifier` |
| `MC*` | constants for TLC | instances |
| `QuadTable_proofs`, `Stratifier_proofs`, `IncrementalReasoner_proofs`, `EndpointLocks_proofs` | - | theorems about one module each |
| `SparqlUpdate_proofs` | - | lemmas about folds, stores, requests and their log entries |
| `UpdateRequest_proofs`, `Transactions_proofs`, `Persistence_proofs` | - | theorems about one module each, over those lemmas |

**QuadTable.** Variables have the names of the struct's fields; the four secondary indexes are
one function of their names, and a nested map is one map keyed by the pair. `truncate_to` and
`remove_graph` copy the surviving quads, reset the table and re-add them; the loop is a step per
quad (`RebuildStep`), so the invariants are also checked inside it. `savepoint` is the
`quad_count` that a caller in `incremental.rs` remembers before a phase that only appends; it is
dropped by a removal, since the code never rolls back across one. `mark_intensional` has no
caller and is left out. A lookup is an operator on the state: `quads_matching` and
`evaluate_pattern` choose one of the getters by the positions that are bound.

**RulePartitioner / Stratifier.** A rule is three sets of quads: those its head, its positive
atoms and its NOT atoms match. Two patterns unify when the sets meet. Rules are numbered by
their position in the vector, because queues and the depth-first search follow that order.
`update_successor` touches one successor only, so an iteration of `get_partition` does it for all of
them at once. The recursion of `dfs_cycle` is an explicit stack: `path` is the code's `path`, and
`todo` holds what each call on it has not yet looked at; a step of `Search` is one call, one edge
passed over, one return, or the end of `find_cycle`, which `handle_cycle` acts on.

**IncrementalReasoner.** The store is the set of `QuadSet` (`present`, `intensional`), which the
refinement theorem justifies: `truncate_to(n)` is "restore the snapshot of n", which is right as long as
nothing was removed since (`CutsBehindRemovals`). Rules are ground:
an instance is a substitution with its body witnesses, the quads its NOT atoms match and its
head; a recorded `Derivation` is an instance. `by_rule` is a function of the index and of `marks`
(`negatively_triggering_rules`). A client's call becomes a `task` that runs program by program:
`StartProgram` (bodyless rules, first delta), `Round` (one semi-naive iteration), `NextProgram`,
and an action for what follows the last program. A contradiction leads through the undo
operators (named as in the code) to `recover`, and from there to the callers' rebuild. A round
adds its heads at once, where the code adds them one by one: an instance may fire a round
earlier there, with the same fixpoint; a failing rebuild, whose partial round stays visible,
keeps any part of it. `task.pre` is history only: the state the client saw before the call.
`active_rules`, duplicates and the order of the `HashSet`s are abstracted to sets, with every
order of reactivation possible.

**StratifiedReasoner.** `Strata` of the reasoner is `order_rules` on the patterns of the rules,
taken in the order `RuleOrder`, run to its end by a recursive operator that only TLC evaluates; no
strata means `NotStratifiable`.

**SparqlUpdate / UpdateRequest.** An update `u` holds the store, the collected inserts and deletes
and whether it failed. Each operation is an operator on `u`: INSERT and DELETE DATA and WHERE
updates add to the collection, CLEAR, DROP, CREATE and LOAD change the store at once. The
application at the end deletes and inserts what was collected, the entries for the log are computed
beforehand from the store before the request. A WHERE update is the set of its solutions with
the quads each instantiates. `RequestAssumption` says what the parser guarantees: an operation's
fields are sets of quads and of graphs. A quad is a graph and a triple; `Repr` says what a quad is read back as
from the log (a triple term is not written as itself).

**Transactions.** The state is that of `TransactionRegistry` and the store; `req` is what a
request holds between two critical sections. A handler that keeps the write lock is one action.
`fate`, `began`, `acked`, `versions` and `hidden` are history: what became of a transaction, the
generation it began at, what it was told is buffered, the store's content at each generation, and
the quads changed without moving the generation. Time is the flag `idle`, which may become true at
any moment and is cleared by an access. The requests inside a transaction hold INSERT DATA and DELETE
DATA only, the rest is refused before the transaction is looked up (`RequestsAssumption`); a document may be any set of quads.

**Persistence.** `stores` are the stores in memory, `registry` names them; a handler holds the
store it found, also when the dataset is deleted or created again meanwhile. `Crash` forgets
everything but the log, `Restart` is `serve_on_listener` from discovery to the last replayed ruleset.
`tainted`, `rulesTainted` and `unchecked` are history: the quads and datasets for which one of the gaps
named in section 3 explains a difference between log and memory, and the datasets that gained quads
the reasoner was not asked about. Replaying quads and replaying rulesets are folds over the positions
of a log that are selected (`replay_at`, `rules_at`): those of the dataset's present life.

**EndpointLocks.** A handler is the sequence of its acquisitions, releases and effects, read off
its source; each lock has its holders and a FIFO queue, a reader queues behind a waiting writer.
A handler that returns drops what it holds. `transaction_commit` keeps its guard on the reasoner
slot to the end and reads the slot twice more meanwhile (`Again`); the other handlers drop it before they
read it again. Compaction locks every store in the order of a hash map:
which of two stores is the first is a constant, `FirstStore`, the same for every request.

**SparqlQuery.** Stores are sequences of quads, because order matters for early stopping. A clause
is a sequence of components; the specification plans it, evaluates component by component and
finishes with the query form. `Algebra` is SPARQL's bottom-up definition, written without regard
to the code. Remote SERVICE answers are the constant `PreResolved`.

**ShaclValidate.** A validation goes through the phases of `validate`: read, cycle check, syntax
check, rules, direct evaluation, the queries one by one, collection, report. Datalog rules are
modelled by the facts they derive at the fixpoint.

**OwlDocuments.** `held` is an ontology, `document` what was written from it, `loaded` what was
read. After a first trip through one syntax the result may be written again in the same or another
one, or be compiled; the compiled program is then split by `Stratifier`'s actions. Text is a
sequence of tokens, never characters; numbers of anonymous individuals are kept, since readers
renumber them. `OwlSemantics` enumerates the interpretations over a domain of two elements.

**Where the code is.** `PROJECT.json` gives, for each definition that translates code, the file and the
lines of the item it translates, its attributes and comments included. A helper that serves one such
definition only and stands for a part of the same lines is found under that definition.

## 3. Runs

| Run | Instance and bounds | States | Shows |
|---|---|---|---|
| `quadtable` | 4 quads over 3 identifiers in 2 graphs: each index has a shared key and a key of its own | 14 453 | `IndexesExact`, `LookupsExact` after every step; `ImplementsQuadSet` |
| `reasoner_positive` | 7 facts, 8 rules: two derivations of `c`, a cycle `c`-`d`, an alternative for `f`, a contradiction two rounds from its facts; updates of up to one deletion and one insertion; 5 rulesets; any initial facts | 203 767 | `ClosureExact`, `IndexComplete`, `CutsBehindRemovals` |
| `reasoner_negation` | 8 facts, 7 rules in 3 strata, insertions only, a bodyless rule | 17 976 | `ClosureExact`, `CallsReturn` |
| `reasoner_rulesets` | 6 facts, 7 rules, rulesets that are contradictory or not stratifiable | 238 757 | `UndoExact`, `RulesetKeepsBase` on every failure path |
| `update_request` | any request of up to 3 of 21 operations over 5 quads in 3 graphs, any initial store | 213 352 | `RequestOutcome`: 200 means in order, an error that nothing collected was applied; `LogReplaysToResult` |
| `transactions` | 2 transactions, 2 requests in flight, 2 quads that together violate owl:Nothing, with and without a reasoner; generation up to 2 | 525 237 | `FirstCommitterWins`, `CommitOnSnapshot`, `DecidedOnce`, `AcknowledgedWritesCommitted` |
| `persistence` | 2 datasets, 2 requests in flight, 4 quads (one from the data files, one derived, one that the log cannot hold), one ruleset, plain or named; at most 3 log entries, 3 requests, 3 stores | 942 305 | `QuadsDurable`, `DatasetsDurable`, `RulesDurable`, `RestartSucceeds` |
| `locks` | any two of the handlers at once, again and again; no writer arrives after the second tracked write | 251 613 | `NoWaitCircle`, `EveryRequestReturns`, `CacheCurrent` |
| `sparql_queries` | every clause of up to 2 components from a pool of some 70, of 3 from its core of 10, 2 stores, 6 query heads | 127 850 | `ReorderPreservesAnswers`, `AgreesWithAlgebra`, `BudgetIsPrefix`, `PathsAreRelations`, `ExplainMatchesRun` |
| `shacl` | some two thousand shapes graphs, 2 data graphs | 51 256 | `NestedAgrees`, `RefusalExact`, `BatchingInvisible`, `ReportReadsBack` |
| `ontologies` | some 300 ontologies: every constructor alone, declared or not, annotated or not, and groups that meet; every vector of up to 3 rules over 3 predicates with up to one NOT atom, heads up to renaming; interpretations over 2 elements | 207 035 | `TreeExact`, `SecondTripStable`, `ReadingMeansTheSame`, `AnnotationsFollowAxioms`, `RulesSound`, `RulesComplete`; `EachRuleOnce`, `AcyclicOrdered` |
| `livelock` | a recursive rule that negates what depends on it | 837 | ends in a violation of `CallsReturn`, see below |

All runs explore the full reachable state space. Histories are unbounded except in `transactions`
(generation), `persistence` (log, requests, stores) and `locks` (writes), where a counter grows
with every step. The bounds leave room for the shortest interesting cases: two commits at one
generation and an expiry between them, a dataset created, deleted and created again under a
request, a compaction between two crashes. Requests and transactions are interchangeable and
declared symmetric; the properties of those runs are invariants and action properties.
The reasoner's instances hold two derivations of one fact, a recursion, facts both asserted and
derived, and derivations on both sides of the 25 % threshold.

**Fairness.** `CallsReturn` assumes `WF_vars(Step)`, steps of a call under way: the call owns the
store's write lock and the reasoner's mutex, loops without waiting for anything, and the runtime
schedules it. `EveryRequestReturns` assumes weak fairness of each request's own steps and of each
lock's hand-over to its first waiter: tokio polls every task that was woken, and its locks are fair
queues. Arrivals of new requests and new calls are not fair. `CHECK_DEADLOCK` is off where the model
may stop: a bound is reached, or a query, validation or document is finished.

**What the properties except**, always because the code does something else there on purpose or by
a mistake told below:

- `reasoner_positive` has no negation, no reload of a rule in an order that lands it below its
  producer, and no ruleset that a loaded reasoner's facts contradict; `reasoner_negation` has no
  deletions; `reasoner_rulesets` does not check `ClosureExact`.
- `RequestOutcome` and `LogReplaysToResult` leave out quads that one request both adds and takes
  away. `LogReplaysToResult` is about requests of which every operation is logged.
- `CommitOnSnapshot` leaves out quads changed behind the generation counter.
- The `tainted` quads of `QuadsDurable` are those of refused requests, committed transactions, WHERE
  and LOAD updates, requests to a dataset deleted under them, uploads that lost a race with a
  compaction, and what compaction cannot say; all others must survive. `RestartSucceeds` assumes at
  most one ruleset in a dataset's history.
- `ReorderPreservesAnswers` and `AgreesWithAlgebra` leave out a path with one variable at both ends
  and a BIND inside an OPTIONAL that reads variables from outside; the latter also OPTIONALs that
  are not well designed.
- `NestedAgrees` (`Comparable`) leaves out sh:minCount beside sh:hasValue, counts on the focus
  node, disjoint qualified shapes, bounds that are not numbers, and the language range `*`.
- `TreeExact` assumes rule arguments that functional style tells apart (`ArgumentsSorted`).
  `ReadingMeansTheSame` leaves out of RDF what its reader gives another meaning (`Misread`: datatype
  definitions, complex data ranges) and does not ask back what a syntax has no form for (`Lost`).
  `RulesSound` and `RulesComplete` assume that no two concepts share a representative, and
  `RulesComplete` is about the statements that are expressible as rules (`Expressible`).

**The violation.** `order_rules` promises to reject a dependency cycle through a negative edge. A
recursive rule that negates something depending on it is accepted, because the search stops at the
rule's own loop; an insertion then retracts and re-derives the same facts for ever, holding the lock.

### Seen while modelling

Differences between what the code does and what its documentation says or a reader would expect,
met while the properties were made to fit the code or while they were proved.

*Stratifier and reasoner.* `[q <- t; p <- s, NOT q; t <- q]` is rejected and the same rules in
another order accepted (the search takes any negative edge it passes for a cycle); `p <- p, e, NOT
q` with `q <- q, f` places `p` before `q`. A deletion that falls back to full re-materialisation
resets the set of negating rules, and an insertion afterwards retracts nothing. With `c <- e`, `b <-
a, NOT c`, `d <- a, NOT b`, deleting `e` derives `b`, and `d` stays. Deleting a base fact removes an
asserted fact with a derivation through it. The rollback of a rejected request removes facts it asked
to insert that were stored before; a rejected ruleset leaves the store stripped under the old
reasoner. A rule retracted and loaded again returns to its old stratum, below a rule appended
meanwhile that feeds it. The removal of a rule keeps the derivations of asserted facts whose witnesses it
retracts: with `c <- a`, `f <- c`, a program `g <- f` appended, and `a` and `f` asserted, removing `c <- a`,
deleting `f` and inserting `c` derives `f` again, but `record()` has that derivation already, so
`apply_insertions` does not hand `f` to the later program and `g` is missing (seen below the threshold of
25 %). A fact asserted while it is derived is not promoted to a base fact; the undo
of a deletion puts back asserted facts as derived ones; a bodyless rule adds base facts that outlive
it.

*Updates and transactions.* `DELETE q; INSERT q` in one request removes `q`, `INSERT q; CLEAR` keeps
it. "The live store is unmodified" on failure (`sparql_update.rs:1015`) is not so after a CLEAR or a
LOAD. `run_transactional_update` drops a delete of a quad that an earlier request of the same
transaction inserted, although its comment says it keeps it. Uploads, and the graph store protocol
when there is a reasoner, change the store without moving the generation: entity tags, commits and the VQS
cache do not notice. OTTR and RML add quads past the reasoner. A commit filters its
inserts by the deletes that are stored (`transaction_routes.rs:103`), so a quad that the transaction inserts
and deletes again, and that is not stored, is added; a query inside the transaction does not show it. `dataset_update_post` undoes an
owl:Nothing violation past it, where `run_update` goes through it.

*Persistence.* WHERE updates, LOAD and committed transactions are not logged, and a refused update is. What a LOAD in a refused or failed request added stays in memory and has
passed no check, so the rulesets the log holds may not apply to it at the next start.
Compaction writes derived quads as base facts, brings deleted `--data` quads back at the next start,
loses an acknowledged upload that was logged but not applied, and has no marker for a re-created main
dataset. Deleting the main dataset is undone by a restart; the root routes go on writing to the
deleted store and log under its name. Rulesets of the past are replayed against the final quads, so
that any contradiction between the two keeps the server from starting. Posting a named ruleset drops
the rules of plain ones, which its documentation says are left alone.

*Queries.* `?x :p+ ?x` overwrites its first binding. `GRAPH ?g { :a :p+ ?y }` walks across graphs and
leaves `?g` unbound, though `must_bind_vars` counts it. `&&` and `||` take errors for false and
`!error` is true; IN, NOT IN and EXISTS give nothing where a value is asked for. `"1"^^xsd:boolean` is
false in a filter and true in a comparison. COUNT makes a number that does not join with a typed one.
ORDER BY sorts projected rows; GROUP BY over no solutions gives one empty group; `SELECT *` omits
variables that only occur in a triple term.

*SHACL.* sh:minCount and sh:hasValue share a helper predicate per property. A shape with its own
sh:path has some constraints applied to the focus node. Nested evaluation does not look at sh:closed,
sh:sparql and custom components, although its comment says it has the full semantics. An sh:targetNode
that is not in the data is seen by the rules and not by direct evaluation. Bounds that are strings,
booleans written `1` and the language range `*` are treated differently by the two evaluators. Only the
first sh:not is read. IRIs with other schemes than http, https and urn come out of the report as
literals.

*OWL syntaxes.* RDF: lists of equivalent classes come back as pairs; complex data ranges as
owl:Literal, which is not sound in negative positions; datatype definitions as equivalent classes;
unqualified data cardinalities and disjoint data properties as object ones; keys, assertions of complex
classes, annotation assertions and the annotations of declarations not at all; nodes of restrictions
and annotated axioms as individuals; undeclared properties as object properties. The triples of a
filler stay when the axiom around it is skipped. Manchester: an empty key or a NaN literal makes the
whole document unreadable, although the writer promises valid syntax; statements that no frame is for
are dropped; built-ins with one or two arguments are read as class or property atoms. OWL/XML takes any
third element of a data assertion for a literal and negative cardinalities for numbers.

*OWL to Datalog.* The representative of a complex concept is the *length* of its debug text
(`eli/src/extractor.rs:20`): concepts of equal length share one, and the rules are then unsound. The
polarity of fillers is swapped in the normalisation, so that `A SubClassOf p only B` derives nothing
about the filler. A nested intersection restarts the numbering of its witnesses and shares them.
Anonymous individuals of assertions and of RDF are different nodes; owl:Nothing and owl:Thing are
ordinary classes.

## 4. Proofs

Every theorem is about `Spec` with arbitrary constants, under the assumptions the modules name: sets
of quads are finite where a cardinality is taken, requests are sequences of well-formed operations,
and what each section says. None of the invariants TLC checks is inductive alone; each section names
the invariant that is and what its parts are for.

**Storage layer** (`QuadTable_proofs`; assumption: quads are records over the identifiers, and the
value that stands for "no graph" is no identifier).
`TypeCorrect`, `DedupStaysInverse`, `IndexesStayExact`, `FlagsStayOnStored` (only stored quads are
marked as derived), `LookupsStayExact` (every lookup, through every index), and
`TableImplementsQuadSet`: `Spec => Abs!Spec`.
The first two have no place in the run: a slip in the dedup map shows there as a wrong index or a broken refinement.
`IInv` conjoins the invariants with `RebuildShape` (a rebuild under way has no savepoint and no flags
yet): `remove_quad` keeps the indexes exact only if the dedup map gives the quad's slot, the flags
survive a rebuild only if they name quads stored or still to come, and the refinement of a rollback
needs the savepoint to lie within the vector. Lemmas say what `SwapRemove`, `Rewrite`, `PushEntry`,
`RemoveEntry` and `RelocateEntry` do to a duplicate-free list of positions. In the refinement a rebuild
step is a stutter (`Stored` and `Pending` exchange a quad), the reset of a rollback is `Restore`, that
of `remove_graph` is `RemoveAll`.

**Stratifier** (`Stratifier_proofs`; assumption: a program is a sequence of rules).
`Invariance`, `EachRuleIsOnce` (`EachRuleOnce`, whatever cycles were broken) and `AcyclicIsOrdered`
(`AcyclicOrdered`).
`IInv` says of a run that has not ended: the queues, the partition and the strata hold no rule twice
(`QueuesApart`, `StrataApart`) and together exactly the rules that wait for nothing (`AllQueued`); a rule
that waits counts the predecessors not yet placed (`Counts`); between partitions nothing is held back
(`Between`). So when the queues are empty and `topological_sort_finished` is false a rule is `Blocked`, and
every blocked rule has a blocked predecessor. Termination with every rule placed needs more: a search that
found nothing would leave `order_rules` with an empty queue, and it would return without the blocked rules.
That this cannot happen is the search's invariant: a call of `dfs_cycle` has only returned from rules that
lead to no cycle (`DoneEnds`: no set of them in which each feeds another), what a running call passed over
has returned (`Progress`), and the candidates tried lie on no cycle (`Tried`). The blocked rules include a
cycle since they are finitely many and each waits for one of them, so the search ends on one of its rules.
For programs without cycles `AfterWhatItUses` (a rule is queued after all it consumes, and what it
negates is in a stratum that is closed) carries the order of the strata; the search is then never
entered, so no negative edge is ever reported.

**Reasoner** (`IncrementalReasoner_proofs`; assumptions: an instance is of a rule and over facts, a
stratification puts each rule in one stratum, a net insert is no net delete).
`ReasonerInvariant`, `TypeCorrect`, `UndoRestores` (`UndoExact`), `RulesetsKeepBase`,
`CutsStayBehindRemovals` (`CutsBehindRemovals`), and for programs
without negation `IndexStaysComplete` (`IndexComplete`) and `ClosureStaysExact` (`ClosureExact`).
`ReasonerInv` is `Shape` and `Alive` (the call under way, the index, marks and disabled rules name
loaded rules only, a running call is at a program that exists), `Undo` (for each of the four kinds of
call, what the store and the index have become is what the client saw plus the tracked insertions,
minus the logged removals: an undo may come at any step, so this must hold at every step), `Inserting`
(the programs appended by a ruleset's insertion are the ones its undo drops) and `Base` (a removal of
rules holds the base facts it would put back). `CutsBehindRemovals` is inductive beside it: the phases that
only append keep the remembered length, and each that removes is reached by a step that sets a new one or
enters a phase without truncating undo. `UndoRestores` needs no property of the stratification,
and holds for negation too.
`IndexStaysComplete` and `ClosureStaysExact` are about rules without NOT atoms (`Positive`), which
`order_rules` leaves in one stratum (`FastPath`, its `pure_positive` branch; `reasoner_positive` satisfies
both), and about the executions in which, as long as a reasoner is loaded, no ruleset is rejected under it
and no rollback fails, and either there is one program (`OneProgram`: any updates, any rules removed and
loaded again, but no appended program) or no rule is ever removed (`OnlyAdded`: any updates, any number of
programs). Each condition excludes something told in section 3: a stripped store under the old reasoner; a
rule that returns below a program that feeds it; a derivation kept for an asserted head when its body is
gone. `Complete` says what a call has still to look at: every recorded instance of a program that the
pass has been through, or that the inserts so far do not touch, has fired (`Fed`, in `FullPass` and
`FactsPass`), and what bodyless rules assert is stored. `Grounded` says that every stored quad follows from
the base facts by the active rules. It survives a retraction because the index was complete: what the
backward phase leaves (`CascadeClosed`) is derived without what it took (`ApplyDeletionsExact`,
`ApplyRuleDeletionsExact`). With several programs an appended one must not feed an earlier one (`Apart`, the
test of `apply_rule_insertions`), and a record must have its body and head in the store whenever a re-derivation is to count as new
(`Support`): otherwise the programs after it would not be handed the quad.

**Update requests** (`UpdateRequest_proofs`; requests of any length).
`RequestInvariant`, `TypeCorrect`, `RequestsTakeEffectInOrder` (`RequestOutcome`), `LogSaysTheSame`
(`LogReplaysToResult`).
`RequestInv` says of a request that is still open: `View`, the store with the collection applied to it,
is what the operations in order would have made, unless some quad clashed (`InOrder`); only quads that
CLEAR, DROP or LOAD name differ in the store itself (`EagerOnly`, `OnlyCleared`); the collection holds
what the request touched (`Touched`); and the prepared entries decide, quad by quad, what the
collection does (`LogAgrees`). The last one is the reason why logging every operation from the store
before the request is harmless.

**Transactions** (`Transactions_proofs`; any number of transactions, requests and generations).
`TransactionsInvariant`, `TypeCorrect`, `OneCommitPerGeneration` (`FirstCommitterWins`),
`TransactionsDecidedOnce`, `CommitsMeetSnapshot` (`CommitOnSnapshot`), `AcknowledgedWritesKept`.
`TxInv`: an open transaction is in the registry or with exactly one committing request (`Registered`,
`InFlight`, `Once`), and its buffer is what its acknowledged requests come to, up to a delete that is
pointless on the present generation; a committed one began before the present generation (`Hist`); the
store differs from the version recorded at its generation in hidden quads only (`Vers`). A commit that
passes the generation check is then on its snapshot, and the bump rules out the second one.

**Changelog** (`Persistence_proofs`; assumptions: finitely many quads and datasets; any rulesets, any
bounds).
`QuadInvariant`, `TypeCorrect`, `QuadsAreDurable`, `DatasetsAreDurable`, and with the rulesets
`RuleInvariant`, `RulesAreDurable`, `RestartsSucceed`.
`QuadInv`: the shape of log, stores and requests (`Typed`); no two names share a store, and a request
that holds a registered store holds its own dataset's (`Owners`: without it a write under one name would
change another's memory); the registered names are those the log finds (`DatasetsDurable`); memory and
replay agree on each quad or it is marked (`Durable`); and the quads of an upload that waits between its
log entry and its write are in the replay, unless it lost a race (`Waiting`: this is what makes the
unmarked write afterwards agree). `RuleInv` adds that the root store serves the main dataset only as long
as no other was created under its name (`RootStart`), that the rulesets in force are those the log forces
(`RulesAgree`) and that the reasoner has accepted what an unmarked dataset holds (`Asked`).
The proof has a lemma per kind of log step (entries of one dataset, a ruleset, a creation, a deletion, a
compaction) that says what each dataset's replay becomes, and one per action on top of it. The hardest are
`CollectSettles` and `ReplaySettles`: the entries of a request and its collected delta leave every quad
that does not clash in the same state; and `CompactRebuilt` with `ForcedCompact`: replaying a compacted log
gives the snapshot and the same rulesets. `RestartsSucceed` excludes marked state and more than one
ruleset per dataset, see "What the properties except".

**Locks** (`EndpointLocks_proofs`; any set of requests).
`LocksInvariant`, `CacheStaysCurrent` (`CacheCurrent`), `WritersStayAlone`, `EffectsNeverConflict`,
`SlotNeverAwaited`, `NeverLocksUp` (`NoWaitCircle`).
`LockInv`: what is left of every handler runs from the guards it holds to none, acquiring in rising order
of `Rank`, but for a commit, which reads the reasoner slot again while it holds it (`Reread`), and touching
the slot only under the store's write lock (`Nested`) (`Fits`, with `Sound` for a cache that was built under an
older tag); holders and queues agree with that (`Exclusive`, `Waiters`, `OnePlace`); and nobody waits for the
slot (`SlotAtOnce`). The order of the locks alone would not do: a read of a lock that one holds already waits
behind a queued writer, which waits for the guard. What rules that out is that who asks for the slot has the
store for writing, so that it is alone there: the slot is free or held by itself, and is given at once
(`SlotNeverAwaited`). `NeverLocksUp` takes a circle of waiting requests: at each of its members the next one
holds the awaited lock or is ahead in the queue for it, somebody of the circle is first in the queue it is in,
and waits for a holder; the holder waits for a lock that comes later in the order, since what it waits for is
not the slot and so is no re-entrant read. Ranks rise around the circle, which cannot be. This is the safety half of
`EveryRequestReturns`.

**How the folds are handled.** The library's induction theorems take an operator and cannot be used by the
installed provers. `SparqlUpdate_proofs` derives induction over sets of numbers from the well-foundedness of
`<` (`SetInduction`, `BoundedInduction`), then that every fold has a sequence of intermediate values
(`FoldSteps`) and that such a sequence is unique (`FoldUnique`). What a fold computes is then an induction
over that sequence, written out where it is needed.

**Only model-checked:**

- liveness (`CallsReturn`, `EveryRequestReturns`), out of the prover's reach;
- everything over recursive operators: the SPARQL, SHACL and OWL modules. tlapm loses its SMT backend there;
- `ClosureExact` under negation (`reasoner_negation`), and `ClosureExact` and `IndexComplete` where rules are both
  removed and appended (`reasoner_positive`). They do not hold in general (section 3).

## 5. Not modelled

- Turtle, TriG, JSON-LD, SPARQL and Datalog text, the Turtle of reports: grammars over
  characters, whose results the modules take as inputs. Of the OWL text syntaxes tokens are
  modelled, characters and prefixes are not.
- RML, OTTR, canonicalisation and the VQS index: pure functions over large inputs; their endpoints
  are writers or readers in `Transactions`, `Persistence` and `EndpointLocks`.
- String, date and hash functions of SPARQL beyond the ones in `SparqlValues`, BNODE(), the profiler.
- Variables and substitutions in the reasoner's rules, which are ground; `UnsafeRule`, a construction
  that is rejected without effects; interning of resources, which the models take for a bijection.
- Authentication, address rules of outgoing requests, blob snapshots, service description, front
  end, notebook kernel, command-line options: no state of their own, or pure I/O.

## 6. Plan

1. *Done*: quad table; stratifier; reasoner with its callers; update requests, transactions, changelog,
   registry and rulesets with crashes; locks; query planning and evaluation; SHACL; OWL syntaxes and rules.
2. *Done*: proofs for the quad table, the stratifier, the reasoner's undo logs, update requests, transactions, the
   changelog with its rulesets, and the locks.
3. *Done* for programs without negation: the derivation index is complete, and the closure exact. Next: insertions
   under negation, with the perfect model stratum by stratum.
4. A refinement of the changelog: a map from datasets to quads and rulesets that a crash leaves alone, for
   executions without the gaps of section 3.
