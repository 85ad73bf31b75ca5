--------------------------- MODULE EndpointLocks ---------------------------
(* The locks of the endpoint (sparql_endpoint/src) and the order in which   *)
(* its handlers take them, with the VQS cache (vqs_routes.rs), whose        *)
(* freshness rests on that order.  A handler is a sequence of steps:        *)
(*                                                                          *)
(*   Acquire(l, m)  wait for lock l in mode "r" or "w" (a Mutex: "w")       *)
(*   Release(l)     a guard is dropped before the handler returns           *)
(*   Do(e)          an effect under the locks held                          *)
(*                                                                          *)
(* tokio's locks are fair: waiters are served first come, first served, so  *)
(* a reader waits behind a writer that waits.  A handler that returns drops *)
(* every guard it holds.                                                    *)
EXTENDS Naturals, Sequences, FiniteSets

CONSTANTS Requests,     \* the requests in flight at a time
          MaxWrites,    \* bound on the number of writes
          FirstStore    \* the dataset that the registry's hash map lists first

Locks == {"registry", "store", "store2", "changelog", "transactions",
          "reasoner_slot", "reasoner", "rulesets", "vqs_cache"}

\* The order of the map's keys is arbitrary.  It is the same for all requests
\* that list them at a time: they hold the registry, so the map does not change.
ASSUME FirstStoreAssumption == FirstStore \in {"store", "store2"}

Acquire(l, m) == [act |-> "acquire", lock |-> l, mode |-> m]
Release(l)    == [act |-> "release", lock |-> l]
Do(e)         == [act |-> "do", effect |-> e]

\* let x = lock.await.field; -- the guard lives for one statement.
Peek(l) == <<Acquire(l, "r"), Release(l)>>
Within(l, m, steps) == <<Acquire(l, m)>> \o steps \o <<Release(l)>>

\* A handler that keeps a read guard of l reads l again.  It has to wait like
\* any other reader, behind a writer that waits for the handler's first guard.
\* The second guard is gone before the first and frees nothing when it goes.
Again(l) == <<Acquire(l, "r")>>

-----------------------------------------------------------------------------
(* The handlers, as the sequences of their lock operations                  *)

LogAppend == Within("changelog", "w", << >>)
Reason == Within("reasoner_slot", "r", Within("reasoner", "w", << >>))

run_select_query == <<Acquire("store", "r")>>
run_transactional_query == Within("store", "r", Within("transactions", "w", << >>))
run_transactional_update == <<Acquire("store", "w"), Acquire("transactions", "w")>>

\* With a reasoner and an owl:Nothing violation, the longest path.
run_update ==
    <<Acquire("store", "w")>> \o LogAppend \o Reason \o Peek("reasoner_slot")
        \o Reason \o <<Do("write")>>

\* gsp_put_inner and its siblings; they return with the slot still held.  With
\* a reasoner they leave the generation alone.
gsp_write ==
    <<Acquire("store", "w")>> \o LogAppend \o <<Acquire("reasoner_slot", "r"), Do("write")>>
gsp_write_reasoner ==
    <<Acquire("store", "w")>> \o LogAppend
        \o <<Acquire("reasoner_slot", "r"), Acquire("reasoner", "w")>>

\* upload_turtle logs before it takes the store, and leaves the generation
\* alone.
upload_turtle == LogAppend \o <<Acquire("store", "w")>>

dataset_ottr_post == Peek("registry") \o LogAppend \o <<Acquire("store", "w"), Do("write")>>
dataset_rml_post == dataset_ottr_post

\* The undo of an owl:Nothing violation goes past the reasoner here.
dataset_update_post ==
    Peek("registry") \o <<Acquire("store", "w")>> \o LogAppend \o Reason \o <<Do("write")>>

gsp_get_inner == <<Acquire("store", "r")>>

transaction_begin == Peek("store") \o Within("transactions", "w", << >>)

\* The guard of the slot lives to the end of the handler, which reads the slot
\* again to see whether there is a reasoner, and to undo a violation.
transaction_commit ==
    Within("transactions", "w", << >>)
        \o <<Acquire("store", "w"), Acquire("reasoner_slot", "r")>>
        \o Within("reasoner", "w", << >>) \o Again("reasoner_slot")
        \o Again("reasoner_slot") \o Within("reasoner", "w", << >>) \o <<Do("write")>>
transaction_rollback == <<Acquire("transactions", "w")>>

\* apply_combined_ruleset with a reasoner, without one, and without rules.
CombineDiff == Peek("reasoner_slot") \o Within("reasoner", "w", << >>)
CombineFirst == Peek("reasoner_slot") \o Within("reasoner_slot", "w", << >>)
CombineUnload == Within("reasoner_slot", "w", << >>)

\* Mutant: the store's guard is not kept while the rules are combined.
RulesBesideStore(combine) ==
    Peek("registry") \o Peek("store") \o combine \o Within("rulesets", "w", << >>) \o LogAppend

dataset_rules_post(combine) ==
    Peek("registry") \o <<Acquire("store", "w")>> \o combine
        \o Within("rulesets", "w", << >>) \o LogAppend
dataset_rules_id(combine) ==
    Peek("registry") \o <<Acquire("store", "w")>>
        \o Within("rulesets", "w", combine) \o LogAppend

\* admin_server, admin_list_datasets, admin_get_dataset
admin_info == <<Acquire("registry", "r")>>

\* admin_create_dataset, admin_delete_dataset
admin_registry == Within("registry", "w", LogAppend)

\* admin_compact holds the registry and every store, taken in the map's order.
SecondStore == IF FirstStore = "store" THEN "store2" ELSE "store"
admin_compact ==
    <<Acquire("registry", "r"), Acquire(FirstStore, "r"), Acquire(SecondStore, "r")>>
        \o LogAppend

\* A handler of the other dataset that logs under its store's lock.
write_store2 == <<Acquire("store2", "w")>> \o LogAppend

\* Mutant: the tag is read again after the graph was built.
TagAfterBuild ==
    Within("store", "r", <<Do("read_generation")>>)
        \o Within("vqs_cache", "r", <<Do("check")>>)
        \o Within("store", "r", <<Do("build")>>)
        \o Within("store", "r", <<Do("read_generation")>>)
        \o Within("vqs_cache", "w", <<Do("install")>>)
        \o <<Acquire("vqs_cache", "r"), Acquire("store", "r")>>

\* productive_values with a stale cache: the generation, the cache's tag, the
\* graph built from the store, the cache replaced, the answer.  The answer is
\* read from whatever the cache then holds, with the store behind it.
productive_values ==
    Within("store", "r", <<Do("read_generation")>>)
        \o Within("vqs_cache", "r", <<Do("check")>>)
        \o Within("store", "r", <<Do("build")>>)
        \o Within("vqs_cache", "w", <<Do("install")>>)
        \o <<Acquire("vqs_cache", "r"), Acquire("store", "r")>>

\* What the query route runs, by its parameters and its body.
sparql_get == {run_select_query, run_transactional_query}
sparql_post == sparql_get \cup {run_update, run_transactional_update}

\* The dataset routes find their dataset first.
Scoped(handlers) == {Peek("registry") \o h : h \in handlers}
dataset_read == Scoped(sparql_get \cup {gsp_get_inner})
dataset_write == Scoped({gsp_write, gsp_write_reasoner, run_update, run_transactional_update})

Handlers ==
    sparql_post \cup dataset_read \cup dataset_write
    \cup {gsp_get_inner, gsp_write, gsp_write_reasoner, upload_turtle, dataset_ottr_post,
          dataset_rml_post, dataset_update_post, transaction_begin, transaction_commit,
          transaction_rollback, admin_info, admin_registry, write_store2,
          productive_values, admin_compact}
    \cup {dataset_rules_post(c) : c \in {CombineDiff, CombineFirst, CombineUnload}}
    \cup {dataset_rules_id(c) : c \in {CombineDiff, CombineFirst, CombineUnload}}

-----------------------------------------------------------------------------

VARIABLES todo,     \* the steps each request has left; << >> when it has none
          held,     \* held[p]: the locks p holds, with their modes
          queue,    \* queue[l]: the requests waiting for l, with their modes
          generation, \* Datastore.generation; every tracked write moves it
          cache,    \* the generation the VQS cache is tagged with and the one
                    \* it was built at; tag 0 is no cache
          mine      \* what a productive_values request has read and built

vars == <<todo, held, queue, generation, cache, mine>>
Fresh == [tag |-> 0, built |-> 0]

Init ==
    /\ todo = [p \in Requests |-> << >>]
    /\ held = [p \in Requests |-> {}]
    /\ queue = [l \in Locks |-> << >>]
    /\ generation = 1
    /\ cache = Fresh
    /\ mine = [p \in Requests |-> Fresh]

\* A request arrives.  An idle server is not obliged to get one.
Arrive(p, h) ==
    /\ todo[p] = << >>
    /\ generation > MaxWrites => \A i \in DOMAIN h : h[i] # Do("write")
    /\ todo' = [todo EXCEPT ![p] = h]
    /\ UNCHANGED <<held, queue, generation, cache, mine>>

Waiting(p) == \E l \in Locks : \E i \in DOMAIN queue[l] : queue[l][i].who = p

\* The lock admits a holder in that mode.
Compatible(l, mode) ==
    \A q \in Requests : \A h \in held[q] :
        h.lock = l => mode = "r" /\ h.mode = "r"

\* A handler whose last step is done returns and drops its guards.
After(p, h) == IF Len(todo[p]) = 1 THEN {} ELSE h

Hold(p, l, mode) ==
    /\ held' = [held EXCEPT ![p] = After(p, @ \cup {[lock |-> l, mode |-> mode]})]
    /\ todo' = [todo EXCEPT ![p] = Tail(@)]

\* Mutant: readers pass a writer that waits.
FreeUnfair(l, mode) == Compatible(l, mode)

\* A request takes a free lock nobody waits for ...
Free(l, mode) == queue[l] = << >> /\ Compatible(l, mode)

Take(p) ==
    /\ todo[p] # << >>
    /\ ~Waiting(p)
    /\ Head(todo[p]).act = "acquire"
    /\ Free(Head(todo[p]).lock, Head(todo[p]).mode)
    /\ Hold(p, Head(todo[p]).lock, Head(todo[p]).mode)
    /\ UNCHANGED <<queue, generation, cache, mine>>

\* ... or joins the queue, whose first waiter is served first.
Wait(p) ==
    /\ todo[p] # << >>
    /\ ~Waiting(p)
    /\ Head(todo[p]).act = "acquire"
    /\ ~Free(Head(todo[p]).lock, Head(todo[p]).mode)
    /\ queue' = [queue EXCEPT ![Head(todo[p]).lock] =
                    Append(@, [who |-> p, mode |-> Head(todo[p]).mode])]
    /\ UNCHANGED <<todo, held, generation, cache, mine>>

Grant(l) ==
    /\ queue[l] # << >>
    /\ Compatible(l, Head(queue[l]).mode)
    /\ Hold(Head(queue[l]).who, l, Head(queue[l]).mode)
    /\ queue' = [queue EXCEPT ![l] = Tail(@)]
    /\ UNCHANGED <<generation, cache, mine>>

Drop(p) ==
    /\ todo[p] # << >>
    /\ Head(todo[p]).act = "release"
    /\ held' = [held EXCEPT ![p] = After(p, {h \in @ : h.lock # Head(todo[p]).lock})]
    /\ todo' = [todo EXCEPT ![p] = Tail(@)]
    /\ UNCHANGED <<queue, generation, cache, mine>>

\* The effects of productive_values.  An up-to-date cache skips the rebuild.
UpToDate(p) == cache.tag = mine[p].tag

SkipRebuild(steps) == SubSeq(steps, Len(steps) - 1, Len(steps))

Effect(p) ==
    LET e == Head(todo[p]).effect
    IN  /\ todo[p] # << >>
        /\ Head(todo[p]).act = "do"
        /\ generation' = IF e = "write" THEN generation + 1 ELSE generation
        /\ mine' = CASE e = "read_generation" -> [mine EXCEPT ![p].tag = generation]
                     [] e = "build" -> [mine EXCEPT ![p].built = generation]
                     [] e = "check" /\ UpToDate(p) -> [mine EXCEPT ![p] = Fresh]
                     [] e = "install" -> [mine EXCEPT ![p] = Fresh]
                     [] OTHER -> mine
        /\ cache' = IF e = "install" THEN mine[p] ELSE cache
        /\ IF e = "check" /\ UpToDate(p)
           THEN /\ todo' = [todo EXCEPT ![p] = SkipRebuild(@)]
                /\ held' = [held EXCEPT ![p] = {}]
           ELSE /\ todo' = [todo EXCEPT ![p] = Tail(@)]
                /\ held' = [held EXCEPT ![p] = After(p, @)]
        /\ UNCHANGED queue

Progress(p) == Take(p) \/ Wait(p) \/ Drop(p) \/ Effect(p)

Next ==
    \/ \E l \in Locks : Grant(l)
    \/ \E p \in Requests : Progress(p) \/ \E h \in Handlers : Arrive(p, h)

\* The runtime polls every task that can go on, and a fair lock wakes its
\* first waiter.
Fairness ==
    /\ \A l \in Locks : WF_vars(Grant(l))
    /\ \A p \in Requests : WF_vars(Progress(p))

Spec == Init /\ [][Next]_vars /\ Fairness

-----------------------------------------------------------------------------
(* Properties                                                               *)

Modes == {"r", "w"}
Step == [act : {"acquire"}, lock : Locks, mode : Modes]
            \cup [act : {"release"}, lock : Locks]
            \cup [act : {"do"}, effect : {"write", "read_generation", "check", "build", "install"}]

TypeOK ==
    /\ todo \in [Requests -> Seq(Step)]
    /\ held \in [Requests -> SUBSET [lock : Locks, mode : Modes]]
    /\ queue \in [Locks -> Seq([who : Requests, mode : Modes])]
    /\ generation \in Nat
    /\ cache \in [tag : Nat, built : Nat]
    /\ mine \in [Requests -> [tag : Nat, built : Nat]]

\* Every request returns, whatever handlers run beside it: the handlers take
\* their locks in orders that fit together.  A commit reads the reasoner's slot
\* again while it holds it, which would be its end behind a writer that waits
\* for the slot; but who writes the slot needs the store's lock first, which
\* the commit has.
EveryRequestReturns == \A p \in Requests : [](todo[p] # << >> => <>(todo[p] = << >>))

\* p waits in a queue for q: q has the lock in a mode that shuts p out, or
\* stands before p in the queue.
WaitsFor(p, q) ==
    \E l \in Locks : \E i \in DOMAIN queue[l] :
        /\ queue[l][i].who = p
        /\ \/ \E h \in held[q] : h.lock = l /\ ~(queue[l][i].mode = "r" /\ h.mode = "r")
           \/ \E j \in 1..(i - 1) : queue[l][j].who = q

\* There is no deadlock: of any requests, one waits for none of them.  A request
\* that waits for itself, behind a writer of a lock it reads twice, counts.
NoWaitCircle ==
    \A S \in SUBSET Requests : S # {} => \E p \in S : \A q \in S : ~WaitsFor(p, q)

\* A cache whose tag is the store's generation was built from all of the
\* store's tracked writes: the next request with that generation may use it.
CacheCurrent == cache.tag = generation => cache.built = generation
=============================================================================
