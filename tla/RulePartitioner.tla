--------------------------- MODULE RulePartitioner ---------------------------
(***************************************************************************)
(* datalog's RulePartitioner: the order in which rules are materialised.   *)
(* Its methods are operators on the partitioner's fields, so that the      *)
(* algorithm can be stepped through (Stratifier) and run to its end        *)
(* (StratifiedReasoner).                                                   *)
(*                                                                         *)
(* A rule is the sets of quads its head, its positive body atoms and its   *)
(* NOT atoms match; a contradiction rule has an empty head.  Two patterns  *)
(* unify when some quad matches both.  Rules are numbered in the order of  *)
(* the vector, which decides the order of every queue and of the search.   *)
(* The flags of the rules are the sets of rules that have them.            *)
(* new drops repetitions: equal records are rules that match alike.        *)
(***************************************************************************)
EXTENDS Naturals, Sequences, FiniteSets

\* depending_rules: rule j consumes what rule i produces.
Edge(rules, i, j) ==
    CASE rules[i].head \cap rules[j].neg # {} -> "negative"
      [] rules[i].head \cap rules[j].neg = {} /\ rules[i].head \cap rules[j].pos # {} -> "positive"
      [] OTHER -> "none"

RuleIds(rules) == 1..Len(rules)

successors(rules, i) == {j \in RuleIds(rules) : Edge(rules, i, j) # "none"}

predecessors(rules, j) == {i \in RuleIds(rules) : Edge(rules, i, j) # "none"}

pure_positive(rules) == \A k \in RuleIds(rules) : rules[k].neg = {}

\* The rules of S in the order of the vector.
InOrder(S) ==
    [k \in 1..Cardinality(S) |-> CHOOSE i \in S : Cardinality({h \in S : h <= i}) = k]

First(S) == CHOOSE i \in S : \A j \in S : i <= j

\* RulePartitioner::new
new(rules) ==
    [rules            |-> rules,
     num_predecessors |-> [j \in RuleIds(rules) |-> Cardinality(predecessors(rules, j))],
     output           |-> {},
     uses_negative    |-> {},
     ready_queue      |-> InOrder({j \in RuleIds(rules) : predecessors(rules, j) = {}}),
     next_queue       |-> << >>,
     partition        |-> << >>,
     stratification   |-> << >>,
     candidates       |-> {},    \* find_cycle: where the search has not started yet
     visited          |-> {},    \* dfs_cycle: since its start
     path             |-> << >>, \* the rules whose call of dfs_cycle has not returned
     todo             |-> << >>, \* what is left of the loop of each of those calls
     status           |-> "start"]

\* update_successor goes on to count i off for j.
Awaits(p, i, j) ==
    /\ Edge(p.rules, i, j) # "none"
    /\ j \notin p.output
    /\ p.num_predecessors[j] # 0

\* The rules that wait for nothing else once i is placed.
Released(p, i) == {j \in RuleIds(p.rules) : Awaits(p, i, j) /\ p.num_predecessors[j] = 1}

\* Slip: rules with negation are not held back for the next partition.
HeldBackNever(p, i) == {}

\* The rules that negate something of this partition once i is in it.
HeldBack(p, i) == p.uses_negative \cup {j \in RuleIds(p.rules) : Edge(p.rules, i, j) = "negative"}

\* update_successor for each of i's successors, which touches that successor only.  A rule
\* that waits for nothing else is due in this partition, or in the next one.
update_successors(p, i) ==
    LET due  == Released(p, i)
        held == HeldBack(p, i)
    IN  [p EXCEPT !.num_predecessors = [j \in RuleIds(p.rules) |->
                                           IF Awaits(p, i, j) THEN @[j] - 1 ELSE @[j]],
                  !.output = @ \cup due,
                  !.uses_negative = held,
                  !.next_queue = @ \o InOrder(due \cap held),
                  !.ready_queue = @ \o InOrder(due \ held)]

\* One iteration of get_partition.
get_partition_step(p) ==
    LET i == Head(p.ready_queue)
    IN  update_successors([p EXCEPT !.ready_queue = Tail(@), !.partition = Append(@, i)], i)

reset_stratification(p) ==
    [p EXCEPT !.uses_negative = {},
              !.ready_queue = @ \o p.next_queue,
              !.next_queue = << >>]

topological_sort_finished(p) ==
    \A j \in RuleIds(p.rules) : j \in p.output \/ p.num_predecessors[j] = 0

\* handle_cycle, which begins with find_cycle.
handle_cycle(p) ==
    [p EXCEPT !.status = "searching",
              !.candidates = {j \in RuleIds(p.rules) : j \notin p.output /\ p.num_predecessors[j] > 0}]

\* The successors that dfs_cycle looks at for rule i.
Unplaced(p, i) == successors(p.rules, i) \ p.output

\* dfs_cycle is called for rule i, which it has not visited.
Enter(p, i) ==
    [p EXCEPT !.visited = @ \cup {i},
              !.path = Append(@, i),
              !.todo = Append(@, Unplaced(p, i))]

\* Slip: the rules of a broken cycle are not marked as placed.
EndUnmarked(p) ==
    [p EXCEPT !.ready_queue = @ \o p.path, !.candidates = {}, !.visited = {},
              !.path = << >>, !.todo = << >>, !.status = "ordering"]

\* The end of handle_cycle: the rules on the path are placed although they wait for one
\* another.  There are none when no cycle was found; the search left out the placed ones.
EndSearch(p) ==
    [p EXCEPT !.output = @ \cup {p.path[k] : k \in 1..Len(p.path)},
              !.ready_queue = @ \o p.path,
              !.candidates = {},
              !.visited = {},
              !.path = << >>,
              !.todo = << >>,
              !.status = "ordering"]

\* The next candidate, or none is left.
start_search(p) ==
    IF p.candidates = {} THEN EndSearch(p)
    ELSE Enter([p EXCEPT !.candidates = @ \ {First(p.candidates)}, !.visited = {}],
               First(p.candidates))

\* One iteration of the innermost loop of dfs_cycle, or its end.
dfs_step(p) ==
    LET depth == Len(p.path)
        j     == First(p.todo[depth])
        q     == [p EXCEPT !.todo[depth] = @ \ {j}]
    IN  CASE p.todo[depth] = {} ->
                 [p EXCEPT !.path = SubSeq(@, 1, depth - 1), !.todo = SubSeq(@, 1, depth - 1)]
          [] p.todo[depth] # {} /\ Edge(p.rules, p.path[depth], j) = "negative" ->
                 [p EXCEPT !.status = "not_stratifiable"]
          [] p.todo[depth] # {} /\ Edge(p.rules, p.path[depth], j) # "negative" ->
                 IF j \notin p.visited THEN Enter(q, j)
                 ELSE IF \E k \in 1..depth : p.path[k] = j THEN EndSearch(p) ELSE q

find_cycle_step(p) == IF p.path = << >> THEN start_search(p) ELSE dfs_step(p)

\* order_rules: the fast path, or the first look at the queue.
order_rules_start(p) ==
    CASE pure_positive(p.rules) ->
             [p EXCEPT !.status = "ok",
                       !.stratification = IF p.rules = << >> THEN << >>
                                          ELSE <<[k \in RuleIds(p.rules) |-> k]>>]
      [] ~pure_positive(p.rules) /\ p.ready_queue = << >> -> handle_cycle(p)
      [] ~pure_positive(p.rules) /\ p.ready_queue # << >> -> [p EXCEPT !.status = "ordering"]

\* order_rules: the partition is full; look for a cycle when nothing is ready.
order_rules_next(p) ==
    LET q == reset_stratification([p EXCEPT !.stratification = Append(@, p.partition),
                                            !.partition = << >>])
    IN  IF q.ready_queue = << >> /\ ~topological_sort_finished(q) THEN handle_cycle(q) ELSE q

\* order_rules, one step of its loops at a time.
order_rules_step(p) ==
    CASE p.status = "start" -> order_rules_start(p)
      [] p.status = "searching" -> find_cycle_step(p)
      [] p.status = "ordering" /\ p.ready_queue # << >> -> get_partition_step(p)
      [] p.status = "ordering" /\ p.ready_queue = << >> /\ p.partition # << >> ->
             order_rules_next(p)
      [] p.status = "ordering" /\ p.ready_queue = << >> /\ p.partition = << >> ->
             [p EXCEPT !.status = "ok"]

Finished(p) == p.status \in {"ok", "not_stratifiable"}
=============================================================================
