------------------------------ MODULE QuadTable ------------------------------
(***************************************************************************)
(* dag_rdf's QuadTable: the quads in one vector, found through a dedup map *)
(* and four secondary indexes that hold positions in that vector.          *)
(*                                                                         *)
(* Positions are 1-based here and 0-based in the code.  A nested map       *)
(* (subject -> predicate -> Vec) is one map keyed by the pair; pruning an  *)
(* empty inner map prunes the pair.  truncate_to and remove_graph reset    *)
(* the table and re-add the surviving quads one by one; each iteration of  *)
(* that loop is a step here, during which no other operation can run (the  *)
(* method holds &mut self).                                                *)
(***************************************************************************)
EXTENDS Integers, Sequences

CONSTANT Ids,   \* interned resources (GraphElementId)
         Quads, \* the quads that callers store
         Absent \* "no graph is filtered out": the rebuild of truncate_to

ASSUME QuadsAssumption ==
    Quads \subseteq [triple_id : Ids, subject : Ids, predicate : Ids, obj : Ids]

ASSUME AbsentAssumption == Absent \notin Ids

VARIABLES
    quad_list,         \* Vec<Quad>
    quad_count,        \* its length, kept separately
    four_keys_index,   \* HashMap<Quad, position>
    index,             \* the four secondary indexes: name -> key -> Vec<position>
    intensional_quads, \* quads the reasoner derived
    rebuild,           \* the loop state of truncate_to / remove_graph
    savepoint          \* the quad_count a caller may roll back to

vars == <<quad_list, quad_count, four_keys_index, index, intensional_quads,
          rebuild, savepoint>>

IndexNames == {"triple_id", "predicate", "subject_predicate", "object_predicate"}

\* The key a quad is filed under in index n.
Key(n, q) ==
    CASE n = "triple_id"         -> <<q.triple_id>>
      [] n = "predicate"         -> <<q.predicate>>
      [] n = "subject_predicate" -> <<q.subject, q.predicate>>
      [] n = "object_predicate"  -> <<q.obj, q.predicate>>

NoSavepoint == -1

Idle == [running |-> FALSE, todo |-> << >>, skip |-> Absent, flags |-> {}]

------------------------------------------------------------------------------
(* Vectors of positions and maps of them.                                  *)

\* Vec::swap_remove of the first entry equal to i: the last entry takes its place.
SwapRemove(v, i) ==
    LET n == Len(v)
        At == {k \in 1..n : v[k] = i}
        pos == CHOOSE k \in At : \A j \in At : k <= j
    IN  IF At = {} THEN v
        ELSE [k \in 1..(n - 1) |-> IF k = pos THEN v[n] ELSE v[k]]

\* The first entry equal to old becomes new.
Rewrite(v, old, new) ==
    LET At == {k \in 1..Len(v) : v[k] = old}
        pos == CHOOSE k \in At : \A j \in At : k <= j
    IN  IF At = {} THEN v ELSE [v EXCEPT ![pos] = new]

Put(m, k, v) == [x \in DOMAIN m \cup {k} |-> IF x = k THEN v ELSE m[x]]

Without(m, k) == [x \in DOMAIN m \ {k} |-> m[x]]

\* entry(k).or_default().push(i)
PushEntry(m, k, i) ==
    Put(m, k, IF k \in DOMAIN m THEN Append(m[k], i) ELSE <<i>>)

\* remove_flat_index_entry and remove_nested_index_entry: an empty Vec is pruned.
RemoveEntry(m, k, i) ==
    IF k \notin DOMAIN m THEN m
    ELSE LET v == SwapRemove(m[k], i)
         IN  IF v = << >> THEN Without(m, k) ELSE Put(m, k, v)

\* Slip: the entries of the quad that moves are left as they are.
LeaveEntry(m, k, old, new) == m

\* relocate_flat_index_entry and relocate_nested_index_entry.
RelocateEntry(m, k, old, new) ==
    IF k \notin DOMAIN m THEN m ELSE Put(m, k, Rewrite(m[k], old, new))

------------------------------------------------------------------------------
(* The table's operations.                                                 *)

contains(q) == q \in DOMAIN four_keys_index

\* Slip: a derivation turns an asserted quad into a derived one.
NeverExtensional(q) == FALSE

is_extensional(q) == contains(q) /\ q \notin intensional_quads

\* The part of add_quad that changes the vector and the indexes.
Insert(q) ==
    IF contains(q)
    THEN UNCHANGED <<quad_list, quad_count, four_keys_index, index>>
    ELSE LET i == quad_count + 1
         IN  /\ four_keys_index' = Put(four_keys_index, q, i)
             /\ index' = [n \in IndexNames |-> PushEntry(index[n], Key(n, q), i)]
             /\ quad_list' = Append(quad_list, q)
             /\ quad_count' = i

new ==
    /\ quad_list = << >>
    /\ quad_count = 0
    /\ four_keys_index = << >>
    /\ index = [n \in IndexNames |-> << >>]
    /\ intensional_quads = {}

add_quad(q) ==
    /\ ~rebuild.running
    /\ Insert(q)
    /\ UNCHANGED <<intensional_quads, rebuild, savepoint>>

add_intensional_quad(q) ==
    /\ ~rebuild.running
    /\ Insert(q)
    /\ intensional_quads' = IF is_extensional(q) THEN intensional_quads
                            ELSE intensional_quads \cup {q}
    /\ UNCHANGED <<rebuild, savepoint>>

\* The indexes after target's own entries are gone and those of the quad that
\* moves into its slot are rewritten.
Unlinked(n, target, at, last) ==
    LET cleared == RemoveEntry(index[n], Key(n, target), at)
    IN  IF at = last THEN cleared
        ELSE RelocateEntry(cleared, Key(n, quad_list[last]), last, at)

remove_quad(target) ==
    /\ ~rebuild.running
    /\ contains(target)
    /\ LET at   == four_keys_index[target]
           last == quad_count
           rest == Without(four_keys_index, target)
       IN  /\ index' = [n \in IndexNames |-> Unlinked(n, target, at, last)]
           /\ four_keys_index' = IF at = last THEN rest
                                 ELSE Put(rest, quad_list[last], at)
           /\ quad_list' = [k \in 1..(last - 1) |->
                               IF k = at THEN quad_list[last] ELSE quad_list[k]]
           /\ quad_count' = last - 1
    /\ intensional_quads' = intensional_quads \ {target}
    /\ savepoint' = NoSavepoint
    /\ UNCHANGED rebuild

\* kept_intensional: the flags of the quads that are re-added.
KeptFlags(todo, skip) ==
    {todo[k] : k \in {j \in 1..Len(todo) : /\ todo[j].triple_id # skip
                                          /\ todo[j] \in intensional_quads}}

\* Both rebuilds: *self = QuadTable::new, then re-add what survives.
Reset(todo, skip) ==
    /\ rebuild' = [running |-> TRUE, todo |-> todo, skip |-> skip,
                   flags |-> KeptFlags(todo, skip)]
    /\ quad_list' = << >>
    /\ quad_count' = 0
    /\ four_keys_index' = << >>
    /\ index' = [n \in IndexNames |-> << >>]
    /\ intensional_quads' = {}
    /\ savepoint' = NoSavepoint

\* A caller's rollback: truncate_to(quad_count as it was at the savepoint).
truncate_to ==
    /\ ~rebuild.running
    /\ savepoint # NoSavepoint
    /\ IF savepoint >= Len(quad_list)
       THEN /\ savepoint' = NoSavepoint
            /\ UNCHANGED <<quad_list, quad_count, four_keys_index, index,
                           intensional_quads, rebuild>>
       ELSE Reset(SubSeq(quad_list, 1, savepoint), Absent)

graph_exists(g) == <<g>> \in DOMAIN index["triple_id"]

remove_graph(g) ==
    /\ ~rebuild.running
    /\ graph_exists(g)
    /\ Reset(quad_list, g)

\* One iteration of the rebuild loop: filtered-out quads are passed over.
RebuildStep ==
    /\ rebuild.running
    /\ rebuild.todo # << >>
    /\ IF Head(rebuild.todo).triple_id = rebuild.skip
       THEN UNCHANGED <<quad_list, quad_count, four_keys_index, index>>
       ELSE Insert(Head(rebuild.todo))
    /\ rebuild' = [rebuild EXCEPT !.todo = Tail(@)]
    /\ UNCHANGED <<intensional_quads, savepoint>>

\* self.intensional_quads = kept_intensional
RebuildDone ==
    /\ rebuild.running
    /\ rebuild.todo = << >>
    /\ intensional_quads' = rebuild.flags
    /\ rebuild' = Idle
    /\ UNCHANGED <<quad_list, quad_count, four_keys_index, index, savepoint>>

\* A caller (the reasoner) reads quad_count before a phase that only appends,
\* or leaves such a phase without rolling back.
TakeSavepoint ==
    /\ ~rebuild.running
    /\ savepoint' = quad_count
    /\ UNCHANGED <<quad_list, quad_count, four_keys_index, index,
                   intensional_quads, rebuild>>

DropSavepoint ==
    /\ savepoint # NoSavepoint
    /\ savepoint' = NoSavepoint
    /\ UNCHANGED <<quad_list, quad_count, four_keys_index, index,
                   intensional_quads, rebuild>>

Init == new /\ rebuild = Idle /\ savepoint = NoSavepoint

Next ==
    \/ \E q \in Quads : add_quad(q)
    \/ \E q \in Quads : add_intensional_quad(q)
    \/ \E q \in Quads : remove_quad(q)
    \/ \E g \in Ids : remove_graph(g)
    \/ truncate_to
    \/ RebuildStep
    \/ RebuildDone
    \/ TakeSavepoint
    \/ DropSavepoint

Spec == Init /\ [][Next]_vars

------------------------------------------------------------------------------
(* Pattern lookup: the getters, and the two dispatchers that choose an index by *)
(* which positions of the pattern are bound, Datastore::quads_matching (queries) *)
(* and evaluate_pattern (rule bodies).  A pattern is a quad some of whose fields *)
(* are Absent.                                                                   *)

Patterns == [triple_id : Ids \cup {Absent}, subject : Ids \cup {Absent},
             predicate : Ids \cup {Absent}, obj : Ids \cup {Absent}]

QuadFields == {"triple_id", "subject", "predicate", "obj"}

Matches(q, pat) == \A f \in QuadFields : pat[f] = Absent \/ q[f] = pat[f]

\* The quads at the positions an index lists under the keys in K.
Entries(n, K) ==
    {quad_list[i] : i \in UNION {{index[n][k][a] : a \in 1..Len(index[n][k])} :
                                     k \in K \cap DOMAIN index[n]}}

get_quads_with_subject(s) ==
    Entries("subject_predicate", {k \in DOMAIN index["subject_predicate"] : k[1] = s})

\* Slip: the key's predicate is compared, not its object.
QuadsByPredicateOfObjectIndex(o) ==
    Entries("object_predicate", {k \in DOMAIN index["object_predicate"] : k[2] = o})

get_quads_with_object(o) ==
    Entries("object_predicate", {k \in DOMAIN index["object_predicate"] : k[1] = o})

get_quads_with_predicate(p) == Entries("predicate", {<<p>>})

get_graph(g) == Entries("triple_id", {<<g>>})

get_quads_with_subject_predicate(s, p) == Entries("subject_predicate", {<<s, p>>})

get_quads_with_object_predicate(o, p) == Entries("object_predicate", {<<o, p>>})

get_all_quads == {quad_list[i] : i \in 1..Len(quad_list)}

\* The getters that also take the graph, or the object beside the subject, filter
\* the result of the ones above; contains() answers for a fully bound pattern.
\* spo is the scan for a pattern that binds everything but the graph, the one
\* case in which the two dispatchers differ.
Scan(pat, spo) ==
    LET g == pat.triple_id # Absent
        s == pat.subject # Absent
        p == pat.predicate # Absent
        o == pat.obj # Absent
    IN  CASE g /\ s /\ p /\ o  -> {q \in {pat} : contains(q)}
          [] ~g /\ s /\ p /\ o -> spo
          [] s /\ p /\ ~o      -> get_quads_with_subject_predicate(pat.subject, pat.predicate)
          [] ~s /\ p /\ o      -> get_quads_with_object_predicate(pat.obj, pat.predicate)
          [] s /\ ~p           -> get_quads_with_subject(pat.subject)
          [] ~s /\ p /\ ~o     -> get_quads_with_predicate(pat.predicate)
          [] ~s /\ ~p /\ o     -> get_quads_with_object(pat.obj)
          [] g /\ ~s /\ ~p /\ ~o -> get_graph(pat.triple_id)
          [] OTHER             -> get_all_quads

quads_matching(pat) == {q \in Scan(pat, get_all_quads) : Matches(q, pat)}

evaluate_pattern(pat) ==
    {q \in Scan(pat, get_quads_with_subject_predicate(pat.subject, pat.predicate)) :
        Matches(q, pat)}

------------------------------------------------------------------------------
(* Properties.                                                             *)

Stored == {quad_list[k] : k \in 1..quad_count}

Pending == {q \in {rebuild.todo[k] : k \in 1..Len(rebuild.todo)} :
               q.triple_id # rebuild.skip}

\* The positions at which a quad with key k of index n is stored.
Positions(n, k) == {i \in 1..quad_count : Key(n, quad_list[i]) = k}

\* v lists every position of S once (order is not promised).
Lists(v, S) ==
    /\ \A a, b \in 1..Len(v) : v[a] = v[b] => a = b
    /\ {v[a] : a \in 1..Len(v)} = S

\* quad_count is the vector's length; every map holds positions only.
TypeOK ==
    /\ quad_list \in Seq(Quads)
    /\ quad_count = Len(quad_list)
    /\ DOMAIN four_keys_index \subseteq Quads
    /\ \A q \in DOMAIN four_keys_index : four_keys_index[q] \in 1..quad_count
    /\ DOMAIN index = IndexNames
    /\ \A n \in IndexNames : \A k \in DOMAIN index[n] : index[n][k] \in Seq(Nat)
    /\ intensional_quads \subseteq Quads
    /\ rebuild \in [running : BOOLEAN, todo : Seq(Quads),
                    skip : Ids \cup {Absent}, flags : SUBSET Quads]
    /\ savepoint \in -1..quad_count

\* The dedup map is the inverse of the vector: remove_quad finds each quad at its
\* own slot after any number of swap-removals, and no quad is stored twice.
DedupIsInverse ==
    /\ \A q \in DOMAIN four_keys_index : quad_list[four_keys_index[q]] = q
    /\ \A i \in 1..quad_count : /\ quad_list[i] \in DOMAIN four_keys_index
                                 /\ four_keys_index[quad_list[i]] = i

\* Every secondary index lists, for every key in use and no other, each position
\* of a quad with that key exactly once: no entry is stale after swap-removal
\* moved a quad, none is missing, none is doubled, and no emptied key lingers
\* (graph_exists answers from the key set alone).
IndexesExact ==
    \A n \in IndexNames :
        /\ DOMAIN index[n] = {Key(n, q) : q \in Stored}
        /\ \A k \in DOMAIN index[n] : Lists(index[n][k], Positions(n, k))

\* Only stored quads carry the intensional flag, also while a rebuild is under way.
FlagsOnlyOnStored ==
    /\ intensional_quads \subseteq Stored
    /\ rebuild.flags \subseteq Stored \cup Pending

\* A rebuild is either not under way, or under way with no savepoint outstanding
\* and no flag set yet.
RebuildShape ==
    /\ ~rebuild.running => rebuild = Idle
    /\ rebuild.running => savepoint = NoSavepoint /\ intensional_quads = {}

\* The inductive invariant of the proofs.
IInv == TypeOK /\ DedupIsInverse /\ IndexesExact /\ FlagsOnlyOnStored /\ RebuildShape

\* Whatever index the dispatchers pick, a lookup returns exactly the stored quads
\* that match: none is lost because it moved, and none is read through a stale position.
LookupsExact ==
    \A pat \in Patterns :
        LET expected == {q \in Stored : Matches(q, pat)}
        IN  /\ quads_matching(pat) = expected
            /\ evaluate_pattern(pat) = expected

GraphOf(q) == q.triple_id

\* The table implements a set of quads with derived-marks and a savepoint.  In
\* the middle of a rebuild it stands for the quads already re-added and those to come.
Abs == INSTANCE QuadSet WITH
    present <- Stored \cup Pending,
    intensional <- IF rebuild.running THEN rebuild.flags ELSE intensional_quads,
    saved <- IF savepoint = NoSavepoint THEN << >>
             ELSE LET kept == {quad_list[k] : k \in 1..savepoint}
                  IN  <<kept, kept \cap intensional_quads>>

\* Every operation on the vector and its indexes is one operation of the set, and a
\* rollback to a savepoint restores exactly the quads and the marks of the savepoint.
ImplementsQuadSet == Abs!Spec
=============================================================================
