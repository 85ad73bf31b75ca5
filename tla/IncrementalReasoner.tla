------------------------ MODULE IncrementalReasoner ------------------------
(***************************************************************************)
(* datalog's IncrementalReasoner together with the two callers that drive  *)
(* it in sparql_endpoint: a net delta of base facts (apply_reasoner_delta) *)
(* and a change of the live ruleset (apply_combined_ruleset).              *)
(*                                                                         *)
(* The store is the set that QuadSet promises: present, of which           *)
(* intensional is derived.  truncate_to(n) after appends restores the      *)
(* snapshot taken at n (QuadTable's refinement theorem).  Rules are ground:*)
(* an instance is one substitution of a rule, with the quads its positive  *)
(* atoms match, the quads that falsify its NOT atoms and the quad its head *)
(* becomes; a recorded Derivation (rule_id, body_witnesses) is an instance.*)
(*                                                                         *)
(* A call holds the store and the reasoner exclusively.  It is split into  *)
(* the steps of its loop: starting a program, one semi-naive round, going  *)
(* on to the next program.  A round adds its heads at once: the code adds  *)
(* them one by one, so an instance may fire a round earlier there, with    *)
(* the same fixpoint.                                                      *)
(***************************************************************************)
EXTENDS Integers, Sequences, FiniteSets

CONSTANT Facts,         \* the quads
         Rules,         \* the rules that may be loaded
         Instances,     \* their ground instances
         Contradiction, \* RuleHead::Contradiction
         Strata(_),     \* RulePartitioner::order_rules; << >> is NotStratifiable
         Updates,       \* the (net deletes, net inserts) that clients send
         Rulesets       \* the combined rulesets that clients load

ASSUME InstancesAssumption ==
    Instances \subseteq [rule : Rules, head : Facts \cup {Contradiction},
                         pos : SUBSET Facts, neg : SUBSET Facts]

ASSUME ContradictionAssumption == Contradiction \notin Facts

\* A rule is in exactly one stratum of a stratification.
ASSUME StrataAssumption ==
    \A S \in SUBSET Rules :
        /\ Strata(S) \in Seq(SUBSET Rules)
        /\ Strata(S) # << >> => UNION {Strata(S)[k] : k \in 1..Len(Strata(S))} = S
        /\ \A j, k \in 1..Len(Strata(S)) : j # k => Strata(S)[j] \cap Strata(S)[k] = {}

\* A net insert is no net delete; an update without either never reaches the reasoner.
ASSUME UpdatesAssumption ==
    /\ Updates \subseteq [deletes : SUBSET Facts, inserts : SUBSET Facts]
    /\ \A u \in Updates : u.deletes \cap u.inserts = {} /\ u.deletes \cup u.inserts # {}

ASSUME RulesetsAssumption == Rulesets \subseteq SUBSET Rules

VARIABLES
    present, intensional, \* Datastore.named_graphs
    loaded,               \* DatasetEntry.reasoner is Some
    programs,             \* one set of rules per stratum
    disabled,             \* disabled_rules of all programs
    derived_from,         \* the DerivedFromIndex entries of all programs
    marks,                \* their negatively_triggering_rules
    task,                 \* the call under way
    outcome               \* what the last finished call returned

store == <<present, intensional>>
reasoner == <<loaded, programs, disabled, derived_from, marks>>
vars == <<present, intensional, loaded, programs, disabled, derived_from, marks,
          task, outcome>>

NoTask == [op |-> "none", from |-> "none", at |-> 0, started |-> FALSE,
           mode |-> "full", delta |-> {}, facts |-> {}, tracked |-> {},
           inserts |-> {}, deletes |-> {}, pd |-> {}, removed |-> {}, mark |-> <<{}, {}>>,
           ruleset |-> {}, targets |-> {}, reactivate |-> {},
           reactivated |-> {}, append |-> << >>, old |-> << >>, pre |-> << >>]

------------------------------------------------------------------------------
(* Rules, programs and the derivation index.                               *)

ext == present \ intensional

Heads(I) == {i.head : i \in I}

AllRules == UNION {programs[k] : k \in 1..Len(programs)}

active_rules == AllRules \ disabled

\* evaluate(): all positive atoms match and no NOT atom does.
Holds(i) == i.pos \subseteq present /\ i.neg \cap present = {}

\* is_fact: a rule without a body.
IsFact(i) == i.pos = {} /\ i.neg = {}

HasNegation(r) == \E i \in Instances : i.rule = r /\ i.neg # {}

\* A body atom of rule s, positive or negated, unifies with the head of rule r.
DependsOn(s, r) ==
    \E i, j \in Instances : /\ i.rule = r
                            /\ j.rule = s
                            /\ i.head \in j.pos \cup j.neg

\* by_rule only counts derivations of rules that are marked when recorded; marks are
\* lost or restored together with the whole index, so it is a function of the two.
quads_for_rule(r) == IF r \in marks THEN Heads({i \in derived_from : i.rule = r}) ELSE {}

\* total_derived: a quad counts once for every program that derived it.
TotalDerived ==
    Cardinality({x \in (1..Len(programs)) \X Facts :
                    \E i \in derived_from : i.rule \in programs[x[1]] /\ i.head = x[2]})

OverThreshold(pd) == TotalDerived > 0 /\ 4 * Cardinality(pd) > TotalDerived

\* The least superset of seeds that contains the head of every recorded derivation
\* with a witness in it, leaving out the quads of Keep and what only they lead to.
Cascade(seeds, Keep) ==
    LET ClosedPD(P) == \A i \in derived_from :
                          i.pos \cap P # {} /\ i.head \notin Keep => i.head \in P
    IN  {f \in Facts : \A P \in SUBSET Facts : seeds \subseteq P /\ ClosedPD(P) => f \in P}

\* Slip: the direct dependents only.
DirectDependents(deletes) == Heads({i \in derived_from : i.pos \cap deletes # {}})

\* The derived quads with a witness among the deletes, and so on upwards.
backward_phase(deletes) ==
    Cascade(Heads({i \in derived_from : i.pos \cap deletes # {}}), {})

\* Slip: asserted quads are not left alone.
EverythingDerived(targets) == Cascade(Heads({i \in derived_from : i.rule \in targets}), {})

\* The derived quads with a derivation by a target rule; asserted ones stay out.
backward_phase_from_rule_removal(targets) ==
    Cascade(Heads({i \in derived_from : i.rule \in targets}) \ ext, ext)

\* Slip: only asserted facts are held against the NOT atoms, not what they derive.
SeedsFromBase(facts) ==
    {i.head : i \in {j \in derived_from :
                       /\ j.rule \in active_rules
                       /\ j.neg \cap facts \cap ext # {}
                       /\ j.head \in quads_for_rule(j.rule)}}

\* The quads with a derivation that one of the facts falsifies.
negation_invalidated_seeds(facts) ==
    {i.head : i \in {j \in derived_from :
                       /\ j.rule \in active_rules
                       /\ j.neg \cap facts # {}
                       /\ j.head \in quads_for_rule(j.rule)}}

cascade_pd(seeds) == Cascade(seeds \ ext, ext)

------------------------------------------------------------------------------
(* Entering and leaving the reasoner's methods.                            *)

\* A call under way, remembering the state its client saw before it (history only).
NewTask == [NoTask EXCEPT !.pre = IF task.op = "none" THEN <<store, reasoner>> ELSE task.pre]

SetStore(P, N) == present' = P /\ intensional' = N

Done(result) ==
    /\ task' = NoTask
    /\ outcome' = result

\* apply_insertions on the store <<P, N>>, which already holds the inserts: every program
\* in order, seeded with the inserts and what the programs before it derived.
apply_insertions(P, N, u) ==
    /\ SetStore(P, N)
    /\ task' = [NewTask EXCEPT !.op = "insert", !.at = 1, !.mode = "facts",
                              !.facts = u.inserts, !.inserts = u.inserts,
                              !.deletes = u.deletes, !.mark = <<P, N>>]
    /\ UNCHANGED <<reasoner, outcome>>

\* Strip the store to its base facts; every program then starts from an empty index.
full_rematerialise(P, N, t) ==
    /\ SetStore(P \ N, {})
    /\ task' = [t EXCEPT !.op = "rematerialise"]
    /\ UNCHANGED derived_from

\* Slip: the length to return to is read before the removal.
MarkFirst(P, N, pd, t) ==
    LET gone == {i \in derived_from : i.head \in pd}
    IN  /\ SetStore(P \ pd, N \ pd)
        /\ task' = [t EXCEPT !.op = "delete", !.pd = pd, !.removed = gone, !.mark = <<P, N>>]
        /\ derived_from' = derived_from \ gone

\* Retract pd and its derivations; every program then re-derives what still holds.
forward_phase(P, N, pd, t) ==
    LET gone == {i \in derived_from : i.head \in pd}
    IN  /\ SetStore(P \ pd, N \ pd)
        /\ task' = [t EXCEPT !.op = "delete", !.pd = pd, !.removed = gone,
                             !.mark = <<P \ pd, N \ pd>>]
        /\ derived_from' = derived_from \ gone

\* apply_deletions on the store <<P, N>>, which the caller has already edited.
apply_deletions(P, N, u) ==
    LET pd == backward_phase(u.deletes)
        t  == [NewTask EXCEPT !.at = 1, !.deletes = u.deletes, !.inserts = u.inserts]
    IN  /\ IF OverThreshold(pd) THEN full_rematerialise(P, N, t)
                                ELSE forward_phase(P, N, pd, t)
        /\ UNCHANGED <<loaded, programs, disabled, marks, outcome>>

\* Like full_rematerialise, with a snapshot to return to.
full_rematerialise_rules(t) ==
    /\ SetStore(ext, {})
    /\ task' = [t EXCEPT !.op = "rule_rematerialise", !.mark = store,
                         !.old = <<derived_from, marks>>]
    /\ UNCHANGED derived_from

forward_phase_rules(pd, t) ==
    LET gone == {i \in derived_from : i.head \in pd}
    IN  /\ SetStore(present \ pd, intensional \ pd)
        /\ task' = [t EXCEPT !.op = "rule_delete", !.pd = pd, !.removed = gone,
                             !.mark = <<present \ pd, intensional \ pd>>]
        /\ derived_from' = derived_from \ gone

apply_rule_deletions(targets, ruleset) ==
    LET pd == backward_phase_from_rule_removal(targets)
        t  == [NewTask EXCEPT !.at = 1, !.targets = targets, !.ruleset = ruleset]
    IN  /\ disabled' = disabled \cup targets
        /\ IF OverThreshold(pd) THEN full_rematerialise_rules(t) ELSE forward_phase_rules(pd, t)
        /\ UNCHANGED <<loaded, programs, marks, outcome>>

\* full_rebuild: strip the store and construct a new reasoner, which replaces the
\* old one when the construction succeeds.
full_rebuild(ruleset) ==
    /\ SetStore(ext, {})
    /\ IF Strata(ruleset) = << >>
       THEN Done("ruleset_rejected") /\ UNCHANGED reasoner
       ELSE /\ task' = [NewTask EXCEPT !.op = "new", !.at = 1, !.old = reasoner]
            /\ programs' = Strata(ruleset)
            /\ disabled' = {}
            /\ derived_from' = {}
            /\ marks' = {r \in ruleset : HasNegation(r)}
            /\ UNCHANGED <<loaded, outcome>>

\* The next reactivated rule, the next appended stratum, or the end of the call.
NextRuleInsertion(t) ==
    \/ \E r \in t.reactivate, k \in 1..Len(programs) :
           /\ r \in programs[k]
           /\ disabled' = disabled \ {r}
           /\ task' = [t EXCEPT !.at = k, !.started = FALSE, !.mode = "full", !.facts = {},
                                !.reactivate = @ \ {r}, !.reactivated = @ \cup {r}]
           /\ UNCHANGED <<programs, marks, outcome>>
    \/ /\ t.reactivate = {}
       /\ t.append # << >>
       /\ programs' = Append(programs, Head(t.append))
       /\ marks' = marks \cup {r \in Head(t.append) : HasNegation(r)}
       /\ task' = [t EXCEPT !.at = Len(programs) + 1, !.started = FALSE, !.mode = "full",
                            !.append = Tail(@)]
       /\ UNCHANGED <<disabled, outcome>>
    \/ /\ t.reactivate = {}
       /\ t.append = << >>
       /\ Done("ok")
       /\ UNCHANGED <<programs, disabled, marks>>

\* apply_rule_insertions: only rules that no other active rule consumes.
apply_rule_insertions(added, ruleset) ==
    LET reactivate == added \cap AllRules
        fresh      == added \ AllRules
        existing   == active_rules \cup reactivate
        downstream == \A r \in added, s \in existing : s # r => ~DependsOn(s, r)
        t == [NewTask EXCEPT !.op = "rule_insert", !.mark = store, !.ruleset = ruleset,
                            !.reactivate = reactivate, !.append = Strata(fresh),
                            !.old = <<Len(programs)>>]
    IN  IF /\ downstream
           /\ Strata(existing \cup fresh) # << >>
           /\ fresh = {} \/ Strata(fresh) # << >>
        THEN NextRuleInsertion(t) /\ UNCHANGED <<store, loaded, derived_from>>
        ELSE full_rebuild(ruleset)

------------------------------------------------------------------------------
(* The clients' calls.                                                     *)

\* The end of apply_prepared_update (and of a commit): the net delta is applied to the
\* store, deletes first, then passed to the reasoner, if there is one.
apply_prepared_update(u) ==
    LET P == (present \ u.deletes) \cup u.inserts
        N == intensional \ u.deletes
    IN  /\ task.op = "none"
        /\ u.deletes \subseteq present
        /\ CASE ~loaded -> /\ SetStore(P, N)
                           /\ Done("ok")
                           /\ UNCHANGED reasoner
             [] loaded /\ u.deletes # {} -> apply_deletions(P, N, u)
             [] loaded /\ u.deletes = {} -> apply_insertions(P, N, u)

\* apply_combined_ruleset: unload, build a first reasoner, or apply the difference,
\* deletions first.
apply_combined_ruleset(ruleset) ==
    LET removed == active_rules \ ruleset
        added   == ruleset \ active_rules
    IN  /\ task.op = "none"
        /\ CASE ruleset = {} ->
                    /\ SetStore(ext, {})
                    /\ loaded' = FALSE
                    /\ programs' = << >>
                    /\ disabled' = {}
                    /\ derived_from' = {}
                    /\ marks' = {}
                    /\ Done("ok")
             [] ruleset # {} /\ ~loaded -> full_rebuild(ruleset)
             [] ruleset # {} /\ loaded /\ removed # {} ->
                    apply_rule_deletions(removed, ruleset)
             [] ruleset # {} /\ loaded /\ removed = {} /\ added # {} ->
                    apply_rule_insertions(added, ruleset)
             [] ruleset # {} /\ loaded /\ removed = {} /\ added = {} ->
                    Done("ok") /\ UNCHANGED <<store, reasoner>>

------------------------------------------------------------------------------
(* Semi-naive materialisation of the program task.at.                      *)

Running == task.op \notin {"none", "recover"}

\* The materialise_* methods up to their first iteration: bodyless rules become base
\* facts, and the delta is the whole store or the facts handed in.  The full
\* re-materialisations replace the program's index by an empty, unmarked one first.
StartProgram ==
    LET facts == Heads({i \in Instances : IsFact(i) /\ i.rule \in programs[task.at] \ disabled})
        P == present \cup facts \cup (IF task.mode = "facts" THEN task.facts ELSE {})
        wipe == task.op \in {"rematerialise", "rule_rematerialise"}
    IN  /\ Running
        /\ ~task.started
        /\ Contradiction \notin facts
        /\ SetStore(P, intensional)
        /\ derived_from' = IF wipe THEN {i \in derived_from : i.rule \notin programs[task.at]}
                           ELSE derived_from
        /\ marks' = IF wipe THEN marks \ programs[task.at] ELSE marks
        /\ task' = [task EXCEPT !.started = TRUE,
                                !.delta = IF task.mode = "facts" THEN task.facts ELSE P]
        /\ UNCHANGED <<loaded, programs, disabled, outcome>>

\* Slip: only the first derivation of a quad is kept.
FiredFirst == {i \in Instances : /\ i.rule \in programs[task.at] \ disabled
                                 /\ i.pos \cap task.delta # {}
                                 /\ Holds(i)
                                 /\ i.head \notin present}

\* The instances that a quad of the delta triggers and whose whole body holds.
Fired == {i \in Instances : /\ i.rule \in programs[task.at] \ disabled
                            /\ i.pos \cap task.delta # {}
                            /\ Holds(i)}

\* Slip: derivations that were there before the call are tracked for the undo too.
TrackAll == Fired

\* The record() calls that return true.
NewDerivations == Fired \ derived_from

\* materialise_delta_iteration: heads become intensional unless they are asserted, every
\* derivation is recorded, and the new ones are tracked for the undo.
Round ==
    LET heads == Heads(Fired)
    IN  /\ Running
        /\ task.started
        /\ task.delta # {}
        /\ Contradiction \notin heads
        /\ SetStore(present \cup heads, intensional \cup (heads \ ext))
        /\ derived_from' = derived_from \cup Fired
        /\ task' = [task EXCEPT !.delta = heads \ present,
                                !.tracked = @ \cup NewDerivations,
                                !.facts = @ \cup Heads(NewDerivations)]
        /\ UNCHANGED <<loaded, programs, disabled, marks, outcome>>

\* The sweep that follows a reactivation ends early when there is nothing to feed forward.
AtLastProgram ==
    \/ task.at = Len(programs)
    \/ task.op = "rule_insert" /\ task.facts = {}

ProgramDone == Running /\ task.started /\ task.delta = {}

NextProgram ==
    /\ ProgramDone
    /\ ~AtLastProgram
    /\ task' = [task EXCEPT !.at = @ + 1, !.started = FALSE,
                            !.mode = IF task.op = "rule_insert" THEN "facts" ELSE @]
    /\ UNCHANGED <<store, reasoner, outcome>>

------------------------------------------------------------------------------
(* What follows the last program.                                          *)

DeletionDone ==
    /\ task.op \in {"delete", "rematerialise"}
    /\ ProgramDone /\ AtLastProgram
    /\ IF task.inserts = {}
       THEN Done("ok") /\ UNCHANGED <<store, reasoner>>
       ELSE apply_insertions(present, intensional, task)

\* Slip: check_facts is not replaced by what the last turn derived.
RecheckAll(t) == [t EXCEPT !.op = "retract", !.at = 1, !.started = FALSE,
                           !.mode = "full", !.tracked = {}]

\* Re-run everything; only what this derives is checked in the next turn.
Rematerialise(t) == [t EXCEPT !.op = "retract", !.at = 1, !.started = FALSE,
                              !.mode = "full", !.tracked = {}, !.facts = {}]

\* retract_negation_invalidated: one turn of its loop.
InsertionDone ==
    LET seeds == negation_invalidated_seeds(task.facts)
        pd    == cascade_pd(seeds)
    IN  /\ task.op \in {"insert", "retract"}
        /\ ProgramDone /\ AtLastProgram
        /\ IF seeds = {}
           THEN Done("ok") /\ UNCHANGED <<store, derived_from>>
           ELSE /\ SetStore(present \ pd, intensional \ pd)
                /\ derived_from' = {i \in derived_from : i.head \notin pd}
                /\ task' = Rematerialise(task)
                /\ UNCHANGED outcome
        /\ UNCHANGED <<loaded, programs, disabled, marks>>

RuleDeletionDone ==
    /\ task.op \in {"rule_delete", "rule_rematerialise"}
    /\ ProgramDone /\ AtLastProgram
    /\ IF task.ruleset \subseteq active_rules
       THEN Done("ok") /\ UNCHANGED <<store, reasoner>>
       ELSE apply_rule_insertions(task.ruleset \ active_rules, task.ruleset)

RuleInsertionDone ==
    /\ task.op = "rule_insert"
    /\ ProgramDone /\ AtLastProgram
    /\ NextRuleInsertion(task)
    /\ UNCHANGED <<store, loaded, derived_from>>

\* IncrementalReasoner::new succeeded, or rebuild_from_base did and the client is told of
\* the contradiction that made it necessary.
RebuildDone ==
    /\ task.op \in {"new", "rebuild"}
    /\ ProgramDone /\ AtLastProgram
    /\ Done(IF task.op = "new" THEN "ok" ELSE "rejected")
    /\ loaded' = TRUE
    /\ UNCHANGED <<store, programs, disabled, derived_from, marks>>

------------------------------------------------------------------------------
(* A contradiction rule fired.                                             *)

Contradicted ==
    /\ Running
    /\ \/ /\ ~task.started
          /\ \E i \in Instances : /\ IsFact(i) /\ i.head = Contradiction
                                  /\ i.rule \in programs[task.at] \ disabled
       \/ task.started /\ Contradiction \in Heads(Fired)

ToRecovery == task' = [task EXCEPT !.op = "recover", !.from = task.op] /\ UNCHANGED outcome

\* truncate_to the start of the call and unrecord what it recorded.
undo_insertions ==
    /\ SetStore(task.mark[1], task.mark[2])
    /\ derived_from' = derived_from \ task.tracked

\* truncate_to the end of the retraction, then put the retracted quads back as derived ones
\* and the deleted ones as asserted ones, with the derivations they had.
undo_deletions ==
    /\ SetStore(task.mark[1] \cup task.pd \cup task.deletes, task.mark[2] \cup task.pd)
    /\ derived_from' = (derived_from \ task.tracked) \cup task.removed

\* The same, and the retracted rules are enabled again.
undo_rule_deletions ==
    /\ SetStore(task.mark[1] \cup task.pd, task.mark[2] \cup task.pd)
    /\ derived_from' = (derived_from \ task.tracked) \cup task.removed
    /\ disabled' = disabled \ task.targets
    /\ UNCHANGED <<programs, marks>>

\* The snapshot of full_rematerialise_rules comes back.
undo_rematerialise_rules ==
    /\ SetStore(task.mark[1], task.mark[2])
    /\ derived_from' = task.old[1]
    /\ marks' = task.old[2]
    /\ disabled' = disabled \ task.targets
    /\ UNCHANGED programs

\* Appended programs go, reactivated rules are disabled again.
undo_rule_insertions ==
    /\ SetStore(task.mark[1], task.mark[2])
    /\ derived_from' = derived_from \ task.tracked
    /\ programs' = SubSeq(programs, 1, task.old[1])
    /\ marks' = {r \in marks : \E k \in 1..task.old[1] : r \in programs[k]}
    /\ disabled' = disabled \cup task.reactivated

\* The second phase of an insertion and the fallback of a deletion have no undo.
UpdateFails ==
    /\ Contradicted
    /\ \/ task.op = "insert" /\ undo_insertions
       \/ task.op = "delete" /\ undo_deletions
       \/ task.op \in {"retract", "rematerialise"} /\ UNCHANGED <<store, derived_from>>
    /\ ToRecovery
    /\ UNCHANGED <<loaded, programs, disabled, marks>>

RulesetFails ==
    /\ Contradicted
    /\ \/ task.op = "rule_delete" /\ undo_rule_deletions
       \/ task.op = "rule_rematerialise" /\ undo_rematerialise_rules
       \/ task.op = "rule_insert" /\ undo_rule_insertions
    /\ ToRecovery
    /\ UNCHANGED loaded

\* Strip the store <<P, N>> and run every program again with an empty index.
rebuild_from_base(P, N) ==
    /\ SetStore(P \ N, {})
    /\ derived_from' = {}
    /\ marks' = {}
    /\ task' = [NewTask EXCEPT !.op = "rebuild", !.at = 1]

\* apply_reasoner_delta takes its own delta back and calls rebuild_from_base.
RecoverUpdate ==
    /\ task.op = "recover"
    /\ task.from \in {"insert", "retract", "delete", "rematerialise"}
    /\ rebuild_from_base((present \ task.inserts) \cup task.deletes,
                         intensional \ task.inserts)
    /\ UNCHANGED <<loaded, programs, disabled, outcome>>

\* apply_ruleset_diff falls back to full_rebuild on any error.
RecoverRuleset ==
    /\ task.op = "recover"
    /\ task.from \in {"rule_delete", "rule_rematerialise", "rule_insert"}
    /\ full_rebuild(task.ruleset)

\* The rebuild itself fails, with part of the failing round already in the store, which
\* stays as it is; the half-built reasoner of new() is dropped for the old one.
RebuildFails ==
    /\ Contradicted
    /\ task.op \in {"new", "rebuild"}
    /\ \E part \in SUBSET {i \in Fired : i.head # Contradiction} :
           /\ SetStore(present \cup Heads(part), intensional \cup (Heads(part) \ ext))
           /\ IF task.op = "new"
              THEN /\ Done("ruleset_rejected")
                   /\ loaded' = task.old[1]
                   /\ programs' = task.old[2]
                   /\ disabled' = task.old[3]
                   /\ derived_from' = task.old[4]
                   /\ marks' = task.old[5]
              ELSE /\ Done("rollback_failed")
                   /\ derived_from' = derived_from \cup part
                   /\ UNCHANGED <<loaded, programs, disabled, marks>>

------------------------------------------------------------------------------
(* A dataset starts with base facts from its changelog or files, no reasoner. *)
Init ==
    /\ present \in SUBSET Facts
    /\ intensional = {}
    /\ loaded = FALSE
    /\ programs = << >>
    /\ disabled = {}
    /\ derived_from = {}
    /\ marks = {}
    /\ task = NoTask
    /\ outcome = "ok"

\* The steps of a call under way.
Step ==
    \/ StartProgram \/ Round \/ NextProgram
    \/ DeletionDone \/ InsertionDone \/ RuleDeletionDone \/ RuleInsertionDone \/ RebuildDone
    \/ UpdateFails \/ RulesetFails \/ RecoverUpdate \/ RecoverRuleset \/ RebuildFails

Next ==
    \/ \E u \in Updates : apply_prepared_update(u)
    \/ \E S \in Rulesets : apply_combined_ruleset(S)
    \/ Step

Spec == Init /\ [][Next]_vars

\* A call that has begun runs on: nothing else holds the locks it needs.
FairSpec == Spec /\ WF_vars(Step)

------------------------------------------------------------------------------
(* Properties.                                                             *)

Idle == task.op = "none"

\* Everything recorded is an instance with a quad for its head; only stored quads are
\* derived; a running call is at a program that exists.
TypeOK ==
    /\ present \subseteq Facts
    /\ intensional \subseteq present
    /\ loaded \in BOOLEAN
    /\ programs \in Seq(SUBSET Rules)
    /\ disabled \subseteq AllRules
    /\ derived_from \subseteq {i \in Instances : i.head \in Facts /\ i.rule \in AllRules}
    /\ marks \subseteq {r \in AllRules : HasNegation(r)}
    /\ task.delta \cup task.facts \cup task.inserts \cup task.deletes \cup task.pd \subseteq Facts
    /\ Running =>
           task.at \in 1..Len(programs) /\ task.delta \subseteq present
    /\ outcome \in {"ok", "rejected", "ruleset_rejected", "rollback_failed"}

\* The least superset of S closed under the instances I, NOT atoms read in N.
Least(S, I, N) ==
    {f \in Facts : \A T \in SUBSET Facts :
        S \subseteq T /\ (\A i \in I : i.pos \subseteq T /\ i.neg \cap N = {} => i.head \in T)
            => f \in T}

\* The perfect model of the base facts B under the rules R, stratum by stratum.
PerfectModel(B, R) ==
    LET strata == Strata(R)
        Of(k) == {i \in Instances : i.rule \in strata[k] /\ i.head # Contradiction}
        M[k \in 0..Len(strata)] == IF k = 0 THEN B ELSE Least(M[k - 1], Of(k), M[k - 1])
    IN  M[Len(strata)]

\* Between calls the store is exactly what a reasoner built from scratch over the active
\* rules and the surviving base facts would hold, whatever sequence of incremental
\* insertions, deletions, rule changes, fallbacks and rollbacks led there.
ClosureExact ==
    Idle /\ loaded => present = PerfectModel(ext, active_rules)

\* Between calls every instance of an active rule whose body holds is in the derivation
\* index: the backward phase sees all the ways a fact was derived, and no contradiction
\* rule holds in an accepted store.
IndexComplete ==
    Idle /\ loaded => \A i \in Instances :
        i.rule \in active_rules /\ Holds(i) /\ i.pos # {} => i \in derived_from

RulesetOps == {"rule_delete", "rule_rematerialise", "rule_insert", "new"}

\* What the bodyless rules assert.
Asserted == Heads({i \in Instances : IsFact(i)})

\* A change of the ruleset never makes a derived fact a base fact, and never adds or
\* removes a base fact but what bodyless rules assert, on any path: backward phase,
\* fallback, undo or rebuild.
RulesetKeepsBase ==
    [][task.op \in RulesetOps \/ task'.op \in RulesetOps =>
          (ext \ ext') \cup (ext' \ ext) \subseteq Asserted]_vars

\* When a call fails, its undo log has put everything back: the rules and the derivation
\* index as the client saw them, and the same facts, before any rebuild runs.  (A call
\* that first deleted and then inserted has kept its first half; a call that began with
\* derivations recorded for absent quads, after a rejected ruleset, is excepted.)
UndoExact ==
    task.op = "recover" /\ Heads(task.pre[2][4]) \subseteq task.pre[1][1] =>
        CASE task.from \in {"rule_delete", "rule_rematerialise"} -> <<store, reasoner>> = task.pre
          [] task.from = "rule_insert" ->
                (UNION {task.pre[2][2][k] : k \in 1..Len(task.pre[2][2])}) \ task.pre[2][3]
                    \subseteq task.ruleset => <<store, reasoner>> = task.pre
          [] task.from = "insert" ->
                task.deletes = {} => /\ reasoner = task.pre[2]
                                     /\ present = task.pre[1][1] \cup task.inserts
                                     /\ intensional = task.pre[1][2]
          [] task.from = "delete" -> /\ reasoner = task.pre[2]
                                     /\ present = task.pre[1][1] \cup task.inserts
          [] OTHER -> TRUE

\* A call that would take its work back by cutting the table at the length it had earlier
\* has removed nothing since: a removal moves the last quad into the gap, and the cut would
\* fall on other quads.  The phases that remove must have given up that undo before.
CutsBehindRemovals ==
    task.op \in {"insert", "delete", "rule_insert", "rule_delete"} => task.mark[1] \subseteq present

\* Every call returns: the retraction loop of an insertion does not chase its own tail.
CallsReturn == task.op # "none" ~> task.op = "none"

=============================================================================
