--------------------- MODULE IncrementalReasoner_proofs ---------------------
(* Theorems about the incremental reasoner, for any facts, rules and          *)
(* stratifications and any sequence of calls: what its steps keep well formed,*)
(* that an undo puts back what the client saw, that a change of rules never   *)
(* touches a base fact, and that without negation the derivation index stays  *)
(* complete and the store exact.                                              *)
EXTENDS IncrementalReasoner, SequenceTheorems, TLAPS

-----------------------------------------------------------------------------
(* Well-formed stores and reasoners                                          *)

RulesIn(pr) == UNION {pr[k] : k \in 1..Len(pr)}

Derivations(pr) == {i \in Instances : i.head \in Facts /\ i.rule \in RulesIn(pr)}

Stored(p, n) == p \subseteq Facts /\ n \subseteq p

Index(pr, di, de, ma) ==
    /\ pr \in Seq(SUBSET Rules)
    /\ di \subseteq RulesIn(pr)
    /\ de \subseteq Derivations(pr)
    /\ ma \subseteq {r \in RulesIn(pr) : HasNegation(r)}

\* What a call remembers of the state before it.
Client(x) ==
    /\ x = <<<<x[1][1], x[1][2]>>, <<x[2][1], x[2][2], x[2][3], x[2][4], x[2][5]>>>>
    /\ Stored(x[1][1], x[1][2])
    /\ Index(x[2][2], x[2][3], x[2][4], x[2][5])

Fields == {"op", "from", "at", "started", "mode", "delta", "facts", "tracked", "inserts",
           "deletes", "pd", "removed", "mark", "ruleset", "targets", "reactivate",
           "reactivated", "append", "old", "pre"}

Ops == {"none", "insert", "retract", "delete", "rematerialise", "rule_delete",
        "rule_rematerialise", "rule_insert", "new", "rebuild", "recover"}

\* A call under way.
Shape ==
    /\ DOMAIN task = Fields
    /\ task.op \in Ops
    /\ task.delta \subseteq Facts /\ task.facts \subseteq Facts /\ task.pd \subseteq Facts
    /\ task.inserts \subseteq Facts /\ task.deletes \subseteq Facts
    /\ task.mark = <<task.mark[1], task.mark[2]>>
    /\ Stored(task.mark[1], task.mark[2])
    /\ task.ruleset \subseteq Rules
    /\ task.op # "none" => Client(task.pre)
    /\ outcome \in {"ok", "rejected", "ruleset_rejected", "rollback_failed"}

\* The store and the reasoner, and what an undo may put in their place.
Alive ==
    /\ Stored(present, intensional)
    /\ loaded \in BOOLEAN
    /\ Index(programs, disabled, derived_from, marks)
    /\ (loaded = TRUE \/ task.op # "none") => programs # << >>
    /\ Running => task.at \in 1..Len(programs) /\ task.delta \subseteq present
    /\ Running /\ task.op \notin {"insert", "rule_insert"} => task.mode = "full"
    /\ task.op \in {"delete", "rule_delete"} => task.removed \subseteq Derivations(programs)
    /\ task.op = "rule_rematerialise" => Index(programs, {}, task.old[1], task.old[2])
    /\ task.op = "new" =>
          /\ task.old[1] \in BOOLEAN
          /\ task.old[1] = TRUE => task.old[2] # << >>
          /\ Index(task.old[2], task.old[3], task.old[4], task.old[5])

Differ(S, T) == (S \ T) \cup (T \ S)

\* Rules are being removed: the base facts that an undo would put back are the
\* present ones.
Base ==
    /\ task.op = "rule_rematerialise" =>
          Differ(task.mark[1] \ task.mark[2], ext) \subseteq Asserted
    /\ task.op = "rule_delete" =>
          Differ(task.mark[1] \ (task.mark[2] \cup task.pd), ext) \subseteq Asserted

-----------------------------------------------------------------------------
(* The undo log: what it holds, and what has changed since the call began.   *)

LoadedBefore == task.pre[2][1]
ProgramsBefore == task.pre[2][2]
DisabledBefore == task.pre[2][3]
IndexBefore == task.pre[2][4]
MarksBefore == task.pre[2][5]

ActiveBefore == RulesIn(ProgramsBefore) \ DisabledBefore

\* The index has grown from D by what is tracked.
Grown(D) == derived_from = D \cup task.tracked /\ D \cap task.tracked = {}

\* The log of a backward phase.
Retracted ==
    /\ task.removed = {i \in IndexBefore : i.head \in task.pd}
    /\ task.pd \subseteq Heads(IndexBefore)
    /\ Grown(IndexBefore \ task.removed)

SameRules ==
    /\ loaded = LoadedBefore
    /\ programs = ProgramsBefore
    /\ disabled = DisabledBefore
    /\ marks = MarksBefore

UndoInsert ==
    task.op = "insert" /\ task.deletes = {} =>
        /\ task.mark = <<task.pre[1][1] \cup task.inserts, task.pre[1][2]>>
        /\ SameRules
        /\ Grown(IndexBefore)

UndoDelete ==
    /\ task.op \in {"delete", "rematerialise"} => task.deletes # {}
    /\ task.op = "delete" =>
          /\ task.deletes \subseteq task.pre[1][1]
          /\ task.mark[1] = ((task.pre[1][1] \ task.deletes) \cup task.inserts) \ task.pd
          /\ SameRules
          /\ Retracted

UndoRuleDelete ==
    /\ task.op \in {"rule_delete", "rule_rematerialise"} =>
          /\ ~(ActiveBefore \subseteq task.ruleset)
          /\ loaded = LoadedBefore
          /\ programs = ProgramsBefore
          /\ disabled = DisabledBefore \cup task.targets
          /\ DisabledBefore \cap task.targets = {}
    /\ task.op = "rule_delete" =>
          /\ marks = MarksBefore
          /\ task.mark = <<task.pre[1][1] \ task.pd, task.pre[1][2] \ task.pd>>
          /\ task.pd \cap (task.pre[1][1] \ task.pre[1][2]) = {}
          /\ Retracted
    /\ task.op = "rule_rematerialise" =>
          /\ task.mark = task.pre[1]
          /\ task.old = <<IndexBefore, MarksBefore>>

\* Rules are being added by the call t.  What the undo keeps are the first
\* programs ...
Kept(t) == UNION {programs[k] : k \in 1..t.old[1]}

\* ... and if no rules were removed before, they are those before the call.
UndoRuleInsert(t) ==
    LET pr == t.pre[2][2]
        di == t.pre[2][3]
        de == t.pre[2][4]
    IN  /\ t.mark = t.pre[1]
        /\ loaded = t.pre[2][1]
        /\ derived_from = de \cup t.tracked /\ de \cap t.tracked = {}
        /\ t.old[1] = Len(pr)
        /\ \A k \in 1..Len(pr) : programs[k] = pr[k]
        /\ \A k \in 1..Len(t.append) : t.append[k] \cap RulesIn(pr) = {}
        /\ t.pre[2][5] = marks \cap RulesIn(pr)
        /\ t.reactivated \subseteq di
        /\ t.reactivate \subseteq di
        /\ disabled = di \ t.reactivated

Adding(t) ==
    /\ t.old[1] \in 1..Len(programs)
    /\ disabled \subseteq Kept(t)
    /\ t.reactivated \subseteq Kept(t)
    /\ t.reactivate \subseteq Kept(t)
    /\ \A i \in derived_from \ t.tracked : i.rule \in Kept(t)
    /\ t.append \in Seq(SUBSET Rules)
    /\ t.facts \subseteq present
    /\ Differ(t.mark[1] \ t.mark[2], ext) \subseteq Asserted
    /\ RulesIn(t.pre[2][2]) \ t.pre[2][3] \subseteq t.ruleset => UndoRuleInsert(t)

Inserting == task.op = "rule_insert" => Adding(task)

Undo == UndoInsert /\ UndoDelete /\ UndoRuleDelete

ReasonerInv == Shape /\ Alive /\ Inserting /\ Base /\ Undo /\ UndoExact

-----------------------------------------------------------------------------
(* Helpers                                                                   *)

LEMMA AllRulesIn == AllRules = RulesIn(programs)
BY DEF AllRules, RulesIn

LEMMA StrataOf ==
    ASSUME NEW S, S \subseteq Rules
    PROVE  /\ Strata(S) \in Seq(SUBSET Rules)
           /\ Strata(S) # << >> => RulesIn(Strata(S)) = S
BY StrataAssumption DEF RulesIn

\* The fields of a new call.
LEMMA NoTaskFields ==
    /\ DOMAIN NoTask = Fields /\ NoTask.op = "none" /\ NoTask.at = 0
    /\ NoTask.started = FALSE /\ NoTask.mode = "full" /\ NoTask.mark = <<{}, {}>>
    /\ NoTask.delta = {} /\ NoTask.facts = {} /\ NoTask.tracked = {} /\ NoTask.inserts = {}
    /\ NoTask.deletes = {} /\ NoTask.pd = {} /\ NoTask.removed = {} /\ NoTask.ruleset = {}
    /\ NoTask.targets = {} /\ NoTask.reactivate = {} /\ NoTask.reactivated = {}
    /\ NoTask.append = << >> /\ NoTask.old = << >>
BY DEF NoTask, Fields

LEMMA NewTaskFields ==
    ASSUME Shape, Alive
    PROVE  /\ DOMAIN NewTask = Fields /\ NewTask.op = "none" /\ NewTask.at = 0
           /\ NewTask.started = FALSE /\ NewTask.mode = "full" /\ NewTask.mark = <<{}, {}>>
           /\ NewTask.delta = {} /\ NewTask.facts = {} /\ NewTask.tracked = {}
           /\ NewTask.inserts = {} /\ NewTask.deletes = {} /\ NewTask.pd = {}
           /\ NewTask.removed = {} /\ NewTask.ruleset = {} /\ NewTask.targets = {}
           /\ NewTask.reactivate = {} /\ NewTask.reactivated = {} /\ NewTask.append = << >>
           /\ task.op = "none" => NewTask.pre = <<store, reasoner>>
           /\ task.op # "none" => NewTask.pre = task.pre
           /\ Client(NewTask.pre)
<1> DEFINE x == IF task.op = "none" THEN <<store, reasoner>> ELSE task.pre
<1>1. Client(<<store, reasoner>>)
  BY DEF Client, store, reasoner, Alive
<1>2. Client(x)
  BY <1>1 DEF Shape
<1> HIDE DEF x
<1>3. NewTask = [NoTask EXCEPT !.pre = x]
  BY DEF NewTask, x
<1>4. NewTask.pre = x
  BY <1>3, NoTaskFields DEF Fields
<1>5. QED
  BY <1>2, <1>3, <1>4, NoTaskFields DEF Fields, x

\* Between calls nothing but the store and the reasoner matters.
LEMMA DoneKeeps ==
    ASSUME Stored(present', intensional'), loaded' \in BOOLEAN,
           Index(programs', disabled', derived_from', marks'),
           loaded' = TRUE => programs' # << >>,
           task' = NoTask, outcome' \in {"ok", "rejected", "ruleset_rejected", "rollback_failed"}
    PROVE  ReasonerInv'
<1>1. task'.op = "none" /\ ~Running'
  BY NoTaskFields DEF Running
<1>2. Shape'
  <2>1. task'.mark = <<task'.mark[1], task'.mark[2]>> /\ Stored(task'.mark[1], task'.mark[2])
    BY NoTaskFields DEF Stored
  <2>2. QED
    BY <1>1, <2>1, NoTaskFields DEF Shape, Ops, Stored
<1>3. Alive'
  BY <1>1 DEF Alive, Index, Derivations, RulesIn, HasNegation, Stored
<1>4. Inserting' /\ Base'
  BY <1>1 DEF Inserting, Base
<1>5. Undo'
  BY <1>1 DEF Undo, UndoInsert, UndoDelete, UndoRuleDelete
<1>6. UndoExact'
  BY <1>1 DEF UndoExact
<1>7. QED
  BY <1>2, <1>3, <1>4, <1>5, <1>6 DEF ReasonerInv

LEMMA ReasonerInit == Init => ReasonerInv
<1> SUFFICES ASSUME Init PROVE ReasonerInv
  OBVIOUS
<1>1. task.op = "none" /\ ~Running
  BY NoTaskFields DEF Init, Running
<1>2. Shape
  <2>1. task.mark = <<task.mark[1], task.mark[2]>> /\ Stored(task.mark[1], task.mark[2])
    BY NoTaskFields DEF Init, Stored
  <2>2. QED
    BY <1>1, <2>1, NoTaskFields DEF Init, Shape, Ops
<1>3. Alive
  <2>1. << >> \in Seq(SUBSET Rules)
    OBVIOUS
  <2>2. Index(programs, disabled, derived_from, marks)
    BY <2>1 DEF Init, Index
  <2>3. QED
    BY <1>1, <2>2 DEF Init, Alive, Stored
<1>4. Inserting /\ Base
  BY <1>1 DEF Inserting, Base
<1>5. Undo
  BY <1>1 DEF Undo, UndoInsert, UndoDelete, UndoRuleDelete
<1>6. UndoExact
  BY <1>1 DEF UndoExact
<1>7. QED
  BY <1>2, <1>3, <1>4, <1>5, <1>6 DEF ReasonerInv

\* The calls that nothing undoes.
LEMMA NoUndoKeeps ==
    ASSUME task'.op \in {"retract", "new", "rebuild"}, Shape', Alive'
    PROVE  ReasonerInv'
<1>1. Inserting' /\ Base'
  BY DEF Inserting, Base
<1>2. Undo'
  BY DEF Undo, UndoInsert, UndoDelete, UndoRuleDelete
<1>3. UndoExact'
  BY DEF UndoExact
<1>4. QED
  BY <1>1, <1>2, <1>3 DEF ReasonerInv

LEMMA FullRebuildKeeps ==
    ASSUME Shape, Alive, NEW R, R \subseteq Rules, full_rebuild(R)
    PROVE  ReasonerInv' /\ ext' = ext
<1>1. Stored(present', intensional') /\ ext' = ext
  BY DEF full_rebuild, SetStore, Stored, Alive, ext
<1>2. CASE Strata(R) = << >>
  <2>1. /\ task' = NoTask /\ outcome' = "ruleset_rejected"
        /\ UNCHANGED <<loaded, programs, disabled, derived_from, marks>>
    BY <1>2 DEF full_rebuild, Done, reasoner
  <2>2. QED
    BY <1>1, <2>1, DoneKeeps DEF Alive
<1>3. CASE Strata(R) # << >>
  <2>1. /\ task' = [NewTask EXCEPT !.op = "new", !.at = 1, !.old = reasoner]
        /\ programs' = Strata(R)
        /\ disabled' = {}
        /\ derived_from' = {}
        /\ marks' = {r \in R : HasNegation(r)}
        /\ UNCHANGED <<loaded, outcome>>
    BY <1>3 DEF full_rebuild
  <2>2. /\ DOMAIN task' = Fields /\ task'.op = "new" /\ task'.at = 1 /\ task'.mode = "full"
        /\ task'.old = reasoner /\ task'.pre = NewTask.pre /\ task'.mark = <<{}, {}>>
        /\ task'.delta = {} /\ task'.facts = {} /\ task'.inserts = {} /\ task'.deletes = {}
        /\ task'.pd = {} /\ task'.ruleset = {}
    BY <2>1, NewTaskFields DEF Fields
  <2>3. Client(task'.pre)
    BY <2>2, NewTaskFields
  <2>4. Shape'
    <3>1. task'.mark = <<task'.mark[1], task'.mark[2]>> /\ Stored(task'.mark[1], task'.mark[2])
      BY <2>2 DEF Stored
    <3>2. QED
      BY <2>1, <2>2, <2>3, <3>1 DEF Shape, Ops, Client, Stored, Index, Derivations, RulesIn, HasNegation
  <2>5. Index(programs', disabled', derived_from', marks')
    BY <2>1, <1>3, StrataOf DEF Index
  <2>6. programs' \in Seq(SUBSET Rules) /\ programs' # << >>
    BY <1>3, <2>1, StrataOf
  <2>7. 1 \in 1..Len(programs')
    BY <2>6, EmptySeq, LenProperties
  <2>8. /\ task'.old[1] = loaded /\ task'.old[2] = programs /\ task'.old[3] = disabled
        /\ task'.old[4] = derived_from /\ task'.old[5] = marks
    BY <2>2 DEF reasoner
  <2>9. Index(task'.old[2], task'.old[3], task'.old[4], task'.old[5])
    BY <2>8 DEF Alive
  <2>10. Alive'
    BY <1>1, <2>1, <2>2, <2>5, <2>6, <2>7, <2>8, <2>9
       DEF Alive, Index, Derivations, RulesIn, HasNegation, Stored, Running
  <2>11. QED
    BY <1>1, <2>2, <2>4, <2>10, NoUndoKeeps
<1>4. QED
  BY <1>2, <1>3

-----------------------------------------------------------------------------
(* The phases that a call may begin with                                     *)

LEMMA ApplyInsertionsKeeps ==
    ASSUME Shape, Alive, programs # << >>, NEW P, NEW N, Stored(P, N),
           NEW u, u.inserts \subseteq Facts, u.deletes \subseteq Facts,
           u.deletes = {} => task.op = "none" /\ P = present \cup u.inserts /\ N = intensional,
           apply_insertions(P, N, u)
    PROVE  ReasonerInv'
<1>1. /\ present' = P /\ intensional' = N
      /\ task' = [NewTask EXCEPT !.op = "insert", !.at = 1, !.mode = "facts",
                              !.facts = u.inserts, !.inserts = u.inserts,
                              !.deletes = u.deletes, !.mark = <<P, N>>]
      /\ UNCHANGED <<loaded, programs, disabled, derived_from, marks, outcome>>
  BY DEF apply_insertions, SetStore, reasoner
<1>2. /\ DOMAIN task' = Fields /\ task'.op = "insert" /\ task'.at = 1 /\ task'.mark = <<P, N>>
      /\ task'.facts = u.inserts /\ task'.inserts = u.inserts /\ task'.deletes = u.deletes
      /\ task'.pre = NewTask.pre /\ task'.delta = {} /\ task'.pd = {} /\ task'.ruleset = {}
      /\ task'.tracked = {}
  BY <1>1, NewTaskFields DEF Fields
<1>3. Client(task'.pre)
  BY <1>2, NewTaskFields
<1>4. Shape'
  <2>1. task'.mark = <<task'.mark[1], task'.mark[2]>> /\ Stored(task'.mark[1], task'.mark[2])
    BY <1>2 DEF Stored
  <2>2. QED
    BY <1>1, <1>2, <1>3, <2>1
       DEF Shape, Ops, Client, Stored, Index, Derivations, RulesIn, HasNegation
<1>5. 1 \in 1..Len(programs)
  BY EmptySeq, LenProperties DEF Alive, Index
<1>6. Alive'
  BY <1>1, <1>2, <1>5 DEF Alive, Index, Derivations, RulesIn, HasNegation, Stored, Running
<1>7. UndoInsert'
  <2> SUFFICES ASSUME u.deletes = {}
               PROVE  /\ task'.mark = <<task'.pre[1][1] \cup task'.inserts, task'.pre[1][2]>>
                      /\ SameRules' /\ Grown(IndexBefore)'
    BY <1>2 DEF UndoInsert
  <2>1. task'.pre = <<<<present, intensional>>,
                      <<loaded, programs, disabled, derived_from, marks>>>>
    BY <1>2, NewTaskFields DEF store, reasoner
  <2>2. task'.mark = <<task'.pre[1][1] \cup task'.inserts, task'.pre[1][2]>>
    BY <1>2, <2>1
  <2>3. SameRules'
    BY <1>1, <2>1 DEF SameRules, LoadedBefore, ProgramsBefore, DisabledBefore, MarksBefore
  <2>4. Grown(IndexBefore)'
    BY <1>1, <1>2, <2>1 DEF Grown, IndexBefore
  <2>5. QED
    BY <2>2, <2>3, <2>4
<1>8. UndoDelete' /\ UndoRuleDelete'
  BY <1>2 DEF UndoDelete, UndoRuleDelete
<1>9. Inserting' /\ Base' /\ UndoExact'
  BY <1>2 DEF Inserting, Base, UndoExact
<1>10. QED
  BY <1>4, <1>6, <1>7, <1>8, <1>9 DEF ReasonerInv, Undo

\* The backward phase finds derived quads, and none that it is to keep.
LEMMA CascadeBound ==
    ASSUME derived_from \subseteq Derivations(programs), NEW seeds, NEW Keep,
           seeds \subseteq Heads(derived_from), seeds \cap Keep = {}
    PROVE  /\ Cascade(seeds, Keep) \subseteq Heads(derived_from)
           /\ Cascade(seeds, Keep) \subseteq Facts
           /\ Cascade(seeds, Keep) \cap Keep = {}
<1> DEFINE P == Heads(derived_from) \ Keep
           Closed(T) == \A i \in derived_from :
                           i.pos \cap T # {} /\ i.head \notin Keep => i.head \in T
<1>1. Heads(derived_from) \subseteq Facts
  BY DEF Heads, Derivations
<1>2. P \in SUBSET Facts /\ seeds \subseteq P /\ Closed(P)
  BY <1>1 DEF Heads
<1>3. Cascade(seeds, Keep) =
         {f \in Facts : \A T \in SUBSET Facts : seeds \subseteq T /\ Closed(T) => f \in T}
  BY DEF Cascade
<1>4. Cascade(seeds, Keep) \subseteq P
  BY <1>2, <1>3
<1>5. QED
  BY <1>1, <1>4

LEMMA ApplyDeletionsKeeps ==
    ASSUME Shape, Alive, programs # << >>, task.op = "none", NEW P, NEW N, Stored(P, N),
           NEW u, u.inserts \subseteq Facts, u.deletes \subseteq present, u.deletes # {},
           P = (present \ u.deletes) \cup u.inserts, N = intensional \ u.deletes,
           apply_deletions(P, N, u)
    PROVE  ReasonerInv'
<1> DEFINE pd == backward_phase(u.deletes)
           t == [NewTask EXCEPT !.at = 1, !.deletes = u.deletes, !.inserts = u.inserts]
           gone == {i \in derived_from : i.head \in pd}
<1>1. /\ DOMAIN t = Fields /\ t.at = 1 /\ t.deletes = u.deletes /\ t.inserts = u.inserts
      /\ t.mark = <<{}, {}>> /\ t.facts = {} /\ t.delta = {} /\ t.pd = {} /\ t.ruleset = {}
      /\ t.tracked = {} /\ t.mode = "full" /\ t.pre = <<store, reasoner>> /\ Client(t.pre)
  BY NewTaskFields DEF Fields
<1>2. /\ \/ full_rematerialise(P, N, t)
         \/ forward_phase(P, N, pd, t)
      /\ UNCHANGED <<loaded, programs, disabled, marks, outcome>>
  BY DEF apply_deletions
<1>3. pd \subseteq Heads(derived_from) /\ pd \subseteq Facts
  <2> DEFINE S == Heads({i \in derived_from : i.pos \cap u.deletes # {}})
  <2>1. S \subseteq Heads(derived_from) /\ S \cap {} = {}
    BY DEF Heads
  <2>2. derived_from \subseteq Derivations(programs)
    BY DEF Alive, Index
  <2>3. pd = Cascade(S, {})
    BY DEF backward_phase
  <2> HIDE DEF S, pd
  <2>4. QED
    BY <2>1, <2>2, <2>3, CascadeBound
<1>4. u.deletes \subseteq Facts /\ 1 \in 1..Len(programs)
  BY EmptySeq, LenProperties DEF Alive, Index, Stored
<1> HIDE DEF pd, t
<1>5. CASE full_rematerialise(P, N, t)
  <2>1. /\ present' = P \ N /\ intensional' = {} /\ derived_from' = derived_from
        /\ task' = [t EXCEPT !.op = "rematerialise"]
    BY <1>5 DEF full_rematerialise, SetStore
  <2>2. /\ DOMAIN task' = Fields /\ task'.op = "rematerialise" /\ task'.at = 1
        /\ task'.deletes = u.deletes /\ task'.inserts = u.inserts /\ task'.mark = <<{}, {}>>
        /\ task'.facts = {} /\ task'.delta = {} /\ task'.pd = {} /\ task'.ruleset = {}
        /\ task'.mode = "full" /\ Client(task'.pre)
    BY <1>1, <2>1 DEF Fields
  <2>3. Shape'
    <3>1. task'.mark = <<task'.mark[1], task'.mark[2]>> /\ Stored(task'.mark[1], task'.mark[2])
      BY <2>2 DEF Stored
    <3>2. QED
      BY <1>2, <1>4, <2>2, <3>1
         DEF Shape, Ops, Client, Stored, Index, Derivations, RulesIn, HasNegation
  <2>4. Alive'
    BY <1>2, <1>4, <2>1, <2>2
       DEF Alive, Index, Derivations, RulesIn, HasNegation, Stored, Running
  <2>5. Undo'
    BY <2>2 DEF Undo, UndoInsert, UndoDelete, UndoRuleDelete
  <2>6. Inserting' /\ Base' /\ UndoExact'
    BY <2>2 DEF Inserting, Base, UndoExact
  <2>7. QED
    BY <2>3, <2>4, <2>5, <2>6 DEF ReasonerInv
<1>6. CASE forward_phase(P, N, pd, t)
  <2>1. /\ present' = P \ pd /\ intensional' = N \ pd /\ derived_from' = derived_from \ gone
        /\ task' = [t EXCEPT !.op = "delete", !.pd = pd, !.removed = gone,
                             !.mark = <<P \ pd, N \ pd>>]
    BY <1>6 DEF forward_phase, SetStore
  <2> HIDE DEF gone
  <2>2. /\ DOMAIN task' = Fields /\ task'.op = "delete" /\ task'.at = 1
        /\ task'.deletes = u.deletes /\ task'.inserts = u.inserts
        /\ task'.mark = <<P \ pd, N \ pd>> /\ task'.facts = {} /\ task'.delta = {}
        /\ task'.pd = pd /\ task'.ruleset = {} /\ task'.mode = "full" /\ task'.removed = gone
        /\ task'.tracked = {} /\ task'.pre = <<store, reasoner>> /\ Client(task'.pre)
    BY <1>1, <2>1 DEF Fields
  <2>3. Shape'
    <3>1. task'.mark = <<task'.mark[1], task'.mark[2]>> /\ Stored(task'.mark[1], task'.mark[2])
      BY <2>2 DEF Stored
    <3>2. QED
      BY <1>2, <1>3, <1>4, <2>2, <3>1
         DEF Shape, Ops, Client, Stored, Index, Derivations, RulesIn, HasNegation
  <2>4. Alive'
    BY <1>2, <1>4, <2>1, <2>2
       DEF Alive, Index, Derivations, RulesIn, HasNegation, Stored, Running, gone
  <2>5. task'.pre = <<<<present, intensional>>,
                      <<loaded, programs, disabled, derived_from, marks>>>>
    BY <2>2 DEF store, reasoner
  <2>6. UndoDelete'
    <3>1. SameRules'
      BY <1>2, <2>5 DEF SameRules, LoadedBefore, ProgramsBefore, DisabledBefore, MarksBefore
    <3>2. Retracted'
      BY <1>3, <2>1, <2>2, <2>5 DEF Retracted, IndexBefore, Grown, Heads, gone
    <3>3. task'.mark[1] = ((task'.pre[1][1] \ task'.deletes) \cup task'.inserts) \ task'.pd
      BY <2>2, <2>5
    <3>4. QED
      BY <2>2, <2>5, <3>1, <3>2, <3>3 DEF UndoDelete
  <2>7. UndoInsert' /\ UndoRuleDelete'
    BY <2>2 DEF UndoInsert, UndoRuleDelete
  <2>8. Inserting' /\ Base' /\ UndoExact'
    BY <2>2 DEF Inserting, Base, UndoExact
  <2>9. QED
    BY <2>3, <2>4, <2>6, <2>7, <2>8 DEF ReasonerInv, Undo
<1>7. QED
  BY <1>2, <1>5, <1>6

LEMMA ApplyRuleDeletionsKeeps ==
    ASSUME Shape, Alive, programs # << >>, task.op = "none", NEW R, R \subseteq Rules,
           NEW targets, targets = active_rules \ R, targets # {},
           apply_rule_deletions(targets, R)
    PROVE  ReasonerInv' /\ ext' = ext
<1> DEFINE pd == backward_phase_from_rule_removal(targets)
           t == [NewTask EXCEPT !.at = 1, !.targets = targets, !.ruleset = R]
           gone == {i \in derived_from : i.head \in pd}
<1>1. /\ DOMAIN t = Fields /\ t.at = 1 /\ t.targets = targets /\ t.ruleset = R
      /\ t.mark = <<{}, {}>> /\ t.facts = {} /\ t.delta = {} /\ t.pd = {}
      /\ t.deletes = {} /\ t.inserts = {} /\ t.tracked = {} /\ t.mode = "full"
      /\ t.pre = <<store, reasoner>> /\ Client(t.pre)
  BY NewTaskFields DEF Fields
<1>2. /\ full_rematerialise_rules(t) \/ forward_phase_rules(pd, t)
      /\ disabled' = disabled \cup targets
      /\ UNCHANGED <<loaded, programs, marks, outcome>>
  BY DEF apply_rule_deletions
<1>3. /\ pd \subseteq Heads(derived_from) /\ pd \subseteq Facts /\ pd \cap ext = {}
  <2> DEFINE S == Heads({i \in derived_from : i.rule \in targets}) \ ext
  <2>1. S \subseteq Heads(derived_from) /\ S \cap ext = {}
    BY DEF Heads
  <2>2. derived_from \subseteq Derivations(programs)
    BY DEF Alive, Index
  <2>3. pd = Cascade(S, ext)
    BY DEF backward_phase_from_rule_removal
  <2> HIDE DEF S, pd
  <2>4. QED
    BY <2>1, <2>2, <2>3, CascadeBound
<1>4. 1 \in 1..Len(programs)
  BY EmptySeq, LenProperties DEF Alive, Index
<1>5. /\ active_rules = RulesIn(programs) \ disabled /\ targets \subseteq RulesIn(programs)
      /\ targets \cap disabled = {} /\ ~(RulesIn(programs) \ disabled \subseteq R)
  BY AllRulesIn DEF active_rules
<1>6. Index(programs, disabled', derived_from, marks)
  BY <1>2, <1>5 DEF Alive, Index
<1> HIDE DEF pd, t
<1>7. ASSUME task'.op \in {"rule_delete", "rule_rematerialise"}, task'.pre = t.pre,
             task'.targets = targets, task'.ruleset = R
      PROVE  /\ task'.pre = <<<<present, intensional>>,
                              <<loaded, programs, disabled, derived_from, marks>>>>
             /\ ~(ActiveBefore' \subseteq task'.ruleset)
             /\ loaded' = LoadedBefore'
             /\ programs' = ProgramsBefore'
             /\ disabled' = DisabledBefore' \cup task'.targets
             /\ DisabledBefore' \cap task'.targets = {}
  <2>1. task'.pre = <<<<present, intensional>>,
                      <<loaded, programs, disabled, derived_from, marks>>>>
    BY <1>1, <1>7 DEF store, reasoner
  <2>2. ProgramsBefore' = programs /\ DisabledBefore' = disabled /\ LoadedBefore' = loaded
    BY <2>1 DEF ProgramsBefore, DisabledBefore, LoadedBefore
  <2>3. ActiveBefore' = RulesIn(programs) \ disabled
    BY <2>2 DEF ActiveBefore, RulesIn
  <2>4. QED
    BY <1>2, <1>5, <1>7, <2>1, <2>2, <2>3
<1>8. CASE full_rematerialise_rules(t)
  <2>1. /\ present' = ext /\ intensional' = {} /\ derived_from' = derived_from
        /\ task' = [t EXCEPT !.op = "rule_rematerialise", !.mark = <<present, intensional>>,
                             !.old = <<derived_from, marks>>]
    BY <1>8 DEF full_rematerialise_rules, SetStore, store
  <2>2. /\ DOMAIN task' = Fields /\ task'.op = "rule_rematerialise" /\ task'.at = 1
        /\ task'.mark = <<present, intensional>> /\ task'.old = <<derived_from, marks>>
        /\ task'.deletes = {} /\ task'.inserts = {} /\ task'.ruleset = R
        /\ task'.targets = targets /\ task'.facts = {} /\ task'.delta = {} /\ task'.pd = {}
        /\ task'.mode = "full" /\ task'.pre = t.pre /\ Client(task'.pre)
    BY <1>1, <2>1 DEF Fields
  <2>3. Shape'
    <3>1. task'.mark = <<task'.mark[1], task'.mark[2]>> /\ Stored(task'.mark[1], task'.mark[2])
      BY <2>2 DEF Stored, Alive
    <3>2. QED
      BY <1>2, <2>2, <3>1
         DEF Shape, Ops, Client, Stored, Index, Derivations, RulesIn, HasNegation
  <2>4. Alive'
    <3>1. Index(programs, {}, task'.old[1], task'.old[2])
      BY <2>2 DEF Alive, Index
    <3>2. Stored(present', intensional')
      BY <2>1 DEF Alive, Stored, ext
    <3>3. QED
      BY SMTT(30), <1>2, <1>4, <1>6, <2>1, <2>2, <3>1, <3>2
         DEF Alive, Index, Derivations, RulesIn, HasNegation, Stored, Running
  <2>5. UndoRuleDelete'
    <3>1. /\ task'.mark = task'.pre[1] /\ task'.old = <<IndexBefore', MarksBefore'>>
      BY <1>7, <2>2 DEF IndexBefore, MarksBefore
    <3>2. QED
      BY <1>7, <2>2, <3>1 DEF UndoRuleDelete
  <2>6. UndoInsert' /\ UndoDelete'
    BY <2>2 DEF UndoInsert, UndoDelete
  <2>7. ext' = ext
    BY <2>1 DEF ext
  <2>8. Base'
    BY <2>2, <2>7 DEF Base, Differ, ext
  <2>9. Inserting' /\ UndoExact'
    BY <2>2 DEF Inserting, UndoExact
  <2>10. QED
    BY <2>3, <2>4, <2>5, <2>6, <2>7, <2>8, <2>9 DEF ReasonerInv, Undo
<1>9. CASE forward_phase_rules(pd, t)
  <2>1. /\ present' = present \ pd /\ intensional' = intensional \ pd
        /\ derived_from' = derived_from \ gone
        /\ task' = [t EXCEPT !.op = "rule_delete", !.pd = pd, !.removed = gone,
                             !.mark = <<present \ pd, intensional \ pd>>]
    BY <1>9 DEF forward_phase_rules, SetStore
  <2> HIDE DEF gone
  <2>2. /\ DOMAIN task' = Fields /\ task'.op = "rule_delete" /\ task'.at = 1
        /\ task'.mark = <<present \ pd, intensional \ pd>> /\ task'.removed = gone
        /\ task'.deletes = {} /\ task'.inserts = {} /\ task'.ruleset = R
        /\ task'.targets = targets /\ task'.facts = {} /\ task'.delta = {} /\ task'.pd = pd
        /\ task'.tracked = {}
        /\ task'.mode = "full" /\ task'.pre = t.pre /\ Client(task'.pre)
    BY <1>1, <2>1 DEF Fields
  <2>3. Shape'
    <3>1. task'.mark = <<task'.mark[1], task'.mark[2]>> /\ Stored(task'.mark[1], task'.mark[2])
      BY <2>2 DEF Stored, Alive
    <3>2. QED
      BY <1>2, <1>3, <2>2, <3>1
         DEF Shape, Ops, Client, Stored, Index, Derivations, RulesIn, HasNegation
  <2>4. Alive'
    <3>1. Index(programs, disabled', derived_from', marks)
      BY <1>6, <2>1 DEF Index
    <3>2. task'.removed \subseteq Derivations(programs)
      BY <2>2 DEF gone, Alive, Index
    <3>3. Stored(present', intensional')
      BY <2>1 DEF Alive, Stored
    <3>4. QED
      BY <1>2, <1>4, <2>2, <3>1, <3>2, <3>3
         DEF Alive, Index, Derivations, RulesIn, HasNegation, Stored, Running
  <2>5. UndoRuleDelete'
    <3>1. /\ marks' = MarksBefore'
          /\ task'.mark = <<task'.pre[1][1] \ task'.pd, task'.pre[1][2] \ task'.pd>>
          /\ task'.pd \cap (task'.pre[1][1] \ task'.pre[1][2]) = {}
      BY <1>2, <1>3, <1>7, <2>2 DEF MarksBefore, ext
    <3>2. Retracted'
      BY <1>3, <1>7, <2>1, <2>2 DEF Retracted, IndexBefore, Grown, Heads, gone
    <3>3. QED
      BY <1>7, <2>2, <3>1, <3>2 DEF UndoRuleDelete
  <2>6. UndoInsert' /\ UndoDelete'
    BY <2>2 DEF UndoInsert, UndoDelete
  <2>7. ext' = ext
    BY <1>3, <2>1 DEF ext
  <2>8. Base'
    BY <1>3, <2>2, <2>7 DEF Base, Differ, ext
  <2>9. Inserting' /\ UndoExact'
    BY <2>2 DEF Inserting, UndoExact
  <2>10. QED
    BY <2>3, <2>4, <2>5, <2>6, <2>7, <2>8, <2>9 DEF ReasonerInv, Undo
<1>10. QED
  BY <1>2, <1>8, <1>9

-----------------------------------------------------------------------------
(* Adding rules                                                              *)

\* A call that may go on to its next rule or stratum.
Ready(t) ==
    /\ DOMAIN t = Fields /\ t.op = "rule_insert" /\ t.delta = {}
    /\ t.facts \subseteq Facts /\ t.pd \subseteq Facts
    /\ t.inserts \subseteq Facts /\ t.deletes \subseteq Facts
    /\ t.mark = <<t.mark[1], t.mark[2]>>
    /\ Stored(t.mark[1], t.mark[2])
    /\ t.ruleset \subseteq Rules
    /\ Client(t.pre)
    /\ Adding(t)

\* One more program.
LEMMA AppendProgram ==
    ASSUME NEW pr \in Seq(SUBSET Rules), NEW p \in SUBSET Rules
    PROVE  /\ Append(pr, p) \in Seq(SUBSET Rules) /\ Append(pr, p) # << >>
           /\ Len(Append(pr, p)) = Len(pr) + 1
           /\ \A k \in 1..Len(pr) : Append(pr, p)[k] = pr[k]
           /\ Append(pr, p)[Len(pr) + 1] = p
           /\ RulesIn(Append(pr, p)) = RulesIn(pr) \cup p
<1> DEFINE a == Append(pr, p)
           n == Len(pr)
<1>1. /\ a \in Seq(SUBSET Rules) /\ Len(a) = n + 1 /\ n \in Nat
      /\ \A k \in 1..n : a[k] = pr[k]
      /\ a[n + 1] = p
  BY AppendProperties, LenProperties
<1>2. a # << >>
  BY <1>1, EmptySeq
<1> HIDE DEF a, n
<1>3. \A k : k \in 1..(n + 1) <=> k \in 1..n \/ k = n + 1
  BY <1>1
<1>4. ASSUME NEW r
      PROVE  r \in RulesIn(a) <=> r \in RulesIn(pr) \/ r \in p
  <2>1. r \in RulesIn(a) <=> \E k \in 1..(n + 1) : r \in a[k]
    BY <1>1 DEF RulesIn
  <2>2. r \in RulesIn(pr) <=> \E k \in 1..n : r \in pr[k]
    BY DEF RulesIn, n
  <2>3. (\E k \in 1..(n + 1) : r \in a[k]) <=> (\E k \in 1..n : r \in a[k]) \/ r \in a[n + 1]
    BY <1>3
  <2>4. QED
    BY <1>1, <2>1, <2>2, <2>3
<1>5. RulesIn(a) = RulesIn(pr) \cup p
  BY <1>4
<1>6. QED
  BY <1>1, <1>2, <1>5 DEF a, n

\* The fields of t that NextRuleInsertion leaves alone.
SameLog(t, x) ==
    /\ DOMAIN x = Fields /\ x.op = t.op /\ x.delta = t.delta /\ x.pd = t.pd
    /\ x.inserts = t.inserts /\ x.deletes = t.deletes /\ x.mark = t.mark
    /\ x.ruleset = t.ruleset /\ x.pre = t.pre /\ x.old = t.old /\ x.tracked = t.tracked

LEMMA NextRuleInsertionKeeps ==
    ASSUME Alive, outcome \in {"ok", "rejected", "ruleset_rejected", "rollback_failed"},
           NEW t, Ready(t), NextRuleInsertion(t),
           UNCHANGED <<present, intensional, loaded, derived_from>>
    PROVE  ReasonerInv' /\ ext' = ext
<1>1. ext' = ext
  BY DEF ext
<1>2. /\ Stored(present', intensional') /\ loaded' \in BOOLEAN
      /\ Index(programs, disabled, derived_from, marks) /\ programs \in Seq(SUBSET Rules)
      /\ Len(programs) \in Nat /\ DOMAIN programs = 1..Len(programs)
      /\ \A k \in 1..Len(programs) : programs[k] \subseteq Rules
  <2>1. /\ Stored(present, intensional) /\ loaded \in BOOLEAN
        /\ Index(programs, disabled, derived_from, marks) /\ programs \in Seq(SUBSET Rules)
    BY DEF Alive, Index
  <2>2. QED
    BY <2>1, LenProperties, ElementOfSeq
<1>3. t.old[1] \in 1..Len(programs)
  BY DEF Ready, Adding
<1>4. ASSUME SameLog(t, task'), task'.at \in 1..Len(programs'), programs' # << >>,
             task'.facts \subseteq t.facts,
             outcome' = outcome,
             Index(programs', disabled', derived_from, marks'), Adding(task)'
      PROVE  ReasonerInv'
  <2>1. /\ DOMAIN task' = Fields /\ task'.op = "rule_insert" /\ task'.delta = {}
        /\ task'.facts \subseteq Facts /\ task'.pd \subseteq Facts
        /\ task'.inserts \subseteq Facts /\ task'.deletes \subseteq Facts
        /\ task'.mark = <<task'.mark[1], task'.mark[2]>>
        /\ Stored(task'.mark[1], task'.mark[2])
        /\ task'.ruleset \subseteq Rules
        /\ Client(task'.pre)
    BY <1>4 DEF Ready, SameLog
  <2>2. Shape'
    BY <1>4, <2>1 DEF Shape, Ops, Client, Stored, Index, Derivations, RulesIn, HasNegation
  <2>3. Alive'
    BY <1>2, <1>4, <2>1 DEF Alive, Index, Derivations, RulesIn, HasNegation, Stored, Running
  <2>4. Undo' /\ Base' /\ UndoExact'
    BY <2>1 DEF Undo, UndoInsert, UndoDelete, UndoRuleDelete, Base, UndoExact
  <2>5. Inserting'
    BY <1>4 DEF Inserting
  <2>6. QED
    BY <2>2, <2>3, <2>4, <2>5 DEF ReasonerInv
<1>5. ASSUME NEW r \in t.reactivate, NEW k \in 1..Len(programs),
             disabled' = disabled \ {r},
             task' = [t EXCEPT !.at = k, !.started = FALSE, !.mode = "full", !.facts = {},
                               !.reactivate = @ \ {r}, !.reactivated = @ \cup {r}],
             UNCHANGED <<programs, marks, outcome>>
      PROVE  ReasonerInv'
  <2>1. /\ SameLog(t, task') /\ task'.at = k /\ task'.facts = {} /\ task'.append = t.append
        /\ task'.reactivate = t.reactivate \ {r} /\ task'.reactivated = t.reactivated \cup {r}
    BY <1>5 DEF SameLog, Ready, Fields
  <2>2. Index(programs', disabled', derived_from, marks')
    BY <1>2, <1>5 DEF Index
  <2>3. Kept(t) = Kept(task)'
    BY <1>5, <2>1 DEF Kept, SameLog
  <2>4. /\ disabled' \subseteq Kept(t) /\ task'.reactivated \subseteq Kept(t)
        /\ task'.reactivate \subseteq Kept(t)
        /\ \A i \in derived_from \ task'.tracked : i.rule \in Kept(t)
    BY <1>5, <2>1 DEF Ready, Adding, SameLog
  <2>5. ASSUME UndoRuleInsert(t)
        PROVE  UndoRuleInsert(task)'
    BY SMTT(30), <1>5, <2>1, <2>5 DEF UndoRuleInsert, SameLog, RulesIn
  <2>6. Adding(task)'
    <3>1. /\ task'.old[1] \in 1..Len(programs') /\ task'.append \in Seq(SUBSET Rules)
          /\ task'.facts \subseteq present'
          /\ Differ(task'.mark[1] \ task'.mark[2], ext') \subseteq Asserted
      BY <1>1, <1>3, <1>5, <2>1 DEF Ready, Adding, SameLog
    <3>2. RulesIn(task'.pre[2][2]) \ task'.pre[2][3] \subseteq task'.ruleset => UndoRuleInsert(task)'
      BY <2>1, <2>5 DEF Ready, Adding, SameLog
    <3>3. QED
      BY <2>3, <2>4, <3>1, <3>2 DEF Adding, Differ, ext, Asserted, Heads, IsFact, RulesIn
  <2>7. task'.at \in 1..Len(programs') /\ programs' # << >>
    BY <1>2, <1>5, <2>1, EmptySeq
  <2>8. task'.facts \subseteq t.facts
    BY <2>1
  <2>9. QED
    BY <1>4, <1>5, <2>1, <2>2, <2>6, <2>7, <2>8
<1>6. ASSUME t.append # << >>,
             programs' = Append(programs, Head(t.append)),
             marks' = marks \cup {r \in Head(t.append) : HasNegation(r)},
             task' = [t EXCEPT !.at = Len(programs) + 1, !.started = FALSE, !.mode = "full",
                               !.append = Tail(@)],
             UNCHANGED <<disabled, outcome>>
      PROVE  ReasonerInv'
  <2> DEFINE p == Head(t.append)
  <2>1. /\ SameLog(t, task') /\ task'.at = Len(programs) + 1 /\ task'.facts = t.facts
        /\ task'.append = Tail(t.append)
        /\ task'.reactivate = t.reactivate /\ task'.reactivated = t.reactivated
    BY <1>6 DEF SameLog, Ready, Fields
  <2>2. t.append \in Seq(SUBSET Rules)
    BY DEF Ready, Adding
  <2>3. /\ p \in SUBSET Rules /\ Tail(t.append) \in Seq(SUBSET Rules) /\ p = t.append[1]
        /\ Len(t.append) \in Nat /\ Len(t.append) # 0
        /\ Len(Tail(t.append)) = Len(t.append) - 1
        /\ \A k \in 1..Len(Tail(t.append)) : Tail(t.append)[k] = t.append[k + 1]
    BY <1>6, <2>2, HeadTailProperties, LenProperties, EmptySeq
  <2>4. /\ programs' \in Seq(SUBSET Rules) /\ programs' # << >>
        /\ Len(programs') = Len(programs) + 1
        /\ \A k \in 1..Len(programs) : programs'[k] = programs[k]
        /\ RulesIn(programs') = RulesIn(programs) \cup p
    BY <1>2, <1>6, <2>3, AppendProgram DEF RulesIn
  <2> HIDE DEF p
  <2>5. Index(programs', disabled', derived_from, marks')
    <3>1. marks' = marks \cup {r \in p : HasNegation(r)}
      BY <1>6 DEF p
    <3>2. derived_from \subseteq Derivations(programs')
      BY <1>2, <2>4 DEF Index, Derivations
    <3>3. disabled' \subseteq RulesIn(programs')
      BY <1>2, <1>6, <2>4 DEF Index
    <3>4. marks' \subseteq {r \in RulesIn(programs') : HasNegation(r)}
      BY <1>2, <2>4, <3>1 DEF Index
    <3>5. QED
      BY <2>4, <3>2, <3>3, <3>4 DEF Index
  <2>6. Kept(t) = Kept(task)'
    <3>1. \A k \in 1..t.old[1] : programs'[k] = programs[k]
      BY <1>2, <1>3, <2>4
    <3>2. QED
      BY <2>1, <3>1 DEF Kept, SameLog
  <2>7. ASSUME UndoRuleInsert(t)
        PROVE  UndoRuleInsert(task)'
    <3> DEFINE pr == t.pre[2][2]
    <3>1. /\ \A k \in 1..Len(pr) : programs[k] = pr[k]
          /\ Len(pr) \in 1..Len(programs)
          /\ \A k \in 1..Len(t.append) : t.append[k] \cap RulesIn(pr) = {}
          /\ t.pre[2][5] = marks \cap RulesIn(pr)
      BY <1>3, <2>7 DEF UndoRuleInsert
    <3>2. \A k \in 1..Len(pr) : programs'[k] = pr[k]
      BY <1>2, <2>4, <3>1
    <3>3. \A k \in 1..Len(task'.append) : task'.append[k] \cap RulesIn(pr) = {}
      <4>1. \A k \in 1..Len(Tail(t.append)) : k + 1 \in 1..Len(t.append)
        BY <2>3
      <4>2. QED
        BY <2>1, <2>3, <3>1, <4>1
    <3>4. t.pre[2][5] = marks' \cap RulesIn(pr)
      <4>1. p \cap RulesIn(pr) = {}
        BY <2>3, <3>1
      <4>2. marks' = marks \cup {r \in p : HasNegation(r)}
        BY <1>6 DEF p
      <4>3. QED
        BY <3>1, <4>1, <4>2
    <3>5. /\ t.mark = t.pre[1]
          /\ loaded = t.pre[2][1]
          /\ derived_from = t.pre[2][4] \cup t.tracked /\ t.pre[2][4] \cap t.tracked = {}
          /\ t.old[1] = Len(pr)
          /\ t.reactivated \subseteq t.pre[2][3]
          /\ t.reactivate \subseteq t.pre[2][3]
          /\ disabled = t.pre[2][3] \ t.reactivated
      BY <2>7 DEF UndoRuleInsert
    <3> HIDE DEF pr
    <3>6. task'.pre = t.pre /\ task'.mark = t.mark /\ task'.tracked = t.tracked
          /\ task'.old = t.old
      BY <2>1 DEF SameLog
    <3>7. /\ \A k \in 1..Len(task'.pre[2][2]) : programs'[k] = task'.pre[2][2][k]
          /\ \A k \in 1..Len(task'.append) : task'.append[k] \cap RulesIn(task'.pre[2][2]) = {}
          /\ task'.pre[2][5] = marks' \cap RulesIn(task'.pre[2][2])
      BY <3>2, <3>3, <3>4, <3>6 DEF pr
    <3>8. QED
      BY <1>6, <2>1, <3>5, <3>6, <3>7 DEF UndoRuleInsert, pr
  <2>8. Adding(task)'
    <3>0. task'.old = t.old /\ t.old[1] \in 1..Len(programs')
      BY <1>2, <1>3, <2>1, <2>4 DEF SameLog
    <3>1. /\ task'.old[1] \in 1..Len(programs') /\ task'.append \in Seq(SUBSET Rules)
          /\ task'.facts \subseteq present'
          /\ Differ(task'.mark[1] \ task'.mark[2], ext') \subseteq Asserted
      BY <1>1, <2>1, <2>3, <3>0 DEF Ready, Adding, SameLog
    <3>2. /\ disabled' \subseteq Kept(t) /\ task'.reactivated \subseteq Kept(t)
          /\ task'.reactivate \subseteq Kept(t)
          /\ \A i \in derived_from \ task'.tracked : i.rule \in Kept(t)
      BY <1>6, <2>1 DEF Ready, Adding, SameLog
    <3>3. RulesIn(task'.pre[2][2]) \ task'.pre[2][3] \subseteq task'.ruleset => UndoRuleInsert(task)'
      BY <2>1, <2>7 DEF Ready, Adding, SameLog
    <3>4. QED
      BY <2>6, <3>1, <3>2, <3>3 DEF Adding, Differ, ext, Asserted, Heads, IsFact, RulesIn
  <2>9. task'.at \in 1..Len(programs')
    BY <1>2, <2>1, <2>4
  <2>10. task'.facts \subseteq t.facts
    BY <2>1
  <2>11. QED
    BY <1>4, <1>6, <2>1, <2>4, <2>5, <2>8, <2>9, <2>10
<1>7. ASSUME Done("ok"), UNCHANGED <<programs, disabled, marks>>
      PROVE  ReasonerInv'
  <2>1. programs # << >>
    BY <1>2, <1>3, EmptySeq
  <2>2. QED
    BY <1>2, <1>7, <2>1, DoneKeeps DEF Done
<1>8. QED
  BY <1>1, <1>5, <1>6, <1>7 DEF NextRuleInsertion

\* Rules are added at the beginning of a call, or after others were removed.
LEMMA ApplyRuleInsertionsKeeps ==
    ASSUME Shape, Alive, programs # << >>, NEW R, R \subseteq Rules,
           NEW added, added = R \ active_rules,
           task.op = "none" \/ (task.op # "none" /\ ~(ActiveBefore \subseteq R)),
           apply_rule_insertions(added, R)
    PROVE  ReasonerInv' /\ ext' = ext
<1> DEFINE again == added \cap AllRules
           fresh == added \ AllRules
           t == [NewTask EXCEPT !.op = "rule_insert", !.mark = store, !.ruleset = R,
                                !.reactivate = again, !.append = Strata(fresh),
                                !.old = <<Len(programs)>>]
<1>1. CASE full_rebuild(R)
  BY <1>1, FullRebuildKeeps
<1>2. CASE NextRuleInsertion(t) /\ UNCHANGED <<store, loaded, derived_from>>
  <2>1. /\ DOMAIN t = Fields /\ t.op = "rule_insert" /\ t.delta = {} /\ t.facts = {}
        /\ t.pd = {} /\ t.inserts = {} /\ t.deletes = {} /\ t.mark = store
        /\ t.ruleset = R /\ t.pre = NewTask.pre /\ t.tracked = {} /\ t.reactivated = {}
        /\ t.reactivate = again /\ t.append = Strata(fresh) /\ t.old = <<Len(programs)>>
    BY NewTaskFields DEF Fields
  <2>2. /\ t.mark[1] = present /\ t.mark[2] = intensional /\ t.mark = <<present, intensional>>
        /\ t.old[1] = Len(programs) /\ Client(t.pre)
    BY <2>1, NewTaskFields DEF store
  <2>3. /\ Index(programs, disabled, derived_from, marks) /\ Stored(present, intensional)
        /\ Len(programs) \in 1..Len(programs)
    BY EmptySeq, LenProperties DEF Alive, Index
  <2>4. fresh \subseteq Rules /\ again \subseteq RulesIn(programs) /\ again \subseteq disabled
        /\ fresh \cap RulesIn(programs) = {}
    BY AllRulesIn DEF active_rules
  <2>5. /\ Strata(fresh) \in Seq(SUBSET Rules)
        /\ \A k \in 1..Len(Strata(fresh)) : Strata(fresh)[k] \cap RulesIn(programs) = {}
    <3>1. Strata(fresh) \in Seq(SUBSET Rules) /\ (Strata(fresh) # << >> => RulesIn(Strata(fresh)) = fresh)
      BY <2>4, StrataOf
    <3>2. ASSUME NEW k \in 1..Len(Strata(fresh))
          PROVE  Strata(fresh)[k] \cap RulesIn(programs) = {}
      <4>1. Strata(fresh) # << >>
        BY <3>1, EmptySeq
      <4>2. Strata(fresh)[k] \subseteq fresh
        BY <3>1, <4>1 DEF RulesIn
      <4>3. QED
        BY <2>4, <4>2
    <3>3. QED
      BY <3>1, <3>2
  <2> HIDE DEF t, again, fresh
  <2>6. Kept(t) = RulesIn(programs)
    BY <2>2 DEF Kept, RulesIn
  <2>7. ASSUME RulesIn(t.pre[2][2]) \ t.pre[2][3] \subseteq R
        PROVE  UndoRuleInsert(t)
    <3>1. task.op = "none"
      BY <2>1, <2>7, NewTaskFields DEF ActiveBefore, ProgramsBefore, DisabledBefore
    <3>2. t.pre = <<<<present, intensional>>,
                    <<loaded, programs, disabled, derived_from, marks>>>>
      BY <2>1, <3>1, NewTaskFields DEF store, reasoner
    <3>3. /\ t.pre[1] = <<present, intensional>> /\ t.pre[2][1] = loaded
          /\ t.pre[2][2] = programs /\ t.pre[2][3] = disabled
          /\ t.pre[2][4] = derived_from /\ t.pre[2][5] = marks
      BY <3>2
    <3>4. marks = marks \cap RulesIn(programs)
      BY <2>3 DEF Index
    <3>5. QED
      BY <2>1, <2>2, <2>4, <2>5, <3>3, <3>4 DEF UndoRuleInsert
  <2>8. Adding(t)
    <3>1. \A i \in derived_from : i.rule \in RulesIn(programs)
      BY <2>3 DEF Index, Derivations
    <3>2. Differ(t.mark[1] \ t.mark[2], ext) \subseteq Asserted
      BY <2>2 DEF Differ, ext
    <3>3. disabled \subseteq RulesIn(programs)
      BY <2>3 DEF Index
    <3>4. QED
      BY ZenonT(30), <2>1, <2>2, <2>3, <2>4, <2>5, <2>6, <2>7, <3>1, <3>2, <3>3 DEF Adding
  <2>9. Ready(t)
    BY <2>1, <2>2, <2>3, <2>8 DEF Ready
  <2>10. UNCHANGED <<present, intensional, loaded, derived_from>>
    BY <1>2 DEF store
  <2>11. QED
    BY <1>2, <2>9, <2>10, NextRuleInsertionKeeps DEF Shape
<1>3. QED
  BY <1>1, <1>2 DEF apply_rule_insertions

-----------------------------------------------------------------------------
(* The clients' calls                                                        *)

LEMMA UpdateKeeps ==
    ASSUME ReasonerInv, NEW u \in Updates, apply_prepared_update(u)
    PROVE  ReasonerInv' /\ task'.op \notin RulesetOps
<1> DEFINE P == (present \ u.deletes) \cup u.inserts
           N == intensional \ u.deletes
<1>1. /\ Shape /\ Alive /\ task.op = "none" /\ u.deletes \subseteq present
      /\ u.inserts \subseteq Facts /\ u.deletes \subseteq Facts /\ Stored(P, N)
  BY UpdatesAssumption DEF ReasonerInv, apply_prepared_update, Alive, Stored
<1>2. CASE ~loaded
  <2>1. /\ present' = P /\ intensional' = N /\ task' = NoTask /\ outcome' = "ok"
        /\ UNCHANGED <<loaded, programs, disabled, derived_from, marks>>
    BY <1>2 DEF apply_prepared_update, SetStore, Done, reasoner
  <2>2. ReasonerInv'
    BY <1>1, <2>1, DoneKeeps DEF Alive
  <2>3. QED
    BY <2>1, <2>2, NoTaskFields DEF RulesetOps
<1>3. CASE loaded /\ u.deletes # {}
  <2>1. apply_deletions(P, N, u)
    BY <1>3 DEF apply_prepared_update
  <2>2. programs # << >>
    BY <1>1, <1>3 DEF Alive
  <2>3. ReasonerInv'
    BY <1>1, <1>3, <2>1, <2>2, ApplyDeletionsKeeps
  <2>4. task'.op \in {"delete", "rematerialise"}
    <3> DEFINE t == [NewTask EXCEPT !.at = 1, !.deletes = u.deletes, !.inserts = u.inserts]
    <3>1. DOMAIN t = Fields
      BY <1>1, NewTaskFields DEF Fields
    <3> HIDE DEF t
    <3>2. full_rematerialise(P, N, t) \/ \E pd : forward_phase(P, N, pd, t)
      BY <2>1 DEF apply_deletions, t
    <3>3. QED
      BY <3>1, <3>2 DEF full_rematerialise, forward_phase, Fields
  <2>5. QED
    BY <2>3, <2>4 DEF RulesetOps
<1>4. CASE loaded /\ u.deletes = {}
  <2>1. apply_insertions(P, N, u)
    BY <1>4 DEF apply_prepared_update
  <2>2. programs # << >> /\ P = present \cup u.inserts /\ N = intensional
    BY <1>1, <1>4 DEF Alive
  <2>3. ReasonerInv'
    BY <1>1, <1>4, <2>1, <2>2, ApplyInsertionsKeeps
  <2>4. task'.op = "insert"
    BY <1>1, <2>1, NewTaskFields DEF apply_insertions, Fields
  <2>5. QED
    BY <2>3, <2>4 DEF RulesetOps
<1>5. QED
  BY <1>2, <1>3, <1>4

LEMMA RulesetKeeps ==
    ASSUME ReasonerInv, NEW R \in Rulesets, apply_combined_ruleset(R)
    PROVE  ReasonerInv' /\ ext' = ext
<1> DEFINE removed == active_rules \ R
           added == R \ active_rules
<1>1. Shape /\ Alive /\ task.op = "none" /\ R \subseteq Rules
  BY RulesetsAssumption DEF ReasonerInv, apply_combined_ruleset
<1>2. CASE R = {}
  <2>1. /\ present' = ext /\ intensional' = {} /\ loaded' = FALSE /\ programs' = << >>
        /\ disabled' = {} /\ derived_from' = {} /\ marks' = {}
        /\ task' = NoTask /\ outcome' = "ok"
    BY <1>2 DEF apply_combined_ruleset, SetStore, Done
  <2>2. << >> \in Seq(SUBSET Rules)
    OBVIOUS
  <2>3. Index(programs', disabled', derived_from', marks')
    BY <2>1, <2>2 DEF Index
  <2>4. Stored(present', intensional') /\ ext' = ext
    BY <1>1, <2>1 DEF Alive, Stored, ext
  <2>5. QED
    BY <2>1, <2>3, <2>4, DoneKeeps
<1>3. CASE R # {} /\ ~loaded
  BY <1>1, <1>3, FullRebuildKeeps DEF apply_combined_ruleset
<1>4. CASE R # {} /\ loaded /\ removed # {}
  <2>1. programs # << >> /\ apply_rule_deletions(removed, R)
    BY <1>1, <1>4 DEF apply_combined_ruleset, Alive
  <2>2. QED
    BY <1>1, <1>4, <2>1, ApplyRuleDeletionsKeeps
<1>5. CASE R # {} /\ loaded /\ removed = {} /\ added # {}
  <2>1. programs # << >> /\ apply_rule_insertions(added, R)
    BY <1>1, <1>5 DEF apply_combined_ruleset, Alive
  <2>2. QED
    BY <1>1, <2>1, ApplyRuleInsertionsKeeps
<1>6. CASE R # {} /\ loaded /\ removed = {} /\ added = {}
  <2>1. /\ task' = NoTask /\ outcome' = "ok"
        /\ UNCHANGED <<present, intensional, loaded, programs, disabled, derived_from, marks>>
    BY <1>6 DEF apply_combined_ruleset, Done, store, reasoner
  <2>2. QED
    BY <1>1, <2>1, DoneKeeps DEF Alive, ext
<1>7. QED
  BY <1>2, <1>3, <1>4, <1>5, <1>6

-----------------------------------------------------------------------------
(* The steps of semi-naive materialisation                                   *)

\* The undo log as it was.
LogKept ==
    /\ task'.op = task.op /\ task'.pre = task.pre /\ task'.mark = task.mark
    /\ task'.old = task.old /\ task'.pd = task.pd /\ task'.removed = task.removed
    /\ task'.deletes = task.deletes /\ task'.inserts = task.inserts
    /\ task'.ruleset = task.ruleset /\ task'.targets = task.targets
    /\ task'.reactivate = task.reactivate /\ task'.reactivated = task.reactivated
    /\ task'.append = task.append

LEMMA GrownKeeps ==
    ASSUME NEW F, NEW D, Grown(D),
           derived_from' = derived_from \cup F, task'.tracked = task.tracked \cup (F \ derived_from)
    PROVE  derived_from' = D \cup task'.tracked /\ D \cap task'.tracked = {}
BY DEF Grown

\* A step that adds derivations F, all of the new ones tracked, or that works on
\* an index which is not undone by what is tracked.
LEMMA RunKeeps ==
    ASSUME ReasonerInv, Running, LogKept, DOMAIN task' = Fields,
           UNCHANGED <<loaded, programs, disabled, outcome>>,
           Stored(present', intensional'),
           Index(programs, disabled, derived_from', marks'),
           task'.delta \subseteq Facts, task'.facts \subseteq Facts,
           task'.at \in 1..Len(programs), task'.delta \subseteq present',
           task.op \notin {"insert", "rule_insert"} => task'.mode = "full",
           NEW F,
           task.op \notin {"rematerialise", "rule_rematerialise"} =>
              /\ marks' = marks
              /\ derived_from' = derived_from \cup F
              /\ task'.tracked = task.tracked \cup (F \ derived_from),
           task.op \in RulesetOps => Differ(ext, ext') \subseteq Asserted,
           task.op = "rule_insert" => task'.facts \subseteq present'
    PROVE  ReasonerInv'
<1>1. Shape /\ Alive /\ task.op \notin {"none", "recover"} /\ programs # << >>
  BY DEF ReasonerInv, Running, Alive
<1>2. Shape'
  <2>1. /\ task'.op \in Ops /\ task'.pd \subseteq Facts
        /\ task'.inserts \subseteq Facts /\ task'.deletes \subseteq Facts
        /\ task'.mark = <<task'.mark[1], task'.mark[2]>>
        /\ Stored(task'.mark[1], task'.mark[2])
        /\ task'.ruleset \subseteq Rules
        /\ Client(task'.pre)
    BY <1>1 DEF Shape, LogKept
  <2>2. outcome' \in {"ok", "rejected", "ruleset_rejected", "rollback_failed"}
    BY <1>1 DEF Shape
  <2>3. QED
    BY <2>1, <2>2 DEF Shape, Client, Stored, Index, Derivations, RulesIn, HasNegation
<1>3. Alive'
  <2>1. task.op \in {"delete", "rule_delete"} => task'.removed \subseteq Derivations(programs)
    BY <1>1 DEF Alive, LogKept
  <2>2. task.op = "rule_rematerialise" => Index(programs, {}, task'.old[1], task'.old[2])
    BY <1>1 DEF Alive, LogKept
  <2>3. task.op = "new" =>
          /\ task'.old[1] \in BOOLEAN
          /\ task'.old[1] = TRUE => task'.old[2] # << >>
          /\ Index(task'.old[2], task'.old[3], task'.old[4], task'.old[5])
    BY <1>1 DEF Alive, LogKept
  <2>4. loaded' \in BOOLEAN /\ task'.op = task.op
    BY <1>1 DEF Alive, LogKept
  <2>5. /\ loaded' = loaded /\ programs' = programs /\ disabled' = disabled
        /\ programs # << >>
    BY <1>1
  <2>6. Running' => task'.at \in 1..Len(programs') /\ task'.delta \subseteq present'
    BY <2>5
  <2>7. Running' /\ task'.op \notin {"insert", "rule_insert"} => task'.mode = "full"
    BY <2>4
  <2>8. Stored(present', intensional') /\ Index(programs', disabled', derived_from', marks')
    BY <2>5
  <2> HIDE DEF LogKept
  <2>9. QED
    BY <2>1, <2>2, <2>3, <2>4, <2>5, <2>6, <2>7, <2>8
       DEF Alive, Index, Derivations, RulesIn, HasNegation, Stored
<1>4. UndoInsert'
  <2> SUFFICES ASSUME task.op = "insert", task.deletes = {}
               PROVE  /\ task'.mark = <<task'.pre[1][1] \cup task'.inserts, task'.pre[1][2]>>
                      /\ SameRules'
                      /\ Grown(IndexBefore)'
    BY DEF UndoInsert, LogKept
  <2>1. /\ task.mark = <<task.pre[1][1] \cup task.inserts, task.pre[1][2]>>
        /\ SameRules /\ Grown(IndexBefore) /\ marks' = marks
        /\ derived_from' = derived_from \cup F
        /\ task'.tracked = task.tracked \cup (F \ derived_from)
    BY DEF ReasonerInv, Undo, UndoInsert
  <2>2. SameRules'
    BY <2>1 DEF SameRules, LogKept, LoadedBefore, ProgramsBefore, DisabledBefore, MarksBefore
  <2>3. Grown(IndexBefore)'
    BY <2>1, GrownKeeps DEF Grown, IndexBefore, LogKept
  <2>4. QED
    BY <2>1, <2>2, <2>3 DEF LogKept
<1>5. ASSUME Retracted, task.op \notin {"rematerialise", "rule_rematerialise"}
      PROVE  Retracted'
  <2>1. derived_from' = (IndexBefore \ task.removed) \cup task'.tracked
        /\ (IndexBefore \ task.removed) \cap task'.tracked = {}
    BY ZenonT(30), <1>5, GrownKeeps DEF Retracted
  <2>2. IndexBefore' = IndexBefore /\ task'.removed = task.removed /\ task'.pd = task.pd
    BY DEF IndexBefore, LogKept
  <2>3. QED
    BY <1>5, <2>1, <2>2 DEF Retracted, Grown, Heads
<1>6. UndoDelete'
  <2>1. task.op \in {"delete", "rematerialise"} => task'.deletes # {}
    BY DEF ReasonerInv, Undo, UndoDelete, LogKept
  <2>2. ASSUME task.op = "delete"
        PROVE  /\ task'.deletes \subseteq task'.pre[1][1]
               /\ task'.mark[1] = ((task'.pre[1][1] \ task'.deletes) \cup task'.inserts) \ task'.pd
               /\ SameRules'
               /\ Retracted'
    <3>1. /\ task.deletes \subseteq task.pre[1][1]
          /\ task.mark[1] = ((task.pre[1][1] \ task.deletes) \cup task.inserts) \ task.pd
          /\ SameRules /\ Retracted /\ marks' = marks
      BY <2>2 DEF ReasonerInv, Undo, UndoDelete
    <3>2. SameRules'
      BY <3>1 DEF SameRules, LogKept, LoadedBefore, ProgramsBefore, DisabledBefore, MarksBefore
    <3>3. QED
      BY <1>5, <2>2, <3>1, <3>2 DEF LogKept
  <2>3. QED
    BY <2>1, <2>2 DEF UndoDelete, LogKept
<1>7. UndoRuleDelete'
  <2>0. /\ LoadedBefore' = LoadedBefore /\ ProgramsBefore' = ProgramsBefore
        /\ DisabledBefore' = DisabledBefore /\ MarksBefore' = MarksBefore
        /\ IndexBefore' = IndexBefore /\ ActiveBefore' = ActiveBefore
    BY DEF LogKept, LoadedBefore, ProgramsBefore, DisabledBefore, MarksBefore, IndexBefore,
           ActiveBefore, RulesIn
  <2>1. task.op \in {"rule_delete", "rule_rematerialise"} =>
          /\ ~(ActiveBefore' \subseteq task'.ruleset)
          /\ loaded' = LoadedBefore'
          /\ programs' = ProgramsBefore'
          /\ disabled' = DisabledBefore' \cup task'.targets
          /\ DisabledBefore' \cap task'.targets = {}
    BY <2>0 DEF ReasonerInv, Undo, UndoRuleDelete, LogKept
  <2>2. ASSUME task.op = "rule_delete"
        PROVE  /\ marks' = MarksBefore'
               /\ task'.mark = <<task'.pre[1][1] \ task'.pd, task'.pre[1][2] \ task'.pd>>
               /\ task'.pd \cap (task'.pre[1][1] \ task'.pre[1][2]) = {}
               /\ Retracted'
    BY <1>5, <2>0, <2>2 DEF ReasonerInv, Undo, UndoRuleDelete, LogKept
  <2>3. task.op = "rule_rematerialise" =>
          /\ task'.mark = task'.pre[1]
          /\ task'.old = <<IndexBefore', MarksBefore'>>
    BY <2>0 DEF ReasonerInv, Undo, UndoRuleDelete, LogKept
  <2>4. QED
    BY <2>1, <2>2, <2>3 DEF UndoRuleDelete, LogKept
<1>8. Base'
  <2>1. \A X : task.op \in RulesetOps /\ Differ(X, ext) \subseteq Asserted =>
                  Differ(X, ext') \subseteq Asserted
    BY DEF Differ
  <2>2. task.op = "rule_rematerialise" =>
           Differ(task'.mark[1] \ task'.mark[2], ext') \subseteq Asserted
    BY <2>1 DEF ReasonerInv, Base, LogKept, RulesetOps
  <2>3. task.op = "rule_delete" =>
           Differ(task'.mark[1] \ (task'.mark[2] \cup task'.pd), ext') \subseteq Asserted
    BY <2>1 DEF ReasonerInv, Base, LogKept, RulesetOps
  <2>4. QED
    BY <2>2, <2>3 DEF Base, LogKept, Differ, Asserted, Heads, IsFact
<1>9. Inserting'
  <2> SUFFICES ASSUME task.op = "rule_insert" PROVE Adding(task)'
    BY DEF Inserting, LogKept
  <2>1. Adding(task) /\ marks' = marks /\ derived_from' = derived_from \cup F
        /\ task'.tracked = task.tracked \cup (F \ derived_from)
    BY DEF ReasonerInv, Inserting
  <2>2. Kept(task)' = Kept(task)
    BY DEF Kept, LogKept
  <2>3. Differ(task'.mark[1] \ task'.mark[2], ext') \subseteq Asserted
    BY <2>1 DEF Adding, Differ, LogKept, RulesetOps
  <2>4. ASSUME UndoRuleInsert(task)
        PROVE  UndoRuleInsert(task)'
    <3>1. /\ derived_from' = task'.pre[2][4] \cup task'.tracked
          /\ task'.pre[2][4] \cap task'.tracked = {}
      <4>1. Grown(task.pre[2][4])
        BY <2>4 DEF UndoRuleInsert, Grown
      <4>2. QED
        BY <2>1, <4>1, GrownKeeps DEF LogKept
    <3>2. QED
      BY SMTT(30), <2>1, <2>4, <3>1 DEF UndoRuleInsert, LogKept, RulesIn
  <2>5. /\ \A i \in derived_from' \ task'.tracked : i.rule \in Kept(task)
    BY <2>1 DEF Adding
  <2>6. /\ task'.old[1] \in 1..Len(programs') /\ disabled' \subseteq Kept(task)
        /\ task'.reactivated \subseteq Kept(task) /\ task'.reactivate \subseteq Kept(task)
        /\ task'.append \in Seq(SUBSET Rules) /\ task'.facts \subseteq present'
    BY <2>1 DEF Adding, LogKept
  <2>7. RulesIn(task'.pre[2][2]) \ task'.pre[2][3] \subseteq task'.ruleset => UndoRuleInsert(task)'
    BY <2>1, <2>4 DEF Adding, LogKept
  <2>8. QED
    BY <2>2, <2>3, <2>5, <2>6, <2>7 DEF Adding, Differ, ext, Asserted, Heads, IsFact, RulesIn
<1>10. UndoExact'
  BY <1>1 DEF UndoExact, LogKept
<1>11. QED
  BY <1>2, <1>3, <1>4, <1>6, <1>7, <1>8, <1>9, <1>10 DEF ReasonerInv, Undo

LEMMA StartProgramKeeps ==
    ASSUME ReasonerInv, StartProgram
    PROVE  /\ ReasonerInv' /\ task'.op = task.op
           /\ task.op \in RulesetOps => Differ(ext, ext') \subseteq Asserted
<1> DEFINE facts == Heads({i \in Instances : IsFact(i) /\ i.rule \in programs[task.at] \ disabled})
           fed == IF task.mode = "facts" THEN task.facts ELSE {}
           P == present \cup facts \cup fed
           d == IF task.mode = "facts" THEN task.facts ELSE P
<1>1. /\ Shape /\ Alive /\ Running /\ Contradiction \notin facts
      /\ present' = P /\ intensional' = intensional
      /\ task' = [task EXCEPT !.started = TRUE, !.delta = d]
      /\ UNCHANGED <<loaded, programs, disabled, outcome>>
  BY DEF ReasonerInv, StartProgram, SetStore
<1>2. facts \subseteq Facts /\ facts \subseteq Asserted
  <2>1. \A i \in Instances : i.head \in Facts \cup {Contradiction}
    BY InstancesAssumption
  <2>2. QED
    BY <1>1, <2>1 DEF Heads, Asserted
<1>3. fed \subseteq Facts /\ P \subseteq Facts
  BY <1>1, <1>2 DEF Shape, Alive, Stored
<1>4. d \subseteq P /\ d \subseteq Facts
  BY <1>3
<1> HIDE DEF facts, fed, P, d
<1>5. DOMAIN task = Fields
  BY <1>1 DEF Shape
<1>6. /\ DOMAIN task' = Fields /\ task'.delta = d /\ task'.at = task.at
      /\ task'.facts = task.facts /\ task'.mode = task.mode /\ task'.tracked = task.tracked
      /\ LogKept
  BY <1>1, <1>5 DEF Fields, LogKept
<1>7. Stored(present', intensional')
  BY <1>1, <1>3 DEF Alive, Stored, P
<1>8. derived_from' \subseteq derived_from /\ marks' \subseteq marks
  BY DEF StartProgram
<1>9. Index(programs, disabled, derived_from', marks')
  BY <1>1, <1>8 DEF Alive, Index
<1>10. task.op \notin {"rematerialise", "rule_rematerialise"} =>
          /\ marks' = marks
          /\ derived_from' = derived_from \cup {}
          /\ task'.tracked = task.tracked \cup ({} \ derived_from)
  BY <1>6 DEF StartProgram
<1>11. /\ task.op = "rule_insert" => task.facts \subseteq present
       /\ task.op \notin {"insert", "rule_insert"} => task.mode = "full"
       /\ task.at \in 1..Len(programs)
  BY <1>1 DEF ReasonerInv, Inserting, Adding, Alive
<1>12. task.op \in RulesetOps => fed \subseteq present
  BY <1>11 DEF RulesetOps, fed
<1>13. task.op \in RulesetOps => Differ(ext, ext') \subseteq Asserted
  BY <1>1, <1>2, <1>12 DEF Differ, ext, P
<1>14. task.op = "rule_insert" => task'.facts \subseteq present'
  BY <1>1, <1>6, <1>11 DEF P
<1>15. task'.delta \subseteq present' /\ task'.delta \subseteq Facts /\ task'.facts \subseteq Facts
  BY <1>1, <1>4, <1>6 DEF Shape
<1>16. ReasonerInv'
  BY <1>1, <1>6, <1>7, <1>9, <1>10, <1>11, <1>13, <1>14, <1>15, RunKeeps
<1>17. QED
  BY <1>6, <1>13, <1>16 DEF LogKept

LEMMA RoundKeeps ==
    ASSUME ReasonerInv, Round
    PROVE  /\ ReasonerInv' /\ task'.op = task.op
           /\ task.op \in RulesetOps => Differ(ext, ext') \subseteq Asserted
<1> DEFINE heads == Heads(Fired)
           d == heads \ present
           tr == task.tracked \cup NewDerivations
           fa == task.facts \cup Heads(NewDerivations)
<1>1. /\ Shape /\ Alive /\ Running /\ Contradiction \notin heads
      /\ present' = present \cup heads
      /\ intensional' = intensional \cup (heads \ ext)
      /\ derived_from' = derived_from \cup Fired
      /\ UNCHANGED <<loaded, programs, disabled, marks, outcome>>
  BY DEF ReasonerInv, Round, SetStore
<1>2. DOMAIN task = Fields /\ task.at \in 1..Len(programs)
  BY <1>1 DEF Shape, Alive
<1>3. task' = [task EXCEPT !.delta = d, !.tracked = tr, !.facts = fa]
  <2>1. task' = [task EXCEPT !.delta = heads \ present,
                             !.tracked = @ \cup NewDerivations,
                             !.facts = @ \cup Heads(NewDerivations)]
    BY DEF Round
  <2>2. QED
    BY <1>2, <2>1 DEF Fields
<1>4. /\ DOMAIN task' = Fields /\ task'.delta = d /\ task'.at = task.at
      /\ task'.facts = fa /\ task'.mode = task.mode /\ task'.tracked = tr
      /\ LogKept
  <2> HIDE DEF heads, d, tr, fa
  <2>1. QED
    BY <1>2, <1>3 DEF Fields, LogKept
<1>5. heads \subseteq Facts /\ Fired \subseteq Derivations(programs)
  <2>1. \A i \in Instances : i.head \in Facts \cup {Contradiction} /\ i.rule \in Rules
    BY InstancesAssumption
  <2>2. \A i \in Fired : i \in Instances /\ i.rule \in RulesIn(programs)
    BY <1>2 DEF Fired, RulesIn
  <2>3. \A i \in Fired : i.head # Contradiction
    BY <1>1 DEF Heads
  <2>4. QED
    BY <2>1, <2>2, <2>3 DEF Heads, Derivations
<1>6. Heads(NewDerivations) \subseteq heads
  BY DEF NewDerivations, Heads
<1>7. Stored(present', intensional') /\ ext' = ext
  BY <1>1, <1>5 DEF Alive, Stored, ext
<1>8. Index(programs, disabled, derived_from', marks')
  BY <1>1, <1>5 DEF Alive, Index
<1>9. task'.delta \subseteq present' /\ task'.delta \subseteq Facts /\ task'.facts \subseteq Facts
  BY <1>1, <1>4, <1>5, <1>6 DEF Shape
<1>10. /\ task.op = "rule_insert" => task'.facts \subseteq present'
       /\ task.op \notin {"insert", "rule_insert"} => task'.mode = "full"
  BY <1>1, <1>4, <1>6 DEF ReasonerInv, Inserting, Adding, Alive
<1>11. task.op \in RulesetOps => Differ(ext, ext') \subseteq Asserted
  BY <1>7 DEF Differ
<1>12. task'.tracked = task.tracked \cup (Fired \ derived_from)
  BY <1>4 DEF NewDerivations
<1>13. ReasonerInv'
  BY <1>1, <1>2, <1>4, <1>7, <1>8, <1>9, <1>10, <1>11, <1>12, RunKeeps
<1>14. QED
  BY <1>4, <1>11, <1>13 DEF LogKept

LEMMA NextProgramKeeps ==
    ASSUME ReasonerInv, NextProgram
    PROVE  ReasonerInv' /\ task'.op = task.op /\ ext' = ext
<1> DEFINE m == IF task.op = "rule_insert" THEN "facts" ELSE task.mode
           a == task.at + 1
<1>1. /\ Shape /\ Alive /\ Running
      /\ UNCHANGED <<present, intensional, loaded, programs, disabled, derived_from, marks,
                     outcome>>
  BY DEF ReasonerInv, NextProgram, ProgramDone, store, reasoner
<1>2. /\ DOMAIN task = Fields /\ task.at \in 1..Len(programs) /\ task.at # Len(programs)
      /\ task.delta = {}
  BY <1>1 DEF Shape, Alive, NextProgram, AtLastProgram, ProgramDone
<1>3. a \in 1..Len(programs)
  <2>1. Len(programs) \in Nat
    BY <1>1, LenProperties DEF Alive, Index
  <2>2. QED
    BY <1>2, <2>1
<1>4. task' = [task EXCEPT !.at = a, !.started = FALSE, !.mode = m]
  BY <1>2 DEF NextProgram, Fields
<1> HIDE DEF a, m
<1>5. /\ DOMAIN task' = Fields /\ task'.delta = {} /\ task'.at = a
      /\ task'.facts = task.facts /\ task'.mode = m /\ task'.tracked = task.tracked
      /\ LogKept
  BY <1>2, <1>4 DEF Fields, LogKept
<1>6. /\ task.op = "rule_insert" => task.facts \subseteq present
      /\ task.op \notin {"insert", "rule_insert"} => m = "full"
  BY <1>1 DEF ReasonerInv, Inserting, Adding, Alive, m
<1>7. ext' = ext /\ Differ(ext, ext') \subseteq Asserted
  BY <1>1 DEF ext, Differ
<1>8. task.facts \subseteq Facts /\ Stored(present, intensional)
      /\ Index(programs, disabled, derived_from, marks)
  BY <1>1 DEF Shape, Alive
<1>9. Stored(present', intensional') /\ Index(programs, disabled, derived_from', marks')
  BY <1>1, <1>8
<1>10. derived_from' = derived_from \cup {} /\ task'.tracked = task.tracked \cup ({} \ derived_from)
  BY <1>1, <1>5
<1>11. ReasonerInv'
  BY <1>1, <1>3, <1>5, <1>6, <1>7, <1>8, <1>9, <1>10, RunKeeps
<1>12. QED
  BY <1>5, <1>7, <1>11 DEF LogKept

-----------------------------------------------------------------------------
(* What follows the last program                                             *)

LEMMA DeletionDoneKeeps ==
    ASSUME ReasonerInv, DeletionDone
    PROVE  ReasonerInv' /\ task'.op \notin RulesetOps
<1>1. Shape /\ Alive /\ task.op \in {"delete", "rematerialise"} /\ programs # << >>
      /\ task.deletes # {}
  BY DEF ReasonerInv, DeletionDone, Alive, Undo, UndoDelete
<1>2. CASE task.inserts = {}
  <2>1. /\ task' = NoTask /\ outcome' = "ok"
        /\ UNCHANGED <<present, intensional, loaded, programs, disabled, derived_from, marks>>
    BY <1>2 DEF DeletionDone, Done, store, reasoner
  <2>2. ReasonerInv'
    BY <1>1, <2>1, DoneKeeps DEF Alive
  <2>3. QED
    BY <2>1, <2>2, NoTaskFields DEF RulesetOps
<1>3. CASE task.inserts # {}
  <2>1. apply_insertions(present, intensional, task)
    BY <1>3 DEF DeletionDone
  <2>2. /\ Stored(present, intensional) /\ task.inserts \subseteq Facts
        /\ task.deletes \subseteq Facts
    BY <1>1 DEF Alive, Shape
  <2>3. ReasonerInv'
    BY <1>1, <2>1, <2>2, ApplyInsertionsKeeps
  <2>4. task'.op = "insert"
    BY <1>1, <2>1, NewTaskFields DEF apply_insertions, Fields
  <2>5. QED
    BY <2>3, <2>4 DEF RulesetOps
<1>4. QED
  BY <1>2, <1>3

LEMMA InsertionDoneKeeps ==
    ASSUME ReasonerInv, InsertionDone
    PROVE  ReasonerInv' /\ task'.op \notin RulesetOps
<1> DEFINE seeds == negation_invalidated_seeds(task.facts)
           pd == cascade_pd(seeds)
<1>1. /\ Shape /\ Alive /\ task.op \in {"insert", "retract"} /\ programs # << >>
      /\ task.delta = {}
      /\ UNCHANGED <<loaded, programs, disabled, marks>>
  BY DEF ReasonerInv, InsertionDone, Alive, ProgramDone
<1>2. CASE seeds = {}
  <2>1. /\ task' = NoTask /\ outcome' = "ok"
        /\ UNCHANGED <<present, intensional, loaded, programs, disabled, derived_from, marks>>
    BY <1>1, <1>2 DEF InsertionDone, Done, store
  <2>2. ReasonerInv'
    BY <1>1, <2>1, DoneKeeps DEF Alive
  <2>3. QED
    BY <2>1, <2>2, NoTaskFields DEF RulesetOps
<1>3. CASE seeds # {}
  <2>1. /\ present' = present \ pd /\ intensional' = intensional \ pd
        /\ derived_from' = {i \in derived_from : i.head \notin pd}
        /\ task' = Rematerialise(task) /\ outcome' = outcome
    BY <1>3 DEF InsertionDone, SetStore
  <2>2. /\ DOMAIN task' = Fields /\ task'.op = "retract" /\ task'.at = 1
        /\ task'.mode = "full" /\ task'.facts = {} /\ task'.delta = {}
        /\ task'.pd = task.pd /\ task'.inserts = task.inserts
        /\ task'.deletes = task.deletes /\ task'.mark = task.mark
        /\ task'.ruleset = task.ruleset /\ task'.pre = task.pre
    BY <1>1, <2>1 DEF Rematerialise, Shape, Fields
  <2>3. Shape'
    <3>1. /\ task'.op \in Ops /\ task'.pd \subseteq Facts
          /\ task'.inserts \subseteq Facts /\ task'.deletes \subseteq Facts
          /\ task'.mark = <<task'.mark[1], task'.mark[2]>>
          /\ Stored(task'.mark[1], task'.mark[2])
          /\ task'.ruleset \subseteq Rules
          /\ Client(task'.pre)
      BY <1>1, <2>2 DEF Shape, Ops
    <3>2. outcome' \in {"ok", "rejected", "ruleset_rejected", "rollback_failed"}
      BY <1>1, <2>1 DEF Shape
    <3>3. QED
      BY <2>2, <3>1, <3>2 DEF Shape, Client, Stored, Index, Derivations, RulesIn, HasNegation
  <2>4. Alive'
    <3>1. Stored(present', intensional')
      BY <1>1, <2>1 DEF Alive, Stored
    <3>2. Index(programs, disabled, derived_from', marks)
      BY <1>1, <2>1 DEF Alive, Index
    <3>3. 1 \in 1..Len(programs)
      BY <1>1, EmptySeq, LenProperties DEF Alive, Index
    <3>4. QED
      BY <1>1, <2>2, <3>1, <3>2, <3>3
         DEF Alive, Index, Derivations, RulesIn, HasNegation, Stored, Running
  <2>5. QED
    BY <2>2, <2>3, <2>4, NoUndoKeeps DEF RulesetOps
<1>4. QED
  BY <1>2, <1>3

LEMMA RuleDeletionDoneKeeps ==
    ASSUME ReasonerInv, RuleDeletionDone
    PROVE  ReasonerInv' /\ ext' = ext
<1>1. /\ Shape /\ Alive /\ task.op \in {"rule_delete", "rule_rematerialise"}
      /\ programs # << >> /\ task.ruleset \subseteq Rules
      /\ ~(ActiveBefore \subseteq task.ruleset)
  BY DEF ReasonerInv, RuleDeletionDone, Alive, Shape, Undo, UndoRuleDelete
<1>2. CASE task.ruleset \subseteq active_rules
  <2>1. /\ task' = NoTask /\ outcome' = "ok"
        /\ UNCHANGED <<present, intensional, loaded, programs, disabled, derived_from, marks>>
    BY <1>2 DEF RuleDeletionDone, Done, store, reasoner
  <2>2. QED
    BY <1>1, <2>1, DoneKeeps DEF Alive, ext
<1>3. CASE ~(task.ruleset \subseteq active_rules)
  <2>1. PICK R : R = task.ruleset
    OBVIOUS
  <2>2. PICK added : added = R \ active_rules
    OBVIOUS
  <2>3. apply_rule_insertions(added, R)
    BY <1>3, <2>1, <2>2 DEF RuleDeletionDone
  <2>4. QED
    BY <1>1, <2>1, <2>2, <2>3, ApplyRuleInsertionsKeeps
<1>4. QED
  BY <1>2, <1>3

LEMMA RuleInsertionDoneKeeps ==
    ASSUME ReasonerInv, RuleInsertionDone
    PROVE  ReasonerInv' /\ ext' = ext
<1>1. /\ Shape /\ Alive /\ task.op = "rule_insert" /\ Adding(task) /\ task.delta = {}
      /\ NextRuleInsertion(task)
      /\ UNCHANGED <<present, intensional, loaded, derived_from>>
  BY DEF ReasonerInv, RuleInsertionDone, Inserting, ProgramDone, store
<1>2. Ready(task)
  BY <1>1 DEF Shape, Ready
<1>3. PICK t : t = task
  OBVIOUS
<1>4. QED
  BY <1>1, <1>2, <1>3, NextRuleInsertionKeeps DEF Shape

LEMMA RebuildDoneKeeps ==
    ASSUME ReasonerInv, RebuildDone
    PROVE  ReasonerInv' /\ ext' = ext
<1>1. /\ Shape /\ Alive /\ programs # << >> /\ loaded' = TRUE /\ task' = NoTask
      /\ outcome' \in {"ok", "rejected"}
      /\ UNCHANGED <<present, intensional, programs, disabled, derived_from, marks>>
  BY DEF ReasonerInv, RebuildDone, Done, Alive, store
<1>2. QED
  BY <1>1, DoneKeeps DEF Alive, ext

-----------------------------------------------------------------------------
(* A contradiction                                                           *)

\* What remains to be shown of an undo.
LEMMA FailureKeeps ==
    ASSUME Shape, Alive, task.op \notin {"none", "recover"}, ToRecovery,
           Stored(present', intensional'),
           Index(programs', disabled', derived_from', marks'),
           loaded' = loaded, programs' # << >>, UndoExact'
    PROVE  ReasonerInv'
<1>1. /\ DOMAIN task = Fields /\ outcome' = outcome
      /\ task' = [task EXCEPT !.op = "recover", !.from = task.op]
  BY DEF Shape, ToRecovery
<1>2. /\ DOMAIN task' = Fields /\ task'.op = "recover" /\ task'.delta = task.delta
      /\ task'.facts = task.facts /\ task'.pd = task.pd /\ task'.inserts = task.inserts
      /\ task'.deletes = task.deletes /\ task'.mark = task.mark
      /\ task'.ruleset = task.ruleset /\ task'.pre = task.pre
  BY <1>1 DEF Fields
<1>3. /\ task'.op \in Ops /\ task'.delta \subseteq Facts /\ task'.facts \subseteq Facts
      /\ task'.pd \subseteq Facts
      /\ task'.inserts \subseteq Facts /\ task'.deletes \subseteq Facts
      /\ task'.mark = <<task'.mark[1], task'.mark[2]>>
      /\ Stored(task'.mark[1], task'.mark[2])
      /\ task'.ruleset \subseteq Rules
      /\ Client(task'.pre)
      /\ outcome' \in {"ok", "rejected", "ruleset_rejected", "rollback_failed"}
  BY <1>1, <1>2 DEF Shape, Ops
<1>4. Shape'
  BY <1>2, <1>3 DEF Shape, Client, Stored, Index, Derivations, RulesIn, HasNegation
<1>5. Alive'
  BY <1>2 DEF Alive, Index, Derivations, RulesIn, HasNegation, Stored, Running
<1>6. Inserting' /\ Base' /\ Undo'
  BY <1>2 DEF Inserting, Base, Undo, UndoInsert, UndoDelete, UndoRuleDelete
<1>7. QED
  BY <1>4, <1>5, <1>6 DEF ReasonerInv

\* The states an undo has to restore.
LEMMA Remembered ==
    ASSUME Shape, task.op # "none"
    PROVE  /\ task.pre = <<task.pre[1], task.pre[2]>>
           /\ task.pre[1] = <<task.pre[1][1], task.pre[1][2]>>
           /\ task.pre[2] = <<LoadedBefore, ProgramsBefore, DisabledBefore, IndexBefore,
                              MarksBefore>>
           /\ Stored(task.pre[1][1], task.pre[1][2])
           /\ Index(ProgramsBefore, DisabledBefore, IndexBefore, MarksBefore)
BY DEF Shape, Client, LoadedBefore, ProgramsBefore, DisabledBefore, IndexBefore, MarksBefore

LEMMA UndoneIndex ==
    ASSUME NEW D, Grown(D)
    PROVE  derived_from \ task.tracked = D
BY DEF Grown

LEMMA UpdateFailsKeeps ==
    ASSUME ReasonerInv, UpdateFails
    PROVE  ReasonerInv' /\ task'.op \notin RulesetOps
<1>1. /\ Shape /\ Alive /\ task.op \in {"insert", "delete", "retract", "rematerialise"}
      /\ programs # << >> /\ ToRecovery /\ DOMAIN task = Fields
      /\ UNCHANGED <<loaded, programs, disabled, marks>>
  BY DEF ReasonerInv, UpdateFails, Alive, Shape
<1>2. /\ task'.op = "recover" /\ task'.from = task.op /\ task'.pre = task.pre
      /\ task'.deletes = task.deletes /\ task'.inserts = task.inserts
  BY <1>1 DEF ToRecovery, Fields
<1>3. /\ Stored(present, intensional) /\ Index(programs, disabled, derived_from, marks)
      /\ Stored(task.mark[1], task.mark[2]) /\ task.pd \subseteq Facts
      /\ task.deletes \subseteq Facts
  BY <1>1 DEF Alive, Shape
<1>4. CASE task.op = "insert"
  <2>1. /\ present' = task.mark[1] /\ intensional' = task.mark[2]
        /\ derived_from' = derived_from \ task.tracked
    BY <1>4 DEF UpdateFails, undo_insertions, SetStore
  <2>2. ASSUME task.deletes = {}
        PROVE  /\ reasoner' = task.pre[2]
               /\ present' = task.pre[1][1] \cup task.inserts
               /\ intensional' = task.pre[1][2]
    <3>1. /\ task.mark = <<task.pre[1][1] \cup task.inserts, task.pre[1][2]>>
          /\ SameRules /\ Grown(IndexBefore)
      BY <1>4, <2>2 DEF ReasonerInv, Undo, UndoInsert
    <3>2. derived_from' = IndexBefore
      BY <2>1, <3>1, UndoneIndex
    <3>3. QED
      BY <1>1, <1>4, <2>1, <3>1, <3>2, Remembered DEF reasoner, SameRules
  <2>3. UndoExact'
    BY <1>2, <1>4, <2>2 DEF UndoExact
  <2>4. Index(programs', disabled', derived_from', marks')
    BY <1>1, <1>3, <2>1 DEF Index
  <2>5. QED
    BY <1>1, <1>2, <1>3, <2>1, <2>3, <2>4, FailureKeeps DEF RulesetOps
<1>5. CASE task.op = "delete"
  <2>1. /\ present' = task.mark[1] \cup task.pd \cup task.deletes
        /\ intensional' = task.mark[2] \cup task.pd
        /\ derived_from' = (derived_from \ task.tracked) \cup task.removed
    BY <1>5 DEF UpdateFails, undo_deletions, SetStore
  <2>2. /\ task.deletes \subseteq task.pre[1][1]
        /\ task.mark[1] = ((task.pre[1][1] \ task.deletes) \cup task.inserts) \ task.pd
        /\ SameRules /\ Retracted
    BY <1>5 DEF ReasonerInv, Undo, UndoDelete
  <2>3. derived_from' = IndexBefore
    <3>1. derived_from \ task.tracked = IndexBefore \ task.removed
      BY <2>2, UndoneIndex DEF Retracted
    <3>2. QED
      BY <2>1, <2>2, <3>1 DEF Retracted
  <2>4. reasoner' = task.pre[2]
    BY <1>1, <1>5, <2>2, <2>3, Remembered DEF reasoner, SameRules
  <2>5. ASSUME Heads(task.pre[2][4]) \subseteq task.pre[1][1]
        PROVE  present' = task.pre[1][1] \cup task.inserts
    BY <2>1, <2>2, <2>5 DEF Retracted, IndexBefore
  <2>6. UndoExact'
    BY <1>2, <1>5, <2>4, <2>5 DEF UndoExact, Heads
  <2>7. Index(programs', disabled', derived_from', marks')
    BY <1>1, <1>5, <2>2, <2>3, Remembered DEF SameRules
  <2>8. Stored(present', intensional')
    BY <1>3, <2>1 DEF Stored
  <2>9. QED
    BY <1>1, <1>2, <2>6, <2>7, <2>8, FailureKeeps DEF RulesetOps
<1>6. CASE task.op \in {"retract", "rematerialise"}
  <2>1. UNCHANGED <<present, intensional, derived_from>>
    BY <1>6 DEF UpdateFails, store
  <2>2. UndoExact'
    BY <1>2, <1>6 DEF UndoExact
  <2>3. QED
    BY <1>1, <1>2, <1>3, <2>1, <2>2, FailureKeeps DEF RulesetOps
<1>7. QED
  BY <1>1, <1>4, <1>5, <1>6

\* The programs that remain when the appended ones go.
LEMMA FirstPrograms ==
    ASSUME NEW pr \in Seq(SUBSET Rules), NEW n \in 1..Len(pr)
    PROVE  /\ SubSeq(pr, 1, n) \in Seq(SUBSET Rules) /\ SubSeq(pr, 1, n) # << >>
           /\ Len(SubSeq(pr, 1, n)) = n
           /\ \A k \in 1..n : SubSeq(pr, 1, n)[k] = pr[k]
           /\ RulesIn(SubSeq(pr, 1, n)) = UNION {pr[k] : k \in 1..n}
<1> DEFINE s == SubSeq(pr, 1, n)
<1>1. Len(pr) \in Nat
  BY LenProperties
<1>2. s \in Seq(SUBSET Rules) /\ Len(s) = n /\ \A k \in 1..n : s[k] = pr[k]
  BY <1>1, SubSeqProperties
<1> HIDE DEF s
<1>3. s # << >>
  BY <1>1, <1>2, EmptySeq
<1>4. RulesIn(s) = UNION {pr[k] : k \in 1..n}
  BY <1>2 DEF RulesIn
<1>5. QED
  BY <1>2, <1>3, <1>4 DEF s

LEMMA RuleDeletionFailsKeeps ==
    ASSUME ReasonerInv, RulesetFails, task.op = "rule_delete"
    PROVE  ReasonerInv' /\ Differ(ext, ext') \subseteq Asserted
<1>1. /\ Shape /\ Alive /\ programs # << >> /\ ToRecovery /\ DOMAIN task = Fields
      /\ loaded' = loaded
  BY DEF ReasonerInv, RulesetFails, Alive, Shape
<1>2. task'.op = "recover" /\ task'.from = "rule_delete" /\ task'.pre = task.pre
  BY <1>1 DEF ToRecovery, Fields
<1>3. /\ present' = task.mark[1] \cup task.pd /\ intensional' = task.mark[2] \cup task.pd
      /\ derived_from' = (derived_from \ task.tracked) \cup task.removed
      /\ disabled' = disabled \ task.targets /\ programs' = programs /\ marks' = marks
  BY DEF RulesetFails, undo_rule_deletions, SetStore
<1>4. /\ loaded = LoadedBefore /\ programs = ProgramsBefore
      /\ disabled = DisabledBefore \cup task.targets /\ DisabledBefore \cap task.targets = {}
      /\ marks = MarksBefore
      /\ task.mark = <<task.pre[1][1] \ task.pd, task.pre[1][2] \ task.pd>>
      /\ task.pd \cap (task.pre[1][1] \ task.pre[1][2]) = {}
      /\ Retracted
  BY DEF ReasonerInv, Undo, UndoRuleDelete
<1>5. derived_from' = IndexBefore
  <2>1. derived_from \ task.tracked = IndexBefore \ task.removed
    BY <1>4, UndoneIndex DEF Retracted
  <2>2. QED
    BY <1>3, <1>4, <2>1 DEF Retracted
<1>6. disabled' = DisabledBefore
  BY <1>3, <1>4
<1>7. reasoner' = task.pre[2]
  BY <1>1, <1>3, <1>4, <1>5, <1>6, Remembered DEF reasoner
<1>8. task.mark[1] = task.pre[1][1] \ task.pd /\ task.mark[2] = task.pre[1][2] \ task.pd
  BY <1>4
<1>9. ASSUME Heads(task.pre[2][4]) \subseteq task.pre[1][1]
      PROVE  present' = task.pre[1][1] /\ intensional' = task.pre[1][2]
  <2>1. task.pd \subseteq task.pre[1][1]
    BY <1>4, <1>9 DEF Retracted, IndexBefore
  <2>2. QED
    BY <1>3, <1>4, <1>8, <2>1
<1>10. ASSUME Heads(task.pre[2][4]) \subseteq task.pre[1][1]
       PROVE  <<store, reasoner>>' = task.pre
  <2>1. store' = task.pre[1]
    BY <1>1, <1>9, <1>10, Remembered DEF store
  <2>2. QED
    BY <1>1, <1>7, <2>1, Remembered
<1>11. UndoExact'
  BY <1>2, <1>10 DEF UndoExact, Heads
<1>12. Index(programs', disabled', derived_from', marks')
  BY <1>1, <1>3, <1>4, <1>5, <1>6, Remembered
<1>13. Stored(present', intensional')
  BY <1>1, <1>3 DEF Shape, Stored
<1>14. ReasonerInv'
  BY <1>1, <1>3, <1>11, <1>12, <1>13, FailureKeeps
<1>15. Differ(ext, ext') \subseteq Asserted
  <2>1. Differ(task.mark[1] \ (task.mark[2] \cup task.pd), ext) \subseteq Asserted
    BY DEF ReasonerInv, Base
  <2>2. ext' = task.mark[1] \ (task.mark[2] \cup task.pd)
    BY <1>3 DEF ext
  <2>3. QED
    BY <2>1, <2>2 DEF Differ
<1>16. QED
  BY <1>14, <1>15

LEMMA RuleRematerialisationFailsKeeps ==
    ASSUME ReasonerInv, RulesetFails, task.op = "rule_rematerialise"
    PROVE  ReasonerInv' /\ Differ(ext, ext') \subseteq Asserted
<1>1. /\ Shape /\ Alive /\ programs # << >> /\ ToRecovery /\ DOMAIN task = Fields
      /\ loaded' = loaded
  BY DEF ReasonerInv, RulesetFails, Alive, Shape
<1>2. task'.op = "recover" /\ task'.from = "rule_rematerialise" /\ task'.pre = task.pre
  BY <1>1 DEF ToRecovery, Fields
<1>3. /\ present' = task.mark[1] /\ intensional' = task.mark[2]
      /\ derived_from' = task.old[1] /\ marks' = task.old[2]
      /\ disabled' = disabled \ task.targets /\ programs' = programs
  BY DEF RulesetFails, undo_rematerialise_rules, SetStore
<1>4. /\ loaded = LoadedBefore /\ programs = ProgramsBefore
      /\ disabled = DisabledBefore \cup task.targets /\ DisabledBefore \cap task.targets = {}
      /\ task.mark = task.pre[1] /\ task.old = <<IndexBefore, MarksBefore>>
  BY DEF ReasonerInv, Undo, UndoRuleDelete
<1>5. disabled' = DisabledBefore /\ derived_from' = IndexBefore /\ marks' = MarksBefore
  BY <1>3, <1>4
<1>6. reasoner' = task.pre[2]
  BY <1>1, <1>3, <1>4, <1>5, Remembered DEF reasoner
<1>7. store' = task.pre[1]
  BY <1>1, <1>3, <1>4, Remembered DEF store
<1>8. <<store, reasoner>>' = task.pre
  BY <1>1, <1>6, <1>7, Remembered
<1>9. UndoExact'
  BY <1>2, <1>8 DEF UndoExact
<1>10. Index(programs', disabled', derived_from', marks')
  BY <1>1, <1>3, <1>4, <1>5, Remembered
<1>11. Stored(present', intensional')
  BY <1>1, <1>3 DEF Shape
<1>12. ReasonerInv'
  BY <1>1, <1>3, <1>9, <1>10, <1>11, FailureKeeps
<1>13. Differ(ext, ext') \subseteq Asserted
  <2>1. Differ(task.mark[1] \ task.mark[2], ext) \subseteq Asserted
    BY DEF ReasonerInv, Base
  <2>2. ext' = task.mark[1] \ task.mark[2]
    BY <1>3 DEF ext
  <2>3. QED
    BY <2>1, <2>2 DEF Differ
<1>14. QED
  BY <1>12, <1>13

LEMMA RuleInsertionFailsKeeps ==
    ASSUME ReasonerInv, RulesetFails, task.op = "rule_insert"
    PROVE  ReasonerInv' /\ Differ(ext, ext') \subseteq Asserted
<1> DEFINE n == task.old[1]
<1>1. /\ Shape /\ Alive /\ programs # << >> /\ ToRecovery /\ DOMAIN task = Fields
      /\ loaded' = loaded /\ Adding(task)
  BY DEF ReasonerInv, RulesetFails, Alive, Shape, Inserting
<1>2. task'.op = "recover" /\ task'.from = "rule_insert" /\ task'.pre = task.pre
      /\ task'.ruleset = task.ruleset
  BY <1>1 DEF ToRecovery, Fields
<1>3. /\ present' = task.mark[1] /\ intensional' = task.mark[2]
      /\ derived_from' = derived_from \ task.tracked
      /\ programs' = SubSeq(programs, 1, n)
      /\ marks' = {r \in marks : \E k \in 1..n : r \in programs[k]}
      /\ disabled' = disabled \cup task.reactivated
  BY DEF RulesetFails, undo_rule_insertions, SetStore
<1>4. /\ programs \in Seq(SUBSET Rules) /\ n \in 1..Len(programs)
      /\ Index(programs, disabled, derived_from, marks)
  BY <1>1 DEF Alive, Index, Adding
<1> HIDE DEF n
<1>5. /\ programs' \in Seq(SUBSET Rules) /\ programs' # << >> /\ Len(programs') = n
      /\ \A k \in 1..n : programs'[k] = programs[k]
      /\ RulesIn(programs') = UNION {programs[k] : k \in 1..n}
  BY <1>3, <1>4, FirstPrograms
<1>6. Kept(task) = UNION {programs[k] : k \in 1..n}
  BY DEF Kept, n
<1>7. Index(programs', disabled', derived_from', marks')
  <2>1. disabled' \subseteq RulesIn(programs')
    BY <1>1, <1>3, <1>5, <1>6 DEF Adding
  <2>2. \A i \in derived_from' : i.rule \in RulesIn(programs')
    BY <1>1, <1>3, <1>5, <1>6 DEF Adding
  <2>3. derived_from' \subseteq {i \in Instances : i.head \in Facts /\ i.rule \in RulesIn(programs')}
    BY <1>3, <1>4, <2>2 DEF Index, Derivations
  <2>4. marks' \subseteq {r \in RulesIn(programs') : HasNegation(r)}
    BY <1>3, <1>4, <1>5 DEF Index
  <2>5. QED
    BY <1>5, <2>1, <2>3, <2>4 DEF Index, Derivations
<1>8. ASSUME RulesIn(task.pre[2][2]) \ task.pre[2][3] \subseteq task.ruleset
      PROVE  <<store, reasoner>>' = task.pre
  <2>1. UndoRuleInsert(task)
    BY <1>1, <1>8 DEF Adding
  <2>2. /\ task.mark = task.pre[1] /\ loaded = LoadedBefore
        /\ Grown(IndexBefore) /\ n = Len(ProgramsBefore)
        /\ \A k \in 1..Len(ProgramsBefore) : programs[k] = ProgramsBefore[k]
        /\ MarksBefore = marks \cap RulesIn(ProgramsBefore)
        /\ task.reactivated \subseteq DisabledBefore
        /\ disabled = DisabledBefore \ task.reactivated
    BY <2>1 DEF UndoRuleInsert, LoadedBefore, ProgramsBefore, DisabledBefore, IndexBefore,
                MarksBefore, Grown, n
  <2>3. programs' = ProgramsBefore
    <3>1. ProgramsBefore \in Seq(SUBSET Rules)
      BY <1>1, Remembered DEF Index
    <3>2. \A k \in 1..Len(programs') : programs'[k] = ProgramsBefore[k]
      BY <1>5, <2>2
    <3>3. QED
      BY <1>5, <2>2, <3>1, <3>2, SeqEqual
  <2>4. marks' = MarksBefore
    BY <1>3, <2>2 DEF RulesIn
  <2>5. derived_from' = IndexBefore
    BY <1>3, <2>2, UndoneIndex
  <2>6. disabled' = DisabledBefore
    BY <1>3, <2>2
  <2>7. reasoner' = task.pre[2]
    BY <1>1, <2>2, <2>3, <2>4, <2>5, <2>6, Remembered DEF reasoner
  <2>8. store' = task.pre[1]
    BY <1>1, <1>3, <2>2, Remembered DEF store
  <2>9. QED
    BY <1>1, <2>7, <2>8, Remembered
<1>9. UndoExact'
  <2>1. (UNION {task'.pre[2][2][k] : k \in 1..Len(task'.pre[2][2])}) \ task'.pre[2][3]
            \subseteq task'.ruleset => <<store, reasoner>>' = task'.pre
    BY <1>2, <1>8 DEF RulesIn
  <2>2. <<store', reasoner'>> = <<store, reasoner>>'
    OBVIOUS
  <2>3. task'.from = "rule_insert"
    BY <1>2
  <2>4. QED
    BY ONLY <2>1, <2>2, <2>3 DEF UndoExact
<1>10. Stored(present', intensional')
  BY <1>1, <1>3 DEF Shape
<1>11. ReasonerInv'
  BY <1>1, <1>5, <1>7, <1>9, <1>10, FailureKeeps
<1>12. Differ(ext, ext') \subseteq Asserted
  <2>1. Differ(task.mark[1] \ task.mark[2], ext) \subseteq Asserted
    BY <1>1 DEF Adding
  <2>2. ext' = task.mark[1] \ task.mark[2]
    BY <1>3 DEF ext
  <2>3. QED
    BY <2>1, <2>2 DEF Differ
<1>13. QED
  BY <1>11, <1>12

LEMMA RulesetFailsKeeps ==
    ASSUME ReasonerInv, RulesetFails
    PROVE  ReasonerInv' /\ Differ(ext, ext') \subseteq Asserted
<1>1. task.op \in {"rule_delete", "rule_rematerialise", "rule_insert"}
  BY DEF RulesetFails
<1>2. QED
  BY <1>1, RuleDeletionFailsKeeps, RuleRematerialisationFailsKeeps, RuleInsertionFailsKeeps

-----------------------------------------------------------------------------
(* Recovery                                                                  *)

LEMMA RecoverUpdateKeeps ==
    ASSUME ReasonerInv, RecoverUpdate
    PROVE  ReasonerInv' /\ task'.op \notin RulesetOps
<1>1. /\ Shape /\ Alive /\ task.op = "recover" /\ programs # << >>
      /\ UNCHANGED <<loaded, programs, disabled, outcome>>
  BY DEF ReasonerInv, RecoverUpdate, Alive
<1>2. /\ task' = [NewTask EXCEPT !.op = "rebuild", !.at = 1]
      /\ derived_from' = {} /\ marks' = {}
      /\ intensional' = {}
      /\ present' = ((present \ task.inserts) \cup task.deletes) \ (intensional \ task.inserts)
  BY DEF RecoverUpdate, rebuild_from_base, SetStore
<1>3. /\ DOMAIN task' = Fields /\ task'.op = "rebuild" /\ task'.at = 1
      /\ task'.mode = "full" /\ task'.facts = {} /\ task'.delta = {} /\ task'.pd = {}
      /\ task'.inserts = {} /\ task'.deletes = {} /\ task'.mark = <<{}, {}>>
      /\ task'.ruleset = {} /\ Client(task'.pre)
  BY <1>1, <1>2, NewTaskFields DEF Fields
<1>4. Stored(present', intensional')
  BY <1>1, <1>2 DEF Alive, Stored, Shape
<1>5. Index(programs, disabled, derived_from', marks')
  BY <1>1, <1>2 DEF Alive, Index
<1>6. 1 \in 1..Len(programs)
  BY <1>1, EmptySeq, LenProperties DEF Alive, Index
<1>7. Shape'
  <2>1. /\ Stored(task'.mark[1], task'.mark[2])
        /\ task'.mark = <<task'.mark[1], task'.mark[2]>>
    BY <1>3 DEF Stored
  <2>2. outcome' \in {"ok", "rejected", "ruleset_rejected", "rollback_failed"}
    BY <1>1 DEF Shape
  <2>3. task'.op \in Ops
    BY <1>3 DEF Ops
  <2>4. QED
    BY <1>3, <2>1, <2>2, <2>3
       DEF Shape, Client, Stored, Index, Derivations, RulesIn, HasNegation
<1>8. Alive'
  BY <1>1, <1>3, <1>4, <1>5, <1>6
     DEF Alive, Index, Derivations, RulesIn, HasNegation, Stored, Running
<1>9. QED
  BY <1>3, <1>7, <1>8, NoUndoKeeps DEF RulesetOps

LEMMA RecoverRulesetKeeps ==
    ASSUME ReasonerInv, RecoverRuleset
    PROVE  ReasonerInv' /\ ext' = ext
<1>1. PICK R : R = task.ruleset
  OBVIOUS
<1>2. Shape /\ Alive /\ R \subseteq Rules /\ full_rebuild(R)
  BY <1>1 DEF ReasonerInv, RecoverRuleset, Shape
<1>3. QED
  BY <1>2, FullRebuildKeeps

LEMMA RebuildFailsKeeps ==
    ASSUME ReasonerInv, RebuildFails
    PROVE  ReasonerInv' /\ ext' = ext
<1>1. Shape /\ Alive /\ task.op \in {"new", "rebuild"} /\ Running /\ programs # << >>
      /\ task.at \in 1..Len(programs)
  BY DEF ReasonerInv, RebuildFails, Alive, Running
<1>2. PICK part \in SUBSET {i \in Fired : i.head # Contradiction} :
           /\ present' = present \cup Heads(part)
           /\ intensional' = intensional \cup (Heads(part) \ ext)
           /\ IF task.op = "new"
              THEN /\ Done("ruleset_rejected")
                   /\ loaded' = task.old[1]
                   /\ programs' = task.old[2]
                   /\ disabled' = task.old[3]
                   /\ derived_from' = task.old[4]
                   /\ marks' = task.old[5]
              ELSE /\ Done("rollback_failed")
                   /\ derived_from' = derived_from \cup part
                   /\ UNCHANGED <<loaded, programs, disabled, marks>>
  BY DEF RebuildFails, SetStore
<1>3. Heads(part) \subseteq Facts /\ part \subseteq Derivations(programs)
  <2>1. \A i \in Instances : i.head \in Facts \cup {Contradiction} /\ i.rule \in Rules
    BY InstancesAssumption
  <2>2. \A i \in part : i \in Instances /\ i.rule \in RulesIn(programs) /\ i.head # Contradiction
    BY <1>1 DEF Fired, RulesIn
  <2>3. QED
    BY <2>1, <2>2 DEF Heads, Derivations
<1>4. Stored(present', intensional') /\ ext' = ext
  BY <1>1, <1>2, <1>3 DEF Alive, Stored, ext
<1>5. CASE task.op = "new"
  <2>1. /\ task' = NoTask /\ outcome' = "ruleset_rejected"
        /\ loaded' = task.old[1] /\ programs' = task.old[2] /\ disabled' = task.old[3]
        /\ derived_from' = task.old[4] /\ marks' = task.old[5]
    BY <1>2, <1>5 DEF Done
  <2>2. /\ loaded' \in BOOLEAN /\ (loaded' = TRUE => programs' # << >>)
        /\ Index(programs', disabled', derived_from', marks')
    BY <1>1, <1>5, <2>1 DEF Alive
  <2>3. QED
    BY <1>4, <2>1, <2>2, DoneKeeps
<1>6. CASE task.op = "rebuild"
  <2>1. /\ task' = NoTask /\ outcome' = "rollback_failed"
        /\ derived_from' = derived_from \cup part
        /\ UNCHANGED <<loaded, programs, disabled, marks>>
    BY <1>2, <1>6 DEF Done
  <2>2. Index(programs', disabled', derived_from', marks')
    BY <1>1, <1>3, <2>1 DEF Alive, Index
  <2>3. QED
    BY <1>1, <1>4, <2>1, <2>2, DoneKeeps DEF Alive
<1>7. QED
  BY <1>1, <1>5, <1>6

-----------------------------------------------------------------------------
(* The theorems                                                              *)

KeepsBase ==
    task.op \in RulesetOps \/ task'.op \in RulesetOps =>
        (ext \ ext') \cup (ext' \ ext) \subseteq Asserted

\* Every step keeps the invariant, and the base facts if it belongs to a change of
\* the rules.
LEMMA StepKeeps ==
    ASSUME ReasonerInv, [Next]_vars
    PROVE  ReasonerInv' /\ KeepsBase
<1>0. /\ ext' = ext => Differ(ext, ext') = {}
      /\ Differ(ext, ext') \subseteq Asserted => KeepsBase
      /\ task.op \notin RulesetOps /\ task'.op \notin RulesetOps => KeepsBase
  BY DEF Differ, KeepsBase
<1>1. ASSUME NEW u \in Updates, apply_prepared_update(u)
      PROVE  ReasonerInv' /\ KeepsBase
  <2>1. task.op \notin RulesetOps
    BY <1>1 DEF apply_prepared_update, RulesetOps
  <2>2. QED
    BY <1>0, <1>1, <2>1, UpdateKeeps
<1>2. ASSUME NEW R \in Rulesets, apply_combined_ruleset(R)
      PROVE  ReasonerInv' /\ KeepsBase
  BY <1>0, <1>2, RulesetKeeps
<1>3. CASE StartProgram
  BY <1>0, <1>3, StartProgramKeeps
<1>4. CASE Round
  BY <1>0, <1>4, RoundKeeps
<1>5. CASE NextProgram
  BY <1>0, <1>5, NextProgramKeeps
<1>6. CASE DeletionDone
  <2>1. task.op \notin RulesetOps
    BY <1>6 DEF DeletionDone, RulesetOps
  <2>2. QED
    BY <1>0, <1>6, <2>1, DeletionDoneKeeps
<1>7. CASE InsertionDone
  <2>1. task.op \notin RulesetOps
    BY <1>7 DEF InsertionDone, RulesetOps
  <2>2. QED
    BY <1>0, <1>7, <2>1, InsertionDoneKeeps
<1>8. CASE RuleDeletionDone
  BY <1>0, <1>8, RuleDeletionDoneKeeps
<1>9. CASE RuleInsertionDone
  BY <1>0, <1>9, RuleInsertionDoneKeeps
<1>10. CASE RebuildDone
  BY <1>0, <1>10, RebuildDoneKeeps
<1>11. CASE UpdateFails
  <2>1. task.op \notin RulesetOps
    BY <1>11 DEF UpdateFails, RulesetOps
  <2>2. QED
    BY <1>0, <1>11, <2>1, UpdateFailsKeeps
<1>12. CASE RulesetFails
  BY <1>0, <1>12, RulesetFailsKeeps
<1>13. CASE RecoverUpdate
  <2>1. task.op \notin RulesetOps
    BY <1>13 DEF RecoverUpdate, RulesetOps
  <2>2. QED
    BY <1>0, <1>13, <2>1, RecoverUpdateKeeps
<1>14. CASE RecoverRuleset
  BY <1>0, <1>14, RecoverRulesetKeeps
<1>15. CASE RebuildFails
  BY <1>0, <1>15, RebuildFailsKeeps
<1>16. CASE UNCHANGED vars
  <2>1. UNCHANGED <<present, intensional, loaded, programs, disabled, derived_from, marks,
                    task, outcome>>
    BY <1>16 DEF vars
  <2>2. ext' = ext
    BY <2>1 DEF ext
  <2>3. /\ Shape' = Shape /\ Alive' = Alive /\ Inserting' = Inserting /\ Base' = Base
        /\ Undo' = Undo /\ UndoExact' = UndoExact
    <3>1. Shape' = Shape
      BY <2>1 DEF Shape
    <3>2. Alive' = Alive
      BY <2>1 DEF Alive, Running
    <3>3. Inserting' = Inserting
      BY <2>1 DEF Inserting, Adding, Kept, UndoRuleInsert, ext
    <3>4. Base' = Base
      BY <2>1 DEF Base, ext
    <3>5. Undo' = Undo
      BY <2>1 DEF Undo, UndoInsert, UndoDelete, UndoRuleDelete, SameRules, Grown, Retracted,
                  ActiveBefore, LoadedBefore, ProgramsBefore, DisabledBefore, IndexBefore,
                  MarksBefore
    <3>6. UndoExact' = UndoExact
      BY <2>1 DEF UndoExact, store, reasoner
    <3>7. QED
      BY <3>1, <3>2, <3>3, <3>4, <3>5, <3>6
  <2>4. QED
    BY <1>0, <2>2, <2>3 DEF ReasonerInv
<1>17. QED
  BY <1>1, <1>2, <1>3, <1>4, <1>5, <1>6, <1>7, <1>8, <1>9, <1>10, <1>11, <1>12, <1>13,
     <1>14, <1>15, <1>16 DEF Next, Step

\* The invariant of the incremental reasoner: the store and the index are well
\* formed, and the undo log of the call under way can restore what the client saw.
THEOREM ReasonerInvariant == Spec => []ReasonerInv
<1>1. Init => ReasonerInv
  BY ReasonerInit
<1>2. ReasonerInv /\ [Next]_vars => ReasonerInv'
  BY StepKeeps
<1>3. QED
  BY <1>1, <1>2, PTL DEF Spec

\* Whatever calls are made, only stored quads are derived, everything recorded is an
\* instance of a loaded rule, and a running call is at a program that exists.
THEOREM TypeCorrect == Spec => []TypeOK
<1>1. ReasonerInv => TypeOK
  BY AllRulesIn DEF ReasonerInv, Shape, Alive, Stored, Index, Derivations, TypeOK
<1>2. QED
  BY <1>1, ReasonerInvariant, PTL

\* When a call fails, the undo log puts back the store, the rules and the derivation
\* index that its client saw (undo_insertions, undo_deletions, undo_rule_insertions,
\* undo_rule_deletions).
THEOREM UndoRestores == Spec => []UndoExact
<1>1. ReasonerInv => UndoExact
  BY DEF ReasonerInv
<1>2. QED
  BY <1>1, ReasonerInvariant, PTL

\* No step of a change of the ruleset adds or removes a base fact, on any path, but
\* what bodyless rules assert.
THEOREM RulesetsKeepBase == Spec => RulesetKeepsBase
<1>1. ReasonerInv /\ [Next]_vars =>
          [task.op \in RulesetOps \/ task'.op \in RulesetOps =>
              (ext \ ext') \cup (ext' \ ext) \subseteq Asserted]_vars
  BY StepKeeps DEF KeepsBase
<1>2. QED
  BY <1>1, ReasonerInvariant, PTL DEF Spec, RulesetKeepsBase

-----------------------------------------------------------------------------
(* The table is cut only at a length that no removal has passed.             *)

LEMMA InsertionCuts ==
    ASSUME Shape, Alive, NEW P, NEW N, NEW u, apply_insertions(P, N, u)
    PROVE  CutsBehindRemovals'
<1>1. DOMAIN NewTask = Fields
  BY NewTaskFields
<1>2. task'.mark = <<P, N>> /\ present' = P
  BY <1>1 DEF apply_insertions, SetStore, Fields
<1>3. QED
  BY <1>2 DEF CutsBehindRemovals

LEMMA DeletionCuts ==
    ASSUME Shape, Alive, NEW P, NEW N, NEW u, apply_deletions(P, N, u)
    PROVE  CutsBehindRemovals'
<1> DEFINE pd == backward_phase(u.deletes)
           t == [NewTask EXCEPT !.at = 1, !.deletes = u.deletes, !.inserts = u.inserts]
<1>1. DOMAIN t = Fields
  BY NewTaskFields
<1>2. full_rematerialise(P, N, t) \/ forward_phase(P, N, pd, t)
  BY DEF apply_deletions
<1> HIDE DEF t, pd
<1>3. CASE full_rematerialise(P, N, t)
  <2>1. task'.op = "rematerialise"
    BY <1>1, <1>3 DEF full_rematerialise, Fields
  <2>2. QED
    BY <2>1 DEF CutsBehindRemovals
<1>4. CASE forward_phase(P, N, pd, t)
  <2>1. task'.mark = <<P \ pd, N \ pd>> /\ present' = P \ pd
    BY <1>1, <1>4 DEF forward_phase, SetStore, Fields
  <2>2. QED
    BY <2>1 DEF CutsBehindRemovals
<1>5. QED
  BY <1>2, <1>3, <1>4

LEMMA RuleDeletionCuts ==
    ASSUME Shape, Alive, NEW targets, NEW R, apply_rule_deletions(targets, R)
    PROVE  CutsBehindRemovals'
<1> DEFINE pd == backward_phase_from_rule_removal(targets)
           t == [NewTask EXCEPT !.at = 1, !.targets = targets, !.ruleset = R]
<1>1. DOMAIN t = Fields
  BY NewTaskFields
<1>2. full_rematerialise_rules(t) \/ forward_phase_rules(pd, t)
  BY DEF apply_rule_deletions
<1> HIDE DEF t, pd
<1>3. CASE full_rematerialise_rules(t)
  <2>1. task'.op = "rule_rematerialise"
    BY <1>1, <1>3 DEF full_rematerialise_rules, Fields
  <2>2. QED
    BY <2>1 DEF CutsBehindRemovals
<1>4. CASE forward_phase_rules(pd, t)
  <2>1. task'.mark = <<present \ pd, intensional \ pd>> /\ present' = present \ pd
    BY <1>1, <1>4 DEF forward_phase_rules, SetStore, Fields
  <2>2. QED
    BY <2>1 DEF CutsBehindRemovals
<1>5. QED
  BY <1>2, <1>3, <1>4

LEMMA RebuildCuts ==
    ASSUME Shape, Alive, NEW R, full_rebuild(R)
    PROVE  CutsBehindRemovals'
<1>1. task' = NoTask \/ task' = [NewTask EXCEPT !.op = "new", !.at = 1, !.old = reasoner]
  BY DEF full_rebuild, Done
<1>2. task'.op \in {"none", "new"}
  BY <1>1, NoTaskFields, NewTaskFields DEF Fields
<1>3. QED
  BY <1>2 DEF CutsBehindRemovals

LEMMA NextRuleInsertionCuts ==
    ASSUME NEW t, DOMAIN t = Fields, t.mark[1] \subseteq present, present' = present,
           NextRuleInsertion(t)
    PROVE  CutsBehindRemovals'
<1>1. ASSUME NEW r, NEW k,
             task' = [t EXCEPT !.at = k, !.started = FALSE, !.mode = "full", !.facts = {},
                               !.reactivate = @ \ {r}, !.reactivated = @ \cup {r}]
      PROVE  task'.mark = t.mark
  BY <1>1 DEF Fields
<1>2. ASSUME task' = [t EXCEPT !.at = Len(programs) + 1, !.started = FALSE, !.mode = "full",
                               !.append = Tail(@)]
      PROVE  task'.mark = t.mark
  BY <1>2 DEF Fields
<1>3. task' = NoTask \/ task'.mark = t.mark
  BY <1>1, <1>2, Zenon DEF NextRuleInsertion, Done
<1>4. QED
  BY <1>3, NoTaskFields DEF CutsBehindRemovals

LEMMA RuleInsertionsCut ==
    ASSUME Shape, Alive, NEW added, NEW R, apply_rule_insertions(added, R)
    PROVE  CutsBehindRemovals'
<1> DEFINE fresh == added \ AllRules
           t == [NewTask EXCEPT !.op = "rule_insert", !.mark = store, !.ruleset = R,
                               !.reactivate = added \cap AllRules, !.append = Strata(fresh),
                               !.old = <<Len(programs)>>]
<1>1. DOMAIN t = Fields /\ t.mark[1] = present
  BY NewTaskFields DEF Fields, store
<1>2. full_rebuild(R) \/ (NextRuleInsertion(t) /\ present' = present)
  BY DEF apply_rule_insertions, store
<1> HIDE DEF t
<1>3. QED
  BY <1>1, <1>2, RebuildCuts, NextRuleInsertionCuts

LEMMA StepCuts ==
    ASSUME ReasonerInv, CutsBehindRemovals, [Next]_vars
    PROVE  CutsBehindRemovals'
<1>0. Shape /\ Alive /\ DOMAIN task = Fields
  BY DEF ReasonerInv, Shape
<1>1. ASSUME task'.op \notin {"insert", "delete", "rule_insert", "rule_delete"}
      PROVE  CutsBehindRemovals'
  BY <1>1 DEF CutsBehindRemovals
<1>2. ASSUME task'.op = task.op, task'.mark = task.mark, present \subseteq present'
      PROVE  CutsBehindRemovals'
  BY <1>2 DEF CutsBehindRemovals
<1>3. task' = NoTask => CutsBehindRemovals'
  BY <1>1, NoTaskFields
<1>4. ASSUME NEW u \in Updates, apply_prepared_update(u)
      PROVE  CutsBehindRemovals'
  <2> DEFINE P == (present \ u.deletes) \cup u.inserts
             N == intensional \ u.deletes
  <2>1. task' = NoTask \/ apply_deletions(P, N, u) \/ apply_insertions(P, N, u)
    BY <1>0, <1>4 DEF apply_prepared_update, Done, Alive
  <2> HIDE DEF P, N
  <2>2. QED
    BY <1>0, <1>3, <2>1, DeletionCuts, InsertionCuts
<1>5. ASSUME NEW R \in Rulesets, apply_combined_ruleset(R)
      PROVE  CutsBehindRemovals'
  <2> DEFINE removed == active_rules \ R
             added == R \ active_rules
  <2>1. task' = NoTask \/ full_rebuild(R) \/ apply_rule_deletions(removed, R)
          \/ apply_rule_insertions(added, R)
    BY <1>0, <1>5 DEF apply_combined_ruleset, Done, Alive
  <2> HIDE DEF removed, added
  <2>2. QED
    BY <1>0, <1>3, <2>1, RebuildCuts, RuleDeletionCuts, RuleInsertionsCut
<1>6. CASE StartProgram
  <2>1. task'.op = task.op /\ task'.mark = task.mark /\ present \subseteq present'
    BY <1>0, <1>6 DEF StartProgram, SetStore, Fields
  <2>2. QED
    BY <1>2, <2>1
<1>7. CASE Round
  <2>1. task'.op = task.op /\ task'.mark = task.mark /\ present \subseteq present'
    BY <1>0, <1>7 DEF Round, SetStore, Fields
  <2>2. QED
    BY <1>2, <2>1
<1>8. CASE NextProgram
  <2>1. task'.op = task.op /\ task'.mark = task.mark /\ present' = present
    BY <1>0, <1>8 DEF NextProgram, store, Fields
  <2>2. QED
    BY <1>2, <2>1
<1>9. CASE DeletionDone
  <2>1. task' = NoTask \/ apply_insertions(present, intensional, task)
    BY <1>9 DEF DeletionDone, Done
  <2>2. PICK u : u = task
    OBVIOUS
  <2>3. task' = NoTask \/ apply_insertions(present, intensional, u)
    BY <2>1, <2>2
  <2>4. QED
    BY <1>0, <1>3, <2>3, InsertionCuts
<1>10. CASE InsertionDone
  <2>1. task' = NoTask \/ task' = Rematerialise(task)
    BY <1>10 DEF InsertionDone, Done
  <2>2. task' = NoTask \/ task'.op = "retract"
    BY <1>0, <2>1 DEF Rematerialise, Fields
  <2>3. QED
    BY <1>1, <1>3, <2>2
<1>11. CASE RuleDeletionDone
  <2>1. PICK R : R = task.ruleset
    OBVIOUS
  <2>2. task' = NoTask \/ apply_rule_insertions(R \ active_rules, R)
    BY <1>11, <2>1 DEF RuleDeletionDone, Done
  <2>3. QED
    BY <1>0, <1>3, <2>2, RuleInsertionsCut
<1>12. CASE RuleInsertionDone
  <2>1. PICK t : t = task
    OBVIOUS
  <2>2. /\ NextRuleInsertion(t) /\ present' = present /\ DOMAIN t = Fields
        /\ t.mark[1] \subseteq present
    BY <1>0, <1>12, <2>1 DEF RuleInsertionDone, store, CutsBehindRemovals
  <2>3. QED
    BY <2>2, NextRuleInsertionCuts
<1>13. CASE RebuildDone
  BY <1>3, <1>13 DEF RebuildDone, Done
<1>14. CASE UpdateFails \/ RulesetFails
  <2>1. task'.op = "recover"
    BY <1>0, <1>14 DEF UpdateFails, RulesetFails, ToRecovery, Fields
  <2>2. QED
    BY <1>1, <2>1
<1>15. CASE RecoverUpdate
  <2>1. task' = [NewTask EXCEPT !.op = "rebuild", !.at = 1]
    BY <1>15 DEF RecoverUpdate, rebuild_from_base
  <2>2. task'.op = "rebuild"
    BY <1>0, <2>1, NewTaskFields DEF Fields
  <2>3. QED
    BY <1>1, <2>2
<1>16. CASE RecoverRuleset
  <2>1. PICK R : R = task.ruleset
    OBVIOUS
  <2>2. full_rebuild(R)
    BY <1>16, <2>1 DEF RecoverRuleset
  <2>3. QED
    BY <1>0, <2>2, RebuildCuts
<1>17. CASE RebuildFails
  <2>1. task' = NoTask
    BY <1>17 DEF RebuildFails, Done
  <2>2. QED
    BY <1>3, <2>1
<1>18. CASE UNCHANGED vars
  BY <1>18 DEF vars, CutsBehindRemovals
<1>19. QED
  BY <1>4, <1>5, <1>6, <1>7, <1>8, <1>9, <1>10, <1>11, <1>12, <1>13, <1>14, <1>15, <1>16,
     <1>17, <1>18 DEF Next, Step

\* A phase that removes quads has given up the undo that cuts the table at an earlier
\* length (truncate_to), so no cut falls on quads that a swap-removal has moved.
THEOREM CutsStayBehindRemovals == Spec => []CutsBehindRemovals
<1>1. Init => CutsBehindRemovals
  BY NoTaskFields DEF Init, CutsBehindRemovals
<1>2. QED
  BY <1>1, StepCuts, ReasonerInvariant, PTL DEF Spec

-----------------------------------------------------------------------------
(* Programs without negation: the index is complete and the closure exact.   *)

\* No rule has a NOT atom ...
Positive == \A i \in Instances : i.neg = {}

\* ... and such a program is one stratum (pure_positive in order_rules).
FastPath == \A S \in SUBSET Rules : Strata(S) = IF S = {} THEN << >> ELSE <<S>>

\* No ruleset was rejected, and no rollback failed, under a reasoner that stays loaded.
Unharmed == loaded = TRUE => outcome \notin {"ruleset_rejected", "rollback_failed"}

Enabled(k) == programs[k] \ disabled

\* Program k needs no further round once the quads of D have been looked at.
Fed(k, D) ==
    \A i \in Instances :
        i.rule \in Enabled(k) /\ i.pos # {} /\ i.pos \subseteq present /\ i.pos \cap D = {}
            => i \in derived_from /\ i.head \in present

\* What the bodyless rules of program k assert is there.
Asserting(k) ==
    \A i \in Instances : i.rule \in Enabled(k) /\ IsFact(i) => i.head \in present

Closed(k) == Fed(k, {}) /\ Asserting(k)

AllClosed == \A k \in 1..Len(programs) : Closed(k)

FullOps == {"new", "rebuild", "delete", "rematerialise", "rule_delete",
            "rule_rematerialise", "rule_insert"}

\* A pass over the whole store has dealt with the programs before the present one, and
\* nothing is retracted by an insertion.
FullPass ==
    /\ task.mode = "full"
    /\ \A k \in 1..Len(programs) : k < task.at => Closed(k)
    /\ task.started => Fed(task.at, task.delta) /\ Asserting(task.at)

\* A pass that follows an insertion: the programs to come need the facts so far only.
FactsPass ==
    /\ task.mode = "facts"
    /\ \A k \in 1..Len(programs) : Asserting(k)
    /\ \A k \in 1..Len(programs) : k < task.at => Fed(k, {})
    /\ \A k \in 1..Len(programs) :
           k > task.at \/ (k = task.at /\ ~task.started) => Fed(k, task.facts)
    /\ task.started => Fed(task.at, task.delta)
    /\ task.started \/ task.at > 1 => task.facts \subseteq present

\* Between calls all programs are closed, and a call is on the way there.
Complete ==
    /\ task.op # "retract"
    /\ task.op = "none" /\ loaded = TRUE => AllClosed
    /\ task.op \in FullOps => FullPass
    /\ task.op = "insert" => FactsPass
    /\ task.op = "rule_insert" => task.at = Len(programs) /\ task.reactivate \subseteq disabled

\* The least superset of S that the instances of I lead nowhere out of.
Generated(S, I) ==
    {f \in Facts : \A T \in SUBSET Facts :
        S \subseteq T /\ (\A i \in I : i.pos \subseteq T => i.head \in T) => f \in T}

\* The instances a reasoner may fire.
Ways == {i \in Instances : i.rule \in active_rules /\ i.pos # {} /\ i.head \in Facts}

\* Every stored quad follows from the base facts.
Grounded ==
    Running \/ (task.op = "none" /\ loaded = TRUE) => present \subseteq Generated(ext, Ways)

\* Later programs do not feed earlier ones.
Apart ==
    \A j, k \in 1..Len(programs) : j < k =>
        /\ programs[j] \cap programs[k] = {}
        /\ \A s \in programs[j], r \in programs[k] : ~DependsOn(s, r)

Supported(i) == i.pos \subseteq present /\ i.head \in present

\* What is recorded is there, except for what a deletion has still to find.
Support ==
    \A i \in derived_from :
        /\ i.pos # {}
        /\ task.op \in {"none", "insert", "new", "rebuild", "rule_insert"} => Supported(i)
        /\ task.op = "delete" => i.pos \subseteq present
        /\ task.op = "rematerialise" =>
              \A k \in 1..Len(programs) :
                  i.rule \in programs[k] /\ (k < task.at \/ (k = task.at /\ task.started))
                      => Supported(i)

\* Rules are only added: no program feeds an earlier one, and the index is supported.
Layered ==
    /\ task.op \notin {"rule_delete", "rule_rematerialise"}
    /\ task.op = "rule_insert" => task.append = << >>
    /\ loaded = TRUE \/ task.op # "none" => Apart
    /\ (loaded = TRUE \/ task.op # "none") /\ task.op # "recover" => Support

\* There is one program, or rules were only added.
Settled == Len(programs) <= 1 \/ (disabled = {} /\ Layered)

-----------------------------------------------------------------------------
LEMMA Pass ==
    ASSUME ReasonerInv, Complete, Running
    PROVE  /\ task.op \in FullOps => FullPass
           /\ task.op = "insert" => FactsPass
           /\ task.op \in FullOps \cup {"insert"}
           /\ task.at \in 1..Len(programs) /\ Len(programs) \in Nat
           /\ DOMAIN task = Fields
<1>1. Len(programs) \in Nat
  BY LenProperties DEF ReasonerInv, Alive, Index
<1>2. QED
  BY <1>1 DEF ReasonerInv, Alive, Shape, Ops, Running, Complete, FullOps

\* The last program done, all are.
LEMMA AllClosedAtEnd ==
    ASSUME ReasonerInv, Complete, ProgramDone, AtLastProgram
    PROVE  AllClosed
<1>1. Running /\ task.started /\ task.delta = {}
  BY DEF ProgramDone
<1>2. task.at = Len(programs)
  BY DEF AtLastProgram, Complete
<1>3. SUFFICES ASSUME NEW k \in 1..Len(programs)
               PROVE  Closed(k)
  BY DEF AllClosed
<1>4. k < task.at \/ k = task.at
  BY <1>1, <1>2, Pass
<1>5. CASE task.op \in FullOps
  BY <1>1, <1>4, <1>5, Pass DEF FullPass, Closed
<1>6. CASE task.op = "insert"
  BY <1>1, <1>4, <1>6, Pass DEF FactsPass, Closed
<1>7. QED
  BY <1>1, <1>5, <1>6, Pass

\* Between calls.
LEMMA IdleExact ==
    ASSUME UNCHANGED <<present, intensional, programs, disabled, derived_from>>,
           loaded' = TRUE => AllClosed /\ present \subseteq Generated(ext, Ways),
           task' = NoTask
    PROVE  Complete' /\ Grounded'
<1>1. task'.op = "none" /\ ~Running'
  BY NoTaskFields DEF Running
<1>2. AllClosed => AllClosed'
  BY DEF AllClosed, Closed, Fed, Asserting, Enabled, IsFact
<1>3. Complete'
  BY <1>1, <1>2 DEF Complete, FullOps
<1>4. ext' = ext /\ Ways' = Ways
  BY DEF ext, Ways, active_rules, AllRules
<1>5. Generated(ext, Ways)' = Generated(ext, Ways)
  BY <1>4 DEF Generated
<1>6. QED
  BY <1>1, <1>3, <1>5 DEF Grounded

-----------------------------------------------------------------------------
(* The rounds                                                                *)

LEMMA RoundFields ==
    ASSUME ReasonerInv, Round
    PROVE  /\ Running /\ task.started
           /\ present' = present \cup Heads(Fired) /\ ext' = ext
           /\ intensional' = intensional \cup (Heads(Fired) \ ext)
           /\ derived_from' = derived_from \cup Fired
           /\ Contradiction \notin Heads(Fired)
           /\ UNCHANGED <<loaded, programs, disabled, outcome>>
           /\ DOMAIN task' = Fields
           /\ task'.delta = Heads(Fired) \ present
           /\ task'.facts = task.facts \cup Heads(NewDerivations)
           /\ task'.op = task.op /\ task'.at = task.at /\ task'.started = task.started
           /\ task'.mode = task.mode /\ task'.reactivate = task.reactivate
           /\ task'.append = task.append /\ Running'
<1> DEFINE d == Heads(Fired) \ present
           tr == task.tracked \cup NewDerivations
           fa == task.facts \cup Heads(NewDerivations)
<1>1. /\ Shape /\ Alive /\ Running /\ task.started /\ Contradiction \notin Heads(Fired)
      /\ present' = present \cup Heads(Fired)
      /\ intensional' = intensional \cup (Heads(Fired) \ ext)
      /\ derived_from' = derived_from \cup Fired
      /\ UNCHANGED <<loaded, programs, disabled, outcome>>
  BY DEF ReasonerInv, Round, SetStore
<1>2. DOMAIN task = Fields
  BY <1>1 DEF Shape
<1>3. task' = [task EXCEPT !.delta = d, !.tracked = tr, !.facts = fa]
  <2>1. task' = [task EXCEPT !.delta = Heads(Fired) \ present,
                             !.tracked = @ \cup NewDerivations,
                             !.facts = @ \cup Heads(NewDerivations)]
    BY DEF Round
  <2>2. QED
    BY <1>2, <2>1 DEF Fields
<1>4. /\ DOMAIN task' = Fields /\ task'.delta = d /\ task'.facts = fa
      /\ task'.op = task.op /\ task'.at = task.at /\ task'.started = task.started
      /\ task'.mode = task.mode /\ task'.reactivate = task.reactivate
      /\ task'.append = task.append
  <2> HIDE DEF d, tr, fa
  <2>1. QED
    BY <1>2, <1>3 DEF Fields
<1>5. ext' = ext
  BY <1>1 DEF ext, Alive, Stored
<1>6. Running'
  BY <1>1, <1>4 DEF Running
<1>7. QED
  BY <1>1, <1>4, <1>5, <1>6

\* The instances that fire.
LEMMA FiredInstances ==
    ASSUME Positive, ReasonerInv, Running, Contradiction \notin Heads(Fired)
    PROVE  /\ \A i \in Instances :
                  i.rule \in Enabled(task.at) /\ i.pos \cap task.delta # {} /\ i.pos \subseteq present
                      => i \in Fired
           /\ \A i \in Fired :
                  /\ i \in Instances /\ i.rule \in Enabled(task.at) /\ i.pos \subseteq present
                  /\ i.pos # {} /\ i.head \in Facts /\ i.head \in Heads(Fired)
           /\ \A q \in Heads(Fired) : \E i \in Fired : i.head = q
           /\ \A i \in Fired : i \in derived_from \/ i.head \in Heads(NewDerivations)
           /\ Heads(NewDerivations) \subseteq Heads(Fired)
<1>1. \A i \in Instances : i.head \in Facts \cup {Contradiction} /\ i.neg = {}
  BY InstancesAssumption DEF Positive
<1>2. \A i \in Fired : i.head \in Heads(Fired)
  BY DEF Heads
<1>3. QED
  BY <1>1, <1>2 DEF Fired, Holds, Enabled, Heads, NewDerivations

LEMMA RoundExact ==
    ASSUME Positive, ReasonerInv, Complete, Grounded, Settled, Round
    PROVE  Complete' /\ Grounded'
<1>1. Running /\ task.started /\ Contradiction \notin Heads(Fired)
  BY RoundFields
<1>2. /\ present' = present \cup Heads(Fired) /\ derived_from' = derived_from \cup Fired
      /\ UNCHANGED <<loaded, programs, disabled>>
      /\ task'.delta = Heads(Fired) \ present
      /\ task'.facts = task.facts \cup Heads(NewDerivations)
      /\ task'.op = task.op /\ task'.at = task.at /\ task'.started = task.started
      /\ task'.mode = task.mode /\ task'.reactivate = task.reactivate
  BY RoundFields
<1>3. \A k : Enabled(k)' = Enabled(k)
  BY <1>2 DEF Enabled
<1>4. Fed(task.at, task.delta) => Fed(task.at, task.delta)'
  <2> SUFFICES ASSUME Fed(task.at, task.delta), NEW i \in Instances,
                      i.rule \in Enabled(task.at), i.pos # {}, i.pos \subseteq present',
                      i.pos \cap task'.delta = {}
               PROVE  i \in derived_from' /\ i.head \in present'
    BY <1>2, <1>3 DEF Fed
  <2>1. i.pos \subseteq present
    BY <1>2
  <2>2. CASE i.pos \cap task.delta = {}
    BY <1>2, <2>1, <2>2 DEF Fed
  <2>3. CASE i.pos \cap task.delta # {}
    BY <1>1, <1>2, <2>1, <2>3, FiredInstances
  <2>4. QED
    BY <2>2, <2>3
<1>5. ASSUME NEW k \in 1..Len(programs), k < task.at, Fed(k, {})
      PROVE  Fed(k, {})'
  <2> SUFFICES ASSUME NEW i \in Instances, i.rule \in Enabled(k), i.pos # {},
                      i.pos \subseteq present'
               PROVE  i \in derived_from' /\ i.head \in present'
    BY <1>3 DEF Fed
  <2>1. ~(Len(programs) <= 1)
    BY <1>1, <1>5, Pass
  <2>2. Apart
    BY <1>1, <2>1 DEF Settled, Layered, Running
  <2>3. \A j \in Fired : ~DependsOn(i.rule, j.rule)
    BY <1>1, <1>5, <2>2, FiredInstances, Pass DEF Apart, Enabled
  <2>4. i.pos \cap Heads(Fired) = {}
    BY <1>1, <2>3, FiredInstances DEF DependsOn
  <2>5. QED
    BY <1>2, <1>5, <2>4 DEF Fed
<1>6. ASSUME NEW k \in 1..Len(programs), k > task.at, task.op = "insert", Fed(k, task.facts)
      PROVE  Fed(k, task.facts)'
  <2> SUFFICES ASSUME NEW i \in Instances, i.rule \in Enabled(k), i.pos # {},
                      i.pos \subseteq present', i.pos \cap task'.facts = {}
               PROVE  i \in derived_from' /\ i.head \in present'
    BY <1>3 DEF Fed
  <2>1. ~(Len(programs) <= 1)
    BY <1>1, <1>6, Pass
  <2>2. \A j \in derived_from : j.head \in present
    BY <1>1, <1>6, <2>1 DEF Settled, Layered, Running, Support, Supported
  <2>3. i.pos \subseteq present
    BY <1>1, <1>2, <2>2, FiredInstances
  <2>4. QED
    BY <1>2, <1>6, <2>3 DEF Fed
<1>7. \A k : Asserting(k) => Asserting(k)'
  BY <1>2, <1>3 DEF Asserting, IsFact
<1>8. task.op \in FullOps => FullPass'
  BY <1>1, <1>2, <1>4, <1>5, <1>7, Pass DEF FullPass, Closed
<1>9. task.op = "insert" => FactsPass'
  <2> SUFFICES ASSUME task.op = "insert" PROVE FactsPass'
    OBVIOUS
  <2>1. task'.facts \subseteq present'
    BY <1>1, <1>2, FiredInstances, Pass DEF FactsPass
  <2>2. QED
    BY <1>1, <1>2, <1>4, <1>5, <1>6, <1>7, <2>1, Pass DEF FactsPass
<1>10. Complete'
  BY <1>1, <1>2, <1>8, <1>9, Pass DEF Complete, FullOps
<1>11. Grounded'
  <2>1. ext' = ext /\ Ways' = Ways
    BY <1>2, RoundFields DEF Ways, active_rules, AllRules
  <2>2. present \subseteq Generated(ext, Ways)
    BY <1>1 DEF Grounded
  <2>3. Heads(Fired) \subseteq Generated(ext, Ways)
    <3>1. \A i \in Fired : i \in Ways /\ i.pos \subseteq present
      BY <1>1, FiredInstances, Pass DEF Ways, active_rules, AllRules, Enabled
    <3>2. \A q \in Heads(Fired) : \E i \in Fired : i.head = q /\ q \in Facts
      BY <1>1, FiredInstances
    <3>3. QED
      BY <2>2, <3>1, <3>2 DEF Generated
  <2>4. Generated(ext, Ways)' = Generated(ext, Ways)
    BY <2>1 DEF Generated
  <2>5. QED
    BY <1>2, <2>2, <2>3, <2>4 DEF Grounded
<1>12. QED
  BY <1>10, <1>11

-----------------------------------------------------------------------------
(* What is generated                                                         *)

LEMMA GeneratedClosed ==
    ASSUME NEW S, S \subseteq Facts, NEW I
    PROVE  /\ S \subseteq Generated(S, I)
           /\ \A i \in I : i.pos \subseteq Generated(S, I) /\ i.head \in Facts
                               => i.head \in Generated(S, I)
<1>1. S \subseteq Generated(S, I)
  BY DEF Generated
<1>2. ASSUME NEW i \in I, i.pos \subseteq Generated(S, I), i.head \in Facts
      PROVE  i.head \in Generated(S, I)
  BY <1>2 DEF Generated
<1>3. QED
  BY <1>1, <1>2

LEMMA GeneratedLeast ==
    ASSUME NEW S, NEW I, NEW T, T \subseteq Facts, S \subseteq T,
           \A i \in I : i.pos \subseteq T => i.head \in T
    PROVE  Generated(S, I) \subseteq T
BY DEF Generated

\* More base facts and more rules generate more.
LEMMA GroundedGrows ==
    ASSUME ReasonerInv, ReasonerInv', present \subseteq Generated(ext, Ways),
           present \subseteq present', intensional' = intensional, Ways \subseteq Ways'
    PROVE  Grounded'
<1>1. /\ present' \subseteq Facts /\ intensional \subseteq present
      /\ ext' = present' \ intensional /\ ext = present \ intensional
  BY DEF ReasonerInv, Alive, Stored, ext
<1>2. ext' \subseteq Facts
  BY <1>1
<1>3. ext' \subseteq Generated(ext', Ways')
  BY <1>2, GeneratedClosed
<1>4. Generated(ext, Ways) \subseteq Generated(ext', Ways')
  <2>1. ext \subseteq ext'
    BY <1>1
  <2>2. QED
    BY <2>1 DEF Generated
<1>5. present' \subseteq Generated(ext', Ways')
  BY <1>1, <1>3, <1>4
<1>6. QED
  BY <1>5 DEF Grounded, Generated

\* A store stripped to its base facts.
LEMMA GroundedStripped ==
    ASSUME ReasonerInv', intensional' = {}
    PROVE  Grounded'
<1>1. present' \subseteq Facts /\ ext' = present'
  BY DEF ReasonerInv, Alive, Stored, ext
<1>2. present' \subseteq Generated(ext', Ways')
  BY <1>1, GeneratedClosed
<1>3. QED
  BY <1>2 DEF Grounded, Generated

\* A call that works through all programs begins.
LEMMA PassBegins ==
    ASSUME task'.op \in FullOps \ {"rule_insert"}, task'.at = 1, task'.started = FALSE,
           task'.mode = "full"
    PROVE  Complete'
<1>1. FullPass'
  BY DEF FullPass
<1>2. QED
  BY <1>1 DEF Complete, FullOps

\* Nothing is said of a dataset without reasoner, nor before a recovery.
LEMMA NothingSaid ==
    ASSUME task'.op = "recover" \/ (task'.op = "none" /\ loaded' # TRUE)
    PROVE  Complete' /\ Grounded'
BY DEF Complete, Grounded, FullOps, Running

LEMMA SameWays ==
    ASSUME UNCHANGED <<programs, disabled>>
    PROVE  Ways' = Ways /\ \A k : Enabled(k)' = Enabled(k)
BY DEF Ways, active_rules, AllRules, Enabled

-----------------------------------------------------------------------------
(* The steps between rounds                                                  *)

LEMMA StartProgramFields ==
    ASSUME ReasonerInv, StartProgram
    PROVE  LET facts == Heads({i \in Instances : IsFact(i) /\ i.rule \in Enabled(task.at)})
               P == present \cup facts \cup (IF task.mode = "facts" THEN task.facts ELSE {})
           IN  /\ Running /\ Running' /\ ~task.started
               /\ present' = P /\ UNCHANGED <<intensional, loaded, programs, disabled, outcome>>
               /\ derived_from' \subseteq derived_from
               /\ \A i \in derived_from : i.rule \notin programs[task.at] => i \in derived_from'
               /\ task.op \notin {"rematerialise", "rule_rematerialise"}
                      => derived_from' = derived_from
               /\ task.op \in {"rematerialise", "rule_rematerialise"}
                      => \A i \in derived_from' : i.rule \notin programs[task.at]
               /\ DOMAIN task' = Fields /\ task'.started = TRUE
               /\ task'.delta = (IF task.mode = "facts" THEN task.facts ELSE P)
               /\ task'.facts = task.facts /\ task'.op = task.op /\ task'.at = task.at
               /\ task'.mode = task.mode /\ task'.reactivate = task.reactivate
               /\ task'.append = task.append
<1> DEFINE facts == Heads({i \in Instances : IsFact(i) /\ i.rule \in Enabled(task.at)})
           P == present \cup facts \cup (IF task.mode = "facts" THEN task.facts ELSE {})
           d == IF task.mode = "facts" THEN task.facts ELSE P
<1>1. /\ Running /\ ~task.started /\ present' = P
      /\ UNCHANGED <<intensional, loaded, programs, disabled, outcome>>
      /\ DOMAIN task = Fields
  BY DEF StartProgram, SetStore, Enabled, ReasonerInv, Shape
<1>2. derived_from' = IF task.op \in {"rematerialise", "rule_rematerialise"}
                      THEN {i \in derived_from : i.rule \notin programs[task.at]}
                      ELSE derived_from
  BY DEF StartProgram
<1>3. task' = [task EXCEPT !.started = TRUE, !.delta = d]
  BY DEF StartProgram, Enabled
<1>4. /\ DOMAIN task' = Fields /\ task'.started = TRUE /\ task'.delta = d
      /\ task'.facts = task.facts /\ task'.op = task.op /\ task'.at = task.at
      /\ task'.mode = task.mode /\ task'.reactivate = task.reactivate
      /\ task'.append = task.append
  <2> HIDE DEF d
  <2>1. QED
    BY <1>1, <1>3 DEF Fields
<1>5. Running'
  BY <1>1, <1>4 DEF Running
<1> HIDE DEF facts
<1>6. QED
  BY <1>1, <1>2, <1>4, <1>5 DEF facts

LEMMA StartProgramExact ==
    ASSUME Positive, ReasonerInv, ReasonerInv', Complete, Grounded, Settled, StartProgram
    PROVE  Complete' /\ Grounded'
<1> DEFINE fs == {i \in Instances : IsFact(i) /\ i.rule \in Enabled(task.at)}
           facts == Heads(fs)
           P == present \cup facts \cup (IF task.mode = "facts" THEN task.facts ELSE {})
<1>1. /\ Running /\ Running' /\ ~task.started
      /\ present' = P /\ UNCHANGED <<intensional, loaded, programs, disabled, outcome>>
      /\ \A i \in derived_from : i.rule \notin programs[task.at] => i \in derived_from'
      /\ task.op \notin {"rematerialise", "rule_rematerialise"} => derived_from' = derived_from
      /\ task'.started = TRUE /\ task'.delta = (IF task.mode = "facts" THEN task.facts ELSE P)
      /\ task'.facts = task.facts /\ task'.op = task.op /\ task'.at = task.at
      /\ task'.mode = task.mode /\ task'.reactivate = task.reactivate
  BY StartProgramFields
<1>2. \A q \in facts : \E i \in fs : i.head = q
  BY DEF Heads
<1>3. \A i \in fs : i.head \in facts
  BY DEF Heads
<1> HIDE DEF facts
<1>4. \A k : Enabled(k)' = Enabled(k)
  BY <1>1 DEF Enabled
<1>5. \A k : Asserting(k) => Asserting(k)'
  BY <1>1, <1>4 DEF Asserting, IsFact
<1>6. ASSUME task.op \in FullOps PROVE Complete'
  <2>1. FullPass /\ task.mode = "full"
    BY <1>1, <1>6, Pass DEF FullPass
  <2>2. Fed(task.at, task.delta)'
    BY <1>1, <2>1 DEF Fed
  <2>3. Asserting(task.at)'
    BY <1>1, <1>3, <1>4 DEF Asserting, IsFact
  <2>4. ASSUME NEW k \in 1..Len(programs), k < task.at
        PROVE  Closed(k)'
    <3>1. Fed(k, {}) /\ Asserting(k)
      BY <2>1, <2>4 DEF FullPass, Closed
    <3>2. ~(Len(programs) <= 1)
      BY <1>1, <2>4, Pass
    <3>3. Apart
      BY <1>1, <3>2 DEF Settled, Layered, Running
    <3>4. programs[k] \cap programs[task.at] = {}
      BY <1>1, <2>4, <3>3, Pass DEF Apart
    <3>5. Fed(k, {})'
      <4> SUFFICES ASSUME NEW i \in Instances, i.rule \in Enabled(k), i.pos # {},
                          i.pos \subseteq present'
                   PROVE  i \in derived_from' /\ i.head \in present'
        BY <1>4 DEF Fed
      <4>1. \A j \in fs : ~DependsOn(i.rule, j.rule)
        BY <1>1, <2>4, <3>3, Pass DEF Apart, Enabled
      <4>2. i.pos \cap facts = {}
        BY <1>2, <4>1 DEF DependsOn
      <4>3. i.pos \subseteq present
        BY <1>1, <2>1, <4>2
      <4>4. i \in derived_from /\ i.head \in present
        BY <3>1, <4>3 DEF Fed
      <4>5. QED
        BY <1>1, <3>4, <4>4 DEF Enabled
    <3>6. QED
      BY <3>1, <3>5, <1>5 DEF Closed
  <2>5. FullPass'
    BY <1>1, <2>1, <2>2, <2>3, <2>4 DEF FullPass
  <2>6. QED
    BY <1>1, <1>6, <2>5 DEF Complete, FullOps
<1>7. ASSUME task.op = "insert" PROVE Complete'
  <2>1. FactsPass /\ task.mode = "facts"
    BY <1>1, <1>7, Pass DEF FactsPass
  <2>2. facts \subseteq present
    BY <1>1, <1>2, <2>1, Pass DEF FactsPass, Asserting
  <2>3. present' = present \cup task.facts /\ derived_from' = derived_from
    BY <1>1, <1>7, <2>1, <2>2
  <2>4. ASSUME NEW k, Fed(k, task.facts)
        PROVE  Fed(k, task.facts)'
    BY <1>4, <1>1, <2>3, <2>4 DEF Fed
  <2>5. ASSUME NEW k \in 1..Len(programs), k < task.at
        PROVE  Fed(k, {})'
    <3>1. task.at > 1
      BY <1>1, <2>5, Pass
    <3>2. present' = present
      BY <2>1, <2>3, <3>1 DEF FactsPass
    <3>3. QED
      BY <1>1, <1>4, <2>1, <2>3, <2>5, <3>2 DEF FactsPass, Fed
  <2>6. FactsPass'
    <3>1. task'.facts \subseteq present'
      BY <1>1, <2>3
    <3>2. Fed(task.at, task.facts)
      BY <1>1, <2>1, Pass DEF FactsPass
    <3>3. task'.delta = task.facts
      BY <1>1, <2>1
    <3>4. QED
      BY <1>1, <1>5, <2>1, <2>4, <2>5, <3>1, <3>2, <3>3 DEF FactsPass
  <2>7. QED
    BY <1>1, <1>7, <2>6 DEF Complete, FullOps
<1>8. Complete'
  <2>1. Complete' \/ task.op \notin FullOps \cup {"insert"}
    BY <1>6, <1>7
  <2>2. QED
    BY <1>1, <2>1, Pass
<1>9. Grounded'
  <2>1. present \subseteq Generated(ext, Ways)
    BY <1>1 DEF Grounded
  <2>2. Ways' = Ways
    BY <1>1, SameWays
  <2>3. QED
    BY <1>1, <2>1, <2>2, GroundedGrows
<1>10. QED
  BY <1>8, <1>9

LEMMA InsertionFields ==
    ASSUME ReasonerInv, NEW P, NEW N, NEW u, apply_insertions(P, N, u)
    PROVE  /\ present' = P /\ intensional' = N
           /\ UNCHANGED <<loaded, programs, disabled, derived_from, marks, outcome>>
           /\ task'.op = "insert" /\ task'.at = 1 /\ task'.started = FALSE
           /\ task'.mode = "facts" /\ task'.facts = u.inserts
<1>1. /\ present' = P /\ intensional' = N
      /\ task' = [NewTask EXCEPT !.op = "insert", !.at = 1, !.mode = "facts",
                              !.facts = u.inserts, !.inserts = u.inserts,
                              !.deletes = u.deletes, !.mark = <<P, N>>]
      /\ UNCHANGED <<loaded, programs, disabled, derived_from, marks, outcome>>
  BY DEF apply_insertions, SetStore, reasoner
<1>2. QED
  BY <1>1, NewTaskFields DEF Fields, ReasonerInv

\* The inserts come on top of a closed store.
LEMMA ApplyInsertionsExact ==
    ASSUME ReasonerInv, ReasonerInv', AllClosed, present \subseteq Generated(ext, Ways),
           NEW P, NEW u, present \subseteq P, P \subseteq present \cup u.inserts,
           apply_insertions(P, intensional, u)
    PROVE  Complete' /\ Grounded'
<1>1. /\ present' = P /\ intensional' = intensional
      /\ UNCHANGED <<loaded, programs, disabled, derived_from>>
      /\ task'.op = "insert" /\ task'.at = 1 /\ task'.started = FALSE
      /\ task'.mode = "facts" /\ task'.facts = u.inserts
  BY InsertionFields
<1>2. Ways' = Ways /\ \A k : Enabled(k)' = Enabled(k)
  BY <1>1, SameWays
<1>3. Grounded'
  BY <1>1, <1>2, GroundedGrows
<1>4. ASSUME NEW k \in 1..Len(programs)
      PROVE  Asserting(k)' /\ Fed(k, task.facts)'
  <2>1. Fed(k, {}) /\ Asserting(k)
    BY DEF AllClosed, Closed
  <2>2. Asserting(k)'
    BY <1>1, <1>2, <2>1 DEF Asserting, IsFact
  <2>3. Fed(k, task.facts)'
    BY <1>1, <1>2, <2>1 DEF Fed
  <2>4. QED
    BY <2>2, <2>3
<1>5. FactsPass'
  BY <1>1, <1>4 DEF FactsPass
<1>6. Complete'
  BY <1>1, <1>5 DEF Complete, FullOps
<1>7. QED
  BY <1>3, <1>6

LEMMA NextProgramFields ==
    ASSUME ReasonerInv, NextProgram
    PROVE  /\ UNCHANGED <<present, intensional, loaded, programs, disabled, derived_from, outcome>>
           /\ Running /\ Running' /\ task.started /\ task.delta = {} /\ ~AtLastProgram
           /\ task'.op = task.op /\ task'.at = task.at + 1 /\ task'.started = FALSE
           /\ task'.mode = (IF task.op = "rule_insert" THEN "facts" ELSE task.mode)
           /\ task'.facts = task.facts /\ task'.append = task.append
<1> DEFINE m == IF task.op = "rule_insert" THEN "facts" ELSE task.mode
<1>1. /\ UNCHANGED <<present, intensional, loaded, programs, disabled, derived_from, outcome>>
      /\ Running /\ task.started /\ task.delta = {} /\ ~AtLastProgram /\ DOMAIN task = Fields
  BY DEF NextProgram, ProgramDone, store, reasoner, ReasonerInv, Shape
<1>2. task' = [task EXCEPT !.at = task.at + 1, !.started = FALSE, !.mode = m]
  BY <1>1 DEF NextProgram, Fields
<1> HIDE DEF m
<1>3. /\ task'.op = task.op /\ task'.at = task.at + 1 /\ task'.started = FALSE
      /\ task'.mode = m /\ task'.facts = task.facts /\ task'.append = task.append
  BY <1>1, <1>2 DEF Fields
<1>4. Running'
  BY <1>1, <1>3 DEF Running
<1>5. QED
  BY <1>1, <1>3, <1>4 DEF m

LEMMA NextProgramExact ==
    ASSUME ReasonerInv, ReasonerInv', Complete, Grounded, NextProgram
    PROVE  Complete' /\ Grounded'
<1>1. /\ UNCHANGED <<present, intensional, loaded, programs, disabled, derived_from>>
      /\ Running /\ Running' /\ task.started /\ task.delta = {} /\ ~AtLastProgram
      /\ task'.op = task.op /\ task'.at = task.at + 1 /\ task'.started = FALSE
      /\ task'.mode = (IF task.op = "rule_insert" THEN "facts" ELSE task.mode)
      /\ task'.facts = task.facts
  BY NextProgramFields
<1>2. Ways' = Ways /\ \A k : Enabled(k)' = Enabled(k)
  BY <1>1, SameWays
<1>3. task.op # "rule_insert"
  BY <1>1 DEF Complete, AtLastProgram
<1>4. \A k : (Asserting(k) => Asserting(k)') /\ (Closed(k) => Closed(k)')
  BY <1>1, <1>2 DEF Asserting, Closed, Fed, IsFact
<1>5. \A k : (Fed(k, {}) => Fed(k, {})') /\ (Fed(k, task.facts) => Fed(k, task.facts)')
  BY <1>1, <1>2 DEF Fed
<1>6. \A k \in 1..Len(programs) : k < task.at + 1 => k < task.at \/ k = task.at
  BY <1>1, Pass
<1>7. ASSUME task.op \in FullOps PROVE Complete'
  <2>1. FullPass /\ Fed(task.at, {}) /\ Asserting(task.at)
    BY <1>1, <1>7, Pass DEF FullPass
  <2>2. FullPass'
    BY <1>1, <1>3, <1>4, <1>6, <2>1 DEF FullPass, Closed
  <2>3. QED
    BY <1>1, <1>3, <1>7, <2>2 DEF Complete, FullOps
<1>8. ASSUME task.op = "insert" PROVE Complete'
  <2>1. FactsPass /\ Fed(task.at, {}) /\ task.facts \subseteq present
    BY <1>1, <1>8, Pass DEF FactsPass
  <2>2. \A k \in 1..Len(programs) : k > task.at + 1 \/ k = task.at + 1 => k > task.at
    BY <1>1, Pass
  <2>3. FactsPass'
    BY <1>1, <1>3, <1>4, <1>5, <1>6, <2>1, <2>2 DEF FactsPass
  <2>4. QED
    BY <1>1, <1>8, <2>3 DEF Complete, FullOps
<1>9. Complete'
  BY <1>1, <1>7, <1>8, Pass
<1>10. Grounded'
  <2>1. present \subseteq Generated(ext, Ways)
    BY <1>1 DEF Grounded
  <2>2. QED
    BY <1>1, <1>2, <2>1, GroundedGrows
<1>11. QED
  BY <1>9, <1>10

-----------------------------------------------------------------------------
(* The ends of the passes                                                    *)

LEMMA DeletionDoneExact ==
    ASSUME ReasonerInv, ReasonerInv', Complete, Grounded, DeletionDone
    PROVE  Complete' /\ Grounded'
<1>1. AllClosed /\ present \subseteq Generated(ext, Ways)
  <2>1. ProgramDone /\ AtLastProgram
    BY DEF DeletionDone
  <2>2. QED
    BY <2>1, AllClosedAtEnd DEF Grounded, ProgramDone
<1>2. CASE task.inserts = {}
  <2>1. /\ UNCHANGED <<present, intensional, programs, disabled, derived_from>>
        /\ task' = NoTask
    BY <1>2 DEF DeletionDone, Done, store, reasoner
  <2>2. QED
    BY <1>1, <2>1, IdleExact
<1>3. CASE task.inserts # {}
  <2>1. apply_insertions(present, intensional, task)
    BY <1>3 DEF DeletionDone
  <2>2. PICK u : u = task
    OBVIOUS
  <2>3. PICK P : P = present
    OBVIOUS
  <2>4. QED
    BY <1>1, <2>1, <2>2, <2>3, ApplyInsertionsExact
<1>4. QED
  BY <1>2, <1>3

LEMMA InsertionDoneExact ==
    ASSUME Positive, ReasonerInv, Complete, Grounded, InsertionDone
    PROVE  Complete' /\ Grounded'
<1>1. AllClosed /\ present \subseteq Generated(ext, Ways)
  <2>1. ProgramDone /\ AtLastProgram
    BY DEF InsertionDone
  <2>2. QED
    BY <2>1, AllClosedAtEnd DEF Grounded, ProgramDone
<1>2. negation_invalidated_seeds(task.facts) = {}
  <2>1. \A i \in derived_from : i.neg = {}
    BY DEF ReasonerInv, Alive, Index, Derivations, Positive
  <2>2. QED
    BY <2>1 DEF negation_invalidated_seeds
<1>3. /\ UNCHANGED <<present, intensional, programs, disabled, derived_from>>
      /\ task' = NoTask
  BY <1>2 DEF InsertionDone, Done, store
<1>4. QED
  BY <1>1, <1>3, IdleExact

LEMMA RebuildDoneExact ==
    ASSUME ReasonerInv, Complete, Grounded, RebuildDone
    PROVE  Complete' /\ Grounded'
<1>1. AllClosed /\ present \subseteq Generated(ext, Ways)
  <2>1. ProgramDone /\ AtLastProgram
    BY DEF RebuildDone
  <2>2. QED
    BY <2>1, AllClosedAtEnd DEF Grounded, ProgramDone
<1>2. /\ UNCHANGED <<present, intensional, programs, disabled, derived_from>>
      /\ task' = NoTask
  BY DEF RebuildDone, Done, store
<1>3. QED
  BY <1>1, <1>2, IdleExact

\* A rebuild starts from the base facts; a ruleset that cannot be stratified leaves a
\* reasoner of which nothing is said.
LEMMA FullRebuildFields ==
    ASSUME ReasonerInv, NEW R, full_rebuild(R), Unharmed'
    PROVE  /\ present' = ext /\ intensional' = {}
           /\ \/ Strata(R) = << >> /\ task'.op = "none" /\ loaded' # TRUE
              \/ /\ Strata(R) # << >> /\ task'.op = "new" /\ task'.at = 1
                 /\ task'.started = FALSE /\ task'.mode = "full"
                 /\ programs' = Strata(R) /\ disabled' = {} /\ derived_from' = {}
<1>1. present' = ext /\ intensional' = {}
  BY DEF full_rebuild, SetStore
<1>2. CASE Strata(R) = << >>
  <2>1. task' = NoTask /\ outcome' = "ruleset_rejected"
    BY <1>2 DEF full_rebuild, Done
  <2>2. QED
    BY <1>1, <1>2, <2>1, NoTaskFields DEF Unharmed
<1>3. CASE Strata(R) # << >>
  <2>1. /\ task' = [NewTask EXCEPT !.op = "new", !.at = 1, !.old = reasoner]
        /\ programs' = Strata(R) /\ disabled' = {} /\ derived_from' = {}
    BY <1>3 DEF full_rebuild
  <2>2. task'.op = "new" /\ task'.at = 1 /\ task'.started = FALSE /\ task'.mode = "full"
    BY <2>1, NewTaskFields DEF Fields, ReasonerInv
  <2>3. QED
    BY <1>1, <1>3, <2>1, <2>2
<1>4. QED
  BY <1>2, <1>3

LEMMA FullRebuildExact ==
    ASSUME ReasonerInv, ReasonerInv', NEW R, full_rebuild(R), Unharmed'
    PROVE  Complete' /\ Grounded'
<1>1. intensional' = {}
  BY FullRebuildFields
<1>2. CASE task'.op = "none" /\ loaded' # TRUE
  BY <1>2, NothingSaid
<1>3. CASE task'.op = "new" /\ task'.at = 1 /\ task'.started = FALSE /\ task'.mode = "full"
  BY <1>1, <1>3, PassBegins, GroundedStripped DEF FullOps
<1>4. QED
  BY <1>2, <1>3, FullRebuildFields

-----------------------------------------------------------------------------
(* Adding rules                                                              *)

LEMMA NextRuleInsertionFields ==
    ASSUME ReasonerInv, NEW t, DOMAIN t = Fields, t.append \in Seq(SUBSET Rules),
           NextRuleInsertion(t)
    PROVE  \/ \E r \in t.reactivate, k \in 1..Len(programs) :
                  /\ disabled' = disabled \ {r} /\ UNCHANGED programs
                  /\ task'.op = t.op /\ task'.at = k /\ task'.started = FALSE
                  /\ task'.mode = "full" /\ task'.reactivate = t.reactivate \ {r}
                  /\ task'.append = t.append
           \/ /\ t.reactivate = {} /\ t.append # << >>
              /\ programs' = Append(programs, Head(t.append)) /\ UNCHANGED disabled
              /\ Len(programs') = Len(programs) + 1
              /\ \A k \in 1..Len(programs) : programs'[k] = programs[k]
              /\ programs'[Len(programs) + 1] = Head(t.append)
              /\ task'.op = t.op /\ task'.at = Len(programs) + 1 /\ task'.started = FALSE
              /\ task'.mode = "full" /\ task'.reactivate = {} /\ task'.append = Tail(t.append)
           \/ /\ t.reactivate = {} /\ t.append = << >> /\ task' = NoTask
              /\ UNCHANGED <<programs, disabled>>
<1>1. ASSUME NEW r \in t.reactivate, NEW k \in 1..Len(programs),
             task' = [t EXCEPT !.at = k, !.started = FALSE, !.mode = "full", !.facts = {},
                               !.reactivate = @ \ {r}, !.reactivated = @ \cup {r}]
      PROVE  /\ task'.op = t.op /\ task'.at = k /\ task'.started = FALSE
             /\ task'.mode = "full" /\ task'.reactivate = t.reactivate \ {r}
             /\ task'.append = t.append
  BY <1>1 DEF Fields
<1>2. ASSUME task' = [t EXCEPT !.at = Len(programs) + 1, !.started = FALSE, !.mode = "full",
                               !.append = Tail(@)]
      PROVE  /\ task'.op = t.op /\ task'.at = Len(programs) + 1 /\ task'.started = FALSE
             /\ task'.mode = "full" /\ task'.reactivate = t.reactivate
             /\ task'.append = Tail(t.append)
  BY <1>2 DEF Fields
<1>3. ASSUME t.append # << >>
      PROVE  LET a == Append(programs, Head(t.append))
             IN  /\ Len(a) = Len(programs) + 1
                 /\ \A k \in 1..Len(programs) : a[k] = programs[k]
                 /\ a[Len(programs) + 1] = Head(t.append)
  <2>1. programs \in Seq(SUBSET Rules) /\ Head(t.append) \in SUBSET Rules
    BY <1>3, HeadTailProperties DEF ReasonerInv, Alive, Index
  <2>2. PICK p \in SUBSET Rules : p = Head(t.append)
    BY <2>1
  <2>3. QED
    BY <2>1, <2>2, AppendProgram
<1>4. QED
  BY <1>1, <1>2, <1>3 DEF NextRuleInsertion, Done

\* The programs are closed when the next rule goes live: it is in the last program, or
\* becomes it.
LEMMA NextRuleInsertionExact ==
    ASSUME ReasonerInv, ReasonerInv', AllClosed, present \subseteq Generated(ext, Ways),
           Len(programs) <= 1 \/ disabled = {},
           NEW t, DOMAIN t = Fields, t.append \in Seq(SUBSET Rules), t.op = "rule_insert",
           t.reactivate \subseteq disabled,
           NextRuleInsertion(t), UNCHANGED <<present, intensional, loaded, derived_from>>
    PROVE  Complete' /\ Grounded'
<1>1. Len(programs) \in Nat
  BY LenProperties DEF ReasonerInv, Alive, Index
<1>2. ASSUME NEW r \in t.reactivate, NEW k \in 1..Len(programs),
             disabled' = disabled \ {r}, UNCHANGED programs,
             task'.op = t.op, task'.at = k, task'.started = FALSE,
             task'.mode = "full", task'.reactivate = t.reactivate \ {r}
      PROVE  Complete' /\ Grounded'
  <2>0. Len(programs) <= 1
    <3>1. r \in disabled
      OBVIOUS
    <3>2. QED
      BY <3>1
  <2>1. k = 1 /\ Len(programs) = 1
    <3>1. PICK n \in Nat : n = Len(programs)
      BY <1>1
    <3>2. k \in 1..n /\ n <= 1
      BY <2>0, <3>1
    <3>3. k = 1 /\ n = 1
      BY <3>2
    <3>4. QED
      BY <3>1, <3>3
  <2>2. FullPass'
    BY <1>2, <2>1 DEF FullPass
  <2>3. Complete'
    BY <1>2, <2>1, <2>2 DEF Complete, FullOps
  <2>4. Ways \subseteq Ways'
    BY <1>2 DEF Ways, active_rules, AllRules
  <2>5. QED
    BY <2>3, <2>4, GroundedGrows
<1>3. ASSUME UNCHANGED disabled, Len(programs') = Len(programs) + 1,
             \A k \in 1..Len(programs) : programs'[k] = programs[k],
             task'.op = t.op, task'.at = Len(programs) + 1, task'.started = FALSE,
             task'.mode = "full", task'.reactivate = {}
      PROVE  Complete' /\ Grounded'
  <2>1. ASSUME NEW k \in 1..Len(programs)
        PROVE  Closed(k)'
    <3>1. Enabled(k)' = Enabled(k)
      BY <1>3 DEF Enabled
    <3>2. Closed(k)
      BY DEF AllClosed
    <3>3. QED
      BY <3>1, <3>2 DEF Closed, Fed, Asserting, IsFact
  <2>2. \A k \in 1..Len(programs') : k < task'.at => k \in 1..Len(programs)
    BY <1>1, <1>3
  <2>3. FullPass'
    BY <1>3, <2>1, <2>2 DEF FullPass
  <2>4. Complete'
    BY <1>3, <2>3 DEF Complete, FullOps
  <2>5. Ways \subseteq Ways'
    <3>1. AllRules \subseteq AllRules'
      BY <1>1, <1>3 DEF AllRules
    <3>2. QED
      BY <1>3, <3>1 DEF Ways, active_rules
  <2>6. QED
    BY <2>4, <2>5, GroundedGrows
<1>4. ASSUME task' = NoTask, UNCHANGED <<programs, disabled>>
      PROVE  Complete' /\ Grounded'
  BY <1>4, IdleExact
<1>5. QED
  BY <1>2, <1>3, <1>4, NextRuleInsertionFields

\* What the call to apply_rule_insertions knows of the rules it adds.
LEMMA RuleInsertionsFields ==
    ASSUME ReasonerInv, NEW R, R \subseteq Rules, NEW added, added = R \ active_rules,
           apply_rule_insertions(added, R)
    PROVE  \/ full_rebuild(R)
           \/ \E t : /\ DOMAIN t = Fields /\ t.op = "rule_insert"
                     /\ t.reactivate = added \cap AllRules /\ t.reactivate \subseteq disabled
                     /\ t.append = Strata(added \ AllRules)
                     /\ t.append \in Seq(SUBSET Rules)
                     /\ \A r \in added, s \in active_rules : s # r => ~DependsOn(s, r)
                     /\ NextRuleInsertion(t)
                     /\ UNCHANGED <<present, intensional, loaded, derived_from>>
<1> DEFINE again == added \cap AllRules
           fresh == added \ AllRules
           t == [NewTask EXCEPT !.op = "rule_insert", !.mark = store, !.ruleset = R,
                                !.reactivate = again, !.append = Strata(fresh),
                                !.old = <<Len(programs)>>]
<1>1. CASE full_rebuild(R)
  BY <1>1
<1>2. CASE /\ \A r \in added, s \in active_rules \cup again : s # r => ~DependsOn(s, r)
           /\ NextRuleInsertion(t) /\ UNCHANGED <<store, loaded, derived_from>>
  <2>1. /\ DOMAIN t = Fields /\ t.op = "rule_insert" /\ t.reactivate = again
        /\ t.append = Strata(fresh)
    BY NewTaskFields DEF Fields, ReasonerInv
  <2>2. again \subseteq disabled /\ fresh \subseteq Rules
    BY DEF active_rules
  <2>3. Strata(fresh) \in Seq(SUBSET Rules)
    BY <2>2, StrataOf
  <2> HIDE DEF t, again, fresh
  <2>4. /\ \A r \in added, s \in active_rules : s # r => ~DependsOn(s, r)
        /\ UNCHANGED <<present, intensional, loaded, derived_from>>
    BY <1>2 DEF store
  <2>5. again = added \cap AllRules /\ fresh = added \ AllRules
    BY DEF again, fresh
  <2>6. QED
    BY <1>2, <2>1, <2>2, <2>3, <2>4, <2>5
<1>3. QED
  BY <1>1, <1>2 DEF apply_rule_insertions

LEMMA ApplyRuleInsertionsExact ==
    ASSUME ReasonerInv, ReasonerInv', AllClosed, present \subseteq Generated(ext, Ways),
           Len(programs) <= 1 \/ disabled = {},
           NEW R, R \subseteq Rules, NEW added, added = R \ active_rules,
           apply_rule_insertions(added, R), Unharmed'
    PROVE  Complete' /\ Grounded'
<1>1. CASE full_rebuild(R)
  BY <1>1, FullRebuildExact
<1>2. ASSUME NEW t, DOMAIN t = Fields, t.op = "rule_insert", t.reactivate \subseteq disabled,
             t.append \in Seq(SUBSET Rules), NextRuleInsertion(t),
             UNCHANGED <<present, intensional, loaded, derived_from>>
      PROVE  Complete' /\ Grounded'
  BY <1>2, NextRuleInsertionExact
<1>3. QED
  BY <1>1, <1>2, RuleInsertionsFields

LEMMA RuleDeletionDoneExact ==
    ASSUME ReasonerInv, ReasonerInv', Complete, Grounded, Settled, RuleDeletionDone, Unharmed'
    PROVE  Complete' /\ Grounded'
<1>1. AllClosed /\ present \subseteq Generated(ext, Ways)
  <2>1. ProgramDone /\ AtLastProgram
    BY DEF RuleDeletionDone
  <2>2. QED
    BY <2>1, AllClosedAtEnd DEF Grounded, ProgramDone
<1>2. CASE task.ruleset \subseteq active_rules
  <2>1. /\ UNCHANGED <<present, intensional, programs, disabled, derived_from>>
        /\ task' = NoTask
    BY <1>2 DEF RuleDeletionDone, Done, store, reasoner
  <2>2. QED
    BY <1>1, <2>1, IdleExact
<1>3. CASE ~(task.ruleset \subseteq active_rules)
  <2>1. PICK R : R = task.ruleset
    OBVIOUS
  <2>2. PICK added : added = R \ active_rules
    OBVIOUS
  <2>3. apply_rule_insertions(added, R)
    BY <1>3, <2>1, <2>2 DEF RuleDeletionDone
  <2>4. R \subseteq Rules
    BY <2>1 DEF ReasonerInv, Shape
  <2>5. Len(programs) <= 1 \/ disabled = {}
    BY DEF Settled
  <2>6. QED
    BY <1>1, <2>2, <2>3, <2>4, <2>5, ApplyRuleInsertionsExact
<1>4. QED
  BY <1>2, <1>3

LEMMA RuleInsertionDoneExact ==
    ASSUME ReasonerInv, ReasonerInv', Complete, Grounded, Settled, RuleInsertionDone
    PROVE  Complete' /\ Grounded'
<1>1. AllClosed /\ present \subseteq Generated(ext, Ways)
  <2>1. ProgramDone /\ AtLastProgram
    BY DEF RuleInsertionDone
  <2>2. QED
    BY <2>1, AllClosedAtEnd DEF Grounded, ProgramDone
<1>2. /\ NextRuleInsertion(task) /\ UNCHANGED <<present, intensional, loaded, derived_from>>
      /\ task.op = "rule_insert"
  BY DEF RuleInsertionDone, store
<1>3. /\ DOMAIN task = Fields /\ task.append \in Seq(SUBSET Rules)
      /\ task.reactivate \subseteq disabled
  BY <1>2 DEF ReasonerInv, Shape, Inserting, Adding, Complete
<1>4. Len(programs) <= 1 \/ disabled = {}
  BY DEF Settled
<1>5. PICK t : t = task
  OBVIOUS
<1>6. QED
  BY <1>1, <1>2, <1>3, <1>4, <1>5, NextRuleInsertionExact

-----------------------------------------------------------------------------
(* Retracting                                                                *)

\* What the backward phase finds is closed upwards.
LEMMA CascadeClosed ==
    ASSUME ReasonerInv, NEW seeds, NEW Keep
    PROVE  /\ seeds \cap Facts \subseteq Cascade(seeds, Keep)
           /\ Cascade(seeds, Keep) \subseteq Facts
           /\ \A i \in derived_from :
                  i.pos \cap Cascade(seeds, Keep) # {} /\ i.head \notin Keep
                      => i.head \in Cascade(seeds, Keep)
<1> DEFINE C == Cascade(seeds, Keep)
           Up(P) == \A i \in derived_from :
                        i.pos \cap P # {} /\ i.head \notin Keep => i.head \in P
<1>1. C = {f \in Facts : \A P \in SUBSET Facts : seeds \subseteq P /\ Up(P) => f \in P}
  BY DEF Cascade
<1>2. seeds \cap Facts \subseteq C /\ C \subseteq Facts
  BY <1>1
<1>3. ASSUME NEW i \in derived_from, i.pos \cap C # {}, i.head \notin Keep
      PROVE  i.head \in C
  <2>1. i.head \in Facts
    BY DEF ReasonerInv, Alive, Index, Derivations
  <2>2. ASSUME NEW P \in SUBSET Facts, seeds \subseteq P, Up(P)
        PROVE  i.head \in P
    <3>1. C \subseteq P
      BY <1>1, <2>2
    <3>2. i.pos \cap P # {}
      BY <1>3, <3>1
    <3>3. QED
      BY <1>3, <2>2, <3>2
  <2> HIDE DEF C, Up
  <2>3. QED
    BY <1>1, <2>1, <2>2
<1>4. QED
  BY <1>2, <1>3

\* What had a witness among the deleted quads goes, and so on upwards.
Gone(D, C, P, N) ==
    /\ present' = P \ C /\ intensional' = N \ C
    /\ derived_from' = {i \in derived_from : i.head \notin C}
    /\ \A i \in derived_from : i.pos \cap (D \cup C) # {} => i.head \in C

\* Or everything is derived anew.
LEMMA DeletionFields ==
    ASSUME ReasonerInv, NEW P, NEW N, NEW u, u.deletes \subseteq present,
           apply_deletions(P, N, u)
    PROVE  /\ UNCHANGED <<loaded, programs, disabled, outcome>>
           /\ task'.at = 1 /\ task'.started = FALSE /\ task'.mode = "full"
           /\ \/ task'.op = "rematerialise" /\ intensional' = {} /\ derived_from' = derived_from
              \/ task'.op = "delete" /\ \E C \in SUBSET Facts : Gone(u.deletes, C, P, N)
<1> DEFINE pd == backward_phase(u.deletes)
           t == [NewTask EXCEPT !.at = 1, !.deletes = u.deletes, !.inserts = u.inserts]
           gone == {i \in derived_from : i.head \in pd}
<1>1. /\ full_rematerialise(P, N, t) \/ forward_phase(P, N, pd, t)
      /\ UNCHANGED <<loaded, programs, disabled, marks, outcome>>
  BY DEF apply_deletions
<1>2. DOMAIN t = Fields /\ t.at = 1 /\ t.started = FALSE /\ t.mode = "full"
  BY NewTaskFields DEF Fields, ReasonerInv
<1>3. /\ pd \subseteq Facts
      /\ \A i \in derived_from : i.pos \cap (u.deletes \cup pd) # {} => i.head \in pd
  <2> DEFINE S == Heads({i \in derived_from : i.pos \cap u.deletes # {}})
  <2>1. \A i \in derived_from : i.head \in Facts
    BY DEF ReasonerInv, Alive, Index, Derivations
  <2>2. \A i \in derived_from : i.pos \cap u.deletes # {} => i.head \in S \cap Facts
    BY <2>1 DEF Heads
  <2>3. pd = Cascade(S, {})
    BY DEF backward_phase
  <2> HIDE DEF S, pd
  <2>4. /\ S \cap Facts \subseteq pd /\ pd \subseteq Facts
        /\ \A i \in derived_from : i.pos \cap pd # {} => i.head \in pd
    BY <2>3, CascadeClosed
  <2>5. QED
    BY <2>2, <2>4
<1> HIDE DEF pd, t
<1>4. CASE full_rematerialise(P, N, t)
  <2>1. /\ intensional' = {} /\ derived_from' = derived_from
        /\ task' = [t EXCEPT !.op = "rematerialise"]
    BY <1>4 DEF full_rematerialise, SetStore
  <2>2. /\ task'.op = "rematerialise" /\ task'.at = 1 /\ task'.started = FALSE
        /\ task'.mode = "full"
    BY <1>2, <2>1 DEF Fields
  <2>3. QED
    BY <1>1, <2>1, <2>2
<1>5. CASE forward_phase(P, N, pd, t)
  <2>1. /\ present' = P \ pd /\ intensional' = N \ pd /\ derived_from' = derived_from \ gone
        /\ task' = [t EXCEPT !.op = "delete", !.pd = pd, !.removed = gone,
                             !.mark = <<P \ pd, N \ pd>>]
    BY <1>5 DEF forward_phase, SetStore
  <2>2. derived_from' = {i \in derived_from : i.head \notin pd}
    BY <2>1
  <2> HIDE DEF gone
  <2>3. /\ task'.op = "delete" /\ task'.at = 1 /\ task'.started = FALSE /\ task'.mode = "full"
    BY <1>2, <2>1 DEF Fields
  <2>4. Gone(u.deletes, pd, P, N)
    BY <1>3, <2>1, <2>2 DEF Gone
  <2>5. QED
    BY <1>1, <1>3, <2>3, <2>4
<1>6. QED
  BY <1>1, <1>4, <1>5

\* A closed store has every instance whose body holds on record.
LEMMA AllRecorded ==
    ASSUME ReasonerInv, AllClosed
    PROVE  \A i \in Ways : i.pos \subseteq present => i \in derived_from /\ i.head \in present
<1> SUFFICES ASSUME NEW i \in Ways, i.pos \subseteq present
             PROVE  i \in derived_from /\ i.head \in present
  OBVIOUS
<1>1. PICK k \in 1..Len(programs) : i.rule \in Enabled(k)
  BY DEF Ways, active_rules, AllRules, Enabled
<1>2. QED
  BY <1>1 DEF Ways, AllClosed, Closed, Fed

LEMMA ApplyDeletionsExact ==
    ASSUME ReasonerInv, ReasonerInv', AllClosed, present \subseteq Generated(ext, Ways),
           NEW u, u.deletes \subseteq present, NEW P, NEW N,
           P = (present \ u.deletes) \cup u.inserts, N = intensional \ u.deletes,
           apply_deletions(P, N, u)
    PROVE  Complete' /\ Grounded'
<1>1. /\ UNCHANGED <<programs, disabled>>
      /\ task'.at = 1 /\ task'.started = FALSE /\ task'.mode = "full"
      /\ task'.op \in {"rematerialise", "delete"}
  BY DeletionFields
<1>2. Complete'
  BY <1>1, PassBegins DEF FullOps
<1>3. CASE intensional' = {}
  BY <1>2, <1>3, GroundedStripped
<1>4. ASSUME NEW C \in SUBSET Facts, Gone(u.deletes, C, P, N)
      PROVE  Grounded'
  <2> DEFINE G == Generated(ext', Ways)
             T == (G \cup u.deletes \cup C) \cap present
  <2>0. /\ present' = P \ C /\ intensional' = N \ C
        /\ \A i \in derived_from : i.pos \cap (u.deletes \cup C) # {} => i.head \in C
    BY <1>4 DEF Gone
  <2>1. /\ present \subseteq Facts /\ intensional \subseteq present /\ present' \subseteq Facts
        /\ ext = present \ intensional /\ ext' = present' \ intensional'
    BY DEF ReasonerInv, Alive, Stored, ext
  <2>2. ext' \subseteq Facts
    BY <2>1
  <2>3. /\ ext' \subseteq G
        /\ \A i \in Ways : i.pos \subseteq G /\ i.head \in Facts => i.head \in G
    BY <2>2, GeneratedClosed
  <2> HIDE DEF G
  <2>4. ext \subseteq T
    <3>1. \A f \in ext : f \notin u.deletes /\ f \notin C => f \in ext'
      BY <2>0, <2>1
    <3>2. QED
      BY <2>1, <2>3, <3>1
  <2>5. ASSUME NEW i \in Ways, i.pos \subseteq T
        PROVE  i.head \in T
    <3>1. i \in derived_from /\ i.head \in present /\ i.head \in Facts
      BY <2>1, <2>5, AllRecorded
    <3>2. CASE i.pos \cap (u.deletes \cup C) # {}
      BY <2>0, <3>1, <3>2
    <3>3. CASE i.pos \cap (u.deletes \cup C) = {}
      <4>1. i.pos \subseteq G
        BY <2>5, <3>3
      <4>2. QED
        BY <2>3, <3>1, <4>1
    <3>4. QED
      BY <3>2, <3>3
  <2>6. T \subseteq Facts
    BY <2>1
  <2> HIDE DEF T
  <2>7. Generated(ext, Ways) \subseteq T
    BY <2>4, <2>5, <2>6, GeneratedLeast
  <2>8. \A f \in present : f \in u.deletes \/ f \in C \/ f \in G
    BY <2>7 DEF T
  <2>9. present' \subseteq G
    <3> SUFFICES ASSUME NEW f \in present' PROVE f \in G
      OBVIOUS
    <3>1. CASE f \in present /\ f \notin u.deletes
      BY <2>0, <2>8, <3>1
    <3>2. CASE f \notin present \/ f \in u.deletes
      <4>1. f \notin N
        BY <2>1, <3>2
      <4>2. QED
        BY <2>0, <2>1, <2>3, <4>1
    <3>3. QED
      BY <3>1, <3>2
  <2>10. Generated(ext, Ways)' = G
    BY <1>1, SameWays DEF G, Generated
  <2>11. QED
    BY <2>9, <2>10 DEF Grounded
<1>5. intensional' = {} \/ \E C \in SUBSET Facts : Gone(u.deletes, C, P, N)
  BY DeletionFields
<1>6. QED
  BY <1>2, <1>3, <1>4, <1>5

\* The same when rules go; asserted quads stay.
GoneWith(targets, C) ==
    /\ present' = present \ C /\ intensional' = intensional \ C
    /\ C \cap ext = {}
    /\ \A i \in derived_from :
          i.rule \in targets \/ i.pos \cap C # {} => i.head \in C \cup ext

LEMMA RuleDeletionFields ==
    ASSUME ReasonerInv, NEW targets, NEW R, apply_rule_deletions(targets, R)
    PROVE  /\ UNCHANGED <<loaded, programs, outcome>> /\ disabled' = disabled \cup targets
           /\ task'.at = 1 /\ task'.started = FALSE /\ task'.mode = "full"
           /\ task'.op \in {"rule_rematerialise", "rule_delete"}
           /\ intensional' = {} \/ \E C \in SUBSET Facts : GoneWith(targets, C)
<1> DEFINE pd == backward_phase_from_rule_removal(targets)
           t == [NewTask EXCEPT !.at = 1, !.targets = targets, !.ruleset = R]
           gone == {i \in derived_from : i.head \in pd}
<1>1. /\ full_rematerialise_rules(t) \/ forward_phase_rules(pd, t)
      /\ UNCHANGED <<loaded, programs, outcome>> /\ disabled' = disabled \cup targets
  BY DEF apply_rule_deletions
<1>2. DOMAIN t = Fields /\ t.at = 1 /\ t.started = FALSE /\ t.mode = "full"
  BY NewTaskFields DEF Fields, ReasonerInv
<1>3. /\ pd \subseteq Facts /\ pd \cap ext = {}
      /\ \A i \in derived_from :
             i.rule \in targets \/ i.pos \cap pd # {} => i.head \in pd \cup ext
  <2> DEFINE S == Heads({i \in derived_from : i.rule \in targets}) \ ext
  <2>1. derived_from \subseteq Derivations(programs) /\ \A i \in derived_from : i.head \in Facts
    BY DEF ReasonerInv, Alive, Index, Derivations
  <2>2. /\ \A i \in derived_from : i.rule \in targets => i.head \in (S \cap Facts) \cup ext
        /\ S \subseteq Heads(derived_from) /\ S \cap ext = {}
    BY <2>1 DEF Heads
  <2>3. pd = Cascade(S, ext)
    BY DEF backward_phase_from_rule_removal
  <2> HIDE DEF S, pd
  <2>4. /\ S \cap Facts \subseteq pd /\ pd \subseteq Facts
        /\ \A i \in derived_from : i.pos \cap pd # {} /\ i.head \notin ext => i.head \in pd
    BY <2>3, CascadeClosed
  <2>5. pd \cap ext = {}
    BY <2>1, <2>2, <2>3, CascadeBound
  <2>6. QED
    BY <2>2, <2>4, <2>5
<1> HIDE DEF pd, t
<1>4. CASE full_rematerialise_rules(t)
  <2>1. /\ intensional' = {}
        /\ task' = [t EXCEPT !.op = "rule_rematerialise", !.mark = store,
                             !.old = <<derived_from, marks>>]
    BY <1>4 DEF full_rematerialise_rules, SetStore
  <2>2. /\ task'.op = "rule_rematerialise" /\ task'.at = 1 /\ task'.started = FALSE
        /\ task'.mode = "full"
    BY <1>2, <2>1 DEF Fields
  <2>3. QED
    BY <1>1, <2>1, <2>2
<1>5. CASE forward_phase_rules(pd, t)
  <2>1. /\ present' = present \ pd /\ intensional' = intensional \ pd
        /\ task' = [t EXCEPT !.op = "rule_delete", !.pd = pd, !.removed = gone,
                             !.mark = <<present \ pd, intensional \ pd>>]
    BY <1>5 DEF forward_phase_rules, SetStore
  <2> HIDE DEF gone
  <2>2. /\ task'.op = "rule_delete" /\ task'.at = 1 /\ task'.started = FALSE
        /\ task'.mode = "full"
    BY <1>2, <2>1 DEF Fields
  <2>3. GoneWith(targets, pd)
    BY <1>3, <2>1 DEF GoneWith
  <2>4. QED
    BY <1>1, <1>3, <2>2, <2>3
<1>6. QED
  BY <1>1, <1>4, <1>5

LEMMA ApplyRuleDeletionsExact ==
    ASSUME ReasonerInv, ReasonerInv', AllClosed, present \subseteq Generated(ext, Ways),
           NEW targets, NEW R, apply_rule_deletions(targets, R)
    PROVE  Complete' /\ Grounded'
<1>1. /\ UNCHANGED programs /\ disabled' = disabled \cup targets
      /\ task'.at = 1 /\ task'.started = FALSE /\ task'.mode = "full"
      /\ task'.op \in {"rule_rematerialise", "rule_delete"}
  BY RuleDeletionFields
<1>2. Complete'
  BY <1>1, PassBegins DEF FullOps
<1>3. CASE intensional' = {}
  BY <1>2, <1>3, GroundedStripped
<1>4. ASSUME NEW C \in SUBSET Facts, GoneWith(targets, C)
      PROVE  Grounded'
  <2> DEFINE G == Generated(ext', Ways')
             T == (G \cup C) \cap present
  <2>0. /\ present' = present \ C /\ intensional' = intensional \ C /\ C \cap ext = {}
        /\ \A i \in derived_from :
              i.rule \in targets \/ i.pos \cap C # {} => i.head \in C \cup ext
    BY <1>4 DEF GoneWith
  <2>1. /\ present \subseteq Facts /\ ext' = ext /\ ext \subseteq present
    BY <2>0 DEF ReasonerInv, Alive, Stored, ext
  <2>2. /\ ext' \subseteq G
        /\ \A i \in Ways' : i.pos \subseteq G /\ i.head \in Facts => i.head \in G
    <3>1. ext' \subseteq Facts
      BY <2>1
    <3>2. QED
      BY <3>1, GeneratedClosed
  <2> HIDE DEF G
  <2>3. \A i \in Ways : i.rule \in targets \/ i \in Ways'
    BY <1>1 DEF Ways, active_rules, AllRules
  <2>4. ASSUME NEW i \in Ways, i.pos \subseteq T
        PROVE  i.head \in T
    <3>1. i \in derived_from /\ i.head \in present /\ i.head \in Facts
      BY <2>1, <2>4, AllRecorded
    <3>2. CASE i.rule \in targets \/ i.pos \cap C # {}
      BY <2>0, <2>1, <2>2, <3>1, <3>2
    <3>3. CASE ~(i.rule \in targets \/ i.pos \cap C # {})
      <4>1. i.pos \subseteq G
        BY <2>4, <3>3
      <4>2. QED
        BY <2>2, <2>3, <3>1, <3>3, <4>1
    <3>4. QED
      BY <3>2, <3>3
  <2>5. T \subseteq Facts /\ ext \subseteq T
    BY <2>1, <2>2
  <2> HIDE DEF T
  <2>6. Generated(ext, Ways) \subseteq T
    BY <2>4, <2>5, GeneratedLeast
  <2>7. present' \subseteq G
    BY <2>0, <2>6 DEF T
  <2>8. Generated(ext, Ways)' = G
    BY DEF G, Generated
  <2>9. QED
    BY <2>7, <2>8 DEF Grounded
<1>5. intensional' = {} \/ \E C \in SUBSET Facts : GoneWith(targets, C)
  BY RuleDeletionFields
<1>6. QED
  BY <1>2, <1>3, <1>4, <1>5

-----------------------------------------------------------------------------
(* The clients' calls, and failures                                          *)

LEMMA UpdateExact ==
    ASSUME ReasonerInv, ReasonerInv', Complete, Grounded, Unharmed',
           NEW u \in Updates, apply_prepared_update(u)
    PROVE  Complete' /\ Grounded'
<1> DEFINE P == (present \ u.deletes) \cup u.inserts
           N == intensional \ u.deletes
<1>1. task.op = "none" /\ u.deletes \subseteq present /\ loaded \in BOOLEAN
  BY DEF apply_prepared_update, ReasonerInv, Alive
<1>2. loaded => AllClosed /\ present \subseteq Generated(ext, Ways)
  BY <1>1 DEF Complete, Grounded
<1>3. CASE ~loaded
  <2>1. task' = NoTask /\ loaded' = loaded
    BY <1>3 DEF apply_prepared_update, Done, reasoner
  <2>2. QED
    BY <1>3, <2>1, NoTaskFields, NothingSaid
<1>4. CASE loaded /\ u.deletes # {}
  <2>1. apply_deletions(P, N, u)
    BY <1>4 DEF apply_prepared_update
  <2>2. PICK D : D = P
    OBVIOUS
  <2>3. PICK M : M = N
    OBVIOUS
  <2>4. QED
    BY <1>1, <1>2, <1>4, <2>1, <2>2, <2>3, ApplyDeletionsExact
<1>5. CASE loaded /\ u.deletes = {}
  <2>1. apply_insertions(P, N, u)
    BY <1>5 DEF apply_prepared_update
  <2>2. P = present \cup u.inserts /\ N = intensional
    BY <1>5
  <2>3. PICK D : D = P
    OBVIOUS
  <2>4. apply_insertions(D, intensional, u) /\ present \subseteq D /\ D \subseteq present \cup u.inserts
    BY <2>1, <2>2, <2>3
  <2>5. QED
    BY <1>2, <1>5, <2>4, ApplyInsertionsExact
<1>6. QED
  BY <1>3, <1>4, <1>5

LEMMA RulesetExact ==
    ASSUME ReasonerInv, ReasonerInv', Complete, Grounded, Settled, Unharmed',
           NEW R \in Rulesets, apply_combined_ruleset(R)
    PROVE  Complete' /\ Grounded'
<1> DEFINE removed == active_rules \ R
           added == R \ active_rules
<1>1. task.op = "none" /\ R \subseteq Rules /\ loaded \in BOOLEAN
  BY RulesetsAssumption DEF apply_combined_ruleset, ReasonerInv, Alive
<1>2. loaded => AllClosed /\ present \subseteq Generated(ext, Ways)
  BY <1>1 DEF Complete, Grounded
<1>3. CASE R = {}
  <2>1. task' = NoTask /\ loaded' = FALSE
    BY <1>3 DEF apply_combined_ruleset, Done
  <2>2. QED
    BY <2>1, NoTaskFields, NothingSaid
<1>4. CASE R # {} /\ ~loaded
  BY <1>4, FullRebuildExact DEF apply_combined_ruleset
<1>5. CASE R # {} /\ loaded /\ removed # {}
  <2>1. apply_rule_deletions(removed, R)
    BY <1>5 DEF apply_combined_ruleset
  <2>2. PICK targets : targets = removed
    OBVIOUS
  <2>3. QED
    BY <1>2, <1>5, <2>1, <2>2, ApplyRuleDeletionsExact
<1>6. CASE R # {} /\ loaded /\ removed = {} /\ added # {}
  <2>1. apply_rule_insertions(added, R)
    BY <1>6 DEF apply_combined_ruleset
  <2>2. PICK more : more = added
    OBVIOUS
  <2>3. Len(programs) <= 1 \/ disabled = {}
    BY DEF Settled
  <2>4. QED
    BY <1>1, <1>2, <1>6, <2>1, <2>2, <2>3, ApplyRuleInsertionsExact
<1>7. CASE R # {} /\ loaded /\ removed = {} /\ added = {}
  <2>1. /\ task' = NoTask
        /\ UNCHANGED <<present, intensional, programs, disabled, derived_from>>
    BY <1>7 DEF apply_combined_ruleset, Done, store, reasoner
  <2>2. QED
    BY <1>2, <1>7, <2>1, IdleExact
<1>8. QED
  BY <1>3, <1>4, <1>5, <1>6, <1>7

LEMMA FailureExact ==
    ASSUME ReasonerInv, UpdateFails \/ RulesetFails
    PROVE  task'.op = "recover" /\ Complete' /\ Grounded'
<1>1. task' = [task EXCEPT !.op = "recover", !.from = task.op] /\ DOMAIN task = Fields
  BY DEF UpdateFails, RulesetFails, ToRecovery, ReasonerInv, Shape
<1>2. task'.op = "recover"
  BY <1>1 DEF Fields
<1>3. QED
  BY <1>2, NothingSaid

LEMMA RecoverUpdateFields ==
    ASSUME ReasonerInv, RecoverUpdate
    PROVE  /\ intensional' = {} /\ derived_from' = {}
           /\ UNCHANGED <<loaded, programs, disabled>>
           /\ task'.op = "rebuild" /\ task'.at = 1 /\ task'.started = FALSE /\ task'.mode = "full"
<1>1. /\ intensional' = {} /\ derived_from' = {}
      /\ UNCHANGED <<loaded, programs, disabled>>
      /\ task' = [NewTask EXCEPT !.op = "rebuild", !.at = 1]
  BY DEF RecoverUpdate, rebuild_from_base, SetStore
<1>2. QED
  BY <1>1, NewTaskFields DEF Fields, ReasonerInv

\* After a failed rebuild nothing is said either.
LEMMA RebuildFailsUnsaid ==
    ASSUME RebuildFails, Unharmed'
    PROVE  task'.op = "none" /\ loaded' # TRUE
BY NoTaskFields DEF RebuildFails, Done, Unharmed

LEMMA StepExact ==
    ASSUME Positive, ReasonerInv, ReasonerInv', Complete, Grounded, Settled, Unharmed', Next
    PROVE  Complete' /\ Grounded'
<1>1. ASSUME NEW u \in Updates, apply_prepared_update(u)
      PROVE  Complete' /\ Grounded'
  BY <1>1, UpdateExact
<1>2. ASSUME NEW R \in Rulesets, apply_combined_ruleset(R)
      PROVE  Complete' /\ Grounded'
  BY <1>2, RulesetExact
<1>3. CASE StartProgram
  BY <1>3, StartProgramExact
<1>4. CASE Round
  BY <1>4, RoundExact
<1>5. CASE NextProgram
  BY <1>5, NextProgramExact
<1>6. CASE DeletionDone
  BY <1>6, DeletionDoneExact
<1>7. CASE InsertionDone
  BY <1>7, InsertionDoneExact
<1>8. CASE RuleDeletionDone
  BY <1>8, RuleDeletionDoneExact
<1>9. CASE RuleInsertionDone
  BY <1>9, RuleInsertionDoneExact
<1>10. CASE RebuildDone
  BY <1>10, RebuildDoneExact
<1>11. CASE UpdateFails \/ RulesetFails
  BY <1>11, FailureExact
<1>12. CASE RecoverUpdate
  BY <1>12, RecoverUpdateFields, PassBegins, GroundedStripped DEF FullOps
<1>13. CASE RecoverRuleset
  <2>1. PICK R : R = task.ruleset
    OBVIOUS
  <2>2. full_rebuild(R)
    BY <1>13, <2>1 DEF RecoverRuleset
  <2>3. QED
    BY <2>2, FullRebuildExact
<1>14. CASE RebuildFails
  BY <1>14, RebuildFailsUnsaid, NothingSaid
<1>15. QED
  BY <1>1, <1>2, <1>3, <1>4, <1>5, <1>6, <1>7, <1>8, <1>9, <1>10, <1>11, <1>12, <1>13, <1>14
     DEF Next, Step

LEMMA StutterExact ==
    ASSUME Complete, Grounded, UNCHANGED vars
    PROVE  Complete' /\ Grounded'
<1>1. UNCHANGED <<present, intensional, loaded, programs, disabled, derived_from, task>>
  BY DEF vars
<1>2. ext' = ext /\ Ways' = Ways /\ \A k : Enabled(k)' = Enabled(k)
  BY <1>1, SameWays DEF ext
<1>3. /\ AllClosed' = AllClosed /\ FullPass' = FullPass /\ FactsPass' = FactsPass
      /\ Running' = Running
  BY <1>1, <1>2 DEF AllClosed, Closed, Fed, Asserting, FullPass, FactsPass, IsFact, Running
<1>4. Generated(ext, Ways)' = Generated(ext, Ways)
  BY <1>2 DEF Generated
<1>5. QED
  BY <1>1, <1>3, <1>4 DEF Complete, Grounded, FullOps

LEMMA InitExact == Init => Complete /\ Grounded
<1>1. SUFFICES ASSUME Init PROVE Complete /\ Grounded
  OBVIOUS
<1>2. task.op = "none" /\ loaded # TRUE
  BY <1>1, NoTaskFields DEF Init
<1>3. QED
  BY <1>2 DEF Complete, Grounded, FullOps, Running

-----------------------------------------------------------------------------
(* What it comes to                                                          *)

LEMMA CompleteMeans ==
    ASSUME Positive, ReasonerInv, Complete
    PROVE  IndexComplete
<1> SUFFICES ASSUME Idle, loaded, NEW i \in Instances, i.rule \in active_rules, Holds(i),
                    i.pos # {}
             PROVE  i \in derived_from
  BY DEF IndexComplete
<1>1. AllClosed
  BY DEF Complete, Idle, ReasonerInv, Alive
<1>2. PICK k \in 1..Len(programs) : i.rule \in Enabled(k)
  BY DEF active_rules, AllRules, Enabled
<1>3. QED
  BY <1>1, <1>2 DEF AllClosed, Closed, Fed, Holds

\* The perfect model of a program without strata.
LEMMA PerfectModelOfOne ==
    ASSUME FastPath, NEW B, NEW R, R \subseteq Rules
    PROVE  PerfectModel(B, R) =
              IF R = {} THEN B
              ELSE Least(B, {i \in Instances : i.rule \in R /\ i.head # Contradiction}, B)
<1> DEFINE s == Strata(R)
           Of(k) == {i \in Instances : i.rule \in s[k] /\ i.head # Contradiction}
           F(m) == [k \in 0..Len(s) |-> IF k = 0 THEN B
                                        ELSE Least(m[k - 1], Of(k), m[k - 1])]
           W == [k \in 0..Len(s) |-> IF k = 0 THEN B ELSE Least(B, Of(1), B)]
           M == CHOOSE m : m = F(m)
<1>1. s = IF R = {} THEN << >> ELSE <<R>>
  BY DEF FastPath
<1>2. Len(s) = (IF R = {} THEN 0 ELSE 1) /\ (R # {} => s[1] = R)
  BY <1>1
<1>3. PerfectModel(B, R) = M[Len(s)]
  BY DEF PerfectModel
<1>4. W = F(W)
  <2> HIDE DEF s, Of
  <2>1. \A k \in 0..Len(s) : k = 0 \/ k = 1
    BY <1>2
  <2>2. W[0] = B
    BY <1>2
  <2>3. \A k \in 0..Len(s) : W[k] = F(W)[k]
    BY <2>1, <2>2
  <2>4. QED
    BY <2>3
<1>5. M = F(M)
  <2> HIDE DEF W, F
  <2>1. QED
    BY <1>4
<1>6. M[0] = B
  <2> HIDE DEF M
  <2>1. QED
    BY <1>2, <1>5
<1>7. R # {} => M[1] = Least(B, Of(1), B)
  <2> HIDE DEF M, Of, s
  <2>1. QED
    BY <1>2, <1>5, <1>6
<1>8. QED
  <2> HIDE DEF M, s
  <2>1. R # {} => Of(1) = {i \in Instances : i.rule \in R /\ i.head # Contradiction}
    BY <1>2
  <2> HIDE DEF Of
  <2>2. QED
    BY <1>2, <1>3, <1>6, <1>7, <2>1

LEMMA GroundedMeans ==
    ASSUME Positive, FastPath, ReasonerInv, Complete, Grounded
    PROVE  ClosureExact
<1> SUFFICES ASSUME Idle, loaded
             PROVE  present = PerfectModel(ext, active_rules)
  BY DEF ClosureExact
<1> DEFINE I == {i \in Instances : i.rule \in active_rules /\ i.head # Contradiction}
<1>1. AllClosed /\ present \subseteq Generated(ext, Ways)
  BY DEF Complete, Grounded, Idle, ReasonerInv, Alive
<1>2. /\ present \subseteq Facts /\ ext \subseteq present /\ active_rules \subseteq Rules
      /\ \A i \in Instances : i.neg = {} /\ i.head \in Facts \cup {Contradiction}
  <2>1. present \subseteq Facts /\ ext \subseteq present
    BY DEF ReasonerInv, Alive, Stored, ext
  <2>2. \A k \in 1..Len(programs) : programs[k] \subseteq Rules
    BY ElementOfSeq DEF ReasonerInv, Alive, Index
  <2>3. QED
    BY <2>1, <2>2, InstancesAssumption DEF active_rules, AllRules, Positive
<1>3. CASE active_rules = {}
  <2>1. Ways = {}
    BY <1>3 DEF Ways
  <2>2. Generated(ext, Ways) \subseteq ext
    BY <1>2, <2>1, GeneratedLeast
  <2>3. PerfectModel(ext, active_rules) = ext
    BY <1>2, <1>3, PerfectModelOfOne
  <2>4. QED
    BY <1>1, <1>2, <2>2, <2>3
<1>4. CASE active_rules # {}
  <2>1. PerfectModel(ext, active_rules) = Least(ext, I, ext)
    BY <1>2, <1>4, PerfectModelOfOne
  <2>2. Generated(ext, Ways) \subseteq Least(ext, I, ext)
    <3>1. Ways \subseteq I
      BY ContradictionAssumption DEF Ways
    <3>2. \A i \in I : i.neg = {}
      BY <1>2
    <3> HIDE DEF I
    <3>3. QED
      BY <3>1, <3>2 DEF Generated, Least
  <2>3. Least(ext, I, ext) \subseteq present
    <3>1. ASSUME NEW i \in I, i.pos \subseteq present
          PROVE  i.head \in present
      <4>1. PICK k \in 1..Len(programs) : i.rule \in Enabled(k)
        BY DEF active_rules, AllRules, Enabled
      <4>2. Closed(k)
        BY <1>1 DEF AllClosed
      <4>3. CASE i.pos = {}
        BY <1>2, <4>1, <4>2, <4>3 DEF Closed, Asserting, IsFact
      <4>4. CASE i.pos # {}
        BY <3>1, <4>1, <4>2, <4>4 DEF Closed, Fed
      <4>5. QED
        BY <4>3, <4>4
    <3> HIDE DEF I
    <3>2. QED
      BY <1>2, <3>1 DEF Least
  <2>4. QED
    BY <1>1, <2>1, <2>2, <2>3
<1>5. QED
  BY <1>3, <1>4

-----------------------------------------------------------------------------
(* Rules that are only added                                                 *)

LEMMA StartProgramLayered ==
    ASSUME ReasonerInv, Layered, StartProgram
    PROVE  Layered'
<1>1. /\ Running /\ Running' /\ present \subseteq present'
      /\ UNCHANGED <<programs, disabled>> /\ derived_from' \subseteq derived_from
      /\ task.op \in {"rematerialise", "rule_rematerialise"}
             => \A i \in derived_from' : i.rule \notin programs[task.at]
      /\ task'.op = task.op /\ task'.at = task.at /\ task'.append = task.append
  BY StartProgramFields
<1>2. Apart /\ Support
  BY <1>1 DEF Layered, Running
<1>3. ASSUME NEW i \in derived_from, Supported(i)
      PROVE  Supported(i)'
  BY <1>1, <1>3 DEF Supported
<1>4. ASSUME NEW i \in derived_from', task.op = "rematerialise", NEW k \in 1..Len(programs),
             i.rule \in programs[k], k < task.at \/ k = task.at
      PROVE  Supported(i)'
  <2>1. k < task.at
    BY <1>1, <1>4
  <2>2. QED
    BY <1>1, <1>2, <1>3, <1>4, <2>1 DEF Support
<1>5. Support'
  <2> SUFFICES ASSUME NEW i \in derived_from'
               PROVE  /\ i.pos # {}
                      /\ task'.op \in {"none", "insert", "new", "rebuild", "rule_insert"}
                             => Supported(i)'
                      /\ task'.op = "delete" => i.pos \subseteq present'
                      /\ task'.op = "rematerialise" =>
                            \A k \in 1..Len(programs') :
                                i.rule \in programs'[k]
                                    /\ (k < task'.at \/ (k = task'.at /\ task'.started))
                                        => Supported(i)'
    BY DEF Support
  <2>1. i \in derived_from
    BY <1>1
  <2>2. /\ i.pos # {}
        /\ task.op \in {"none", "insert", "new", "rebuild", "rule_insert"} => Supported(i)
        /\ task.op = "delete" => i.pos \subseteq present
    BY <1>2, <2>1 DEF Support
  <2>3. QED
    BY <1>1, <1>3, <1>4, <2>1, <2>2
<1>6. QED
  BY <1>1, <1>2, <1>5 DEF Layered, Apart

LEMMA RoundLayered ==
    ASSUME Positive, ReasonerInv, Layered, Round
    PROVE  Layered'
<1>1. /\ Running /\ Running' /\ Contradiction \notin Heads(Fired)
      /\ present' = present \cup Heads(Fired) /\ derived_from' = derived_from \cup Fired
      /\ UNCHANGED <<programs, disabled>>
      /\ task'.op = task.op /\ task'.at = task.at /\ task'.append = task.append
      /\ task'.started = task.started
  BY RoundFields
<1>2. Apart /\ Support
  BY <1>1 DEF Layered, Running
<1>3. ASSUME NEW i \in derived_from, Supported(i)
      PROVE  Supported(i)'
  BY <1>1, <1>3 DEF Supported
<1>4. ASSUME NEW i \in Fired
      PROVE  Supported(i)' /\ i.pos # {} /\ i.pos \subseteq present'
  BY <1>1, FiredInstances DEF Supported
<1>5. Support'
  <2> SUFFICES ASSUME NEW i \in derived_from'
               PROVE  /\ i.pos # {}
                      /\ task'.op \in {"none", "insert", "new", "rebuild", "rule_insert"}
                             => Supported(i)'
                      /\ task'.op = "delete" => i.pos \subseteq present'
                      /\ task'.op = "rematerialise" =>
                            \A k \in 1..Len(programs') :
                                i.rule \in programs'[k]
                                    /\ (k < task'.at \/ (k = task'.at /\ task'.started))
                                        => Supported(i)'
    BY DEF Support
  <2>1. CASE i \in Fired
    BY <1>4, <2>1
  <2>2. CASE i \in derived_from
    <3>1. /\ i.pos # {}
          /\ task.op \in {"none", "insert", "new", "rebuild", "rule_insert"} => Supported(i)
          /\ task.op = "delete" => i.pos \subseteq present
          /\ task.op = "rematerialise" =>
                \A k \in 1..Len(programs) :
                    i.rule \in programs[k] /\ (k < task.at \/ (k = task.at /\ task.started))
                        => Supported(i)
      BY <1>2, <2>2 DEF Support
    <3>2. QED
      BY <1>1, <1>3, <2>2, <3>1
  <2>3. QED
    BY <1>1, <2>1, <2>2
<1>6. QED
  BY <1>1, <1>2, <1>5 DEF Layered, Apart

LEMMA NextProgramLayered ==
    ASSUME ReasonerInv, Complete, Layered, NextProgram
    PROVE  Layered'
<1>1. /\ UNCHANGED <<present, programs, disabled, derived_from>>
      /\ Running /\ Running' /\ task.started
      /\ task'.op = task.op /\ task'.at = task.at + 1 /\ task'.started = FALSE
      /\ task'.append = task.append
  BY NextProgramFields
<1>2. Apart /\ Support
  BY <1>1 DEF Layered, Running
<1>3. \A k \in 1..Len(programs) : k < task.at + 1 => k < task.at \/ k = task.at
  BY <1>1, Pass
<1>4. Support'
  BY <1>1, <1>2, <1>3 DEF Support, Supported
<1>5. QED
  BY <1>1, <1>2, <1>4 DEF Layered, Apart

\* When a deletion has worked through the programs, everything recorded is there.
LEMMA AllSupported ==
    ASSUME ReasonerInv, Complete, Layered, disabled = {}, ProgramDone, AtLastProgram
    PROVE  \A i \in derived_from : i.pos # {} /\ Supported(i)
<1>1. /\ Running /\ task.started /\ AllClosed
  BY AllClosedAtEnd DEF ProgramDone
<1>2. Support /\ task.op \notin {"rule_delete", "rule_rematerialise"}
  BY <1>1 DEF Layered, Running
<1>3. task.at = Len(programs) /\ Len(programs) \in Nat
  BY <1>1, Pass DEF AtLastProgram, Complete
<1>4. SUFFICES ASSUME NEW i \in derived_from PROVE i.pos # {} /\ Supported(i)
  OBVIOUS
<1>5. i.pos # {}
  BY <1>2 DEF Support
<1>6. PICK k \in 1..Len(programs) : i.rule \in programs[k]
  BY DEF ReasonerInv, Alive, Index, Derivations, RulesIn
<1>7. CASE task.op \in {"insert", "new", "rebuild", "rule_insert"}
  BY <1>2, <1>5, <1>7 DEF Support
<1>8. CASE task.op = "delete"
  <2>1. i \in Instances /\ i.pos \subseteq present
    BY <1>2, <1>8 DEF Support, ReasonerInv, Alive, Index, Derivations
  <2>2. i.head \in present
    BY <1>1, <1>5, <1>6, <2>1 DEF AllClosed, Closed, Fed, Enabled
  <2>3. QED
    BY <1>5, <2>1, <2>2 DEF Supported
<1>9. CASE task.op = "rematerialise"
  <2>1. k < task.at \/ k = task.at
    BY <1>3
  <2>2. QED
    BY <1>1, <1>2, <1>5, <1>6, <1>9, <2>1 DEF Support
<1>10. QED
  BY <1>1, <1>2, <1>7, <1>8, <1>9, Pass DEF FullOps

\* The call ends, or its second half begins, on a supported index.
LEMMA EndLayered ==
    ASSUME Apart, \A i \in derived_from : i.pos # {} /\ Supported(i),
           present \subseteq present', UNCHANGED <<programs, derived_from>>,
           task'.op \in {"none", "insert"}
    PROVE  Layered'
<1>1. Support'
  BY DEF Support, Supported
<1>2. Apart'
  BY DEF Apart
<1>3. QED
  BY <1>1, <1>2 DEF Layered

LEMMA PassEndLayered ==
    ASSUME ReasonerInv, Complete, Layered, disabled = {}, ProgramDone, AtLastProgram,
           UNCHANGED <<present, programs, derived_from>>, task'.op \in {"none", "insert"}
    PROVE  Layered'
<1>1. Apart
  BY DEF Layered, ProgramDone, Running
<1>2. \A i \in derived_from : i.pos # {} /\ Supported(i)
  BY AllSupported
<1>3. QED
  BY <1>1, <1>2, EndLayered

\* A new reasoner has one program and an empty index.
LEMMA FullRebuildLayered ==
    ASSUME FastPath, ReasonerInv, NEW R, R \subseteq Rules, full_rebuild(R), Unharmed'
    PROVE  Layered'
<1>1. CASE task'.op = "none" /\ loaded' # TRUE
  BY <1>1 DEF Layered
<1>2. CASE Strata(R) # << >> /\ task'.op = "new" /\ programs' = Strata(R) /\ derived_from' = {}
  <2>1. programs' = <<R>>
    BY <1>2 DEF FastPath
  <2>2. Len(programs') = 1
    BY <2>1
  <2>3. Apart'
    BY <2>2 DEF Apart
  <2>4. QED
    BY <1>2, <2>3 DEF Layered, Support
<1>3. QED
  BY <1>1, <1>2, FullRebuildFields

\* A new program comes last, and feeds none before it.
LEMMA ApplyRuleInsertionsLayered ==
    ASSUME FastPath, ReasonerInv, Layered, task.op = "none", loaded, disabled = {}, Unharmed',
           NEW R, R \subseteq Rules, NEW added, added = R \ active_rules,
           apply_rule_insertions(added, R)
    PROVE  Layered'
<1>1. CASE full_rebuild(R)
  BY <1>1, FullRebuildLayered
<1>2. ASSUME NEW t, DOMAIN t = Fields, t.op = "rule_insert", t.reactivate \subseteq disabled,
             t.append = Strata(added \ AllRules), t.append \in Seq(SUBSET Rules),
             \A r \in added, s \in active_rules : s # r => ~DependsOn(s, r),
             NextRuleInsertion(t),
             UNCHANGED <<present, intensional, loaded, derived_from>>
      PROVE  Layered'
  <2>1. Apart /\ Support /\ \A i \in derived_from : i.pos # {} /\ Supported(i)
    BY DEF Layered, Support, ReasonerInv, Alive
  <2>2. CASE task' = NoTask /\ UNCHANGED programs
    BY <1>2, <2>1, <2>2, NoTaskFields, EndLayered
  <2>3. CASE /\ t.append # << >>
             /\ Len(programs') = Len(programs) + 1
             /\ \A k \in 1..Len(programs) : programs'[k] = programs[k]
             /\ programs'[Len(programs) + 1] = Head(t.append)
             /\ task'.op = t.op /\ task'.append = Tail(t.append)
    <3> DEFINE fresh == added \ AllRules
               n == Len(programs)
    <3>1. t.append = <<fresh>>
      <4>1. fresh \subseteq Rules
        OBVIOUS
      <4>2. QED
        BY <1>2, <2>3, <4>1 DEF FastPath
    <3>2. Head(t.append) = fresh /\ Tail(t.append) = << >>
      BY <3>1
    <3>3. n \in Nat
      BY LenProperties DEF ReasonerInv, Alive, Index
    <3>4. ASSUME NEW s \in AllRules, NEW r \in fresh
          PROVE  s # r /\ ~DependsOn(s, r)
      BY <1>2 DEF active_rules
    <3>5. \A k \in 1..n : programs'[k] = programs[k] /\ programs[k] \subseteq AllRules
      BY <2>3 DEF AllRules
    <3>6. programs'[n + 1] = fresh /\ Len(programs') = n + 1
      BY <2>3, <3>2
    <3> HIDE DEF fresh, n
    <3>7. ASSUME NEW j \in 1..(n + 1), NEW k \in 1..(n + 1), j < k
          PROVE  /\ programs'[j] \cap programs'[k] = {}
                 /\ \A s \in programs'[j], r \in programs'[k] : ~DependsOn(s, r)
      <4>1. j \in 1..n /\ (k \in 1..n \/ k = n + 1)
        BY <3>3, <3>7
      <4>2. CASE k \in 1..n
        BY <2>1, <3>5, <3>7, <4>1, <4>2 DEF Apart, n
      <4>3. CASE k = n + 1
        BY <3>4, <3>5, <3>6, <4>1, <4>3
      <4>4. QED
        BY <4>1, <4>2, <4>3
    <3>8. Apart'
      BY <3>6, <3>7 DEF Apart, DependsOn
    <3>9. Support'
      BY <1>2, <2>1, <2>3 DEF Support, Supported
    <3>10. QED
      BY <1>2, <2>3, <3>2, <3>8, <3>9 DEF Layered
  <2>4. QED
    BY <1>2, <2>2, <2>3, NextRuleInsertionFields
<1>3. QED
  BY <1>1, <1>2, RuleInsertionsFields

LEMMA DoneLayered ==
    ASSUME Positive, ReasonerInv, Complete, Layered, disabled = {},
           DeletionDone \/ InsertionDone \/ RuleInsertionDone \/ RebuildDone
    PROVE  Layered'
<1>1. ProgramDone /\ AtLastProgram /\ DOMAIN task = Fields
  BY DEF DeletionDone, InsertionDone, RuleInsertionDone, RebuildDone, ReasonerInv, Shape
<1>2. CASE DeletionDone
  <2>1. CASE task.inserts = {}
    BY <1>1, <1>2, <2>1, NoTaskFields, PassEndLayered
       DEF DeletionDone, Done, store, reasoner
  <2>2. CASE task.inserts # {}
    <3>1. apply_insertions(present, intensional, task)
      BY <1>2, <2>2 DEF DeletionDone
    <3>2. PICK u : u = task
      OBVIOUS
    <3>3. PICK P : P = present
      OBVIOUS
    <3>4. PICK N : N = intensional
      OBVIOUS
    <3>5. UNCHANGED <<present, programs, derived_from>> /\ task'.op = "insert"
      BY <3>1, <3>2, <3>3, <3>4, InsertionFields
    <3>6. QED
      BY <1>1, <3>5, PassEndLayered
  <2>3. QED
    BY <2>1, <2>2
<1>3. CASE InsertionDone
  <2>1. \A i \in derived_from : i.neg = {}
    BY DEF ReasonerInv, Alive, Index, Derivations, Positive
  <2>2. negation_invalidated_seeds(task.facts) = {}
    BY <2>1 DEF negation_invalidated_seeds
  <2>3. QED
    BY <1>1, <1>3, <2>2, NoTaskFields, PassEndLayered DEF InsertionDone, Done, store
<1>4. CASE RuleInsertionDone
  <2>1. /\ task.op = "rule_insert" /\ NextRuleInsertion(task)
        /\ UNCHANGED <<present, derived_from>>
    BY <1>4 DEF RuleInsertionDone, store
  <2>2. /\ task.append = << >> /\ task.reactivate = {} /\ task.append \in Seq(SUBSET Rules)
    BY <2>1 DEF Layered, Complete, ReasonerInv, Inserting, Adding
  <2>3. task' = NoTask /\ UNCHANGED programs
    <3>1. PICK t : t = task
      OBVIOUS
    <3>2. QED
      BY <1>1, <2>1, <2>2, <3>1, NextRuleInsertionFields
  <2>4. QED
    BY <1>1, <2>1, <2>3, NoTaskFields, PassEndLayered
<1>5. CASE RebuildDone
  BY <1>1, <1>5, NoTaskFields, PassEndLayered DEF RebuildDone, Done, store
<1>6. QED
  BY <1>2, <1>3, <1>4, <1>5

\* An undo drops programs from the end; the index is rebuilt.
LEMMA FailureLayered ==
    ASSUME ReasonerInv, Layered, UpdateFails \/ RulesetFails
    PROVE  Layered'
<1>1. task'.op = "recover" /\ Running
  BY FailureExact DEF UpdateFails, RulesetFails, Contradicted
<1>2. Apart
  BY <1>1 DEF Layered, Running
<1>3. CASE UNCHANGED programs
  BY <1>1, <1>2, <1>3 DEF Layered, Apart
<1>4. CASE task.op = "rule_insert" /\ programs' = SubSeq(programs, 1, task.old[1])
  <2>1. programs \in Seq(SUBSET Rules) /\ task.old[1] \in 1..Len(programs)
    BY <1>4 DEF ReasonerInv, Alive, Index, Inserting, Adding
  <2>2. PICK n \in 1..Len(programs) : n = task.old[1]
    BY <2>1
  <2>3. /\ Len(programs') = n /\ \A k \in 1..n : programs'[k] = programs[k]
    BY <1>4, <2>1, <2>2, FirstPrograms
  <2>4. \A k \in 1..n : k \in 1..Len(programs)
    BY <2>1, <2>2, LenProperties
  <2>5. Apart'
    BY <1>2, <2>3, <2>4 DEF Apart, DependsOn
  <2>6. QED
    BY <1>1, <2>5 DEF Layered
<1>5. QED
  BY <1>3, <1>4 DEF UpdateFails, RulesetFails, undo_rule_deletions, undo_rematerialise_rules,
                    undo_rule_insertions

LEMMA UpdateLayered ==
    ASSUME ReasonerInv, Layered, NEW u \in Updates, apply_prepared_update(u)
    PROVE  Layered'
<1> DEFINE P == (present \ u.deletes) \cup u.inserts
           N == intensional \ u.deletes
<1>1. task.op = "none" /\ u.deletes \subseteq present /\ loaded \in BOOLEAN
  BY DEF apply_prepared_update, ReasonerInv, Alive
<1>2. loaded => Apart /\ \A i \in derived_from : i.pos # {} /\ Supported(i)
  BY <1>1 DEF Layered, Support
<1>3. CASE ~loaded
  <2>1. task' = NoTask /\ loaded' = loaded
    BY <1>3 DEF apply_prepared_update, Done, reasoner
  <2>2. QED
    BY <1>3, <2>1, NoTaskFields DEF Layered
<1>4. CASE loaded /\ u.deletes # {}
  <2>1. apply_deletions(P, N, u)
    BY <1>4 DEF apply_prepared_update
  <2>2. PICK D : D = P
    OBVIOUS
  <2>3. PICK M : M = N
    OBVIOUS
  <2>4. apply_deletions(D, M, u) /\ present \ u.deletes \subseteq D
    BY <2>1, <2>2, <2>3
  <2> HIDE DEF P, N
  <2>5. /\ UNCHANGED programs /\ task'.at = 1 /\ task'.started = FALSE
        /\ \/ task'.op = "rematerialise" /\ derived_from' = derived_from
           \/ task'.op = "delete" /\ \E C \in SUBSET Facts : Gone(u.deletes, C, D, M)
    BY <1>1, <2>4, DeletionFields
  <2>6. Apart'
    BY <1>2, <1>4, <2>5 DEF Apart
  <2>7. CASE task'.op = "rematerialise" /\ derived_from' = derived_from
    <3>1. Support'
      BY <1>2, <1>4, <2>5, <2>7 DEF Support
    <3>2. QED
      BY <2>6, <2>7, <3>1 DEF Layered
  <2>8. CASE task'.op = "delete" /\ \E C \in SUBSET Facts : Gone(u.deletes, C, D, M)
    <3>1. PICK C \in SUBSET Facts : Gone(u.deletes, C, D, M)
      BY <2>8
    <3>2. ASSUME NEW i \in derived_from'
          PROVE  i.pos # {} /\ i.pos \subseteq present'
      <4>1. /\ i \in derived_from /\ i.head \notin C /\ present' = D \ C
            /\ i.pos \cap (u.deletes \cup C) # {} => i.head \in C
        BY <3>1, <3>2 DEF Gone
      <4>2. i.pos # {} /\ i.pos \subseteq present
        BY <1>2, <1>4, <4>1 DEF Supported
      <4>3. QED
        BY <2>4, <4>1, <4>2
    <3>3. Support'
      BY <2>8, <3>2 DEF Support
    <3>4. QED
      BY <2>6, <2>8, <3>3 DEF Layered
  <2>9. QED
    BY <2>5, <2>7, <2>8
<1>5. CASE loaded /\ u.deletes = {}
  <2>1. apply_insertions(P, N, u)
    BY <1>5 DEF apply_prepared_update
  <2>2. PICK D : D = P
    OBVIOUS
  <2>3. PICK M : M = N
    OBVIOUS
  <2>4. apply_insertions(D, M, u) /\ present \subseteq D
    BY <1>5, <2>1, <2>2, <2>3
  <2>5. /\ UNCHANGED <<programs, derived_from>> /\ task'.op = "insert"
        /\ present \subseteq present'
    BY <2>4, InsertionFields
  <2>6. QED
    BY <1>2, <1>5, <2>5, EndLayered
<1>6. QED
  BY <1>3, <1>4, <1>5

LEMMA RulesetLayered ==
    ASSUME FastPath, ReasonerInv, Layered, disabled = {}, disabled' = {}, Unharmed',
           NEW R \in Rulesets, apply_combined_ruleset(R)
    PROVE  Layered'
<1> DEFINE removed == active_rules \ R
           added == R \ active_rules
<1>1. task.op = "none" /\ R \subseteq Rules /\ loaded \in BOOLEAN
  BY RulesetsAssumption DEF apply_combined_ruleset, ReasonerInv, Alive
<1>2. loaded => Apart /\ \A i \in derived_from : i.pos # {} /\ Supported(i)
  BY <1>1 DEF Layered, Support
<1>3. CASE R = {}
  <2>1. task' = NoTask /\ loaded' = FALSE
    BY <1>3 DEF apply_combined_ruleset, Done
  <2>2. QED
    BY <2>1, NoTaskFields DEF Layered
<1>4. CASE R # {} /\ ~loaded
  BY <1>1, <1>4, FullRebuildLayered DEF apply_combined_ruleset
<1>5. CASE R # {} /\ loaded /\ removed # {}
  <2>1. apply_rule_deletions(removed, R)
    BY <1>5 DEF apply_combined_ruleset
  <2>2. disabled' = disabled \cup removed
    BY <2>1 DEF apply_rule_deletions
  <2>3. QED
    BY <1>5, <2>2
<1>6. CASE R # {} /\ loaded /\ removed = {} /\ added # {}
  <2>1. apply_rule_insertions(added, R)
    BY <1>6 DEF apply_combined_ruleset
  <2>2. PICK more : more = added
    OBVIOUS
  <2>3. QED
    BY <1>1, <1>6, <2>1, <2>2, ApplyRuleInsertionsLayered
<1>7. CASE R # {} /\ loaded /\ removed = {} /\ added = {}
  <2>1. task' = NoTask /\ UNCHANGED <<present, programs, derived_from>>
    BY <1>7 DEF apply_combined_ruleset, Done, store, reasoner
  <2>2. QED
    BY <1>2, <1>7, <2>1, NoTaskFields, EndLayered
<1>8. QED
  BY <1>3, <1>4, <1>5, <1>6, <1>7

LEMMA StepLayered ==
    ASSUME Positive, FastPath, ReasonerInv, Complete, Layered, disabled = {}, disabled' = {},
           Unharmed', Next
    PROVE  Layered'
<1>1. ASSUME NEW u \in Updates, apply_prepared_update(u)
      PROVE  Layered'
  BY <1>1, UpdateLayered
<1>2. ASSUME NEW R \in Rulesets, apply_combined_ruleset(R)
      PROVE  Layered'
  BY <1>2, RulesetLayered
<1>3. CASE StartProgram
  BY <1>3, StartProgramLayered
<1>4. CASE Round
  BY <1>4, RoundLayered
<1>5. CASE NextProgram
  BY <1>5, NextProgramLayered
<1>6. CASE DeletionDone \/ InsertionDone \/ RuleInsertionDone \/ RebuildDone
  BY <1>6, DoneLayered
<1>7. CASE RuleDeletionDone
  BY <1>7 DEF RuleDeletionDone, Layered
<1>8. CASE UpdateFails \/ RulesetFails
  BY <1>8, FailureLayered
<1>9. CASE RecoverUpdate
  <2>1. Apart
    BY <1>9 DEF RecoverUpdate, Layered
  <2>2. UNCHANGED programs /\ task'.op = "rebuild" /\ derived_from' = {}
    BY <1>9, RecoverUpdateFields
  <2>3. QED
    BY <2>1, <2>2 DEF Layered, Support, Apart
<1>10. CASE RecoverRuleset
  <2>1. PICK R : R = task.ruleset
    OBVIOUS
  <2>2. full_rebuild(R) /\ R \subseteq Rules
    BY <1>10, <2>1 DEF RecoverRuleset, ReasonerInv, Shape
  <2>3. QED
    BY <2>2, FullRebuildLayered
<1>11. CASE RebuildFails
  BY <1>11, RebuildFailsUnsaid DEF Layered
<1>12. QED
  BY <1>1, <1>2, <1>3, <1>4, <1>5, <1>6, <1>7, <1>8, <1>9, <1>10, <1>11 DEF Next, Step

LEMMA StutterLayered ==
    ASSUME Layered, UNCHANGED vars
    PROVE  Layered'
<1>1. UNCHANGED <<present, loaded, programs, derived_from, task>>
  BY DEF vars
<1>2. QED
  BY <1>1 DEF Layered, Apart, Support, Supported

-----------------------------------------------------------------------------
(* What the theorems assume of the calls that are made                       *)

\* Nothing has gone wrong under the reasoner, and it has one program ...
OneProgram == Unharmed /\ Len(programs) <= 1

\* ... or as many as rulesets have appended, but no rule was ever removed.
OnlyAdded == Unharmed /\ disabled = {}

\* The two parts of the invariant, and a third if there are several programs.
LEMMA PositiveInvariant ==
    ASSUME Positive, FastPath
    PROVE  Spec /\ ([]OneProgram \/ []OnlyAdded) => [](Complete /\ Grounded)
<1>1. Init => Complete /\ Grounded /\ Layered
  <2>1. Init => Layered
    BY NoTaskFields DEF Init, Layered
  <2>2. QED
    BY <2>1, InitExact
<1>2. /\ Complete /\ Grounded /\ ReasonerInv /\ ReasonerInv' /\ OneProgram /\ OneProgram'
      /\ [Next]_vars
      => (Complete /\ Grounded)'
  BY StepExact, StutterExact DEF OneProgram, Settled
<1>3. /\ Complete /\ Grounded /\ Layered /\ ReasonerInv /\ ReasonerInv'
      /\ OnlyAdded /\ OnlyAdded' /\ [Next]_vars
      => (Complete /\ Grounded /\ Layered)'
  BY StepExact, StutterExact, StepLayered, StutterLayered DEF OnlyAdded, Settled
<1>4. QED
  BY <1>1, <1>2, <1>3, ReasonerInvariant, PTL DEF Spec

\* Without negation, a derivation index kept up over any sequence of updates and changes
\* of the ruleset has every instance of an active rule whose body holds (materialise_*,
\* record, the backward and forward phases and the undo logs of incremental.rs), as long
\* as one program holds all the rules, or no rule is ever removed.
THEOREM IndexStaysComplete ==
    ASSUME Positive, FastPath
    PROVE  Spec /\ ([]OneProgram \/ []OnlyAdded) => []IndexComplete
<1>1. Complete /\ ReasonerInv => IndexComplete
  BY CompleteMeans
<1>2. QED
  BY <1>1, PositiveInvariant, ReasonerInvariant, PTL

\* Under the same conditions the store after every call is exactly what a reasoner built
\* from scratch over its base facts and active rules would hold: nothing stale survives
\* apply_deletions or apply_rule_deletions, and nothing derivable is missing.
THEOREM ClosureStaysExact ==
    ASSUME Positive, FastPath
    PROVE  Spec /\ ([]OneProgram \/ []OnlyAdded) => []ClosureExact
<1>1. Complete /\ Grounded /\ ReasonerInv => ClosureExact
  BY GroundedMeans
<1>2. QED
  BY <1>1, PositiveInvariant, ReasonerInvariant, PTL
=============================================================================
