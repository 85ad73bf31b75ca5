------------------------------- MODULE QuadSet -------------------------------
(***************************************************************************)
(* What the multi-index quad table promises its callers: a set of quads,   *)
(* some of which are intensional (derived by the reasoner), with one       *)
(* savepoint that an append-only phase can be rolled back to.              *)
(***************************************************************************)
CONSTANT Quads,     \* the quads a caller may store
         GraphOf(_) \* the graph (triple_id) a quad belongs to

VARIABLES present,     \* the quads in the store
          intensional, \* those of them that only the reasoner put there
          saved        \* << >>, or <<present, intensional>> at the savepoint

vars == <<present, intensional, saved>>

Init ==
    /\ present = {}
    /\ intensional = {}
    /\ saved = << >>

\* An asserted quad; one that is already derived stays marked as derived.
Add(q) ==
    /\ present' = present \cup {q}
    /\ UNCHANGED <<intensional, saved>>

\* A derived quad; an asserted one is never downgraded.
AddIntensional(q) ==
    /\ present' = present \cup {q}
    /\ intensional' = IF q \in present \ intensional
                      THEN intensional
                      ELSE intensional \cup {q}
    /\ UNCHANGED saved

\* Removal ends the append-only phase: the savepoint is gone.
RemoveAll(R) ==
    /\ present' = present \ R
    /\ intensional' = intensional \ R
    /\ saved' = << >>

Save ==
    /\ saved' = <<present, intensional>>
    /\ UNCHANGED <<present, intensional>>

Restore ==
    /\ saved # << >>
    /\ present' = saved[1]
    /\ intensional' = saved[2]
    /\ saved' = << >>

Forget ==
    /\ saved' = << >>
    /\ UNCHANGED <<present, intensional>>

Next ==
    \/ \E q \in Quads : Add(q) \/ AddIntensional(q) \/ RemoveAll({q})
    \/ \E q \in Quads : RemoveAll({r \in Quads : GraphOf(r) = GraphOf(q)})
    \/ Save
    \/ Restore
    \/ Forget

Spec == Init /\ [][Next]_vars

=============================================================================
