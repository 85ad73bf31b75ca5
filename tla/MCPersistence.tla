--------------------------- MODULE MCPersistence ---------------------------
(* The main dataset and one more; a quad of the data files, a quad clients  *)
(* write, and one that rule r derives.  Rule n forbids quad a.  Quad t      *)
(* holds a triple term and reads back from the log as another quad.         *)
EXTENDS Persistence

CONSTANTS a, f, h, t, r, n, c1, c2

Q(x) == [graph |-> "default", triple |-> x]
MCQuads == {Q(a), Q(f), Q(h), Q(t)}
MCFileData == {Q(f)}
MCRepr == [q \in MCQuads |-> IF q = Q(t) THEN Q(h) ELSE q]
Ins(q) == [kind |-> "InsertData", quads |-> {q}]
Del(q) == [kind |-> "DeleteData", quads |-> {q}]
MCUpdates == {<<Del(Q(f)), Ins(Q(t))>>}
MCBodies == {{Q(a)}}
MCContradictory == {<<n, Q(a)>>}
MCConsequences == {<<r, Q(f), Q(h)>>}
MCRulesets == {{r, n}}
Symm == Permutations({c1, c2})
=============================================================================
