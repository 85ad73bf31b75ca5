----------------------------- MODULE MCQuadTable -----------------------------
(* The instance of QuadTable and its lookups for TLC.                       *)
EXTENDS QuadTable

MCQuad(g, s, p, o) == [triple_id |-> g, subject |-> s, predicate |-> p, obj |-> o]

\* Four quads in two graphs: every index has a key shared by several of them and
\* a key of its own, and two differ in the graph alone.
MCQuads == {MCQuad("a", "a", "p", "b"), MCQuad("b", "a", "p", "b"),
            MCQuad("a", "a", "b", "a"), MCQuad("b", "b", "p", "a")}

MCIds == {"a", "b", "p"}
=============================================================================
