-------------------------- MODULE MCUpdateRequest --------------------------
(* Requests of up to three operations over two default-graph quads and one  *)
(* quad each of two named graphs; tt is a triple with a triple term, which  *)
(* the changelog writes as bn.                                              *)
EXTENDS UpdateRequest

CONSTANTS a, b, tt, bn

Q(g, t) == [graph |-> g, triple |-> t]
MCQuads == {Q("default", a), Q("default", b), Q("g", a), Q("h", tt), Q("h", bn)}
MCRepr == [q \in MCQuads |-> IF q = Q("h", tt) THEN Q("h", bn) ELSE q]

Where(W, del, ins) ==
    [kind |-> "PatternUpdate", where |-> W,
     delete |-> [q \in W |-> del[q]], insert |-> [q \in W |-> ins[q]]]

None == [q \in MCQuads |-> {}]
Self == [q \in MCQuads |-> {q}]
B    == [q \in MCQuads |-> {Q("default", b)}]

MCOps ==
    [kind : {"InsertData", "DeleteData"}, quads : {{q} : q \in MCQuads \ {Q("h", bn)}}]
    \cup [kind : {"Clear"}, target : {"default", "named", "all", "g"}]
    \cup [kind : {"CreateGraph"}, graph : {"g"}]
    \cup {Where({Q("default", a)}, Self, B),      \* DELETE a INSERT b WHERE a
          Where({Q("default", a)}, None, B),
          Where({Q("g", a)}, B, None)}
    \cup [kind : {"LoadGraph"}, quads : {{Q("default", a)}, {Q("h", tt)}},
          fetched : BOOLEAN, silent : {FALSE}]
    \cup [kind : {"LoadGraph"}, quads : {{Q("g", a)}}, fetched : {FALSE},
          silent : {TRUE}]
=============================================================================
