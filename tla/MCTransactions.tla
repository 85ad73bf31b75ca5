-------------------------- MODULE MCTransactions --------------------------
(* Two transactions and two requests in flight over two quads of the        *)
(* default graph.                                                           *)
EXTENDS Transactions

CONSTANTS a, b, t1, t2, c1, c2

Q(t) == [graph |-> "default", triple |-> t]
MCQuads == {Q(a), Q(b)}
MCInitial == {{Q(b)}}
MCRepr == [q \in MCQuads |-> q]

Ins(q) == [kind |-> "InsertData", quads |-> {q}]
Del(q) == [kind |-> "DeleteData", quads |-> {q}]

MCUpdateRequests == {<<[kind |-> "Clear", target |-> "all"], Ins(Q(a))>>}
MCTxRequests == {<<Ins(Q(a))>>, <<Ins(Q(a)), Del(Q(a))>>, <<Del(Q(b))>>}
MCBodies == {{Q(a)}}
MCForbidden == {{Q(a), Q(b)}}

Symm == Permutations({t1, t2}) \cup Permutations({c1, c2})
=============================================================================
