----------------------------- MODULE MCNetSync -----------------------------
(* A chain with a fork that is refused, and two peers.                     *)
EXTENDS NetSync

PrefixesOf(leaves) == UNION {{SubSeq(l, 1, n) : n \in 1 .. Len(l)} : l \in leaves}

Forked == PrefixesOf({<<1, 1>>, <<1, 2>>})
(* One peer has everything, the other starts from nothing and catches up.  *)
OneAhead == [p \in Peers |-> IF p \in Growing THEN Genesis ELSE <<1, 1>>]
Bad == {<<1, 2>>}
=============================================================================
