------------------------------ MODULE MCChainDb ------------------------------
(***************************************************************************)
(* Block trees for TLC.  A payload is <<witness, fault, variant>>; a tree  *)
(* is given by its leaves, and holds every block on the way to them.       *)
(***************************************************************************)
EXTENDS ChainDb

W(n) == <<n, "none", "a">>
X(n) == <<n, "none", "b">>

PrefixesOf(leaves) == UNION {{SubSeq(l, 1, n) : n \in 1..Len(l)} : l \in leaves}

LastOf(b) == b[Len(b)]

E(n) == <<n, "early", "e">>
L(n) == <<n, "late", "l">>

FirstBlock == <<W(1)>>

(* Forks at blocks 1, 2 and 3, of up to two blocks less than the longest.  *)
HonestTree == PrefixesOf({<<W(1), W(2), W(3), W(1)>>,
                          <<W(1), W(2), X(2), X(2), X(2)>>,
                          <<W(1), W(2), W(3), X(2), X(2)>>,
                          <<W(1), X(3)>>})

(* Invalid blocks in the middle of a longer fork and on top of a chain.    *)
FaultyTree == PrefixesOf({<<W(1), W(2), W(3), W(1), E(3)>>,
                          <<W(1), W(2), X(2), X(2), E(2), X(2)>>,
                          <<W(1), W(2), W(3), X(2), X(2)>>,
                          <<W(1), W(2), W(3), L(1)>>,
                          <<W(1), W(2), E(3)>>})

(* Witness 4 is cut off and signs a fork of its own while the other three  *)
(* go on; on a third branch all four sign, and what becomes irreversible   *)
(* there is not on the longer branch of the three.                         *)
PartitionTree == PrefixesOf({<<W(1), W(3), W(1), W(2), W(3)>>,
                             <<W(1), X(4), X(4), X(4)>>,
                             <<W(1), X(2), X(3), X(4)>>})

MCPayloads == UNION {{b[n] : n \in 1..Len(b)} : b \in Blocks}
MCWitnessOf == [b \in Blocks |-> LastOf(b)[1]]
MCFault == [b \in Blocks |-> LastOf(b)[2]]
=============================================================================
