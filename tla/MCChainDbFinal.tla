--------------------------- MODULE MCChainDbFinal ---------------------------
(***************************************************************************)
(* Block trees in which no witness contradicts an irreversible block or    *)
(* the chain that the node is opened on, several witnesses have to confirm *)
(* a block, and no two blocks are signed on top of the same invalid one:   *)
(* the second would stay in the fork database when the first is removed.   *)
(***************************************************************************)
EXTENDS MCChainDb

ASSUME FinalAssumption == IrreversibleIsFinal
ASSUME SeveralAssumption == SeveralConfirm
ASSUME SettledAssumption == RootIsSettled
ASSUME InvalidAssumption ==
    \A b, c \in Blocks : (Parent(b) = Parent(c) /\ ~ValidChain(Parent(b))) => b = c
=============================================================================
