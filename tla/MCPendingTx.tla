---------------------------- MODULE MCPendingTx ----------------------------
(* Three transactions: 2 spends what 1 provides, 3 comes too late after 2. *)
(* The first two live long enough for a switch of two blocks.  All three   *)
(* together, and 1 with 3, make a block too big.                           *)
EXTENDS PendingTx

MCNeeds == <<{}, {1}, {}>>
MCExcludes == <<{}, {}, {2}>>
MCExpires == <<4, 5, 2>>
MCSize == <<1, 1, 2>>
=============================================================================
