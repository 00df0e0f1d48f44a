----------------------------- MODULE MCUndoIndex -----------------------------
(* Instances of UndoIndexHistory for TLC.                                  *)
EXTENDS UndoIndexHistory
=============================================================================
