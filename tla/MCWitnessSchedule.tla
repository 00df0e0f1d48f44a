------------------------- MODULE MCWitnessSchedule -------------------------
EXTENDS WitnessSchedule

(* One voted place; two witnesses share the other one in virtual time, and *)
(* a fourth can join.                                                      *)
SomeVotes == <<2, 1, 1, 0>>
=============================================================================
