----------------------------- MODULE MCBlockLog -----------------------------
(* Up to four blocks, of one or two payloads, with any number of crashes.  *)
EXTENDS BlockLog
=============================================================================
