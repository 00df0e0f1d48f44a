------------------------------ MODULE MCRwLock ------------------------------
(* Two processes that read, one that writes.                               *)
EXTENDS RwLock

MCReaders == {"r1", "r2"}
=============================================================================
