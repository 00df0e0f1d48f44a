----------------------------- MODULE DurableLog -----------------------------
(***************************************************************************)
(* What the block log promises to the chain database: a sequence of        *)
(* irreversible blocks that only grows at its end, of which a crash may    *)
(* drop the blocks appended since the last flush, and nothing else.        *)
(***************************************************************************)
EXTENDS Naturals, Sequences

CONSTANTS Payloads      \* what tells two blocks of one number apart

VARIABLES log,          \* the blocks, block number n at place n
          flushed       \* how many of them a crash can no longer take

vars == <<log, flushed>>

Init == log = <<>> /\ flushed = 0

Append1 == \E v \in Payloads :
    /\ log' = Append(log, [num |-> Len(log) + 1, val |-> v])
    /\ UNCHANGED flushed

Flush == flushed' = Len(log) /\ UNCHANGED log

Crash == \E n \in flushed .. Len(log) :
    /\ log' = SubSeq(log, 1, n)
    /\ UNCHANGED flushed

Next == Append1 \/ Flush \/ Crash

Spec == Init /\ [][Next]_vars
=============================================================================
