------------------------------ MODULE BlockLog ------------------------------
(***************************************************************************)
(* libraries/chain/block_log.cpp: the append-only file of irreversible     *)
(* blocks and its index file.                                              *)
(*                                                                         *)
(* A file is a sequence of units.  The block file alternates the packed    *)
(* block and the 8 bytes with its own position; the index file holds the   *)
(* positions only, so a position is a number of units.  Each stream has a  *)
(* buffer in the process in front of its file: a crash leaves an arbitrary *)
(* prefix of the buffer in the file, for each of the two files on its own. *)
(* A stream is open for reading or for appending; changing over closes it, *)
(* which writes its buffer.  Packing a block is left out: a block is its   *)
(* number and a payload.                                                   *)
(***************************************************************************)
EXTENDS Naturals, Sequences, FiniteSetsExt

CONSTANTS Payloads,     \* what tells two blocks of one number apart
          MaxBlock      \* bound: highest block number offered to append()

ASSUME BlockLogAssumption == Payloads # {} /\ MaxBlock \in Nat

VARIABLES block_file,   \* units of the block file
          index_file,   \* units of the index file
          block_buf,    \* written to block_stream, not yet in the file
          index_buf,    \* written to index_stream, not yet in the file
          block_write,  \* block_stream is open for appending
          index_write,  \* index_stream is open for appending
          is_open,      \* the log was opened by this process
          throws,       \* the streams report a failed read (block_log())
          head,         \* block_log_impl::head, NoBlock when not valid
          acked         \* blocks in the log when flush() or close() returned

files == <<block_file, index_file>>
bufs == <<block_buf, index_buf>>
modes == <<block_write, index_write>>
vars == <<block_file, index_file, block_buf, index_buf, block_write,
          index_write, is_open, throws, head, acked>>

Block == [num : 1 .. MaxBlock, val : Payloads]
NoBlock == [num |-> 0]

Body(b) == [body |-> b]
Pos(p) == [pos |-> p]
IsPos(u) == DOMAIN u = {"pos"}

\* Blocks whose packed form and position are both in f.
Records(f) == Len(f) \div 2
BlocksOf(f) == [i \in 1 .. Records(f) |-> f[2 * i - 1].body]
Positions(f) == [i \in 1 .. Records(f) |-> f[2 * i]]

\* The process was killed between the two writes of append().
Torn(f) == f # <<>> /\ ~IsPos(f[Len(f)])

LastPos(f) == f[Len(f)].pos

\* read_head(): the block at the position the last 8 bytes give.
read_head(f) == f[LastPos(f) + 1].body

\* construct_index() walks from position 0, taking the next position from
\* behind each block, as long as it is below the last one.
construct_index(f) ==
    LET end_pos == LastPos(f)
        before(k) == IF k = 1 THEN 0 ELSE f[2 * (k - 1)].pos
        rounds == Max({k \in 0 .. Records(f) : \A j \in 1 .. k : before(j) < end_pos})
    IN  [i \in 1 .. rounds |-> f[2 * i]]

-----------------------------------------------------------------------------
Init ==
    /\ block_file = <<>> /\ index_file = <<>>
    /\ block_buf = <<>> /\ index_buf = <<>>
    /\ block_write = FALSE /\ index_write = FALSE
    /\ is_open = FALSE /\ throws = TRUE
    /\ head = NoBlock
    /\ acked = 0

\* open() of a block file that has no blocks: an index that is there is removed.
OpenEmpty ==
    /\ ~is_open /\ block_file = <<>>
    /\ index_file' = <<>>
    /\ is_open' = TRUE /\ head' = NoBlock
    /\ block_write' = TRUE /\ index_write' = TRUE
    /\ UNCHANGED <<block_file, bufs, throws, acked>>

\* Mutant of IndexIsCurrent: any index that is there is taken.
IndexIsThere == index_file # <<>>

\* The index ends where the block file ends.
IndexIsCurrent == index_file # <<>> /\ LastPos(index_file) = LastPos(block_file)

\* open() of a block file with blocks: the head is read, and unless the last
\* positions agree the index is removed and written again (into its buffer).
OpenExisting ==
    /\ ~is_open /\ block_file # <<>> /\ ~Torn(block_file)
    /\ is_open' = TRUE /\ head' = read_head(block_file)
    /\ block_write' = FALSE
    /\ \/ /\ IndexIsCurrent
          /\ index_write' = FALSE
          /\ UNCHANGED <<index_file, index_buf>>
       \/ /\ ~IndexIsCurrent
          /\ index_write' = TRUE
          /\ index_file' = <<>>
          /\ index_buf' = construct_index(block_file)
    /\ UNCHANGED <<block_file, block_buf, throws, acked>>

\* open() of a torn file in a process that just started: the last 8 bytes are
\* no position, read_head() throws, and the node stays down.
StaysDown == ~is_open /\ throws /\ Torn(block_file) /\ UNCHANGED vars

\* open() of a torn file after close(), as reindex() does: the streams of the
\* new block_log_impl report nothing.  read_head() leaves the block stream
\* failed, so that in construct_index() pos never moves off 0 and the loop
\* writes it to a new index until the process is killed.  (A stale end_pos of
\* zero, or last bytes that happen to be a position, would end the loop.)
OpenHangs ==
    /\ ~is_open /\ ~throws /\ Torn(block_file)
    /\ \E k \in 0 .. MaxBlock : index_file' = [i \in 1 .. k |-> Pos(0)]
    /\ UNCHANGED <<block_file, bufs, modes, is_open, throws, head, acked>>

\* Closing a stream writes its buffer.
WriteBlocks == block_file' = block_file \o block_buf /\ block_buf' = <<>>
WriteIndex == index_file' = index_file \o index_buf /\ index_buf' = <<>>

\* check_block_read(), check_block_write(), check_index_read(),
\* check_index_write(): a stream in the other mode is closed and opened again.
ToMode(write) ==
    /\ IF block_write = write THEN UNCHANGED <<block_file, block_buf>> ELSE WriteBlocks
    /\ IF index_write = write THEN UNCHANGED <<index_file, index_buf>> ELSE WriteIndex
    /\ block_write' = write /\ index_write' = write

\* append(): the position of the index file must be the one of this block.
\* Both streams hold everything that was written to them, buffer included.
append(b) ==
    /\ is_open
    /\ Len(index_file) + Len(index_buf) = b.num - 1
    /\ block_write' = TRUE /\ index_write' = TRUE
    /\ LET pos == Pos(Len(block_file) + Len(block_buf)) IN
       /\ block_file' = IF block_write THEN block_file ELSE block_file \o block_buf
       /\ index_file' = IF index_write THEN index_file ELSE index_file \o index_buf
       /\ block_buf' = (IF block_write THEN block_buf ELSE <<>>) \o <<Body(b), pos>>
       /\ index_buf' = (IF index_write THEN index_buf ELSE <<>>) \o <<pos>>
    /\ head' = b
    /\ UNCHANGED <<is_open, throws, acked>>

\* append() of a block the index is not at: both streams change over to
\* appending and the assertion throws before anything is written.
AppendRefused(b) ==
    /\ is_open
    /\ Len(index_file) + Len(index_buf) # b.num - 1
    /\ ToMode(TRUE)
    /\ UNCHANGED <<is_open, throws, head, acked>>

\* Mutant of flush: the blocks stay in their buffer.
FlushesIndexOnly ==
    /\ is_open
    /\ WriteIndex /\ UNCHANGED <<block_file, block_buf>>
    /\ acked' = Records(block_file \o block_buf)
    /\ UNCHANGED <<modes, is_open, throws, head>>

flush ==
    /\ is_open
    /\ WriteBlocks /\ WriteIndex
    /\ acked' = Records(block_file')
    /\ UNCHANGED <<modes, is_open, throws, head>>

\* close(): a new block_log_impl, whose streams do not throw; the old one closes
\* its streams.
close ==
    /\ is_open
    /\ WriteBlocks /\ WriteIndex
    /\ acked' = Records(block_file')
    /\ is_open' = FALSE /\ throws' = FALSE /\ head' = NoBlock
    /\ block_write' = FALSE /\ index_write' = FALSE

\* close() of a log that is not open: reindex() wipes the state before open().
CloseUnopened ==
    /\ ~is_open /\ throws
    /\ throws' = FALSE
    /\ UNCHANGED <<files, bufs, modes, is_open, head, acked>>

\* read_block_by_num(): get_block_pos() changes the index over to reading, and
\* read_block() the blocks when there is a position for the number.
read_block_by_num(n) ==
    /\ is_open
    /\ index_write' = FALSE
    /\ IF index_write THEN WriteIndex ELSE UNCHANGED <<index_file, index_buf>>
    /\ \/ /\ n \in 1 .. head.num
          /\ n <= Len(index_file')
          /\ block_write' = FALSE
          /\ IF block_write THEN WriteBlocks ELSE UNCHANGED <<block_file, block_buf>>
       \/ /\ n \notin 1 .. head.num \/ n > Len(index_file')
          /\ UNCHANGED <<block_write, block_file, block_buf>>
    /\ UNCHANGED <<is_open, throws, head, acked>>

\* What read_block_by_num(n) finds once both streams are open for reading.
BlockRead(n) == (block_file \o block_buf)[(index_file \o index_buf)[n].pos + 1].body

\* The process is killed: of each buffer some prefix has reached its file.
Crash ==
    /\ is_open
    /\ \E i \in 0 .. Len(block_buf), j \in 0 .. Len(index_buf) :
          /\ block_file' = block_file \o SubSeq(block_buf, 1, i)
          /\ index_file' = index_file \o SubSeq(index_buf, 1, j)
    /\ block_buf' = <<>> /\ index_buf' = <<>>
    /\ is_open' = FALSE /\ throws' = TRUE /\ head' = NoBlock
    /\ block_write' = FALSE /\ index_write' = FALSE
    /\ UNCHANGED acked

\* A process without an open log ends; the next one starts.
Restart ==
    /\ ~is_open /\ ~throws
    /\ throws' = TRUE
    /\ UNCHANGED <<files, bufs, modes, is_open, head, acked>>

\* The index file is deleted while the node is down.
IndexRemoved ==
    /\ ~is_open /\ index_file # <<>>
    /\ index_file' = <<>>
    /\ UNCHANGED <<block_file, bufs, modes, is_open, throws, head, acked>>

\* What database::update_last_irreversible_block() passes to append(): the
\* block that follows the head of the log.
NextIrreversible == {b \in Block : b.num = head.num + 1}

Next ==
    \/ OpenEmpty \/ OpenExisting \/ StaysDown \/ OpenHangs
    \/ flush \/ close \/ CloseUnopened \/ Crash \/ Restart \/ IndexRemoved
    \/ \E b \in NextIrreversible : append(b) \/ AppendRefused(b)
    \/ \E n \in 1 .. MaxBlock : read_block_by_num(n)

Spec == Init /\ [][Next]_vars
-----------------------------------------------------------------------------
written == block_file \o block_buf
indexed == index_file \o index_buf

TypeOK ==
    /\ \A f \in {block_file, written} : \A i \in 1 .. Len(f) :
          IF i % 2 = 1 THEN f[i].body \in Block ELSE f[i].pos = i - 2
    /\ \A i \in 1 .. Len(indexed) : indexed[i].pos \in Nat
    /\ head \in Block \cup {NoBlock}
    /\ acked \in 0 .. MaxBlock
    /\ {block_write, index_write, is_open, throws} \subseteq BOOLEAN

\* While the log is open its head is the last block of the file, and from the
\* second block on every block can be read by its number: the index survived
\* the crash, or open() noticed that it did not and built it again
\* (block_log.cpp:120-167, the assertion of read_block_by_num at 241).
EveryBlockIsRead ==
    is_open =>
       /\ head = IF written = <<>> THEN NoBlock ELSE BlocksOf(written)[Records(written)]
       /\ Records(written) > 1 =>
             /\ Len(indexed) = Records(written)
             /\ \A n \in 1 .. head.num : BlockRead(n).num = n

\* The two files together are the durable log of the abstract specification:
\* a crash drops blocks only from the end and only those appended since the
\* last flush(), and an append adds one block with the next number.
Abstract == INSTANCE DurableLog WITH log <- BlocksOf(written), flushed <- acked

IsDurableLog == Abstract!Spec
=============================================================================
