---------------------------- MODULE SnapshotStack ----------------------------
(***************************************************************************)
(* What an index with undo sessions promises to its users, stated without  *)
(* any change log: the contents of the index, and a stack with one full    *)
(* copy of the contents for every revision that can still be undone.       *)
(* chainbase's generic_index (module UndoIndex) keeps only the difference  *)
(* to each earlier revision; UndoIndexHistory shows that it implements  *)
(* this specification.                                                     *)
(***************************************************************************)
EXTENDS Integers, Sequences

VARIABLES contents,   \* what the index holds now, with the id given next
          snaps       \* what it held when each undoable revision began

svars == <<contents, snaps>>

SnapInit == snaps = <<>>

(* create, modify and remove change the contents, never the past.          *)
Write == UNCHANGED snaps

StartRevision == /\ snaps' = Append(snaps, contents)
                 /\ UNCHANGED contents

(* undo: the contents are again what they were when the revision began.    *)
UndoRevision == /\ snaps # <<>>
                /\ contents' = snaps[Len(snaps)]
                /\ snaps' = SubSeq(snaps, 1, Len(snaps) - 1)

(* squash: the last revision becomes part of the one before it.            *)
SquashRevision == /\ snaps # <<>>
                  /\ snaps' = SubSeq(snaps, 1, Len(snaps) - 1)
                  /\ UNCHANGED contents

(* commit: the n oldest revisions can no longer be undone.                 *)
CommitRevisions == /\ \E n \in 0..Len(snaps) : snaps' = SubSeq(snaps, n + 1, Len(snaps))
                   /\ UNCHANGED contents

SnapNext == \/ Write
            \/ StartRevision
            \/ UndoRevision
            \/ SquashRevision
            \/ CommitRevisions

SnapSpec == SnapInit /\ [][SnapNext]_svars
=============================================================================
