-------------------------- MODULE UndoIndexHistory --------------------------
(***************************************************************************)
(* UndoIndex with a history variable: snaps[k] is a full copy of what the  *)
(* table held when undo state k was opened.  The variable is only written, *)
(* never read by an action, so HSpec has the behaviours of UndoIndex!Spec. *)
(* The properties say that the differences the undo states record are      *)
(* always the differences to these copies.                                 *)
(***************************************************************************)
EXTENDS UndoIndex

VARIABLE snaps

hvars == <<indices, next_id, revision, stack, sessions, failed, snaps>>

Contents == [objects |-> indices, next_id |-> next_id]

HInit == Init /\ snaps = <<>>

(* The copies follow the undo states: one is added by start_undo_session,  *)
(* the last is dropped by a squash or a completed undo, the oldest by      *)
(* commit.                                                                 *)
WriteStep ==
    /\ \/ \E v \in Value : Emplace(v)
       \/ \E i \in Ids, v \in Value : Modify(i, v)
       \/ \E i \in Ids : Remove(i)
    /\ UNCHANGED snaps

OpenStep == start_undo_session /\ snaps' = Append(snaps, Contents)

DropLast == snaps' = IF enabled /\ ~failed' THEN Pop(snaps) ELSE snaps

CloseStep == \/ SessionPush /\ UNCHANGED snaps
             \/ (SessionSquash \/ SessionUndo \/ PopRevision) /\ DropLast

CommitStep(r) ==
    /\ commit(r)
    /\ snaps' = SubSeq(snaps, Cardinality(Committed(r)) + 1, Len(snaps))

SetRevisionStep(r) == set_revision(r) /\ UNCHANGED snaps

HNext ==
    /\ ~failed
    /\ \/ WriteStep
       \/ OpenStep
       \/ CloseStep
       \/ \E r \in 0..MaxRevision : CommitStep(r) \/ SetRevisionStep(r)

HSpec == HInit /\ [][HNext]_hvars
----------------------------------------------------------------------------
(* What the table held when the undo state above number k was opened, or   *)
(* holds now: the table that undo state k is a difference to.              *)
After(k) == IF k = Len(stack) THEN Contents ELSE snaps[k + 1]

(* Undoing from any depth gives back exactly the earlier table and id      *)
(* counter, whatever creates, modifies, removes, squashes and commits      *)
(* happened since: applying undo state k to the table after it yields the  *)
(* copy taken when it was opened (generic_index::undo, squash, commit).    *)
UndoRestores ==
    ~failed =>
      /\ Len(snaps) = Len(stack)
      /\ \A k \in 1..Len(stack) :
           /\ ApplyUndo(After(k).objects, stack[k]) = snaps[k].objects
           /\ stack[k].old_next_id = snaps[k].next_id

(* The last undo states belong to the open sessions, innermost last, so a  *)
(* session that squashes or undoes "whatever is on top" always closes the  *)
(* state it opened itself, or finds the stack empty because its state was  *)
(* committed while it was open.                                            *)
SessionsOwnTheirStates ==
    ~failed =>
      \A k \in 0..(Len(stack) - 1) : k < Len(sessions) =>
        stack[Len(stack) - k].revision = sessions[Len(sessions) - k]

(* The revisions on the undo stack are consecutive and end at the current  *)
(* one, so commit(n) discards exactly the states of revisions up to n.     *)
RevisionsConsecutive ==
    \A k \in 1..Len(stack) : stack[k].revision = revision - (Len(stack) - k)

(* When no modifier changes a unique key, neither undo() nor a modify()    *)
(* ever meets a uniqueness constraint: the logic_error branches are dead.  *)
NeverFails == ~failed
----------------------------------------------------------------------------
(* The inductive invariant.  An undo state s records the difference        *)
(* between the table t after it and the table b before it: per id, at most *)
(* one of new, updated and removed (the cases of the matrix in squash()),  *)
(* updated and new objects are in t, removed ones are not.                 *)
DiffAt(t, s, b, i) ==
    /\ s.old_values[i] # Absent =>
         /\ t[i] # Absent
         /\ i \notin s.new_ids
         /\ s.removed_values[i] = Absent
         /\ ~KeysMutable => s.old_values[i].key = t[i].key
    /\ i \in s.new_ids => t[i] # Absent /\ s.removed_values[i] = Absent
    /\ s.removed_values[i] # Absent => t[i] = Absent
    /\ b[i] = IF s.removed_values[i] # Absent THEN s.removed_values[i]
              ELSE IF i \in s.new_ids THEN Absent
              ELSE IF s.old_values[i] # Absent THEN s.old_values[i]
              ELSE t[i]

Difference(t, s, b) == \A i \in Ids : DiffAt(t, s, b, i)

(* Keys are unique, and ids not yet handed out are not in the table.       *)
UniqueKeys(t) == \A i, j \in Ids :
    (t[i] # Absent /\ t[j] # Absent /\ t[i].key = t[j].key) => i = j

Coherent(c) == UniqueKeys(c.objects) /\ \A i \in Ids : i >= c.next_id => c.objects[i] = Absent

StatesAreDifferences ==
    /\ Len(snaps) = Len(stack)
    /\ Coherent(Contents)
    /\ \A k \in 1..Len(stack) :
         /\ Coherent(snaps[k])
         /\ Difference(After(k).objects, stack[k], snaps[k].objects)
         /\ stack[k].old_next_id = snaps[k].next_id
         /\ snaps[k].next_id <= After(k).next_id
         /\ \A i \in stack[k].new_ids : i >= stack[k].old_next_id

IndInv ==
    /\ TypeOK
    /\ snaps \in Seq([objects : Table, next_id : 0..(MaxId + 1)])
    /\ RevisionsConsecutive
    /\ SessionsOwnTheirStates
    /\ ~failed => StatesAreDifferences
    /\ ~KeysMutable => ~failed
----------------------------------------------------------------------------
(* The index implements the abstract stack of snapshots.                   *)
Snapshots == INSTANCE SnapshotStack WITH contents <- Contents

Refinement == Snapshots!SnapSpec
=============================================================================
