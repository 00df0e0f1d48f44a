------------------------------ MODULE UndoIndex ------------------------------
(***************************************************************************)
(* chainbase::generic_index: one table of the chain state with its undo    *)
(* stack (libraries/chainbase/include/chainbase/chainbase.hpp).  Every     *)
(* table of the node goes through these operations, and block application, *)
(* fork switching, pending transactions and proposals all rest on undo()   *)
(* giving back exactly the earlier state.                                  *)
(*                                                                         *)
(* An object is its value: a secondary key under a uniqueness constraint   *)
(* (by_name, by_external_id, ...) and the rest of its fields.  Absent      *)
(* stands for "no entry" in the table and in the maps of an undo state.    *)
(* A session object of the code lives on the C++ stack, so the open        *)
(* sessions are a sequence and only the last one can be closed.            *)
(***************************************************************************)
EXTENDS Integers, Sequences, FiniteSets

CONSTANTS Keys,         \* values of the unique secondary key
          Data,         \* values of all other fields
          Absent,       \* no entry
          MaxId,        \* bound: ids 0..MaxId are handed out
          MaxDepth,     \* bound: length of the undo stack
          MaxRevision,  \* bound: largest revision
          KeysMutable   \* may a modifier change the unique key?

Value == [key : Keys, data : Data]
Ids   == 0..MaxId
Table == [Ids -> Value \cup {Absent}]

ASSUME UndoIndexAssumption ==
    /\ MaxId \in Nat
    /\ MaxDepth \in Nat
    /\ MaxRevision \in Nat
    /\ KeysMutable \in BOOLEAN
    /\ Absent \notin Value

VARIABLES indices,    \* _indices: the objects by id
          next_id,    \* _next_id
          revision,   \* _revision
          stack,      \* _stack: the undo states, oldest first
          sessions,   \* revisions of the open sessions, outermost first
          failed      \* a std::logic_error left undo() or modify() half done

vars == <<indices, next_id, revision, stack, sessions, failed>>

UndoState == [old_values : Table, removed_values : Table, new_ids : SUBSET Ids,
              old_next_id : 0..(MaxId + 1), revision : Int]

NoObjects == [i \in Ids |-> Absent]
Present(t) == {i \in Ids : t[i] # Absent}
enabled == stack # <<>>
Top == stack[Len(stack)]
Pop(s) == SubSeq(s, 1, Len(s) - 1)

(* Does object i of table t clash with another one on the unique key?      *)
Clashes(t, i) == \E j \in Present(t) \ {i} : t[j].key = t[i].key

TypeOK ==
    /\ indices \in Table
    /\ next_id \in 0..(MaxId + 1)
    /\ revision \in Int
    /\ stack \in Seq(UndoState)
    /\ sessions \in Seq(Int)
    /\ failed \in BOOLEAN

Init ==
    /\ indices = NoObjects
    /\ next_id = 0
    /\ revision = 0
    /\ stack = <<>>
    /\ sessions = <<>>
    /\ failed = FALSE
----------------------------------------------------------------------------
(* on_create, on_modify, on_remove: what the top undo state records before *)
(* the table changes.                                                      *)
(* Faulty variant: the counter after the increment is recorded.            *)
on_create_next_id(s, i) == [s EXCEPT !.new_ids = @ \cup {i + 1}]

on_create(s, i) == [s EXCEPT !.new_ids = @ \cup {i}]

(* Faulty variant: every modification overwrites the recorded value.       *)
on_modify_latest(s, i, v) ==
    IF i \in s.new_ids THEN s ELSE [s EXCEPT !.old_values[i] = v]

on_modify(s, i, v) ==
    IF i \in s.new_ids \/ s.old_values[i] # Absent THEN s
    ELSE [s EXCEPT !.old_values[i] = v]

(* Faulty variant: the entry in old_values is kept.                        *)
on_remove_keeps_old(s, i, v) ==
    IF i \in s.new_ids THEN [s EXCEPT !.new_ids = @ \ {i}]
    ELSE [s EXCEPT !.removed_values[i] = IF s.old_values[i] # Absent THEN s.old_values[i] ELSE v]

on_remove(s, i, v) ==
    IF i \in s.new_ids THEN [s EXCEPT !.new_ids = @ \ {i}]
    ELSE IF s.old_values[i] # Absent
         THEN [s EXCEPT !.removed_values[i] = s.old_values[i],
                        !.old_values[i] = Absent]
    ELSE IF s.removed_values[i] # Absent THEN s
    ELSE [s EXCEPT !.removed_values[i] = v]

Record(newTop) == IF enabled THEN [stack EXCEPT ![Len(stack)] = newTop] ELSE stack

(* emplace: the id is handed out only when the insertion succeeds; an      *)
(* insertion that clashes throws and changes nothing.                      *)
Emplace(v) ==
    /\ next_id <= MaxId
    /\ \A j \in Present(indices) : indices[j].key # v.key
    /\ indices' = [indices EXCEPT ![next_id] = v]
    /\ stack' = Record(on_create(Top, next_id))
    /\ next_id' = next_id + 1
    /\ UNCHANGED <<revision, sessions, failed>>

(* modify: the old value is recorded first; when the new value clashes,    *)
(* multi_index::modify erases the object and logic_error is thrown.        *)
Modify(i, v) ==
    /\ i \in Present(indices)
    /\ KeysMutable \/ v.key = indices[i].key
    /\ stack' = Record(on_modify(Top, i, indices[i]))
    /\ LET changed == [indices EXCEPT ![i] = v] IN
       \/ /\ ~Clashes(changed, i)
          /\ indices' = changed
          /\ UNCHANGED failed
       \/ /\ Clashes(changed, i)
          /\ indices' = [indices EXCEPT ![i] = Absent]
          /\ failed' = TRUE
    /\ UNCHANGED <<next_id, revision, sessions>>

Remove(i) ==
    /\ i \in Present(indices)
    /\ stack' = Record(on_remove(Top, i, indices[i]))
    /\ indices' = [indices EXCEPT ![i] = Absent]
    /\ UNCHANGED <<next_id, revision, sessions, failed>>
----------------------------------------------------------------------------
start_undo_session ==
    /\ Len(stack) < MaxDepth
    /\ revision < MaxRevision
    /\ stack' = Append(stack, [old_values |-> NoObjects, removed_values |-> NoObjects,
                               new_ids |-> {}, old_next_id |-> next_id,
                               revision |-> revision + 1])
    /\ revision' = revision + 1
    /\ sessions' = Append(sessions, revision + 1)
    /\ UNCHANGED <<indices, next_id, failed>>

(* The three loops of undo(), each in the order of the ids.                *)
Restored(t, s, i) ==       \* old_values put back for the ids up to i
    [j \in Ids |-> IF j <= i /\ s.old_values[j] # Absent THEN s.old_values[j] ELSE t[j]]
Erased(t, s) ==            \* new_ids erased
    [j \in Ids |-> IF j \in s.new_ids THEN Absent ELSE t[j]]
Reinserted(t, s, i) ==     \* removed_values emplaced for the ids up to i
    [j \in Ids |-> IF j <= i /\ s.removed_values[j] # Absent THEN s.removed_values[j] ELSE t[j]]

ApplyUndo(t, s) == Reinserted(Erased(Restored(t, s, MaxId), s), s, MaxId)

(* The first loop finds the object it restores, and no other object has    *)
(* taken its key; the third loop finds id and key free.                    *)
UndoSucceeds(t, s) ==
    /\ \A i \in Present(s.old_values) : t[i] # Absent /\ ~Clashes(Restored(t, s, i), i)
    /\ LET e == Erased(Restored(t, s, MaxId), s) IN
       \A i \in Present(s.removed_values) : e[i] = Absent /\ ~Clashes(Reinserted(e, s, i), i)

(* What a failing undo leaves behind: multi_index::modify erases the object *)
(* it cannot restore; emplace leaves the object it cannot insert out.  The  *)
(* undo state stays on the stack and the revision is not reduced.           *)
HalfUndone(t, s) ==
    LET bad1 == {i \in Present(s.old_values) : t[i] = Absent \/ Clashes(Restored(t, s, i), i)}
        e    == Erased(Restored(t, s, MaxId), s)
        bad3 == {i \in Present(s.removed_values) : e[i] # Absent \/ Clashes(Reinserted(e, s, i), i)}
        first(S) == CHOOSE i \in S : \A j \in S : i <= j
    IN IF bad1 # {}
       THEN [objects |-> [Restored(t, s, first(bad1)) EXCEPT ![first(bad1)] = Absent],
             next_id |-> next_id]
       ELSE [objects |-> Reinserted(e, s, first(bad3) - 1), next_id |-> s.old_next_id]

(* Faulty variant: the id counter is not set back.                         *)
UndoTopKeepsNextId ==
    /\ IF UndoSucceeds(indices, Top)
       THEN /\ indices' = ApplyUndo(indices, Top)
            /\ stack' = Pop(stack)
            /\ revision' = revision - 1
            /\ UNCHANGED failed
       ELSE /\ indices' = HalfUndone(indices, Top).objects
            /\ failed' = TRUE
            /\ UNCHANGED <<stack, revision>>
    /\ UNCHANGED next_id

UndoTop ==
    IF UndoSucceeds(indices, Top)
    THEN /\ indices' = ApplyUndo(indices, Top)
         /\ next_id' = Top.old_next_id
         /\ stack' = Pop(stack)
         /\ revision' = revision - 1
         /\ UNCHANGED failed
    ELSE /\ failed' = TRUE
         /\ indices' = HalfUndone(indices, Top).objects
         /\ next_id' = HalfUndone(indices, Top).next_id
         /\ UNCHANGED <<stack, revision>>

undo == IF enabled THEN UndoTop
        ELSE UNCHANGED <<indices, next_id, stack, revision, failed>>

(* Faulty variant: the merged state keeps the revision of the later one.   *)
MergeStatesLater(prev, s) ==
    [prev EXCEPT !.old_values = [i \in Ids |-> IF @[i] # Absent THEN @[i] ELSE s.old_values[i]],
                 !.new_ids = @ \cup s.new_ids,
                 !.revision = s.revision]

(* squash: state is merged into prev_state, per object, with the composition *)
(* table of the code; a lone undo state is dropped and the revision kept.  *)
MergeStates(prev, s) ==
    LET fresh == Present(s.old_values) \ (prev.new_ids \cup Present(prev.old_values))
        old1  == [i \in Ids |-> IF i \in fresh THEN s.old_values[i] ELSE prev.old_values[i]]
        new1  == prev.new_ids \cup s.new_ids
        gone  == Present(s.removed_values)
        moved == {i \in gone \ new1 : old1[i] # Absent}
    IN [prev EXCEPT
          !.old_values = [i \in Ids |-> IF i \in moved THEN Absent ELSE old1[i]],
          !.new_ids = new1 \ gone,
          !.removed_values = [i \in Ids |->
              IF i \in moved THEN old1[i]
              ELSE IF i \in gone \ new1 THEN s.removed_values[i]
              ELSE prev.removed_values[i]]]

(* Faulty variant: the revision is not reduced.                            *)
squash_keeps_revision ==
    /\ stack' = IF Len(stack) <= 1 THEN <<>>
                ELSE Append(SubSeq(stack, 1, Len(stack) - 2),
                            MergeStates(stack[Len(stack) - 1], Top))
    /\ UNCHANGED <<indices, next_id, revision, failed>>

squash ==
    /\ IF Len(stack) <= 1
       THEN stack' = <<>> /\ UNCHANGED revision
       ELSE /\ stack' = Append(SubSeq(stack, 1, Len(stack) - 2),
                               MergeStates(stack[Len(stack) - 1], Top))
            /\ revision' = revision - 1
    /\ UNCHANGED <<indices, next_id, failed>>

(* commit: undo states up to revision r are discarded from the front.      *)
Committed(r) == {k \in 1..Len(stack) : \A j \in 1..k : stack[j].revision <= r}
commit(r) ==
    /\ stack' = SubSeq(stack, Cardinality(Committed(r)) + 1, Len(stack))
    /\ UNCHANGED <<indices, next_id, revision, sessions, failed>>
----------------------------------------------------------------------------
(* The session object: push() leaves the undo state on the stack, squash() *)
(* and undo() work on whatever state is the last one when they are called. *)
(* push() is used by _push_block() only, which opens its session after the *)
(* pending session was closed: no other session is open.                   *)
SessionPush   == Len(sessions) = 1 /\ sessions' = Pop(sessions)
                 /\ UNCHANGED <<indices, next_id, revision, stack, failed>>
SessionSquash == sessions # <<>> /\ sessions' = Pop(sessions) /\ squash
SessionUndo   == sessions # <<>> /\ sessions' = Pop(sessions) /\ undo

(* database::pop_block() and open() undo whole revisions, with no session  *)
(* open; undo_all() is undo() until the stack is empty.                    *)
PopRevision == sessions = <<>> /\ enabled /\ undo /\ UNCHANGED sessions

set_revision(r) ==
    /\ stack = <<>>
    /\ sessions = <<>>
    /\ revision' = r
    /\ UNCHANGED <<indices, next_id, stack, sessions, failed>>

Next ==
    /\ ~failed
    /\ \/ \E v \in Value : Emplace(v)
       \/ \E i \in Ids, v \in Value : Modify(i, v)
       \/ \E i \in Ids : Remove(i)
       \/ start_undo_session
       \/ SessionPush
       \/ SessionSquash
       \/ SessionUndo
       \/ PopRevision
       \/ \E r \in 0..MaxRevision : commit(r) \/ set_revision(r)

Spec == Init /\ [][Next]_vars
=============================================================================
