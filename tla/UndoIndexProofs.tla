--------------------------- MODULE UndoIndexProofs ---------------------------
(***************************************************************************)
(* Proofs about UndoIndexHistory, for any set of keys and data and for any *)
(* bounds.  The lemmas say what one operation does to the difference that  *)
(* an undo state records; the inductive invariant IndInv lifts them to the *)
(* whole undo stack.                                                       *)
(***************************************************************************)
EXTENDS UndoIndexHistory, SequenceTheorems, FiniteSetTheorems, TLAPS

NextIds == 0..(MaxId + 1)
SnapType == [objects : Table, next_id : NextIds]
----------------------------------------------------------------------------
(* Applying an undo state that is a difference yields the table before it. *)
LEMMA UndoOfDifference ==
    ASSUME NEW t \in Table, NEW s \in UndoState, NEW b \in Table, Difference(t, s, b)
    PROVE  ApplyUndo(t, s) = b
<1>1. ApplyUndo(t, s) \in [Ids -> Value \cup {Absent}]
  BY UndoIndexAssumption DEF ApplyUndo, Reinserted, Erased, Restored, UndoState, Table, Ids
<1>2. ASSUME NEW i \in Ids PROVE ApplyUndo(t, s)[i] = b[i]
  <2>1. DiffAt(t, s, b, i)
    BY DEF Difference
  <2>2. i <= MaxId
    BY UndoIndexAssumption DEF Ids
  <2> QED
    BY <2>1, <2>2 DEF DiffAt, ApplyUndo, Reinserted, Erased, Restored
<1> QED
  BY <1>1, <1>2 DEF Table

(* on_create: a new object is recorded as new.                             *)
LEMMA CreateKeepsDifference ==
    ASSUME NEW t \in Table, NEW s \in UndoState, NEW b \in Table, Difference(t, s, b),
           NEW n \in Ids, t[n] = Absent, b[n] = Absent, NEW v \in Value
    PROVE  /\ on_create(s, n) \in UndoState
           /\ Difference([t EXCEPT ![n] = v], on_create(s, n), b)
<1>1. on_create(s, n) \in UndoState
  BY DEF on_create, UndoState
<1>2. ASSUME NEW i \in Ids PROVE DiffAt([t EXCEPT ![n] = v], on_create(s, n), b, i)
  <2>1. DiffAt(t, s, b, i) /\ DiffAt(t, s, b, n)
    BY DEF Difference
  <2>2. v # Absent
    BY UndoIndexAssumption
  <2> QED
    BY <2>1, <2>2 DEF DiffAt, on_create, UndoState, Table
<1> QED
  BY <1>1, <1>2 DEF Difference

(* on_modify: the first value within the revision is the one kept.         *)
LEMMA ModifyKeepsDifference ==
    ASSUME NEW t \in Table, NEW s \in UndoState, NEW b \in Table, Difference(t, s, b),
           NEW n \in Ids, t[n] # Absent, NEW v \in Value, KeysMutable \/ v.key = t[n].key
    PROVE  /\ on_modify(s, n, t[n]) \in UndoState
           /\ Difference([t EXCEPT ![n] = v], on_modify(s, n, t[n]), b)
<1>1. on_modify(s, n, t[n]) \in UndoState
  BY DEF on_modify, UndoState, Table
<1>2. ASSUME NEW i \in Ids PROVE DiffAt([t EXCEPT ![n] = v], on_modify(s, n, t[n]), b, i)
  <2>1. DiffAt(t, s, b, i) /\ DiffAt(t, s, b, n)
    BY DEF Difference
  <2>2. v # Absent
    BY UndoIndexAssumption
  <2>3. CASE i = n
    BY <2>1, <2>2, <2>3 DEF DiffAt, on_modify, UndoState, Table
  <2>4. CASE i # n
    BY <2>1, <2>2, <2>4 DEF DiffAt, on_modify, UndoState, Table
  <2> QED
    BY <2>3, <2>4
<1> QED
  BY <1>1, <1>2 DEF Difference

(* on_remove: new objects are forgotten, others keep their first value.    *)
LEMMA RemoveKeepsDifference ==
    ASSUME NEW t \in Table, NEW s \in UndoState, NEW b \in Table, Difference(t, s, b),
           NEW n \in Ids, t[n] # Absent
    PROVE  /\ on_remove(s, n, t[n]) \in UndoState
           /\ Difference([t EXCEPT ![n] = Absent], on_remove(s, n, t[n]), b)
<1>1. on_remove(s, n, t[n]) \in UndoState
  BY DEF on_remove, UndoState, Table
<1>2. ASSUME NEW i \in Ids PROVE DiffAt([t EXCEPT ![n] = Absent], on_remove(s, n, t[n]), b, i)
  <2>1. DiffAt(t, s, b, i) /\ DiffAt(t, s, b, n)
    BY DEF Difference
  <2>3. CASE i = n
    BY <2>1, <2>3 DEF DiffAt, on_remove, UndoState, Table
  <2>4. CASE i # n
    BY <2>1, <2>4 DEF DiffAt, on_remove, UndoState, Table
  <2> QED
    BY <2>3, <2>4
<1> QED
  BY <1>1, <1>2 DEF Difference

(* squash: the merged undo state is the difference over both revisions.    *)
LEMMA MergeKeepsDifference ==
    ASSUME NEW t \in Table, NEW s \in UndoState, NEW m \in Table, Difference(t, s, m),
           NEW p \in UndoState, NEW b \in Table, Difference(m, p, b),
           \A i \in s.new_ids : b[i] = Absent
    PROVE  /\ MergeStates(p, s) \in UndoState
           /\ MergeStates(p, s).old_next_id = p.old_next_id
           /\ MergeStates(p, s).revision = p.revision
           /\ MergeStates(p, s).new_ids \subseteq p.new_ids \cup s.new_ids
           /\ Difference(t, MergeStates(p, s), b)
<1> DEFINE M     == MergeStates(p, s)
           fresh == Present(s.old_values) \ (p.new_ids \cup Present(p.old_values))
           old1  == [i \in Ids |-> IF i \in fresh THEN s.old_values[i] ELSE p.old_values[i]]
           new1  == p.new_ids \cup s.new_ids
           gone  == Present(s.removed_values)
           moved == {i \in gone \ new1 : old1[i] # Absent}
           oldV  == [i \in Ids |-> IF i \in moved THEN Absent ELSE old1[i]]
           remV  == [i \in Ids |-> IF i \in moved THEN old1[i]
                                  ELSE IF i \in gone \ new1 THEN s.removed_values[i]
                                  ELSE p.removed_values[i]]
<1>1. M = [p EXCEPT !.old_values = oldV, !.new_ids = new1 \ gone, !.removed_values = remV]
  BY DEF MergeStates
<1>2. oldV \in Table /\ remV \in Table /\ new1 \ gone \in SUBSET Ids
  BY SMTT(30) DEF UndoState, Table
<1> HIDE DEF M
<1>3. /\ M \in UndoState
      /\ M.old_next_id = p.old_next_id
      /\ M.revision = p.revision
      /\ M.new_ids = new1 \ gone
      /\ M.old_values = oldV
      /\ M.removed_values = remV
  BY <1>1, <1>2 DEF UndoState
<1>4. ASSUME NEW i \in Ids PROVE DiffAt(t, M, b, i)
  <2>1. DiffAt(t, s, m, i) /\ DiffAt(m, p, b, i) /\ (i \in s.new_ids => b[i] = Absent)
    BY DEF Difference
  <2> DEFINE so == s.old_values[i]
             po == p.old_values[i]
             sr == s.removed_values[i]
             pr == p.removed_values[i]
  <2>2. /\ (i \in fresh) <=> (so # Absent /\ i \notin p.new_ids /\ po = Absent)
        /\ (i \in gone) <=> sr # Absent
        /\ (i \in new1) <=> (i \in p.new_ids \/ i \in s.new_ids)
        /\ old1[i] = IF i \in fresh THEN so ELSE po
    BY DEF Present
  <2>3. (i \in moved) <=> (i \in gone /\ i \notin new1 /\ old1[i] # Absent)
    OBVIOUS
  <2>4. /\ oldV[i] = IF i \in moved THEN Absent ELSE old1[i]
        /\ remV[i] = IF i \in moved THEN old1[i]
                     ELSE IF i \in gone \ new1 THEN sr ELSE pr
    OBVIOUS
  <2> HIDE DEF fresh, old1, new1, gone, moved, oldV, remV
  <2> QED
    BY <1>3, <2>1, <2>2, <2>3, <2>4 DEF DiffAt
<1> QED
  BY <1>3, <1>4 DEF Difference, M

(* Without key changes undo() never meets a uniqueness constraint: putting *)
(* old values back changes no key, and what is re-inserted is part of the  *)
(* table before, whose keys are unique.                                    *)
LEMMA UndoSucceedsOnFixedKeys ==
    ASSUME ~KeysMutable, NEW t \in Table, NEW s \in UndoState, NEW b \in Table,
           Difference(t, s, b), UniqueKeys(t), UniqueKeys(b)
    PROVE  UndoSucceeds(t, s)
<1> DEFINE e == Erased(Restored(t, s, MaxId), s)
<1>1. ASSUME NEW i \in Present(s.old_values)
      PROVE  t[i] # Absent /\ ~Clashes(Restored(t, s, i), i)
  <2>1. i \in Ids /\ t[i] # Absent
    BY DEF Present, Difference, DiffAt
  <2> DEFINE r == Restored(t, s, i)
  <2>2. ASSUME NEW j \in Ids, r[j] # Absent
        PROVE  t[j] # Absent /\ r[j].key = t[j].key
    BY <2>2 DEF Restored, Difference, DiffAt
  <2>3. r[i] # Absent
    BY <2>1 DEF Restored, Present, Ids
  <2> HIDE DEF r
  <2>4. ASSUME NEW j \in Present(r) \ {i}, r[j].key = r[i].key PROVE FALSE
    <3>1. j \in Ids /\ r[j] # Absent /\ j # i
      BY DEF Present
    <3>2. t[j].key = t[i].key /\ t[j] # Absent
      BY <2>1, <2>2, <2>3, <2>4, <3>1
    <3> QED
      BY <2>1, <3>1, <3>2 DEF UniqueKeys
  <2> QED
    BY <2>1, <2>4 DEF Clashes, r
<1>2. ASSUME NEW i \in Present(s.removed_values)
      PROVE  e[i] = Absent /\ ~Clashes(Reinserted(e, s, i), i)
  <2>1. i \in Ids /\ s.removed_values[i] # Absent
    BY DEF Present
  <2>2. e[i] = Absent
    BY <2>1 DEF Erased, Restored, Difference, DiffAt
  <2> DEFINE r == Reinserted(e, s, i)
  <2>3. ASSUME NEW j \in Ids PROVE r[j] = Absent \/ r[j] = b[j]
    <3>1. DiffAt(t, s, b, j) /\ j <= MaxId
      BY UndoIndexAssumption DEF Difference, Ids
    <3> QED
      BY <3>1 DEF Reinserted, Erased, Restored, DiffAt
  <2>4. r[i] # Absent
    BY <2>1 DEF Reinserted, Ids
  <2> HIDE DEF r
  <2> QED
    BY <2>1, <2>2, <2>3, <2>4 DEF Clashes, Present, UniqueKeys, r
<1> QED
  BY <1>1, <1>2 DEF UndoSucceeds
----------------------------------------------------------------------------
\* The invariant holds for an empty table.
LEMMA InitEstablishes == HInit => IndInv
<1> SUFFICES ASSUME HInit PROVE IndInv
  OBVIOUS
<1> USE UndoIndexAssumption DEF HInit, Init
<1>1. TypeOK
  BY DEF TypeOK, NoObjects, Table, Ids
<1>2. snaps \in Seq([objects : Table, next_id : 0..(MaxId + 1)])
  OBVIOUS
<1>3. RevisionsConsecutive /\ SessionsOwnTheirStates
  BY DEF RevisionsConsecutive, SessionsOwnTheirStates
<1>4. StatesAreDifferences
  BY DEF StatesAreDifferences, Coherent, UniqueKeys, Contents, NoObjects, Ids
<1> QED
  BY <1>1, <1>2, <1>3, <1>4 DEF IndInv

(* Record() replaces the last undo state, if there is one.                 *)
LEMMA RecordReplacesTop ==
    ASSUME stack \in Seq(UndoState), NEW top, enabled => top \in UndoState
    PROVE  /\ Record(top) \in Seq(UndoState)
           /\ Len(Record(top)) = Len(stack)
           /\ \A k \in 1..Len(stack) : k < Len(stack) => Record(top)[k] = stack[k]
           /\ Len(stack) > 0 => Record(top)[Len(stack)] = top
BY DEF Record, enabled

(* A create, modify or remove that succeeds changes the table and the last *)
(* undo state only; the invariant survives if that state is still the      *)
(* difference to its copy.                                                 *)
LEMMA WritePreserves ==
    ASSUME IndInv, ~failed, UNCHANGED <<failed, revision, sessions, snaps>>,
           indices' \in Table, next_id' \in NextIds, next_id <= next_id', Coherent(Contents'),
           NEW top, stack' = Record(top),
           enabled => /\ top \in UndoState
                      /\ top.revision = Top.revision
                      /\ top.old_next_id = Top.old_next_id
                      /\ \A i \in top.new_ids : i >= top.old_next_id
                      /\ Difference(indices', top, snaps[Len(stack)].objects)
    PROVE  IndInv'
<1> USE DEF IndInv
<1>0. StatesAreDifferences /\ Len(stack) \in Nat /\ stack \in Seq(UndoState) /\ Len(snaps) = Len(stack)
  BY DEF TypeOK, StatesAreDifferences
<1>1. /\ stack' \in Seq(UndoState)
      /\ Len(stack') = Len(stack)
      /\ \A k \in 1..Len(stack) : k < Len(stack) => stack'[k] = stack[k]
      /\ Len(stack) > 0 => stack'[Len(stack)] = top
  BY <1>0, RecordReplacesTop
<1>2. \A k \in 1..Len(stack) : stack'[k].revision = stack[k].revision
  BY <1>0, <1>1 DEF enabled, Top
<1>3. TypeOK'
  BY <1>1 DEF TypeOK, NextIds
<1>4. RevisionsConsecutive'
  BY <1>1, <1>2 DEF RevisionsConsecutive
<1>5. SessionsOwnTheirStates'
  BY <1>0, <1>1, <1>2 DEF SessionsOwnTheirStates
<1>6. StatesAreDifferences'
  <2>1. Coherent(Contents)' /\ Len(snaps') = Len(stack')
    BY <1>0, <1>1
  <2>2. ASSUME NEW k \in 1..Len(stack)
        PROVE  /\ Coherent(snaps'[k])
               /\ Difference(After(k)'.objects, stack'[k], snaps'[k].objects)
               /\ stack'[k].old_next_id = snaps'[k].next_id
               /\ snaps'[k].next_id <= After(k)'.next_id
               /\ \A i \in stack'[k].new_ids : i >= stack'[k].old_next_id
    <3>1. CASE k < Len(stack)
      <4>1. After(k)' = After(k) /\ stack'[k] = stack[k]
        BY <3>1, <1>0, <1>1 DEF After
      <4> QED
        BY <4>1, <1>0 DEF StatesAreDifferences
    <3>2. CASE k = Len(stack)
      <4>1. /\ After(k) = Contents /\ After(k)' = Contents'
            /\ stack'[k] = top /\ enabled /\ Top = stack[k]
        BY <3>2, <1>0, <1>1 DEF After, enabled, Top
      <4>2. snaps[k].next_id <= next_id /\ snaps[k].next_id \in NextIds /\ next_id \in NextIds
        <5>1. snaps[k] \in SnapType
          <6>1. snaps \in Seq(SnapType)
            BY DEF SnapType, NextIds
          <6> QED
            BY <6>1, <1>0
        <5>2. snaps[k].next_id <= next_id
          BY <4>1, <1>0 DEF StatesAreDifferences, Contents
        <5> QED
          BY <5>1, <5>2 DEF TypeOK, SnapType, NextIds
      <4>3. snaps[k].next_id <= next_id'
        BY <4>2, UndoIndexAssumption DEF NextIds
      <4> QED
        BY <3>2, <4>1, <4>3, <1>0 DEF StatesAreDifferences, Contents
    <3> QED
      BY <3>1, <3>2, <1>0
  <2> QED
    BY <1>1, <2>1, <2>2 DEF StatesAreDifferences
<1> QED
  BY <1>3, <1>4, <1>5, <1>6

\* Creating an object keeps the invariant.
LEMMA EmplacePreserves ==
    ASSUME IndInv, ~failed, NEW v \in Value, Emplace(v), UNCHANGED snaps
    PROVE  IndInv'
<1> DEFINE top == on_create(Top, next_id)
<1>1. /\ indices \in Table /\ next_id \in Ids /\ stack \in Seq(UndoState)
      /\ StatesAreDifferences /\ Len(snaps) = Len(stack)
      /\ snaps \in Seq(SnapType)
  BY UndoIndexAssumption DEF IndInv, TypeOK, Emplace, Ids, StatesAreDifferences, SnapType, NextIds
<1>2. indices' \in Table /\ next_id' \in NextIds /\ next_id <= next_id'
  BY <1>1, UndoIndexAssumption DEF Emplace, Table, NextIds, Ids
<1>3. indices[next_id] = Absent /\ v # Absent
  BY <1>1, UndoIndexAssumption DEF StatesAreDifferences, Coherent, Contents, Ids
<1>4. Coherent(Contents')
  <2>1. UniqueKeys(indices')
    <3>1. UniqueKeys(indices)
      BY <1>1 DEF StatesAreDifferences, Coherent, Contents
    <3> QED
      BY <1>1, <3>1 DEF Emplace, UniqueKeys, Present, Table
  <2>2. \A i \in Ids : i >= next_id' => indices'[i] = Absent
    BY <1>1 DEF Emplace, StatesAreDifferences, Coherent, Contents, Table, Ids
  <2> QED
    BY <2>1, <2>2 DEF Coherent, Contents
<1>5. ASSUME enabled
      PROVE  /\ top \in UndoState
             /\ top.revision = Top.revision
             /\ top.old_next_id = Top.old_next_id
             /\ \A i \in top.new_ids : i >= top.old_next_id
             /\ Difference(indices', top, snaps[Len(stack)].objects)
  <2> DEFINE n == Len(stack)
  <2>1. n \in 1..Len(stack) /\ Top = stack[n] /\ Top \in UndoState /\ snaps[n] \in SnapType
    BY <1>1, <1>5 DEF enabled, Top
  <2>2. /\ Difference(indices, Top, snaps[n].objects)
        /\ Coherent(snaps[n])
        /\ snaps[n].next_id <= next_id
        /\ Top.old_next_id = snaps[n].next_id
        /\ \A i \in Top.new_ids : i >= Top.old_next_id
    BY <1>1, <2>1 DEF StatesAreDifferences, After, Contents
  <2>3. snaps[n].objects \in Table /\ snaps[n].objects[next_id] = Absent
    BY <1>1, <2>1, <2>2 DEF SnapType, Coherent
  <2>4. top \in UndoState /\ Difference(indices', top, snaps[n].objects)
    BY <1>1, <1>3, <2>1, <2>2, <2>3, CreateKeepsDifference DEF Emplace
  <2>5. /\ top.revision = Top.revision
        /\ top.old_next_id = Top.old_next_id
        /\ top.new_ids = Top.new_ids \cup {next_id}
    BY <2>1 DEF on_create, UndoState
  <2> QED
    BY <2>2, <2>4, <2>5
<1> QED
  BY <1>2, <1>4, <1>5, WritePreserves DEF Emplace

\* Removing an object keeps it.
LEMMA RemovePreserves ==
    ASSUME IndInv, ~failed, NEW r \in Ids, Remove(r), UNCHANGED snaps
    PROVE  IndInv'
<1> DEFINE top == on_remove(Top, r, indices[r])
<1>1. /\ indices \in Table /\ next_id \in NextIds /\ stack \in Seq(UndoState)
      /\ StatesAreDifferences /\ Len(snaps) = Len(stack)
      /\ snaps \in Seq(SnapType)
  BY DEF IndInv, TypeOK, StatesAreDifferences, SnapType, NextIds
<1>2. indices' \in Table /\ next_id' \in NextIds /\ next_id <= next_id'
  BY <1>1, UndoIndexAssumption DEF Remove, Table, NextIds
<1>3. indices[r] # Absent
  BY DEF Remove, Present
<1>4. Coherent(Contents')
  BY <1>1 DEF Remove, StatesAreDifferences, Coherent, Contents, UniqueKeys, Table
<1>5. ASSUME enabled
      PROVE  /\ top \in UndoState
             /\ top.revision = Top.revision
             /\ top.old_next_id = Top.old_next_id
             /\ \A i \in top.new_ids : i >= top.old_next_id
             /\ Difference(indices', top, snaps[Len(stack)].objects)
  <2> DEFINE n == Len(stack)
  <2>1. n \in 1..Len(stack) /\ Top = stack[n] /\ Top \in UndoState /\ snaps[n] \in SnapType
    BY <1>1, <1>5 DEF enabled, Top
  <2>2. /\ Difference(indices, Top, snaps[n].objects)
        /\ \A i \in Top.new_ids : i >= Top.old_next_id
    BY <1>1, <2>1 DEF StatesAreDifferences, After, Contents
  <2>3. snaps[n].objects \in Table
    BY <2>1 DEF SnapType
  <2>4. top \in UndoState /\ Difference(indices', top, snaps[n].objects)
    BY <1>1, <1>3, <2>1, <2>2, <2>3, RemoveKeepsDifference DEF Remove
  <2>5. /\ top.revision = Top.revision
        /\ top.old_next_id = Top.old_next_id
        /\ top.new_ids \subseteq Top.new_ids
    BY <2>1 DEF on_remove, UndoState
  <2> QED
    BY <2>2, <2>4, <2>5
<1> QED
  BY <1>2, <1>4, <1>5, WritePreserves DEF Remove

\* Modifying an object keeps it.
LEMMA ModifyPreserves ==
    ASSUME IndInv, ~failed, NEW m \in Ids, NEW v \in Value, Modify(m, v), UNCHANGED snaps
    PROVE  IndInv'
<1> DEFINE top     == on_modify(Top, m, indices[m])
           changed == [indices EXCEPT ![m] = v]
<1>1. /\ indices \in Table /\ next_id \in NextIds /\ stack \in Seq(UndoState)
      /\ StatesAreDifferences /\ Len(snaps) = Len(stack)
      /\ snaps \in Seq(SnapType)
  BY DEF IndInv, TypeOK, StatesAreDifferences, SnapType, NextIds
<1>2. indices[m] # Absent /\ v # Absent
  BY UndoIndexAssumption DEF Modify, Present
<1>3. changed \in Table
  BY <1>1 DEF Table
<1>4. ASSUME enabled
      PROVE  /\ top \in UndoState
             /\ top.revision = Top.revision
             /\ top.old_next_id = Top.old_next_id
             /\ \A i \in top.new_ids : i >= top.old_next_id
             /\ Difference(changed, top, snaps[Len(stack)].objects)
  <2> DEFINE n == Len(stack)
  <2>1. n \in 1..Len(stack) /\ Top = stack[n] /\ Top \in UndoState /\ snaps[n] \in SnapType
    BY <1>1, <1>4 DEF enabled, Top
  <2>2. /\ Difference(indices, Top, snaps[n].objects)
        /\ \A i \in Top.new_ids : i >= Top.old_next_id
    BY <1>1, <2>1 DEF StatesAreDifferences, After, Contents
  <2>3. snaps[n].objects \in Table
    BY <2>1 DEF SnapType
  <2>4. top \in UndoState /\ Difference(changed, top, snaps[n].objects)
    BY <1>1, <1>2, <2>1, <2>2, <2>3, ModifyKeepsDifference DEF Modify
  <2>5. /\ top.revision = Top.revision
        /\ top.old_next_id = Top.old_next_id
        /\ top.new_ids = Top.new_ids
    BY <2>1 DEF on_modify, UndoState
  <2> QED
    BY <2>2, <2>4, <2>5
<1>5. CASE ~Clashes(changed, m)
  <2>1. indices' = changed /\ UNCHANGED failed
    BY <1>5 DEF Modify
  <2>2. Coherent(Contents')
    <3>1. UniqueKeys(indices) /\ \A i \in Ids : i >= next_id => indices[i] = Absent
      BY <1>1 DEF StatesAreDifferences, Coherent, Contents
    <3>2. UniqueKeys(changed)
      BY <1>1, <1>2, <1>5, <3>1 DEF UniqueKeys, Clashes, Present, Table
    <3>3. \A i \in Ids : i >= next_id => changed[i] = Absent
      BY <1>1, <1>2, <3>1 DEF Table
    <3> QED
      BY <2>1, <3>2, <3>3 DEF Coherent, Contents, Modify
  <2>3. next_id' \in NextIds /\ next_id <= next_id'
    BY <1>1, UndoIndexAssumption DEF Modify, NextIds
  <2> QED
    BY <1>3, <1>4, <2>1, <2>2, <2>3, WritePreserves DEF Modify
<1>6. CASE Clashes(changed, m)
  <2>1. failed' = TRUE /\ indices' \in Table /\ UNCHANGED <<next_id, revision, sessions>>
    BY <1>1, <1>6 DEF Modify, Table
  <2>2. /\ stack' \in Seq(UndoState)
        /\ Len(stack') = Len(stack)
        /\ \A k \in 1..Len(stack) : stack'[k].revision = stack[k].revision
    <3>1. stack' = Record(top)
      BY DEF Modify
    <3>2. enabled => top \in UndoState /\ top.revision = stack[Len(stack)].revision
      BY <1>4 DEF Top
    <3> HIDE DEF top
    <3> QED
      BY <1>1, <3>1, <3>2, RecordReplacesTop DEF enabled
  <2>3. TypeOK' /\ RevisionsConsecutive' /\ SessionsOwnTheirStates'
    <3>1. TypeOK'
      BY <2>1, <2>2 DEF IndInv, TypeOK
    <3>2. RevisionsConsecutive'
      BY <2>1, <2>2 DEF IndInv, RevisionsConsecutive
    <3> QED
      BY <2>1, <3>1, <3>2 DEF SessionsOwnTheirStates
  <2>4. KeysMutable
    <3>1. SUFFICES ASSUME ~KeysMutable PROVE FALSE
      OBVIOUS
    <3>2. v.key = indices[m].key /\ UniqueKeys(indices)
      BY <3>1, <1>1 DEF Modify, StatesAreDifferences, Coherent, Contents
    <3>3. PICK j \in Ids \ {m} : changed[j] # Absent /\ changed[j].key = changed[m].key
      BY <1>6 DEF Clashes, Present
    <3>4. changed[j] = indices[j] /\ changed[m] = v
      BY <1>1 DEF Table
    <3> QED
      BY <1>2, <3>2, <3>3, <3>4 DEF UniqueKeys
  <2> QED
    BY <2>1, <2>3, <2>4 DEF IndInv
<1> QED
  BY <1>5, <1>6
----------------------------------------------------------------------------
\* Opening a session keeps it: an empty difference.
LEMMA OpenPreserves == ASSUME IndInv, ~failed, OpenStep PROVE IndInv'
<1> DEFINE n   == Len(stack)
           new == [old_values |-> NoObjects, removed_values |-> NoObjects, new_ids |-> {},
                   old_next_id |-> next_id, revision |-> revision + 1]
<1>1. /\ indices \in Table /\ next_id \in NextIds /\ stack \in Seq(UndoState)
      /\ StatesAreDifferences /\ Len(snaps) = n /\ n \in Nat
      /\ snaps \in Seq(SnapType) /\ revision \in Int /\ sessions \in Seq(Int)
  BY DEF IndInv, TypeOK, StatesAreDifferences, SnapType, NextIds
<1>2. new \in UndoState /\ Contents \in SnapType
  BY <1>1 DEF UndoState, NoObjects, Table, Contents, SnapType, NextIds
<1>3. /\ stack' = Append(stack, new) /\ snaps' = Append(snaps, Contents)
      /\ sessions' = Append(sessions, revision + 1) /\ revision' = revision + 1
      /\ UNCHANGED <<indices, next_id, failed>>
  BY DEF OpenStep, start_undo_session
<1> HIDE DEF new
<1>4. /\ stack' \in Seq(UndoState) /\ Len(stack') = n + 1
      /\ \A k \in 1..n : stack'[k] = stack[k]
      /\ stack'[n + 1] = new
  BY <1>1, <1>2, <1>3
<1>5. /\ snaps' \in Seq(SnapType) /\ Len(snaps') = n + 1
      /\ \A k \in 1..n : snaps'[k] = snaps[k]
      /\ snaps'[n + 1] = Contents
  BY <1>1, <1>2, <1>3
<1>6. new.revision = revision + 1 /\ new.old_next_id = next_id /\ new.new_ids = {}
  BY DEF new
<1>7. TypeOK'
  BY <1>1, <1>3, <1>4 DEF IndInv, TypeOK, NextIds
<1>8. RevisionsConsecutive'
  BY <1>1, <1>3, <1>4, <1>6 DEF IndInv, RevisionsConsecutive
<1>9. SessionsOwnTheirStates'
  <2> DEFINE q == Len(sessions)
  <2>1. /\ q \in Nat /\ Len(sessions') = q + 1 /\ sessions'[q + 1] = revision + 1
        /\ \A j \in 1..q : sessions'[j] = sessions[j]
    BY <1>1, <1>3
  <2>2. \A k \in 0..(n - 1) : k < q => stack[n - k].revision = sessions[q - k]
    BY DEF IndInv, SessionsOwnTheirStates
  <2> HIDE DEF n, q
  <2>3. ASSUME NEW k \in 0..n, k < q + 1
        PROVE  stack'[n + 1 - k].revision = sessions'[q + 1 - k]
    <3>1. CASE k = 0
      BY <3>1, <1>1, <1>4, <1>6, <2>1
    <3>2. CASE k # 0
      <4>1. k - 1 \in 0..(n - 1) /\ k - 1 < q
        BY <3>2, <2>3, <1>1, <2>1
      <4>2. stack[n - (k - 1)].revision = sessions[q - (k - 1)]
        BY <4>1, <2>2
      <4>3. n - (k - 1) \in 1..n /\ q - (k - 1) \in 1..q /\ n + 1 - k = n - (k - 1) /\ q + 1 - k = q - (k - 1)
        BY <3>2, <2>3, <1>1, <2>1
      <4> QED
        BY <4>2, <4>3, <1>4, <2>1
    <3> QED
      BY <3>1, <3>2
  <2> QED
    BY <1>1, <1>4, <2>1, <2>3 DEF SessionsOwnTheirStates
<1>10. StatesAreDifferences'
  <2>1. Contents' = Contents /\ Coherent(Contents)
    BY <1>1, <1>3 DEF Contents, StatesAreDifferences
  <2>2. ASSUME NEW k \in 1..(n + 1)
        PROVE  /\ Coherent(snaps'[k])
               /\ Difference(After(k)'.objects, stack'[k], snaps'[k].objects)
               /\ stack'[k].old_next_id = snaps'[k].next_id
               /\ snaps'[k].next_id <= After(k)'.next_id
               /\ \A i \in stack'[k].new_ids : i >= stack'[k].old_next_id
    <3>1. CASE k = n + 1
      <4>1. After(k)' = Contents /\ stack'[k] = new /\ snaps'[k] = Contents
        BY <3>1, <1>4, <1>5, <2>1 DEF After
      <4>2. Difference(indices, new, indices)
        BY <1>1 DEF Difference, DiffAt, new, NoObjects
      <4>3. Contents.objects = indices /\ Contents.next_id = next_id /\ next_id <= next_id
        BY <1>1 DEF Contents, NextIds
      <4> QED
        BY <4>1, <4>2, <4>3, <1>6, <2>1
    <3>2. CASE k \in 1..n
      <4>1. stack'[k] = stack[k] /\ snaps'[k] = snaps[k]
        BY <3>2, <1>4, <1>5
      <4>2. After(k)' = snaps'[k + 1]
        BY <3>2, <1>1, <1>4 DEF After
      <4>3. snaps'[k + 1] = After(k)
        <5>1. CASE k = n
          BY <5>1, <1>5 DEF After
        <5>2. CASE k # n
          <6>1. k + 1 \in 1..n
            BY <3>2, <5>2, <1>1
          <6> QED
            BY <5>2, <6>1, <1>5 DEF After
        <5> QED
          BY <5>1, <5>2
      <4> QED
        BY <3>2, <4>1, <4>2, <4>3, <1>1 DEF StatesAreDifferences
    <3> QED
      BY <3>1, <3>2, <1>1
  <2> QED
    BY <1>4, <1>5, <2>1, <2>2 DEF StatesAreDifferences
<1> QED
  BY <1>3, <1>5, <1>7, <1>8, <1>9, <1>10 DEF IndInv, SnapType, NextIds

\* What undoing the topmost state gives.
LEMMA PopFacts ==
    ASSUME NEW S, NEW s \in Seq(S), s # <<>>
    PROVE  /\ Pop(s) \in Seq(S)
           /\ Len(s) \in Nat \ {0}
           /\ Len(Pop(s)) = Len(s) - 1
           /\ \A k \in 1..(Len(s) - 1) : Pop(s)[k] = s[k]
<1>1. Len(s) \in Nat \ {0}
  BY EmptySeq
<1>2. \A i \in 1..(Len(s) - 1) : s[i] \in S
  BY <1>1, ElementOfSeq
<1>3. /\ SubSeq(s, 1, Len(s) - 1) \in Seq(S)
      /\ Len(SubSeq(s, 1, Len(s) - 1)) = IF 1 <= Len(s) - 1 THEN (Len(s) - 1) - 1 + 1 ELSE 0
      /\ \A i \in 1..((Len(s) - 1) - 1 + 1) : SubSeq(s, 1, Len(s) - 1)[i] = s[1 + i - 1]
  BY <1>1, <1>2, SubSeqProperties
<1>4. Len(Pop(s)) = Len(s) - 1
  <2>1. CASE Len(s) = 1
    <3>1. ~(1 <= Len(s) - 1) /\ Len(s) - 1 = 0
      BY <2>1
    <3>2. Len(SubSeq(s, 1, Len(s) - 1)) = 0
      BY <1>3, <3>1, Zenon
    <3> QED
      BY <3>1, <3>2, Zenon DEF Pop
  <2>2. CASE Len(s) # 1
    <3> DEFINE n == Len(s)
    <3>0. n \in Nat \ {0} /\ n # 1
      BY <1>1, <2>2
    <3> HIDE DEF n
    <3>a. 1 <= n - 1 /\ (n - 1) - 1 + 1 = n - 1
      BY <3>0
    <3>1. 1 <= Len(s) - 1 /\ (Len(s) - 1) - 1 + 1 = Len(s) - 1
      BY <3>a DEF n
    <3>2. Len(SubSeq(s, 1, Len(s) - 1)) = (Len(s) - 1) - 1 + 1
      BY <1>3, <3>1, Zenon
    <3> QED
      BY <3>1, <3>2, Zenon DEF Pop
  <2> QED
    BY <2>1, <2>2
<1>5. ASSUME NEW k \in 1..(Len(s) - 1) PROVE Pop(s)[k] = s[k]
  <2>1. k \in 1..((Len(s) - 1) - 1 + 1) /\ 1 + k - 1 = k
    BY <1>1
  <2>2. SubSeq(s, 1, Len(s) - 1)[k] = s[1 + k - 1]
    BY <1>3, <2>1
  <2> QED
    BY <2>1, <2>2 DEF Pop
<1> QED
  BY <1>1, <1>3, <1>4, <1>5 DEF Pop

(* The facts about the last undo state that the lemmas below start from.   *)
LEMMA LastState ==
    ASSUME IndInv, ~failed, enabled
    PROVE  /\ Len(stack) \in Nat \ {0}
           /\ Len(snaps) = Len(stack)
           /\ Top = stack[Len(stack)] /\ Top \in UndoState
           /\ snaps[Len(stack)] \in SnapType
           /\ Difference(indices, Top, snaps[Len(stack)].objects)
           /\ Top.old_next_id = snaps[Len(stack)].next_id
           /\ Coherent(Contents) /\ Coherent(snaps[Len(stack)])
<1> DEFINE n == Len(stack)
<1>1. /\ StatesAreDifferences /\ stack \in Seq(UndoState) /\ stack # <<>>
      /\ snaps \in Seq(SnapType) /\ Len(snaps) = n
  BY DEF IndInv, TypeOK, StatesAreDifferences, enabled, SnapType, NextIds
<1>2. n \in Nat \ {0} /\ n \in 1..n
  BY <1>1, EmptySeq
<1>3. stack[n] \in UndoState /\ snaps[n] \in SnapType
  BY <1>1, <1>2, ElementOfSeq
<1> QED
  BY <1>1, <1>2, <1>3 DEF Top, StatesAreDifferences, After, Contents

(* How an undo or a squash treats the session it is called by.             *)
SessionCloses == \/ sessions # <<>> /\ sessions' = Pop(sessions)
                 \/ sessions = <<>> /\ sessions' = sessions

(* Dropping one state and one revision keeps revisions and sessions in     *)
(* step.                                                                   *)
LEMMA CloseKeepsRevisions ==
    ASSUME IndInv, ~failed, enabled, SessionCloses, revision' = revision - 1,
           Len(stack') = Len(stack) - 1,
           \A k \in 1..(Len(stack) - 1) : stack'[k].revision = stack[k].revision
    PROVE  RevisionsConsecutive' /\ SessionsOwnTheirStates' /\ sessions' \in Seq(Int)
<1> DEFINE n == Len(stack)
           q == Len(sessions)
<1>1. /\ n \in Nat \ {0} /\ q \in Nat /\ revision \in Int /\ sessions \in Seq(Int)
      /\ \A k \in 1..n : stack[k].revision = revision - (n - k)
      /\ \A k \in 0..(n - 1) : k < q => stack[n - k].revision = sessions[q - k]
  BY DEF IndInv, TypeOK, RevisionsConsecutive, SessionsOwnTheirStates, enabled
<1> HIDE DEF n, q
<1>2. Len(stack') = n - 1 /\ \A k \in 1..(n - 1) : stack'[k].revision = stack[k].revision
  BY DEF n
<1>3. RevisionsConsecutive'
  <2>1. ASSUME NEW k \in 1..(n - 1) PROVE stack'[k].revision = (revision - 1) - ((n - 1) - k)
    BY <1>1, <1>2
  <2> QED
    BY <1>2, <2>1 DEF RevisionsConsecutive
<1>4. CASE sessions = <<>> /\ sessions' = sessions
  BY <1>1, <1>2, <1>3, <1>4 DEF SessionsOwnTheirStates
<1>5. CASE sessions # <<>> /\ sessions' = Pop(sessions)
  <2>1. /\ sessions' \in Seq(Int) /\ q \in Nat \ {0} /\ Len(sessions') = q - 1
        /\ \A k \in 1..(q - 1) : sessions'[k] = sessions[k]
    BY <1>1, <1>5, PopFacts DEF q
  <2>2. ASSUME NEW k \in 0..(n - 2), k < q - 1
        PROVE  stack'[n - 1 - k].revision = sessions'[q - 1 - k]
    <3>1. /\ k + 1 \in 0..(n - 1) /\ k + 1 < q
          /\ n - 1 - k = n - (k + 1) /\ n - 1 - k \in 1..(n - 1)
          /\ q - 1 - k = q - (k + 1) /\ q - 1 - k \in 1..(q - 1)
      BY <1>1, <2>1, <2>2
    <3>2. stack[n - (k + 1)].revision = sessions[q - (k + 1)]
      BY <1>1, <3>1
    <3> QED
      BY <1>2, <2>1, <3>1, <3>2
  <2>3. SessionsOwnTheirStates'
    BY SMTT(30), <1>1, <1>2, <2>1, <2>2 DEF SessionsOwnTheirStates
  <2> QED
    BY <1>3, <2>1, <2>3
<1> QED
  BY <1>4, <1>5 DEF SessionCloses

(* A completed undo gives back the last copy.                              *)
LEMMA UndoGivesCopyBack ==
    ASSUME IndInv, ~failed, enabled, UndoTop
    PROVE  ~failed' => Contents' = snaps[Len(snaps)]
<1> DEFINE n == Len(stack)
<1>1. /\ Len(snaps) = n /\ indices \in Table
      /\ snaps[n] \in SnapType /\ Top \in UndoState
  BY LastState DEF IndInv, TypeOK
<1>2. /\ Difference(indices, Top, snaps[n].objects)
      /\ Top.old_next_id = snaps[n].next_id
  BY LastState
<1>3. ApplyUndo(indices, Top) = snaps[n].objects
  BY <1>1, <1>2, UndoOfDifference DEF SnapType
<1>4. ASSUME ~failed' PROVE Contents' = snaps[n]
  BY <1>1, <1>2, <1>3, <1>4 DEF UndoTop, Contents, SnapType
<1> QED
  BY <1>1, <1>4

(* Without key changes an undo always completes.                           *)
LEMMA UndoCompletes ==
    ASSUME IndInv, ~failed, enabled, UndoTop, ~KeysMutable
    PROVE  ~failed'
<1> DEFINE n == Len(stack)
<1>1. indices \in Table /\ snaps[n] \in SnapType /\ Top \in UndoState
  BY LastState DEF IndInv, TypeOK
<1>2. /\ Difference(indices, Top, snaps[n].objects)
      /\ UniqueKeys(indices) /\ UniqueKeys(snaps[n].objects)
  BY LastState DEF Contents, Coherent
<1>3. UndoSucceeds(indices, Top)
  BY <1>1, <1>2, UndoSucceedsOnFixedKeys DEF SnapType
<1> QED
  BY <1>3 DEF UndoTop

(* Even a failing undo leaves a table and an id counter.                   *)
LEMMA HalfUndoneType ==
    ASSUME NEW t \in Table, NEW s \in UndoState, next_id \in NextIds
    PROVE  HalfUndone(t, s).objects \in Table /\ HalfUndone(t, s).next_id \in NextIds
<1>1. ASSUME NEW i PROVE Restored(t, s, i) \in Table
  BY DEF Restored, Table, UndoState
<1>2. Erased(Restored(t, s, MaxId), s) \in Table
  BY <1>1 DEF Erased, Table
<1>3. ASSUME NEW e \in Table, NEW i PROVE Reinserted(e, s, i) \in Table
  BY DEF Reinserted, Table, UndoState
<1>4. ASSUME NEW e \in Table, NEW i PROVE [e EXCEPT ![i] = Absent] \in Table
  BY DEF Table
<1>5. s.old_next_id \in NextIds
  BY DEF UndoState, NextIds
<1> QED
  BY <1>1, <1>2, <1>3, <1>4, <1>5 DEF HalfUndone

\* Undoing the topmost state keeps the invariant.
LEMMA UndoPreserves ==
    ASSUME IndInv, ~failed, undo, DropLast, SessionCloses
    PROVE  IndInv'
<1> DEFINE n == Len(stack)
<1>1. /\ indices \in Table /\ next_id \in NextIds /\ stack \in Seq(UndoState)
      /\ StatesAreDifferences /\ Len(snaps) = n /\ n \in Nat
      /\ snaps \in Seq(SnapType) /\ revision \in Int /\ sessions \in Seq(Int)
  BY DEF IndInv, TypeOK, StatesAreDifferences, SnapType, NextIds
<1>2. CASE ~enabled
  <2>1. UNCHANGED <<indices, next_id, stack, revision, failed, snaps>> /\ stack = <<>> /\ n = 0
    BY <1>1, <1>2 DEF undo, DropLast, enabled
  <2>2. sessions' \in Seq(Int)
    BY <1>1, PopFacts DEF SessionCloses
  <2>3. TypeOK' /\ RevisionsConsecutive'
    BY <2>1, <2>2 DEF IndInv, TypeOK, RevisionsConsecutive
  <2>4. SessionsOwnTheirStates'
    BY <2>1 DEF SessionsOwnTheirStates
  <2>5. StatesAreDifferences'
    BY <1>1, <2>1 DEF StatesAreDifferences, After, Contents
  <2> QED
    BY <2>1, <2>3, <2>4, <2>5 DEF IndInv
<1>3. CASE enabled /\ ~failed'
  <2>0. UndoTop
    BY <1>3 DEF undo
  <2>1. /\ Contents' = snaps[n] /\ stack' = Pop(stack) /\ revision' = revision - 1
        /\ snaps' = Pop(snaps) /\ n \in 1..n
    <3>1. stack' = Pop(stack) /\ revision' = revision - 1
      BY <1>3, <2>0 DEF UndoTop
    <3>2. snaps' = Pop(snaps)
      BY <1>3 DEF DropLast
    <3>3. n \in 1..n /\ Contents' = snaps[n]
      BY <1>1, <1>3, <2>0, UndoGivesCopyBack, LastState
    <3> QED
      BY <3>1, <3>2, <3>3
  <2>2. /\ stack' \in Seq(UndoState) /\ Len(stack') = n - 1
        /\ \A k \in 1..(n - 1) : stack'[k] = stack[k]
    BY <1>1, <1>3, <2>1, PopFacts DEF enabled
  <2>3. /\ snaps' \in Seq(SnapType) /\ Len(snaps') = n - 1
        /\ \A k \in 1..(n - 1) : snaps'[k] = snaps[k]
    <3>1. snaps # <<>>
      BY <1>1, <2>1
    <3> QED
      BY <1>1, <2>1, <3>1, PopFacts
  <2>4. RevisionsConsecutive' /\ SessionsOwnTheirStates' /\ sessions' \in Seq(Int)
    BY <1>3, <2>1, <2>2, CloseKeepsRevisions
  <2>5. indices' \in Table /\ next_id' \in NextIds
    <3>1. snaps[n] \in SnapType
      BY <1>1, <2>1
    <3>2. indices' = snaps[n].objects /\ next_id' = snaps[n].next_id
      BY <2>1 DEF Contents
    <3> QED
      BY <3>1, <3>2 DEF SnapType
  <2>6. TypeOK'
    <3>1. failed' \in BOOLEAN /\ revision' \in Int
      BY <1>1, <1>3, <2>0, <2>1 DEF IndInv, TypeOK, UndoTop
    <3> QED
      BY <2>2, <2>4, <2>5, <3>1 DEF TypeOK, NextIds
  <2>7. StatesAreDifferences'
    <3>1. Coherent(Contents)'
      BY <1>3, <2>1, LastState
    <3>2. ASSUME NEW k \in 1..(n - 1)
          PROVE  After(k)' = After(k)
      <4>1. CASE k = n - 1
        BY <4>1, <1>1, <2>1, <2>2 DEF After
      <4>2. CASE k # n - 1
        <5>1. k + 1 \in 1..(n - 1)
          BY <4>2, <1>1
        <5> QED
          BY <4>2, <5>1, <1>1, <2>2, <2>3 DEF After
      <4> QED
        BY <4>1, <4>2
    <3>3. ASSUME NEW k \in 1..(n - 1)
          PROVE  k \in 1..n /\ stack'[k] = stack[k] /\ snaps'[k] = snaps[k]
      BY <1>1, <2>2, <2>3
    <3> QED
      BY <1>1, <2>2, <2>3, <3>1, <3>2, <3>3 DEF StatesAreDifferences
  <2> QED
    BY <1>3, <2>3, <2>4, <2>6, <2>7 DEF IndInv, SnapType, NextIds
<1>4. CASE enabled /\ failed'
  <2>0. UndoTop
    BY <1>4 DEF undo
  <2>1. /\ failed' = TRUE /\ KeysMutable /\ UNCHANGED <<stack, revision, snaps>>
        /\ indices' = HalfUndone(indices, Top).objects
        /\ next_id' = HalfUndone(indices, Top).next_id
    BY <1>4, <2>0, UndoCompletes DEF UndoTop, DropLast
  <2>2. indices' \in Table /\ next_id' \in NextIds
    <3>1. Top \in UndoState
      BY <1>1, <1>4 DEF Top, enabled
    <3> QED
      BY <1>1, <2>1, <3>1, HalfUndoneType
  <2>3. sessions' \in Seq(Int)
    BY <1>1, PopFacts DEF SessionCloses
  <2>4. TypeOK' /\ RevisionsConsecutive' /\ SessionsOwnTheirStates'
    BY <2>1, <2>2, <2>3 DEF IndInv, TypeOK, RevisionsConsecutive, SessionsOwnTheirStates, NextIds
  <2> QED
    BY <2>1, <2>4 DEF IndInv
<1> QED
  BY <1>2, <1>3, <1>4

\* Merging the two topmost states keeps it.
LEMMA SquashPreserves ==
    ASSUME IndInv, ~failed, squash, DropLast, SessionCloses
    PROVE  IndInv'
<1> DEFINE n == Len(stack)
<1>1. /\ indices \in Table /\ next_id \in NextIds /\ stack \in Seq(UndoState)
      /\ StatesAreDifferences /\ Len(snaps) = n /\ n \in Nat
      /\ snaps \in Seq(SnapType) /\ revision \in Int /\ sessions \in Seq(Int)
  BY DEF IndInv, TypeOK, StatesAreDifferences, SnapType, NextIds
<1>2. UNCHANGED <<indices, next_id, failed>> /\ Contents' = Contents /\ ~failed'
  BY DEF squash, Contents
<1>3. sessions' \in Seq(Int)
  BY <1>1, PopFacts DEF SessionCloses
<1>4. CASE n <= 1
  <2>1. stack' = <<>> /\ UNCHANGED revision
    BY <1>4 DEF squash
  <2>2. snaps' = <<>>
    <3>1. CASE stack = <<>>
      BY <1>1, <3>1 DEF DropLast, enabled
    <3>2. CASE stack # <<>>
      <4>1. n = 1 /\ snaps' = Pop(snaps) /\ snaps # <<>>
        BY <1>1, <1>2, <1>4, <3>2, EmptySeq DEF DropLast, enabled
      <4>2. snaps' \in Seq(SnapType) /\ Len(snaps') = 0
        BY <1>1, <4>1, PopFacts
      <4> QED
        BY <4>2, EmptySeq
    <3> QED
      BY <3>1, <3>2
  <2>3. TypeOK'
    BY <1>2, <1>3, <2>1 DEF IndInv, TypeOK
  <2>4. RevisionsConsecutive' /\ SessionsOwnTheirStates'
    BY <2>1 DEF RevisionsConsecutive, SessionsOwnTheirStates
  <2>5. StatesAreDifferences'
    BY <1>1, <1>2, <2>1, <2>2 DEF StatesAreDifferences
  <2> QED
    BY <1>2, <2>2, <2>3, <2>4, <2>5 DEF IndInv
<1>5. CASE n > 1
  <2> DEFINE p == stack[n - 1]
             M == MergeStates(p, Top)
  <2>1. /\ stack' = Append(SubSeq(stack, 1, n - 2), M) /\ revision' = revision - 1
        /\ snaps' = Pop(snaps) /\ enabled
    BY <1>1, <1>2, <1>5 DEF squash, DropLast, enabled
  <2>2. /\ p \in UndoState /\ snaps[n - 1] \in SnapType
        /\ Difference(snaps[n].objects, p, snaps[n - 1].objects)
        /\ p.old_next_id = snaps[n - 1].next_id
        /\ snaps[n - 1].next_id <= snaps[n].next_id
        /\ Coherent(snaps[n - 1])
        /\ \A i \in p.new_ids : i >= p.old_next_id
    <3>1. n - 1 \in 1..n /\ n - 1 # n /\ (n - 1) + 1 = n
      BY <1>1, <1>5
    <3>2. p \in UndoState /\ snaps[n - 1] \in SnapType
      BY <1>1, <3>1, ElementOfSeq
    <3> QED
      BY <1>1, <3>1, <3>2 DEF StatesAreDifferences, After
  <2>3. /\ Top \in UndoState /\ snaps[n] \in SnapType
        /\ Difference(indices, Top, snaps[n].objects)
        /\ Top.old_next_id = snaps[n].next_id
        /\ snaps[n].next_id <= next_id
        /\ \A i \in Top.new_ids : i >= Top.old_next_id
    <3>1. n \in 1..n
      BY <1>1, <1>5
    <3> QED
      BY <1>1, <2>1, <3>1, LastState DEF StatesAreDifferences, After, Contents, Top
  <2>4. /\ snaps[n - 1].next_id \in NextIds /\ snaps[n].next_id \in NextIds
        /\ snaps[n - 1].objects \in Table /\ snaps[n].objects \in Table
        /\ Top.new_ids \in SUBSET Ids /\ p.new_ids \in SUBSET Ids
    BY <2>2, <2>3 DEF SnapType, UndoState
  <2>5. \A i \in Top.new_ids : i >= snaps[n - 1].next_id
    BY <2>2, <2>3, <2>4, UndoIndexAssumption DEF NextIds, Ids
  <2>6. \A i \in Top.new_ids : snaps[n - 1].objects[i] = Absent
    BY <2>2, <2>4, <2>5 DEF Coherent
  <2>7. /\ M \in UndoState
        /\ M.old_next_id = p.old_next_id
        /\ M.revision = p.revision
        /\ M.new_ids \subseteq p.new_ids \cup Top.new_ids
        /\ Difference(indices, M, snaps[n - 1].objects)
    BY SMTT(30), <1>1, <2>2, <2>3, <2>4, <2>6, MergeKeepsDifference
  <2> HIDE DEF M
  <2>8. /\ stack' \in Seq(UndoState) /\ Len(stack') = n - 1 /\ stack'[n - 1] = M
        /\ \A k \in 1..(n - 2) : stack'[k] = stack[k]
    <3>1. \A i \in 1..(n - 2) : stack[i] \in UndoState
      BY <1>1, ElementOfSeq
    <3>2. /\ SubSeq(stack, 1, n - 2) \in Seq(UndoState)
          /\ Len(SubSeq(stack, 1, n - 2)) = IF 1 <= n - 2 THEN n - 2 - 1 + 1 ELSE 0
          /\ \A i \in 1..(n - 2 - 1 + 1) : SubSeq(stack, 1, n - 2)[i] = stack[1 + i - 1]
      BY <1>1, <3>1, SubSeqProperties
    <3> DEFINE sub == SubSeq(stack, 1, n - 2)
    <3>3. sub \in Seq(UndoState)
      BY <3>2
    <3>4. stack' = Append(sub, M)
      BY <2>1
    <3> HIDE DEF sub
    <3>5. /\ stack' \in Seq(UndoState) /\ Len(stack') = Len(sub) + 1
          /\ \A i \in 1..Len(sub) : stack'[i] = sub[i]
          /\ stack'[Len(sub) + 1] = M
      BY <2>7, <3>3, <3>4, AppendProperties
    <3>6. Len(sub) = n - 2 /\ \A i \in 1..(n - 2) : sub[i] = stack[i]
      <4> HIDE DEF n
      <4>1. Len(sub) = n - 2
        BY <1>1, <1>5, <3>2 DEF sub
      <4>2. ASSUME NEW i \in 1..(n - 2) PROVE sub[i] = stack[i]
        <5>1. i \in 1..(n - 2 - 1 + 1) /\ 1 + i - 1 = i
          BY <1>1, <1>5
        <5> QED
          BY <3>2, <5>1, Zenon DEF sub
      <4> QED
        BY <4>1, <4>2
    <3>7. (n - 2) + 1 = n - 1
      BY <1>1
    <3> QED
      BY <3>5, <3>6, <3>7
  <2>9. /\ snaps' \in Seq(SnapType) /\ Len(snaps') = n - 1
        /\ \A k \in 1..(n - 1) : snaps'[k] = snaps[k]
    <3>1. snaps # <<>>
      BY <1>1, <1>5
    <3> QED
      BY <1>1, <2>1, <3>1, PopFacts
  <2>10. RevisionsConsecutive' /\ SessionsOwnTheirStates'
    <3>1. \A k \in 1..(n - 1) : stack'[k].revision = stack[k].revision
      BY <1>1, <1>5, <2>7, <2>8
    <3> QED
      BY <2>1, <2>8, <3>1, CloseKeepsRevisions
  <2>11. TypeOK'
    BY <1>1, <1>2, <1>3, <2>1, <2>8 DEF IndInv, TypeOK
  <2>12. StatesAreDifferences'
    <3>1. ASSUME NEW k \in 1..(n - 1)
          PROVE  /\ Coherent(snaps'[k])
                 /\ Difference(After(k)'.objects, stack'[k], snaps'[k].objects)
                 /\ stack'[k].old_next_id = snaps'[k].next_id
                 /\ snaps'[k].next_id <= After(k)'.next_id
                 /\ \A i \in stack'[k].new_ids : i >= stack'[k].old_next_id
      <4>1. CASE k = n - 1
        <5>1. /\ After(k)' = Contents /\ stack'[k] = M /\ snaps'[k] = snaps[n - 1]
              /\ Contents.objects = indices /\ Contents.next_id = next_id
          BY <4>1, <1>2, <2>8, <2>9 DEF After, Contents
        <5>2. snaps[n - 1].next_id <= next_id
          BY <1>1, <2>2, <2>3, <2>4, UndoIndexAssumption DEF NextIds
        <5>3. \A i \in M.new_ids : i >= M.old_next_id
          BY <2>2, <2>5, <2>7
        <5> QED
          BY <2>2, <2>7, <5>1, <5>2, <5>3
      <4>2. CASE k # n - 1
        <5>1. k \in 1..(n - 2) /\ k \in 1..n /\ k + 1 \in 1..(n - 1) /\ k # n
          BY <4>2, <1>1
        <5>2. After(k)' = After(k) /\ stack'[k] = stack[k] /\ snaps'[k] = snaps[k]
          BY <4>2, <5>1, <2>8, <2>9 DEF After
        <5> QED
          BY <5>1, <5>2, <1>1 DEF StatesAreDifferences
      <4> QED
        BY <4>1, <4>2
    <3>2. Coherent(Contents)'
      BY <1>1, <1>2 DEF StatesAreDifferences
    <3> QED
      BY <2>8, <2>9, <3>1, <3>2 DEF StatesAreDifferences
  <2> QED
    BY <1>2, <2>9, <2>10, <2>11, <2>12 DEF IndInv, SnapType, NextIds
<1> QED
  BY <1>1, <1>4, <1>5

\* What is left of the stack when its oldest states are committed.
LEMMA DropOldestFacts ==
    ASSUME NEW S, NEW s \in Seq(S), NEW c \in 0..Len(s)
    PROVE  /\ SubSeq(s, c + 1, Len(s)) \in Seq(S)
           /\ Len(SubSeq(s, c + 1, Len(s))) = Len(s) - c
           /\ \A k \in 1..(Len(s) - c) : SubSeq(s, c + 1, Len(s))[k] = s[c + k]
<1> DEFINE n == Len(s)
           sub == SubSeq(s, c + 1, n)
<1>1. n \in Nat /\ \A i \in (c + 1)..n : s[i] \in S
  BY ElementOfSeq
<1>2. /\ sub \in Seq(S)
      /\ Len(sub) = IF c + 1 <= n THEN n - (c + 1) + 1 ELSE 0
      /\ \A i \in 1..(n - (c + 1) + 1) : sub[i] = s[c + 1 + i - 1]
  BY <1>1, SubSeqProperties
<1> HIDE DEF n, sub
<1>3. c \in 0..n
  BY DEF n
<1>4. Len(sub) = n - c
  BY <1>1, <1>2, <1>3
<1>5. ASSUME NEW k \in 1..(n - c) PROVE sub[k] = s[c + k]
  <2>1. k \in 1..(n - (c + 1) + 1) /\ c + 1 + k - 1 = c + k
    BY <1>1, <1>3
  <2> QED
    BY <1>2, <2>1, Zenon
<1> QED
  BY <1>2, <1>4, <1>5 DEF n, sub

\* A commit takes a prefix of the stack.
LEMMA CommittedIsPrefixLength ==
    ASSUME stack \in Seq(UndoState), NEW r \in Int
    PROVE  Cardinality(Committed(r)) \in 0..Len(stack)
<1>0. Len(stack) \in Nat
  OBVIOUS
<1>1. Committed(r) \in SUBSET (1..Len(stack))
  BY Zenon DEF Committed
<1>2. IsFiniteSet(1..Len(stack)) /\ Cardinality(1..Len(stack)) = Len(stack)
  BY <1>0, FS_Interval
<1>3. IsFiniteSet(Committed(r)) /\ Cardinality(Committed(r)) <= Len(stack)
  BY <1>1, <1>2, FS_Subset
<1> QED
  BY <1>0, <1>3, FS_CardinalityType

\* A commit keeps the invariant.
LEMMA CommitPreserves ==
    ASSUME IndInv, ~failed, NEW r \in Int, CommitStep(r)
    PROVE  IndInv'
<1> DEFINE n == Len(stack)
           c == Cardinality(Committed(r))
<1>1. /\ stack \in Seq(UndoState) /\ StatesAreDifferences /\ Len(snaps) = n /\ n \in Nat
      /\ snaps \in Seq(SnapType) /\ revision \in Int /\ sessions \in Seq(Int)
  BY DEF IndInv, TypeOK, StatesAreDifferences, SnapType, NextIds
<1>2. c \in 0..n
  BY <1>1, CommittedIsPrefixLength
<1>3. /\ stack' = SubSeq(stack, c + 1, n) /\ snaps' = SubSeq(snaps, c + 1, Len(snaps))
      /\ UNCHANGED <<indices, next_id, revision, sessions, failed>>
  BY DEF CommitStep, commit
<1> HIDE DEF c
<1>4. /\ stack' \in Seq(UndoState) /\ Len(stack') = n - c
      /\ \A k \in 1..(n - c) : stack'[k] = stack[c + k]
  BY <1>1, <1>2, <1>3, DropOldestFacts
<1>5. /\ snaps' \in Seq(SnapType) /\ Len(snaps') = n - c
      /\ \A k \in 1..(n - c) : snaps'[k] = snaps[c + k]
  BY <1>1, <1>2, <1>3, DropOldestFacts
<1> HIDE DEF n
<1>6. TypeOK'
  BY <1>3, <1>4 DEF IndInv, TypeOK
<1>7. RevisionsConsecutive'
  <2>1. ASSUME NEW k \in 1..(n - c)
        PROVE  stack'[k].revision = revision - ((n - c) - k)
    <3>1. c + k \in 1..n /\ n - (c + k) = (n - c) - k
      BY <1>1, <1>2
    <3>2. stack[c + k].revision = revision - (n - (c + k))
      BY <3>1 DEF IndInv, RevisionsConsecutive, n
    <3> QED
      BY <3>1, <3>2, <1>4
  <2> QED
    BY <1>3, <1>4, <2>1 DEF RevisionsConsecutive
<1>8. SessionsOwnTheirStates'
  <2>1. ASSUME NEW k \in 0..((n - c) - 1), k < Len(sessions)
        PROVE  stack'[(n - c) - k].revision = sessions[Len(sessions) - k]
    <3>1. k \in 0..(n - 1) /\ (n - c) - k \in 1..(n - c) /\ c + ((n - c) - k) = n - k
      BY <1>1, <1>2
    <3>2. stack[n - k].revision = sessions[Len(sessions) - k]
      BY <2>1, <3>1 DEF IndInv, SessionsOwnTheirStates, n
    <3> QED
      BY <3>1, <3>2, <1>4
  <2> QED
    BY <1>3, <1>4, <2>1 DEF SessionsOwnTheirStates
<1>9. StatesAreDifferences'
  <2>1. ASSUME NEW k \in 1..(n - c)
        PROVE  c + k \in 1..n /\ After(k)' = After(c + k)
    <3>1. c + k \in 1..n /\ Contents' = Contents
      BY <1>1, <1>2, <1>3 DEF Contents
    <3>2. CASE k = n - c
      <4>1. c + k = n
        BY <3>2, <1>1, <1>2
      <4> QED
        BY <3>1, <3>2, <4>1, <1>4 DEF After, n
    <3>3. CASE k # n - c
      <4>1. k + 1 \in 1..(n - c) /\ c + k # n /\ c + (k + 1) = (c + k) + 1
        BY <3>3, <1>1, <1>2
      <4> QED
        BY <3>1, <3>3, <4>1, <1>4, <1>5 DEF After, n
    <3> QED
      BY <3>2, <3>3
  <2>2. Coherent(Contents)'
    BY <1>1, <1>3 DEF StatesAreDifferences, Contents
  <2>3. ASSUME NEW k \in 1..(n - c)
        PROVE  /\ Coherent(snaps'[k])
               /\ Difference(After(k)'.objects, stack'[k], snaps'[k].objects)
               /\ stack'[k].old_next_id = snaps'[k].next_id
               /\ snaps'[k].next_id <= After(k)'.next_id
               /\ \A i \in stack'[k].new_ids : i >= stack'[k].old_next_id
    BY <1>1, <1>4, <1>5, <2>1 DEF StatesAreDifferences, n
  <2> QED
    BY <1>4, <1>5, <2>2, <2>3 DEF StatesAreDifferences
<1> QED
  BY <1>3, <1>5, <1>6, <1>7, <1>8, <1>9 DEF IndInv, SnapType, NextIds

\* Keeping the state of a session keeps it.
LEMMA PushPreserves ==
    ASSUME IndInv, ~failed, SessionPush, UNCHANGED snaps
    PROVE  IndInv'
<1>1. UNCHANGED <<indices, next_id, revision, stack, failed, snaps>> /\ sessions # <<>> /\ sessions' = Pop(sessions)
  BY DEF SessionPush
<1>2. sessions \in Seq(Int) /\ Len(sessions) = 1
  BY DEF IndInv, TypeOK, SessionPush
<1>3. sessions' \in Seq(Int) /\ Len(sessions') = 0
  BY <1>1, <1>2, PopFacts
<1>4. TypeOK' /\ RevisionsConsecutive'
  BY <1>1, <1>3 DEF IndInv, TypeOK, RevisionsConsecutive
<1>5. SessionsOwnTheirStates'
  BY <1>3 DEF SessionsOwnTheirStates
<1>6. StatesAreDifferences'
  BY <1>1 DEF IndInv, StatesAreDifferences, After, Contents
<1> QED
  BY <1>1, <1>4, <1>5, <1>6 DEF IndInv

\* Setting the revision of an empty stack keeps it.
LEMMA SetRevisionPreserves ==
    ASSUME IndInv, ~failed, NEW r \in Int, SetRevisionStep(r)
    PROVE  IndInv'
<1>1. /\ UNCHANGED <<indices, next_id, stack, sessions, failed, snaps>>
      /\ stack = <<>> /\ revision' = r
  BY DEF SetRevisionStep, set_revision
<1>2. TypeOK' /\ RevisionsConsecutive' /\ SessionsOwnTheirStates'
  BY <1>1 DEF IndInv, TypeOK, RevisionsConsecutive, SessionsOwnTheirStates
<1>3. StatesAreDifferences'
  BY <1>1 DEF IndInv, StatesAreDifferences, After, Contents
<1> QED
  BY <1>1, <1>2, <1>3 DEF IndInv
----------------------------------------------------------------------------
\* Every step keeps the invariant.
LEMMA NextPreserves == IndInv /\ [HNext]_hvars => IndInv'
<1> SUFFICES ASSUME IndInv, [HNext]_hvars PROVE IndInv'
  OBVIOUS
<1>1. CASE HNext
  <2>0. ~failed
    BY <1>1 DEF HNext
  <2>1. CASE WriteStep
    BY <2>0, <2>1, EmplacePreserves, ModifyPreserves, RemovePreserves DEF WriteStep
  <2>2. CASE OpenStep
    BY <2>0, <2>2, OpenPreserves
  <2>3. CASE CloseStep
    <3>1. CASE SessionPush /\ UNCHANGED snaps
      BY <2>0, <3>1, PushPreserves
    <3>2. CASE SessionSquash /\ DropLast
      BY <2>0, <3>2, SquashPreserves DEF SessionSquash, SessionCloses
    <3>3. CASE SessionUndo /\ DropLast
      BY <2>0, <3>3, UndoPreserves DEF SessionUndo, SessionCloses
    <3>4. CASE PopRevision /\ DropLast
      BY <2>0, <3>4, UndoPreserves DEF PopRevision, SessionCloses
    <3> QED
      BY <2>3, <3>1, <3>2, <3>3, <3>4 DEF CloseStep
  <2>4. ASSUME NEW r \in 0..MaxRevision, CommitStep(r) \/ SetRevisionStep(r) PROVE IndInv'
    BY <2>0, <2>4, CommitPreserves, SetRevisionPreserves
  <2> QED
    BY <1>1, <2>1, <2>2, <2>3, <2>4 DEF HNext
<1>2. CASE UNCHANGED hvars
  BY <1>2 DEF hvars, IndInv, TypeOK, RevisionsConsecutive, SessionsOwnTheirStates,
              StatesAreDifferences, After, Contents
<1> QED
  BY <1>1, <1>2

(* The inductive invariant holds in every reachable state.                 *)
LEMMA IndInvHolds == HSpec => []IndInv
<1>1. HInit => IndInv
  BY InitEstablishes
<1>2. IndInv /\ [HNext]_hvars => IndInv'
  BY NextPreserves
<1> QED
  BY <1>1, <1>2, PTL DEF HSpec

(* Type correctness of generic_index.                                      *)
THEOREM TypeCorrect == HSpec => []TypeOK
<1>1. IndInv => TypeOK
  BY DEF IndInv
<1> QED
  BY <1>1, IndInvHolds, PTL

(* Whatever is created, modified, removed, squashed and committed, every   *)
(* undo state of generic_index leads back to the table and id counter of   *)
(* the moment it was opened.                                               *)
THEOREM UndoIsExact == HSpec => []UndoRestores
<1>1. IndInv => UndoRestores
  <2> SUFFICES ASSUME IndInv, ~failed
               PROVE  /\ Len(snaps) = Len(stack)
                      /\ \A k \in 1..Len(stack) :
                           /\ ApplyUndo(After(k).objects, stack[k]) = snaps[k].objects
                           /\ stack[k].old_next_id = snaps[k].next_id
    BY DEF UndoRestores
  <2>1. /\ StatesAreDifferences /\ Len(snaps) = Len(stack) /\ Len(stack) \in Nat
        /\ stack \in Seq(UndoState) /\ snaps \in Seq(SnapType)
        /\ indices \in Table /\ next_id \in NextIds
    BY DEF IndInv, TypeOK, StatesAreDifferences, SnapType, NextIds
  <2>2. ASSUME NEW k \in 1..Len(stack)
        PROVE  ApplyUndo(After(k).objects, stack[k]) = snaps[k].objects
    <3>1. stack[k] \in UndoState /\ snaps[k].objects \in Table
      <4>1. stack[k] \in UndoState /\ snaps[k] \in SnapType
        BY <2>1, ElementOfSeq
      <4> QED
        BY <4>1 DEF SnapType
    <3>2. After(k).objects \in Table
      <4>1. CASE k = Len(stack)
        BY <4>1, <2>1 DEF After, Contents
      <4>2. CASE k # Len(stack)
        <5>1. k + 1 \in 1..Len(snaps)
          BY <4>2, <2>1
        <5>2. snaps[k + 1] \in SnapType
          BY <5>1, <2>1, ElementOfSeq
        <5> QED
          BY <4>2, <5>2 DEF After, SnapType
      <4> QED
        BY <4>1, <4>2
    <3>3. Difference(After(k).objects, stack[k], snaps[k].objects)
      BY <2>1 DEF StatesAreDifferences
    <3> QED
      BY <3>1, <3>2, <3>3, UndoOfDifference
  <2> QED
    BY <2>1, <2>2 DEF StatesAreDifferences
<1> QED
  BY <1>1, IndInvHolds, PTL

(* A session never squashes or undoes the undo state of another one.       *)
THEOREM SessionsNest == HSpec => []SessionsOwnTheirStates
<1>1. IndInv => SessionsOwnTheirStates
  BY DEF IndInv
<1> QED
  BY <1>1, IndInvHolds, PTL

(* commit(n) meets a stack of consecutive revisions that ends at the       *)
(* current one.                                                            *)
THEOREM RevisionsAreConsecutive == HSpec => []RevisionsConsecutive
<1>1. IndInv => RevisionsConsecutive
  BY DEF IndInv
<1> QED
  BY <1>1, IndInvHolds, PTL

(* In a table whose unique keys are never modified, undo() and modify()    *)
(* never throw logic_error.                                                *)
THEOREM FixedKeysNeverFail ==
    ASSUME ~KeysMutable
    PROVE  HSpec => []NeverFails
<1>1. IndInv => NeverFails
  BY DEF IndInv, NeverFails
<1> QED
  BY <1>1, IndInvHolds, PTL
----------------------------------------------------------------------------
(* A closing squash or undo is the abstract one.                           *)
LEMMA CloseImplements ==
    ASSUME IndInv, ~failed, enabled, DropLast, undo \/ squash
    PROVE  [Snapshots!SnapNext]_(Snapshots!svars)
<1>1. snaps # <<>> /\ Len(snaps) = Len(stack)
  <2>1. Len(snaps) = Len(stack) /\ Len(stack) # 0
    BY LastState
  <2>2. Len(<<>>) = 0
    OBVIOUS
  <2> QED
    BY <2>1, <2>2, Zenon
<1>2. CASE undo /\ failed'
  <2>1. UNCHANGED snaps
    BY <1>2 DEF DropLast
  <2> QED
    BY <2>1 DEF Snapshots!SnapNext, Snapshots!Write
<1>3. CASE undo /\ ~failed'
  <2>1. UndoTop
    BY <1>3 DEF undo
  <2>2. Contents' = snaps[Len(snaps)]
    BY <1>3, <2>1, UndoGivesCopyBack
  <2>3. snaps' = SubSeq(snaps, 1, Len(snaps) - 1)
    BY <1>3 DEF DropLast, Pop
  <2> QED
    BY <1>1, <2>2, <2>3 DEF Snapshots!SnapNext, Snapshots!UndoRevision
<1>4. CASE squash
  <2>1. UNCHANGED <<indices, next_id, failed>>
    BY <1>4 DEF squash
  <2>2. snaps' = SubSeq(snaps, 1, Len(snaps) - 1)
    BY <2>1 DEF DropLast, Pop
  <2> QED
    BY <1>1, <2>1, <2>2 DEF Snapshots!SnapNext, Snapshots!SquashRevision, Contents
<1> QED
  BY <1>2, <1>3, <1>4

\* Every step is one of the stack of copies, or changes nothing there.
LEMMA StepImplements ==
    IndInv /\ [HNext]_hvars => [Snapshots!SnapNext]_(Snapshots!svars)
<1> SUFFICES ASSUME IndInv, [HNext]_hvars PROVE [Snapshots!SnapNext]_(Snapshots!svars)
  OBVIOUS
<1>1. CASE HNext
  <2>0. ~failed
    BY <1>1 DEF HNext
  <2>1. CASE WriteStep
    BY <2>1 DEF WriteStep, Snapshots!SnapNext, Snapshots!Write
  <2>2. CASE OpenStep
    BY <2>2 DEF OpenStep, start_undo_session, Contents, Snapshots!SnapNext, Snapshots!StartRevision
  <2>3. CASE CloseStep
    <3>1. CASE UNCHANGED snaps
      BY <3>1 DEF Snapshots!SnapNext, Snapshots!Write
    <3>2. CASE ~UNCHANGED snaps
      <4>1. DropLast /\ enabled /\ (undo \/ squash)
        BY <2>3, <3>2 DEF CloseStep, DropLast, SessionSquash, SessionUndo, PopRevision
      <4> QED
        BY <2>0, <4>1, CloseImplements
    <3> QED
      BY <3>1, <3>2
  <2>4. ASSUME NEW r \in 0..MaxRevision, CommitStep(r) PROVE [Snapshots!SnapNext]_(Snapshots!svars)
    <3>1. stack \in Seq(UndoState) /\ Len(snaps) = Len(stack)
      BY <2>0 DEF IndInv, TypeOK, StatesAreDifferences
    <3>2. Cardinality(Committed(r)) \in 0..Len(snaps)
      BY <3>1, CommittedIsPrefixLength
    <3>3. UNCHANGED Contents
      BY <2>4 DEF CommitStep, commit, Contents
    <3>4. snaps' = SubSeq(snaps, Cardinality(Committed(r)) + 1, Len(snaps))
      BY <2>4 DEF CommitStep
    <3> QED
      BY <3>2, <3>3, <3>4 DEF Snapshots!SnapNext, Snapshots!CommitRevisions
  <2>5. ASSUME NEW r \in 0..MaxRevision, SetRevisionStep(r) PROVE [Snapshots!SnapNext]_(Snapshots!svars)
    BY <2>5 DEF SetRevisionStep, Snapshots!SnapNext, Snapshots!Write
  <2> QED
    BY <1>1, <2>1, <2>2, <2>3, <2>4, <2>5 DEF HNext
<1>2. CASE UNCHANGED hvars
  BY <1>2 DEF hvars, Snapshots!svars, Contents
<1> QED
  BY <1>1, <1>2

(* generic_index, which keeps only differences, implements the stack of    *)
(* full copies.                                                            *)
THEOREM IndexImplementsSnapshots == HSpec => Refinement
<1>1. HInit => Snapshots!SnapInit
  BY DEF HInit, Snapshots!SnapInit
<1>2. IndInv /\ [HNext]_hvars => [Snapshots!SnapNext]_(Snapshots!svars)
  BY StepImplements
<1> QED
  BY <1>1, <1>2, IndInvHolds, PTL DEF HSpec, Refinement, Snapshots!SnapSpec
=============================================================================
