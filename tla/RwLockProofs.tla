---------------------------- MODULE RwLockProofs ----------------------------
(***************************************************************************)
(* What the ring of mutexes guarantees about readers next to the writer,   *)
(* for any number of readers, mutexes, deaths and time-outs.               *)
(***************************************************************************)
EXTENDS RwLock, FiniteSetTheorems, TLAPS

(* While no mutex was constructed under a process that used it, its count  *)
(* is at least the number of readers inside: dead ones are counted on.     *)
EveryoneIsCounted ==
    ~lapped => \A k \in LockIds : Cardinality(Inside(k)) <= locks[k].num_shared

(* The writer keeps its flag from the first gate on, and inside nobody     *)
(* else is counted.                                                        *)
WriterHolds ==
    /\ pc[Writer] \in {"claim", "in"} => locks[lock[Writer]].exclusive_in
    /\ ~lapped /\ pc[Writer] = "in" => locks[lock[Writer]].num_shared = 0

IndInv == TypeOK /\ EveryoneIsCounted /\ WriterHolds

\* The readers at a mutex are finitely many, so that they can be counted.
LEMMA InsideIsFinite ==
    ASSUME NEW k PROVE IsFiniteSet(Inside(k)) /\ Cardinality(Inside(k)) \in Nat
  BY RwLockAssumption, FS_Subset, FS_CardinalityType DEF Inside

\* A mutex with a reader inside has a count above zero.
LEMMA SomeoneIsCounted ==
    ASSUME NEW k \in LockIds, NEW p \in Inside(k), IndInv, ~lapped
    PROVE  locks[k].num_shared > 0
<1>1. Cardinality(Inside(k)) # 0
    BY InsideIsFinite, FS_EmptySet
<1>2. locks[k].num_shared \in 0..MaxShared
    BY DEF IndInv, TypeOK
<1>3. QED
    BY <1>1, <1>2, InsideIsFinite, RwLockAssumption DEF IndInv, EveryoneIsCounted

\* The invariant holds at the start.
LEMMA InitHolds == Init => IndInv
<1> SUFFICES ASSUME Init PROVE IndInv
    OBVIOUS
<1>1. \A k \in LockIds : Inside(k) = {}
    BY DEF Init, Inside, Procs
<1>2. /\ 0 \in LockIds /\ 0 \in 0..MaxShared
      /\ Free \in [exclusive_in : BOOLEAN, num_shared : 0..MaxShared]
    BY RwLockAssumption DEF LockIds, Free
<1>3. TypeOK
  <2>1. locks \in [LockIds -> [exclusive_in : BOOLEAN, num_shared : 0..MaxShared]]
      BY <1>2 DEF Init
  <2>2. current_lock \in LockIds /\ lock \in [Procs -> LockIds]
      BY <1>2 DEF Init
  <2>3. crashes \in 0..MaxCrashes /\ slow \in 0..MaxSlow
      BY RwLockAssumption DEF Init
  <2>4. lapped \in BOOLEAN
      BY DEF Init
  <2>5. QED
      BY <2>1, <2>2, <2>3, <2>4 DEF Init, TypeOK, Procs
<1>4. pc[Writer] = "idle"
    BY DEF Init, Procs
<1>5. WriterHolds
    BY <1>4 DEF WriterHolds
<1>6. \A k \in LockIds : Cardinality(Inside(k)) = 0
    BY <1>1, FS_EmptySet
<1>7. EveryoneIsCounted
    BY <1>6 DEF Init, EveryoneIsCounted, Free
<1>8. QED
    BY <1>7, <1>3, <1>5 DEF IndInv

\* Types are kept by every step.
LEMMA TypesHold == ASSUME TypeOK, [Next]_vars PROVE TypeOK'
<1> USE RwLockAssumption DEF TypeOK, Procs
<1>1. ASSUME NEW p \in Procs, Enter(p) PROVE TypeOK'
    BY <1>1 DEF Enter
<1>2. ASSUME NEW p \in Procs, ReadLock(p) PROVE TypeOK'
    BY <1>2 DEF ReadLock, CanShare
<1>3. ASSUME NEW p \in Procs, ReadTimeout(p) PROVE TypeOK'
    BY <1>3 DEF ReadTimeout, TimesOut
<1>4. ASSUME NEW p \in Procs, Leave(p) PROVE TypeOK'
  <2>1. CASE p = Writer
      BY <1>4, <2>1 DEF Leave
  <2>2. CASE p # Writer
    <3> DEFINE n == IF locks[lock[p]].num_shared = 0 THEN MaxShared ELSE locks[lock[p]].num_shared - 1
    <3>1. n \in 0..MaxShared /\ lock[p] \in LockIds
        OBVIOUS
    <3> HIDE DEF n
    <3>2. locks' = [locks EXCEPT ![lock[p]].num_shared = n]
        BY <1>4, <2>2 DEF Leave, n
    <3>3. QED
        BY <1>4, <2>2, <3>1, <3>2 DEF Leave
  <2>3. QED
      BY <2>1, <2>2
<1>5. ASSUME NEW p \in Procs, Crash(p) PROVE TypeOK'
    BY <1>5 DEF Crash
<1>6. CASE Claim
    BY <1>6 DEF Claim
<1>7. CASE WriteLock
    BY <1>7 DEF WriteLock
<1>8. CASE WriteTimeout
  <2>1. (current_lock + 1) % NumLocks \in LockIds
      BY DEF LockIds
  <2>2. slow' \in 0..MaxSlow
      BY <1>8 DEF WriteTimeout, TimesOut
  <2>3. QED
      BY <1>8, <2>1, <2>2 DEF WriteTimeout
<1>9. CASE ConstructLock
    BY <1>9 DEF ConstructLock, Free
<1>10. CASE UNCHANGED vars
    BY <1>10 DEF vars
<1>11. QED
    BY <1>1, <1>2, <1>3, <1>4, <1>5, <1>6, <1>7, <1>8, <1>9, <1>10 DEF Next, Step, WriterStep

\* Steps that leave the readers and the counts alone leave everyone counted.
LEMMA CountsUnchanged ==
    ASSUME EveryoneIsCounted, lapped' = lapped, TypeOK, TypeOK',
           \A p \in Readers : (pc'[p] = "in" /\ pc[p] = "in" /\ lock'[p] = lock[p]) \/ (pc'[p] # "in" /\ pc[p] # "in"),
           \A k \in LockIds : locks'[k].num_shared = locks[k].num_shared
    PROVE  EveryoneIsCounted'
<1>1. ASSUME NEW k \in LockIds PROVE Inside(k)' = Inside(k)
    BY DEF Inside
<1>2. \A k \in LockIds : Cardinality(Inside(k))' = Cardinality(Inside(k))
    BY <1>1
<1>3. QED
    BY <1>2 DEF EveryoneIsCounted

\* The invariant is kept by every step.
LEMMA StepHolds == IndInv /\ [Next]_vars => IndInv'
<1> SUFFICES ASSUME IndInv, [Next]_vars PROVE IndInv'
    OBVIOUS
<1> USE RwLockAssumption DEF Procs
<1>0. TypeOK /\ TypeOK' /\ EveryoneIsCounted /\ WriterHolds
    BY TypesHold DEF IndInv
<1> SUFFICES EveryoneIsCounted' /\ WriterHolds'
    BY <1>0 DEF IndInv
<1>1. ASSUME NEW p \in Procs, Enter(p) PROVE EveryoneIsCounted' /\ WriterHolds'
  <2>1. EveryoneIsCounted'
      BY <1>0, <1>1, CountsUnchanged DEF Enter, TypeOK
  <2>2. WriterHolds'
      BY <1>0, <1>1 DEF Enter, WriterHolds, TypeOK
  <2>3. QED
      BY <2>1, <2>2
<1>2. ASSUME NEW p \in Procs, ReadLock(p) PROVE EveryoneIsCounted' /\ WriterHolds'
  <2>0. PICK k \in LockIds : k = lock[p]
      BY <1>0 DEF TypeOK
  <2>1. p \in Readers /\ p \notin Inside(k) /\ ~locks[k].exclusive_in
      BY <1>0, <1>2, <2>0 DEF ReadLock, CanShare, Inside, TypeOK
  <2>2. Inside(k)' = Inside(k) \cup {p} /\ \A j \in LockIds \ {k} : Inside(j)' = Inside(j)
      BY <1>0, <1>2, <2>0 DEF ReadLock, Inside, TypeOK
  <2>3. Cardinality(Inside(k)') = Cardinality(Inside(k)) + 1
      BY ZenonT(40), <2>1, <2>2, InsideIsFinite, FS_AddElement
  <2>4. locks'[k].num_shared = locks[k].num_shared + 1 /\ \A j \in LockIds \ {k} : locks'[j] = locks[j]
      BY <1>0, <1>2, <2>0, <2>1 DEF ReadLock, TypeOK
  <2>5. EveryoneIsCounted'
    <3> SUFFICES ASSUME ~lapped, NEW j \in LockIds
                 PROVE  Cardinality(Inside(j)') <= locks'[j].num_shared
        BY <1>2 DEF EveryoneIsCounted, ReadLock
    <3>1. CASE j = k
      <4>1. Cardinality(Inside(k)) <= locks[k].num_shared
          BY <1>0, <2>1 DEF EveryoneIsCounted
      <4>2. Cardinality(Inside(k)) \in Nat /\ locks[k].num_shared \in Nat
          BY <1>0, <2>1, InsideIsFinite DEF TypeOK
      <4>3. QED
          BY <3>1, <2>3, <2>4, <4>1, <4>2
    <3>2. CASE j # k
        BY <3>2, <1>0, <2>2, <2>4 DEF EveryoneIsCounted
    <3>3. QED
        BY <3>1, <3>2
  <2>6. WriterHolds'
    <3>1. pc'[Writer] = pc[Writer] /\ lock' = lock /\ lapped' = lapped
        BY <1>0, <1>2 DEF ReadLock, TypeOK
    <3>2. pc[Writer] \in {"claim", "in"} => lock[Writer] # k
        BY <1>0, <2>1 DEF WriterHolds
    <3>3. lock[Writer] \in LockIds
        BY <1>0 DEF TypeOK
    <3>4. QED
        BY <1>0, <2>4, <3>1, <3>2, <3>3 DEF WriterHolds
  <2>7. QED
      BY <2>5, <2>6
<1>3. ASSUME NEW p \in Procs, ReadTimeout(p) PROVE EveryoneIsCounted' /\ WriterHolds'
  <2>1. EveryoneIsCounted'
      BY <1>0, <1>3, CountsUnchanged DEF ReadTimeout, TypeOK
  <2>2. WriterHolds'
      BY <1>0, <1>3 DEF ReadTimeout, WriterHolds, TypeOK
  <2>3. QED
      BY <2>1, <2>2
<1>4. ASSUME NEW p \in Procs, Leave(p) PROVE EveryoneIsCounted' /\ WriterHolds'
  <2>1. CASE p = Writer
    <3>1. EveryoneIsCounted'
        BY <1>0, <1>4, <2>1, CountsUnchanged DEF Leave, TypeOK
    <3>2. WriterHolds'
        BY <1>0, <1>4, <2>1 DEF Leave, WriterHolds, TypeOK
    <3>3. QED
        BY <3>1, <3>2
  <2>2. CASE p # Writer
    <3>0. PICK k \in LockIds : k = lock[p]
        BY <1>0 DEF TypeOK
    <3>1. p \in Inside(k) /\ lock[Writer] \in LockIds
        BY <1>0, <1>4, <2>2, <3>0 DEF Leave, Inside, TypeOK
    <3>2. Inside(k)' = Inside(k) \ {p} /\ \A j \in LockIds \ {k} : Inside(j)' = Inside(j)
        BY <1>0, <1>4, <2>2, <3>0 DEF Leave, Inside, TypeOK
    <3>3. Cardinality(Inside(k)') = Cardinality(Inside(k)) - 1
        BY <3>1, <3>2, InsideIsFinite, FS_RemoveElement
    <3>4. ~lapped => locks'[k].num_shared = locks[k].num_shared - 1 /\ locks[k].num_shared > 0
        BY <1>0, <1>4, <2>2, <3>0, <3>1, SomeoneIsCounted DEF Leave, TypeOK
    <3>5. /\ \A j \in LockIds \ {k} : locks'[j] = locks[j]
          /\ \A j \in LockIds : locks'[j].exclusive_in = locks[j].exclusive_in
        BY <1>0, <1>4, <2>2, <3>0, <3>1 DEF Leave, TypeOK
    <3>6. EveryoneIsCounted'
      <4> SUFFICES ASSUME ~lapped, NEW j \in LockIds
                   PROVE  Cardinality(Inside(j)') <= locks'[j].num_shared
          BY <1>4 DEF EveryoneIsCounted, Leave
      <4>1. CASE j = k
        <5>1. Cardinality(Inside(k)) <= locks[k].num_shared
            BY <1>0, <3>1 DEF EveryoneIsCounted
        <5>2. Cardinality(Inside(k)) \in Nat /\ locks[k].num_shared \in Nat
            BY <1>0, <3>1, InsideIsFinite DEF TypeOK
        <5>3. QED
            BY <4>1, <3>3, <3>4, <5>1, <5>2
      <4>2. CASE j # k
          BY <4>2, <1>0, <3>2, <3>5 DEF EveryoneIsCounted
      <4>3. QED
          BY <4>1, <4>2
    <3>7. pc'[Writer] = pc[Writer] /\ lock' = lock /\ lapped' = lapped
        BY <1>0, <1>4, <2>2 DEF Leave, TypeOK
    <3>8. ~lapped /\ pc[Writer] = "in" => lock[Writer] # k
        BY <1>0, <3>4 DEF WriterHolds
    <3>9. WriterHolds'
        BY <1>0, <3>1, <3>5, <3>7, <3>8 DEF WriterHolds
    <3>10. QED
        BY <3>6, <3>9
  <2>3. QED
      BY <2>1, <2>2
<1>5. ASSUME NEW p \in Procs, Crash(p) PROVE EveryoneIsCounted' /\ WriterHolds'
  <2>1. \A k \in LockIds : Inside(k)' \subseteq Inside(k)
      BY <1>0, <1>5 DEF Crash, Inside, TypeOK
  <2>2. \A k \in LockIds : Cardinality(Inside(k)') <= Cardinality(Inside(k)) /\ Cardinality(Inside(k)') \in Nat
      BY <2>1, InsideIsFinite, FS_Subset, FS_CardinalityType
  <2>3. EveryoneIsCounted'
      BY <1>0, <1>5, <2>2, InsideIsFinite DEF Crash, EveryoneIsCounted, TypeOK
  <2>4. WriterHolds'
      BY <1>0, <1>5 DEF Crash, WriterHolds, TypeOK
  <2>5. QED
      BY <2>3, <2>4
<1>6. CASE Claim
  <2>1. EveryoneIsCounted'
      BY <1>0, <1>6, CountsUnchanged DEF Claim, TypeOK
  <2>2. WriterHolds'
      BY <1>0, <1>6 DEF Claim, WriterHolds, TypeOK
  <2>3. QED
      BY <2>1, <2>2
<1>7. CASE WriteLock
  <2>1. EveryoneIsCounted'
      BY <1>0, <1>7, CountsUnchanged DEF WriteLock, TypeOK
  <2>2. WriterHolds'
      BY <1>0, <1>7 DEF WriteLock, CanOwn, WriterHolds, TypeOK
  <2>3. QED
      BY <2>1, <2>2
<1>8. CASE WriteTimeout
  <2>1. EveryoneIsCounted'
      BY <1>0, <1>8, CountsUnchanged DEF WriteTimeout, Blocked, TypeOK
  <2>2. WriterHolds'
      BY <1>0, <1>8 DEF WriteTimeout, Blocked, WriterHolds, TypeOK
  <2>3. QED
      BY <2>1, <2>2
<1>9. CASE ConstructLock
  <2>1. \A k \in LockIds : Inside(k)' = Inside(k)
      BY <1>0, <1>9 DEF ConstructLock, Inside, TypeOK
  <2>2. ~lapped' => ~lapped /\ Inside(current_lock) = {}
      BY <1>9 DEF ConstructLock, Inside
  <2>3. \A k \in LockIds : locks'[k] = IF k = current_lock THEN Free ELSE locks[k]
      BY <1>0, <1>9 DEF ConstructLock, TypeOK
  <2>4. EveryoneIsCounted'
    <3> SUFFICES ASSUME ~lapped', NEW j \in LockIds
                 PROVE  Cardinality(Inside(j)') <= locks'[j].num_shared
        BY DEF EveryoneIsCounted
    <3>1. CASE j = current_lock
        BY <3>1, <2>1, <2>2, <2>3, FS_EmptySet DEF Free
    <3>2. CASE j # current_lock
        BY <3>2, <1>0, <2>1, <2>2, <2>3 DEF EveryoneIsCounted
    <3>3. QED
        BY <3>1, <3>2
  <2>5. WriterHolds'
      BY <1>0, <1>9 DEF ConstructLock, WriterHolds, TypeOK
  <2>6. QED
      BY <2>4, <2>5
<1>10. CASE UNCHANGED vars
  <2>1. EveryoneIsCounted'
      BY <1>0, <1>10, CountsUnchanged DEF vars, TypeOK
  <2>2. QED
      BY <1>0, <1>10, <2>1 DEF vars, WriterHolds
<1>11. QED
    BY <1>1, <1>2, <1>3, <1>4, <1>5, <1>6, <1>7, <1>8, <1>9, <1>10 DEF Next, Step, WriterStep

(* A reader is next to the writer (with_write_lock) only at a mutex that   *)
(* the writer has given up, or after a mutex was constructed under a       *)
(* process that used it: whoever dies, and however long callbacks last.    *)
THEOREM ExclusionPerMutex == Spec => []WriteExclusion
<1>1. IndInv => WriteExclusion
  <2> SUFFICES ASSUME IndInv, pc[Writer] = "in", ~lapped,
                      NEW p \in Readers, pc[p] = "in", lock[p] = lock[Writer]
               PROVE  FALSE
      BY DEF WriteExclusion
  <2>1. lock[Writer] \in LockIds /\ p \in Inside(lock[Writer])
      BY DEF IndInv, TypeOK, Inside, Procs
  <2>2. locks[lock[Writer]].num_shared > 0
      BY <2>1, SomeoneIsCounted
  <2>3. QED
      BY <2>2 DEF IndInv, WriterHolds
<1>2. QED
    BY <1>1, StepHolds, InitHolds, PTL DEF Spec
=============================================================================
