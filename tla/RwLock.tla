-------------------------------- MODULE RwLock --------------------------------
(***************************************************************************)
(* chainbase's locks: with_read_lock, with_write_lock and the              *)
(* read_write_mutex_manager with its ring of mutexes, which live in a file *)
(* that all processes map (libraries/chainbase/include/chainbase.hpp).     *)
(*                                                                         *)
(* One process has opened the database for writing (open() takes a file    *)
(* lock for that) and writes from one thread; the others only read.  A     *)
(* wait for a mutex ends after a second: a reader gives up, the writer     *)
(* moves on to the next mutex of the ring, which it constructs anew.  That *)
(* is meant for processes that died with a mutex, but a callback that      *)
(* takes longer has the same effect.                                       *)
(***************************************************************************)
EXTENDS Integers, FiniteSets

CONSTANTS Readers,     \* processes that read
          Writer,      \* the process that writes
          NumLocks,    \* CHAINBASE_NUM_RW_LOCKS
          MaxShared,   \* the largest value of num_shared
          MaxCrashes,  \* bound: how often a process dies
          MaxSlow      \* bound: how often a wait for a live holder times out

Procs == Readers \cup {Writer}

ASSUME RwLockAssumption ==
    /\ IsFiniteSet(Readers) /\ Writer \notin Readers
    /\ NumLocks \in Nat \ {0} /\ MaxShared \in Nat \ {0}
    /\ MaxCrashes \in Nat /\ MaxSlow \in Nat

VARIABLES locks,         \* _locks: the control word of each mutex
          current_lock,  \* _current_lock % CHAINBASE_NUM_RW_LOCKS
          pc,            \* what every process is doing
          lock,          \* the mutex each process has taken a reference to
          crashes,       \* number of crashes so far
          slow,          \* number of time-outs on live holders so far
          lapped         \* history: a mutex was constructed that a process still used

vars == <<locks, current_lock, pc, lock, crashes, slow, lapped>>

LockIds == 0..(NumLocks - 1)

(* interprocess_sharable_mutex: a flag of the writer, a count of readers.  *)
Free == [exclusive_in |-> FALSE, num_shared |-> 0]

TypeOK ==
    /\ locks \in [LockIds -> [exclusive_in : BOOLEAN, num_shared : 0..MaxShared]]
    /\ current_lock \in LockIds
    /\ pc \in [Procs -> {"idle", "wait", "claim", "next", "in"}]
    /\ \A p \in Readers : pc[p] \in {"idle", "wait", "in"}
    /\ lock \in [Procs -> LockIds]
    /\ crashes \in 0..MaxCrashes /\ slow \in 0..MaxSlow /\ lapped \in BOOLEAN

Init ==
    /\ locks = [k \in LockIds |-> Free]
    /\ current_lock = 0
    /\ pc = [p \in Procs |-> "idle"]
    /\ lock = [p \in Procs |-> 0]
    /\ crashes = 0 /\ slow = 0 /\ lapped = FALSE
----------------------------------------------------------------------------
Inside(k) == {p \in Readers : pc[p] = "in" /\ lock[p] = k}

CanShare(k) == ~locks[k].exclusive_in /\ locks[k].num_shared < MaxShared

(* Faulty variant: the writer does not wait for the readers.               *)
CanOwnShared(k) == TRUE

CanOwn(k) == locks[k].num_shared = 0

(* Nobody alive will release the mutex: its holder died, or the count of   *)
(* readers is wrong.                                                       *)
Abandoned(k) ==
    \/ locks[k].exclusive_in /\ ~(pc[Writer] \in {"claim", "in"} /\ lock[Writer] = k)
    \/ locks[k].num_shared > Cardinality(Inside(k))

(* A timed wait fails when the mutex was not to be had for all of its      *)
(* time: it is abandoned, or its holder takes longer than that.            *)
TimesOut(k) ==
    \/ Abandoned(k) /\ UNCHANGED slow
    \/ ~Abandoned(k) /\ slow < MaxSlow /\ slow' = slow + 1

(* Both functions take a reference to the current mutex first.             *)
Enter(p) ==
    /\ pc[p] = "idle"
    /\ pc' = [pc EXCEPT ![p] = "wait"]
    /\ lock' = [lock EXCEPT ![p] = current_lock]
    /\ UNCHANGED <<locks, current_lock, crashes, slow, lapped>>

ReadLock(p) ==
    /\ p \in Readers /\ pc[p] = "wait" /\ CanShare(lock[p])
    /\ locks' = [locks EXCEPT ![lock[p]].num_shared = @ + 1]
    /\ pc' = [pc EXCEPT ![p] = "in"]
    /\ UNCHANGED <<current_lock, lock, crashes, slow, lapped>>

(* "unable to acquire lock"                                                *)
ReadTimeout(p) ==
    /\ p \in Readers /\ pc[p] = "wait" /\ ~CanShare(lock[p]) /\ TimesOut(lock[p])
    /\ pc' = [pc EXCEPT ![p] = "idle"]
    /\ UNCHANGED <<locks, current_lock, lock, crashes, lapped>>

(* The writer passes the first gate, which keeps further readers out, ...  *)
Claim ==
    /\ pc[Writer] = "wait" /\ ~locks[lock[Writer]].exclusive_in
    /\ locks' = [locks EXCEPT ![lock[Writer]].exclusive_in = TRUE]
    /\ pc' = [pc EXCEPT ![Writer] = "claim"]
    /\ UNCHANGED <<current_lock, lock, crashes, slow, lapped>>

(* ... and the second one when the readers are gone.                       *)
WriteLock ==
    /\ pc[Writer] = "claim" /\ CanOwn(lock[Writer])
    /\ pc' = [pc EXCEPT ![Writer] = "in"]
    /\ UNCHANGED <<locks, current_lock, lock, crashes, slow, lapped>>

Blocked ==
    \/ pc[Writer] = "wait" /\ locks[lock[Writer]].exclusive_in
    \/ pc[Writer] = "claim" /\ ~CanOwn(lock[Writer])

(* Faulty variant: a timed out writer tries the same mutex again.          *)
WriteTimeoutStays == Blocked /\ TimesOut(lock[Writer]) /\ UNCHANGED vars

(* timed_lock() of the writer fails at either gate and takes its claim     *)
(* back; next_lock() counts up, from now on others take the next mutex.    *)
WriteTimeout ==
    /\ Blocked
    /\ TimesOut(lock[Writer])
    /\ locks' = IF pc[Writer] = "claim" THEN [locks EXCEPT ![lock[Writer]].exclusive_in = FALSE] ELSE locks
    /\ current_lock' = (current_lock + 1) % NumLocks
    /\ pc' = [pc EXCEPT ![Writer] = "next"]
    /\ UNCHANGED <<lock, crashes, lapped>>

(* next_lock() then constructs it anew, whoever may hold it.               *)
ConstructLock ==
    /\ pc[Writer] = "next"
    /\ locks' = [locks EXCEPT ![current_lock] = Free]
    /\ lock' = [lock EXCEPT ![Writer] = current_lock]
    /\ pc' = [pc EXCEPT ![Writer] = "wait"]
    /\ lapped' = (lapped \/ \E p \in Readers : pc[p] # "idle" /\ lock[p] = current_lock)
    /\ UNCHANGED <<current_lock, crashes, slow>>

(* The callback returns, and the destructor of the lock releases it.  The  *)
(* count of a mutex that was constructed anew in between wraps around.     *)
Leave(p) ==
    /\ pc[p] = "in"
    /\ locks' = IF p = Writer THEN [locks EXCEPT ![lock[p]].exclusive_in = FALSE]
                ELSE [locks EXCEPT ![lock[p]].num_shared = IF @ = 0 THEN MaxShared ELSE @ - 1]
    /\ pc' = [pc EXCEPT ![p] = "idle"]
    /\ UNCHANGED <<current_lock, lock, crashes, slow, lapped>>

(* A process dies anywhere, and is started again.  The mapped file stays   *)
(* as it is.                                                               *)
Crash(p) ==
    /\ pc[p] # "idle" /\ crashes < MaxCrashes
    /\ pc' = [pc EXCEPT ![p] = "idle"]
    /\ crashes' = crashes + 1
    /\ UNCHANGED <<locks, current_lock, lock, slow, lapped>>

Step(p) == ReadLock(p) \/ ReadTimeout(p) \/ Leave(p)
WriterStep == Claim \/ WriteLock \/ WriteTimeout \/ ConstructLock

Next ==
    \/ \E p \in Procs : Enter(p) \/ Step(p) \/ Crash(p)
    \/ WriterStep

(* Callbacks return, waits end, and a process that can run does so.        *)
Fairness == WF_vars(WriterStep) /\ \A p \in Procs : WF_vars(Step(p))
Spec == Init /\ [][Next]_vars /\ Fairness
----------------------------------------------------------------------------
(* "all writes must be protected by a mutex": what the ring makes of it.   *)
(* A reader is inside of its callback next to the writer only at a mutex   *)
(* that the writer has given up since the reader took its reference (its   *)
(* own callback, or a dead process's, lasted longer than the wait), or     *)
(* after a mutex was constructed under a process that still used it.       *)
WriteExclusion ==
    pc[Writer] = "in" => \A p \in Readers : pc[p] = "in" => lapped \/ lock[p] # lock[Writer]

(* Whoever died with a mutex, the writer gets to write in the end, unless  *)
(* it dies itself: blocks keep being applied (with_write_lock).            *)
WriterProceeds == pc[Writer] # "idle" ~> pc[Writer] \in {"in", "idle"}
=============================================================================
