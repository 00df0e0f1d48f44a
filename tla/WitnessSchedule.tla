--------------------------- MODULE WitnessSchedule ---------------------------
(***************************************************************************)
(* Who produces the next blocks: update_witness_schedule() with its top    *)
(* voted and its time-shared witnesses, the virtual time of the latter,    *)
(* slots, and the shutdown of witnesses that miss theirs                   *)
(* (libraries/chain/database/database_witness_schedule.cpp, database.cpp,  *)
(* services/dbs_witness.cpp).                                              *)
(*                                                                         *)
(* Virtual time is an unsigned number of fixed width, here with the range  *)
(* 0..Lap; votes are signed and become unsigned when they meet it.  Votes  *)
(* are only bounded from above: a withdrawal of common tokens subtracts    *)
(* what was never added (a voter's weight counts its expertise), so they   *)
(* may fall below zero.  The shuffle depends on the time of the block;     *)
(* here any order can come out, which also stands for any offset of        *)
(* current_aslot.  The votes on hardforks and the median of the witnesses' *)
(* properties, counted in the same function, do not influence the schedule *)
(* and are left out.                                                       *)
(***************************************************************************)
EXTENDS Integers, FiniteSets, SequencesExt

CONSTANTS Witnesses,      \* numbers: the order of ids and of names
          Candidates,     \* witnesses of the genesis state
          InitialVotes,   \* [Witnesses -> Nat]: votes at the start
          MaxVotes,       \* total_expert_tokens_amount: bound of a witness's votes
          MaxDebt,        \* bound: how far votes fall below zero
          MaxWitnesses,   \* DEIP_MAX_WITNESSES
          MaxVoted,       \* max_voted_witnesses
          Lap,            \* VIRTUAL_SCHEDULE_LAP_LENGTH, the largest uint128
          Threshold,      \* DEIP_WITNESS_MISSED_BLOCKS_THRESHOLD
          MaxMissed,      \* bound: slots missed before a block
          MaxChanges      \* bound: updates of witnesses and votes

ASSUME WitnessScheduleAssumption ==
    /\ Witnesses \subseteq Nat /\ IsFiniteSet(Witnesses)
    /\ Candidates \subseteq Witnesses /\ Candidates # {}
    /\ Lap \in Nat \ {0} /\ MaxVotes \in 0..(Lap - 1) /\ MaxDebt \in 0..(Lap - 1)
    /\ InitialVotes \in [Witnesses -> 0..MaxVotes]
    /\ MaxWitnesses \in Nat \ {0} /\ MaxVoted \in 1..MaxWitnesses
    /\ Threshold \in Nat /\ MaxMissed \in Nat /\ MaxChanges \in Nat

VARIABLES witness,       \* witness_index: the witnesses there are
          current_time,  \* current_virtual_time
          schedule,      \* current_shuffled_witnesses, num_scheduled_witnesses
          slot,          \* the slot of the head block, within the schedule
          num,           \* head_block_num() % DEIP_MAX_WITNESSES
          changes        \* number of updates so far

vars == <<witness, current_time, schedule, slot, num, changes>>

(* Votes are never -1: see AdjustWitnessVote.                              *)
Votes == (-MaxDebt)..MaxVotes \ {-1}

(* age: head_block_num() - last_confirmed_block_num, as far as it matters; *)
(* debt is history: the votes were negative since the last lap began.      *)
WitnessObject == [key : BOOLEAN, votes : Votes, position : 0..Lap, last_update : 0..Lap,
                  scheduled_time : 0..Lap, age : 0..(Threshold + 1), debt : BOOLEAN]

TypeOK ==
    /\ DOMAIN witness \subseteq Witnesses /\ witness \in [DOMAIN witness -> WitnessObject]
    /\ current_time \in 0..Lap
    /\ schedule \in Seq(Witnesses) /\ schedule # <<>>
    /\ slot \in 0..(MaxWitnesses - 1) /\ num \in 0..(MaxWitnesses - 1)
    /\ changes \in 0..MaxChanges

(* A signed number made unsigned, and the time a whole lap takes.          *)
Unsigned(n) == n % (Lap + 1)
LapOf(votes) == Lap \div Unsigned(votes + 1)

(* The witnesses of the genesis state, after the first votes.              *)
Init ==
    /\ witness = [w \in Candidates |->
                    [key |-> TRUE, votes |-> InitialVotes[w], position |-> 0, last_update |-> 0,
                     scheduled_time |-> LapOf(InitialVotes[w]), age |-> 0, debt |-> FALSE]]
    /\ current_time = 0
    /\ schedule = <<CHOOSE w \in Candidates : \A v \in Candidates : w <= v>>
    /\ slot = 0 /\ num = 0 /\ changes = 0
----------------------------------------------------------------------------
(* witness_update_evaluator: a new key, or none; or a new witness.         *)
UpdateWitness(w, key) ==
    /\ changes < MaxChanges
    /\ changes' = changes + 1
    /\ witness' =
         IF w \in DOMAIN witness THEN [witness EXCEPT ![w].key = key]
         ELSE [v \in DOMAIN witness \cup {w} |->
                 IF v # w THEN witness[v]
                 ELSE [key |-> key, votes |-> 0, position |-> 0, last_update |-> 0,
                       scheduled_time |-> Lap, age |-> Threshold + 1, debt |-> FALSE]]
    /\ UNCHANGED <<current_time, schedule, slot, num>>

(* Faulty variant: the time may wrap around.                               *)
AdjustWitnessVoteWraps(w, votes) ==
    LET o    == witness[w]
        pos  == (o.position + o.votes * (current_time - o.last_update)) % (Lap + 1)
        time == (current_time + (Lap - pos) \div Unsigned(votes + 1)) % (Lap + 1)
    IN
    /\ changes < MaxChanges
    /\ Unsigned(votes + 1) # 0
    /\ changes' = changes + 1
    /\ witness' = [witness EXCEPT ![w] = [o EXCEPT
                     !.votes = votes, !.position = pos, !.last_update = current_time, !.scheduled_time = time,
                     !.debt = @ \/ votes < 0]]
    /\ UNCHANGED <<current_time, schedule, slot, num>>

(* adjust_witness_vote to the given sum, all arithmetic modulo the width of*)
(* the type; a sum of -1 is a division by zero, which the number type      *)
(* answers with an exception: the operation or the block is refused.       *)
AdjustWitnessVote(w, votes) ==
    LET o    == witness[w]
        pos  == (o.position + o.votes * (current_time - o.last_update)) % (Lap + 1)
        time == (current_time + (Lap - pos) \div Unsigned(votes + 1)) % (Lap + 1)
    IN
    /\ changes < MaxChanges
    /\ Unsigned(votes + 1) # 0
    /\ changes' = changes + 1
    /\ witness' = [witness EXCEPT ![w] = [o EXCEPT
                     !.votes = votes, !.position = pos, !.last_update = current_time,
                     !.scheduled_time = IF time < current_time THEN Lap ELSE time,
                     !.debt = @ \/ votes < 0]]
    /\ UNCHANGED <<current_time, schedule, slot, num>>
----------------------------------------------------------------------------
(* The orders of by_vote_name and by_schedule_time.                        *)
ByVote(ws, a, b) ==
    ws[a].votes > ws[b].votes \/ (ws[a].votes = ws[b].votes /\ a < b)
ByScheduleTime(ws, a, b) ==
    \/ ws[a].scheduled_time < ws[b].scheduled_time
    \/ ws[a].scheduled_time = ws[b].scheduled_time /\ a < b

WithKey(ws) == {w \in DOMAIN ws : ws[w].key}

(* The highest voted witnesses that have a key.                            *)
SelectedVoted(ws) ==
    {w \in WithKey(ws) : Cardinality({v \in WithKey(ws) : ByVote(ws, v, w)}) < MaxVoted}

(* Those next in virtual time fill the places that are left.               *)
Places(ws) == MaxWitnesses - Cardinality(SelectedVoted(ws))
Runners(ws) ==
    LET others == WithKey(ws) \ SelectedVoted(ws)
    IN  {w \in others : Cardinality({v \in others : ByScheduleTime(ws, v, w)}) < Places(ws)}

(* processed_witnesses: everyone who was looked at on the way, up to the   *)
(* last runner when the places are filled.                                 *)
Processed(ws) ==
    IF Places(ws) = 0 THEN {}
    ELSE IF Cardinality(Runners(ws)) < Places(ws) THEN DOMAIN ws
    ELSE {w \in DOMAIN ws : \E r \in Runners(ws) : w = r \/ ByScheduleTime(ws, w, r)}

(* The time of the last one that was processed.                            *)
NewVirtualTime(ws) ==
    IF Processed(ws) = {} THEN current_time
    ELSE Max({ws[w].scheduled_time : w \in Processed(ws)})

(* Faulty variant: anyone's next lap counts, not only those processed.     *)
OverflowsAnyone(ws) == \E w \in DOMAIN ws : NewVirtualTime(ws) + LapOf(ws[w].votes) > Lap

Overflows(ws) == \E w \in Processed(ws) : NewVirtualTime(ws) + LapOf(ws[w].votes) > Lap

(* _reset_virtual_schedule_time                                            *)
ResetTimes(ws) ==
    [w \in DOMAIN ws |-> [ws[w] EXCEPT !.position = 0, !.last_update = 0, !.scheduled_time = LapOf(ws[w].votes),
                                      !.debt = ws[w].votes < 0]]

(* Faulty variant: the time of the last update is left as it was.          *)
NextLapKeepsUpdate(ws) ==
    IF Overflows(ws) THEN ResetTimes(ws)
    ELSE [w \in DOMAIN ws |->
            IF w \in Processed(ws)
            THEN [ws[w] EXCEPT !.position = 0,
                               !.scheduled_time = NewVirtualTime(ws) + LapOf(ws[w].votes),
                               !.debt = ws[w].votes < 0]
            ELSE ws[w]]

(* Everyone who was processed starts the next lap at the new time.         *)
NextLap(ws) ==
    IF Overflows(ws) THEN ResetTimes(ws)
    ELSE [w \in DOMAIN ws |->
            IF w \in Processed(ws)
            THEN [ws[w] EXCEPT !.position = 0, !.last_update = NewVirtualTime(ws),
                               !.scheduled_time = NewVirtualTime(ws) + LapOf(ws[w].votes),
                               !.debt = ws[w].votes < 0]
            ELSE ws[w]]

Active(ws) == SelectedVoted(ws) \cup Runners(ws)
ExpectedActive(ws) == IF Cardinality(DOMAIN ws) < MaxWitnesses THEN Cardinality(DOMAIN ws) ELSE MaxWitnesses

(* FC_ASSERT: with fewer active witnesses than expected the block fails.   *)
EnoughActive(ws) == Cardinality(Active(ws)) = ExpectedActive(ws)

(* update_witness_schedule, in every block whose number is a multiple of   *)
(* DEIP_MAX_WITNESSES.                                                     *)
UpdateSchedule(ws, slots) ==
    IF (num + 1) % MaxWitnesses # 0
    THEN /\ witness' = ws
         /\ slot' = (slot + slots) % Len(schedule)
         /\ UNCHANGED <<current_time, schedule>>
    ELSE /\ EnoughActive(ws)
         /\ witness' = NextLap(ws)
         /\ current_time' = IF Overflows(ws) THEN 0 ELSE NewVirtualTime(ws)
         /\ schedule' \in SetToSeqs(Active(ws))
         /\ slot' = 0
----------------------------------------------------------------------------
(* get_scheduled_witness(i): the i-th slot after the head block.           *)
ScheduledWitness(i) == schedule[((slot + i) % Len(schedule)) + 1]

Older(age) == IF age > Threshold THEN age ELSE age + 1

(* update_global_dynamic_data and update_signing_witness: a witness that   *)
(* misses its slot after a long absence is shut down.                      *)
AfterSlots(slots) ==
    LET producer == ScheduledWitness(slots)
        missed   == {ScheduledWitness(i) : i \in 1..(slots - 1)} \ {producer}
    IN [w \in DOMAIN witness |->
          [witness[w] EXCEPT !.key = @ /\ ~(w \in missed /\ witness[w].age > Threshold),
                             !.age = IF w = producer THEN 0 ELSE Older(@)]]

(* A block in the given slot after the head; validate_block_header wants   *)
(* the signature of the scheduled witness.                                 *)
ApplyBlock(slots) ==
    /\ ScheduledWitness(slots) \in DOMAIN witness /\ witness[ScheduledWitness(slots)].key
    /\ UpdateSchedule(AfterSlots(slots), slots)
    /\ num' = (num + 1) % MaxWitnesses
    /\ UNCHANGED changes

Next ==
    \/ \E w \in Witnesses, key \in BOOLEAN : UpdateWitness(w, key)
    \/ \E w \in DOMAIN witness, votes \in (-MaxDebt)..MaxVotes : AdjustWitnessVote(w, votes)
    \/ \E slots \in 1..(MaxMissed + 1) : ApplyBlock(slots)

Spec == Init /\ [][Next]_vars
----------------------------------------------------------------------------
(* "witnesses with a low number of votes could overflow the time field and *)
(* end up with a scheduled time in the past": they do not, and the global  *)
(* virtual time never passes a witness that is still to be scheduled.      *)
NobodyInThePast == \A w \in DOMAIN witness : witness[w].scheduled_time >= current_time

(* "every one else takes turns": while blocks are produced, a witness with *)
(* votes that keeps them and its key is scheduled again and again, although*)
(* the virtual times start over whenever one of them overflows.            *)
EveryoneTakesTurns ==
    ([]<>(num = 0) /\ []<>(num # 0)) =>
    \A w \in Witnesses :
      []<>(w \in ToSet(schedule) \/ w \notin DOMAIN witness \/ ~witness[w].key \/ witness[w].votes = 0)

(* A distance run is at most one lap: the position that adjust_witness_vote*)
(* subtracts from VIRTUAL_SCHEDULE_LAP_LENGTH never exceeds it, so that    *)
(* the unsigned difference does not wrap around, for every witness whose   *)
(* votes were not negative in this lap, whatever happened in earlier laps  *)
(* and to other witnesses.                                                 *)
WithinTheLap ==
    \A w \in DOMAIN witness :
      /\ witness[w].last_update <= current_time
      /\ ~witness[w].debt =>
           witness[w].position + witness[w].votes * (current_time - witness[w].last_update) <= Lap
=============================================================================
