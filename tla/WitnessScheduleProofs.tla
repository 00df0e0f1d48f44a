----------------------- MODULE WitnessScheduleProofs -----------------------
(***************************************************************************)
(* The virtual time of the witnesses, for any number of witnesses, any     *)
(* votes and any length of the lap.                                        *)
(***************************************************************************)
EXTENDS WitnessSchedule, SumFacts

(* What holds of a witness at a virtual time: it is not in the past, and   *)
(* unless it is in debt it runs at most one lap until the time it is       *)
(* scheduled for.  The second is WithinTheLap with the scheduled time in   *)
(* the place of the current one; only so is it preserved when the current  *)
(* time moves on.                                                          *)
Runs(o) == o.votes >= 0 /\ o.position + o.votes * (o.scheduled_time - o.last_update) <= Lap

Timely(o, time) ==
    /\ o \in WitnessObject
    /\ o.scheduled_time >= time /\ o.last_update <= time
    /\ o.debt \/ Runs(o)

AllTimely(ws, time) ==
    /\ DOMAIN ws \subseteq Witnesses /\ ws \in [DOMAIN ws -> WitnessObject]
    /\ time \in 0..Lap
    /\ \A w \in DOMAIN ws : Timely(ws[w], time)

IndInv == AllTimely(witness, current_time)

(* The bounds of the fields that count.                                    *)
LEMMA Fields ==
    ASSUME NEW o \in WitnessObject
    PROVE  /\ o.key \in BOOLEAN /\ o.age \in 0..(Threshold + 1)
           /\ o.votes \in Votes /\ o.votes \in Int /\ o.debt \in BOOLEAN
           /\ o.position \in Nat /\ o.position <= Lap
           /\ o.last_update \in Nat /\ o.last_update <= Lap
           /\ o.scheduled_time \in Nat /\ o.scheduled_time <= Lap
           /\ Lap \in Nat /\ MaxVotes \in Nat /\ Threshold \in Nat
  BY WitnessScheduleAssumption DEF WitnessObject, Votes

(* The divisor is not zero, and one more than votes that are not negative. *)
LEMMA DivisorIsPositive ==
    ASSUME NEW v \in Votes
    PROVE  /\ Unsigned(v + 1) \in Nat /\ Unsigned(v + 1) > 0
           /\ v >= 0 => Unsigned(v + 1) = v + 1
<1>. DEFINE m == Lap + 1
            k == v + 1
<1>1. Lap \in Nat /\ v \in Int /\ v # -1 /\ v < Lap /\ -v < Lap
  BY WitnessScheduleAssumption DEF Votes
<1>2. k \in Int /\ m \in Nat /\ m > 0 /\ k # 0 /\ k < m /\ -k < m
  BY <1>1
<1>. HIDE DEF m, k
<1>3. k % m \in 0..(m - 1)
  BY <1>2
<1>4. CASE k > 0
  <2>1. k % m = k
    BY <1>2, <1>4
  <2>. QED
    BY <1>1, <1>2, <1>4, <2>1 DEF Unsigned, k, m
<1>5. CASE k < 0
  <2>1. k % m = k + m
    BY <1>2, <1>5
  <2>2. k + m > 0 /\ ~(v >= 0)
    BY <1>1, <1>2, <1>5 DEF k
  <2>. QED
    BY <1>2, <1>3, <2>1, <2>2 DEF Unsigned, k, m
<1>. QED
  BY <1>2, <1>4, <1>5

(* A lap takes its share of the range, and the witness runs no further.    *)
LEMMA LapIsShort ==
    ASSUME NEW v \in Votes
    PROVE  LapOf(v) \in 0..Lap /\ (v >= 0 => v * LapOf(v) <= Lap)
<1>. DEFINE u == Unsigned(v + 1)
            q == Lap \div u
<1>1. Lap \in Nat /\ Lap \in Int /\ u \in Nat /\ u > 0 /\ Lap >= 0 /\ (v >= 0 => u = v + 1) /\ v \in Int
  BY WitnessScheduleAssumption, DivisorIsPositive DEF Votes
<1>. HIDE DEF u
<1>2. q \in Int /\ q >= 0 /\ Lap = u * q + (Lap % u) /\ Lap % u \in 0 .. u - 1
  BY <1>1, Division, Zenon
<1>. HIDE DEF q
<1>3. u * q <= Lap /\ u * q \in Int
  BY <1>1, <1>2
<1>4. q <= u * q
  <2>1. q * 1 <= q * u
    BY <1>1, <1>2, ProductGrows
  <2>. QED
    BY <2>1, <1>1, <1>2
<1>5. v >= 0 => v * q <= Lap
  <2>. SUFFICES ASSUME v >= 0 PROVE v * q <= Lap
    OBVIOUS
  <2>1. (v + 1) * q = v * q + q /\ v * q \in Int
    BY <1>1, <1>2
  <2>. QED
    BY <1>1, <1>2, <1>3, <2>1
<1>6. LapOf(v) = q
  BY DEF LapOf, q, u
<1>. QED
  BY <1>1, <1>2, <1>3, <1>4, <1>5, <1>6

(* A witness that starts a lap at a time.                                  *)
LEMMA StartsLap ==
    ASSUME NEW o \in WitnessObject, NEW time \in 0..Lap, time + LapOf(o.votes) <= Lap
    PROVE  Timely([o EXCEPT !.position = 0, !.last_update = time,
                            !.scheduled_time = time + LapOf(o.votes), !.debt = o.votes < 0], time)
<1>. DEFINE q == LapOf(o.votes)
            p == [o EXCEPT !.position = 0, !.last_update = time, !.scheduled_time = time + q, !.debt = o.votes < 0]
<1>1. o.votes \in Votes /\ o.votes \in Int /\ Lap \in Nat /\ (o.votes < 0) \in BOOLEAN
  BY Fields
<1>2. q \in 0..Lap /\ (o.votes >= 0 => o.votes * q <= Lap)
  BY <1>1, LapIsShort
<1>3. time \in Nat /\ time + q \in 0..Lap /\ (time + q) - time = q /\ 0 \in 0..Lap
  BY <1>1, <1>2
<1>. HIDE DEF q
<1>4. p \in WitnessObject
  BY <1>1, <1>3 DEF WitnessObject
<1>5. p.position = 0 /\ p.last_update = time /\ p.scheduled_time = time + q /\ p.votes = o.votes
      /\ p.debt = (o.votes < 0)
  BY DEF WitnessObject
<1>. HIDE DEF p
<1>6. p.position + p.votes * (p.scheduled_time - p.last_update) = o.votes * q
  BY <1>1, <1>2, <1>3, <1>5
<1>7. p.debt \/ Runs(p)
  <2>1. CASE o.votes < 0
    BY <2>1, <1>5
  <2>2. CASE o.votes >= 0
    BY <2>2, <1>2, <1>5, <1>6, Zenon DEF Runs
  <2>. QED
    BY <1>1, <2>1, <2>2
<1>8. Timely(p, time)
  BY <1>2, <1>3, <1>4, <1>5, <1>7 DEF Timely
<1>. QED
  BY <1>8 DEF p, q

(* The initial state.                                                      *)
LEMMA InitTimely == Init => IndInv
<1>. SUFFICES ASSUME Init PROVE AllTimely(witness, 0) /\ current_time = 0
  BY DEF IndInv
<1>1. DOMAIN witness = Candidates /\ current_time = 0
  BY DEF Init
<1>2. ASSUME NEW w \in Candidates
      PROVE  witness[w] \in WitnessObject /\ Timely(witness[w], 0)
  <2>. DEFINE v == InitialVotes[w]
              o == [key |-> TRUE, votes |-> v, position |-> 0, last_update |-> 0,
                    scheduled_time |-> LapOf(v), age |-> 0, debt |-> FALSE]
  <2>1. witness[w] = o
    BY DEF Init
  <2>2. v \in Votes /\ v \in Nat /\ Threshold \in Nat /\ Lap \in Nat
    BY WitnessScheduleAssumption DEF Votes
  <2>3. LapOf(v) \in 0..Lap /\ v * LapOf(v) <= Lap
    BY <2>2, LapIsShort
  <2>. HIDE DEF v
  <2>4. o \in WitnessObject
    BY <2>2, <2>3 DEF WitnessObject
  <2>5. o.position + o.votes * (o.scheduled_time - o.last_update) = v * LapOf(v)
    BY <2>2, <2>3
  <2>6. o.scheduled_time >= 0 /\ o.last_update <= 0 /\ o.votes >= 0
    BY <2>2, <2>3
  <2>. HIDE DEF o
  <2>. QED
    BY <2>1, <2>2, <2>3, <2>4, <2>5, <2>6 DEF Timely, Runs
<1>3. witness \in [Candidates -> WitnessObject]
  BY <1>1, <1>2 DEF Init
<1>4. Candidates \subseteq Witnesses /\ 0 \in 0..Lap
  BY WitnessScheduleAssumption
<1>. QED
  BY <1>1, <1>2, <1>3, <1>4 DEF AllTimely

(* Keys and ages do not matter for the virtual time.                       *)
LEMMA OthersDoNotMatter ==
    ASSUME NEW o, NEW p, NEW time, Timely(o, time), p \in WitnessObject,
           p.votes = o.votes, p.position = o.position, p.last_update = o.last_update,
           p.scheduled_time = o.scheduled_time, p.debt = o.debt
    PROVE  Timely(p, time)
  BY DEF Timely, Runs

(* witness_update_evaluator                                                *)
LEMMA UpdateWitnessHolds ==
    ASSUME IndInv, NEW w \in Witnesses, NEW key \in BOOLEAN, UpdateWitness(w, key)
    PROVE  IndInv'
<1>1. AllTimely(witness, current_time) /\ current_time' = current_time
  BY DEF IndInv, UpdateWitness
<1>2. /\ DOMAIN witness \subseteq Witnesses /\ witness \in [DOMAIN witness -> WitnessObject]
      /\ current_time \in 0..Lap /\ \A x \in DOMAIN witness : Timely(witness[x], current_time)
  BY <1>1 DEF AllTimely
<1>3. CASE w \in DOMAIN witness
  <2>. DEFINE o == witness[w]
              p == [o EXCEPT !.key = key]
  <2>1. witness' = [witness EXCEPT ![w] = p]
    BY <1>3 DEF UpdateWitness
  <2>2. o \in WitnessObject /\ Timely(o, current_time)
    BY <1>2, <1>3
  <2>3. p \in WitnessObject /\ p.votes = o.votes /\ p.position = o.position
        /\ p.last_update = o.last_update /\ p.scheduled_time = o.scheduled_time /\ p.debt = o.debt
    <3>. HIDE DEF o
    <3>. QED
      BY <2>2 DEF WitnessObject
  <2>. HIDE DEF p
  <2>4. Timely(p, current_time)
    BY <2>2, <2>3, OthersDoNotMatter
  <2>5. /\ DOMAIN witness' = DOMAIN witness /\ witness' \in [DOMAIN witness -> WitnessObject]
        /\ \A x \in DOMAIN witness : witness'[x] = IF x = w THEN p ELSE witness[x]
    BY <1>2, <1>3, <2>1, <2>3
  <2>. QED
    BY <1>1, <1>2, <2>4, <2>5 DEF IndInv, AllTimely
<1>4. CASE w \notin DOMAIN witness
  <2>. DEFINE D == DOMAIN witness \cup {w}
              p == [key |-> key, votes |-> 0, position |-> 0, last_update |-> 0,
                    scheduled_time |-> Lap, age |-> Threshold + 1, debt |-> FALSE]
  <2>1. witness' = [v \in D |-> IF v # w THEN witness[v] ELSE p]
    BY <1>4 DEF UpdateWitness
  <2>2. Lap \in Nat /\ Threshold \in Nat /\ MaxVotes \in Nat
    BY WitnessScheduleAssumption
  <2>3. p \in WitnessObject
    <3>1. 0 \in Votes
      BY WitnessScheduleAssumption DEF Votes
    <3>. QED
      BY <2>2, <3>1 DEF WitnessObject
  <2>4. p.position + p.votes * (p.scheduled_time - p.last_update) = 0 /\ p.votes = 0
    BY <2>2
  <2>5. p.scheduled_time >= current_time /\ p.last_update <= current_time
    BY <1>2, <2>2
  <2>. HIDE DEF p
  <2>6. Timely(p, current_time)
    BY <2>2, <2>3, <2>4, <2>5 DEF Timely, Runs
  <2>7. /\ DOMAIN witness' = D /\ witness' \in [D -> WitnessObject] /\ D \subseteq Witnesses
        /\ \A x \in D : Timely(witness'[x], current_time)
    BY <1>2, <2>1, <2>3, <2>6
  <2>. QED
    BY <1>1, <1>2, <2>7 DEF IndInv, AllTimely
<1>. QED
  BY <1>3, <1>4

(* adjust_witness_vote: whatever wraps around, the time is not in the past;*)
(* without debt the distance run so far fits into the lap, so the first sum*)
(* does not wrap, and when the second one does, the witness is put at the  *)
(* end of the range, which is no further than it may run.                  *)
LEMMA AdjustWitnessVoteHolds ==
    ASSUME IndInv, NEW w \in DOMAIN witness, NEW votes \in (-MaxDebt)..MaxVotes, AdjustWitnessVote(w, votes)
    PROVE  IndInv'
<1>. DEFINE o    == witness[w]
            t    == current_time
            run  == o.position + o.votes * (t - o.last_update)
            pos  == run % (Lap + 1)
            u    == Unsigned(votes + 1)
            q    == (Lap - pos) \div u
            time == (t + q) % (Lap + 1)
            s    == IF time < t THEN Lap ELSE time
            p    == [o EXCEPT !.votes = votes, !.position = pos, !.last_update = t, !.scheduled_time = s,
                              !.debt = o.debt \/ votes < 0]
<1>1. AllTimely(witness, t) /\ current_time' = t /\ witness' = [witness EXCEPT ![w] = p] /\ u # 0
  BY DEF IndInv, AdjustWitnessVote
<1>2. /\ DOMAIN witness \subseteq Witnesses /\ witness \in [DOMAIN witness -> WitnessObject]
      /\ t \in 0..Lap /\ \A x \in DOMAIN witness : Timely(witness[x], t)
  BY <1>1 DEF AllTimely
<1>3. /\ o \in WitnessObject /\ o.scheduled_time >= t /\ o.last_update <= t
      /\ o.debt \/ Runs(o)
  BY <1>2 DEF Timely
<1>4. /\ o.votes \in Int /\ o.position \in Nat /\ o.last_update \in Nat /\ o.scheduled_time \in Nat
      /\ Lap \in Nat /\ o.debt \in BOOLEAN
  BY <1>3, Fields
<1>5. votes \in Votes /\ votes \in Int
  <2>1. MaxDebt \in Int /\ MaxVotes \in Int /\ votes \in Int
    BY WitnessScheduleAssumption
  <2>2. CASE votes = -1
    <3>1. votes + 1 = 0
      BY <2>2
    <3>2. 0 % (Lap + 1) = 0
      BY <1>4
    <3>. QED
      BY <3>1, <3>2, <1>1 DEF Unsigned
  <2>. QED
    BY <2>1, <2>2 DEF Votes
<1>6. u \in Nat /\ u > 0 /\ (votes >= 0 => u = votes + 1)
  BY <1>5, DivisorIsPositive
<1>. HIDE DEF u
<1>7. run \in Int
  <2>. HIDE DEF o
  <2>. QED
    BY <1>2, <1>4
<1>8. pos \in 0..Lap
  <2>. HIDE DEF run
  <2>. QED
    BY <1>4, <1>7
<1>9. /\ q \in Int /\ q >= 0 /\ u * q \in Int /\ u * q <= Lap - pos /\ q <= Lap
  <2>. DEFINE d == Lap - pos
  <2>. HIDE DEF pos
  <2>1. d \in Int /\ d >= 0 /\ d <= Lap
    BY <1>4, <1>8
  <2>. HIDE DEF d
  <2>2. d \div u \in Int /\ d = u * (d \div u) + (d % u) /\ d % u \in 0 .. u - 1 /\ d \div u >= 0
    BY <1>6, <2>1, Division, Zenon
  <2>3. q = d \div u
    BY DEF d
  <2>. HIDE DEF q
  <2>4. u * q \in Int /\ u * q <= d /\ q \in Int /\ q >= 0
    BY <1>6, <2>1, <2>2, <2>3
  <2>5. q * 1 <= q * u
    BY <1>6, <2>4, ProductGrows
  <2>. QED
    BY <1>4, <1>6, <2>1, <2>4, <2>5 DEF d
<1>. HIDE DEF q
<1>10. time \in 0..Lap
  BY <1>2, <1>4, <1>9
<1>. HIDE DEF time
<1>11. s \in 0..Lap /\ s >= t
  BY <1>2, <1>4, <1>10
<1>12. (o.debt \/ votes < 0) \in BOOLEAN
  OBVIOUS
<1>. HIDE DEF s, o
<1>13. p \in WitnessObject /\ p.votes = votes /\ p.position = pos /\ p.last_update = t /\ p.scheduled_time = s
       /\ p.debt = (o.debt \/ votes < 0)
  <2>. HIDE DEF pos
  <2>. QED
    BY <1>2, <1>3, <1>5, <1>8, <1>11, <1>12 DEF WitnessObject
<1>. HIDE DEF p
<1>14. ASSUME ~o.debt, votes >= 0
       PROVE  pos + votes * (s - t) <= Lap
  <2>1. o.votes >= 0 /\ o.position + o.votes * (o.scheduled_time - o.last_update) <= Lap
    BY <1>3, <1>14 DEF Runs
  <2>2. run \in 0..Lap
    <3>1. t - o.last_update \in Nat /\ o.scheduled_time - o.last_update \in Nat
          /\ t - o.last_update <= o.scheduled_time - o.last_update /\ o.votes \in Nat
      BY <1>2, <1>3, <1>4, <2>1
    <3>2. o.votes * (t - o.last_update) <= o.votes * (o.scheduled_time - o.last_update)
      BY <3>1, <1>4, ProductGrows
    <3>3. o.votes * (t - o.last_update) \in Nat /\ o.votes * (o.scheduled_time - o.last_update) \in Nat
      BY <3>1, <1>4
    <3>. QED
      BY <3>2, <3>3, <2>1, <1>4
  <2>3. pos = run
    <3>. HIDE DEF run
    <3>. QED
      BY <1>4, <2>2
  <2>. HIDE DEF run, pos
  <2>4. votes * q \in Int /\ votes * q <= Lap - pos /\ votes \in Nat
    <3>1. u = votes + 1 /\ votes \in Nat
      BY <1>5, <1>6, <1>14
    <3>2. u * q = votes * q + q /\ votes * q \in Int
      BY <3>1, <1>9
    <3>. QED
      BY <3>1, <3>2, <1>4, <1>8, <1>9
  <2>5. s - t <= q
    <3>1. t + q \in Nat /\ t \in Nat
      BY <1>2, <1>4, <1>9
    <3>2. CASE t + q <= Lap
      <4>1. time = t + q
        BY <3>1, <3>2, <1>4 DEF time
      <4>. QED
        BY <4>1, <3>1, <3>2, <1>2, <1>9 DEF s
    <3>3. CASE t + q > Lap
      <4>1. time <= Lap
        BY <1>10, <1>4
      <4>. QED
        BY <4>1, <3>1, <3>3, <1>2, <1>4, <1>9, <1>10 DEF s
    <3>. QED
      BY <3>1, <3>2, <3>3, <1>4
  <2>6. s - t \in Nat /\ q \in Nat
    BY <1>2, <1>4, <1>9, <1>11
  <2>7. votes * (s - t) <= votes * q
    BY <2>4, <2>5, <2>6, ProductGrows
  <2>8. votes * (s - t) \in Int
    BY <2>4, <2>6
  <2>. QED
    BY <2>4, <2>7, <2>8, <1>4, <1>8
<1>15. p.debt \/ Runs(p)
  <2>. HIDE DEF pos
  <2>1. CASE o.debt \/ votes < 0
    BY <2>1, <1>13
  <2>2. CASE ~o.debt /\ ~(votes < 0)
    <3>1. votes >= 0
      BY <1>5, <2>2
    <3>. QED
      BY <2>2, <3>1, <1>13, <1>14 DEF Runs
  <2>. QED
    BY <2>1, <2>2
<1>16. Timely(p, t)
  BY <1>2, <1>4, <1>11, <1>13, <1>15 DEF Timely
<1>17. /\ DOMAIN witness' = DOMAIN witness /\ witness' \in [DOMAIN witness -> WitnessObject]
       /\ \A x \in DOMAIN witness : witness'[x] = IF x = w THEN p ELSE witness[x]
  BY <1>1, <1>2, <1>13
<1>. QED
  BY <1>1, <1>2, <1>16, <1>17 DEF IndInv, AllTimely

(* Missed slots cost keys and blocks make younger; the times stay.         *)
LEMMA AfterSlotsTimely ==
    ASSUME IndInv, NEW slots
    PROVE  AllTimely(AfterSlots(slots), current_time)
<1>. DEFINE ws == AfterSlots(slots)
            producer == ScheduledWitness(slots)
            missed   == {ScheduledWitness(i) : i \in 1..(slots - 1)} \ {producer}
<1>1. /\ DOMAIN witness \subseteq Witnesses /\ witness \in [DOMAIN witness -> WitnessObject]
      /\ current_time \in 0..Lap /\ \A x \in DOMAIN witness : Timely(witness[x], current_time)
  BY DEF IndInv, AllTimely
<1>2. ASSUME NEW w \in DOMAIN witness
      PROVE  ws[w] \in WitnessObject /\ Timely(ws[w], current_time)
  <2>. DEFINE o == witness[w]
              key == o.key /\ ~(w \in missed /\ o.age > Threshold)
              age == IF w = producer THEN 0 ELSE Older(o.age)
  <2>1. ws[w] = [o EXCEPT !.key = key, !.age = age]
    BY DEF AfterSlots
  <2>2. o \in WitnessObject /\ Timely(o, current_time)
    BY <1>1
  <2>3. key \in BOOLEAN
    OBVIOUS
  <2>4. age \in 0..(Threshold + 1)
    <3>. HIDE DEF o
    <3>. QED
      BY <2>2, Fields DEF Older
  <2>. HIDE DEF o, key, age
  <2>5. /\ ws[w] \in WitnessObject /\ ws[w].votes = o.votes /\ ws[w].position = o.position
        /\ ws[w].last_update = o.last_update /\ ws[w].scheduled_time = o.scheduled_time
        /\ ws[w].debt = o.debt
    <3>. DEFINE p == [o EXCEPT !.key = key, !.age = age]
    <3>1. /\ p \in WitnessObject /\ p.votes = o.votes /\ p.position = o.position
          /\ p.last_update = o.last_update /\ p.scheduled_time = o.scheduled_time /\ p.debt = o.debt
      BY <2>2, <2>3, <2>4 DEF WitnessObject
    <3>. QED
      BY <2>1, <3>1
  <2>. HIDE DEF ws
  <2>. QED
    BY <2>2, <2>5, OthersDoNotMatter
<1>3. DOMAIN ws = DOMAIN witness
  BY DEF AfterSlots
<1>4. ws = [w \in DOMAIN ws |-> ws[w]]
  BY DEF AfterSlots
<1>. HIDE DEF ws
<1>5. ws \in [DOMAIN ws -> WitnessObject]
  BY <1>2, <1>3, <1>4
<1>6. AllTimely(ws, current_time)
  BY <1>1, <1>2, <1>3, <1>5 DEF AllTimely
<1>. QED
  BY <1>6 DEF ws

(* Whoever was not processed is scheduled no earlier than those who were,  *)
(* so the new time passes nobody.                                          *)
LEMMA NewTimePassesNobody ==
    ASSUME NEW ws, AllTimely(ws, current_time)
    PROVE  /\ NewVirtualTime(ws) \in 0..Lap /\ NewVirtualTime(ws) >= current_time
           /\ \A w \in DOMAIN ws \ Processed(ws) : ws[w].scheduled_time >= NewVirtualTime(ws)
<1>. DEFINE P == Processed(ws)
            T == {ws[w].scheduled_time : w \in P}
<1>1. /\ DOMAIN ws \subseteq Witnesses /\ ws \in [DOMAIN ws -> WitnessObject]
      /\ current_time \in 0..Lap /\ \A x \in DOMAIN ws : Timely(ws[x], current_time)
  BY DEF AllTimely
<1>2. \A w \in DOMAIN ws : ws[w].scheduled_time \in 0..Lap /\ ws[w].scheduled_time >= current_time
                           /\ w \in Nat
  <2>. TAKE w \in DOMAIN ws
  <2>1. ws[w] \in WitnessObject /\ Timely(ws[w], current_time)
    BY <1>1
  <2>2. ws[w].scheduled_time \in 0..Lap /\ ws[w].scheduled_time >= current_time
    BY <2>1 DEF WitnessObject, Timely
  <2>. QED
    BY <1>1, <2>2, WitnessScheduleAssumption
<1>3. P \subseteq DOMAIN ws
  BY DEF Processed, Runners, WithKey
<1>4. ASSUME NEW w \in DOMAIN ws \ P, NEW p \in P
      PROVE  ws[p].scheduled_time <= ws[w].scheduled_time
  <2>1. P = {x \in DOMAIN ws : \E r \in Runners(ws) : x = r \/ ByScheduleTime(ws, x, r)}
    BY <1>4 DEF Processed
  <2>2. PICK r \in Runners(ws) : p = r \/ ByScheduleTime(ws, p, r)
    BY <2>1
  <2>3. r \in DOMAIN ws /\ w # r /\ ~ByScheduleTime(ws, w, r)
    BY <2>1, <2>2, <1>4 DEF Runners, WithKey
  <2>4. p \in DOMAIN ws /\ w \in DOMAIN ws
    BY <1>3
  <2>. QED
    BY <1>2, <2>2, <2>3, <2>4 DEF ByScheduleTime
<1>5. CASE P = {}
  <2>1. NewVirtualTime(ws) = current_time
    BY <1>5 DEF NewVirtualTime
  <2>. QED
    BY <2>1, <1>1, <1>2
<1>6. CASE P # {}
  <2>1. NewVirtualTime(ws) = Max(T)
    BY <1>6 DEF NewVirtualTime
  <2>2. T \in SUBSET (0..Lap) /\ T # {} /\ Lap \in Nat
    BY <1>2, <1>3, <1>6, WitnessScheduleAssumption
  <2>3. Max(T) \in T
    <3>. HIDE DEF T
    <3>. QED
      BY <2>2, MaxIsGreatest
  <2>4. PICK p \in P : Max(T) = ws[p].scheduled_time
    BY <2>3
  <2>5. p \in DOMAIN ws
    BY <1>3
  <2>. HIDE DEF T, P
  <2>. QED
    BY <1>2, <1>4, <2>1, <2>4, <2>5 DEF P
<1>. QED
  BY <1>5, <1>6

(* The witnesses after update_witness_schedule.                            *)
LEMMA NextLapTimely ==
    ASSUME NEW ws, AllTimely(ws, current_time)
    PROVE  AllTimely(NextLap(ws), IF Overflows(ws) THEN 0 ELSE NewVirtualTime(ws))
<1>. DEFINE n == NewVirtualTime(ws)
<1>1. /\ DOMAIN ws \subseteq Witnesses /\ ws \in [DOMAIN ws -> WitnessObject]
      /\ current_time \in 0..Lap /\ \A x \in DOMAIN ws : Timely(ws[x], current_time)
  BY DEF AllTimely
<1>2. /\ n \in 0..Lap /\ n >= current_time
      /\ \A w \in DOMAIN ws \ Processed(ws) : ws[w].scheduled_time >= n
  BY NewTimePassesNobody
<1>3. Lap \in Nat /\ 0 \in 0..Lap
  BY WitnessScheduleAssumption
<1>. HIDE DEF n
<1>4. CASE Overflows(ws)
  <2>. DEFINE p(w) == [ws[w] EXCEPT !.position = 0, !.last_update = 0, !.scheduled_time = LapOf(ws[w].votes),
                                    !.debt = ws[w].votes < 0]
  <2>1. NextLap(ws) = [w \in DOMAIN ws |-> p(w)]
    BY <1>4 DEF NextLap, ResetTimes
  <2>2. ASSUME NEW w \in DOMAIN ws PROVE p(w) \in WitnessObject /\ Timely(p(w), 0)
    <3>. DEFINE o == ws[w]
    <3>1. o \in WitnessObject
      BY <1>1
    <3>. HIDE DEF o
    <3>2. LapOf(o.votes) \in 0..Lap
      BY <3>1, Fields, LapIsShort
    <3>3. 0 + LapOf(o.votes) = LapOf(o.votes) /\ 0 + LapOf(o.votes) <= Lap
      BY <1>3, <3>2
    <3>4. Timely([o EXCEPT !.position = 0, !.last_update = 0, !.scheduled_time = 0 + LapOf(o.votes),
                             !.debt = o.votes < 0], 0)
      BY <1>3, <3>1, <3>3, StartsLap
    <3>. QED
      BY <3>3, <3>4 DEF o, Timely
  <2>. HIDE DEF p
  <2>3. /\ DOMAIN NextLap(ws) = DOMAIN ws /\ NextLap(ws) \in [DOMAIN ws -> WitnessObject]
        /\ \A w \in DOMAIN ws : Timely(NextLap(ws)[w], 0)
    BY <2>1, <2>2
  <2>. QED
    BY <1>1, <1>3, <1>4, <2>3 DEF AllTimely
<1>5. CASE ~Overflows(ws)
  <2>. DEFINE p(w) == [ws[w] EXCEPT !.position = 0, !.last_update = n,
                                    !.scheduled_time = n + LapOf(ws[w].votes), !.debt = ws[w].votes < 0]
  <2>1. NextLap(ws) = [w \in DOMAIN ws |-> IF w \in Processed(ws) THEN p(w) ELSE ws[w]]
    BY <1>5 DEF NextLap, n
  <2>2. ASSUME NEW w \in DOMAIN ws, w \in Processed(ws)
        PROVE  p(w) \in WitnessObject /\ Timely(p(w), n)
    <3>. DEFINE o == ws[w]
    <3>1. o \in WitnessObject
      BY <1>1
    <3>2. ~(n + LapOf(o.votes) > Lap)
      BY <1>5, <2>2 DEF Overflows, n
    <3>. HIDE DEF o
    <3>3. LapOf(o.votes) \in 0..Lap
      BY <3>1, Fields, LapIsShort
    <3>4. n + LapOf(o.votes) <= Lap
      BY <1>2, <1>3, <3>2, <3>3
    <3>5. Timely([o EXCEPT !.position = 0, !.last_update = n, !.scheduled_time = n + LapOf(o.votes),
                             !.debt = o.votes < 0], n)
      BY <1>2, <3>1, <3>4, StartsLap
    <3>. QED
      BY <3>5 DEF o, Timely
  <2>3. ASSUME NEW w \in DOMAIN ws, w \notin Processed(ws)
        PROVE  ws[w] \in WitnessObject /\ Timely(ws[w], n)
    <3>1. ws[w] \in WitnessObject /\ Timely(ws[w], current_time) /\ ws[w].scheduled_time >= n
      BY <1>1, <1>2, <2>3
    <3>2. ws[w].last_update \in Nat /\ ws[w].last_update <= current_time
      BY <3>1, Fields DEF Timely
    <3>3. ws[w].last_update <= n
      BY <3>2, <1>1, <1>2
    <3>. QED
      BY <3>1, <3>3 DEF Timely
  <2>. HIDE DEF p
  <2>4. /\ DOMAIN NextLap(ws) = DOMAIN ws /\ NextLap(ws) \in [DOMAIN ws -> WitnessObject]
        /\ \A w \in DOMAIN ws : Timely(NextLap(ws)[w], n)
    BY <2>1, <2>2, <2>3
  <2>. QED
    BY <1>1, <1>2, <1>5, <2>4 DEF AllTimely, n
<1>. QED
  BY <1>4, <1>5

(* The inductive step.                                                     *)
LEMMA StepTimely == IndInv /\ [Next]_vars => IndInv'
<1>. SUFFICES ASSUME IndInv, [Next]_vars PROVE IndInv'
  OBVIOUS
<1>1. CASE UNCHANGED vars
  BY <1>1 DEF vars, IndInv
<1>2. ASSUME NEW slots \in 1..(MaxMissed + 1), ApplyBlock(slots)
      PROVE  IndInv'
  <2>. DEFINE ws == AfterSlots(slots)
  <2>1. AllTimely(ws, current_time)
    BY AfterSlotsTimely
  <2>2. UpdateSchedule(ws, slots)
    BY <1>2 DEF ApplyBlock
  <2>. HIDE DEF ws
  <2>3. CASE (num + 1) % MaxWitnesses # 0
    BY <2>1, <2>2, <2>3 DEF UpdateSchedule, IndInv
  <2>4. CASE (num + 1) % MaxWitnesses = 0
    <3>1. /\ witness' = NextLap(ws)
          /\ current_time' = IF Overflows(ws) THEN 0 ELSE NewVirtualTime(ws)
      BY <2>2, <2>4 DEF UpdateSchedule
    <3>. QED
      BY <2>1, <3>1, NextLapTimely DEF IndInv
  <2>. QED
    BY <2>3, <2>4
<1>. QED
  BY <1>1, <1>2, UpdateWitnessHolds, AdjustWitnessVoteHolds DEF Next

(* The invariant holds in all behaviours.                                  *)
LEMMA AlwaysTimely == Spec => []IndInv
  BY InitTimely, StepTimely, PTL DEF Spec

(* For every number of witnesses, every votes and every change of them: no *)
(* witness ends up with a scheduled time in the past.                      *)
THEOREM TimeNeverPasses == Spec => []NobodyInThePast
<1>1. IndInv => NobodyInThePast
  BY DEF IndInv, AllTimely, Timely, NobodyInThePast
<1>. QED
  BY <1>1, AlwaysTimely, PTL

(* ... and the distance run by a witness whose votes were not negative in  *)
(* this lap is at most one lap, so that the unsigned difference in         *)
(* adjust_witness_vote does not wrap around, although the votes of others, *)
(* and its own in earlier laps, may have been.                             *)
THEOREM DistanceWithinTheLap == Spec => []WithinTheLap
<1>1. IndInv => WithinTheLap
  <2>. SUFFICES ASSUME IndInv, NEW w \in DOMAIN witness
                PROVE  /\ witness[w].last_update <= current_time
                       /\ ~witness[w].debt =>
                            witness[w].position + witness[w].votes * (current_time - witness[w].last_update) <= Lap
    BY DEF WithinTheLap
  <2>. DEFINE o == witness[w]
              t == current_time
  <2>1. /\ o \in WitnessObject /\ o.scheduled_time >= t /\ o.last_update <= t /\ t \in 0..Lap
        /\ o.debt \/ Runs(o)
    BY DEF IndInv, AllTimely, Timely
  <2>2. /\ o.votes \in Int /\ o.position \in Nat /\ o.last_update \in Nat /\ o.scheduled_time \in Nat
        /\ Lap \in Nat
    BY <2>1, Fields
  <2>. HIDE DEF o
  <2>3. ASSUME ~o.debt
        PROVE  o.position + o.votes * (t - o.last_update) <= Lap
    <3>1. o.votes \in Nat /\ o.position + o.votes * (o.scheduled_time - o.last_update) <= Lap
      BY <2>1, <2>2, <2>3 DEF Runs
    <3>2. t - o.last_update \in Nat /\ o.scheduled_time - o.last_update \in Nat
          /\ t - o.last_update <= o.scheduled_time - o.last_update
      BY <2>1, <2>2
    <3>3. o.votes * (t - o.last_update) <= o.votes * (o.scheduled_time - o.last_update)
      BY <3>1, <3>2, ProductGrows
    <3>4. o.votes * (t - o.last_update) \in Nat /\ o.votes * (o.scheduled_time - o.last_update) \in Nat
      BY <3>1, <3>2
    <3>. QED
      BY <3>1, <3>3, <3>4, <2>2
  <2>. QED
    BY <2>1, <2>3 DEF o
<1>. QED
  BY <1>1, AlwaysTimely, PTL
=============================================================================
