---------------------------- MODULE LedgerProofs ----------------------------
(***************************************************************************)
(* Theorems about the ledger.                                              *)
(***************************************************************************)
EXTENDS Ledger, SequenceTheorems, SumFacts

-----------------------------------------------------------------------------
(* Vesting contracts *)

\* The part of the duration that the completed periods make up.
Completed(d, p, e) == Min({d, (e \div p) * p})

\* It is the smaller of the duration and the whole periods, a natural number.
CompletedFacts(d, p, e, k) ==
    /\ k \in Nat
    /\ k * p \in Nat
    /\ k * p <= e /\ e < k * p + p
    /\ d <= k * p => Completed(d, p, e) = d
    /\ ~(d <= k * p) => Completed(d, p, e) = k * p
    /\ Completed(d, p, e) \in Nat

\* These facts hold for the number of whole periods.
LEMMA CompletedIs ==
    ASSUME NEW d \in Nat, NEW p \in Nat, p > 0, NEW e \in Nat
    PROVE  CompletedFacts(d, p, e, e \div p)
<1>. DEFINE k == e \div p
<1>1. k \in Nat /\ e = p * k + (e % p) /\ e % p \in 0 .. p - 1
  BY Division
<1>. HIDE DEF k
<1>2. k * p \in Nat /\ k * p = p * k
  BY <1>1
<1>3. k * p <= e /\ e < k * p + p
  BY <1>1, <1>2
<1>4. Completed(d, p, e) = IF d <= k * p THEN d ELSE k * p
  BY <1>2, MinOfTwo DEF Completed, k
<1>. QED
  BY <1>1, <1>2, <1>3, <1>4 DEF k, CompletedFacts

\* In particular the completed part is a natural number.
LEMMA CompletedIsNat ==
    ASSUME NEW d \in Nat, NEW p \in Nat, p > 0, NEW e \in Nat
    PROVE  Completed(d, p, e) \in Nat
<1>. DEFINE k == e \div p
<1>1. CompletedFacts(d, p, e, k)
  BY CompletedIs
<1>. HIDE DEF k
<1>. QED
  BY <1>1 DEF CompletedFacts

\* Time only adds periods.
LEMMA CompletedGrows ==
    ASSUME NEW d \in Nat, NEW p \in Nat, p > 0, NEW e \in Nat, NEW f \in Nat, e <= f
    PROVE  Completed(d, p, e) <= Completed(d, p, f)
<1>. DEFINE k == e \div p
            m == f \div p
<1>0. CompletedFacts(d, p, e, k) /\ CompletedFacts(d, p, f, m)
  BY CompletedIs
<1>. HIDE DEF k, m
<1>1. /\ k \in Nat /\ k * p \in Nat /\ k * p <= e /\ e < k * p + p
      /\ d <= k * p => Completed(d, p, e) = d
      /\ ~(d <= k * p) => Completed(d, p, e) = k * p
  BY <1>0 DEF CompletedFacts
<1>2. /\ m \in Nat /\ m * p \in Nat /\ m * p <= f /\ f < m * p + p
      /\ d <= m * p => Completed(d, p, f) = d
      /\ ~(d <= m * p) => Completed(d, p, f) = m * p
  BY <1>0 DEF CompletedFacts
<1>3. k <= m
  <2>1. SUFFICES ASSUME m + 1 <= k PROVE FALSE
    BY <1>1, <1>2
  <2>2. (m + 1) * p <= k * p
    BY <2>1, <1>1, <1>2, ProductGrows
  <2>3. (m + 1) * p = m * p + p
    BY <1>2
  <2>. QED
    BY <2>2, <2>3, <1>1, <1>2
<1>4. k * p <= m * p
  BY <1>1, <1>2, <1>3, ProductGrows
<1>. QED
  BY <1>1, <1>2, <1>4

\* What the evaluator allows of the remaining balance stays within the share
\* of the whole deposit.
LEMMA AllowedIsVested ==
    ASSUME NEW B \in Nat, NEW W \in Nat, NEW n \in Nat, NEW d \in Nat, d > 0,
           NEW p \in Nat, p > 0, d % p = 0, NEW e \in Nat, n <= B,
           W + n <= IF e < d THEN (B * (e \div p)) \div (d \div p) ELSE B
    PROVE  (W + n) * d <= (B + W) * Completed(d, p, e)
<1>. DEFINE k == e \div p
            N == d \div p
            c == Completed(d, p, e)
<1>0. CompletedFacts(d, p, e, k)
  BY CompletedIs
<1>2. N \in Nat /\ d = p * N
  <2>1. N \in Int /\ d = p * N + (d % p) /\ N >= 0
    BY Division
  <2>. HIDE DEF N
  <2>. QED
    BY <2>1
<1>3. W + n <= IF e < d THEN (B * k) \div N ELSE B
  OBVIOUS
<1>. HIDE DEF k, N
<1>1. /\ k \in Nat /\ k * p \in Nat /\ k * p <= e /\ e < k * p + p
      /\ d <= k * p => c = d
      /\ ~(d <= k * p) => c = k * p
  BY <1>0 DEF CompletedFacts
<1>. HIDE DEF c
<1>4. N > 0
  <2>1. N # 0
    BY <1>2
  <2>. QED
    BY <2>1, <1>2
<1>5. CASE e < d
  <2>. DEFINE q == (B * k) \div N
  <2>1. B * k \in Nat
    BY <1>1
  <2>2. q \in Int /\ B * k = N * q + ((B * k) % N) /\ (B * k) % N \in 0 .. N - 1
    <3>1. B * k \in Int /\ N \in Nat /\ N > 0
      BY <2>1, <1>2, <1>4
    <3>. QED
      BY <3>1, Division, Zenon
  <2>3. W + n <= q
    BY <1>3, <1>5
  <2>. HIDE DEF q
  <2>4. N * q \in Int /\ N * q <= B * k
    BY <2>1, <2>2, <1>2
  <2>5. N * (W + n) <= N * q
    BY <2>2, <2>3, <1>2, ProductGrows
  <2>6. B * k <= (B + W) * k
    BY <1>1, ProductGrows
  <2>7. N * (W + n) <= (B + W) * k
    <3>1. N * (W + n) \in Int /\ (B + W) * k \in Int
      BY <1>1, <1>2
    <3>. QED
      BY <3>1, <2>1, <2>4, <2>5, <2>6
  <2>8. (N * (W + n)) * p <= ((B + W) * k) * p
    <3>1. N * (W + n) \in Int /\ (B + W) * k \in Int
      BY <1>1, <1>2
    <3>. QED
      BY <3>1, <2>7, ProductGrows
  <2>9. (N * (W + n)) * p = (W + n) * d
    BY <1>2
  <2>10. ((B + W) * k) * p = (B + W) * (k * p)
    BY <1>1
  <2>11. c = k * p
    BY <1>1, <1>5
  <2>. QED
    BY <2>8, <2>9, <2>10, <2>11 DEF c
<1>6. CASE ~(e < d)
  <2>1. c = d
    <3>1. SUFFICES ASSUME k * p < d PROVE FALSE
      BY <1>1
    <3>2. k < N
      <4>1. SUFFICES ASSUME N <= k PROVE FALSE
        BY <1>1, <1>2
      <4>2. N * p <= k * p
        BY <4>1, <1>1, <1>2, ProductGrows
      <4>. QED
        BY <4>2, <3>1, <1>1, <1>2
    <3>3. (k + 1) * p <= N * p
      BY <3>2, <1>1, <1>2, ProductGrows
    <3>4. (k + 1) * p = k * p + p
      BY <1>1
    <3>. QED
      BY <3>3, <3>4, <1>1, <1>2, <1>6
  <2>2. W + n <= B + W
    OBVIOUS
  <2>3. (W + n) * d <= (B + W) * d
    BY <2>2, ProductGrows
  <2>. QED
    BY <2>1, <2>3 DEF c
<1>. QED
  BY <1>5, <1>6

Contract == [owner : Accounts, balance : Nat, withdrawn : Nat, start : Nat, duration : Nat,
             period : Nat \ {0}, cliff : Nat]

\* VestingOnSchedule, for one contract and a time.
OnSchedule(v, time) ==
    /\ v.withdrawn * v.duration
          <= (v.balance + v.withdrawn) * Completed(v.duration, v.period, time - v.start)
    /\ time - v.start < v.cliff => v.withdrawn = 0

ContractHolds(v, time) ==
    /\ v \in Contract /\ v.start <= time
    /\ v.duration > v.cliff /\ v.duration % v.period = 0
    /\ OnSchedule(v, time)

\* The inductive invariant of the vesting contracts: besides the schedule,
\* that the contracts are typed as validate() left them and have started.
VestingInv ==
    /\ now \in Nat
    /\ vesting \in Seq(Contract)
    /\ \A i \in 1 .. Len(vesting) : ContractHolds(vesting[i], now)

\* A step of the ledger changes the contracts or lets time pass, never both.
LEMMA VestingStep ==
    ASSUME [Next]_vars
    PROVE  \/ vesting' = vesting /\ now' = now
           \/ vesting' = vesting /\ \E gap \in BlockGaps : now' = now + gap
           \/ VestingOps /\ now' = now
<1>1. CASE UNCHANGED vars
  BY <1>1 DEF vars
<1>2. CASE Operation
  BY <1>2 DEF Operation
<1>3. ASSUME NEW gap \in BlockGaps, NEW w \in Witnesses, EndBlock(gap, w)
      PROVE  vesting' = vesting /\ now' = now + gap
  BY <1>3 DEF EndBlock
<1>. QED
  BY <1>1, <1>2, <1>3 DEF Next

\* A contract stays on schedule while time passes.
LEMMA ScheduleWaits ==
    ASSUME NEW v, NEW time \in Nat, NEW later \in Nat, time <= later, ContractHolds(v, time)
    PROVE  ContractHolds(v, later)
<1>. DEFINE e == time - v.start
            f == later - v.start
            c == Completed(v.duration, v.period, e)
            g == Completed(v.duration, v.period, f)
            D == v.balance + v.withdrawn
            X == v.withdrawn * v.duration
<1>1. /\ v \in Contract /\ v.start <= time
      /\ v.duration > v.cliff /\ v.duration % v.period = 0
      /\ X <= D * c
      /\ e < v.cliff => v.withdrawn = 0
  BY DEF ContractHolds, OnSchedule
<1>2. /\ v.balance \in Nat /\ v.withdrawn \in Nat /\ v.start \in Nat /\ v.duration \in Nat
      /\ v.period \in Nat /\ v.period > 0 /\ v.cliff \in Nat
  BY <1>1 DEF Contract
<1>3. e \in Nat /\ f \in Nat /\ e <= f
  BY <1>1, <1>2
<1>4. c \in Nat /\ g \in Nat
  BY <1>2, <1>3, CompletedIsNat, Zenon
<1>5. c <= g
  BY <1>2, <1>3, CompletedGrows, Zenon
<1>6. D \in Nat /\ X \in Nat
  BY <1>2
<1>7. f < v.cliff => v.withdrawn = 0
  BY <1>1, <1>2, <1>3
<1>8. X <= D * g
  <2>. HIDE DEF X, D, c, g
  <2>1. D * c <= D * g
    BY <1>4, <1>5, <1>6, ProductGrows
  <2>. QED
    BY <2>1, <1>1, <1>4, <1>6
<1>. QED
  BY <1>1, <1>2, <1>7, <1>8 DEF ContractHolds, OnSchedule

\* The inductive step.
LEMMA VestingHolds ==
    ASSUME VestingInv, [Next]_vars
    PROVE  VestingInv'
<1>1. CASE vesting' = vesting /\ now' = now
  BY <1>1 DEF VestingInv
<1>2. ASSUME NEW gap \in BlockGaps, vesting' = vesting, now' = now + gap
      PROVE  VestingInv'
  <2>1. gap \in Nat
    BY LedgerAssumption, CommonTokensAssumption
  <2>2. now \in Nat /\ now' \in Nat /\ now <= now'
    BY <1>2, <2>1 DEF VestingInv
  <2>. QED
    BY <1>2, <2>2, ScheduleWaits DEF VestingInv
<1>3. ASSUME NEW c \in Accounts, NEW o \in Accounts, NEW n \in Amounts, NEW t \in VestingTerms,
             create_vesting_balance(c, o, n, t), now' = now
      PROVE  VestingInv'
  <2>. DEFINE v == [owner |-> o, balance |-> n, withdrawn |-> 0, start |-> now,
                    duration |-> t.duration, period |-> t.period, cliff |-> t.cliff]
  <2>1. vesting' = Append(vesting, v)
    BY <1>3 DEF create_vesting_balance
  <2>2. now \in Nat /\ vesting \in Seq(Contract)
    BY DEF VestingInv
  <2>3. /\ t.cliff \in Nat /\ t.duration \in Nat /\ t.period \in Nat \ {0}
        /\ t.duration > t.cliff /\ t.duration % t.period = 0
    BY VestingAssumption
  <2>4. n \in Nat
    BY BalancesAssumption
  <2>5. v \in Contract
    BY <2>2, <2>3, <2>4 DEF Contract
  <2>6. Completed(t.duration, t.period, 0) \in Nat
    <3>1. t.period \in Nat /\ t.period > 0 /\ 0 \in Nat
      BY <2>3
    <3>. QED
      BY <2>3, <3>1, CompletedIsNat, Zenon
  <2>7. ContractHolds(v, now)
    <3>1. now - now = 0
      BY <2>2
    <3>2. 0 * t.duration = 0 /\ 0 <= (n + 0) * Completed(t.duration, t.period, 0)
      BY <2>3, <2>4, <2>6
    <3>. QED
      BY <3>1, <3>2, <2>2, <2>3, <2>5 DEF ContractHolds, OnSchedule
  <2>. HIDE DEF v
  <2>8. /\ vesting' \in Seq(Contract)
        /\ \A i \in 1 .. Len(vesting') : IF i <= Len(vesting) THEN i \in 1 .. Len(vesting) /\ vesting'[i] = vesting[i]
                                         ELSE vesting'[i] = v
    BY <2>1, <2>2, <2>5
  <2>. QED
    BY <1>3, <2>7, <2>8 DEF VestingInv
<1>4. ASSUME NEW i \in DOMAIN vesting, NEW n \in Amounts,
             withdraw_vesting_balance(i, n), now' = now
      PROVE  VestingInv'
  <2>. DEFINE v == vesting[i]
              e == now - v.start
              u == [v EXCEPT !.balance = @ - n, !.withdrawn = @ + n]
  <2>1. /\ e >= v.cliff /\ TotalVested(v) - v.withdrawn >= n /\ v.balance >= n
        /\ vesting' = [vesting EXCEPT ![i] = u]
    BY <1>4 DEF withdraw_vesting_balance, AllowedWithdraw
  <2>2. now \in Nat /\ vesting \in Seq(Contract) /\ i \in 1 .. Len(vesting)
    BY DEF VestingInv
  <2>3. /\ v \in Contract /\ v.start <= now
        /\ v.duration > v.cliff /\ v.duration % v.period = 0
    BY <2>2 DEF VestingInv, ContractHolds
  <2>4. n \in Nat
    BY BalancesAssumption
  <2>5. /\ v.balance \in Nat /\ v.withdrawn \in Nat /\ v.start \in Nat /\ v.duration \in Nat
        /\ v.period \in Nat /\ v.period > 0 /\ v.cliff \in Nat
    BY <2>3 DEF Contract
  <2>6. e \in Nat /\ v.duration > 0
    BY <2>2, <2>3, <2>5
  <2>7. u \in Contract /\ u.balance = v.balance - n /\ u.withdrawn = v.withdrawn + n
        /\ u.start = v.start /\ u.duration = v.duration /\ u.period = v.period /\ u.cliff = v.cliff
    <3>1. v.balance - n \in Nat /\ v.withdrawn + n \in Nat
      BY <2>1, <2>4, <2>5
    <3>. HIDE DEF v
    <3>. QED
      BY <2>3, <3>1 DEF Contract
  <2>8. v.withdrawn + n <= IF e < v.duration THEN (v.balance * (e \div v.period)) \div (v.duration \div v.period)
                           ELSE v.balance
    <3>. DEFINE q == (v.balance * (e \div v.period)) \div (v.duration \div v.period)
    <3>1. TotalVested(v) = IF e < v.duration THEN q ELSE v.balance
      BY DEF TotalVested
    <3>2. q \in Int
      <4>1. e \div v.period \in Int /\ v.duration \div v.period \in Int
            /\ v.duration = v.period * (v.duration \div v.period) + (v.duration % v.period)
            /\ v.duration \div v.period >= 0
        <5>1. e \in Int /\ v.duration \in Int /\ v.duration >= 0
          BY <2>5, <2>6
        <5>. QED
          BY <5>1, <2>5, Division, Zenon
      <4>2. v.duration \div v.period # 0
        <5>1. SUFFICES ASSUME v.duration \div v.period = 0 PROVE FALSE
          OBVIOUS
        <5>2. v.duration = v.period * 0 + 0
          BY <4>1, <5>1, <2>3, Zenon
        <5>. QED
          BY <5>2, <2>5, <2>6
      <4>3. v.duration \div v.period \in Nat /\ v.duration \div v.period > 0
            /\ v.balance * (e \div v.period) \in Int
        BY <4>1, <4>2, <2>5
      <4>. QED
        BY <4>3, Division, Zenon
    <3>. HIDE DEF q
    <3>3. v.withdrawn + n <= IF e < v.duration THEN q ELSE v.balance
      BY <3>1, <3>2, <2>1, <2>4, <2>5
    <3>. QED
      BY <3>3 DEF q
  <2>9. (v.withdrawn + n) * v.duration <= (v.balance + v.withdrawn) * Completed(v.duration, v.period, e)
    <3>1. n <= v.balance
      BY <2>1, <2>4, <2>5
    <3>. QED
      BY <3>1, <2>3, <2>4, <2>5, <2>6, <2>8, AllowedIsVested, Zenon
  <2>10. ContractHolds(u, now)
    <3>1. (u.balance + u.withdrawn) = v.balance + v.withdrawn
      BY <2>4, <2>5, <2>7
    <3>2. ~(e < v.cliff)
      BY <2>1, <2>5, <2>6
    <3>. QED
      BY <3>1, <3>2, <2>3, <2>7, <2>9 DEF ContractHolds, OnSchedule
  <2>. HIDE DEF u
  <2>11. vesting' \in Seq(Contract) /\ Len(vesting') = Len(vesting)
         /\ \A j \in 1 .. Len(vesting) : vesting'[j] = IF j = i THEN u ELSE vesting[j]
    BY <2>1, <2>2, <2>7
  <2>. QED
    BY <1>4, <2>10, <2>11 DEF VestingInv
<1>. QED
  BY <1>1, <1>2, <1>3, <1>4, VestingStep DEF VestingOps

\* The invariant of the vesting contracts holds always.
LEMMA VestingInvHolds == Spec => []VestingInv
<1>1. Init => VestingInv
  <2>. SUFFICES ASSUME Init PROVE VestingInv
    OBVIOUS
  <2>1. now = 0 /\ vesting = <<>>
    BY DEF Init
  <2>. QED
    BY <2>1 DEF VestingInv
<1>2. VestingInv /\ [Next]_vars => VestingInv'
  BY VestingHolds
<1>. QED
  BY <1>1, <1>2, PTL DEF Spec

\* For all terms, deposits, sequences of partial withdrawals and times of
\* blocks: a vesting contract is never ahead of its schedule.
THEOREM VestingIsOnSchedule == Spec => []VestingOnSchedule
<1>1. VestingInv => VestingOnSchedule
  <2>. SUFFICES ASSUME VestingInv, NEW i \in DOMAIN vesting
                PROVE  OnSchedule(vesting[i], now)
    BY DEF VestingOnSchedule, OnSchedule, Completed
  <2>. QED
    BY DEF VestingInv, ContractHolds
<1>. QED
  BY <1>1, VestingInvHolds, PTL

-----------------------------------------------------------------------------
(* Awards *)

Status == {"pending", "certified", "approved", "rejected", "paid"}
ExpenseTables == UNION {[R -> Int] : R \in SUBSET Accounts}
AwardObject == [terms : AwardTerms, status : Status, expenses : ExpenseTables]
RequestObject == [award : Nat, requester : Accounts, amount : Nat, status : Status]

\* The requests ws of a recipient of an award that were paid, and their sum.
PaidRequests(ws, i, who) ==
    {r \in DOMAIN ws : ws[r].award = i /\ ws[r].requester = who /\ ws[r].status = "paid"}
PaidSum(ws, i, who) == SumFunction([r \in PaidRequests(ws, i, who) |-> ws[r].amount])

PaidWithin(ws, i, a) ==
    \A who \in Recipients(a.terms) :
        /\ PaidSum(ws, i, who) = a.expenses[who]
        /\ PaidSum(ws, i, who) > 0 => PaidSum(ws, i, who) <= TotalAmount(a.terms, who)

\* The inductive invariant of the awards: besides the property, that every
\* request names an award there is and one of its recipients.
AwardsInv ==
    /\ awards \in Seq(AwardObject) /\ requests \in Seq(RequestObject)
    /\ \A i \in 1 .. Len(awards) : DOMAIN awards[i].expenses = Recipients(awards[i].terms)
    /\ \A r \in 1 .. Len(requests) :
          /\ requests[r].award \in 1 .. Len(awards)
          /\ requests[r].requester \in Recipients(awards[requests[r].award].terms)
    /\ \A i \in 1 .. Len(awards) : PaidWithin(requests, i, awards[i])

\* Only the operations on awards touch the awards and the requests.
LEMMA AwardsStep ==
    ASSUME [Next]_vars
    PROVE  \/ awards' = awards /\ requests' = requests
           \/ AwardOps
<1>1. CASE UNCHANGED vars
  BY <1>1 DEF vars, awardVars
<1>2. CASE Operation
  BY <1>2 DEF Operation, awardVars
<1>3. ASSUME NEW gap \in BlockGaps, NEW w \in Witnesses, EndBlock(gap, w)
      PROVE  awards' = awards /\ requests' = requests
  BY <1>3 DEF EndBlock, awardVars
<1>. QED
  BY <1>1, <1>2, <1>3 DEF Next

\* What a recipient is awarded is a number, whatever the terms.
LEMMA TotalIsNumber ==
    ASSUME NEW t \in AwardTerms, NEW who \in Recipients(t)
    PROVE  TotalAmount(t, who) \in Int
<1>1. /\ t.amount \in Nat /\ t.overhead \in Nat /\ IsFiniteSet(t.subs)
      /\ \A s \in t.subs : s.amount \in Int
  BY AwardsAssumption
<1>2. SubawardsFrom(t, who) \in Int
  <2>. DEFINE S == {r \in t.subs : r.source = who}
              f == [s \in S |-> s.amount]
  <2>1. IsFiniteSet(S) /\ f \in [S -> Int]
    BY <1>1, FS_Subset
  <2>2. SubawardsFrom(t, who) = SumFunction(f)
    BY DEF SubawardsFrom
  <2>. QED
    BY <2>1, <2>2, SumIsNumber
<1>3. UniversityFee(t) \in Int
  <2>1. t.amount * t.overhead \in Int /\ HundredPercent \in Nat /\ HundredPercent > 0
    BY <1>1, BalancesAssumption
  <2>. QED
    BY <2>1, Division DEF UniversityFee
<1>4. CASE who = t.awardee
  BY <1>1, <1>2, <1>3, <1>4 DEF TotalAmount
<1>5. CASE who # t.awardee
  <2>1. \E s \in t.subs : s.to = who
    BY <1>5 DEF Recipients
  <2>2. (CHOOSE s \in t.subs : s.to = who) \in t.subs
    BY <2>1
  <2>. QED
    BY <2>2, <1>1, <1>2, <1>5 DEF TotalAmount
<1>. QED
  BY <1>4, <1>5

\* Requests that are not paid do not count.
LEMMA SamePaid ==
    ASSUME NEW ws, NEW xs, NEW i, NEW who,
           PaidRequests(xs, i, who) = PaidRequests(ws, i, who),
           \A r \in PaidRequests(ws, i, who) : xs[r].amount = ws[r].amount
    PROVE  PaidSum(xs, i, who) = PaidSum(ws, i, who)
<1>1. [r \in PaidRequests(xs, i, who) |-> xs[r].amount]
        = [r \in PaidRequests(ws, i, who) |-> ws[r].amount]
  OBVIOUS
<1>. QED
  BY <1>1 DEF PaidSum

\* The recipients of an award are accounts.
LEMMA RecipientsAreAccounts ==
    ASSUME NEW t \in AwardTerms PROVE Recipients(t) \subseteq Accounts
  BY AwardsAssumption DEF Recipients

\* A request that is filed or moved on without being paid, while the awards
\* keep their terms and expenses, preserves the invariant.
LEMMA UnpaidKeepsAwards ==
    ASSUME AwardsInv, awards' \in Seq(AwardObject), requests' \in Seq(RequestObject),
           Len(awards') = Len(awards),
           \A i \in 1 .. Len(awards) : /\ awards'[i].terms = awards[i].terms
                                       /\ awards'[i].expenses = awards[i].expenses,
           Len(requests) <= Len(requests'),
           \A r \in 1 .. Len(requests) :
               /\ requests'[r].award = requests[r].award
               /\ requests'[r].requester = requests[r].requester
               /\ requests'[r].amount = requests[r].amount
               /\ (requests'[r].status = "paid") = (requests[r].status = "paid"),
           \A r \in 1 .. Len(requests') : r > Len(requests) =>
               /\ requests'[r].award \in 1 .. Len(awards)
               /\ requests'[r].requester \in Recipients(awards[requests'[r].award].terms)
               /\ requests'[r].status # "paid"
    PROVE  AwardsInv'
<1>1. DOMAIN requests = 1 .. Len(requests) /\ DOMAIN requests' = 1 .. Len(requests')
      /\ Len(requests) \in Nat /\ Len(requests') \in Nat
  BY DEF AwardsInv
<1>2. ASSUME NEW i, NEW who
      PROVE  PaidSum(requests', i, who) = PaidSum(requests, i, who)
  <2>1. PaidRequests(requests', i, who) = PaidRequests(requests, i, who)
    BY <1>1 DEF PaidRequests
  <2>2. \A r \in PaidRequests(requests, i, who) : requests'[r].amount = requests[r].amount
    BY <1>1 DEF PaidRequests
  <2>. QED
    BY <2>1, <2>2, SamePaid
<1>3. \A i \in 1 .. Len(awards') : PaidWithin(requests', i, awards'[i])
  BY <1>2 DEF AwardsInv, PaidWithin
<1>4. \A i \in 1 .. Len(awards') : DOMAIN awards'[i].expenses = Recipients(awards'[i].terms)
  BY DEF AwardsInv
<1>5. \A r \in 1 .. Len(requests') :
          /\ requests'[r].award \in 1 .. Len(awards)
          /\ requests'[r].requester \in Recipients(awards[requests'[r].award].terms)
  <2>1. TAKE r \in 1 .. Len(requests')
  <2>2. CASE r > Len(requests)
    BY <2>2
  <2>3. CASE r \in 1 .. Len(requests)
    BY <2>3 DEF AwardsInv
  <2>. QED
    BY <2>2, <2>3, <1>1
<1>6. \A r \in 1 .. Len(requests') :
          requests'[r].requester \in Recipients(awards'[requests'[r].award].terms)
  BY <1>5
<1>. QED
  BY <1>3, <1>4, <1>5, <1>6 DEF AwardsInv

\* create_award: a new award of which nothing was requested yet.
LEMMA CreateKeepsAwards ==
    ASSUME AwardsInv, NEW t \in AwardTerms, create_award(t)
    PROVE  AwardsInv'
<1>. DEFINE a == [terms |-> t, status |-> "pending", expenses |-> [who \in Recipients(t) |-> 0]]
            n == Len(awards)
<1>1. awards' = Append(awards, a) /\ requests' = requests
  BY DEF create_award
<1>2. awards \in Seq(AwardObject) /\ requests \in Seq(RequestObject) /\ n \in Nat
  BY DEF AwardsInv
<1>3. a \in AwardObject
  <2>1. [who \in Recipients(t) |-> 0] \in [Recipients(t) -> Int]
    OBVIOUS
  <2>2. Recipients(t) \in SUBSET Accounts
    BY RecipientsAreAccounts
  <2>3. [who \in Recipients(t) |-> 0] \in ExpenseTables
    BY <2>1, <2>2 DEF ExpenseTables
  <2>. QED
    BY <2>3 DEF AwardObject, Status
<1>4. a.terms = t /\ a.expenses = [who \in Recipients(t) |-> 0]
  OBVIOUS
<1>. HIDE DEF a
<1>5. /\ awards' \in Seq(AwardObject) /\ Len(awards') = n + 1
      /\ \A i \in 1 .. n : awards'[i] = awards[i]
      /\ awards'[n + 1] = a
  BY <1>1, <1>2, <1>3
<1>6. PaidWithin(requests, n + 1, a)
  <2>. SUFFICES ASSUME NEW who \in Recipients(t) PROVE PaidSum(requests, n + 1, who) = 0
    BY <1>4 DEF PaidWithin
  <2>. DEFINE S == PaidRequests(requests, n + 1, who)
              f == [r \in S |-> requests[r].amount]
  <2>1. S = {}
    BY <1>2 DEF AwardsInv, PaidRequests
  <2>2. f \in [S -> Int] /\ IsFiniteSet(S)
    BY <2>1, FS_EmptySet
  <2>3. SumFunction(f) = 0
    <3>. HIDE DEF f, S
    <3>. QED
      BY <2>1, <2>2, SumIsNumber
  <2>. QED
    BY <2>3 DEF PaidSum
<1>. HIDE DEF n
<1>7. \A i \in 1 .. n + 1 : i \in 1 .. n \/ i = n + 1
  BY <1>2
<1>8. \A i \in 1 .. Len(awards') : PaidWithin(requests', i, awards'[i])
  BY <1>1, <1>5, <1>6, <1>7 DEF AwardsInv, n
<1>9. \A i \in 1 .. Len(awards') : DOMAIN awards'[i].expenses = Recipients(awards'[i].terms)
  BY <1>4, <1>5, <1>7 DEF AwardsInv, n
<1>10. \A r \in 1 .. Len(requests) :
           /\ requests[r].award \in 1 .. n
           /\ requests[r].requester \in Recipients(awards[requests[r].award].terms)
  BY DEF AwardsInv, n
<1>11. \A r \in 1 .. Len(requests) :
           /\ requests[r].award \in 1 .. n + 1
           /\ requests[r].requester \in Recipients(awards'[requests[r].award].terms)
  BY <1>2, <1>5, <1>10
<1>. QED
  BY <1>1, <1>2, <1>5, <1>8, <1>9, <1>11 DEF AwardsInv

\* approve_award and reject_award: only a status changes.
LEMMA StatusKeepsAwards ==
    ASSUME AwardsInv, NEW i \in DOMAIN awards, NEW st \in Status,
           awards' = [awards EXCEPT ![i].status = st], requests' = requests
    PROVE  AwardsInv'
<1>1. awards \in Seq(AwardObject) /\ requests \in Seq(RequestObject) /\ i \in 1 .. Len(awards)
  BY DEF AwardsInv
<1>2. [awards[i] EXCEPT !.status = st] \in AwardObject
  <2>1. awards[i] \in AwardObject
    BY <1>1
  <2>. QED
    BY <2>1 DEF AwardObject
<1>3. awards' = [awards EXCEPT ![i] = [awards[i] EXCEPT !.status = st]]
  OBVIOUS
<1>4. awards' \in Seq(AwardObject) /\ Len(awards') = Len(awards)
  BY <1>1, <1>2, <1>3
<1>5. \A j \in 1 .. Len(awards) : /\ awards'[j].terms = awards[j].terms
                                  /\ awards'[j].expenses = awards[j].expenses
  BY <1>1, <1>3 DEF AwardObject
<1>6. Len(requests) <= Len(requests') /\ \A r \in 1 .. Len(requests') : ~(r > Len(requests))
  BY <1>1
<1>. QED
  BY <1>1, <1>4, <1>5, <1>6, UnpaidKeepsAwards

\* create_award_withdrawal_request
LEMMA RequestKeepsAwards ==
    ASSUME AwardsInv, NEW i \in DOMAIN awards, NEW who \in Recipients(awards[i].terms),
           NEW n \in Amounts, create_award_withdrawal_request(i, who, n)
    PROVE  AwardsInv'
<1>. DEFINE w == [award |-> i, requester |-> who, amount |-> n, status |-> "pending"]
<1>1. requests' = Append(requests, w) /\ awards' = awards
  BY DEF create_award_withdrawal_request
<1>2. awards \in Seq(AwardObject) /\ requests \in Seq(RequestObject) /\ i \in 1 .. Len(awards)
  BY DEF AwardsInv
<1>3. awards[i].terms \in AwardTerms
  <2>1. awards[i] \in AwardObject
    BY <1>2
  <2>. QED
    BY <2>1 DEF AwardObject
<1>4. who \in Accounts /\ n \in Nat
  BY <1>3, RecipientsAreAccounts, BalancesAssumption
<1>5. w \in RequestObject /\ w.award = i /\ w.requester = who /\ w.status # "paid"
  BY <1>2, <1>4 DEF RequestObject, Status
<1>. HIDE DEF w
<1>6. /\ requests' \in Seq(RequestObject) /\ Len(requests') = Len(requests) + 1
      /\ \A r \in 1 .. Len(requests) : requests'[r] = requests[r]
      /\ requests'[Len(requests) + 1] = w
  BY <1>1, <1>2, <1>5
<1>7. \A r \in 1 .. Len(requests') : r > Len(requests) => requests'[r] = w
  BY <1>2, <1>6
<1>8. Len(requests) <= Len(requests')
  BY <1>2, <1>6
<1>. QED
  BY <1>1, <1>2, <1>5, <1>6, <1>7, <1>8, UnpaidKeepsAwards

\* certify, approve and reject
LEMMA UpdateKeepsAwards ==
    ASSUME AwardsInv, NEW r \in DOMAIN requests, NEW from, NEW to \in Status, "paid" \notin from,
           to # "paid", UpdateRequest(r, from, to)
    PROVE  AwardsInv'
<1>. DEFINE w == [requests[r] EXCEPT !.status = to]
<1>1. /\ requests[r].status \in from /\ awards' = awards
      /\ requests' = [requests EXCEPT ![r] = w]
  BY DEF UpdateRequest, awardVars
<1>2. awards \in Seq(AwardObject) /\ requests \in Seq(RequestObject) /\ r \in 1 .. Len(requests)
  BY DEF AwardsInv
<1>3. /\ w \in RequestObject /\ w.award = requests[r].award /\ w.requester = requests[r].requester
      /\ w.amount = requests[r].amount /\ w.status # "paid"
  <2>1. requests[r] \in RequestObject
    BY <1>2
  <2>. QED
    BY <2>1 DEF RequestObject
<1>4. requests[r].status # "paid"
  BY <1>1
<1>. HIDE DEF w
<1>5. /\ requests' \in Seq(RequestObject) /\ Len(requests') = Len(requests)
      /\ \A q \in 1 .. Len(requests) : requests'[q] = IF q = r THEN w ELSE requests[q]
  BY <1>1, <1>2, <1>3
<1>6. \A q \in 1 .. Len(requests) :
               /\ requests'[q].award = requests[q].award
               /\ requests'[q].requester = requests[q].requester
               /\ requests'[q].amount = requests[q].amount
               /\ (requests'[q].status = "paid") = (requests[q].status = "paid")
  BY <1>3, <1>4, <1>5
<1>7. Len(requests) <= Len(requests') /\ \A q \in 1 .. Len(requests') : ~(q > Len(requests))
  BY <1>2, <1>5
<1>. QED
  BY <1>1, <1>2, <1>5, <1>6, <1>7, UnpaidKeepsAwards

\* pay_award_withdrawal_request: the unspent amount is asked again, and one
\* request joins those that were paid.
LEMMA PayKeepsAwards ==
    ASSUME AwardsInv, NEW r \in DOMAIN requests, pay_award_withdrawal_request(r)
    PROVE  AwardsInv'
<1>. DEFINE w == requests[r]
            k == w.award
            p == w.requester
            n == w.amount
            a == awards[k]
            x == [a.expenses EXCEPT ![p] = @ + n]
            b == [a EXCEPT !.expenses = x]
            v == [w EXCEPT !.status = "paid"]
<1>1. /\ w.status = "approved" /\ TotalAmount(a.terms, p) - a.expenses[p] >= n
      /\ awards' = [awards EXCEPT ![k].expenses[p] = @ + n]
      /\ requests' = [requests EXCEPT ![r].status = "paid"]
  BY DEF pay_award_withdrawal_request, StillUnspent, Unspent
<1>2. /\ awards \in Seq(AwardObject) /\ requests \in Seq(RequestObject) /\ r \in 1 .. Len(requests)
      /\ k \in 1 .. Len(awards) /\ p \in Recipients(a.terms)
      /\ DOMAIN a.expenses = Recipients(a.terms) /\ PaidWithin(requests, k, a)
  BY DEF AwardsInv
<1>3. a \in AwardObject /\ w \in RequestObject
  BY <1>2
<1>4. a.terms \in AwardTerms /\ a.expenses \in ExpenseTables /\ n \in Nat /\ p \in Accounts /\ k \in Nat
  BY <1>3 DEF AwardObject, RequestObject
<1>5. a.expenses \in [Recipients(a.terms) -> Int]
  BY <1>2, <1>4 DEF ExpenseTables
<1>6. awards' = [awards EXCEPT ![k] = b] /\ requests' = [requests EXCEPT ![r] = v]
  BY <1>1
<1>7. x \in [Recipients(a.terms) -> Int] /\ x[p] = a.expenses[p] + n
      /\ \A who \in Recipients(a.terms) : who # p => x[who] = a.expenses[who]
  BY <1>2, <1>4, <1>5
<1>8. x \in ExpenseTables
  BY <1>4, <1>7, RecipientsAreAccounts DEF ExpenseTables
<1>9. b \in AwardObject /\ b.terms = a.terms /\ b.expenses = x
  <2>. HIDE DEF x, a
  <2>. QED
    BY <1>3, <1>8 DEF AwardObject
<1>10. v \in RequestObject /\ v.award = k /\ v.requester = p /\ v.amount = n /\ v.status = "paid"
  <2>. HIDE DEF w
  <2>. QED
    BY <1>3 DEF RequestObject, Status
<1>11. w.status # "paid"
  BY <1>1
<1>. HIDE DEF b, v, x
<1>12. /\ awards' \in Seq(AwardObject) /\ Len(awards') = Len(awards)
       /\ \A i \in 1 .. Len(awards) : awards'[i] = IF i = k THEN b ELSE awards[i]
  BY <1>2, <1>6, <1>9
<1>13. /\ requests' \in Seq(RequestObject) /\ Len(requests') = Len(requests)
       /\ DOMAIN requests = 1 .. Len(requests) /\ DOMAIN requests' = 1 .. Len(requests)
       /\ \A q \in 1 .. Len(requests) : requests'[q] = IF q = r THEN v ELSE requests[q]
  BY <1>2, <1>6, <1>10
<1>14. \A i \in 1 .. Len(awards) : awards'[i].terms = awards[i].terms
  BY <1>9, <1>12
<1>15. ASSUME NEW i, NEW who, i # k \/ who # p
       PROVE  PaidSum(requests', i, who) = PaidSum(requests, i, who)
  <2>1. PaidRequests(requests', i, who) = PaidRequests(requests, i, who)
    BY <1>10, <1>11, <1>13, <1>15 DEF PaidRequests
  <2>2. \A q \in PaidRequests(requests, i, who) : requests'[q].amount = requests[q].amount
    BY <1>10, <1>13 DEF PaidRequests
  <2>. QED
    BY <2>1, <2>2, SamePaid
<1>16. PaidSum(requests', k, p) = PaidSum(requests, k, p) + n
  <2>. DEFINE S == PaidRequests(requests, k, p)
              T == PaidRequests(requests', k, p)
              f == [q \in S |-> requests[q].amount]
              h == [q \in T |-> requests'[q].amount]
  <2>1. T = S \cup {r} /\ r \notin S
    BY <1>2, <1>10, <1>11, <1>13 DEF PaidRequests
  <2>2. IsFiniteSet(S)
    <3>1. S \subseteq 1 .. Len(requests) /\ Len(requests) \in Nat
      BY <1>2 DEF PaidRequests
    <3>2. IsFiniteSet(1 .. Len(requests))
      BY <3>1, FS_Interval
    <3>. QED
      BY <3>1, <3>2, FS_Subset
  <2>3. f \in [S -> Int]
    <3>1. \A q \in S : requests[q] \in RequestObject
      BY <1>2 DEF PaidRequests
    <3>2. \A q \in S : requests[q].amount \in Int
      BY <3>1 DEF RequestObject
    <3>. HIDE DEF S
    <3>. QED
      BY <3>2
  <2>4. h \in [S \cup {r} -> Int] /\ h[r] = n /\ \A q \in S : h[q] = f[q]
    <3>1. \A q \in S : requests'[q].amount = requests[q].amount
      BY <2>1, <1>13 DEF PaidRequests
    <3>2. requests'[r].amount = n
      BY <1>2, <1>10, <1>13
    <3>3. \A q \in S : requests[q].amount \in Int
      BY <2>3
    <3>. HIDE DEF S, T
    <3>. QED
      BY <2>1, <3>1, <3>2, <3>3, <1>4
  <2>5. PaidSum(requests, k, p) = SumFunction(f) /\ PaidSum(requests', k, p) = SumFunction(h)
    BY DEF PaidSum
  <2>. HIDE DEF S, T, f, h, n
  <2>. QED
    BY <2>1, <2>2, <2>3, <2>4, <2>5, SumInsert
<1>17. PaidWithin(requests', k, b)
  <2>1. ASSUME NEW who \in Recipients(a.terms), who # p
        PROVE  /\ PaidSum(requests', k, who) = x[who]
               /\ PaidSum(requests', k, who) > 0 => PaidSum(requests', k, who) <= TotalAmount(a.terms, who)
    BY <1>2, <1>7, <1>15, <2>1 DEF PaidWithin
  <2>2. /\ PaidSum(requests', k, p) = x[p]
        /\ PaidSum(requests', k, p) <= TotalAmount(a.terms, p)
    <3>1. PaidSum(requests, k, p) = a.expenses[p] /\ a.expenses[p] \in Int
      BY <1>2, <1>5 DEF PaidWithin
    <3>2. TotalAmount(a.terms, p) \in Int
      BY <1>2, <1>4, TotalIsNumber
    <3>. HIDE DEF a, p, n, k
    <3>. QED
      BY <3>1, <3>2, <1>1, <1>4, <1>7, <1>16
  <2>. QED
    BY <2>1, <2>2, <1>9 DEF PaidWithin
<1>18. ASSUME NEW i \in 1 .. Len(awards), i # k
       PROVE  PaidWithin(requests', i, awards[i])
  BY <1>15, <1>18 DEF AwardsInv, PaidWithin
<1>19. \A i \in 1 .. Len(awards') : PaidWithin(requests', i, awards'[i])
  BY <1>12, <1>17, <1>18
<1>20. \A i \in 1 .. Len(awards') : DOMAIN awards'[i].expenses = Recipients(awards'[i].terms)
  BY <1>7, <1>9, <1>12 DEF AwardsInv
<1>21. \A q \in 1 .. Len(requests') :
           /\ requests'[q].award = requests[q].award /\ requests'[q].requester = requests[q].requester
  BY <1>10, <1>13
<1>22. \A q \in 1 .. Len(requests') :
           /\ requests'[q].award \in 1 .. Len(awards')
           /\ requests'[q].requester \in Recipients(awards'[requests'[q].award].terms)
  BY <1>12, <1>13, <1>14, <1>21 DEF AwardsInv
<1>. QED
  BY <1>12, <1>13, <1>19, <1>20, <1>22 DEF AwardsInv

\* The invariant of the awards holds always.
LEMMA AwardsInvHolds == Spec => []AwardsInv
<1>1. Init => AwardsInv
  <2>. SUFFICES ASSUME Init PROVE AwardsInv
    OBVIOUS
  <2>1. awards = <<>> /\ requests = <<>>
    BY DEF Init
  <2>. QED
    BY <2>1 DEF AwardsInv
<1>2. AwardsInv /\ [Next]_vars => AwardsInv'
  <2>. SUFFICES ASSUME AwardsInv, [Next]_vars PROVE AwardsInv'
    OBVIOUS
  <2>1. CASE awards' = awards /\ requests' = requests
    BY <2>1 DEF AwardsInv
  <2>2. ASSUME NEW a \in Accounts, NEW n \in Amounts, create_grant(a, n)
        PROVE  AwardsInv'
    BY <2>2 DEF AwardsInv, create_grant
  <2>3. ASSUME NEW i \in DOMAIN awards, approve_award(i) \/ reject_award(i)
        PROVE  AwardsInv'
    BY <2>3, StatusKeepsAwards DEF approve_award, reject_award, awardVars, Status
  <2>4. ASSUME NEW r \in DOMAIN requests,
               \/ certify_award_withdrawal_request(r) \/ approve_award_withdrawal_request(r)
               \/ reject_award_withdrawal_request(r)
        PROVE  AwardsInv'
    <3>1. {"certified", "approved", "rejected"} \subseteq Status
      BY DEF Status
    <3>2. CASE certify_award_withdrawal_request(r)
      BY <3>1, <3>2, UpdateKeepsAwards DEF certify_award_withdrawal_request
    <3>3. CASE approve_award_withdrawal_request(r)
      BY <3>1, <3>3, UpdateKeepsAwards DEF approve_award_withdrawal_request
    <3>4. CASE reject_award_withdrawal_request(r)
      BY <3>1, <3>4, UpdateKeepsAwards DEF reject_award_withdrawal_request
    <3>. QED
      BY <2>4, <3>2, <3>3, <3>4
  <2>. QED
    BY <2>1, <2>2, <2>3, <2>4, AwardsStep, CreateKeepsAwards, RequestKeepsAwards, PayKeepsAwards
    DEF AwardOps
<1>. QED
  BY <1>1, <1>2, PTL DEF Spec

\* For all terms, amounts and interleavings of requests: nobody is paid more
\* than he was awarded, and the expenses are what the paid requests add up to.
THEOREM AwardsArePaidOnce == Spec => []PaidWithinAward
<1>1. AwardsInv => PaidWithinAward
  <2>. SUFFICES ASSUME AwardsInv, NEW i \in DOMAIN awards, NEW who \in Recipients(awards[i].terms)
                PROVE  /\ PaidSum(requests, i, who) = awards[i].expenses[who]
                       /\ PaidSum(requests, i, who) > 0
                             => PaidSum(requests, i, who) <= TotalAmount(awards[i].terms, who)
    BY DEF PaidWithinAward, PaidSum, PaidRequests
  <2>. QED
    BY DEF AwardsInv, PaidWithin
<1>. QED
  BY <1>1, AwardsInvHolds, PTL

-----------------------------------------------------------------------------
(* Balances *)

BalanceTables == [Accounts -> [Assets -> Int]]

\* What the accounts hold of an asset, and that none is overdrawn.
Held(b, s) == SumFunction([a \in Accounts |-> b[a][s]])
Solvent(b) == \A a \in Accounts : \A s \in Assets : b[a][s] >= 0

\* The amount held is a number, a natural one when no account is overdrawn.
LEMMA HeldIsNumber ==
    ASSUME NEW b \in BalanceTables, NEW s \in Assets
    PROVE  Held(b, s) \in Int /\ (Solvent(b) => Held(b, s) \in Nat)
<1>. DEFINE f == [a \in Accounts |-> b[a][s]]
<1>1. f \in [Accounts -> Int] /\ IsFiniteSet(Accounts)
  BY BalancesAssumption DEF BalanceTables
<1>2. Solvent(b) => f \in [Accounts -> Nat]
  BY DEF Solvent, BalanceTables
<1>. HIDE DEF f
<1>3. SumFunction(f) \in Int /\ (Solvent(b) => SumFunction(f) \in Nat)
  BY <1>1, <1>2, SumIsNumber, SumOfNats
<1>. QED
  BY <1>3 DEF Held, f

\* One amount changes.
AdjustedBy(b, r, o, s, n) ==
    /\ r \in BalanceTables
    /\ r[o][s] = b[o][s] + n
    /\ \A a \in Accounts : \A t \in Assets : a # o \/ t # s => r[a][t] = b[a][t]
    /\ Held(r, s) = Held(b, s) + n
    /\ \A t \in Assets : t # s => Held(r, t) = Held(b, t)
    /\ Solvent(b) /\ b[o][s] + n >= 0 => Solvent(r)

\* adjust_account_balance changes what is held by its delta.
LEMMA AdjustFacts ==
    ASSUME NEW b \in BalanceTables, NEW o \in Accounts, NEW s \in Assets, NEW n \in Int
    PROVE  AdjustedBy(b, adjust_account_balance(b, o, s, n), o, s, n)
<1>. DEFINE r == adjust_account_balance(b, o, s, n)
            On(d, t) == [a \in Accounts |-> d[a][t]]
<1>1. r = [b EXCEPT ![o] = [b[o] EXCEPT ![s] = b[o][s] + n]]
  BY DEF adjust_account_balance, BalanceTables
<1>2. /\ r \in BalanceTables /\ r[o][s] = b[o][s] + n
      /\ \A a \in Accounts : \A t \in Assets : a # o \/ t # s => r[a][t] = b[a][t]
  BY <1>1 DEF BalanceTables
<1>. HIDE DEF r
<1>3. \A t \in Assets : t # s => Held(r, t) = Held(b, t)
  <2>1. TAKE t \in Assets
  <2>2. HAVE t # s
  <2>3. On(r, t) = On(b, t)
    BY <1>2, <2>2
  <2>. QED
    BY <2>3 DEF Held
<1>4. Held(r, s) = Held(b, s) + n
  <2>. DEFINE f == On(b, s)
              h == On(r, s)
  <2>1. /\ f \in [Accounts -> Int] /\ h \in [Accounts -> Int]
        /\ h[o] = f[o] + n /\ f[o] \in Int
        /\ \A a \in Accounts : a # o => h[a] = f[a]
    BY <1>2 DEF BalanceTables
  <2>2. IsFiniteSet(Accounts)
    BY BalancesAssumption
  <2>. HIDE DEF f, h
  <2>3. SumFunction(h) = SumFunction(f) + h[o] - f[o] /\ SumFunction(f) \in Int
    BY <2>1, <2>2, SumChange, SumIsNumber
  <2>4. SumFunction(h) = SumFunction(f) + n
    BY <2>1, <2>3
  <2>. QED
    BY <2>4 DEF Held, f, h
<1>5. Solvent(b) /\ b[o][s] + n >= 0 => Solvent(r)
  BY <1>2 DEF Solvent
<1>. QED
  BY <1>2, <1>3, <1>4, <1>5 DEF AdjustedBy, r

\* Amounts that only change hands.
KeepsHeld(b, r) == \A s \in Assets : Held(r, s) = Held(b, s)

\* One account gives, another or the same one takes.
LEMMA MoveFacts ==
    ASSUME NEW b \in BalanceTables, NEW x \in Accounts, NEW y \in Accounts, NEW s \in Assets, NEW n \in Int
    PROVE  LET r == adjust_account_balance(adjust_account_balance(b, x, s, -n), y, s, n) IN
           /\ r \in BalanceTables /\ KeepsHeld(b, r)
           /\ Solvent(b) /\ b[x][s] - n >= 0 /\ (n >= 0 \/ b[y][s] + n >= 0) => Solvent(r)
<1>. DEFINE m == -n
            d == adjust_account_balance(b, x, s, m)
            r == adjust_account_balance(d, y, s, n)
<1>0. m \in Int /\ b[x][s] \in Int /\ b[y][s] \in Int
  BY DEF BalanceTables
<1>1. AdjustedBy(b, d, x, s, m)
  BY <1>0, AdjustFacts
<1>2. d \in BalanceTables
  BY <1>1 DEF AdjustedBy
<1>. HIDE DEF d
<1>3. AdjustedBy(d, r, y, s, n)
  BY <1>2, AdjustFacts
<1>. HIDE DEF r
<1>4. KeepsHeld(b, r)
  <2>1. Held(b, s) \in Int /\ Held(d, s) = Held(b, s) + m /\ Held(r, s) = Held(d, s) + n
    BY <1>1, <1>3, HeldIsNumber DEF AdjustedBy
  <2>2. Held(r, s) = Held(b, s)
    BY <2>1
  <2>3. \A t \in Assets : t # s => Held(r, t) = Held(b, t)
    BY <1>1, <1>3 DEF AdjustedBy
  <2>. QED
    BY <2>2, <2>3 DEF KeepsHeld
<1>5. ASSUME Solvent(b), b[x][s] - n >= 0, n >= 0 \/ b[y][s] + n >= 0 PROVE Solvent(r)
  <2>1. b[x][s] + m >= 0
    BY <1>0, <1>5
  <2>2. Solvent(d)
    BY <1>1, <1>5, <2>1 DEF AdjustedBy
  <2>3. d[y][s] + n >= 0
    <3>1. CASE y = x
      BY <1>0, <1>1, <1>5, <3>1 DEF AdjustedBy, Solvent
    <3>2. CASE y # x
      <4>1. d[y][s] = b[y][s] /\ b[y][s] >= 0
        BY <1>1, <1>5, <3>2 DEF AdjustedBy, Solvent
      <4>. QED
        BY <1>0, <1>5, <4>1
    <3>. QED
      BY <3>1, <3>2
  <2>. QED
    BY <1>3, <2>2, <2>3 DEF AdjustedBy
<1>. QED
  BY <1>2, <1>3, <1>4, <1>5 DEF r, d, AdjustedBy

-----------------------------------------------------------------------------
(* Settling a sale *)

SaleObject == [status : {"none", "inactive", "active", "expired", "finished"}, on_sale : Nat,
               soft_cap : Nat, hard_cap : Nat, start : Nat, end : Nat, total : Nat]
ContributionObject == [owner : Accounts, amount : Nat]

\* Tokens given out so far: the balances, the amount and the assertions.
Hands == [b : BalanceTables, given : Int, ok : BOOLEAN]
HandedFrom(b, r) == KeepsHeld(b, r.b) /\ (r.ok => Solvent(r.b))

\* A share of the tokens is a natural number.
LEMMA TokenShareIsNat ==
    ASSUME NEW s \in SaleObject, NEW c \in ContributionObject, s.total > 0
    PROVE  TokenShare(s.on_sale, c.amount, s.total) \in Nat
<1>1. s.on_sale \in Nat /\ s.total \in Nat /\ c.amount \in Nat
  BY DEF SaleObject, ContributionObject
<1>2. HundredPercent \in Nat /\ HundredPercent > 0
  BY BalancesAssumption
<1>. DEFINE d == 2 * s.total
            x == 2 * c.amount * HundredPercent + s.total
            p == x \div d
            y == s.on_sale * p
<1>3. d \in Nat /\ d > 0
  BY <1>1
<1>4. x \in Nat
  BY <1>1, <1>2
<1>5. PercentShare(c.amount, s.total) = p
  BY DEF PercentShare
<1>. HIDE DEF d, x
<1>6. p \in Nat
  BY <1>3, <1>4, Division
<1>. HIDE DEF p
<1>7. y \in Nat
  BY <1>1, <1>6
<1>8. TokenShare(s.on_sale, c.amount, s.total) = y \div HundredPercent
  BY <1>5 DEF TokenShare
<1>. HIDE DEF y
<1>. QED
  BY <1>2, <1>7, <1>8, Division

\* HandOut moves tokens from the group to the contributor.
LEMMA HandOutFacts ==
    ASSUME NEW s \in SaleObject, NEW c \in ContributionObject, s.total > 0, NEW r \in Hands,
           NEW b \in BalanceTables, HandedFrom(b, r)
    PROVE  HandOut(s, r, c) \in Hands /\ HandedFrom(b, HandOut(s, r, c))
<1>. DEFINE n == TokenShare(s.on_sale, c.amount, s.total)
            d == adjust_account_balance(adjust_account_balance(r.b, Group, Token, -n), c.owner, Token, n)
            h == HandOut(s, r, c)
<1>1. n \in Nat
  BY TokenShareIsNat
<1>2. /\ r.b \in BalanceTables /\ r.given \in Int /\ r.ok \in BOOLEAN /\ c.owner \in Accounts
      /\ Group \in Accounts /\ Token \in Assets
  BY BalancesAssumption, TokenSaleAssumption DEF Hands, ContributionObject
<1>3. h = [b |-> d, given |-> r.given + n, ok |-> r.ok /\ Covers(r.b, Group, Token, n)]
  BY DEF HandOut
<1>. HIDE DEF n
<1>4. /\ d \in BalanceTables /\ KeepsHeld(r.b, d)
      /\ Solvent(r.b) /\ r.b[Group][Token] - n >= 0 => Solvent(d)
  BY <1>1, <1>2, MoveFacts
<1>5. r.b[Group][Token] \in Int
  BY <1>2 DEF BalanceTables
<1>6. r.ok /\ Covers(r.b, Group, Token, n) => Solvent(d)
  BY <1>1, <1>4, <1>5 DEF HandedFrom, Covers
<1>7. KeepsHeld(b, d)
  BY <1>4 DEF HandedFrom, KeepsHeld
<1>. HIDE DEF d
<1>8. h.b = d /\ h.given = r.given + n /\ h.ok = (r.ok /\ Covers(r.b, Group, Token, n))
  BY <1>3
<1>9. h \in Hands
  <2>1. r.given + n \in Int /\ (r.ok /\ Covers(r.b, Group, Token, n)) \in BOOLEAN
    BY <1>1, <1>2 DEF Covers
  <2>. QED
    BY <1>3, <1>4, <2>1 DEF Hands
<1>10. HandedFrom(b, h)
  BY <1>6, <1>7, <1>8 DEF HandedFrom
<1>. QED
  BY <1>9, <1>10

\* What rounding left over changes hands between the group and the last
\* contributor, in whichever direction.
LEMMA HandOutRestFacts ==
    ASSUME NEW s \in SaleObject, NEW o \in Accounts, NEW r \in Hands,
           NEW b \in BalanceTables, HandedFrom(b, r)
    PROVE  LET h == HandOutRest(s, r, o) IN
           h.b \in BalanceTables /\ h.ok \in BOOLEAN /\ HandedFrom(b, h)
<1>. DEFINE n == s.on_sale - r.given
            m == -n
            d == adjust_account_balance(adjust_account_balance(r.b, o, Token, n), Group, Token, -n)
            h == HandOutRest(s, r, o)
<1>1. /\ r.b \in BalanceTables /\ r.ok \in BOOLEAN /\ n \in Int /\ m \in Int /\ -m = n /\ m = -n
      /\ Group \in Accounts /\ Token \in Assets
  BY BalancesAssumption, TokenSaleAssumption DEF Hands, SaleObject
<1>2. /\ h.b = d
      /\ h.ok = (/\ r.ok
                 /\ n < 0 => Covers(r.b, o, Token, -n)
                 /\ n > 0 => Covers(r.b, Group, Token, n))
  BY DEF HandOutRest
<1>. HIDE DEF n
<1>3. d = adjust_account_balance(adjust_account_balance(r.b, o, Token, -m), Group, Token, m)
  BY <1>1
<1>. HIDE DEF m
<1>4. /\ d \in BalanceTables /\ KeepsHeld(r.b, d)
      /\ Solvent(r.b) /\ r.b[o][Token] - m >= 0 /\ (m >= 0 \/ r.b[Group][Token] + m >= 0) => Solvent(d)
  <2>. HIDE DEF d
  <2>. QED
    BY <1>1, <1>3, MoveFacts
<1>5. r.b[Group][Token] \in Int /\ r.b[o][Token] \in Int
  BY <1>1 DEF BalanceTables
<1>. HIDE DEF d, h
<1>6. h.ok => Solvent(d)
  <2>. SUFFICES ASSUME h.ok PROVE Solvent(d)
    OBVIOUS
  <2>1. /\ r.ok /\ Solvent(r.b)
        /\ n < 0 => r.b[o][Token] >= -n
        /\ n > 0 => r.b[Group][Token] >= n
    BY <1>2 DEF Covers, HandedFrom
  <2>2. r.b[o][Token] >= 0 /\ r.b[Group][Token] >= 0
    BY <1>1, <2>1 DEF Solvent
  <2>3. r.b[o][Token] - m >= 0 /\ (m >= 0 \/ r.b[Group][Token] + m >= 0)
    BY <1>1, <1>5, <2>1, <2>2
  <2>. QED
    BY <1>4, <2>1, <2>3
<1>7. KeepsHeld(b, d)
  BY <1>4 DEF HandedFrom, KeepsHeld
<1>8. h.ok \in BOOLEAN
  BY <1>1, <1>2 DEF Covers
<1>. QED
  BY <1>2, <1>4, <1>6, <1>7, <1>8 DEF HandedFrom, h

\* The last place of a set of places of a sequence.
LEMMA PlacesHaveLast ==
    ASSUME NEW n \in Nat
    PROVE  \A t \in SUBSET (1 .. n) : t # {} => Max(t) \in t
<1>. SUFFICES ASSUME NEW t \in SUBSET (1 .. n), t # {} PROVE Max(t) \in t
  OBVIOUS
<1>1. t \in SUBSET (0 .. n)
  OBVIOUS
<1>. QED
  BY <1>1, MaxIsGreatest

\* The fold over the contributors, from the last one back.
HandsOut(g, s, start, cs) ==
    g = [t \in SUBSET DOMAIN cs |->
           IF t = {} THEN start ELSE HandOut(s, g[t \ {Max(t)}], cs[Max(t)])]

\* Every contributor is given his share.
LEMMA HandOutAll ==
    ASSUME NEW s \in SaleObject, NEW cs \in Seq(ContributionObject), cs = <<>> \/ s.total > 0,
           NEW start \in Hands, NEW b \in BalanceTables, HandedFrom(b, start)
    PROVE  LET all == FoldLeft(LAMBDA r, c : HandOut(s, r, c), start, cs) IN
           all \in Hands /\ HandedFrom(b, all)
<1>. DEFINE D == 1 .. Len(cs)
            c == [t \in SUBSET D |-> Max(t)]
            H == [q \in (SUBSET D) \X Hands |-> HandOut(s, q[2], cs[Max(q[1])])]
            P == {q \in (SUBSET D) \X Hands : HandedFrom(b, q[2])}
            fold == CHOOSE g : HandsOut(g, s, start, cs)
<1>1. /\ IsFiniteSet(D) /\ D = DOMAIN cs /\ Len(cs) \in Nat
      /\ \A i \in D : cs[i] \in ContributionObject /\ s.total > 0
  BY FS_Interval
<1>2. \A t \in SUBSET D : t # {} => Max(t) \in t
  BY <1>1, PlacesHaveLast
<1>3. Chooses(c, D) /\ \A t \in SUBSET D : c[t] = Max(t)
  BY <1>2 DEF Chooses
<1>4. <<{}, start>> \in P
  OBVIOUS
<1>. HIDE DEF D
<1>5. ASSUME NEW t \in SUBSET D, NEW v \in Hands, t # {}, HandedFrom(b, v)
      PROVE  HandOut(s, v, cs[Max(t)]) \in Hands /\ HandedFrom(b, HandOut(s, v, cs[Max(t)]))
  <2>1. cs[Max(t)] \in ContributionObject /\ s.total > 0
    BY <1>1, <1>2, <1>5
  <2>. QED
    BY <1>5, <2>1, HandOutFacts
<1>6. \A t \in SUBSET D, v \in Hands : H[<<t, v>>] = HandOut(s, v, cs[Max(t)])
  OBVIOUS
<1>. HIDE DEF H
<1>7. \A t \in SUBSET D, v \in Hands :
          t # {} /\ <<t \ {c[t]}, v>> \in P => <<t, H[<<t, v>>]>> \in P
  BY <1>5, <1>6
<1>. HIDE DEF c
<1>8. \E g : HandsOut(g, s, start, cs)
  <2>1. PICK g \in [SUBSET D -> Hands] : Recursive(g, D, start, c, H)
    <3>1. FoldKeeps(P, D, Hands, start, c, H)
      BY <1>4, <1>7 DEF FoldKeeps
    <3>. HIDE DEF P
    <3>. QED
      BY <1>1, <1>3, <3>1, FoldExists
  <2>2. \A t \in SUBSET D :
            g[t] = IF t = {} THEN start ELSE HandOut(s, g[t \ {Max(t)}], cs[Max(t)])
    <3>. SUFFICES ASSUME NEW t \in SUBSET D, t # {}
                  PROVE  g[t] = HandOut(s, g[t \ {Max(t)}], cs[Max(t)])
      BY <2>1 DEF Recursive
    <3>1. g[t \ {Max(t)}] \in Hands
      OBVIOUS
    <3>. QED
      BY <1>3, <1>6, <2>1, <3>1 DEF Recursive
  <2>3. g = [t \in SUBSET D |-> g[t]]
    OBVIOUS
  <2>. QED
    BY <1>1, <2>2, <2>3, Zenon DEF HandsOut
<1>9. HandsOut(fold, s, start, cs)
  BY <1>8
<1>. HIDE DEF fold
<1>10. \A t \in SUBSET D :
           fold[t] = IF t = {} THEN start ELSE HandOut(s, fold[t \ {Max(t)}], cs[Max(t)])
  BY <1>1, <1>9 DEF HandsOut
<1>11. \A t \in SUBSET D : <<t, fold[t]>> \in P
  <2>1. <<{}, fold[{}]>> \in P
    BY <1>4, <1>10
  <2>2. ASSUME NEW t \in SUBSET D, t # {}, <<t \ {c[t]}, fold[t \ {c[t]}]>> \in P
        PROVE  <<t, fold[t]>> \in P
    <3>1. fold[t \ {Max(t)}] \in Hands /\ HandedFrom(b, fold[t \ {Max(t)}])
      BY <1>3, <2>2
    <3>2. fold[t] = HandOut(s, fold[t \ {Max(t)}], cs[Max(t)])
      BY <1>10, <2>2
    <3>. QED
      BY <1>5, <2>2, <3>1, <3>2
  <2>. HIDE DEF P
  <2>. QED
    BY <1>1, <1>3, <2>1, <2>2, FoldHolds
<1>12. fold[D] \in Hands /\ HandedFrom(b, fold[D])
  BY <1>11
<1>13. FoldLeft(LAMBDA r, x : HandOut(s, r, x), start, cs) = fold[DOMAIN cs]
  BY DEF FoldLeft, MapThenFoldSet, HandsOut, fold
<1>. QED
  BY <1>1, <1>12, <1>13

\* What a settlement leaves: the tokens are out of the sale, and of the core
\* asset n is paid out.
Settled(s, b, f, n, e) ==
    /\ e.b \in BalanceTables /\ e.f = UnfreezeFrozen(f, Group, s.on_sale)
    /\ e.ok \in BOOLEAN /\ (e.ok => Solvent(e.b))
    /\ Held(e.b, Token) = Held(b, Token) + s.on_sale
    /\ Held(e.b, DEIP) = Held(b, DEIP) + n
    /\ \A t \in Assets \ {Token, DEIP} : Held(e.b, t) = Held(b, t)

\* finish_research_token_sale gives out what was put on sale, and the group
\* gets what was contributed.
LEMMA FinishFacts ==
    ASSUME NEW s \in SaleObject, NEW cs \in Seq(ContributionObject), cs = <<>> \/ s.total > 0,
           NEW b \in BalanceTables, Solvent(b), NEW f
    PROVE  Settled(s, b, f, s.total, finish_research_token_sale(s, cs, b, f))
<1>. DEFINE u     == UnfreezeBalance(b, Group, s.on_sale)
            okay  == f[Group] >= s.on_sale
            start == [b |-> u, given |-> 0, ok |-> okay]
            all   == FoldLeft(LAMBDA r, c : HandOut(s, r, c), start, cs)
            done  == IF cs = <<>> THEN all ELSE HandOutRest(s, all, Last(cs).owner)
            e     == finish_research_token_sale(s, cs, b, f)
<1>1. /\ s.on_sale \in Nat /\ s.total \in Nat
      /\ Group \in Accounts /\ Token \in Assets /\ DEIP \in Assets /\ DEIP # Token
      /\ b[Group][Token] \in Int /\ b[Group][Token] >= 0
  BY BalancesAssumption, TokenSaleAssumption DEF SaleObject, BalanceTables, Solvent
<1>2. AdjustedBy(b, u, Group, Token, s.on_sale)
  BY <1>1, AdjustFacts DEF UnfreezeBalance
<1>3. u \in BalanceTables /\ Solvent(u)
  BY <1>1, <1>2 DEF AdjustedBy
<1>4. /\ e.b = adjust_account_balance(done.b, Group, DEIP, s.total)
      /\ e.f = UnfreezeFrozen(f, Group, s.on_sale) /\ e.ok = done.ok
  BY DEF finish_research_token_sale
<1>. HIDE DEF u
<1>5. start \in Hands /\ HandedFrom(u, start)
  <2>1. okay \in BOOLEAN
    OBVIOUS
  <2>2. KeepsHeld(u, u)
    BY DEF KeepsHeld
  <2>. HIDE DEF okay
  <2>. QED
    BY <1>3, <2>1, <2>2 DEF Hands, HandedFrom
<1>. HIDE DEF start
<1>6. all \in Hands /\ HandedFrom(u, all)
  BY <1>3, <1>5, HandOutAll
<1>. HIDE DEF all
<1>7. done.b \in BalanceTables /\ done.ok \in BOOLEAN /\ HandedFrom(u, done)
  <2>1. CASE cs = <<>>
    BY <1>6, <2>1 DEF Hands
  <2>2. CASE cs # <<>>
    <3>1. Last(cs) \in ContributionObject
      BY <2>2 DEF Last
    <3>2. Last(cs).owner \in Accounts
      BY <3>1 DEF ContributionObject
    <3>. QED
      BY <1>3, <1>6, <2>2, <3>2, HandOutRestFacts
  <2>. QED
    BY <2>1, <2>2
<1>. HIDE DEF done, e
<1>8. AdjustedBy(done.b, e.b, Group, DEIP, s.total)
  BY <1>1, <1>4, <1>7, AdjustFacts
<1>9. e.ok => Solvent(e.b)
  <2>. SUFFICES ASSUME e.ok PROVE Solvent(e.b)
    OBVIOUS
  <2>1. Solvent(done.b)
    BY <1>4, <1>7 DEF HandedFrom
  <2>2. done.b[Group][DEIP] \in Int /\ done.b[Group][DEIP] >= 0
    BY <1>1, <1>7, <2>1 DEF Solvent, BalanceTables
  <2>. QED
    BY <1>1, <1>8, <2>1, <2>2 DEF AdjustedBy
<1>10. \A t \in Assets : Held(done.b, t) = Held(u, t)
  BY <1>7 DEF HandedFrom, KeepsHeld
<1>11. /\ Held(u, Token) = Held(b, Token) + s.on_sale /\ \A t \in Assets : t # Token => Held(u, t) = Held(b, t)
       /\ e.b \in BalanceTables /\ Held(e.b, DEIP) = Held(done.b, DEIP) + s.total
       /\ \A t \in Assets : t # DEIP => Held(e.b, t) = Held(done.b, t)
  BY <1>2, <1>8 DEF AdjustedBy
<1>12. /\ Held(e.b, Token) = Held(b, Token) + s.on_sale
       /\ Held(e.b, DEIP) = Held(b, DEIP) + s.total
       /\ \A t \in Assets \ {Token, DEIP} : Held(e.b, t) = Held(b, t)
  BY <1>1, <1>10, <1>11
<1>. QED
  BY <1>4, <1>7, <1>9, <1>11, <1>12 DEF Settled, e

\* What the contributions at some places add up to.
AmountsAt(cs, t) == SumFunction([i \in t |-> cs[i].amount])

\* The contributions at some places were paid back.
RefundedAt(cs, t, b, r) ==
    /\ Solvent(r)
    /\ Held(r, DEIP) = Held(b, DEIP) + AmountsAt(cs, t)
    /\ \A s \in Assets \ {DEIP} : Held(r, s) = Held(b, s)

Refund(r, c) == adjust_account_balance(r, c.owner, DEIP, c.amount)

\* One contribution more.
LEMMA RefundFacts ==
    ASSUME NEW cs \in Seq(ContributionObject), NEW t \in SUBSET (1 .. Len(cs)), NEW i \in t,
           NEW b \in BalanceTables, NEW r \in BalanceTables, RefundedAt(cs, t \ {i}, b, r)
    PROVE  Refund(r, cs[i]) \in BalanceTables /\ RefundedAt(cs, t, b, Refund(r, cs[i]))
<1>. DEFINE n == cs[i].amount
            o == cs[i].owner
            d == Refund(r, cs[i])
            u == t \ {i}
            k == [j \in 1 .. Len(cs) |-> cs[j].amount]
<1>1. /\ Len(cs) \in Nat /\ i \in 1 .. Len(cs) /\ u \in SUBSET (1 .. Len(cs))
      /\ t = u \cup {i} /\ i \notin u /\ \A j \in 1 .. Len(cs) : cs[j] \in ContributionObject
  OBVIOUS
<1>2. o \in Accounts /\ n \in Nat /\ DEIP \in Assets /\ \A j \in 1 .. Len(cs) : k[j] \in Int
  BY <1>1, BalancesAssumption DEF ContributionObject
<1>3. AdjustedBy(r, d, o, DEIP, n)
  <2>. HIDE DEF n, o
  <2>. QED
    BY <1>2, AdjustFacts DEF Refund, n, o
<1>4. IsFiniteSet(u)
  <2>1. IsFiniteSet(1 .. Len(cs))
    BY <1>1, FS_Interval
  <2>. HIDE DEF u
  <2>. QED
    BY <1>1, <2>1, FS_Subset
<1>5. IntegersOn(k, u \cup {i})
  BY <1>1, <1>2 DEF IntegersOn
<1>6. AmountsAt(cs, t) = AmountsAt(cs, u) + n
  <2>1. [j \in u |-> k[j]] = [j \in u |-> cs[j].amount]
    BY <1>1
  <2>2. [j \in u \cup {i} |-> k[j]] = [j \in t |-> cs[j].amount]
    BY <1>1
  <2>3. k[i] = n
    BY <1>1
  <2>. HIDE DEF k, u, n
  <2>4. SumFunction([j \in u \cup {i} |-> k[j]]) = SumFunction([j \in u |-> k[j]]) + k[i]
    BY <1>1, <1>4, <1>5, SumExtend
  <2>. QED
    BY <2>1, <2>2, <2>3, <2>4 DEF AmountsAt
<1>7. AmountsAt(cs, u) \in Int /\ Held(b, DEIP) \in Int
  <2>. DEFINE f == [j \in u |-> cs[j].amount]
  <2>1. f \in [u -> Int]
    BY <1>1, <1>2 DEF ContributionObject
  <2>. HIDE DEF f
  <2>. QED
    BY <1>2, <1>4, <2>1, SumIsNumber, HeldIsNumber DEF AmountsAt, f
<1>. HIDE DEF d, n, o, u, k
<1>8. Solvent(r) /\ Held(r, DEIP) = Held(b, DEIP) + AmountsAt(cs, u)
  BY DEF RefundedAt, u
<1>9. r[o][DEIP] \in Int /\ r[o][DEIP] >= 0
  BY <1>2, <1>8 DEF Solvent, BalanceTables
<1>10. Solvent(d) /\ d \in BalanceTables
  BY <1>2, <1>3, <1>8, <1>9 DEF AdjustedBy
<1>11. Held(d, DEIP) = Held(b, DEIP) + AmountsAt(cs, t)
  <2>1. Held(d, DEIP) = Held(r, DEIP) + n
    BY <1>3 DEF AdjustedBy
  <2>. QED
    BY <1>2, <1>6, <1>7, <1>8, <2>1
<1>12. \A s \in Assets \ {DEIP} : Held(d, s) = Held(b, s)
  BY <1>3 DEF AdjustedBy, RefundedAt
<1>. QED
  BY <1>10, <1>11, <1>12 DEF RefundedAt, d

\* The fold over the contributors, from the last one back.
Refunds(g, start, cs) ==
    g = [t \in SUBSET DOMAIN cs |->
           IF t = {} THEN start ELSE Refund(g[t \ {Max(t)}], cs[Max(t)])]

\* Every contributor is paid back.
LEMMA RefundAll ==
    ASSUME NEW cs \in Seq(ContributionObject), NEW start \in BalanceTables, Solvent(start)
    PROVE  LET all == FoldLeft(LAMBDA r, c : adjust_account_balance(r, c.owner, DEIP, c.amount), start, cs) IN
           all \in BalanceTables /\ RefundedAt(cs, 1 .. Len(cs), start, all)
<1>. DEFINE D == 1 .. Len(cs)
            c == [t \in SUBSET D |-> Max(t)]
            H == [q \in (SUBSET D) \X BalanceTables |-> Refund(q[2], cs[Max(q[1])])]
            P == {q \in (SUBSET D) \X BalanceTables : RefundedAt(cs, q[1], start, q[2])}
            fold == CHOOSE g : Refunds(g, start, cs)
<1>1. IsFiniteSet(D) /\ D = DOMAIN cs /\ Len(cs) \in Nat
  BY FS_Interval
<1>2. \A t \in SUBSET D : t # {} => Max(t) \in t
  BY <1>1, PlacesHaveLast
<1>3. Chooses(c, D) /\ \A t \in SUBSET D : c[t] = Max(t)
  BY <1>2 DEF Chooses
<1>4. RefundedAt(cs, {}, start, start)
  <2>1. AmountsAt(cs, {}) = 0
    <3>. DEFINE f == [i \in {} |-> cs[i].amount]
    <3>1. f \in [{} -> Int] /\ IsFiniteSet({})
      BY FS_EmptySet
    <3>. HIDE DEF f
    <3>2. SumFunction(f) = 0
      BY <3>1, SumIsNumber
    <3>. QED
      BY <3>2 DEF AmountsAt, f
  <2>2. Held(start, DEIP) \in Int
    BY HeldIsNumber, BalancesAssumption
  <2>. QED
    BY <2>1, <2>2 DEF RefundedAt
<1>5. ASSUME NEW t \in SUBSET D, NEW v \in BalanceTables, t # {}, RefundedAt(cs, t \ {Max(t)}, start, v)
      PROVE  Refund(v, cs[Max(t)]) \in BalanceTables /\ RefundedAt(cs, t, start, Refund(v, cs[Max(t)]))
  <2>1. Max(t) \in t
    BY <1>2, <1>5
  <2>. QED
    BY <1>5, <2>1, RefundFacts
<1>. HIDE DEF D
<1>6. \A t \in SUBSET D, v \in BalanceTables : H[<<t, v>>] = Refund(v, cs[Max(t)])
  OBVIOUS
<1>. HIDE DEF H
<1>7. \A t \in SUBSET D, v \in BalanceTables :
          t # {} /\ <<t \ {c[t]}, v>> \in P => <<t, H[<<t, v>>]>> \in P
  BY <1>3, <1>5, <1>6
<1>. HIDE DEF c
<1>8. \E g : Refunds(g, start, cs)
  <2>1. PICK g \in [SUBSET D -> BalanceTables] : Recursive(g, D, start, c, H)
    <3>1. FoldKeeps(P, D, BalanceTables, start, c, H)
      BY <1>4, <1>7 DEF FoldKeeps
    <3>. HIDE DEF P
    <3>. QED
      BY <1>1, <1>3, <3>1, FoldExists
  <2>2. \A t \in SUBSET D : g[t] = IF t = {} THEN start ELSE Refund(g[t \ {Max(t)}], cs[Max(t)])
    <3>. SUFFICES ASSUME NEW t \in SUBSET D, t # {}
                  PROVE  g[t] = Refund(g[t \ {Max(t)}], cs[Max(t)])
      BY <2>1 DEF Recursive
    <3>1. g[t \ {Max(t)}] \in BalanceTables
      OBVIOUS
    <3>. QED
      BY <1>3, <1>6, <2>1, <3>1 DEF Recursive
  <2>3. g = [t \in SUBSET D |-> g[t]]
    OBVIOUS
  <2>. QED
    BY <1>1, <2>2, <2>3, Zenon DEF Refunds
<1>9. Refunds(fold, start, cs)
  BY <1>8
<1>. HIDE DEF fold
<1>10. \A t \in SUBSET D :
           fold[t] = IF t = {} THEN start ELSE Refund(fold[t \ {Max(t)}], cs[Max(t)])
  BY <1>1, <1>9 DEF Refunds
<1>11. \A t \in SUBSET D : <<t, fold[t]>> \in P
  <2>1. <<{}, fold[{}]>> \in P
    BY <1>4, <1>10
  <2>2. ASSUME NEW t \in SUBSET D, t # {}, <<t \ {c[t]}, fold[t \ {c[t]}]>> \in P
        PROVE  <<t, fold[t]>> \in P
    <3>1. fold[t \ {Max(t)}] \in BalanceTables /\ RefundedAt(cs, t \ {Max(t)}, start, fold[t \ {Max(t)}])
      BY <1>3, <2>2
    <3>2. fold[t] = Refund(fold[t \ {Max(t)}], cs[Max(t)])
      BY <1>10, <2>2
    <3>. QED
      BY <1>5, <2>2, <3>1, <3>2
  <2>. HIDE DEF P
  <2>. QED
    BY <1>1, <1>3, <2>1, <2>2, FoldHolds
<1>12. fold[D] \in BalanceTables /\ RefundedAt(cs, D, start, fold[D])
  BY <1>11
<1>13. FoldLeft(LAMBDA r, x : adjust_account_balance(r, x.owner, DEIP, x.amount), start, cs) = fold[DOMAIN cs]
  BY DEF FoldLeft, MapThenFoldSet, Refunds, Refund, fold
<1>. QED
  BY <1>1, <1>12, <1>13 DEF D

\* refund_research_token_sale gives everything back.
LEMMA RefundSettles ==
    ASSUME NEW s \in SaleObject, NEW cs \in Seq(ContributionObject),
           NEW b \in BalanceTables, Solvent(b), NEW f
    PROVE  Settled(s, b, f, AmountsAt(cs, 1 .. Len(cs)), refund_research_token_sale(s, cs, b, f))
<1>. DEFINE u   == UnfreezeBalance(b, Group, s.on_sale)
            all == FoldLeft(LAMBDA r, c : adjust_account_balance(r, c.owner, DEIP, c.amount), u, cs)
            e   == refund_research_token_sale(s, cs, b, f)
            n   == AmountsAt(cs, 1 .. Len(cs))
<1>1. /\ s.on_sale \in Nat
      /\ Group \in Accounts /\ Token \in Assets /\ DEIP \in Assets /\ DEIP # Token
      /\ b[Group][Token] \in Int /\ b[Group][Token] >= 0
  BY BalancesAssumption, TokenSaleAssumption DEF SaleObject, BalanceTables, Solvent
<1>2. AdjustedBy(b, u, Group, Token, s.on_sale)
  BY <1>1, AdjustFacts DEF UnfreezeBalance
<1>3. u \in BalanceTables /\ Solvent(u)
  BY <1>1, <1>2 DEF AdjustedBy
<1>4. e.b = all /\ e.f = UnfreezeFrozen(f, Group, s.on_sale) /\ e.ok \in BOOLEAN
  BY DEF refund_research_token_sale
<1>. HIDE DEF u
<1>5. all \in BalanceTables /\ RefundedAt(cs, 1 .. Len(cs), u, all)
  BY <1>3, RefundAll
<1>. HIDE DEF all, e
<1>6. /\ Held(u, Token) = Held(b, Token) + s.on_sale
      /\ \A t \in Assets : t # Token => Held(u, t) = Held(b, t)
  BY <1>2 DEF AdjustedBy
<1>7. /\ e.b \in BalanceTables /\ Solvent(e.b) /\ Held(e.b, DEIP) = Held(u, DEIP) + n
      /\ \A t \in Assets \ {DEIP} : Held(e.b, t) = Held(u, t)
  BY <1>4, <1>5 DEF RefundedAt
<1>. HIDE DEF n
<1>8. /\ Held(e.b, Token) = Held(b, Token) + s.on_sale
      /\ Held(e.b, DEIP) = Held(b, DEIP) + n
      /\ \A t \in Assets \ {Token, DEIP} : Held(e.b, t) = Held(b, t)
  BY <1>1, <1>6, <1>7
<1>. QED
  BY <1>4, <1>7, <1>8 DEF Settled, e, n

\* One row per contributor.
OneRowEach(cs) == \A i, j \in 1 .. Len(cs) : cs[i].owner = cs[j].owner => i = j

\* What all contributions add up to.
AllAmounts(cs) == AmountsAt(cs, 1 .. Len(cs))

\* It is a number, and nothing without contributions.
LEMMA AllAmountsIsNumber ==
    ASSUME NEW cs \in Seq(ContributionObject)
    PROVE  AllAmounts(cs) \in Int /\ (cs = <<>> => AllAmounts(cs) = 0)
<1>. DEFINE D == 1 .. Len(cs)
            f == [i \in D |-> cs[i].amount]
<1>1. IsFiniteSet(D) /\ (cs = <<>> => D = {})
  BY FS_Interval
<1>2. \A i \in D : cs[i] \in ContributionObject
  OBVIOUS
<1>3. f \in [D -> Int]
  BY <1>2 DEF ContributionObject
<1>. HIDE DEF f, D
<1>4. SumFunction(f) \in Int /\ (D = {} => SumFunction(f) = 0)
  BY <1>1, <1>3, SumIsNumber
<1>. QED
  BY <1>1, <1>4 DEF AllAmounts, AmountsAt, f, D

\* contribute() adds the amount to the contributor's row, or a row for him.
LEMMA ContributeFacts ==
    ASSUME NEW cs \in Seq(ContributionObject), OneRowEach(cs), NEW o \in Accounts, NEW n \in Nat
    PROVE  LET ds == contribute(cs, o, n) IN
           /\ ds \in Seq(ContributionObject) /\ OneRowEach(ds) /\ ds # <<>>
           /\ AllAmounts(ds) = AllAmounts(cs) + n
<1>. DEFINE ds   == contribute(cs, o, n)
            D    == 1 .. Len(cs)
            mine == {i \in D : cs[i].owner = o}
            f    == [i \in D |-> cs[i].amount]
<1>0. Len(cs) \in Nat /\ IsFiniteSet(D) /\ DOMAIN cs = D
  BY FS_Interval
<1>1. /\ Len(cs) \in Nat /\ DOMAIN cs = D
      /\ \A i \in D : cs[i] \in ContributionObject /\ cs[i].amount \in Nat /\ cs[i].owner \in Accounts
  <2>1. \A i \in D : cs[i] \in ContributionObject
    OBVIOUS
  <2>. QED
    BY <1>0, <2>1 DEF ContributionObject
<1>2. f \in [D -> Int]
  BY <1>1
<1>3. CASE mine = {}
  <2>. DEFINE c == [owner |-> o, amount |-> n]
              E == 1 .. Len(cs) + 1
              h == [i \in E |-> ds[i].amount]
              x == Len(cs) + 1
  <2>1. c \in ContributionObject /\ c.owner = o /\ c.amount = n
    BY DEF ContributionObject
  <2>2. ds = Append(cs, c)
    BY <1>1, <1>3 DEF contribute
  <2>. HIDE DEF c, ds
  <2>3. /\ ds \in Seq(ContributionObject) /\ Len(ds) = x /\ ds[x] = c
        /\ \A i \in D : ds[i] = cs[i]
    BY <2>1, <2>2
  <2>4. E = D \cup {x} /\ x \notin D
    BY <1>1
  <2>5. OneRowEach(ds)
    <3>. SUFFICES ASSUME NEW i \in 1 .. Len(ds), NEW j \in 1 .. Len(ds), ds[i].owner = ds[j].owner
                  PROVE  i = j
      BY DEF OneRowEach
    <3>1. (i \in D \/ i = x) /\ (j \in D \/ j = x)
      BY <2>3, <2>4
    <3>2. \A k \in D : cs[k].owner # o
      BY <1>3
    <3>. HIDE DEF D, x
    <3>. QED
      BY <2>1, <2>3, <3>1, <3>2 DEF OneRowEach, D
  <2>6. h \in [D \cup {x} -> Int] /\ h[x] = n /\ \A i \in D : h[i] = f[i]
    <3>1. \A i \in E : ds[i].amount \in Int
      BY <1>1, <2>1, <2>3, <2>4
    <3>. QED
      BY <2>1, <2>3, <2>4, <3>1
  <2>. HIDE DEF h, f, D, E, x
  <2>7. SumFunction(h) = SumFunction(f) + n
    <3>1. IntegersOn(h, D \cup {x})
      BY <2>6 DEF IntegersOn
    <3>2. [i \in D |-> h[i]] = f /\ [i \in D \cup {x} |-> h[i]] = h
      BY <1>2, <2>6
    <3>3. SumFunction([i \in D \cup {x} |-> h[i]]) = SumFunction([i \in D |-> h[i]]) + h[x]
      BY <1>0, <2>4, <3>1, SumExtend
    <3>. QED
      BY <2>6, <3>2, <3>3
  <2>8. AllAmounts(ds) = SumFunction(h) /\ AllAmounts(cs) = SumFunction(f)
    BY <2>3 DEF AllAmounts, AmountsAt, h, f, E, D, x
  <2>9. ds # <<>>
    BY <1>1, <2>3 DEF x
  <2>. QED
    BY <2>3, <2>5, <2>7, <2>8, <2>9 DEF ds
<1>4. CASE mine # {}
  <2>1. PICK k \in D : cs[k].owner = o
    BY <1>4
  <2>2. mine = {k}
    BY SMTT(30), <1>1, <2>1 DEF OneRowEach
  <2>. DEFINE c == [cs[k] EXCEPT !.amount = @ + n]
              h == [i \in D |-> ds[i].amount]
  <2>3. ds = [i \in D |-> IF i \in mine THEN [cs[i] EXCEPT !.amount = @ + n] ELSE cs[i]]
    BY <1>1, <1>4 DEF contribute
  <2>4. ds = [i \in D |-> IF i = k THEN c ELSE cs[i]]
    BY <2>2, <2>3
  <2>5. c \in ContributionObject /\ c.owner = o /\ c.amount = cs[k].amount + n
    <3>1. cs[k] \in ContributionObject
      BY <1>1
    <3>. QED
      BY <2>1, <3>1 DEF ContributionObject
  <2>. HIDE DEF c, ds
  <2>6. /\ ds \in Seq(ContributionObject) /\ Len(ds) = Len(cs)
        /\ ds[k] = c /\ \A i \in D : i # k => ds[i] = cs[i]
    <3>1. ds \in [1 .. Len(cs) -> ContributionObject]
      BY <1>1, <2>4, <2>5
    <3>2. ds \in Seq(ContributionObject)
      BY <1>1, <3>1
    <3>3. Len(ds) = Len(cs)
      BY <1>1, <3>1, <3>2
    <3>. QED
      BY <2>4, <3>2, <3>3
  <2>7. OneRowEach(ds)
    <3>1. \A i \in D : ds[i].owner = cs[i].owner
      BY <2>1, <2>5, <2>6
    <3>. QED
      BY <2>6, <3>1 DEF OneRowEach
  <2>8. h \in [D -> Int] /\ h[k] = f[k] + n /\ f[k] \in Int /\ \A i \in D : i # k => h[i] = f[i]
    BY <1>1, <2>5, <2>6
  <2>. HIDE DEF h, f
  <2>9. SumFunction(h) = SumFunction(f) + h[k] - f[k] /\ SumFunction(f) \in Int
    <3>. HIDE DEF D
    <3>. QED
      BY <1>0, <1>2, <2>8, SumChange, SumIsNumber
  <2>10. SumFunction(h) = SumFunction(f) + n
    BY <2>8, <2>9
  <2>11. AllAmounts(ds) = SumFunction(h) /\ AllAmounts(cs) = SumFunction(f)
    BY <2>6 DEF AllAmounts, AmountsAt, h, f
  <2>12. ds # <<>>
    BY <2>1, <2>6
  <2>. QED
    BY <2>6, <2>7, <2>10, <2>11, <2>12 DEF ds
<1>. QED
  BY <1>3, <1>4

Open(s) == s.status \in {"inactive", "active"}

\* The tokens a sale holds.
OnSale(s) == IF Open(s) THEN s.on_sale ELSE 0

\* The invariant of a sale, its contributions and the frozen amounts: besides
\* what SaleHoldsItsStakes says of them, that nobody has two rows and that a
\* contribution is never of nothing.
SaleHolds(s, cs, f) ==
    /\ s \in SaleObject /\ cs \in Seq(ContributionObject) /\ OneRowEach(cs)
    /\ f \in [Accounts -> Int]
    /\ \A a \in Accounts : f[a] = IF a = Group THEN OnSale(s) ELSE 0
    /\ AllAmounts(cs) = IF Open(s) THEN s.total ELSE 0
    /\ Open(s) => s.total < s.hard_cap
    /\ ~Open(s) => cs = <<>>
    /\ cs # <<>> => s.total > 0

\* Money moves between the accounts and the sale, and nowhere else.
SaleMoves(b, s, cs, c, t, ds) ==
    /\ c \in BalanceTables
    /\ Held(c, Token) + OnSale(t) = Held(b, Token) + OnSale(s)
    /\ Held(c, DEIP) + AllAmounts(ds) = Held(b, DEIP) + AllAmounts(cs)
    /\ \A x \in Assets \ {Token, DEIP} : Held(c, x) = Held(b, x)

\* A sale that is settled is over and holds nothing.
LEMMA SettledIsOver ==
    ASSUME NEW s \in SaleObject, Open(s), NEW cs \in Seq(ContributionObject), AllAmounts(cs) = s.total,
           NEW f \in [Accounts -> Int], \A a \in Accounts : f[a] = IF a = Group THEN OnSale(s) ELSE 0,
           NEW b \in BalanceTables, NEW e, Settled(s, b, f, s.total, e),
           NEW st \in {"expired", "finished"}
    PROVE  /\ SaleHolds([s EXCEPT !.status = st], <<>>, e.f)
           /\ SaleMoves(b, s, cs, e.b, [s EXCEPT !.status = st], <<>>)
<1>. DEFINE t == [s EXCEPT !.status = st]
            n == s.on_sale
<1>1. /\ n \in Nat /\ Group \in Accounts /\ Token \in Assets /\ DEIP \in Assets /\ DEIP # Token
      /\ OnSale(s) = n /\ s.total \in Nat
  BY BalancesAssumption, TokenSaleAssumption DEF SaleObject, OnSale
<1>2. t \in SaleObject /\ ~Open(t) /\ OnSale(t) = 0
  BY DEF SaleObject, Open, OnSale
<1>3. e.f = [f EXCEPT ![Group] = @ - n]
  BY DEF Settled, UnfreezeFrozen
<1>4. e.f \in [Accounts -> Int] /\ \A a \in Accounts : e.f[a] = 0
  <2>1. f[Group] = n
    BY <1>1
  <2>2. \A a \in Accounts : a # Group => f[a] = 0
    OBVIOUS
  <2>. HIDE DEF n
  <2>. QED
    BY <1>1, <1>3, <2>1, <2>2
<1>5. <<>> \in Seq(ContributionObject) /\ OneRowEach(<<>>)
  BY DEF OneRowEach
<1>6. AllAmounts(<<>>) = 0
  BY <1>5, AllAmountsIsNumber
<1>. HIDE DEF t
<1>7. SaleHolds(t, <<>>, e.f)
  BY <1>2, <1>4, <1>5, <1>6 DEF SaleHolds
<1>8. /\ e.b \in BalanceTables /\ Held(e.b, Token) = Held(b, Token) + n
      /\ Held(e.b, DEIP) = Held(b, DEIP) + s.total
      /\ \A x \in Assets \ {Token, DEIP} : Held(e.b, x) = Held(b, x)
  BY DEF Settled
<1>9. Held(b, Token) \in Int /\ Held(b, DEIP) \in Int
  BY <1>1, HeldIsNumber
<1>. HIDE DEF n
<1>10. SaleMoves(b, s, cs, e.b, t, <<>>)
  BY <1>1, <1>2, <1>6, <1>8, <1>9 DEF SaleMoves
<1>. QED
  BY <1>7, <1>10 DEF t

\* The end of a block settles a sale that has ended, or starts one.
LEMMA ProcessSales ==
    ASSUME SaleHolds(sale, contributions, frozen), balance \in BalanceTables, Solvent(balance), NEW time
    PROVE  LET r == process_research_token_sales(time) IN
           /\ SaleHolds(r.sale, r.cs, r.f)
           /\ SaleMoves(balance, sale, contributions, r.b, r.sale, r.cs)
           /\ r.ok \in BOOLEAN /\ (r.ok => Solvent(r.b))
<1>. DEFINE r    == process_research_token_sales(time)
            same == [sale |-> sale, cs |-> contributions, b |-> balance, f |-> frozen, ok |-> TRUE]
            ended == sale.status = "active" /\ sale.end <= time
            short == sale.total < sale.soft_cap
            end  == IF sale.total < sale.soft_cap
                    THEN refund_research_token_sale(sale, contributions, balance, frozen)
                    ELSE finish_research_token_sale(sale, contributions, balance, frozen)
            st   == IF sale.total < sale.soft_cap THEN "expired" ELSE "finished"
            started == sale.status = "inactive" /\ sale.start <= time /\ time < sale.end
<1>1. /\ sale \in SaleObject /\ contributions \in Seq(ContributionObject)
      /\ frozen \in [Accounts -> Int]
      /\ contributions = <<>> \/ sale.total > 0
  BY DEF SaleHolds
<1>2. CASE ended
  <2>1. Open(sale) /\ AllAmounts(contributions) = sale.total
    BY <1>2 DEF SaleHolds, Open
  <2>2. Settled(sale, balance, frozen, sale.total, end)
    <3>1. CASE short
      <4>1. Settled(sale, balance, frozen, AmountsAt(contributions, 1 .. Len(contributions)),
                    refund_research_token_sale(sale, contributions, balance, frozen))
        BY <1>1, RefundSettles
      <4>. QED
        BY <2>1, <3>1, <4>1 DEF AllAmounts
    <3>2. CASE ~short
      BY <1>1, <3>2, FinishFacts
    <3>. QED
      BY <3>1, <3>2
  <2>3. r = [sale |-> [sale EXCEPT !.status = st], cs |-> <<>>, b |-> end.b, f |-> end.f, ok |-> end.ok]
    BY <1>2 DEF process_research_token_sales
  <2>4. end.ok \in BOOLEAN
    BY <2>2 DEF Settled
  <2>5. st \in {"expired", "finished"}
    OBVIOUS
  <2>6. \A a \in Accounts : frozen[a] = IF a = Group THEN OnSale(sale) ELSE 0
    BY DEF SaleHolds
  <2>. HIDE DEF end, st, r
  <2>7. /\ SaleHolds([sale EXCEPT !.status = st], <<>>, end.f)
        /\ SaleMoves(balance, sale, contributions, end.b, [sale EXCEPT !.status = st], <<>>)
    BY <1>1, <2>1, <2>2, <2>5, <2>6, SettledIsOver
  <2>8. end.ok => Solvent(end.b)
    BY <2>2 DEF Settled
  <2>. QED
    BY <2>3, <2>4, <2>7, <2>8 DEF r
<1>3. CASE ~ended /\ started
  <2>. DEFINE t == [sale EXCEPT !.status = "active"]
  <2>1. r = [same EXCEPT !.sale.status = "active"]
    BY <1>3 DEF process_research_token_sales
  <2>2. r.sale = t /\ r.cs = contributions /\ r.b = balance /\ r.f = frozen /\ r.ok = TRUE
    BY <2>1
  <2>3. /\ t \in SaleObject /\ Open(t) /\ Open(sale) /\ t.on_sale = sale.on_sale
        /\ t.total = sale.total /\ t.hard_cap = sale.hard_cap
    BY <1>1, <1>3 DEF SaleObject, Open
  <2>. HIDE DEF t, r
  <2>4. SaleHolds(t, contributions, frozen)
    BY <2>3 DEF SaleHolds, OnSale
  <2>5. SaleMoves(balance, sale, contributions, balance, t, contributions)
    BY <2>3 DEF SaleMoves, OnSale
  <2>. QED
    BY <2>2, <2>4, <2>5 DEF r
<1>4. CASE ~ended /\ ~started
  <2>1. r = same
    BY <1>4 DEF process_research_token_sales
  <2>2. SaleMoves(balance, sale, contributions, balance, sale, contributions)
    BY DEF SaleMoves
  <2>. QED
    BY <2>1, <2>2
<1>. QED
  BY <1>2, <1>3, <1>4

-----------------------------------------------------------------------------
(* Common tokens *)

WithdrawalObject ==
    {w \in [rate : Nat, next : Int, to_withdraw : Nat, withdrawn : Nat] : w.next # Never => w.rate > 0}
GpoObject == [supply : Nat, fund : Int, total : Int]
RouteTables == [Accounts -> [Accounts -> [percent : Nat, auto : BOOLEAN]]]

\* The invariant of the common tokens: besides what CommonTokensBacked says,
\* that a withdrawal under way has a rate.
CommonHolds(c, w, g) ==
    /\ c \in [Accounts -> Nat] /\ w \in [Accounts -> WithdrawalObject] /\ g \in GpoObject
    /\ g.fund = SumFunction(c) /\ g.total = g.fund

\* The state the withdrawals of a block work on.
Payments == [b : BalanceTables, common : [Accounts -> Nat],
             withdrawal : [Accounts -> WithdrawalObject], gpo : GpoObject, ok : BOOLEAN]

\* From r to p core assets left the fund and reached accounts.
PaidFrom(r, p) ==
    /\ CommonHolds(p.common, p.withdrawal, p.gpo)
    /\ p.gpo.supply = r.gpo.supply
    /\ Held(p.b, DEIP) + p.gpo.fund = Held(r.b, DEIP) + r.gpo.fund
    /\ \A s \in Assets \ {DEIP} : Held(p.b, s) = Held(r.b, s)
    /\ p.ok => Solvent(p.b)

\* Shares for some accounts and a rest for one, in the core asset.
SharesGiven(d, b, R, sh, x, n) ==
    d = [a \in Accounts |-> [b[a] EXCEPT ![DEIP] =
            @ + (IF a \in R THEN sh[a] ELSE 0) + (IF a = x THEN n ELSE 0)]]

\* What the balances become.
LEMMA SharesPaid ==
    ASSUME NEW b \in BalanceTables, NEW R \in SUBSET Accounts, NEW sh \in [Accounts -> Nat],
           NEW x \in Accounts, NEW n \in Int, NEW d, SharesGiven(d, b, R, sh, x, n)
    PROVE  /\ d \in BalanceTables
           /\ Held(d, DEIP) = Held(b, DEIP) + SumFunction([a \in R |-> sh[a]]) + n
           /\ \A s \in Assets \ {DEIP} : Held(d, s) = Held(b, s)
           /\ Solvent(b) /\ n >= 0 => Solvent(d)
<1>. DEFINE f == [a \in Accounts |-> b[a][DEIP]]
            h == [a \in Accounts |-> d[a][DEIP]]
<1>0. d = [a \in Accounts |-> [b[a] EXCEPT ![DEIP] =
              @ + (IF a \in R THEN sh[a] ELSE 0) + (IF a = x THEN n ELSE 0)]]
  BY DEF SharesGiven
<1>1. DEIP \in Assets /\ IsFiniteSet(Accounts)
  BY BalancesAssumption
<1>2. /\ \A a \in Accounts : \A s \in Assets : b[a][s] \in Int
      /\ \A a \in Accounts : d[a][DEIP] = b[a][DEIP] + (IF a \in R THEN sh[a] ELSE 0) + (IF a = x THEN n ELSE 0)
      /\ \A a \in Accounts : \A s \in Assets \ {DEIP} : d[a][s] = b[a][s]
  BY <1>0, <1>1 DEF BalanceTables
<1>3. \A a \in Accounts : d[a][DEIP] \in Int
  BY <1>1, <1>2
<1>4. d \in BalanceTables
  <2>1. \A a \in Accounts : d[a] \in [Assets -> Int]
    <3>1. TAKE a \in Accounts
    <3>2. d[a] = [b[a] EXCEPT ![DEIP] = b[a][DEIP] + (IF a \in R THEN sh[a] ELSE 0) + (IF a = x THEN n ELSE 0)]
      BY <1>0
    <3>3. b[a][DEIP] + (IF a \in R THEN sh[a] ELSE 0) + (IF a = x THEN n ELSE 0) \in Int
      BY <1>1, <1>2
    <3>4. b[a] \in [Assets -> Int]
      BY DEF BalanceTables
    <3>. QED
      BY <3>2, <3>3, <3>4
  <2>2. d = [a \in Accounts |-> d[a]]
    BY <1>0
  <2>. QED
    BY <2>1, <2>2 DEF BalanceTables
<1>5. /\ f \in [Accounts -> Int] /\ h \in [Accounts -> Int] /\ sh \in [Accounts -> Int]
      /\ Shared(h, f, Accounts, R, sh, x, n)
  BY <1>1, <1>2, <1>3 DEF Shared
<1>. HIDE DEF f, h
<1>6. SumFunction(h) = SumFunction(f) + SumFunction([a \in R |-> sh[a]]) + n
  BY <1>1, <1>5, SumOfShares
<1>7. Held(d, DEIP) = Held(b, DEIP) + SumFunction([a \in R |-> sh[a]]) + n
  BY <1>6 DEF Held, f, h
<1>8. \A s \in Assets \ {DEIP} : Held(d, s) = Held(b, s)
  <2>1. TAKE s \in Assets \ {DEIP}
  <2>2. [a \in Accounts |-> d[a][s]] = [a \in Accounts |-> b[a][s]]
    BY <1>2
  <2>. QED
    BY <2>2 DEF Held
<1>9. Solvent(b) /\ n >= 0 => Solvent(d)
  BY <1>1, <1>2 DEF Solvent
<1>. QED
  BY <1>4, <1>7, <1>8, <1>9

\* The instalment of a withdrawal, before it is shared.
Instalment(c, w) ==
    Min({c, IF w.to_withdraw - w.withdrawn < w.rate THEN w.to_withdraw % w.rate ELSE w.rate})

\* It is covered by the stake.
LEMMA InstalmentFacts ==
    ASSUME NEW c \in Nat, NEW w \in WithdrawalObject, w.rate > 0
    PROVE  Instalment(c, w) \in Nat /\ Instalment(c, w) <= c
<1>. DEFINE x == IF w.to_withdraw - w.withdrawn < w.rate THEN w.to_withdraw % w.rate ELSE w.rate
<1>1. w.rate \in Nat /\ w.to_withdraw \in Int /\ w.withdrawn \in Nat
  BY DEF WithdrawalObject
<1>2. w.to_withdraw % w.rate \in 0 .. w.rate - 1
  BY <1>1, Division
<1>3. x \in Nat
  BY <1>1, <1>2
<1>. HIDE DEF x
<1>4. Min({c, x}) = IF c <= x THEN c ELSE x
  BY <1>3, MinOfTwo
<1>. QED
  BY <1>3, <1>4 DEF Instalment, x

\* A truncated share of a natural number is one.
LEMMA ShareIsNat ==
    ASSUME NEW n \in Nat, NEW k \in Nat, NEW m \in Nat, m # 0 PROVE (n * k) \div m \in Nat
<1>. DEFINE p == n * k
<1>1. p \in Nat
  OBVIOUS
<1>. HIDE DEF p
<1>2. p \div m \in Nat
  BY <1>1
<1>. QED
  BY <1>2 DEF p

\* One due account: what leaves the fund is paid to accounts, no stake is
\* overdrawn, and the other withdrawals stay.
LEMMA WithdrawFacts ==
    ASSUME NEW r \in Payments, CommonHolds(r.common, r.withdrawal, r.gpo), r.ok => Solvent(r.b),
           NEW from \in Accounts, r.withdrawal[from].rate > 0, routes \in RouteTables
    PROVE  LET p == WithdrawOne(r, from) IN
           /\ p \in Payments /\ PaidFrom(r, p)
           /\ \A a \in Accounts \ {from} : p.withdrawal[a] = r.withdrawal[a]
<1>. DEFINE w      == r.withdrawal[from]
            amount == Instalment(r.common[from], w)
            sh     == [a \in Accounts |-> (amount * routes[from][a].percent) \div HundredPercent]
            autos  == {to \in RoutesOf(routes, from) : routes[from][to].auto}
            others == RoutesOf(routes, from) \ autos
            deip   == SumFunction([a \in others |-> sh[a]])
            kept   == SumFunction([a \in autos |-> sh[a]])
            rest   == amount - deip - kept
            left   == r.common[from] + (IF from \in autos THEN sh[from] ELSE 0) - amount
            done   == w.withdrawn + amount
            over   == done >= w.to_withdraw \/ left = 0
            b      == [a \in Accounts |-> [r.b[a] EXCEPT ![DEIP] =
                            @ + (IF a \in others THEN sh[a] ELSE 0) + (IF a = from THEN rest ELSE 0)]]
            c      == [a \in Accounts |-> r.common[a]
                            + (IF a \in autos THEN sh[a] ELSE 0) - (IF a = from THEN amount ELSE 0)]
            v      == [w EXCEPT !.withdrawn = done, !.rate = IF over THEN 0 ELSE @,
                                !.next = IF over THEN Never ELSE @ + WithdrawInterval]
            u      == [r.withdrawal EXCEPT ![from] = v]
            g      == [r.gpo EXCEPT !.fund = @ - deip - rest, !.total = @ - deip - rest]
            okay   == r.ok /\ rest >= 0
            p      == WithdrawOne(r, from)
<1>1. /\ r.b \in BalanceTables /\ r.common \in [Accounts -> Nat] /\ r.gpo \in GpoObject
      /\ r.withdrawal \in [Accounts -> WithdrawalObject] /\ r.ok \in BOOLEAN
      /\ r.gpo.fund = SumFunction(r.common) /\ r.gpo.total = r.gpo.fund
  BY DEF Payments, CommonHolds
<1>2. /\ others \in SUBSET Accounts /\ autos \in SUBSET Accounts
      /\ IsFiniteSet(Accounts) /\ IsFiniteSet(others) /\ IsFiniteSet(autos)
  <2>1. others \in SUBSET Accounts /\ autos \in SUBSET Accounts
    BY DEF RoutesOf
  <2>2. IsFiniteSet(Accounts)
    BY BalancesAssumption
  <2>. HIDE DEF others, autos
  <2>. QED
    BY <2>1, <2>2, FS_Subset
<1>3. w \in WithdrawalObject /\ r.common[from] \in Nat
  BY <1>1
<1>4. amount \in Nat /\ amount <= r.common[from]
  BY SMTT(30), <1>3, InstalmentFacts
<1>5. p = [b |-> b, common |-> c, withdrawal |-> u, gpo |-> g, ok |-> okay]
  <2>1. /\ \A a \in others : sh[a] = (amount * routes[from][a].percent) \div HundredPercent
        /\ \A a \in autos : sh[a] = (amount * routes[from][a].percent) \div HundredPercent
        /\ sh[from] = (amount * routes[from][from].percent) \div HundredPercent
        /\ \A a \in Accounts : sh[a] = (amount * routes[from][a].percent) \div HundredPercent
    BY <1>2
  <2>. QED
    BY ZenonT(40), <2>1 DEF WithdrawOne, Instalment
<1>. HIDE DEF amount
<1>6. sh \in [Accounts -> Nat]
  <2>1. ASSUME NEW a \in Accounts
        PROVE  (amount * routes[from][a].percent) \div HundredPercent \in Nat
    <3>1. routes[from][a].percent \in Nat /\ HundredPercent \in Nat /\ HundredPercent > 0
      BY BalancesAssumption DEF RouteTables
    <3>2. HundredPercent # 0 /\ amount \in Nat
      BY <1>4, <3>1
    <3>. QED
      BY <3>1, <3>2, ShareIsNat
  <2>. QED
    BY <2>1
<1>. HIDE DEF sh, autos, others
<1>7. deip \in Nat /\ kept \in Nat
  <2>. DEFINE x == [a \in others |-> sh[a]]
              y == [a \in autos |-> sh[a]]
  <2>1. x \in [others -> Nat] /\ y \in [autos -> Nat]
    BY <1>2, <1>6
  <2>. HIDE DEF x, y
  <2>2. SumFunction(x) \in Nat /\ SumFunction(y) \in Nat
    BY <1>2, <2>1, SumOfNats
  <2>. QED
    BY <2>2 DEF x, y
<1>8. /\ b \in BalanceTables /\ Held(b, DEIP) = Held(r.b, DEIP) + deip + rest
      /\ \A s \in Assets \ {DEIP} : Held(b, s) = Held(r.b, s)
      /\ Solvent(r.b) /\ rest >= 0 => Solvent(b)
  <2>1. rest \in Int
    BY <1>4, <1>7
  <2>. HIDE DEF rest, b
  <2>2. SharesGiven(b, r.b, others, sh, from, rest)
    BY DEF b, SharesGiven
  <2>3. r.b \in BalanceTables /\ others \in SUBSET Accounts
    BY <1>1, <1>2
  <2>4. /\ b \in BalanceTables
        /\ Held(b, DEIP) = Held(r.b, DEIP) + SumFunction([a \in others |-> sh[a]]) + rest
        /\ \A s \in Assets \ {DEIP} : Held(b, s) = Held(r.b, s)
        /\ Solvent(r.b) /\ rest >= 0 => Solvent(b)
    BY <1>6, <2>1, <2>2, <2>3, SharesPaid, Zenon
  <2>. QED
    BY <2>4
<1>9. c \in [Accounts -> Nat] /\ SumFunction(c) = SumFunction(r.common) + kept - amount
  <2>. DEFINE m == -amount
  <2>1. \A a \in Accounts : r.common[a] \in Nat /\ sh[a] \in Nat
    BY <1>1, <1>6
  <2>2. \A a \in Accounts : c[a] = r.common[a] + (IF a \in autos THEN sh[a] ELSE 0) + (IF a = from THEN m ELSE 0)
    BY <1>4, <2>1
  <2>3. \A a \in Accounts : c[a] \in Nat
    BY <1>4, <2>1, <2>2
  <2>4. c \in [Accounts -> Nat] /\ c \in [Accounts -> Int] /\ sh \in [Accounts -> Int]
        /\ r.common \in [Accounts -> Int] /\ m \in Int
    BY <1>1, <1>4, <1>6, <2>3
  <2>5. Shared(c, r.common, Accounts, autos, sh, from, m)
    BY <2>2 DEF Shared
  <2>. HIDE DEF c, m
  <2>6. SumFunction(c) = SumFunction(r.common) + kept + m
    BY <1>2, <2>4, <2>5, SumOfShares
  <2>7. SumFunction(r.common) \in Int
    BY <1>2, <2>4, SumIsNumber
  <2>. QED
    BY <1>4, <1>7, <2>4, <2>6, <2>7 DEF m
<1>10. v \in WithdrawalObject
  <2>1. /\ w.rate \in Nat /\ w.next \in Int /\ w.to_withdraw \in Nat /\ w.withdrawn \in Nat
        /\ w.rate > 0 /\ w \in [rate : Nat, next : Int, to_withdraw : Nat, withdrawn : Nat]
        /\ WithdrawInterval \in Nat /\ done \in Nat
    BY <1>3, <1>4, CommonTokensAssumption DEF WithdrawalObject
  <2>. HIDE DEF w, over, done
  <2>2. /\ v \in [rate : Nat, next : Int, to_withdraw : Nat, withdrawn : Nat]
        /\ v.rate = (IF over THEN 0 ELSE w.rate) /\ v.next = (IF over THEN Never ELSE w.next + WithdrawInterval)
    <3>1. (IF over THEN 0 ELSE w.rate) \in Nat /\ (IF over THEN Never ELSE w.next + WithdrawInterval) \in Int
      BY <2>1 DEF Never
    <3>. QED
      BY <2>1, <3>1
  <2>3. v.next # Never => v.rate > 0
    BY <2>1, <2>2
  <2>. HIDE DEF v
  <2>. QED
    BY <2>2, <2>3 DEF WithdrawalObject
<1>11. u \in [Accounts -> WithdrawalObject] /\ \A a \in Accounts \ {from} : u[a] = r.withdrawal[a]
  <2>. HIDE DEF v
  <2>. QED
    BY <1>1, <1>10
<1>12. /\ g \in GpoObject /\ g.supply = r.gpo.supply /\ g.fund = r.gpo.fund - deip - rest
       /\ g.total = r.gpo.total - deip - rest
  <2>. DEFINE q == r.gpo
              m == q.fund - deip - rest
              n == q.total - deip - rest
  <2>. HIDE DEF deip, kept
  <2>1. rest \in Int
    BY <1>4, <1>7
  <2>. HIDE DEF rest
  <2>2. q \in GpoObject /\ q.fund \in Int /\ q.total \in Int
    BY <1>1 DEF GpoObject
  <2>3. m \in Int /\ n \in Int
    <3>. HIDE DEF q
    <3>. QED
      BY <1>7, <2>1, <2>2
  <2>4. g = [q EXCEPT !.fund = m, !.total = n]
    OBVIOUS
  <2>. HIDE DEF q, m, n, g
  <2>5. g \in GpoObject /\ g.supply = q.supply /\ g.fund = m /\ g.total = n
    BY <2>2, <2>3, <2>4 DEF GpoObject
  <2>. QED
    BY <2>5 DEF q, m, n
<1>13. r.gpo.fund \in Int /\ r.gpo.total \in Int /\ Held(r.b, DEIP) \in Int
  BY <1>1, HeldIsNumber, BalancesAssumption DEF GpoObject
<1>14. okay \in BOOLEAN
  BY <1>1
<1>. HIDE DEF b, c, u, g
<1>15. p \in Payments /\ p.b = b /\ p.common = c /\ p.withdrawal = u /\ p.gpo = g /\ p.ok = okay
  <2>. HIDE DEF okay
  <2>. QED
    BY <1>5, <1>8, <1>9, <1>11, <1>12, <1>14 DEF Payments
<1>. HIDE DEF p, deip, kept
<1>16. g.fund = SumFunction(c) /\ g.total = g.fund /\ Held(b, DEIP) + g.fund = Held(r.b, DEIP) + r.gpo.fund
  BY <1>1, <1>4, <1>7, <1>8, <1>9, <1>12, <1>13
<1>17. okay => Solvent(b)
  BY <1>8
<1>. HIDE DEF okay, rest
<1>18. PaidFrom(r, p)
  BY <1>8, <1>9, <1>11, <1>12, <1>15, <1>16, <1>17 DEF PaidFrom, CommonHolds
<1>. QED
  BY <1>11, <1>15, <1>18 DEF p

\* Of a set of accounts there is a last one in the order of the index.
LEMMA LastDueIsDue ==
    ASSUME withdrawal \in [Accounts -> WithdrawalObject], NEW D \in SUBSET Accounts
    PROVE  \A t \in SUBSET D : t # {} => LastDue(t) \in t
<1>. DEFINE Later(a, b) == \/ withdrawal[b].next < withdrawal[a].next
                           \/ withdrawal[b].next = withdrawal[a].next /\ b <= a
            T == {t \in SUBSET D : t # {} => \E a \in t : \A b \in t : Later(a, b)}
<1>1. IsFiniteSet(D)
  BY BalancesAssumption, FS_Subset
<1>2. \A a \in D : a \in Int /\ withdrawal[a].next \in Int
  <2>1. \A a \in D : a \in Int /\ withdrawal[a] \in WithdrawalObject
    BY BalancesAssumption
  <2>. QED
    BY <2>1 DEF WithdrawalObject
<1>3. \A a, b, c \in D : Later(a, b) /\ Later(b, c) => Later(a, c)
  BY <1>2
<1>4. \A a, b \in D : Later(a, b) \/ Later(b, a)
  BY <1>2
<1>5. \A a \in D : Later(a, a)
  BY <1>2
<1>. HIDE DEF Later
<1>6. ASSUME NEW s \in T, NEW x \in D, x \notin s PROVE s \cup {x} \in T
  <2>1. CASE s = {}
    BY <1>5, <2>1
  <2>2. CASE s # {}
    <3>1. PICK a \in s : \A b \in s : Later(a, b)
      BY <2>2
    <3>2. CASE Later(a, x)
      BY <3>1, <3>2
    <3>3. CASE ~Later(a, x)
      <4>1. \A b \in s \cup {x} : Later(x, b)
        BY <1>3, <1>4, <1>5, <3>1, <3>3
      <4>. QED
        BY <4>1
    <3>. QED
      BY <3>2, <3>3
  <2>. QED
    BY <2>1, <2>2
<1>7. T = SUBSET D
  <2>1. T \in SUBSET (SUBSET D) /\ {} \in T
    OBVIOUS
  <2>. HIDE DEF T
  <2>. QED
    BY <1>1, <1>6, <2>1, SubsetsByElement
<1>8. \A t \in SUBSET D : t # {} => \E a \in t : \A b \in t : Later(a, b)
  BY <1>7
<1>. QED
  BY <1>8 DEF LastDue, Later

\* Payments in a row.
LEMMA PaidInARow ==
    ASSUME NEW r, NEW v, NEW p, PaidFrom(r, v), PaidFrom(v, p)
    PROVE  PaidFrom(r, p)
  BY DEF PaidFrom

\* The fold over the due accounts, from the last one back.
PaysOut(g, r, D) ==
    g = [t \in SUBSET D |-> IF t = {} THEN r ELSE WithdrawOne(g[t \ {LastDue(t)}], LastDue(t))]

\* All due accounts.
LEMMA WithdrawAll ==
    ASSUME NEW r \in Payments, CommonHolds(r.common, r.withdrawal, r.gpo), r.ok => Solvent(r.b),
           r.withdrawal = withdrawal, routes \in RouteTables, NEW time
    PROVE  LET p == process_common_tokens_withdrawals(r, time) IN
           p \in Payments /\ PaidFrom(r, p)
<1>. DEFINE D == Due(time)
            c == [t \in SUBSET D |-> LastDue(t)]
            H == [q \in (SUBSET D) \X Payments |-> WithdrawOne(q[2], LastDue(q[1]))]
            Waits(t, v) == \A a \in Accounts \ t : v.withdrawal[a] = r.withdrawal[a]
            P == {q \in (SUBSET D) \X Payments : PaidFrom(r, q[2]) /\ Waits(q[1], q[2])}
            fold == CHOOSE g : PaysOut(g, r, D)
<1>1. /\ D \in SUBSET Accounts /\ IsFiniteSet(D) /\ withdrawal \in [Accounts -> WithdrawalObject]
      /\ \A a \in D : withdrawal[a].rate > 0
  <2>1. D \in SUBSET Accounts /\ withdrawal \in [Accounts -> WithdrawalObject]
    BY DEF Due, Payments
  <2>2. \A a \in D : withdrawal[a] \in WithdrawalObject /\ withdrawal[a].next # Never
    BY <2>1 DEF Due
  <2>3. \A a \in D : withdrawal[a].rate > 0
    BY <2>2 DEF WithdrawalObject
  <2>. HIDE DEF D
  <2>. QED
    BY <2>1, <2>3, BalancesAssumption, FS_Subset
<1>. HIDE DEF D
<1>2. \A t \in SUBSET D : t # {} => LastDue(t) \in t
  BY <1>1, LastDueIsDue
<1>3. Chooses(c, D) /\ \A t \in SUBSET D : c[t] = LastDue(t)
  BY <1>2 DEF Chooses
<1>4. <<{}, r>> \in P
  <2>1. PaidFrom(r, r)
    BY DEF PaidFrom
  <2>. QED
    BY <2>1
<1>5. ASSUME NEW t \in SUBSET D, NEW v \in Payments, t # {}, PaidFrom(r, v), Waits(t \ {LastDue(t)}, v)
      PROVE  LET p == WithdrawOne(v, LastDue(t)) IN p \in Payments /\ PaidFrom(r, p) /\ Waits(t, p)
  <2>. DEFINE a == LastDue(t)
              p == WithdrawOne(v, a)
  <2>1. a \in t /\ a \in Accounts /\ withdrawal[a].rate > 0
    BY <1>1, <1>2, <1>5
  <2>. HIDE DEF a
  <2>2. v.withdrawal[a].rate > 0
    BY <1>5, <2>1 DEF a
  <2>3. CommonHolds(v.common, v.withdrawal, v.gpo) /\ (v.ok => Solvent(v.b))
    BY <1>5 DEF PaidFrom
  <2>4. p \in Payments /\ PaidFrom(v, p) /\ \A x \in Accounts \ {a} : p.withdrawal[x] = v.withdrawal[x]
    BY <2>1, <2>2, <2>3, WithdrawFacts
  <2>. HIDE DEF p
  <2>5. PaidFrom(r, p)
    BY <1>5, <2>4, PaidInARow
  <2>6. Waits(t, p)
    BY <1>5, <2>1, <2>4 DEF a
  <2>. QED
    BY <2>4, <2>5, <2>6 DEF p, a
<1>6. \A t \in SUBSET D, v \in Payments : H[<<t, v>>] = WithdrawOne(v, LastDue(t))
  OBVIOUS
<1>. HIDE DEF H, Waits
<1>7. \A t \in SUBSET D, v \in Payments :
          t # {} /\ <<t \ {c[t]}, v>> \in P => <<t, H[<<t, v>>]>> \in P
  BY <1>3, <1>5, <1>6
<1>. HIDE DEF c
<1>8. \E g : PaysOut(g, r, D)
  <2>1. PICK g \in [SUBSET D -> Payments] : Recursive(g, D, r, c, H)
    <3>1. FoldKeeps(P, D, Payments, r, c, H)
      BY <1>4, <1>7 DEF FoldKeeps
    <3>. HIDE DEF P
    <3>. QED
      BY <1>1, <1>3, <3>1, FoldExists
  <2>2. \A t \in SUBSET D : g[t] = IF t = {} THEN r ELSE WithdrawOne(g[t \ {LastDue(t)}], LastDue(t))
    <3>. SUFFICES ASSUME NEW t \in SUBSET D, t # {}
                  PROVE  g[t] = WithdrawOne(g[t \ {LastDue(t)}], LastDue(t))
      BY <2>1 DEF Recursive
    <3>1. g[t \ {LastDue(t)}] \in Payments
      OBVIOUS
    <3>. QED
      BY <1>3, <1>6, <2>1, <3>1 DEF Recursive
  <2>3. g = [t \in SUBSET D |-> g[t]]
    OBVIOUS
  <2>. QED
    BY <2>2, <2>3, Zenon DEF PaysOut
<1>9. PaysOut(fold, r, D)
  BY <1>8
<1>. HIDE DEF fold
<1>10. \A t \in SUBSET D :
           fold[t] = IF t = {} THEN r ELSE WithdrawOne(fold[t \ {LastDue(t)}], LastDue(t))
  BY <1>9 DEF PaysOut
<1>11. \A t \in SUBSET D : <<t, fold[t]>> \in P
  <2>1. <<{}, fold[{}]>> \in P
    BY <1>4, <1>10
  <2>2. ASSUME NEW t \in SUBSET D, t # {}, <<t \ {c[t]}, fold[t \ {c[t]}]>> \in P
        PROVE  <<t, fold[t]>> \in P
    <3>1. /\ fold[t \ {LastDue(t)}] \in Payments /\ PaidFrom(r, fold[t \ {LastDue(t)}])
          /\ Waits(t \ {LastDue(t)}, fold[t \ {LastDue(t)}])
      BY <1>3, <2>2
    <3>2. fold[t] = WithdrawOne(fold[t \ {LastDue(t)}], LastDue(t))
      BY <1>10, <2>2
    <3>. QED
      BY <1>5, <2>2, <3>1, <3>2
  <2>. HIDE DEF P
  <2>. QED
    BY SMTT(30), <1>1, <1>3, <2>1, <2>2, FoldHolds
<1>12. fold[D] \in Payments /\ PaidFrom(r, fold[D])
  BY <1>11
<1>13. process_common_tokens_withdrawals(r, time) = fold[D]
  BY DEF process_common_tokens_withdrawals, MapThenFoldSet, PaysOut, fold, D
<1>. QED
  BY <1>12, <1>13

\* A stake grows, and the fund and the total with it.
LEMMA StakeGrows ==
    ASSUME NEW c, NEW w, NEW g, CommonHolds(c, w, g), NEW a \in Accounts, NEW n \in Nat
    PROVE  /\ CommonHolds([c EXCEPT ![a] = @ + n], w, GpoIncreased(g, n))
           /\ GpoIncreased(g, n).supply = g.supply /\ GpoIncreased(g, n).fund = g.fund + n
<1>. DEFINE d == [c EXCEPT ![a] = @ + n]
            h == GpoIncreased(g, n)
<1>1. /\ c \in [Accounts -> Nat] /\ w \in [Accounts -> WithdrawalObject] /\ g \in GpoObject
      /\ g.fund = SumFunction(c) /\ g.total = g.fund /\ IsFiniteSet(Accounts)
  BY BalancesAssumption DEF CommonHolds
<1>2. g.fund \in Int /\ g.total \in Int /\ g.fund + n \in Int /\ g.total + n \in Int
  BY <1>1 DEF GpoObject
<1>3. h = [g EXCEPT !.total = g.total + n, !.fund = g.fund + n]
  BY DEF GpoIncreased
<1>4. h \in GpoObject /\ h.fund = g.fund + n /\ h.total = g.total + n /\ h.supply = g.supply
  BY <1>1, <1>2, <1>3 DEF GpoObject
<1>5. /\ d \in [Accounts -> Nat] /\ d \in [Accounts -> Int] /\ c \in [Accounts -> Int]
      /\ d[a] = c[a] + n /\ c[a] \in Nat
      /\ \A x \in Accounts : x # a => d[x] = c[x]
  BY <1>1
<1>. HIDE DEF d, h
<1>6. SumFunction(d) = SumFunction(c) + d[a] - c[a]
  <2>1. d \in [Accounts -> Int] /\ c \in [Accounts -> Int] /\ \A x \in Accounts : x # a => d[x] = c[x]
    BY <1>5
  <2>2. IsFiniteSet(Accounts)
    BY <1>1
  <2>. QED
    BY <2>1, <2>2, SumChange
<1>7. SumFunction(d) = SumFunction(c) + n
  BY <1>1, <1>2, <1>5, <1>6
<1>8. CommonHolds(d, w, h)
  BY <1>1, <1>2, <1>4, <1>5, <1>7 DEF CommonHolds
<1>. QED
  BY <1>4, <1>8 DEF d, h

\* process_funds: the emission is a natural number, of which the supply grows
\* by what the witness is paid in common tokens and by what nobody is paid.
LEMMA FundsFacts ==
    ASSUME NEW c, NEW w, NEW g, CommonHolds(c, w, g), NEW witness \in Witnesses
    PROVE  LET r == process_funds(g, c, witness) IN
           /\ CommonHolds(r.common, w, r.gpo) /\ r.unpaid \in Nat
           /\ \E n \in Nat : r.gpo.fund = g.fund + n /\ r.gpo.supply = g.supply + n + r.unpaid
<1>. DEFINE r == process_funds(g, c, witness)
            emitted      == g.supply \div EmissionDivisor
            x            == emitted * ContributionPercent
            contribution0 == x \div HundredPercent
            y            == (emitted - contribution0) * WitnessWeight
            reward       == y \div PayNormalization
            h            == [g EXCEPT !.supply = @ + contribution0 + reward]
<1>1. /\ g \in GpoObject /\ g.supply \in Nat /\ g.fund \in Int /\ g.total \in Int
      /\ EmissionDivisor \in Nat /\ EmissionDivisor > 0 /\ HundredPercent \in Nat /\ HundredPercent > 0
      /\ PayNormalization \in Nat /\ PayNormalization > 0 /\ WitnessWeight \in Nat
      /\ ContributionPercent \in Nat /\ ContributionPercent <= HundredPercent
      /\ witness \in Accounts
  BY BalancesAssumption, CommonTokensAssumption DEF CommonHolds, GpoObject
<1>2. r = [gpo |-> GpoIncreased(h, reward), common |-> [c EXCEPT ![witness] = @ + reward],
           unpaid |-> contribution0]
  BY DEF process_funds
<1>3. emitted \in Nat
  BY <1>1, Division
<1>. HIDE DEF emitted
<1>4. x \in Nat /\ x <= emitted * HundredPercent
  BY <1>1, <1>3, ProductGrows
<1>. HIDE DEF x
<1>5. contribution0 \in Nat /\ contribution0 <= emitted
  <2>. DEFINE k == contribution0
              m == x % HundredPercent
  <2>1. k \in Int /\ k >= 0 /\ m \in 0 .. HundredPercent - 1 /\ x = HundredPercent * k + m
    BY <1>1, <1>4, Division
  <2>. HIDE DEF k, m
  <2>2. k <= emitted
    <3>1. SUFFICES ASSUME emitted + 1 <= k PROVE FALSE
      BY <1>3, <2>1
    <3>2. HundredPercent * (emitted + 1) <= HundredPercent * k
      BY <1>1, <1>3, <2>1, <3>1, ProductGrows
    <3>3. HundredPercent * (emitted + 1) = emitted * HundredPercent + HundredPercent
      BY <1>1, <1>3
    <3>4. HundredPercent * k \in Int /\ emitted * HundredPercent \in Int
      BY <1>1, <1>3, <2>1
    <3>. QED
      BY <1>1, <1>4, <2>1, <3>2, <3>3, <3>4
  <2>. QED
    BY <2>1, <2>2 DEF k
<1>. HIDE DEF contribution0
<1>6. y \in Nat
  BY <1>1, <1>3, <1>5
<1>. HIDE DEF y
<1>7. reward \in Nat
  BY <1>1, <1>6, Division
<1>. HIDE DEF reward
<1>8. /\ h \in GpoObject /\ h.fund = g.fund /\ h.total = g.total
      /\ h.supply = g.supply + contribution0 + reward
  BY <1>1, <1>5, <1>7 DEF GpoObject
<1>. HIDE DEF h
<1>9. CommonHolds(c, w, h)
  BY <1>8 DEF CommonHolds
<1>10. /\ CommonHolds([c EXCEPT ![witness] = @ + reward], w, GpoIncreased(h, reward))
       /\ GpoIncreased(h, reward).supply = h.supply /\ GpoIncreased(h, reward).fund = h.fund + reward
  BY <1>1, <1>7, <1>9, StakeGrows
<1>. HIDE DEF r
<1>11. /\ CommonHolds(r.common, w, r.gpo) /\ r.unpaid = contribution0
       /\ r.gpo.fund = g.fund + reward /\ r.gpo.supply = g.supply + contribution0 + reward
  BY <1>2, <1>8, <1>10
<1>. QED
  BY <1>1, <1>5, <1>7, <1>11 DEF r

-----------------------------------------------------------------------------
(* What an award gives *)

\* The overhead of the university is a natural number.
LEMMA FeeIsNat ==
    ASSUME NEW t \in AwardTerms PROVE UniversityFee(t) \in Nat
<1>1. t.amount \in Nat /\ t.overhead \in Nat /\ HundredPercent \in Nat /\ HundredPercent > 0
  BY AwardsAssumption, BalancesAssumption
<1>2. t.amount * t.overhead \in Nat
  BY <1>1
<1>. QED
  BY <1>1, <1>2, Division DEF UniversityFee

\* What each recipient of valid terms is awarded before subawards.
Gross(t, who) == IF who = t.awardee THEN t.amount - UniversityFee(t)
                 ELSE (CHOOSE s \in t.subs : s.to = who).amount

\* The awardee is given the amount less the overhead, and the others their subawards.
LEMMA GrossAddsUp ==
    ASSUME NEW t \in AwardTerms, validate_awardees(t)
    PROVE  /\ \A who \in Recipients(t) : Gross(t, who) \in Int
           /\ SumFunction([who \in Recipients(t) |-> Gross(t, who)])
                = t.amount - UniversityFee(t) + SumFunction([s \in t.subs |-> s.amount])
<1>. DEFINE S == t.subs
            N == {s.to : s \in S}
            R == Recipients(t)
            f == [s \in S |-> s.amount]
            m == [s \in S |-> s.to]
            g == [who \in N |-> Gross(t, who)]
            h == [who \in R |-> Gross(t, who)]
            x == t.awardee
<1>1. /\ t.amount \in Nat /\ IsFiniteSet(S) /\ x \in Accounts /\ IsFiniteSet(Accounts)
      /\ \A s \in S : s.to \in Accounts /\ s.amount \in Int
  BY AwardsAssumption, BalancesAssumption
<1>2. UniversityFee(t) \in Nat
  BY FeeIsNat
<1>3. x \notin N /\ \A r, s \in S : r.to = s.to => r = s
  BY DEF validate_awardees
<1>4. R = N \cup {x} /\ N \in SUBSET Accounts
  BY <1>1 DEF Recipients
<1>5. ASSUME NEW s \in S PROVE Gross(t, s.to) = s.amount /\ s.to # x
  <2>1. (CHOOSE r \in S : r.to = s.to) = s
    BY <1>3
  <2>. QED
    BY <1>3, <2>1 DEF Gross
<1>6. Gross(t, x) = t.amount - UniversityFee(t) /\ Gross(t, x) \in Int
  BY <1>1, <1>2 DEF Gross
<1>7. \A who \in N : Gross(t, who) \in Int
  BY <1>1, <1>5
<1>8. IsFiniteSet(N)
  <2>. HIDE DEF N
  <2>. QED
    BY <1>1, <1>4, FS_Subset
<1>9. /\ f \in [S -> Int] /\ g \in [N -> Int] /\ m \in [S -> N]
      /\ (\A r, s \in S : m[r] = m[s] => r = s) /\ N = {m[s] : s \in S} /\ \A s \in S : g[m[s]] = f[s]
  BY <1>1, <1>3, <1>5, <1>7
<1>10. h \in [N \cup {x} -> Int] /\ h[x] = t.amount - UniversityFee(t) /\ \A who \in N : h[who] = g[who]
  <2>. HIDE DEF N, R
  <2>. QED
    BY <1>4, <1>6, <1>7
<1>. HIDE DEF N, R, S, f, g, h, m, x
<1>11. SumFunction(g) = SumFunction(f)
  <2>1. Renames(m, S, N, f, g) /\ f \in [S -> Int] /\ g \in [N -> Int] /\ IsFiniteSet(S)
    BY <1>1, <1>9 DEF Renames
  <2>. QED
    BY <1>8, <2>1, SumReindex
<1>12. SumFunction(h) = SumFunction(g) + h[x]
  <2>1. h \in [N \cup {x} -> Int] /\ g \in [N -> Int] /\ \A who \in N : h[who] = g[who]
    BY <1>9, <1>10
  <2>2. x \notin N
    BY <1>3
  <2>. QED
    BY <1>8, <2>1, <2>2, SumInsert
<1>13. SumFunction(f) \in Int
  BY <1>1, <1>9, SumIsNumber
<1>14. SumFunction(h) = t.amount - UniversityFee(t) + SumFunction(f)
  BY <1>1, <1>2, <1>10, <1>11, <1>12, <1>13
<1>15. \A who \in R : Gross(t, who) \in Int
  BY <1>4, <1>6, <1>7
<1>. QED
  BY <1>14, <1>15 DEF h, f, R, S

\* What the recipients of valid terms are awarded adds up to the amount less
\* the overhead: every subaward is taken from a recipient.
LEMMA TotalsAddUp ==
    ASSUME NEW t \in AwardTerms, validate_awardees(t)
    PROVE  SumFunction([who \in Recipients(t) |-> TotalAmount(t, who)]) = t.amount - UniversityFee(t)
<1>. DEFINE S == t.subs
            R == Recipients(t)
            f == [s \in S |-> s.amount]
            k == [s \in S |-> s.source]
            a == [who \in R |-> Gross(t, who)]
            d == [who \in R |-> TotalAmount(t, who)]
            e == [who \in R |-> SubawardsFrom(t, who)]
            q == [who \in R |-> SumFunction([y \in {z \in S : k[z] = who} |-> f[y]])]
<1>1. /\ t.amount \in Nat /\ IsFiniteSet(S) /\ IsFiniteSet(Accounts)
      /\ \A s \in S : s.amount \in Int
  BY AwardsAssumption, BalancesAssumption
<1>2. UniversityFee(t) \in Nat
  BY FeeIsNat
<1>3. IsFiniteSet(R)
  <2>1. R \in SUBSET Accounts
    BY RecipientsAreAccounts
  <2>. HIDE DEF R
  <2>. QED
    BY <1>1, <2>1, FS_Subset
<1>4. \A s \in S : s.source \in R
  BY DEF validate_awardees, Recipients
<1>5. f \in [S -> Int] /\ k \in [S -> R]
  BY <1>1, <1>4
<1>6. ASSUME NEW who \in R
      PROVE  /\ SubawardsFrom(t, who) = SumFunction([y \in {z \in S : k[z] = who} |-> f[y]])
             /\ SubawardsFrom(t, who) \in Int
  <2>. DEFINE C == {z \in S : z.source = who}
              p == [y \in C |-> y.amount]
  <2>1. {z \in S : k[z] = who} = C
    OBVIOUS
  <2>2. [y \in C |-> f[y]] = p
    OBVIOUS
  <2>3. SubawardsFrom(t, who) = SumFunction(p)
    BY DEF SubawardsFrom
  <2>4. C \in SUBSET S /\ p \in [C -> Int]
    BY <1>1
  <2>5. IsFiniteSet(C)
    <3>. HIDE DEF C
    <3>. QED
      BY <1>1, <2>4, FS_Subset
  <2>6. SumFunction(p) \in Int
    <3>. HIDE DEF C, p
    <3>. QED
      BY <2>4, <2>5, SumIsNumber
  <2>. QED
    BY <2>1, <2>2, <2>3, <2>6
<1>7. e = q /\ e \in [R -> Int]
  BY <1>6
<1>8. SumFunction(q) = SumFunction(f)
  <2>. HIDE DEF S, R, f, k
  <2>1. ClassSums(q, R, S, k, f) /\ IsFiniteSet(S)
    BY <1>1 DEF ClassSums
  <2>. HIDE DEF q
  <2>. QED
    BY <1>3, <1>5, <2>1, SumByClass
<1>9. a \in [R -> Int] /\ SumFunction(a) = t.amount - UniversityFee(t) + SumFunction(f)
  BY GrossAddsUp
<1>10. ASSUME NEW who \in R PROVE TotalAmount(t, who) = Gross(t, who) - SubawardsFrom(t, who)
  BY DEF TotalAmount, Gross
<1>11. d \in [R -> Int]
  BY TotalIsNumber
<1>12. \A who \in R : a[who] = d[who] + e[who]
  <2>1. TAKE who \in R
  <2>2. Gross(t, who) \in Int /\ SubawardsFrom(t, who) \in Int
    BY <1>6, GrossAddsUp
  <2>. QED
    BY <1>10, <2>2
<1>. HIDE DEF a, d, e, q, R
<1>13. SumFunction(a) = SumFunction(d) + SumFunction(e)
  <2>1. a \in [R -> Int] /\ d \in [R -> Int] /\ e \in [R -> Int]
    BY <1>7, <1>9, <1>11
  <2>. QED
    BY <1>3, <1>12, <2>1, SumPlus
<1>14. SumFunction(f) \in Int /\ SumFunction(d) \in Int
  <2>. HIDE DEF f, S
  <2>. QED
    BY <1>1, <1>3, <1>5, <1>11, SumIsNumber
<1>15. SumFunction(d) = t.amount - UniversityFee(t)
  <2>. HIDE DEF f
  <2>. QED
    BY <1>1, <1>2, <1>7, <1>8, <1>9, <1>13, <1>14
<1>. QED
  BY <1>15 DEF d, R

\* approve_award: the recipients and the university are given the amount of
\* the award between them.
LEMMA AwardedFacts ==
    ASSUME balance \in BalanceTables, Solvent(balance), NEW t \in AwardTerms, validate_awardees(t)
    PROVE  LET r == Awarded(t) IN
           /\ r.b \in BalanceTables /\ (r.ok => Solvent(r.b))
           /\ Held(r.b, GrantAsset) = Held(balance, GrantAsset) + t.amount
           /\ \A s \in Assets \ {GrantAsset} : Held(r.b, s) = Held(balance, s)
<1>. DEFINE r  == Awarded(t)
            A  == GrantAsset
            R  == Recipients(t)
            w  == adjust_account_balance(balance, University, A, UniversityFee(t))
            d  == r.b
            sh == [a \in Accounts |-> IF a \in R THEN TotalAmount(t, a) ELSE 0]
            tot == [who \in R |-> TotalAmount(t, who)]
            f  == [a \in Accounts |-> w[a][A]]
            h  == [a \in Accounts |-> d[a][A]]
<1>1. A \in Assets /\ University \in Accounts /\ IsFiniteSet(Accounts) /\ R \in SUBSET Accounts /\ t.amount \in Nat
  BY AwardsAssumption, BalancesAssumption, RecipientsAreAccounts
<1>2. UniversityFee(t) \in Nat /\ (\A who \in R : TotalAmount(t, who) \in Int)
      /\ SumFunction(tot) = t.amount - UniversityFee(t)
  BY FeeIsNat, TotalIsNumber, TotalsAddUp
<1>3. AdjustedBy(balance, w, University, A, UniversityFee(t))
  BY <1>1, <1>2, AdjustFacts
<1>4. w \in BalanceTables /\ Solvent(w)
  <2>1. balance[University][A] \in Int /\ balance[University][A] >= 0
    BY <1>1 DEF BalanceTables, Solvent
  <2>. QED
    BY <1>2, <1>3, <2>1 DEF AdjustedBy
<1>5. /\ d = [a \in Accounts |-> [w[a] EXCEPT ![A] = @ + (IF a \in R THEN TotalAmount(t, a) ELSE 0)]]
      /\ r.ok = \A who \in R : w[who][A] + TotalAmount(t, who) >= 0 \/ TotalAmount(t, who) >= 0
  BY DEF Awarded
<1>. HIDE DEF w, d, r, R, A
<1>6. sh \in [Accounts -> Int] /\ \A a \in R : sh[a] = TotalAmount(t, a)
  BY <1>1, <1>2
<1>7. d = [a \in Accounts |-> [w[a] EXCEPT ![A] = @ + sh[a]]] /\ \A a \in Accounts \ R : sh[a] = 0
  BY <1>5
<1>8. [a \in R |-> sh[a]] = tot
  BY <1>1, <1>6
<1>. HIDE DEF sh
<1>9. /\ \A a \in Accounts : d[a] \in [Assets -> Int]
      /\ \A a \in Accounts : d[a][A] = w[a][A] + sh[a] /\ w[a][A] \in Int
      /\ \A a \in Accounts : \A s \in Assets \ {A} : d[a][s] = w[a][s]
  <2>1. \A a \in Accounts : w[a] \in [Assets -> Int] /\ sh[a] \in Int
    BY <1>4, <1>6 DEF BalanceTables
  <2>2. \A a \in Accounts : w[a][A] \in Int /\ w[a][A] + sh[a] \in Int
    BY <1>1, <2>1
  <2>3. \A a \in Accounts : d[a] = [w[a] EXCEPT ![A] = w[a][A] + sh[a]]
    BY <1>7
  <2>4. ASSUME NEW a \in Accounts
        PROVE  /\ d[a] \in [Assets -> Int] /\ d[a][A] = w[a][A] + sh[a]
               /\ \A s \in Assets \ {A} : d[a][s] = w[a][s]
    <3>. DEFINE k == w[a]
                n == w[a][A] + sh[a]
    <3>1. k \in [Assets -> Int] /\ n \in Int /\ d[a] = [k EXCEPT ![A] = n]
      BY <2>1, <2>2, <2>3
    <3>2. /\ d[a] \in [Assets -> Int] /\ d[a][A] = n
          /\ \A s \in Assets \ {A} : d[a][s] = k[s]
      <4>. HIDE DEF k, n
      <4>. QED
        BY <1>1, <3>1
    <3>. QED
      BY <3>2
  <2>. QED
    BY <2>2, <2>4
<1>10. d \in BalanceTables
  <2>1. d = [a \in Accounts |-> d[a]]
    BY <1>7
  <2>. QED
    BY <1>9, <2>1 DEF BalanceTables
<1>11. /\ f \in [Accounts -> Int] /\ h \in [Accounts -> Int]
       /\ Shared(h, f, Accounts, R, sh, University, 0)
  <2>1. f \in [Accounts -> Int] /\ h \in [Accounts -> Int]
    BY <1>1, <1>9
  <2>2. \A a \in Accounts : h[a] = f[a] + sh[a] /\ sh[a] \in Int /\ f[a] \in Int
    BY <1>6, <1>9
  <2>. HIDE DEF f, h
  <2>3. Shared(h, f, Accounts, R, sh, University, 0)
    BY <1>7, <2>2 DEF Shared
  <2>. QED
    BY <2>1, <2>3
<1>. HIDE DEF f, h
<1>12. SumFunction(h) = SumFunction(f) + SumFunction([a \in R |-> sh[a]]) + 0
  <2>. DEFINE z == 0
  <2>1. z \in Int /\ Shared(h, f, Accounts, R, sh, University, z)
    BY <1>11
  <2>2. sh \in [Accounts -> Int]
    BY <1>6
  <2>. HIDE DEF z
  <2>3. SumFunction(h) = SumFunction(f) + SumFunction([a \in R |-> sh[a]]) + z
    BY <1>1, <1>11, <2>1, <2>2, SumOfShares
  <2>. QED
    BY <2>3 DEF z
<1>13. SumFunction(f) \in Int
  BY <1>1, <1>11, SumIsNumber
<1>14. SumFunction(h) = SumFunction(f) + t.amount - UniversityFee(t)
  <2>. HIDE DEF tot
  <2>. QED
    BY <1>1, <1>2, <1>8, <1>12, <1>13
<1>15. Held(d, A) = Held(w, A) + t.amount - UniversityFee(t)
  BY <1>14 DEF Held, f, h
<1>16. Held(d, A) = Held(balance, A) + t.amount
  <2>1. Held(balance, A) \in Int /\ Held(w, A) = Held(balance, A) + UniversityFee(t)
    BY <1>1, <1>3, HeldIsNumber DEF AdjustedBy
  <2>. QED
    BY <1>1, <1>2, <1>15, <2>1
<1>17. \A s \in Assets \ {A} : Held(d, s) = Held(balance, s)
  <2>1. TAKE s \in Assets \ {A}
  <2>2. [a \in Accounts |-> d[a][s]] = [a \in Accounts |-> w[a][s]]
    BY <1>9
  <2>3. Held(w, s) = Held(balance, s)
    BY <1>3 DEF AdjustedBy
  <2>. QED
    BY <2>2, <2>3 DEF Held
<1>18. ASSUME r.ok PROVE Solvent(d)
  <2>1. \A a \in Accounts : w[a][A] >= 0
    BY <1>1, <1>4 DEF Solvent
  <2>2. \A a \in Accounts : d[a][A] >= 0
    <3>1. TAKE a \in Accounts
    <3>2. CASE a \in R
      <4>1. w[a][A] + TotalAmount(t, a) >= 0 \/ TotalAmount(t, a) >= 0
        BY <1>5, <1>18, <3>2
      <4>2. d[a][A] = w[a][A] + TotalAmount(t, a) /\ w[a][A] \in Int /\ TotalAmount(t, a) \in Int
        BY <1>2, <1>6, <1>9, <3>2
      <4>3. w[a][A] >= 0
        BY <2>1
      <4>. QED
        BY <4>1, <4>2, <4>3
    <3>3. CASE a \notin R
      BY <1>7, <1>9, <2>1, <3>3
    <3>. QED
      BY <3>2, <3>3
  <2>. QED
    BY <1>4, <1>9, <2>2 DEF Solvent
<1>. QED
  BY <1>10, <1>16, <1>17, <1>18 DEF d, r, A

-----------------------------------------------------------------------------
(* The books *)

\* What the vesting contracts hold, the grant holds and was paid out of awards.
VestedIn(vs) == SumFunction([i \in DOMAIN vs |-> vs[i].balance])
Granted(x)   == IF x = NoEntry THEN 0 ELSE x
SpentOn(as)  == SumFunction([i \in DOMAIN as |-> SumFunction(as[i].expenses)])

\* The supply of the core asset, and of the others.
CoreBook(b, cs, v, g, u) == g.supply = Held(b, DEIP) + AllAmounts(cs) + v + g.fund + u
AssetBook(b, s, su, x, n) ==
    \A t \in Assets \ {DEIP} :
        Held(b, t) + (IF t = Token THEN OnSale(s) ELSE 0) + (IF t = GrantAsset THEN Granted(x) ELSE 0)
            = su[t] + (IF t = GrantAsset THEN n ELSE 0)

\* The inductive invariant of the money: the sale and the common tokens hold
\* what they should, the awards have valid terms, and the books balance.
MoneyInv ==
    /\ balance \in BalanceTables /\ Solvent(balance) /\ supply \in [Assets -> Nat]
    /\ SaleHolds(sale, contributions, frozen)
    /\ CommonHolds(common, withdrawal, gpo) /\ routes \in RouteTables /\ unpaid \in Int
    /\ foa \in Int /\ \A i \in 1 .. Len(awards) : validate_awardees(awards[i].terms)
    /\ CoreBook(balance, contributions, VestedIn(vesting), gpo, unpaid)
    /\ AssetBook(balance, sale, supply, foa, SpentOn(awards))

\* What the contracts hold is a number.
LEMMA VestedIsNumber ==
    ASSUME NEW vs \in Seq(Contract) PROVE VestedIn(vs) \in Int /\ (vs = <<>> => VestedIn(vs) = 0)
<1>. DEFINE f == [i \in DOMAIN vs |-> vs[i].balance]
            D == DOMAIN vs
<1>1. D = 1 .. Len(vs) /\ IsFiniteSet(D) /\ (vs = <<>> => D = {})
  BY FS_Interval
<1>2. \A i \in D : vs[i] \in Contract
  BY <1>1
<1>3. f \in [D -> Int]
  BY <1>2 DEF Contract
<1>. HIDE DEF f, D
<1>. QED
  BY <1>1, <1>3, SumIsNumber DEF VestedIn, f, D

\* The expenses of one award, and of all, are numbers.
LEMMA SpentIsNumber ==
    ASSUME NEW as \in Seq(AwardObject)
    PROVE  /\ SpentOn(as) \in Int /\ (as = <<>> => SpentOn(as) = 0)
           /\ \A i \in 1 .. Len(as) : SumFunction(as[i].expenses) \in Int
<1>. DEFINE f == [i \in DOMAIN as |-> SumFunction(as[i].expenses)]
            D == DOMAIN as
<1>1. D = 1 .. Len(as) /\ IsFiniteSet(D) /\ (as = <<>> => D = {})
  BY FS_Interval
<1>2. ASSUME NEW i \in D PROVE SumFunction(as[i].expenses) \in Int
  <2>1. as[i].expenses \in ExpenseTables
    <3>1. i \in 1 .. Len(as)
      BY <1>1
    <3>2. as[i] \in AwardObject
      <4>. HIDE DEF D
      <4>. QED
        BY <3>1, ElementOfSeq
    <3>. QED
      BY <3>2 DEF AwardObject
  <2>2. PICK R \in SUBSET Accounts : as[i].expenses \in [R -> Int]
    BY <2>1 DEF ExpenseTables
  <2>3. IsFiniteSet(R)
    BY BalancesAssumption, FS_Subset
  <2>. QED
    BY <2>2, <2>3, SumIsNumber
<1>3. f \in [D -> Int]
  BY <1>2
<1>. HIDE DEF f, D
<1>4. SumFunction(f) \in Int /\ (D = {} => SumFunction(f) = 0)
  BY <1>1, <1>3, SumIsNumber
<1>. QED
  BY <1>1, <1>2, <1>4 DEF SpentOn, f, D

\* All amounts of the books are numbers.
MoneyNumbers ==
    /\ \A t \in Assets : Held(balance, t) \in Int /\ supply[t] \in Int
    /\ AllAmounts(contributions) \in Int /\ OnSale(sale) \in Int
    /\ VestedIn(vesting) \in Int /\ SpentOn(awards) \in Int
    /\ gpo.supply \in Int /\ gpo.fund \in Int /\ unpaid \in Int
    /\ foa \in Int /\ Granted(foa) \in Int
    /\ DEIP \in Assets /\ Token \in Assets /\ DEIP # Token /\ GrantAsset \in Assets /\ GrantAsset # DEIP

\* They follow from the invariants.
LEMMA MoneyIsNumbers ==
    ASSUME MoneyInv, VestingInv, AwardsInv
    PROVE  MoneyNumbers
<1>1. \A t \in Assets : Held(balance, t) \in Int /\ supply[t] \in Int
  BY HeldIsNumber DEF MoneyInv
<1>2. AllAmounts(contributions) \in Int /\ OnSale(sale) \in Int
  BY AllAmountsIsNumber DEF MoneyInv, SaleHolds, OnSale, SaleObject
<1>3. VestedIn(vesting) \in Int /\ SpentOn(awards) \in Int
  BY VestedIsNumber, SpentIsNumber DEF VestingInv, AwardsInv
<1>4. gpo.supply \in Int /\ gpo.fund \in Int /\ unpaid \in Int
  BY DEF MoneyInv, CommonHolds, GpoObject
<1>5. foa \in Int /\ Granted(foa) \in Int
  BY DEF MoneyInv, Granted
<1>6. /\ DEIP \in Assets /\ Token \in Assets /\ DEIP # Token
      /\ GrantAsset \in Assets /\ GrantAsset # DEIP
  BY BalancesAssumption, AwardsAssumption
<1>. QED
  BY <1>1, <1>2, <1>3, <1>4, <1>5, <1>6 DEF MoneyNumbers

\* Amounts that only change hands leave the books as they are.
LEMMA BooksKept ==
    ASSUME MoneyInv, NEW b \in BalanceTables, KeepsHeld(balance, b)
    PROVE  /\ CoreBook(b, contributions, VestedIn(vesting), gpo, unpaid)
           /\ AssetBook(b, sale, supply, foa, SpentOn(awards))
<1>1. \A t \in Assets : Held(b, t) = Held(balance, t)
  BY DEF KeepsHeld
<1>2. DEIP \in Assets
  BY BalancesAssumption
<1>. QED
  BY <1>1, <1>2 DEF CoreBook, AssetBook, MoneyInv

\* transfer, issue_asset and reserve_asset
LEMMA BalancesKeepMoney ==
    ASSUME MoneyInv, VestingInv, AwardsInv, BalancesOps,
           UNCHANGED <<saleVars, commonVars, vesting, awardVars>>
    PROVE  MoneyInv'
<1>0. MoneyNumbers
  BY MoneyIsNumbers
<1>1. balance \in BalanceTables /\ Solvent(balance) /\ supply \in [Assets -> Nat]
  BY DEF MoneyInv
<1>2. UNCHANGED <<sale, contributions, common, withdrawal, routes, gpo, unpaid, vesting, foa, awards>>
  BY DEF saleVars, commonVars, awardVars
<1>3. \A n \in Amounts : n \in Nat
  BY BalancesAssumption
<1>4. ASSUME NEW from \in Accounts, NEW to \in Accounts, NEW s \in Assets, NEW n \in Amounts,
             transfer(from, to, s, n)
      PROVE  MoneyInv'
  <2>1. /\ balance' = adjust_account_balance(adjust_account_balance(balance, from, s, -n), to, s, n)
        /\ balance[from][s] >= n /\ UNCHANGED <<frozen, supply>>
    BY <1>4 DEF transfer, Covers
  <2>2. n \in Nat /\ n \in Int /\ balance[from][s] \in Int
    BY <1>1, <1>3 DEF BalanceTables
  <2>3. balance[from][s] - n >= 0
    BY <2>1, <2>2
  <2>4. balance' \in BalanceTables /\ KeepsHeld(balance, balance') /\ Solvent(balance')
    <3>. DEFINE r == adjust_account_balance(adjust_account_balance(balance, from, s, -n), to, s, n)
    <3>1. /\ r \in BalanceTables /\ KeepsHeld(balance, r)
          /\ Solvent(balance) /\ balance[from][s] - n >= 0 /\ (n >= 0 \/ balance[to][s] + n >= 0)
                => Solvent(r)
      BY <1>1, <2>2, MoveFacts
    <3>2. balance' = r
      BY <2>1
    <3>3. n >= 0
      BY <2>2
    <3>. HIDE DEF r
    <3>. QED
      BY <1>1, <2>3, <3>1, <3>2, <3>3
  <2>5. /\ CoreBook(balance', contributions, VestedIn(vesting), gpo, unpaid)
        /\ AssetBook(balance', sale, supply, foa, SpentOn(awards))
    BY <2>4, BooksKept
  <2>. QED
    BY <1>2, <2>1, <2>4, <2>5 DEF MoneyInv
<1>5. ASSUME NEW a \in Accounts, NEW s \in IssuableAssets, NEW n \in Int,
             balance[a][s] + n >= 0,
             balance' = adjust_account_balance(balance, a, s, n),
             supply' = [supply EXCEPT ![s] = @ + n], supply[s] + n \in Nat, frozen' = frozen
      PROVE  MoneyInv'
  <2>1. s \in Assets /\ s # DEIP
    BY BalancesAssumption
  <2>2. AdjustedBy(balance, balance', a, s, n)
    BY <1>1, <1>5, <2>1, AdjustFacts
  <2>3. balance' \in BalanceTables /\ Solvent(balance')
    BY <1>1, <1>5, <2>2 DEF AdjustedBy
  <2>4. supply' \in [Assets -> Nat] /\ supply'[s] = supply[s] + n /\ \A t \in Assets : t # s => supply'[t] = supply[t]
    BY <1>1, <1>5, <2>1
  <2>5. Held(balance', s) = Held(balance, s) + n /\ \A t \in Assets : t # s => Held(balance', t) = Held(balance, t)
    BY <2>2 DEF AdjustedBy
  <2>6. CoreBook(balance', contributions, VestedIn(vesting), gpo, unpaid)
    BY <1>0, <2>1, <2>5 DEF MoneyInv, CoreBook, MoneyNumbers
  <2>7. AssetBook(balance', sale, supply', foa, SpentOn(awards))
    <3>. SUFFICES ASSUME NEW t \in Assets \ {DEIP}
                  PROVE  Held(balance', t) + (IF t = Token THEN OnSale(sale) ELSE 0)
                             + (IF t = GrantAsset THEN Granted(foa) ELSE 0)
                           = supply'[t] + (IF t = GrantAsset THEN SpentOn(awards) ELSE 0)
      BY DEF AssetBook
    <3>1. Held(balance, t) + (IF t = Token THEN OnSale(sale) ELSE 0)
                             + (IF t = GrantAsset THEN Granted(foa) ELSE 0)
                           = supply[t] + (IF t = GrantAsset THEN SpentOn(awards) ELSE 0)
      BY DEF MoneyInv, AssetBook
    <3>2. /\ Held(balance, t) \in Int /\ supply[t] \in Int /\ OnSale(sale) \in Int /\ Granted(foa) \in Int
          /\ SpentOn(awards) \in Int
      BY <1>0 DEF MoneyNumbers
    <3>3. CASE t = s
      BY <1>5, <2>4, <2>5, <3>1, <3>2, <3>3
    <3>4. CASE t # s
      BY <2>4, <2>5, <3>1, <3>4
    <3>. QED
      BY <3>3, <3>4
  <2>. QED
    BY <1>2, <1>5, <2>3, <2>4, <2>6, <2>7 DEF MoneyInv
<1>6. ASSUME NEW a \in Accounts, NEW s \in IssuableAssets, NEW n \in Amounts,
             issue_asset(s, a, n) \/ reserve_asset(s, a, n)
      PROVE  MoneyInv'
  <2>1. n \in Nat /\ balance[a][s] \in Int /\ balance[a][s] >= 0 /\ s \in Assets
    BY <1>1, <1>3, BalancesAssumption DEF BalanceTables, Solvent
  <2>2. CASE issue_asset(s, a, n)
    <3>1. /\ balance' = adjust_account_balance(balance, a, s, n)
          /\ supply' = [supply EXCEPT ![s] = @ + n] /\ frozen' = frozen
      BY <2>2 DEF issue_asset
    <3>2. n \in Int /\ balance[a][s] + n >= 0 /\ supply[s] + n \in Nat
      BY <1>1, <2>1
    <3>. QED
      BY <1>5, <3>1, <3>2
  <2>3. CASE reserve_asset(s, a, n)
    <3>. DEFINE m == -n
    <3>1. /\ balance' = adjust_account_balance(balance, a, s, m) /\ balance[a][s] >= n
          /\ supply[s] - n \in 0 .. MaxSupply
          /\ supply' = [supply EXCEPT ![s] = @ - n] /\ frozen' = frozen
      BY <1>1, <2>1, <2>3 DEF reserve_asset, Covers, SupplyAdjusts
    <3>2. m \in Int /\ balance[a][s] + m >= 0
      BY <2>1, <3>1
    <3>3. supply[s] \in Int /\ supply[s] - n = supply[s] + m /\ supply[s] + m \in Nat
      BY <1>1, <2>1, <3>1, BalancesAssumption
    <3>4. supply' = [supply EXCEPT ![s] = @ + m]
      BY <3>1, <3>3
    <3>. HIDE DEF m
    <3>. QED
      BY <1>5, <3>1, <3>2, <3>3, <3>4
  <2>. QED
    BY <1>6, <2>2, <2>3
<1>. QED
  BY <1>4, <1>6 DEF BalancesOps

\* Every account earns some of one asset.
Earned(d, b, e, s) == d = [a \in Accounts |-> [b[a] EXCEPT ![s] = @ + e[a]]]

\* What the balances become.
LEMMA EarningsPaid ==
    ASSUME NEW b \in BalanceTables, NEW e \in [Accounts -> Nat], NEW s \in Assets, NEW d, Earned(d, b, e, s)
    PROVE  /\ d \in BalanceTables /\ Held(d, s) = Held(b, s) + SumFunction(e)
           /\ \A t \in Assets : t # s => Held(d, t) = Held(b, t)
           /\ \A a \in Accounts : d[a][s] = b[a][s] + e[a]
           /\ Solvent(b) => Solvent(d)
<1>. DEFINE f == [a \in Accounts |-> b[a][s]]
            h == [a \in Accounts |-> d[a][s]]
<1>0. d = [a \in Accounts |-> [b[a] EXCEPT ![s] = @ + e[a]]]
  BY DEF Earned
<1>1. IsFiniteSet(Accounts) /\ \A a \in Accounts : e[a] \in Nat /\ \A t \in Assets : b[a][t] \in Int
  BY BalancesAssumption DEF BalanceTables
<1>2. /\ \A a \in Accounts : d[a][s] = b[a][s] + e[a]
      /\ \A a \in Accounts : \A t \in Assets : t # s => d[a][t] = b[a][t]
  BY <1>0 DEF BalanceTables
<1>3. d \in BalanceTables
  <2>1. \A a \in Accounts : d[a] \in [Assets -> Int]
    <3>1. TAKE a \in Accounts
    <3>2. d[a] = [b[a] EXCEPT ![s] = b[a][s] + e[a]]
      BY <1>0
    <3>3. b[a][s] + e[a] \in Int /\ b[a] \in [Assets -> Int]
      BY <1>1 DEF BalanceTables
    <3>. QED
      BY <3>2, <3>3
  <2>2. d = [a \in Accounts |-> d[a]]
    BY <1>0
  <2>. QED
    BY <2>1, <2>2 DEF BalanceTables
<1>4. /\ f \in [Accounts -> Int] /\ h \in [Accounts -> Int] /\ e \in [Accounts -> Int]
      /\ \A a \in Accounts : h[a] = f[a] + e[a]
  BY <1>1, <1>2
<1>. HIDE DEF f, h
<1>5. SumFunction(h) = SumFunction(f) + SumFunction(e)
  BY <1>1, <1>4, SumPlus
<1>6. Held(d, s) = Held(b, s) + SumFunction(e)
  BY <1>5 DEF Held, f, h
<1>7. \A t \in Assets : t # s => Held(d, t) = Held(b, t)
  <2>1. TAKE t \in Assets
  <2>2. HAVE t # s
  <2>3. [a \in Accounts |-> d[a][t]] = [a \in Accounts |-> b[a][t]]
    BY <1>2, <2>2
  <2>. QED
    BY <2>3 DEF Held
<1>8. Solvent(b) => Solvent(d)
  <2>1. ASSUME Solvent(b), NEW a \in Accounts, NEW t \in Assets PROVE d[a][t] >= 0
    <3>1. CASE t = s
      BY <1>1, <1>2, <2>1, <3>1 DEF Solvent
    <3>2. CASE t # s
      BY <1>2, <2>1, <3>2 DEF Solvent
    <3>. QED
      BY <3>1, <3>2
  <2>. QED
    BY <2>1 DEF Solvent
<1>. QED
  BY <1>2, <1>3, <1>6, <1>7, <1>8

\* What a holder earns of a licence fee is a natural number.
LEMMA RevenueIsNat ==
    ASSUME NEW n \in Nat, NEW a \in Accounts, balance[a][Token] \in Nat, supply[Token] \in Nat, supply[Token] # 0
    PROVE  Revenue(n, a) \in Nat
<1>. DEFINE k == (n * HoldersShare) \div HundredPercent
<1>1. HoldersShare \in Nat /\ HundredPercent \in Nat /\ HundredPercent # 0
  BY LicensesAssumption, BalancesAssumption
<1>2. k \in Nat
  BY <1>1, ShareIsNat
<1>. HIDE DEF k
<1>3. (k * balance[a][Token]) \div supply[Token] \in Nat
  BY <1>2, ShareIsNat
<1>. QED
  BY <1>3 DEF Revenue, k

\* create_research_license: what the holders earn and what the group gets is
\* what the licensee pays.
LEMMA LicensesKeepMoney ==
    ASSUME MoneyInv, LicenseOps, UNCHANGED <<commonVars, vesting, awardVars>>
    PROVE  MoneyInv'
<1>1. balance \in BalanceTables /\ Solvent(balance) /\ supply \in [Assets -> Nat]
  BY DEF MoneyInv
<1>2. Group \in Accounts /\ Token \in Assets /\ \A n \in Amounts : n \in Nat
  BY TokenSaleAssumption, BalancesAssumption
<1>3. PICK x \in Accounts, s \in Assets, n \in Amounts : create_research_license(x, s, n)
  BY DEF LicenseOps
<1>. DEFINE e == [a \in Accounts |-> Revenue(n, a)]
            d == [a \in Accounts |-> [balance[a] EXCEPT ![s] = @ + Revenue(n, a)]]
            m == n - SumFunction(e)
            k == -n
            g == adjust_account_balance(d, Group, s, m)
            r == adjust_account_balance(g, x, s, k)
<1>4. /\ supply[Token] # 0 /\ balance[x][s] >= n /\ SumFunction(e) <= n /\ balance' = r
      /\ UNCHANGED <<frozen, supply, sale, contributions>>
  BY <1>3 DEF create_research_license, Covers, saleVars
<1>5. n \in Nat /\ n \in Int
  BY <1>2
<1>6. e \in [Accounts -> Nat]
  <2>1. ASSUME NEW a \in Accounts PROVE Revenue(n, a) \in Nat
    <3>1. balance[a][Token] \in Nat /\ supply[Token] \in Nat
      BY <1>1, <1>2 DEF BalanceTables, Solvent
    <3>. QED
      BY <1>4, <1>5, <3>1, RevenueIsNat
  <2>. QED
    BY <2>1
<1>7. Earned(d, balance, e, s)
  BY DEF Earned
<1>. HIDE DEF e, d
<1>8. /\ d \in BalanceTables /\ Held(d, s) = Held(balance, s) + SumFunction(e) /\ Solvent(d)
      /\ \A t \in Assets : t # s => Held(d, t) = Held(balance, t)
      /\ \A a \in Accounts : d[a][s] = balance[a][s] + e[a]
  BY <1>1, <1>6, <1>7, EarningsPaid
<1>9. SumFunction(e) \in Nat
  BY <1>6, BalancesAssumption, SumOfNats
<1>10. m \in Int /\ m >= 0 /\ k \in Int
  BY <1>4, <1>5, <1>9
<1>. HIDE DEF m
<1>11. AdjustedBy(d, g, Group, s, m)
  BY <1>2, <1>8, <1>10, AdjustFacts
<1>12. g \in BalanceTables
  BY <1>11 DEF AdjustedBy
<1>. HIDE DEF g
<1>13. AdjustedBy(g, r, x, s, k)
  BY <1>10, <1>12, AdjustFacts
<1>. HIDE DEF r
<1>14. Solvent(g)
  <2>1. d[Group][s] \in Int /\ d[Group][s] >= 0
    BY <1>2, <1>8 DEF BalanceTables, Solvent
  <2>2. d[Group][s] + m >= 0
    BY <1>10, <2>1
  <2>. QED
    BY <1>8, <1>11, <2>2 DEF AdjustedBy
<1>15. g[x][s] >= n
  <2>1. /\ balance[x][s] \in Int /\ e[x] \in Nat /\ d[x][s] = balance[x][s] + e[x]
    BY <1>1, <1>6, <1>8 DEF BalanceTables
  <2>2. d[x][s] >= n
    BY <1>4, <1>5, <2>1
  <2>3. CASE x = Group
    BY <1>5, <1>10, <1>11, <2>1, <2>2, <2>3 DEF AdjustedBy
  <2>4. CASE x # Group
    BY <1>11, <2>2, <2>4 DEF AdjustedBy
  <2>. QED
    BY <2>3, <2>4
<1>16. Solvent(r)
  <2>1. g[x][s] \in Int
    BY <1>12 DEF BalanceTables
  <2>2. g[x][s] + k >= 0
    BY <1>5, <1>15, <2>1
  <2>. QED
    BY <1>13, <1>14, <2>2 DEF AdjustedBy
<1>17. KeepsHeld(balance, r)
  <2>1. /\ Held(balance, s) \in Int /\ Held(g, s) = Held(d, s) + m /\ Held(r, s) = Held(g, s) + k
    BY <1>1, <1>11, <1>13, HeldIsNumber DEF AdjustedBy
  <2>2. Held(r, s) = Held(balance, s)
    BY <1>5, <1>8, <1>9, <2>1 DEF m
  <2>3. \A t \in Assets : t # s => Held(r, t) = Held(balance, t)
    BY <1>8, <1>11, <1>13 DEF AdjustedBy
  <2>. QED
    BY <2>2, <2>3 DEF KeepsHeld
<1>18. r \in BalanceTables
  BY <1>13 DEF AdjustedBy
<1>19. /\ CoreBook(balance', contributions, VestedIn(vesting), gpo, unpaid)
       /\ AssetBook(balance', sale, supply, foa, SpentOn(awards))
  BY <1>4, <1>17, <1>18, BooksKept
<1>20. UNCHANGED <<common, withdrawal, routes, gpo, unpaid, vesting, foa, awards>>
  BY DEF commonVars, awardVars
<1>. QED
  BY <1>4, <1>16, <1>18, <1>19, <1>20 DEF MoneyInv

\* Money that moves between the accounts and the sale leaves the books as
\* they are.
LEMMA SaleBooks ==
    ASSUME MoneyInv, VestingInv, AwardsInv, NEW b, NEW s, NEW cs, NEW f,
           SaleHolds(s, cs, f), SaleMoves(balance, sale, contributions, b, s, cs)
    PROVE  /\ CoreBook(b, cs, VestedIn(vesting), gpo, unpaid)
           /\ AssetBook(b, s, supply, foa, SpentOn(awards))
<1>0. MoneyNumbers
  BY MoneyIsNumbers
<1>1. /\ b \in BalanceTables /\ AllAmounts(cs) \in Int /\ OnSale(s) \in Int
      /\ \A t \in Assets : Held(b, t) \in Int
  <2>1. b \in BalanceTables /\ s \in SaleObject /\ cs \in Seq(ContributionObject)
    BY DEF SaleMoves, SaleHolds
  <2>2. OnSale(s) \in Int
    BY <2>1 DEF OnSale, SaleObject
  <2>3. AllAmounts(cs) \in Int /\ \A t \in Assets : Held(b, t) \in Int
    BY <2>1, AllAmountsIsNumber, HeldIsNumber
  <2>. QED
    BY <2>1, <2>2, <2>3
<1>2. CoreBook(b, cs, VestedIn(vesting), gpo, unpaid)
  <2>1. gpo.supply = Held(balance, DEIP) + AllAmounts(contributions) + VestedIn(vesting) + gpo.fund + unpaid
    BY DEF MoneyInv, CoreBook
  <2>2. Held(b, DEIP) + AllAmounts(cs) = Held(balance, DEIP) + AllAmounts(contributions)
    BY DEF SaleMoves
  <2>. QED
    BY <1>0, <1>1, <2>1, <2>2 DEF MoneyNumbers, CoreBook
<1>3. AssetBook(b, s, supply, foa, SpentOn(awards))
  <2>. SUFFICES ASSUME NEW t \in Assets \ {DEIP}
                PROVE  Held(b, t) + (IF t = Token THEN OnSale(s) ELSE 0)
                           + (IF t = GrantAsset THEN Granted(foa) ELSE 0)
                         = supply[t] + (IF t = GrantAsset THEN SpentOn(awards) ELSE 0)
    BY DEF AssetBook
  <2>1. Held(balance, t) + (IF t = Token THEN OnSale(sale) ELSE 0)
                           + (IF t = GrantAsset THEN Granted(foa) ELSE 0)
                         = supply[t] + (IF t = GrantAsset THEN SpentOn(awards) ELSE 0)
    BY DEF MoneyInv, AssetBook
  <2>2. /\ Held(balance, t) \in Int /\ supply[t] \in Int /\ OnSale(sale) \in Int /\ Granted(foa) \in Int
        /\ SpentOn(awards) \in Int /\ Held(b, t) \in Int
    BY <1>0, <1>1 DEF MoneyNumbers
  <2>3. /\ Held(b, Token) + OnSale(s) = Held(balance, Token) + OnSale(sale)
        /\ t # Token => Held(b, t) = Held(balance, t)
    BY DEF SaleMoves
  <2>4. CASE t = Token
    BY <1>1, <2>1, <2>2, <2>3, <2>4
  <2>5. CASE t # Token
    BY <2>1, <2>3, <2>5
  <2>. QED
    BY <2>4, <2>5
<1>. QED
  BY <1>2, <1>3

\* create_research_token_sale: the tokens are frozen.
LEMMA CreateSaleKeepsMoney ==
    ASSUME MoneyInv, VestingInv, AwardsInv, NEW t \in SaleTerms, create_research_token_sale(t)
    PROVE  /\ SaleHolds(sale', contributions', frozen')
           /\ SaleMoves(balance, sale, contributions, balance', sale', contributions')
           /\ Solvent(balance')
<1>. DEFINE n == t.on_sale
            m == -n
<1>1. /\ ~Open(sale) /\ balance[Group][Token] >= n /\ contributions' = contributions
      /\ balance' = adjust_account_balance(balance, Group, Token, m)
      /\ frozen' = [frozen EXCEPT ![Group] = @ + n]
      /\ sale' = [status |-> "inactive", on_sale |-> n, soft_cap |-> t.soft_cap, hard_cap |-> t.hard_cap,
                  start |-> now + t.start, end |-> now + t.end, total |-> 0]
  BY DEF create_research_token_sale, SaleIsOpen, Open, Covers, freeze_account_balance
<1>2. /\ n \in Nat /\ n > 0 /\ t.soft_cap \in Nat /\ t.hard_cap \in Nat /\ t.hard_cap > 0
      /\ t.start \in Nat /\ t.end \in Nat /\ Group \in Accounts /\ m \in Int
  BY TokenSaleAssumption
<1>3. DEIP \in Assets /\ Token \in Assets /\ DEIP # Token
  BY BalancesAssumption
<1>4. now + t.start \in Nat /\ now + t.end \in Nat
  BY <1>2 DEF VestingInv
<1>5. /\ contributions = <<>> /\ frozen \in [Accounts -> Int] /\ \A a \in Accounts : frozen[a] = 0
      /\ balance \in BalanceTables /\ Solvent(balance) /\ balance[Group][Token] \in Int
      /\ contributions \in Seq(ContributionObject) /\ OneRowEach(contributions)
  BY <1>1, <1>2, <1>3 DEF MoneyInv, SaleHolds, OnSale, BalanceTables
<1>6. /\ sale' \in SaleObject /\ sale'.on_sale = n /\ sale'.total = 0 /\ sale'.hard_cap = t.hard_cap
      /\ sale'.status = "inactive"
  <2>. HIDE DEF n
  <2>. QED
    BY <1>1, <1>2, <1>4 DEF SaleObject
<1>7. Open(sale') /\ OnSale(sale') = n /\ OnSale(sale) = 0
  BY <1>1, <1>6 DEF Open, OnSale
<1>8. AllAmounts(contributions) = 0
  BY <1>5, AllAmountsIsNumber
<1>9. /\ frozen' \in [Accounts -> Int]
      /\ \A a \in Accounts : frozen'[a] = IF a = Group THEN OnSale(sale') ELSE 0
  <2>. HIDE DEF n
  <2>. QED
    BY <1>1, <1>2, <1>5, <1>7
<1>10. SaleHolds(sale', contributions', frozen')
  BY <1>1, <1>2, <1>5, <1>6, <1>7, <1>8, <1>9 DEF SaleHolds
<1>. HIDE DEF m
<1>11. AdjustedBy(balance, balance', Group, Token, m)
  BY <1>1, <1>2, <1>3, <1>5, AdjustFacts
<1>12. balance[Group][Token] + m >= 0
  BY <1>1, <1>2, <1>5 DEF m
<1>13. Solvent(balance')
  BY <1>5, <1>11, <1>12 DEF AdjustedBy
<1>14. SaleMoves(balance, sale, contributions, balance', sale', contributions')
  <2>1. /\ balance' \in BalanceTables /\ Held(balance', Token) = Held(balance, Token) + m
        /\ \A x \in Assets : x # Token => Held(balance', x) = Held(balance, x)
    BY <1>11 DEF AdjustedBy
  <2>2. Held(balance, Token) \in Int
    BY <1>3, <1>5, HeldIsNumber
  <2>3. Held(balance', Token) + OnSale(sale') = Held(balance, Token) + OnSale(sale)
    BY <1>2, <1>7, <2>1, <2>2 DEF m
  <2>. QED
    BY <1>1, <1>3, <2>1, <2>3 DEF SaleMoves
<1>. QED
  BY <1>10, <1>13, <1>14

\* contribute_to_token_sale: the contributor pays, and the contribution that
\* reaches the hard cap settles the sale.
LEMMA ContributionKeepsMoney ==
    ASSUME MoneyInv, VestingInv, AwardsInv, NEW o \in Accounts, NEW amount \in Amounts,
           contribute_to_token_sale(o, amount)
    PROVE  /\ SaleHolds(sale', contributions', frozen')
           /\ SaleMoves(balance, sale, contributions, balance', sale', contributions')
           /\ Solvent(balance')
<1>. DEFINE reached == sale.total + amount >= sale.hard_cap
            paid == IF reached THEN sale.hard_cap - sale.total ELSE amount
            m    == -paid
            cs   == contribute(contributions, o, paid)
            b    == adjust_account_balance(balance, o, DEIP, m)
            s    == [sale EXCEPT !.total = @ + paid]
            end  == finish_research_token_sale(s, cs, b, frozen)
            last == [s EXCEPT !.status = "finished"]
<1>1. /\ sale.status = "active" /\ balance[o][DEIP] >= amount
      /\ \/ ~reached /\ balance' = b /\ sale' = s /\ contributions' = cs /\ frozen' = frozen
         \/ /\ reached /\ end.ok /\ balance' = end.b /\ frozen' = end.f
            /\ sale' = last /\ contributions' = <<>>
  BY DEF contribute_to_token_sale, Covers
<1>2. DEIP \in Assets /\ Token \in Assets /\ DEIP # Token /\ amount \in Nat /\ amount > 0
  BY BalancesAssumption
<1>3. /\ sale \in SaleObject /\ contributions \in Seq(ContributionObject) /\ OneRowEach(contributions)
      /\ frozen \in [Accounts -> Int] /\ Open(sale) /\ sale.total < sale.hard_cap
      /\ AllAmounts(contributions) = sale.total
      /\ \A a \in Accounts : frozen[a] = IF a = Group THEN OnSale(sale) ELSE 0
  BY <1>1 DEF MoneyInv, SaleHolds, Open
<1>4. sale.total \in Nat /\ sale.hard_cap \in Nat
  BY <1>3 DEF SaleObject
<1>5. paid \in Nat /\ paid > 0 /\ paid <= amount /\ m \in Int /\ sale.total + paid \in Nat
  BY <1>2, <1>3, <1>4
<1>6. ~reached => sale.total + paid < sale.hard_cap
  BY <1>2, <1>4
<1>. HIDE DEF paid, reached
<1>7. /\ cs \in Seq(ContributionObject) /\ OneRowEach(cs) /\ cs # <<>>
      /\ AllAmounts(cs) = sale.total + paid
  BY <1>3, <1>5, ContributeFacts
<1>8. /\ s \in SaleObject /\ s.total = sale.total + paid /\ s.hard_cap = sale.hard_cap
      /\ s.on_sale = sale.on_sale /\ s.status = sale.status
  BY <1>3, <1>5 DEF SaleObject
<1>9. Open(s) /\ OnSale(s) = OnSale(sale) /\ s.total > 0
  BY <1>3, <1>4, <1>5, <1>8 DEF Open, OnSale
<1>10. balance \in BalanceTables /\ Solvent(balance) /\ balance[o][DEIP] \in Int
  BY <1>2 DEF MoneyInv, BalanceTables
<1>11. balance[o][DEIP] + m >= 0
  BY <1>1, <1>2, <1>5, <1>10
<1>. HIDE DEF m, cs, s
<1>12. AdjustedBy(balance, b, o, DEIP, m)
  BY <1>2, <1>5, <1>10, AdjustFacts
<1>13. b \in BalanceTables /\ Solvent(b)
  BY <1>10, <1>11, <1>12 DEF AdjustedBy
<1>14. /\ Held(b, DEIP) = Held(balance, DEIP) + m
       /\ \A x \in Assets : x # DEIP => Held(b, x) = Held(balance, x)
  BY <1>12 DEF AdjustedBy
<1>15. Held(balance, DEIP) \in Int /\ Held(balance, Token) \in Int /\ OnSale(sale) \in Int
  BY <1>2, <1>3, <1>10, HeldIsNumber DEF OnSale, SaleObject
<1>. HIDE DEF b
<1>16. SaleMoves(balance, sale, contributions, b, s, cs)
  <2>1. Held(b, DEIP) + AllAmounts(cs) = Held(balance, DEIP) + AllAmounts(contributions)
    BY <1>3, <1>4, <1>5, <1>7, <1>14, <1>15 DEF m
  <2>. QED
    BY <1>2, <1>9, <1>13, <1>14, <2>1 DEF SaleMoves
<1>17. CASE ~reached /\ balance' = b /\ sale' = s /\ contributions' = cs /\ frozen' = frozen
  <2>1. SaleHolds(s, cs, frozen)
    BY <1>3, <1>6, <1>7, <1>8, <1>9, <1>17 DEF SaleHolds
  <2>. QED
    BY <1>13, <1>16, <1>17, <2>1
<1>18. CASE /\ reached /\ end.ok /\ balance' = end.b /\ frozen' = end.f
            /\ sale' = last /\ contributions' = <<>>
  <2>1. Settled(s, b, frozen, s.total, end)
    BY <1>7, <1>8, <1>9, <1>13, FinishFacts
  <2>. DEFINE st == "finished"
  <2>2. st \in {"expired", "finished"} /\ last = [s EXCEPT !.status = st]
    OBVIOUS
  <2>3. AllAmounts(cs) = s.total /\ \A a \in Accounts : frozen[a] = IF a = Group THEN OnSale(s) ELSE 0
    BY <1>3, <1>7, <1>8, <1>9
  <2>. HIDE DEF st, end, last
  <2>4. SaleHolds(last, <<>>, end.f) /\ SaleMoves(b, s, cs, end.b, last, <<>>)
    BY <1>3, <1>7, <1>8, <1>9, <1>13, <2>1, <2>2, <2>3, SettledIsOver
  <2>5. Solvent(end.b)
    BY <1>18, <2>1 DEF Settled
  <2>6. SaleMoves(balance, sale, contributions, end.b, last, <<>>)
    BY <1>16, <2>4 DEF SaleMoves
  <2>. QED
    BY <1>18, <2>4, <2>5, <2>6
<1>. QED
  BY <1>1, <1>17, <1>18

\* The operations on sales
LEMMA SaleKeepsMoney ==
    ASSUME MoneyInv, VestingInv, AwardsInv, SaleOps, UNCHANGED <<commonVars, vesting, awardVars>>
    PROVE  MoneyInv'
<1>1. /\ UNCHANGED <<common, withdrawal, routes, gpo, unpaid, vesting, foa, awards, supply>>
      /\ SaleHolds(sale', contributions', frozen')
      /\ SaleMoves(balance, sale, contributions, balance', sale', contributions')
      /\ Solvent(balance')
  <2>1. UNCHANGED <<common, withdrawal, routes, gpo, unpaid, vesting, foa, awards>>
    BY SMTT(30) DEF commonVars, awardVars
  <2>2. supply' = supply
    BY DEF SaleOps, create_research_token_sale, contribute_to_token_sale
  <2>. QED
    BY <2>1, <2>2, CreateSaleKeepsMoney, ContributionKeepsMoney DEF SaleOps
<1>2. /\ CoreBook(balance', contributions', VestedIn(vesting), gpo, unpaid)
      /\ AssetBook(balance', sale', supply, foa, SpentOn(awards))
  BY <1>1, SaleBooks
<1>3. balance' \in BalanceTables
  BY <1>1 DEF SaleMoves
<1>. QED
  BY <1>1, <1>2, <1>3 DEF MoneyInv

\* Core assets that leave the accounts for another place of the books.
LEMMA CoreMoves ==
    ASSUME MoneyInv, VestingInv, AwardsInv, NEW b, NEW o, NEW m \in Int,
           AdjustedBy(balance, b, o, DEIP, m), NEW v \in Int, NEW g \in GpoObject, NEW u \in Int,
           g.supply + VestedIn(vesting) + gpo.fund + unpaid = gpo.supply + m + v + g.fund + u
    PROVE  /\ CoreBook(b, contributions, v, g, u)
           /\ AssetBook(b, sale, supply, foa, SpentOn(awards))
<1>0. MoneyNumbers
  BY MoneyIsNumbers
<1>1. /\ Held(b, DEIP) = Held(balance, DEIP) + m
      /\ \A t \in Assets : t # DEIP => Held(b, t) = Held(balance, t)
  BY DEF AdjustedBy
<1>2. CoreBook(b, contributions, v, g, u)
  <2>. DEFINE h == Held(balance, DEIP)
              k == Held(b, DEIP)
              c == AllAmounts(contributions)
              w == VestedIn(vesting)
              f == gpo.fund
              s == gpo.supply
              x == g.supply
              y == g.fund
  <2>1. s = h + c + w + f + unpaid
    BY DEF MoneyInv, CoreBook
  <2>2. x \in Int /\ y \in Int
    BY DEF GpoObject
  <2>3. h \in Int /\ c \in Int /\ w \in Int /\ f \in Int /\ s \in Int /\ unpaid \in Int
    BY <1>0 DEF MoneyNumbers
  <2>4. k = h + m
    BY <1>1
  <2>5. x + w + f + unpaid = s + m + v + y + u
    OBVIOUS
  <2>. HIDE DEF h, k, c, w, f, s, x, y
  <2>6. x = k + c + v + y + u
    BY <2>1, <2>2, <2>3, <2>4, <2>5
  <2>. QED
    BY <2>6 DEF CoreBook, h, k, c, w, f, s, x, y
<1>3. AssetBook(b, sale, supply, foa, SpentOn(awards))
  BY <1>1 DEF MoneyInv, AssetBook
<1>. QED
  BY <1>2, <1>3

\* transfer_to_common_tokens: the account pays into the fund.
LEMMA DepositKeepsMoney ==
    ASSUME MoneyInv, VestingInv, AwardsInv, NEW from \in Accounts, NEW to \in Accounts, NEW n \in Amounts,
           transfer_to_common_tokens(from, to, n), UNCHANGED <<saleVars, vesting, awardVars>>
    PROVE  MoneyInv'
<1>. DEFINE m == -n
<1>0. MoneyNumbers
  BY MoneyIsNumbers
<1>1. /\ balance' = adjust_account_balance(balance, from, DEIP, m) /\ balance[from][DEIP] >= n
      /\ common' = [common EXCEPT ![to] = @ + n] /\ gpo' = GpoIncreased(gpo, n)
      /\ UNCHANGED <<frozen, supply, withdrawal, routes, unpaid>>
  BY DEF transfer_to_common_tokens, Covers, increase_common_tokens
<1>2. UNCHANGED <<sale, contributions, vesting, foa, awards>>
  BY DEF saleVars, awardVars
<1>3. balance \in BalanceTables /\ Solvent(balance) /\ CommonHolds(common, withdrawal, gpo)
  BY DEF MoneyInv
<1>4. DEIP \in Assets /\ n \in Nat /\ m \in Int
  BY BalancesAssumption
<1>5. balance[from][DEIP] \in Int
  BY <1>3, <1>4 DEF BalanceTables
<1>6. balance[from][DEIP] + m >= 0
  BY <1>1, <1>4, <1>5
<1>7. CommonHolds(common', withdrawal, gpo') /\ gpo'.supply = gpo.supply /\ gpo'.fund = gpo.fund + n
  <2>1. CommonHolds(common, withdrawal, gpo) /\ n \in Nat
    BY <1>3, <1>4
  <2>2. /\ CommonHolds([common EXCEPT ![to] = @ + n], withdrawal, GpoIncreased(gpo, n))
        /\ GpoIncreased(gpo, n).supply = gpo.supply /\ GpoIncreased(gpo, n).fund = gpo.fund + n
    BY <2>1, StakeGrows
  <2>. QED
    BY <1>1, <2>2, Zenon
<1>. HIDE DEF m
<1>8. AdjustedBy(balance, balance', from, DEIP, m)
  BY <1>1, <1>3, <1>4, AdjustFacts
<1>9. balance' \in BalanceTables /\ Solvent(balance')
  BY <1>3, <1>6, <1>8 DEF AdjustedBy
<1>10. gpo' \in GpoObject /\ gpo'.fund \in Int /\ gpo'.supply \in Int
  BY <1>7 DEF CommonHolds, GpoObject
<1>11. /\ CoreBook(balance', contributions, VestedIn(vesting), gpo', unpaid)
       /\ AssetBook(balance', sale, supply, foa, SpentOn(awards))
  <2>1. gpo'.supply + VestedIn(vesting) + gpo.fund + unpaid = gpo.supply + m + VestedIn(vesting) + gpo'.fund + unpaid
    BY <1>0, <1>4, <1>7 DEF MoneyNumbers, m
  <2>2. VestedIn(vesting) \in Int /\ unpaid \in Int
    BY <1>0 DEF MoneyNumbers
  <2>. QED
    BY <1>4, <1>8, <1>10, <2>1, <2>2, CoreMoves
<1>. QED
  BY <1>1, <1>2, <1>7, <1>9, <1>11 DEF MoneyInv

\* withdraw_common_tokens: a withdrawal that is under way has a rate.
LEMMA WithdrawalKeepsMoney ==
    ASSUME MoneyInv, VestingInv, NEW a \in Accounts, NEW n \in Amounts \cup {0},
           withdraw_common_tokens(a, n), UNCHANGED <<saleVars, vesting, awardVars>>
    PROVE  MoneyInv'
<1>. DEFINE q    == n \div WithdrawIntervals
            rate == Max({q, 1})
            next == now + WithdrawInterval
            stop == [rate |-> 0, next |-> Never, to_withdraw |-> 0, withdrawn |-> 0]
            go   == [rate |-> rate, next |-> next, to_withdraw |-> n, withdrawn |-> 0]
<1>1. /\ withdrawal' = [withdrawal EXCEPT ![a] = stop] \/ withdrawal' = [withdrawal EXCEPT ![a] = go]
      /\ UNCHANGED <<balance, frozen, supply, common, routes, gpo, unpaid>>
  BY DEF withdraw_common_tokens, update_withdraw, balanceVars
<1>2. UNCHANGED <<sale, contributions, vesting, foa, awards>>
  BY DEF saleVars, awardVars
<1>3. n \in Nat /\ WithdrawIntervals \in Nat /\ WithdrawIntervals > 0 /\ WithdrawInterval \in Nat
  BY BalancesAssumption, CommonTokensAssumption
<1>4. q \in Int /\ now \in Nat
  BY <1>3, Division DEF VestingInv
<1>5. next \in Int
  BY <1>3, <1>4
<1>. HIDE DEF q, next
<1>6. rate \in Nat /\ rate > 0
  BY <1>4, MaxOfTwo
<1>. HIDE DEF rate
<1>7. stop \in WithdrawalObject /\ go \in WithdrawalObject
  BY <1>3, <1>5, <1>6 DEF WithdrawalObject, Never
<1>. HIDE DEF stop, go
<1>8. withdrawal' \in [Accounts -> WithdrawalObject]
  BY <1>1, <1>7 DEF MoneyInv, CommonHolds
<1>9. CommonHolds(common, withdrawal', gpo)
  BY <1>8 DEF MoneyInv, CommonHolds
<1>. QED
  BY <1>1, <1>2, <1>9 DEF MoneyInv

\* set_withdraw_common_tokens_route
LEMMA RouteKeepsMoney ==
    ASSUME MoneyInv, NEW from \in Accounts, NEW to \in Accounts, NEW p \in Percents, NEW auto \in BOOLEAN,
           set_withdraw_common_tokens_route(from, to, p, auto), UNCHANGED <<saleVars, vesting, awardVars>>
    PROVE  MoneyInv'
<1>. DEFINE route == IF p = 0 THEN NoRoute ELSE [percent |-> p, auto |-> auto]
<1>1. /\ routes' = [routes EXCEPT ![from] = [routes[from] EXCEPT ![to] = route]]
      /\ UNCHANGED <<balance, frozen, supply, common, withdrawal, gpo, unpaid>>
  BY DEF set_withdraw_common_tokens_route, balanceVars, MoneyInv, RouteTables
<1>2. UNCHANGED <<sale, contributions, vesting, foa, awards>>
  BY DEF saleVars, awardVars
<1>3. p \in Nat
  BY BalancesAssumption, CommonTokensAssumption
<1>4. route \in [percent : Nat, auto : BOOLEAN]
  BY <1>3 DEF NoRoute
<1>. HIDE DEF route
<1>5. routes' \in RouteTables
  BY <1>1, <1>4 DEF MoneyInv, RouteTables
<1>. QED
  BY <1>1, <1>2, <1>5 DEF MoneyInv

\* The operations on common tokens
LEMMA CommonKeepsMoney ==
    ASSUME MoneyInv, VestingInv, AwardsInv, CommonOps, UNCHANGED <<saleVars, vesting, awardVars>>
    PROVE  MoneyInv'
BY DepositKeepsMoney, WithdrawalKeepsMoney, RouteKeepsMoney DEF CommonOps

\* create_vesting_balance: the creator pays into a new contract.
LEMMA CreateVestingKeepsMoney ==
    ASSUME MoneyInv, VestingInv, AwardsInv, NEW c \in Accounts, NEW o \in Accounts, NEW n \in Amounts,
           NEW t \in VestingTerms, create_vesting_balance(c, o, n, t),
           UNCHANGED <<saleVars, commonVars, awardVars>>
    PROVE  MoneyInv'
<1>. DEFINE m == -n
            v == [owner |-> o, balance |-> n, withdrawn |-> 0, start |-> now, duration |-> t.duration,
                  period |-> t.period, cliff |-> t.cliff]
            D == 1 .. Len(vesting)
            x == Len(vesting) + 1
            k == [i \in D \cup {x} |-> vesting'[i].balance]
<1>0. MoneyNumbers
  BY MoneyIsNumbers
<1>1. /\ balance' = adjust_account_balance(balance, c, DEIP, m) /\ balance[c][DEIP] >= n
      /\ vesting' = Append(vesting, v) /\ UNCHANGED <<frozen, supply>>
  BY DEF create_vesting_balance, Covers
<1>2. UNCHANGED <<sale, contributions, common, withdrawal, routes, gpo, unpaid, foa, awards>>
  BY DEF saleVars, commonVars, awardVars
<1>3. balance \in BalanceTables /\ Solvent(balance)
  BY DEF MoneyInv
<1>4. DEIP \in Assets /\ n \in Nat /\ m \in Int
  BY BalancesAssumption
<1>5. balance[c][DEIP] \in Int
  BY <1>3, <1>4 DEF BalanceTables
<1>6. balance[c][DEIP] + m >= 0
  BY <1>1, <1>4, <1>5
<1>7. v.balance = n
  OBVIOUS
<1>. HIDE DEF m, v
<1>8. /\ vesting \in Seq(Contract) /\ Len(vesting) \in Nat /\ DOMAIN vesting = D
      /\ DOMAIN vesting' = D \cup {x} /\ vesting'[x] = v /\ \A i \in D : vesting'[i] = vesting[i]
  BY <1>1 DEF VestingInv
<1>9. IsFiniteSet(D) /\ x \notin D
  BY <1>8, FS_Interval
<1>10. \A i \in D : vesting[i].balance \in Int
  <2>1. \A i \in D : vesting[i] \in Contract
    BY <1>8
  <2>. QED
    BY <2>1 DEF Contract
<1>11. VestedIn(vesting') = VestedIn(vesting) + n
  <2>1. IntegersOn(k, D \cup {x})
    BY <1>4, <1>7, <1>8, <1>9, <1>10 DEF IntegersOn
  <2>2. k[x] = n
    BY <1>7, <1>8
  <2>3. VestedIn(vesting') = SumFunction([i \in D \cup {x} |-> k[i]])
    BY <1>8 DEF VestedIn
  <2>4. [i \in DOMAIN vesting |-> vesting[i].balance] = [i \in D |-> k[i]]
    BY <1>8, <1>9
  <2>5. VestedIn(vesting) = SumFunction([i \in D |-> k[i]])
    BY <2>4 DEF VestedIn
  <2>. HIDE DEF k, D, x
  <2>6. SumFunction([i \in D \cup {x} |-> k[i]]) = SumFunction([i \in D |-> k[i]]) + k[x]
    BY <1>9, <2>1, SumExtend
  <2>. QED
    BY <2>2, <2>3, <2>5, <2>6
<1>12. AdjustedBy(balance, balance', c, DEIP, m)
  BY <1>1, <1>3, <1>4, AdjustFacts
<1>13. balance' \in BalanceTables /\ Solvent(balance')
  BY <1>3, <1>6, <1>12 DEF AdjustedBy
<1>14. /\ CoreBook(balance', contributions, VestedIn(vesting'), gpo, unpaid)
       /\ AssetBook(balance', sale, supply, foa, SpentOn(awards))
  <2>. DEFINE w == VestedIn(vesting')
  <2>1. VestedIn(vesting) \in Int /\ gpo.supply \in Int /\ gpo.fund \in Int /\ unpaid \in Int
    BY <1>0 DEF MoneyNumbers
  <2>2. w \in Int /\ w = VestedIn(vesting) + n
    BY <1>4, <1>11, <2>1
  <2>3. gpo \in GpoObject
    BY DEF MoneyInv, CommonHolds
  <2>. HIDE DEF w
  <2>4. gpo.supply + VestedIn(vesting) + gpo.fund + unpaid = gpo.supply + m + w + gpo.fund + unpaid
    BY <1>4, <2>1, <2>2 DEF m
  <2>5. CoreBook(balance', contributions, w, gpo, unpaid) /\ AssetBook(balance', sale, supply, foa, SpentOn(awards))
    BY <1>4, <1>12, <2>1, <2>2, <2>3, <2>4, CoreMoves
  <2>. QED
    BY <2>5 DEF w
<1>. QED
  BY <1>1, <1>2, <1>13, <1>14 DEF MoneyInv

\* withdraw_vesting_balance: the contract pays its owner.
LEMMA WithdrawVestingKeepsMoney ==
    ASSUME MoneyInv, VestingInv, AwardsInv, NEW j \in DOMAIN vesting, NEW n \in Amounts,
           withdraw_vesting_balance(j, n), UNCHANGED <<saleVars, commonVars, awardVars>>
    PROVE  MoneyInv'
<1>. DEFINE o == vesting[j].owner
            D == 1 .. Len(vesting)
            f == [i \in D |-> vesting[i].balance]
            h == [i \in D |-> vesting'[i].balance]
<1>0. MoneyNumbers
  BY MoneyIsNumbers
<1>1. /\ balance' = adjust_account_balance(balance, o, DEIP, n)
      /\ vesting' = [vesting EXCEPT ![j] = [vesting[j] EXCEPT !.balance = vesting[j].balance - n,
                                                             !.withdrawn = vesting[j].withdrawn + n]]
      /\ UNCHANGED <<frozen, supply>>
  BY DEF withdraw_vesting_balance, VestingInv
<1>2. UNCHANGED <<sale, contributions, common, withdrawal, routes, gpo, unpaid, foa, awards>>
  BY DEF saleVars, commonVars, awardVars
<1>3. balance \in BalanceTables /\ Solvent(balance)
  BY DEF MoneyInv
<1>4. DEIP \in Assets /\ n \in Nat /\ n \in Int
  BY BalancesAssumption
<1>5. /\ vesting \in Seq(Contract) /\ DOMAIN vesting = D /\ j \in D
      /\ \A i \in D : vesting[i] \in Contract
  BY DEF VestingInv
<1>6. o \in Accounts /\ \A i \in D : vesting[i].balance \in Int
  <2>1. vesting[j] \in Contract
    BY <1>5
  <2>2. o \in Accounts
    BY <2>1 DEF Contract
  <2>3. ASSUME NEW i \in D PROVE vesting[i].balance \in Int
    <3>1. vesting[i] \in Contract
      BY <1>5, <2>3
    <3>. QED
      BY <3>1 DEF Contract
  <2>. QED
    BY <2>2, <2>3
<1>7. balance[o][DEIP] \in Int /\ balance[o][DEIP] >= 0
  BY <1>3, <1>4, <1>6 DEF BalanceTables, Solvent
<1>8. balance[o][DEIP] + n >= 0
  BY <1>4, <1>7
<1>9. /\ DOMAIN vesting' = D /\ vesting'[j].balance = vesting[j].balance - n
      /\ \A i \in D : i # j => vesting'[i] = vesting[i]
  <2>1. vesting[j] \in Contract
    BY <1>5
  <2>. DEFINE z == [vesting[j] EXCEPT !.balance = vesting[j].balance - n,
                                      !.withdrawn = vesting[j].withdrawn + n]
  <2>2. z.balance = vesting[j].balance - n
    BY <2>1 DEF Contract
  <2>. HIDE DEF z
  <2>3. vesting' = [vesting EXCEPT ![j] = z]
    BY <1>1 DEF z
  <2>. QED
    BY <1>5, <2>2, <2>3
<1>10. VestedIn(vesting') = VestedIn(vesting) - n
  <2>1. /\ f \in [D -> Int] /\ h \in [D -> Int] /\ h[j] = f[j] - n /\ f[j] \in Int
        /\ \A i \in D : i # j => h[i] = f[i]
    BY <1>4, <1>5, <1>6, <1>9
  <2>2. VestedIn(vesting) = SumFunction(f) /\ VestedIn(vesting') = SumFunction(h)
    BY <1>5, <1>9 DEF VestedIn
  <2>3. IsFiniteSet(D) /\ j \in D
    BY <1>5, FS_Interval
  <2>. HIDE DEF D, f, h
  <2>4. SumFunction(h) = SumFunction(f) + h[j] - f[j] /\ SumFunction(f) \in Int
    BY <2>1, <2>3, SumChange, SumIsNumber
  <2>. QED
    BY <1>4, <2>1, <2>2, <2>4
<1>. HIDE DEF o
<1>12. AdjustedBy(balance, balance', o, DEIP, n)
  BY <1>1, <1>3, <1>4, <1>6, AdjustFacts
<1>13. balance' \in BalanceTables /\ Solvent(balance')
  BY <1>3, <1>8, <1>12 DEF AdjustedBy
<1>14. /\ CoreBook(balance', contributions, VestedIn(vesting'), gpo, unpaid)
       /\ AssetBook(balance', sale, supply, foa, SpentOn(awards))
  <2>. DEFINE w == VestedIn(vesting')
  <2>1. VestedIn(vesting) \in Int /\ gpo.supply \in Int /\ gpo.fund \in Int /\ unpaid \in Int
    BY <1>0 DEF MoneyNumbers
  <2>2. w \in Int /\ w = VestedIn(vesting) - n
    BY <1>4, <1>10, <2>1
  <2>3. gpo \in GpoObject
    BY DEF MoneyInv, CommonHolds
  <2>. HIDE DEF w
  <2>4. gpo.supply + VestedIn(vesting) + gpo.fund + unpaid = gpo.supply + n + w + gpo.fund + unpaid
    BY <1>4, <2>1, <2>2
  <2>5. CoreBook(balance', contributions, w, gpo, unpaid) /\ AssetBook(balance', sale, supply, foa, SpentOn(awards))
    BY <1>4, <1>12, <2>1, <2>2, <2>3, <2>4, CoreMoves
  <2>. QED
    BY <2>5 DEF w
<1>. QED
  BY <1>1, <1>2, <1>13, <1>14 DEF MoneyInv

\* The operations on vesting contracts
LEMMA VestingKeepsMoney ==
    ASSUME MoneyInv, VestingInv, AwardsInv, VestingOps, UNCHANGED <<saleVars, commonVars, awardVars>>
    PROVE  MoneyInv'
BY CreateVestingKeepsMoney, WithdrawVestingKeepsMoney DEF VestingOps

\* The books after the grant, the awards' expenses or the supply of the grant's
\* asset changed.
LEMMA GrantBooks ==
    ASSUME MoneyInv, VestingInv, AwardsInv, NEW b, NEW su, NEW x, NEW n,
           \A t \in Assets : t # GrantAsset => Held(b, t) = Held(balance, t) /\ su[t] = supply[t],
           Held(b, GrantAsset) \in Int, Granted(x) \in Int, su[GrantAsset] \in Int, n \in Int,
           Held(b, GrantAsset) + Granted(x) + supply[GrantAsset] + SpentOn(awards)
               = Held(balance, GrantAsset) + Granted(foa) + su[GrantAsset] + n
    PROVE  /\ CoreBook(b, contributions, VestedIn(vesting), gpo, unpaid)
           /\ AssetBook(b, sale, su, x, n)
<1>0. MoneyNumbers
  BY MoneyIsNumbers
<1>1. CoreBook(b, contributions, VestedIn(vesting), gpo, unpaid)
  <2>1. Held(b, DEIP) = Held(balance, DEIP)
    BY <1>0 DEF MoneyNumbers
  <2>. QED
    BY <2>1 DEF MoneyInv, CoreBook
<1>2. AssetBook(b, sale, su, x, n)
  <2>. SUFFICES ASSUME NEW t \in Assets \ {DEIP}
                PROVE  Held(b, t) + (IF t = Token THEN OnSale(sale) ELSE 0)
                           + (IF t = GrantAsset THEN Granted(x) ELSE 0)
                         = su[t] + (IF t = GrantAsset THEN n ELSE 0)
    BY DEF AssetBook
  <2>. DEFINE y == IF t = Token THEN OnSale(sale) ELSE 0
  <2>1. Held(balance, t) + y + (IF t = GrantAsset THEN Granted(foa) ELSE 0)
            = supply[t] + (IF t = GrantAsset THEN SpentOn(awards) ELSE 0)
    BY DEF MoneyInv, AssetBook
  <2>2. y \in Int
    BY <1>0 DEF MoneyNumbers
  <2>. HIDE DEF y
  <2>3. CASE t = GrantAsset
    <3>. DEFINE h == Held(b, GrantAsset)
                k == Held(balance, GrantAsset)
                g == Granted(x)
                d == Granted(foa)
                s == su[GrantAsset]
                z == supply[GrantAsset]
                p == SpentOn(awards)
    <3>1. k + y + d = z + p
      BY <2>1, <2>3
    <3>2. k \in Int /\ d \in Int /\ z \in Int /\ p \in Int
      BY <1>0 DEF MoneyNumbers
    <3>3. h \in Int /\ g \in Int /\ s \in Int /\ h + g + z + p = k + d + s + n
      OBVIOUS
    <3>. HIDE DEF h, k, g, d, s, z, p
    <3>4. h + y + g = s + n
      BY <2>2, <3>1, <3>2, <3>3
    <3>. QED
      BY <2>3, <3>4 DEF h, k, g, d, s, z, p, y
  <2>4. CASE t # GrantAsset
    <3>1. Held(b, t) = Held(balance, t) /\ su[t] = supply[t]
      BY <2>4
    <3>. QED
      BY <2>1, <2>4, <3>1 DEF y
  <2>. QED
    BY <2>3, <2>4
<1>. QED
  BY <1>1, <1>2

\* create_funding_opportunity: the grantor pays into the grant.
LEMMA CreateGrantKeepsMoney ==
    ASSUME MoneyInv, VestingInv, AwardsInv, NEW a \in Accounts, NEW n \in Amounts, create_grant(a, n),
           UNCHANGED <<saleVars, commonVars, vesting>>
    PROVE  MoneyInv'
<1>. DEFINE m == -n
<1>0. MoneyNumbers
  BY MoneyIsNumbers
<1>1. /\ balance' = adjust_account_balance(balance, a, GrantAsset, m) /\ balance[a][GrantAsset] >= n
      /\ foa = NoEntry /\ foa' = n /\ UNCHANGED <<frozen, supply, awards>>
  BY DEF create_grant, Covers
<1>2. UNCHANGED <<sale, contributions, common, withdrawal, routes, gpo, unpaid, vesting>>
  BY DEF saleVars, commonVars
<1>3. balance \in BalanceTables /\ Solvent(balance) /\ GrantAsset \in Assets
  BY <1>0 DEF MoneyInv, MoneyNumbers
<1>4. n \in Nat /\ m \in Int
  BY BalancesAssumption
<1>5. balance[a][GrantAsset] \in Int
  BY <1>3 DEF BalanceTables
<1>6. balance[a][GrantAsset] + m >= 0
  BY <1>1, <1>4, <1>5
<1>7. Granted(foa) = 0 /\ Granted(n) = n
  BY <1>1, <1>4 DEF Granted, NoEntry
<1>. HIDE DEF m
<1>8. AdjustedBy(balance, balance', a, GrantAsset, m)
  BY <1>1, <1>3, <1>4, AdjustFacts
<1>9. balance' \in BalanceTables /\ Solvent(balance')
  BY <1>3, <1>6, <1>8 DEF AdjustedBy
<1>10. /\ Held(balance', GrantAsset) = Held(balance, GrantAsset) + m
       /\ \A t \in Assets : t # GrantAsset => Held(balance', t) = Held(balance, t)
  BY <1>8 DEF AdjustedBy
<1>11. /\ Held(balance, GrantAsset) \in Int /\ Held(balance', GrantAsset) \in Int
       /\ supply[GrantAsset] \in Int /\ SpentOn(awards) \in Int
  BY <1>0, <1>3, <1>9, HeldIsNumber DEF MoneyNumbers
<1>12. Held(balance', GrantAsset) + Granted(n) + supply[GrantAsset] + SpentOn(awards)
               = Held(balance, GrantAsset) + Granted(foa) + supply[GrantAsset] + SpentOn(awards)
  BY <1>4, <1>7, <1>10, <1>11 DEF m
<1>13. /\ CoreBook(balance', contributions, VestedIn(vesting), gpo, unpaid)
       /\ AssetBook(balance', sale, supply, n, SpentOn(awards))
  <2>1. \A t \in Assets : t # GrantAsset => Held(balance', t) = Held(balance, t) /\ supply[t] = supply[t]
    BY <1>10
  <2>2. Granted(n) \in Int
    BY <1>4, <1>7
  <2>. QED
    BY <1>11, <1>12, <2>1, <2>2, GrantBooks
<1>. QED
  BY <1>1, <1>2, <1>4, <1>9, <1>13 DEF MoneyInv

\* create_award: of a new award nothing was spent.
LEMMA CreateAwardKeepsMoney ==
    ASSUME MoneyInv, AwardsInv, NEW t \in AwardTerms, create_award(t),
           UNCHANGED <<saleVars, commonVars, vesting>>
    PROVE  MoneyInv'
<1>. DEFINE e == [who \in Recipients(t) |-> 0]
            a == [terms |-> t, status |-> "pending", expenses |-> e]
            D == 1 .. Len(awards)
            x == Len(awards) + 1
            k == [i \in D \cup {x} |-> SumFunction(awards'[i].expenses)]
<1>1. /\ validate_awardees(t) /\ awards' = Append(awards, a)
      /\ UNCHANGED <<balance, frozen, supply, foa>>
  BY DEF create_award, balanceVars
<1>2. UNCHANGED <<sale, contributions, common, withdrawal, routes, gpo, unpaid, vesting>>
  BY DEF saleVars, commonVars
<1>3. a.expenses = e /\ a.terms = t
  OBVIOUS
<1>4. SumFunction(e) = 0
  <2>1. IsFiniteSet(Recipients(t))
    BY RecipientsAreAccounts, BalancesAssumption, FS_Subset
  <2>2. e \in [Recipients(t) -> Int] /\ \A who \in Recipients(t) : e[who] = 0
    OBVIOUS
  <2>. HIDE DEF e
  <2>. QED
    BY <2>1, <2>2, SumOfZeros
<1>. HIDE DEF a
<1>5. /\ awards \in Seq(AwardObject) /\ Len(awards) \in Nat /\ DOMAIN awards = D
      /\ DOMAIN awards' = D \cup {x} /\ awards'[x] = a /\ \A i \in D : awards'[i] = awards[i]
      /\ Len(awards') = x
  BY <1>1 DEF AwardsInv
<1>6. IsFiniteSet(D) /\ x \notin D /\ 1 .. Len(awards') = D \cup {x}
  BY <1>5, FS_Interval
<1>7. \A i \in D : SumFunction(awards[i].expenses) \in Int
  BY <1>5, SpentIsNumber
<1>8. SpentOn(awards') = SpentOn(awards)
  <2>1. k[x] = 0
    BY <1>3, <1>4, <1>5
  <2>2. \A i \in D : k[i] = SumFunction(awards[i].expenses)
    BY <1>5
  <2>3. SpentOn(awards') = SumFunction([i \in D \cup {x} |-> k[i]])
    BY <1>5 DEF SpentOn
  <2>4. SpentOn(awards) = SumFunction([i \in D |-> SumFunction(awards[i].expenses)])
    BY <1>5 DEF SpentOn
  <2>5. SpentOn(awards) \in Int
    BY <1>5, SpentIsNumber
  <2>. HIDE DEF k, D, x
  <2>6. IntegersOn(k, D \cup {x})
    BY <1>7, <2>1, <2>2 DEF IntegersOn
  <2>7. [i \in D |-> SumFunction(awards[i].expenses)] = [i \in D |-> k[i]]
    BY <2>2
  <2>8. SumFunction([i \in D \cup {x} |-> k[i]]) = SumFunction([i \in D |-> k[i]]) + k[x]
    BY <1>6, <2>6, SumExtend
  <2>. QED
    BY <2>1, <2>3, <2>4, <2>5, <2>7, <2>8
<1>9. \A i \in 1 .. Len(awards') : validate_awardees(awards'[i].terms)
  BY <1>1, <1>3, <1>5, <1>6 DEF MoneyInv
<1>. QED
  BY <1>1, <1>2, <1>8, <1>9 DEF MoneyInv

\* A status of an award that changes says nothing of money.
LEMMA StatusKeepsSpent ==
    ASSUME AwardsInv, NEW i \in DOMAIN awards, NEW st, awards' = [awards EXCEPT ![i].status = st]
    PROVE  /\ SpentOn(awards') = SpentOn(awards) /\ Len(awards') = Len(awards)
           /\ \A j \in 1 .. Len(awards) : awards'[j].terms = awards[j].terms
<1>1. awards \in Seq(AwardObject) /\ i \in 1 .. Len(awards) /\ DOMAIN awards = 1 .. Len(awards)
  BY DEF AwardsInv
<1>2. awards' = [awards EXCEPT ![i] = [awards[i] EXCEPT !.status = st]]
  OBVIOUS
<1>3. DOMAIN awards' = DOMAIN awards /\ Len(awards') = Len(awards)
  BY <1>1, <1>2
<1>4. \A j \in 1 .. Len(awards) : /\ awards'[j].terms = awards[j].terms
                                  /\ awards'[j].expenses = awards[j].expenses
  BY <1>1, <1>2 DEF AwardObject
<1>5. [j \in DOMAIN awards |-> SumFunction(awards[j].expenses)]
         = [j \in DOMAIN awards' |-> SumFunction(awards'[j].expenses)]
  BY <1>1, <1>3, <1>4
<1>. QED
  BY <1>3, <1>4, <1>5 DEF SpentOn

\* approve_award: the grant pays the amount of the award.
LEMMA ApproveKeepsMoney ==
    ASSUME MoneyInv, VestingInv, AwardsInv, NEW i \in DOMAIN awards, approve_award(i),
           UNCHANGED <<saleVars, commonVars, vesting>>
    PROVE  MoneyInv'
<1>. DEFINE t == awards[i].terms
            n == t.amount
            x == foa - n
            st == "approved"
<1>0. MoneyNumbers
  BY MoneyIsNumbers
<1>1. /\ Awarded(t).ok /\ foa - t.amount > 0 /\ balance' = Awarded(t).b /\ foa' = x
      /\ awards' = [awards EXCEPT ![i].status = st] /\ UNCHANGED <<frozen, supply>>
  BY DEF approve_award
<1>2. UNCHANGED <<sale, contributions, common, withdrawal, routes, gpo, unpaid, vesting>>
  BY DEF saleVars, commonVars
<1>3. awards \in Seq(AwardObject) /\ i \in 1 .. Len(awards)
  BY DEF AwardsInv
<1>4. t \in AwardTerms /\ validate_awardees(t)
  <2>1. awards[i] \in AwardObject
    BY <1>3
  <2>. QED
    BY <1>3, <2>1 DEF AwardObject, MoneyInv
<1>5. n \in Nat /\ n > 0 /\ foa \in Int
  BY <1>0, <1>4, AwardsAssumption DEF MoneyNumbers
<1>6. Granted(foa) = foa /\ Granted(x) = x /\ x \in Int
  BY <1>1, <1>5 DEF Granted, NoEntry
<1>. HIDE DEF t, st
<1>7. SpentOn(awards') = SpentOn(awards) /\ Len(awards') = Len(awards)
      /\ \A j \in 1 .. Len(awards) : awards'[j].terms = awards[j].terms
  BY <1>1, StatusKeepsSpent
<1>8. balance \in BalanceTables /\ Solvent(balance)
  BY DEF MoneyInv
<1>9. /\ balance' \in BalanceTables /\ Solvent(balance')
      /\ Held(balance', GrantAsset) = Held(balance, GrantAsset) + n
      /\ \A s \in Assets \ {GrantAsset} : Held(balance', s) = Held(balance, s)
  BY <1>1, <1>4, <1>8, AwardedFacts
<1>10. GrantAsset \in Assets
  BY <1>0 DEF MoneyNumbers
<1>. HIDE DEF n, x
<1>11. /\ Held(balance, GrantAsset) \in Int /\ Held(balance', GrantAsset) \in Int
       /\ supply[GrantAsset] \in Int /\ SpentOn(awards) \in Int
  BY <1>0, <1>9, <1>10, HeldIsNumber DEF MoneyNumbers
<1>12. Held(balance', GrantAsset) + Granted(x) + supply[GrantAsset] + SpentOn(awards)
               = Held(balance, GrantAsset) + Granted(foa) + supply[GrantAsset] + SpentOn(awards)
  BY <1>5, <1>6, <1>9, <1>11 DEF x
<1>13. /\ CoreBook(balance', contributions, VestedIn(vesting), gpo, unpaid)
       /\ AssetBook(balance', sale, supply, x, SpentOn(awards))
  <2>1. \A s \in Assets : s # GrantAsset => Held(balance', s) = Held(balance, s) /\ supply[s] = supply[s]
    BY <1>9
  <2>2. Granted(x) \in Int
    BY <1>6
  <2>. QED
    BY <1>11, <1>12, <2>1, <2>2, GrantBooks
<1>. QED
  BY <1>1, <1>2, <1>6, <1>7, <1>9, <1>13 DEF MoneyInv

\* reject_award, and the requests that are filed, certified, approved and
\* rejected: no money moves.
LEMMA RequestsKeepMoney ==
    ASSUME MoneyInv, AwardsInv, UNCHANGED <<saleVars, commonVars, vesting, balanceVars, foa>>,
           \/ UNCHANGED awards
           \/ \E i \in DOMAIN awards : awards' = [awards EXCEPT ![i].status = "rejected"]
    PROVE  MoneyInv'
<1>1. UNCHANGED <<sale, contributions, common, withdrawal, routes, gpo, unpaid, vesting,
                  balance, frozen, supply, foa>>
  BY DEF saleVars, commonVars, balanceVars
<1>2. /\ SpentOn(awards') = SpentOn(awards)
      /\ \A i \in 1 .. Len(awards') : validate_awardees(awards'[i].terms)
  <2>1. CASE UNCHANGED awards
    BY <2>1 DEF MoneyInv
  <2>2. ASSUME NEW i \in DOMAIN awards, awards' = [awards EXCEPT ![i].status = "rejected"]
        PROVE  /\ SpentOn(awards') = SpentOn(awards)
               /\ \A j \in 1 .. Len(awards') : validate_awardees(awards'[j].terms)
    <3>. DEFINE st == "rejected"
    <3>1. awards' = [awards EXCEPT ![i].status = st]
      BY <2>2
    <3>. HIDE DEF st
    <3>2. SpentOn(awards') = SpentOn(awards) /\ Len(awards') = Len(awards)
          /\ \A j \in 1 .. Len(awards) : awards'[j].terms = awards[j].terms
      BY <3>1, StatusKeepsSpent
    <3>. QED
      BY <3>2 DEF MoneyInv
  <2>. QED
    BY <2>1, <2>2
<1>. QED
  BY <1>1, <1>2 DEF MoneyInv

\* The expenses of an award grow by a payment.
LEMMA PaymentIsSpent ==
    ASSUME AwardsInv, NEW k \in 1 .. Len(awards), NEW p \in Recipients(awards[k].terms), NEW n \in Int,
           awards' = [awards EXCEPT ![k].expenses[p] = @ + n]
    PROVE  /\ SpentOn(awards') = SpentOn(awards) + n /\ Len(awards') = Len(awards)
           /\ \A j \in 1 .. Len(awards) : awards'[j].terms = awards[j].terms
<1>. DEFINE a == awards[k]
            R == Recipients(a.terms)
            e == a.expenses
            y == [e EXCEPT ![p] = @ + n]
            z == [a EXCEPT !.expenses = y]
            D == 1 .. Len(awards)
            f == [i \in D |-> SumFunction(awards[i].expenses)]
            h == [i \in D |-> SumFunction(awards'[i].expenses)]
<1>1. awards \in Seq(AwardObject) /\ DOMAIN awards = D /\ Len(awards) \in Nat /\ DOMAIN e = R
  BY DEF AwardsInv
<1>2. a \in AwardObject
  BY <1>1
<1>3. a.terms \in AwardTerms /\ e \in ExpenseTables
  BY <1>2 DEF AwardObject
<1>4. e \in [R -> Int]
  BY <1>1, <1>3 DEF ExpenseTables
<1>5. y \in [R -> Int] /\ y[p] = e[p] + n /\ e[p] \in Int /\ \A who \in R : who # p => y[who] = e[who]
  BY <1>4
<1>6. IsFiniteSet(R)
  BY <1>3, RecipientsAreAccounts, BalancesAssumption, FS_Subset
<1>7. SumFunction(y) = SumFunction(e) + n /\ SumFunction(e) \in Int
  <2>1. p \in R
    OBVIOUS
  <2>. HIDE DEF y, e, R
  <2>2. SumFunction(y) = SumFunction(e) + y[p] - e[p] /\ SumFunction(e) \in Int
    BY <1>4, <1>5, <1>6, <2>1, SumChange, SumIsNumber
  <2>. QED
    BY <1>5, <2>2
<1>8. z.expenses = y /\ z.terms = a.terms
  <2>. HIDE DEF y, a
  <2>. QED
    BY <1>2 DEF AwardObject
<1>9. awards' = [awards EXCEPT ![k] = z]
  OBVIOUS
<1>. HIDE DEF z, y
<1>10. /\ DOMAIN awards' = D /\ Len(awards') = Len(awards) /\ awards'[k] = z
       /\ \A i \in D : i # k => awards'[i] = awards[i]
  BY <1>1, <1>9
<1>11. \A i \in D : SumFunction(awards[i].expenses) \in Int
  BY <1>1, SpentIsNumber
<1>12. SpentOn(awards') = SpentOn(awards) + n
  <2>1. SpentOn(awards) = SumFunction(f) /\ SpentOn(awards') = SumFunction(h)
    BY <1>1, <1>10 DEF SpentOn
  <2>2. h[k] = SumFunction(y) /\ f[k] = SumFunction(e)
    BY <1>8, <1>10
  <2>3. \A i \in D : i # k => h[i] = f[i]
    BY <1>10
  <2>4. f \in [D -> Int]
    BY <1>11
  <2>5. h[k] \in Int
    BY <1>7, <2>2
  <2>6. \A i \in D : h[i] \in Int
    BY <2>3, <2>4, <2>5
  <2>7. h \in [D -> Int]
    BY <2>6
  <2>8. IsFiniteSet(D) /\ k \in D
    BY <1>1, FS_Interval
  <2>. HIDE DEF D, f, h, e
  <2>9. SumFunction(h) = SumFunction(f) + h[k] - f[k] /\ SumFunction(f) \in Int
    BY <2>3, <2>4, <2>7, <2>8, SumChange, SumIsNumber
  <2>. QED
    BY <1>7, <2>1, <2>2, <2>9
<1>13. \A j \in 1 .. Len(awards) : awards'[j].terms = awards[j].terms
  BY <1>8, <1>10
<1>. QED
  BY <1>10, <1>12, <1>13

\* pay_award_withdrawal_request: the treasury pays, the grant's asset is burnt
\* from its supply, and the expenses of the award grow with it.
LEMMA PayKeepsMoney ==
    ASSUME MoneyInv, VestingInv, AwardsInv, NEW r \in DOMAIN requests, pay_award_withdrawal_request(r),
           UNCHANGED <<saleVars, commonVars, vesting>>
    PROVE  MoneyInv'
<1>. DEFINE w == requests[r]
            k == w.award
            p == w.requester
            n == w.amount
            m == -n
            d == adjust_account_balance(balance, p, USD, n)
<1>0. MoneyNumbers
  BY MoneyIsNumbers
<1>1. /\ d[Treasury][USD] >= n
      /\ awards' = [awards EXCEPT ![k].expenses[p] = @ + n]
      /\ supply' = [supply EXCEPT ![GrantAsset] = @ - n]
      /\ balance' = adjust_account_balance(d, Treasury, USD, m)
      /\ supply[GrantAsset] + m \in 0 .. MaxSupply
      /\ UNCHANGED <<frozen, foa>>
  BY DEF pay_award_withdrawal_request, Covers, SupplyAdjusts
<1>2. UNCHANGED <<sale, contributions, common, withdrawal, routes, gpo, unpaid, vesting>>
  BY DEF saleVars, commonVars
<1>3. requests \in Seq(RequestObject) /\ r \in 1 .. Len(requests)
  BY DEF AwardsInv
<1>4. w \in RequestObject
  BY <1>3
<1>5. n \in Nat /\ n \in Int /\ m \in Int /\ p \in Accounts
  BY <1>4 DEF RequestObject
<1>6. k \in 1 .. Len(awards) /\ p \in Recipients(awards[k].terms)
  BY <1>3 DEF AwardsInv
<1>7. /\ USD \in Assets /\ GrantAsset \in Assets /\ Treasury \in Accounts
      /\ balance \in BalanceTables /\ Solvent(balance) /\ supply \in [Assets -> Nat]
  BY BalancesAssumption, AwardsAssumption DEF MoneyInv
<1>8. balance[p][USD] \in Int /\ balance[p][USD] >= 0
  BY <1>5, <1>7 DEF BalanceTables, Solvent
<1>9. balance[p][USD] + n >= 0
  BY <1>5, <1>8
<1>. HIDE DEF w, k, p, n, m
<1>10. /\ SpentOn(awards') = SpentOn(awards) + n /\ Len(awards') = Len(awards)
       /\ \A j \in 1 .. Len(awards) : awards'[j].terms = awards[j].terms
  BY <1>1, <1>5, <1>6, PaymentIsSpent
<1>11. AdjustedBy(balance, d, p, USD, n)
  BY <1>5, <1>7, AdjustFacts
<1>12. d \in BalanceTables /\ Solvent(d)
  BY <1>7, <1>9, <1>11 DEF AdjustedBy
<1>13. d[Treasury][USD] \in Int
  BY <1>7, <1>12 DEF BalanceTables
<1>14. d[Treasury][USD] + m >= 0
  BY <1>1, <1>5, <1>13 DEF m
<1>15. \A t \in Assets : t # USD => Held(d, t) = Held(balance, t)
  BY <1>11 DEF AdjustedBy
<1>16. Held(d, USD) = Held(balance, USD) + n /\ Held(balance, USD) \in Int
  BY <1>7, <1>11, HeldIsNumber DEF AdjustedBy
<1>. HIDE DEF d
<1>17. AdjustedBy(d, balance', Treasury, USD, m)
  BY <1>1, <1>5, <1>7, <1>12, AdjustFacts
<1>18. balance' \in BalanceTables /\ Solvent(balance')
  BY <1>12, <1>14, <1>17 DEF AdjustedBy
<1>19. \A t \in Assets : Held(balance', t) = Held(balance, t)
  <2>1. Held(balance', USD) = Held(d, USD) + m
    BY <1>17 DEF AdjustedBy
  <2>2. Held(balance', USD) = Held(balance, USD)
    BY <1>5, <1>16, <2>1 DEF m
  <2>3. \A t \in Assets : t # USD => Held(balance', t) = Held(d, t)
    BY <1>17 DEF AdjustedBy
  <2>. QED
    BY <1>15, <2>2, <2>3
<1>20. /\ supply' \in [Assets -> Nat] /\ supply'[GrantAsset] = supply[GrantAsset] - n
       /\ \A t \in Assets : t # GrantAsset => supply'[t] = supply[t]
  <2>1. supply[GrantAsset] - n \in Nat
    BY <1>1, <1>5, <1>7, BalancesAssumption DEF m
  <2>. QED
    BY <1>1, <1>7, <2>1
<1>21. /\ CoreBook(balance', contributions, VestedIn(vesting), gpo, unpaid)
       /\ AssetBook(balance', sale, supply', foa, SpentOn(awards'))
  <2>. DEFINE y == SpentOn(awards')
              h == Held(balance', GrantAsset)
              z == supply[GrantAsset]
              q == SpentOn(awards)
              g == Granted(foa)
              u == supply'[GrantAsset]
  <2>1. \A t \in Assets : t # GrantAsset => Held(balance', t) = Held(balance, t) /\ supply'[t] = supply[t]
    BY <1>19, <1>20
  <2>2. h \in Int /\ z \in Int /\ q \in Int /\ g \in Int
    BY <1>0, <1>7, <1>18, HeldIsNumber DEF MoneyNumbers
  <2>3. y = q + n /\ u = z - n /\ h = Held(balance, GrantAsset)
    BY <1>7, <1>10, <1>19, <1>20
  <2>. HIDE DEF y, h, z, q, g, u
  <2>4. h + g + z + q = h + g + u + y /\ y \in Int /\ u \in Int
    BY <1>5, <2>2, <2>3
  <2>5. Held(balance', GrantAsset) + Granted(foa) + supply[GrantAsset] + SpentOn(awards)
               = Held(balance, GrantAsset) + Granted(foa) + supply'[GrantAsset] + y
    BY <2>3, <2>4 DEF h, g, z, q, u
  <2>6. Held(balance', GrantAsset) \in Int /\ Granted(foa) \in Int /\ supply'[GrantAsset] \in Int /\ y \in Int
    BY <2>2, <2>4 DEF h, g, u
  <2>7. CoreBook(balance', contributions, VestedIn(vesting), gpo, unpaid) /\ AssetBook(balance', sale, supply', foa, y)
    BY <2>1, <2>5, <2>6, GrantBooks
  <2>. QED
    BY <2>7 DEF y
<1>22. \A i \in 1 .. Len(awards') : validate_awardees(awards'[i].terms)
  BY <1>10 DEF MoneyInv
<1>. QED
  BY <1>1, <1>2, <1>18, <1>20, <1>21, <1>22 DEF MoneyInv

\* The operations on grants and awards
LEMMA AwardsKeepMoney ==
    ASSUME MoneyInv, VestingInv, AwardsInv, AwardOps, UNCHANGED <<saleVars, commonVars, vesting>>
    PROVE  MoneyInv'
<1>1. ASSUME NEW i \in DOMAIN awards, reject_award(i) PROVE MoneyInv'
  <2>1. /\ UNCHANGED <<saleVars, commonVars, vesting, balanceVars, foa>>
        /\ awards' = [awards EXCEPT ![i].status = "rejected"]
    BY <1>1 DEF reject_award
  <2>. QED
    BY <2>1, RequestsKeepMoney
<1>2. ASSUME NEW i \in DOMAIN awards, NEW who, NEW n, create_award_withdrawal_request(i, who, n)
      PROVE  MoneyInv'
  <2>1. UNCHANGED <<saleVars, commonVars, vesting, balanceVars, foa>> /\ UNCHANGED awards
    BY <1>2 DEF create_award_withdrawal_request
  <2>. QED
    BY <2>1, RequestsKeepMoney
<1>3. ASSUME NEW r, \/ certify_award_withdrawal_request(r) \/ approve_award_withdrawal_request(r)
                    \/ reject_award_withdrawal_request(r)
      PROVE  MoneyInv'
  <2>1. UNCHANGED <<saleVars, commonVars, vesting, balanceVars, foa>> /\ UNCHANGED awards
    BY <1>3 DEF certify_award_withdrawal_request, approve_award_withdrawal_request,
                reject_award_withdrawal_request, UpdateRequest
  <2>. QED
    BY <2>1, RequestsKeepMoney
<1>. QED
  BY <1>1, <1>2, <1>3, CreateGrantKeepsMoney, CreateAwardKeepsMoney, ApproveKeepsMoney, PayKeepsMoney
  DEF AwardOps

\* The end of a block: sales are settled, new money is emitted, and due
\* withdrawals are paid.
LEMMA EndBlockKeepsMoney ==
    ASSUME MoneyInv, VestingInv, AwardsInv, NEW gap \in BlockGaps, NEW witness \in Witnesses,
           EndBlock(gap, witness)
    PROVE  MoneyInv'
<1>. DEFINE time  == now + gap
            sold  == process_research_token_sales(time)
            funds == process_funds(gpo, common, witness)
            start == [b |-> sold.b, common |-> funds.common, withdrawal |-> withdrawal,
                      gpo |-> funds.gpo, ok |-> sold.ok]
            paid  == process_common_tokens_withdrawals(start, time)
<1>0. MoneyNumbers
  BY MoneyIsNumbers
<1>1. /\ paid.ok /\ sale' = sold.sale /\ contributions' = sold.cs /\ frozen' = sold.f
      /\ balance' = paid.b /\ common' = paid.common /\ withdrawal' = paid.withdrawal /\ gpo' = paid.gpo
      /\ unpaid' = unpaid + funds.unpaid
      /\ UNCHANGED <<supply, routes, vesting, foa, awards>>
  BY DEF EndBlock, awardVars
<1>2. /\ balance \in BalanceTables /\ Solvent(balance) /\ SaleHolds(sale, contributions, frozen)
      /\ CommonHolds(common, withdrawal, gpo) /\ routes \in RouteTables
  BY DEF MoneyInv
<1>. HIDE DEF time
<1>3. /\ SaleHolds(sold.sale, sold.cs, sold.f)
      /\ SaleMoves(balance, sale, contributions, sold.b, sold.sale, sold.cs)
      /\ sold.ok \in BOOLEAN /\ (sold.ok => Solvent(sold.b))
  BY <1>2, ProcessSales
<1>4. /\ CommonHolds(funds.common, withdrawal, funds.gpo) /\ funds.unpaid \in Nat
      /\ \E n \in Nat : funds.gpo.fund = gpo.fund + n /\ funds.gpo.supply = gpo.supply + n + funds.unpaid
  BY <1>2, FundsFacts
<1>. HIDE DEF sold, funds
<1>5. /\ start.b = sold.b /\ start.common = funds.common /\ start.withdrawal = withdrawal
      /\ start.gpo = funds.gpo /\ start.ok = sold.ok
  OBVIOUS
<1>6. start \in Payments
  <2>1. sold.b \in BalanceTables
    BY <1>3 DEF SaleMoves
  <2>2. /\ funds.common \in [Accounts -> Nat] /\ withdrawal \in [Accounts -> WithdrawalObject]
        /\ funds.gpo \in GpoObject
    BY <1>4 DEF CommonHolds
  <2>. QED
    BY <1>3, <2>1, <2>2 DEF Payments
<1>. HIDE DEF start
<1>7. CommonHolds(start.common, start.withdrawal, start.gpo) /\ (start.ok => Solvent(start.b))
  BY <1>3, <1>4, <1>5
<1>8. paid \in Payments /\ PaidFrom(start, paid)
  BY <1>2, <1>5, <1>6, <1>7, WithdrawAll
<1>. HIDE DEF paid
<1>9. CommonHolds(paid.common, paid.withdrawal, paid.gpo) /\ Solvent(paid.b) /\ paid.b \in BalanceTables
  BY <1>1, <1>8 DEF PaidFrom, Payments
<1>10. /\ CoreBook(sold.b, sold.cs, VestedIn(vesting), gpo, unpaid)
       /\ AssetBook(sold.b, sold.sale, supply, foa, SpentOn(awards))
  BY <1>3, SaleBooks
<1>11. AssetBook(paid.b, sold.sale, supply, foa, SpentOn(awards))
  <2>1. \A t \in Assets \ {DEIP} : Held(paid.b, t) = Held(sold.b, t)
    BY <1>5, <1>8 DEF PaidFrom
  <2>. QED
    BY <1>10, <2>1 DEF AssetBook
<1>12. unpaid + funds.unpaid \in Int
  BY <1>0, <1>4 DEF MoneyNumbers
<1>13. CoreBook(paid.b, sold.cs, VestedIn(vesting), paid.gpo, unpaid + funds.unpaid)
  <2>1. PICK n \in Nat : funds.gpo.fund = gpo.fund + n /\ funds.gpo.supply = gpo.supply + n + funds.unpaid
    BY <1>4
  <2>. DEFINE h == Held(sold.b, DEIP)
              k == Held(paid.b, DEIP)
              c == AllAmounts(sold.cs)
              v == VestedIn(vesting)
              s == gpo.supply
              f == gpo.fund
              u == funds.unpaid
              x == funds.gpo.fund
              y == paid.gpo.fund
              z == paid.gpo.supply
  <2>2. x = f + n /\ funds.gpo.supply = s + n + u
    BY <2>1
  <2>3. z = funds.gpo.supply /\ k + y = h + x
    BY <1>5, <1>8 DEF PaidFrom
  <2>4. s = h + c + v + f + unpaid
    BY <1>10 DEF CoreBook
  <2>5. h \in Int /\ k \in Int /\ c \in Int
    <3>1. sold.b \in BalanceTables /\ DEIP \in Assets /\ sold.cs \in Seq(ContributionObject)
      BY <1>0, <1>3 DEF SaleMoves, SaleHolds, MoneyNumbers
    <3>. QED
      BY <1>9, <3>1, HeldIsNumber, AllAmountsIsNumber
  <2>6. v \in Int /\ s \in Int /\ f \in Int /\ u \in Int /\ unpaid \in Int
    BY <1>0, <1>4 DEF MoneyNumbers
  <2>7. y \in Int
    BY <1>9 DEF CommonHolds, GpoObject
  <2>8. z = s + n + u
    BY <2>2, <2>3
  <2>9. k + y = h + x /\ x = f + n
    BY <2>2, <2>3
  <2>. HIDE DEF h, k, c, v, s, f, u, x, y, z
  <2>10. z = k + c + v + y + (unpaid + u)
    BY <2>4, <2>5, <2>6, <2>7, <2>8, <2>9
  <2>. QED
    BY <2>10 DEF CoreBook, h, k, c, v, s, f, u, x, y, z
<1>. QED
  BY <1>1, <1>2, <1>3, <1>9, <1>11, <1>12, <1>13 DEF MoneyInv

\* A step of the ledger is one component's, or the end of a block.
LEMMA MoneyStep ==
    ASSUME MoneyInv, VestingInv, AwardsInv, [Next]_vars
    PROVE  MoneyInv'
<1>1. CASE UNCHANGED <<balanceVars, saleVars, commonVars, vesting, awardVars>>
  <2>1. UNCHANGED <<balance, frozen, supply, sale, contributions, common, withdrawal, routes, gpo, unpaid,
                    vesting, foa, awards>>
    BY <1>1 DEF balanceVars, saleVars, commonVars, awardVars
  <2>. QED
    BY <2>1 DEF MoneyInv
<1>2. CASE UNCHANGED vars
  BY <1>1, <1>2 DEF vars
<1>3. CASE Operation
  <2>1. CASE BalancesOps /\ UNCHANGED <<saleVars, commonVars, vesting, awardVars>>
    BY <2>1, BalancesKeepMoney
  <2>2. CASE SaleOps /\ UNCHANGED <<commonVars, vesting, awardVars>>
    BY <2>2, SaleKeepsMoney
  <2>3. CASE CommonOps /\ UNCHANGED <<saleVars, vesting, awardVars>>
    BY <2>3, CommonKeepsMoney
  <2>4. CASE VestingOps /\ UNCHANGED <<saleVars, commonVars, awardVars>>
    BY <2>4, VestingKeepsMoney
  <2>5. CASE AwardOps /\ UNCHANGED <<saleVars, commonVars, vesting>>
    BY <2>5, AwardsKeepMoney
  <2>6. CASE LicenseOps /\ UNCHANGED <<commonVars, vesting, awardVars>>
    BY <2>6, LicensesKeepMoney
  <2>. QED
    BY <1>1, <1>3, <2>1, <2>2, <2>3, <2>4, <2>5, <2>6 DEF Operation
<1>4. ASSUME NEW gap \in BlockGaps, NEW w \in Witnesses, EndBlock(gap, w)
      PROVE  MoneyInv'
  BY <1>4, EndBlockKeepsMoney
<1>. QED
  BY <1>2, <1>3, <1>4 DEF Next

\* The sums the properties of the ledger are stated with.
LEMMA AccountsHold ==
    ASSUME balance \in BalanceTables, frozen \in [Accounts -> Int],
           \A a \in Accounts : a # Group => frozen[a] = 0, NEW s \in Assets
    PROVE  OnAccounts(s) = Held(balance, s) + (IF s = Token THEN frozen[Group] ELSE 0)
<1>. DEFINE f == [a \in Accounts |-> balance[a][s]]
            h == [a \in Accounts |-> balance[a][s] + (IF s = Token THEN frozen[a] ELSE 0)]
<1>1. IsFiniteSet(Accounts) /\ Group \in Accounts /\ f \in [Accounts -> Int]
  BY BalancesAssumption, TokenSaleAssumption DEF BalanceTables
<1>2. SumFunction(f) \in Int
  <2>. HIDE DEF f
  <2>. QED
    BY <1>1, SumIsNumber
<1>3. CASE s = Token
  <2>1. h \in [Accounts -> Int] /\ \A a \in Accounts : h[a] = f[a] + frozen[a]
    BY <1>1, <1>3 DEF BalanceTables
  <2>. HIDE DEF f, h
  <2>2. SumFunction(frozen) = frozen[Group]
    BY <1>1, SumSingle
  <2>3. SumFunction(h) = SumFunction(f) + SumFunction(frozen)
    BY <1>1, <2>1, SumPlus
  <2>. QED
    BY <1>3, <2>2, <2>3 DEF OnAccounts, Held, f, h
<1>4. CASE s # Token
  <2>1. \A a \in Accounts : balance[a][s] + 0 = balance[a][s]
    BY DEF BalanceTables
  <2>2. h = f
    BY <1>4, <2>1
  <2>3. OnAccounts(s) = SumFunction(h) /\ Held(balance, s) = SumFunction(f)
    BY DEF OnAccounts, Held
  <2>. HIDE DEF f, h
  <2>. QED
    BY <1>2, <1>4, <2>2, <2>3
<1>. QED
  BY <1>3, <1>4

\* The genesis: everything is on accounts but the registrar's common tokens.
LEMMA MoneyStarts == ASSUME Init PROVE MoneyInv
<1>1. /\ balance = Genesis /\ frozen = [a \in Accounts |-> 0]
      /\ supply = [s \in Assets |-> OnAccounts(s) + (IF s = DEIP THEN RegistrarCommon ELSE 0)]
      /\ sale = NoSale /\ contributions = <<>>
      /\ common = [a \in Accounts |-> IF a = 0 THEN RegistrarCommon ELSE 0]
      /\ withdrawal = [a \in Accounts |-> Idle]
      /\ routes = [a \in Accounts |-> [b \in Accounts |-> NoRoute]]
      /\ gpo = [supply |-> OnAccounts(DEIP) + RegistrarCommon,
                fund |-> RegistrarCommon, total |-> RegistrarCommon]
      /\ unpaid = 0 /\ vesting = <<>> /\ foa = NoEntry /\ awards = <<>>
  BY DEF Init
<1>2. /\ balance \in BalanceTables /\ Solvent(balance) /\ RegistrarCommon \in Nat /\ 0 \in Accounts
      /\ DEIP \in Assets /\ Token \in Assets /\ IsFiniteSet(Accounts) /\ Group \in Accounts
  BY <1>1, BalancesAssumption, TokenSaleAssumption, GenesisAssumption DEF BalanceTables, Solvent
<1>3. ASSUME NEW s \in Assets PROVE OnAccounts(s) = Held(balance, s) /\ Held(balance, s) \in Nat
  <2>1. frozen \in [Accounts -> Int] /\ frozen[Group] = 0 /\ \A a \in Accounts : a # Group => frozen[a] = 0
    BY <1>1, <1>2
  <2>2. OnAccounts(s) = Held(balance, s) + (IF s = Token THEN frozen[Group] ELSE 0)
    BY <1>2, <2>1, AccountsHold
  <2>3. Held(balance, s) \in Nat
    BY <1>2, HeldIsNumber
  <2>. QED
    BY <2>1, <2>2, <2>3
<1>4. supply \in [Assets -> Nat] /\ \A s \in Assets \ {DEIP} : supply[s] = Held(balance, s)
  <2>1. \A s \in Assets : OnAccounts(s) = Held(balance, s) /\ Held(balance, s) \in Nat
    BY <1>3
  <2>. QED
    BY <1>1, <1>2, <2>1
<1>5. contributions \in Seq(ContributionObject) /\ OneRowEach(contributions) /\ AllAmounts(contributions) = 0
  <2>1. contributions \in Seq(ContributionObject) /\ OneRowEach(contributions)
    BY <1>1 DEF OneRowEach
  <2>. QED
    BY <1>1, <2>1, AllAmountsIsNumber
<1>6. sale \in SaleObject /\ ~Open(sale) /\ OnSale(sale) = 0
  BY <1>1 DEF SaleObject, NoSale, Open, OnSale
<1>7. SaleHolds(sale, contributions, frozen)
  BY <1>1, <1>2, <1>5, <1>6 DEF SaleHolds
<1>8. SumFunction(common) = RegistrarCommon
  <2>. DEFINE z == 0
  <2>1. common \in [Accounts -> Int] /\ common[z] = RegistrarCommon /\ z \in Accounts
        /\ \A a \in Accounts : a # z => common[a] = 0
    BY <1>1, <1>2
  <2>. HIDE DEF z
  <2>. QED
    BY <1>2, <2>1, SumSingle
<1>9. gpo \in GpoObject /\ gpo.fund = RegistrarCommon /\ gpo.total = RegistrarCommon
      /\ gpo.supply = Held(balance, DEIP) + RegistrarCommon
  <2>1. OnAccounts(DEIP) = Held(balance, DEIP) /\ Held(balance, DEIP) \in Nat
    BY <1>2, <1>3
  <2>2. Held(balance, DEIP) + RegistrarCommon \in Nat
    BY <1>2, <2>1
  <2>. QED
    BY <1>1, <1>2, <2>1, <2>2 DEF GpoObject
<1>10. CommonHolds(common, withdrawal, gpo)
  <2>1. common \in [Accounts -> Nat]
    BY <1>1, <1>2
  <2>2. Idle \in WithdrawalObject
    BY DEF Idle, WithdrawalObject, Never
  <2>3. withdrawal \in [Accounts -> WithdrawalObject]
    BY <1>1, <2>2
  <2>. QED
    BY <1>8, <1>9, <2>1, <2>3 DEF CommonHolds
<1>11. routes \in RouteTables
  <2>1. NoRoute \in [percent : Nat, auto : BOOLEAN]
    BY DEF NoRoute
  <2>. QED
    BY <1>1, <2>1 DEF RouteTables
<1>12. VestedIn(vesting) = 0
  <2>1. vesting \in Seq(Contract)
    BY <1>1
  <2>. QED
    BY <1>1, <2>1, VestedIsNumber
<1>13. SpentOn(awards) = 0
  <2>1. awards \in Seq(AwardObject)
    BY <1>1
  <2>. QED
    BY <1>1, <2>1, SpentIsNumber
<1>14. foa \in Int /\ Granted(foa) = 0 /\ unpaid = 0 /\ Len(awards) = 0
  BY <1>1 DEF Granted, NoEntry
<1>15. Held(balance, DEIP) \in Nat
  BY <1>2, <1>3
<1>16. CoreBook(balance, contributions, VestedIn(vesting), gpo, unpaid)
  BY <1>2, <1>5, <1>9, <1>12, <1>14, <1>15 DEF CoreBook
<1>17. AssetBook(balance, sale, supply, foa, SpentOn(awards))
  <2>. SUFFICES ASSUME NEW t \in Assets \ {DEIP}
                PROVE  Held(balance, t) + (IF t = Token THEN OnSale(sale) ELSE 0)
                           + (IF t = GrantAsset THEN Granted(foa) ELSE 0)
                         = supply[t] + (IF t = GrantAsset THEN SpentOn(awards) ELSE 0)
    BY DEF AssetBook
  <2>1. Held(balance, t) \in Nat /\ supply[t] = Held(balance, t)
    BY <1>3, <1>4
  <2>. QED
    BY <1>6, <1>13, <1>14, <2>1
<1>18. \A i \in 1 .. Len(awards) : validate_awardees(awards[i].terms)
  BY <1>14
<1>. QED
  BY <1>2, <1>4, <1>7, <1>10, <1>11, <1>14, <1>16, <1>17, <1>18 DEF MoneyInv

\* The money invariant holds always.
LEMMA MoneyHolds == Spec => [](MoneyInv /\ VestingInv /\ AwardsInv)
<1>1. Init => MoneyInv
  BY MoneyStarts
<1>2. MoneyInv /\ VestingInv /\ AwardsInv /\ [Next]_vars => MoneyInv'
  BY MoneyStep
<1>. QED
  BY <1>1, <1>2, VestingInvHolds, AwardsInvHolds, PTL DEF Spec

\* For all accounts, assets, terms, percentages and routes, and every mix of
\* operations and blocks: what accounts, sales, vesting contracts, the fund and
\* grants hold together is the supply, up to the two terms the equation names.
THEOREM MoneyIsNeitherMadeNorLost == Spec => []HeldIsSupply
<1>1. MoneyInv /\ VestingInv /\ AwardsInv => HeldIsSupply
  <2>. SUFFICES ASSUME MoneyInv, VestingInv, AwardsInv PROVE HeldIsSupply
    OBVIOUS
  <2>0. MoneyNumbers
    BY MoneyIsNumbers
  <2>1. /\ contributions \in Seq(ContributionObject)
        /\ balance \in BalanceTables /\ frozen \in [Accounts -> Int] /\ Group \in Accounts
        /\ frozen[Group] = OnSale(sale) /\ \A a \in Accounts : a # Group => frozen[a] = 0
    BY TokenSaleAssumption DEF MoneyInv, SaleHolds
  <2>2. ASSUME NEW s \in Assets
        PROVE  OnAccounts(s) = Held(balance, s) + (IF s = Token THEN OnSale(sale) ELSE 0)
    <3>1. OnAccounts(s) = Held(balance, s) + (IF s = Token THEN frozen[Group] ELSE 0)
      BY <2>1, AccountsHold
    <3>. QED
      BY <2>1, <3>1
  <2>3. Contributed = AllAmounts(contributions)
    BY <2>1 DEF Contributed, AllAmounts, AmountsAt
  <2>4. InVesting = VestedIn(vesting) /\ InGrant = Granted(foa) /\ Expenses = SpentOn(awards)
    BY DEF InVesting, VestedIn, InGrant, Granted, Expenses, SpentOn
  <2>5. gpo.supply = OnAccounts(DEIP) + Contributed + InVesting + gpo.fund + unpaid
    <3>1. Held(balance, DEIP) \in Int /\ DEIP \in Assets /\ DEIP # Token
      BY <2>0 DEF MoneyNumbers
    <3>2. OnAccounts(DEIP) = Held(balance, DEIP)
      BY <2>2, <3>1
    <3>. QED
      BY <2>3, <2>4, <3>2 DEF MoneyInv, CoreBook
  <2>6. ASSUME NEW s \in Assets \ {DEIP}
        PROVE  OnAccounts(s) + (IF s = GrantAsset THEN InGrant ELSE 0)
                   = supply[s] + (IF s = GrantAsset THEN Expenses ELSE 0)
    <3>1. OnAccounts(s) = Held(balance, s) + (IF s = Token THEN OnSale(sale) ELSE 0)
      BY <2>2
    <3>2. Held(balance, s) + (IF s = Token THEN OnSale(sale) ELSE 0)
              + (IF s = GrantAsset THEN Granted(foa) ELSE 0)
            = supply[s] + (IF s = GrantAsset THEN SpentOn(awards) ELSE 0)
      BY DEF MoneyInv, AssetBook
    <3>. QED
      BY <2>4, <3>1, <3>2
  <2>. QED
    BY <2>5, <2>6 DEF HeldIsSupply
<1>. QED
  BY <1>1, MoneyHolds, PTL

\* For all routes, percentages, rates and emissions: fund, total and the sum
\* of the stakes agree, and no stake is overdrawn.
THEOREM CommonTokensAreBacked == Spec => []CommonTokensBacked
<1>1. MoneyInv => CommonTokensBacked
  BY DEF MoneyInv, CommonHolds, CommonTokensBacked
<1>. QED
  BY <1>1, MoneyHolds, PTL

\* For all terms and contributors: an open sale holds what was frozen and
\* paid, a sale that is over nothing, and no account is overdrawn.
THEOREM SalesHoldTheirStakes == Spec => []SaleHoldsItsStakes
<1>1. MoneyInv => SaleHoldsItsStakes
  <2>. SUFFICES ASSUME MoneyInv PROVE SaleHoldsItsStakes
    OBVIOUS
  <2>1. SaleHolds(sale, contributions, frozen) /\ Solvent(balance) /\ SaleIsOpen = Open(sale)
    BY DEF MoneyInv, SaleIsOpen, Open
  <2>2. Contributed = AllAmounts(contributions)
    <3>1. DOMAIN contributions = 1 .. Len(contributions)
      BY <2>1 DEF SaleHolds
    <3>. QED
      BY <3>1 DEF Contributed, AllAmounts, AmountsAt
  <2>. QED
    BY <2>1, <2>2 DEF SaleHolds, OnSale, Solvent, SaleHoldsItsStakes
<1>. QED
  BY <1>1, MoneyHolds, PTL
=============================================================================
