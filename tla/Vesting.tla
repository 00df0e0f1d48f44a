------------------------------- MODULE Vesting -------------------------------
(***************************************************************************)
(* Vesting contracts: the core asset locked for an owner, withdrawn period *)
(* by period after a cliff.                                                *)
(***************************************************************************)
EXTENDS Balances

CONSTANTS VestingTerms,  \* duration, period and cliff, as validate() accepts them
          MaxVestings    \* contracts per behaviour

ASSUME VestingAssumption ==
    /\ MaxVestings \in Nat
    /\ \A t \in VestingTerms : /\ t.cliff \in Nat /\ t.duration \in Nat /\ t.period \in Nat \ {0}
                               /\ t.duration > t.cliff /\ t.duration % t.period = 0

VARIABLES vesting        \* the vesting_balance_objects, by order of creation

create_vesting_balance(creator, owner, amount, t) ==
    /\ Len(vesting) < MaxVestings
    /\ Covers(balance, creator, DEIP, amount)
    /\ balance' = adjust_account_balance(balance, creator, DEIP, -amount)
    /\ vesting' = Append(vesting, [owner |-> owner, balance |-> amount, withdrawn |-> 0,
                                   start |-> now, duration |-> t.duration,
                                   period |-> t.period, cliff |-> t.cliff])
    /\ UNCHANGED <<frozen, supply, tokenized>>

\* What has vested at a time: the share of the periods that have passed, taken
\* of what the contract still holds.
TotalVested(v) ==
    LET elapsed == now - v.start
    IN  IF elapsed < v.duration
        THEN (v.balance * (elapsed \div v.period)) \div (v.duration \div v.period)
        ELSE v.balance

\* Mutant of AllowedWithdraw: earlier withdrawals are not counted.
AllVested(v) == TotalVested(v)

AllowedWithdraw(v) == TotalVested(v) - v.withdrawn

\* Before the cliff the operation is accepted and does nothing; the assertion
\* allowed_withdraw >= 0 follows from the amount being positive.
withdraw_vesting_balance(i, amount) ==
    /\ now - vesting[i].start >= vesting[i].cliff
    /\ AllowedWithdraw(vesting[i]) >= amount
    /\ vesting[i].balance >= amount
    /\ vesting' = [vesting EXCEPT ![i].balance = @ - amount, ![i].withdrawn = @ + amount]
    /\ balance' = adjust_account_balance(balance, vesting[i].owner, DEIP, amount)
    /\ UNCHANGED <<frozen, supply, tokenized>>

VestingOps ==
    \/ \E c, o \in Accounts, n \in Amounts, t \in VestingTerms :
          create_vesting_balance(c, o, n, t)
    \/ \E i \in DOMAIN vesting, n \in Amounts : withdraw_vesting_balance(i, n)

\* What the contracts hold of the core asset.
InVesting == SumFunction([i \in DOMAIN vesting |-> vesting[i].balance])

\* A contract is never ahead of its schedule: by the current time at most the
\* share of the whole deposit that belongs to the completed periods has been
\* withdrawn, and nothing before the cliff, whatever the sequence of partial
\* withdrawals (withdraw_vesting_balance_evaluator computes the share anew
\* from the remaining balance at every withdrawal).
VestingOnSchedule ==
    \A i \in DOMAIN vesting :
        LET v       == vesting[i]
            deposit == v.balance + v.withdrawn
            elapsed == now - v.start
        IN  /\ v.withdrawn * v.duration <= deposit * Min({v.duration, (elapsed \div v.period) * v.period})
            /\ elapsed < v.cliff => v.withdrawn = 0
=============================================================================
