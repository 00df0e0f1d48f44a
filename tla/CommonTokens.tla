---------------------------- MODULE CommonTokens ----------------------------
(***************************************************************************)
(* Common tokens: the core asset converted one to one into a stake held by *)
(* the account, its conversion back in instalments along withdraw routes,  *)
(* and the emission of every block, whose witness part is paid in common   *)
(* tokens.  The accounts of the model cast no witness votes, so adjusting  *)
(* the votes is left out.                                                  *)
(***************************************************************************)
EXTENDS TokenSale

CONSTANTS WithdrawIntervals,   \* DEIP_COMMON_TOKENS_WITHDRAW_INTERVALS
          WithdrawInterval,    \* DEIP_COMMON_TOKENS_WITHDRAW_INTERVAL_SECONDS, in blocks
          MaxRoutes,           \* DEIP_MAX_WITHDRAW_ROUTES
          MinCommonTokens,     \* ten times the account creation fee
          Percents,            \* the percentages routes are given
          EmissionDivisor,     \* blocks per year over the inflation rate
          ContributionPercent, \* DEIP_CONTRIBUTION_REWARD_PERCENT
          WitnessWeight,       \* DEIP_MAX_WITNESSES times the weight of the witness's place
          PayNormalization,    \* witness_pay_normalization_factor
          Witnesses            \* the accounts that produce blocks

ASSUME CommonTokensAssumption ==
    /\ WithdrawIntervals \in Nat \ {0} /\ WithdrawInterval \in Nat \ {0}
    /\ MaxRoutes \in Nat /\ MinCommonTokens \in Nat
    /\ Percents \subseteq 0..HundredPercent
    /\ EmissionDivisor \in Nat \ {0}
    /\ ContributionPercent \in 0..HundredPercent
    /\ WitnessWeight \in Nat /\ PayNormalization \in Nat \ {0}
    /\ Witnesses \subseteq Accounts

VARIABLES common,        \* account_object::common_tokens_balance
          withdrawal,    \* rate, next, to_withdraw and withdrawn of an account
          routes,        \* withdraw_common_tokens_route_objects: routes[from][to]
          gpo,           \* current_supply, common_tokens_fund and
                         \* total_common_tokens_amount of the global properties
          unpaid         \* history: contribution rewards added to the supply

commonVars == <<common, withdrawal, routes, gpo, unpaid>>

Never   == -1   \* time_point_sec::maximum()
NoRoute == [percent |-> 0, auto |-> FALSE]
Idle    == [rate |-> 0, next |-> Never, to_withdraw |-> 0, withdrawn |-> 0]

-----------------------------------------------------------------------------
\* dbs_account::increase_common_tokens: the account, the total and the fund
\* grow together.
increase_common_tokens(account, amount) ==
    common' = [common EXCEPT ![account] = @ + amount]

\* Mutant of GpoIncreased: the total is forgotten.
GpoFundOnly(g, amount) == [g EXCEPT !.fund = @ + amount]

GpoIncreased(g, amount) == [g EXCEPT !.total = @ + amount, !.fund = @ + amount]

transfer_to_common_tokens(from, to, amount) ==
    /\ Covers(balance, from, DEIP, amount)
    /\ balance' = adjust_account_balance(balance, from, DEIP, -amount)
    /\ increase_common_tokens(to, amount)
    /\ gpo' = GpoIncreased(gpo, amount)
    /\ UNCHANGED <<frozen, supply, tokenized, withdrawal, routes, unpaid>>

\* dbs_account::update_withdraw
update_withdraw(account, rate, next, to_withdraw) ==
    withdrawal' = [withdrawal EXCEPT ![account] =
        [rate |-> rate, next |-> next, to_withdraw |-> to_withdraw, withdrawn |-> 0]]

withdraw_common_tokens(account, total) ==
    LET rate == Max({total \div WithdrawIntervals, 1})
    IN  /\ common[account] >= total
        /\ common[account] > MinCommonTokens \/ total = 0
        /\ \/ /\ total = 0
              /\ withdrawal[account].rate # 0
              /\ update_withdraw(account, 0, Never, 0)
           \/ /\ total # 0
              /\ withdrawal[account].rate # rate
              /\ update_withdraw(account, rate, now + WithdrawInterval, total)
        /\ UNCHANGED <<balanceVars, common, routes, gpo, unpaid>>

\* The range upper_bound(from, account_id_type()) opens leaves out a route
\* to the account with id 0.
RoutesOf(rs, from) == {to \in Accounts : rs[from][to].percent > 0 /\ to > 0}

set_withdraw_common_tokens_route(from, to, percent, auto) ==
    LET exists == routes[from][to].percent > 0
        rs     == [routes EXCEPT ![from][to] =
                      IF percent = 0 THEN NoRoute ELSE [percent |-> percent, auto |-> auto]]
    IN  /\ ~exists => /\ percent # 0
                      /\ Cardinality({a \in Accounts : routes[from][a].percent > 0}) < MaxRoutes
        /\ SumFunction([a \in RoutesOf(rs, from) |-> rs[from][a].percent]) <= HundredPercent
        /\ routes' = rs
        /\ UNCHANGED <<balanceVars, common, withdrawal, gpo, unpaid>>

-----------------------------------------------------------------------------
(* At the end of a block *)

\* One due account of process_common_tokens_withdrawals, on the state r left
\* by the accounts before it: deposits along the routes round down, the
\* account itself is paid what they leave.
WithdrawOne(r, from) ==
    LET w      == r.withdrawal[from]
        amount == Min({r.common[from],
                       IF w.to_withdraw - w.withdrawn < w.rate
                       THEN w.to_withdraw % w.rate ELSE w.rate})
        share(to) == (amount * routes[from][to].percent) \div HundredPercent
        autos  == {to \in RoutesOf(routes, from) : routes[from][to].auto}
        others == RoutesOf(routes, from) \ autos
        deip   == SumFunction([a \in others |-> share(a)])
        rest   == amount - deip - SumFunction([a \in autos |-> share(a)])
        left   == r.common[from] + (IF from \in autos THEN share(from) ELSE 0) - amount
        done   == w.withdrawn + amount
        over   == done >= w.to_withdraw \/ left = 0
    IN  [b          |-> [a \in Accounts |-> [r.b[a] EXCEPT ![DEIP] =
                            @ + (IF a \in others THEN share(a) ELSE 0)
                              + (IF a = from THEN rest ELSE 0)]],
         common     |-> [a \in Accounts |-> r.common[a]
                              + (IF a \in autos THEN share(a) ELSE 0)
                              - (IF a = from THEN amount ELSE 0)],
         withdrawal |-> [r.withdrawal EXCEPT ![from] =
                            [w EXCEPT !.withdrawn = done,
                                      !.rate = IF over THEN 0 ELSE @,
                                      !.next = IF over THEN Never ELSE @ + WithdrawInterval]],
         gpo        |-> [r.gpo EXCEPT !.fund = @ - deip - rest, !.total = @ - deip - rest],
         ok         |-> r.ok /\ rest >= 0]

\* The due accounts, and the last of some in the order of the index
\* by_next_common_tokens_withdrawal.
Due(time) == {a \in Accounts : withdrawal[a].next # Never /\ withdrawal[a].next <= time}

LastDue(due) ==
    CHOOSE a \in due : \A b \in due : \/ withdrawal[b].next < withdrawal[a].next
                                      \/ withdrawal[b].next = withdrawal[a].next /\ b <= a

\* The due accounts in the order of the index.  Blocks are at most
\* WithdrawInterval apart (Ledger assumes it), so no account is due twice in
\* a block and one pass over Due is the whole loop.
process_common_tokens_withdrawals(r, time) ==
    MapThenFoldSet(LAMBDA from, before : WithdrawOne(before, from), r,
                   LAMBDA from : from, LastDue, Due(time))

\* process_funds: the contribution part is added to the supply, and
\* distribute_reward pays it to no balance; the witness part becomes common
\* tokens of the witness.
process_funds(g, cs, witness) ==
    LET emitted      == g.supply \div EmissionDivisor
        contribution == (emitted * ContributionPercent) \div HundredPercent
        reward       == ((emitted - contribution) * WitnessWeight) \div PayNormalization
    IN  [gpo    |-> GpoIncreased([g EXCEPT !.supply = @ + contribution + reward], reward),
         common |-> [cs EXCEPT ![witness] = @ + reward],
         unpaid |-> contribution]

CommonOps ==
    \/ \E from, to \in Accounts, n \in Amounts : transfer_to_common_tokens(from, to, n)
    \/ \E a \in Accounts, n \in Amounts \cup {0} : withdraw_common_tokens(a, n)
    \/ \E from, to \in Accounts, p \in Percents, auto \in BOOLEAN :
          set_withdraw_common_tokens_route(from, to, p, auto)
=============================================================================
