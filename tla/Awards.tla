------------------------------- MODULE Awards -------------------------------
(***************************************************************************)
(* Grants with officer evaluation: a funding opportunity announcement      *)
(* holds the grantor's money, awards split it between an awardee,          *)
(* subawardees and a university, and recipients withdraw what they were    *)
(* awarded through requests that are certified, approved and paid.  The    *)
(* model follows one announcement; who may act (members, officers) does    *)
(* not change state and is left out.                                       *)
(***************************************************************************)
EXTENDS Balances

CONSTANTS GrantAsset,          \* the asset of the announcement
          USD,                 \* DEIP_USD_SYMBOL
          University,          \* creator of the university group
          Treasury,            \* creator of the treasury group
          AwardTerms,          \* the awards a creator may propose
          MaxAwards, MaxRequests

\* A term names the awardee, the amount, the university's overhead and the
\* subawards: records with the subawardee "to", his "source" and the amount.
ASSUME AwardsAssumption ==
    /\ {GrantAsset, USD} \subseteq IssuableAssets /\ GrantAsset # USD
    /\ {University, Treasury} \subseteq Accounts
    /\ MaxAwards \in Nat /\ MaxRequests \in Nat
    /\ \A t \in AwardTerms :
          /\ t.amount \in Nat \ {0} /\ t.overhead \in Nat /\ 2 * t.overhead <= HundredPercent
          /\ t.awardee \in Accounts /\ IsFiniteSet(t.subs)
          /\ \A s \in t.subs : s.to \in Accounts /\ s.amount \in Int

VARIABLES foa,           \* current_supply of the announcement, NoEntry before it
          awards,        \* award_objects with the expenses of their recipients
          requests       \* award_withdrawal_request_objects

awardVars == <<foa, awards, requests>>

-----------------------------------------------------------------------------
create_grant(grantor, amount) ==
    /\ foa = NoEntry
    /\ Covers(balance, grantor, GrantAsset, amount)
    /\ balance' = adjust_account_balance(balance, grantor, GrantAsset, -amount)
    /\ foa' = amount
    /\ UNCHANGED <<frozen, supply, tokenized, awards, requests>>

SubawardsFrom(t, source) ==
    SumFunction([s \in {r \in t.subs : r.source = source} |-> s.amount])

UniversityFee(t) == (t.amount * t.overhead) \div HundredPercent

\* create_award_operation's validate_awardees.  That a subaward exceeds the
\* subawards taken from it is only asked below the first level.
validate_awardees(t) ==
    LET named == {s.to : s \in t.subs}
    IN  /\ t.amount > SubawardsFrom(t, t.awardee) + UniversityFee(t)
        /\ t.awardee \notin named
        /\ t.subs # {} => \E s \in t.subs : s.source = t.awardee
        /\ \A s \in t.subs :
              /\ s.amount > 0
              /\ \A r \in t.subs : r.to = s.to => r = s
              /\ ~\E r \in t.subs : s.source = r.to /\ r.source = s.to
              /\ s.source # t.awardee => /\ s.source \in named
                                         /\ s.amount > SubawardsFrom(t, s.to)

Recipients(t) == {t.awardee} \cup {s.to : s \in t.subs}

\* Mutant of TotalAmount: the awardee is given the university's fee as well.
TotalBeforeFee(t, who) ==
    (IF who = t.awardee THEN t.amount ELSE (CHOOSE s \in t.subs : s.to = who).amount)
        - SubawardsFrom(t, who)

\* awards_map: what each recipient keeps after fee and subawards.
TotalAmount(t, who) ==
    IF who = t.awardee THEN t.amount - UniversityFee(t) - SubawardsFrom(t, who)
    ELSE (CHOOSE s \in t.subs : s.to = who).amount - SubawardsFrom(t, who)

create_award(t) ==
    /\ validate_awardees(t)
    /\ foa >= t.amount
    /\ Len(awards) < MaxAwards
    /\ awards' = Append(awards, [terms |-> t, status |-> "pending",
                                 expenses |-> [who \in Recipients(t) |-> 0]])
    /\ UNCHANGED <<balanceVars, foa, requests>>

\* A recipient's total may be negative, and is then taken from his balance.
Awarded(t) ==
    LET withFee == adjust_account_balance(balance, University, GrantAsset, UniversityFee(t))
    IN  [ok |-> \A who \in Recipients(t) : withFee[who][GrantAsset] + TotalAmount(t, who) >= 0
                                           \/ TotalAmount(t, who) >= 0,
         b  |-> [a \in Accounts |-> [withFee[a] EXCEPT ![GrantAsset] =
                    @ + (IF a \in Recipients(t) THEN TotalAmount(t, a) ELSE 0)]]]

\* adjust_funding_opportunity_supply wants something left.
approve_award(i) ==
    LET t == awards[i].terms
    IN  /\ awards[i].status = "pending"
        /\ Awarded(t).ok
        /\ foa - t.amount > 0
        /\ balance' = Awarded(t).b
        /\ foa' = foa - t.amount
        /\ awards' = [awards EXCEPT ![i].status = "approved"]
        /\ UNCHANGED <<frozen, supply, tokenized, requests>>

reject_award(i) ==
    /\ awards[i].status = "pending"
    /\ awards' = [awards EXCEPT ![i].status = "rejected"]
    /\ UNCHANGED <<balanceVars, foa, requests>>

-----------------------------------------------------------------------------
(* Withdrawal requests *)

Unspent(i, who) == TotalAmount(awards[i].terms, who) - awards[i].expenses[who]

create_award_withdrawal_request(i, who, amount) ==
    /\ awards[i].status = "approved"
    /\ Unspent(i, who) >= amount
    /\ Len(requests) < MaxRequests
    /\ requests' = Append(requests, [award |-> i, requester |-> who, amount |-> amount,
                                     status |-> "pending"])
    /\ UNCHANGED <<balanceVars, foa, awards>>

\* certify, approve and reject: the request moves on from the given statuses.
UpdateRequest(r, from, to) ==
    /\ requests[r].status \in from
    /\ requests' = [requests EXCEPT ![r].status = to]
    /\ UNCHANGED <<balanceVars, foa, awards>>

certify_award_withdrawal_request(r) == UpdateRequest(r, {"pending"}, "certified")
approve_award_withdrawal_request(r) == UpdateRequest(r, {"certified"}, "approved")
reject_award_withdrawal_request(r)  == UpdateRequest(r, {"pending", "certified"}, "rejected")

\* Mutant of StillUnspent: what the request checked when it was filed.
WasUnspent(w) == TotalAmount(awards[w.award].terms, w.requester) >= w.amount

StillUnspent(w) == Unspent(w.award, w.requester) >= w.amount

\* The grant asset is burnt from its supply but stays on the recipient's
\* balance; the payout, one to one, comes from the treasury's creator.
pay_award_withdrawal_request(r) ==
    LET w     == requests[r]
        payee == adjust_account_balance(balance, w.requester, USD, w.amount)
    IN  /\ w.status = "approved"
        /\ StillUnspent(w)
        /\ SupplyAdjusts(GrantAsset, -w.amount)
        /\ Covers(payee, Treasury, USD, w.amount)
        /\ awards'   = [awards EXCEPT ![w.award].expenses[w.requester] = @ + w.amount]
        /\ supply'   = [supply EXCEPT ![GrantAsset] = @ - w.amount]
        /\ balance'  = adjust_account_balance(payee, Treasury, USD, -w.amount)
        /\ requests' = [requests EXCEPT ![r].status = "paid"]
        /\ UNCHANGED <<frozen, tokenized, foa>>

AwardOps ==
    \/ \E a \in Accounts, n \in Amounts : create_grant(a, n)
    \/ \E t \in AwardTerms : create_award(t)
    \/ \E i \in DOMAIN awards :
          \/ approve_award(i)
          \/ reject_award(i)
          \/ \E who \in Recipients(awards[i].terms), n \in Amounts :
                create_award_withdrawal_request(i, who, n)
    \/ \E r \in DOMAIN requests :
          \/ certify_award_withdrawal_request(r)
          \/ approve_award_withdrawal_request(r)
          \/ reject_award_withdrawal_request(r)
          \/ pay_award_withdrawal_request(r)

\* What the announcement holds, and what has been paid out of awards.
InGrant == IF foa = NoEntry THEN 0 ELSE foa
Expenses == SumFunction([i \in DOMAIN awards |-> SumFunction(awards[i].expenses)])

\* No recipient is paid more than he was awarded, however many requests were
\* filed, certified and approved while the same money was still unspent
\* (create_award_withdrawal_request checks the amount long before the payment),
\* and what he was paid is what the paid requests add up to.
PaidWithinAward ==
    \A i \in DOMAIN awards : \A who \in Recipients(awards[i].terms) :
        LET paid == {r \in DOMAIN requests : /\ requests[r].award = i
                                             /\ requests[r].requester = who
                                             /\ requests[r].status = "paid"}
            sum  == SumFunction([r \in paid |-> requests[r].amount])
        IN  /\ sum = awards[i].expenses[who]
            /\ sum > 0 => sum <= TotalAmount(awards[i].terms, who)
=============================================================================
