------------------------------ MODULE TokenSale ------------------------------
(***************************************************************************)
(* Research token sales: security tokens of a research group are frozen,   *)
(* buyers contribute the core asset until the hard cap is reached or the   *)
(* sale ends, and the block that finds it ended hands the tokens out or    *)
(* refunds the contributions.  A research has one open sale at a time, so  *)
(* the state keeps the latest one; ended sales are never read again.       *)
(***************************************************************************)
EXTENDS Balances, SequencesExt

CONSTANTS Group,         \* the account of the research group
          SaleTerms      \* the sales a group may announce

\* Terms as create_research_token_sale_operation::validate and the evaluator
\* accept them; start and end are relative to the time of the announcement.
ASSUME TokenSaleAssumption ==
    /\ Group \in Accounts
    /\ \A t \in SaleTerms : /\ {t.on_sale, t.soft_cap, t.hard_cap, t.start, t.end} \subseteq Nat
                            /\ t.on_sale > 0
                            /\ t.soft_cap > 0 /\ t.hard_cap > t.soft_cap
                            /\ t.end > t.start

VARIABLES sale,          \* research_token_sale_object of the latest sale
          contributions  \* its research_token_sale_contribution_objects,
                         \* in the order they were made

saleVars == <<sale, contributions>>

NoSale == [status |-> "none", on_sale |-> 0, soft_cap |-> 0, hard_cap |-> 0,
           start |-> 0, end |-> 0, total |-> 0]

SaleIsOpen == sale.status \in {"inactive", "active"}

-----------------------------------------------------------------------------
create_research_token_sale(t) ==
    /\ ~SaleIsOpen
    /\ tokenized # NoEntry
    /\ Covers(balance, Group, Token, t.on_sale)
    /\ freeze_account_balance(Group, t.on_sale)
    /\ sale' = [status |-> "inactive", on_sale |-> t.on_sale,
                soft_cap |-> t.soft_cap, hard_cap |-> t.hard_cap,
                start |-> now + t.start, end |-> now + t.end, total |-> 0]
    /\ UNCHANGED <<contributions, supply, tokenized>>

\* std::round of the contribution's share, in hundredths of a percent, and
\* calculate_share of it, which truncates.
PercentShare(amount, total) == (2 * amount * HundredPercent + total) \div (2 * total)
TokenShare(on_sale, amount, total) ==
    (on_sale * PercentShare(amount, total)) \div HundredPercent

\* contribute(): one row per contributor.
contribute(cs, owner, amount) ==
    LET mine == {i \in DOMAIN cs : cs[i].owner = owner}
    IN  IF mine = {} THEN Append(cs, [owner |-> owner, amount |-> amount])
        ELSE [i \in DOMAIN cs |-> IF i \in mine THEN [cs[i] EXCEPT !.amount = @ + amount]
                                  ELSE cs[i]]

\* One contributor is given his tokens by the group; "ok" is the assertion
\* that the group still has them.
HandOut(s, r, c) ==
    LET n == TokenShare(s.on_sale, c.amount, s.total)
    IN  [b     |-> adjust_account_balance(adjust_account_balance(r.b, Group, Token, -n),
                                          c.owner, Token, n),
         given |-> r.given + n,
         ok    |-> r.ok /\ Covers(r.b, Group, Token, n)]

\* The last contributor takes, or gives back, what rounding left over.
HandOutRest(s, r, last) ==
    LET rest == s.on_sale - r.given
    IN  [b  |-> adjust_account_balance(adjust_account_balance(r.b, last, Token, rest),
                                       Group, Token, -rest),
         ok |-> /\ r.ok
                /\ rest < 0 => Covers(r.b, last, Token, -rest)
                /\ rest > 0 => Covers(r.b, Group, Token, rest)]

\* finish_research_token_sale: the balances it leaves, and whether every
\* assertion on the way holds.
finish_research_token_sale(s, cs, b, f) ==
    LET start == [b |-> UnfreezeBalance(b, Group, s.on_sale), given |-> 0,
                  ok |-> f[Group] >= s.on_sale]
        all   == FoldLeft(LAMBDA r, c : HandOut(s, r, c), start, cs)
        done  == IF cs = <<>> THEN all ELSE HandOutRest(s, all, Last(cs).owner)
    IN  [b  |-> adjust_account_balance(done.b, Group, DEIP, s.total),
         f  |-> UnfreezeFrozen(f, Group, s.on_sale),
         ok |-> done.ok]

refund_research_token_sale(s, cs, b, f) ==
    LET refund(r, c) == adjust_account_balance(r, c.owner, DEIP, c.amount)
    IN  [b  |-> FoldLeft(refund, UnfreezeBalance(b, Group, s.on_sale), cs),
         f  |-> UnfreezeFrozen(f, Group, s.on_sale),
         ok |-> f[Group] >= s.on_sale]

contribute_to_token_sale(contributor, amount) ==
    /\ sale.status = "active"
    /\ Covers(balance, contributor, DEIP, amount)
    /\ LET reached == sale.total + amount >= sale.hard_cap
           paid    == IF reached THEN sale.hard_cap - sale.total ELSE amount
           cs      == contribute(contributions, contributor, paid)
           b       == adjust_account_balance(balance, contributor, DEIP, -paid)
           s       == [sale EXCEPT !.total = @ + paid]
           end     == finish_research_token_sale(s, cs, b, frozen)
       IN  \/ /\ ~reached
              /\ balance' = b /\ sale' = s /\ contributions' = cs
              /\ UNCHANGED frozen
           \/ /\ reached
              /\ end.ok
              /\ balance' = end.b /\ frozen' = end.f
              /\ sale' = [s EXCEPT !.status = "finished"]
              /\ contributions' = <<>>
    /\ UNCHANGED <<supply, tokenized>>

\* process_research_token_sales at the end of a block: what it leaves of the
\* sale, its contributions and the balances.
process_research_token_sales(time) ==
    LET same    == [sale |-> sale, cs |-> contributions, b |-> balance, f |-> frozen, ok |-> TRUE]
        ended   == sale.status = "active" /\ sale.end <= time
        end     == IF sale.total < sale.soft_cap
                   THEN refund_research_token_sale(sale, contributions, balance, frozen)
                   ELSE finish_research_token_sale(sale, contributions, balance, frozen)
        status  == IF sale.total < sale.soft_cap THEN "expired" ELSE "finished"
        started == sale.status = "inactive" /\ sale.start <= time /\ time < sale.end
    IN  CASE ended   -> [sale |-> [sale EXCEPT !.status = status], cs |-> <<>>,
                         b |-> end.b, f |-> end.f, ok |-> end.ok]
          [] started -> [same EXCEPT !.sale.status = "active"]
          [] OTHER   -> same

SaleOps ==
    \/ \E t \in SaleTerms : create_research_token_sale(t)
    \/ \E a \in Accounts, n \in Amounts : contribute_to_token_sale(a, n)

\* What the sale holds of the core asset.
Contributed == SumFunction([i \in DOMAIN contributions |-> contributions[i].amount])
=============================================================================
