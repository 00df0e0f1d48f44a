------------------------------- MODULE Ledger -------------------------------
(***************************************************************************)
(* What moves money, over the same balances: transfers and asset issue,    *)
(* research token sales, licence fees, common tokens, vesting contracts,   *)
(* grants and awards, what earns expertise, and the part of block          *)
(* application that settles sales, emits new money, rewards reviews and    *)
(* pays withdrawals.  The set of accounts is fixed: the fee of creating an *)
(* account, which becomes common tokens of the new one, makes the same     *)
(* entries as transfer_to_common_tokens to another account.  Grants out of *)
(* a discipline's supply are not modelled.  An operation whose assertions  *)
(* fail changes nothing, since its transaction is undone, so it is a       *)
(* disabled action; a block whose processing fails is not applied.         *)
(***************************************************************************)
EXTENDS Licenses, CommonTokens, Vesting, Awards, Expertise

CONSTANTS BlockGaps,     \* how far apart blocks may be (missed slots)
          MaxTime,
          Scenarios      \* the components a behaviour exercises together and the
                         \* number of operations, so that they are explored in groups

ASSUME LedgerAssumption ==
    /\ BlockGaps \subseteq 1..WithdrawInterval
    /\ MaxTime \in Nat
    /\ \A s \in Scenarios :
          /\ s.parts \subseteq {"balances", "sale", "licenses", "common", "vesting", "awards", "teams", "reviews"}
          /\ s.ops \in Nat

VARIABLES scenario, ops

vars == <<now, balanceVars, saleVars, commonVars, vesting, awardVars, expertiseVars, scenario, ops>>

\* init_genesis: the accounts hold the supply of every asset and the registrar
\* (account 0) some common tokens; the research's token has been issued.
CONSTANTS Genesis, RegistrarCommon

ASSUME GenesisAssumption ==
    /\ 0 \in Accounts
    /\ Genesis \in [Accounts -> [Assets -> Nat]] /\ RegistrarCommon \in Nat

Init ==
    /\ now = 0 /\ ops = 0
    /\ scenario \in Scenarios
    /\ balance = Genesis
    /\ frozen = [a \in Accounts |-> 0]
    /\ supply = [s \in Assets |-> OnAccounts(s) + (IF s = DEIP THEN RegistrarCommon ELSE 0)]
    /\ tokenized = OnAccounts(Token)
    /\ sale = NoSale /\ contributions = <<>>
    /\ common = [a \in Accounts |-> IF a = 0 THEN RegistrarCommon ELSE 0]
    /\ withdrawal = [a \in Accounts |-> Idle]
    /\ routes = [a \in Accounts |-> [b \in Accounts |-> NoRoute]]
    /\ gpo = [supply |-> OnAccounts(DEIP) + RegistrarCommon,
              fund |-> RegistrarCommon, total |-> RegistrarCommon]
    /\ unpaid = 0
    /\ vesting = <<>>
    /\ foa = NoEntry /\ awards = <<>> /\ requests = <<>>
    /\ InitExpertise

-----------------------------------------------------------------------------
Exercised(component) == component \in scenario.parts

\* One operation of a transaction.
Operation ==
    /\ ops < scenario.ops
    /\ ops' = ops + 1
    /\ \/ /\ Exercised("balances") /\ BalancesOps
          /\ UNCHANGED <<saleVars, commonVars, vesting, awardVars, expertiseVars>>
       \/ /\ Exercised("sale") /\ SaleOps
          /\ UNCHANGED <<commonVars, vesting, awardVars, expertiseVars>>
       \/ /\ Exercised("licenses") /\ LicenseOps
          /\ UNCHANGED <<commonVars, vesting, awardVars, expertiseVars>>
       \/ /\ Exercised("common") /\ CommonOps
          /\ UNCHANGED <<saleVars, vesting, awardVars, expertiseVars>>
       \/ /\ Exercised("vesting") /\ VestingOps
          /\ UNCHANGED <<saleVars, commonVars, awardVars, expertiseVars>>
       \/ /\ Exercised("awards") /\ AwardOps
          /\ UNCHANGED <<saleVars, commonVars, vesting, expertiseVars>>
       \/ /\ Exercised("teams") /\ TeamOps
          /\ UNCHANGED <<balanceVars, saleVars, commonVars, vesting, awardVars>>
       \/ /\ Exercised("reviews") /\ ReviewOps
          /\ UNCHANGED <<balanceVars, saleVars, commonVars, vesting, awardVars>>
    /\ UNCHANGED <<now, scenario>>

\* The steps of _apply_block after the transactions, in its order, at the
\* block's own time.  A failed assertion refuses the block.
EndBlock(gap, witness) ==
    LET time  == now + gap
        sold  == process_research_token_sales(time)
        funds == process_funds(gpo, common, witness)
        dealt == distribute_reward(time)
        paid  == process_common_tokens_withdrawals(
                     [b |-> sold.b, common |-> funds.common, withdrawal |-> withdrawal,
                      gpo |-> funds.gpo, ok |-> sold.ok], time)
    IN  /\ time <= MaxTime
        /\ paid.ok /\ dealt.ok
        /\ now' = time
        /\ sale' = sold.sale /\ contributions' = sold.cs /\ frozen' = sold.f
        /\ balance' = paid.b /\ common' = paid.common
        /\ withdrawal' = paid.withdrawal /\ gpo' = paid.gpo
        /\ unpaid' = unpaid + funds.unpaid
        /\ expert' = dealt.expert /\ expertise' = dealt.expertise
        /\ total_expertise' = dealt.total /\ clamped' = dealt.clamped
        /\ contribution' = DiffsCleared /\ altered' = <<>>
        /\ UNCHANGED <<supply, tokenized, routes, vesting, awardVars, scenario, ops>>
        /\ UNCHANGED <<rgt, researches, contents, reviewVars>>

Next == Operation \/ \E gap \in BlockGaps, w \in Witnesses : EndBlock(gap, w)

Spec == Init /\ [][Next]_vars

-----------------------------------------------------------------------------
\* Money is neither made nor lost: after any mix of operations and blocks the
\* supply of an asset is what accounts, sales, vesting contracts, the common
\* tokens' fund and grants hold together.  Two places of the code are named
\* by the equation: the contribution rewards process_funds adds to the supply
\* and pays to no balance, and the award payments, which burn the supply but
\* leave the tokens with the recipient.  (database::validate_invariants checks
\* the first line without "unpaid".)
HeldIsSupply ==
    /\ gpo.supply = OnAccounts(DEIP) + Contributed + InVesting + gpo.fund + unpaid
    /\ \A s \in Assets \ {DEIP} :
          OnAccounts(s) + (IF s = GrantAsset THEN InGrant ELSE 0)
              = supply[s] + (IF s = GrantAsset THEN Expenses ELSE 0)

\* Every common token is backed: fund, total and the accounts' stakes agree
\* through deposits, emission and instalments that are split over routes,
\* whose roundings may not leak, and no stake is overdrawn.
CommonTokensBacked ==
    /\ gpo.fund = gpo.total
    /\ gpo.total = SumFunction(common)
    /\ \A a \in Accounts : common[a] >= 0

\* A sale that is open holds exactly what was frozen for it and what its
\* contributors paid, never beyond the hard cap, and a sale that is over
\* holds nothing: whoever sells, buys, transfers or reserves meanwhile, the
\* settlement can unfreeze and refund everything.  No account is overdrawn.
SaleHoldsItsStakes ==
    /\ \A a \in Accounts :
          frozen[a] = IF SaleIsOpen /\ a = Group THEN sale.on_sale ELSE 0
    /\ Contributed = IF SaleIsOpen THEN sale.total ELSE 0
    /\ SaleIsOpen => sale.total < sale.hard_cap
    /\ \A a \in Accounts, s \in Assets : balance[a][s] >= 0

\* A sale that reached its soft cap can be settled: finish_research_token_sale
\* gives out what was put on sale and none of its assertions fails.
SaleCanBeSettled ==
    sale.status = "active" /\ sale.total >= sale.soft_cap
        => finish_research_token_sale(sale, contributions, balance, frozen).ok
=============================================================================
