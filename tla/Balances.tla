------------------------------ MODULE Balances ------------------------------
(***************************************************************************)
(* Account balances and assets: the tables account_balance_object and      *)
(* asset_object with the services that change them.  Every component that  *)
(* moves money (token sales, vesting contracts, common tokens, awards)     *)
(* extends this module and moves it with the operators defined here.       *)
(* Accounts are their ids: 0, 1, 2, ... in the order of creation.  Every   *)
(* account has a balance object for the default assets, so an absent       *)
(* balance object and an empty one are not told apart.                     *)
(***************************************************************************)
EXTENDS Integers, Sequences, FiniteSets, FiniteSetsExt

CONSTANTS Accounts,      \* account ids
          DEIP,          \* the core asset
          Token,         \* the research security token
          Assets,        \* all assets
          IssuableAssets,\* the assets some account issues: not the core asset
          MaxSupply,     \* asset_object::max_supply
          HundredPercent,\* DEIP_100_PERCENT
          Amounts        \* the amounts the operations name

ASSUME BalancesAssumption ==
    /\ Accounts \subseteq Nat /\ IsFiniteSet(Accounts)
    /\ {DEIP, Token} \subseteq Assets
    /\ DEIP # Token
    /\ Token \in IssuableAssets /\ IssuableAssets \subseteq Assets \ {DEIP}
    /\ MaxSupply \in Nat /\ HundredPercent \in Nat \ {0}
    /\ Amounts \subseteq Nat \ {0}

VARIABLES now,           \* head_block_time: the time of the last block
          balance,       \* account_balance_object::amount, per account and asset
          frozen,        \* account_balance_object::frozen_amount of Token
          supply,        \* asset_object::current_supply
          tokenized      \* research_object::security_tokens: the amount recorded
                         \* for Token, NoEntry before it is first issued

balanceVars == <<balance, frozen, supply, tokenized>>

NoEntry == -1

-----------------------------------------------------------------------------
(* dbs_account_balance *)

\* A negative delta needs the funds; the callers' guards say so with Covers.
adjust_account_balance(b, owner, symbol, delta) ==
    [b EXCEPT ![owner][symbol] = @ + delta]

Covers(b, owner, symbol, amount) == b[owner][symbol] >= amount

freeze_account_balance(account, amount) ==
    /\ balance' = adjust_account_balance(balance, account, Token, -amount)
    /\ frozen'  = [frozen EXCEPT ![account] = @ + amount]

\* unfreeze_account_balance: what the two tables become; the assertion on the frozen amount is a guard
\* of the callers.
UnfreezeBalance(b, account, amount) == adjust_account_balance(b, account, Token, amount)

\* Mutant of UnfreezeFrozen: the frozen amount stays.
StaysFrozen(f, account, amount) == f

UnfreezeFrozen(f, account, amount) == [f EXCEPT ![account] = @ - amount]

\* dbs_asset::adjust_asset_current_supply
SupplyAdjusts(symbol, delta) == supply[symbol] + delta \in 0..MaxSupply

-----------------------------------------------------------------------------
(* The evaluators *)

transfer(from, to, symbol, amount) ==
    /\ Covers(balance, from, symbol, amount)
    /\ balance' = adjust_account_balance(
                      adjust_account_balance(balance, from, symbol, -amount),
                      to, symbol, amount)
    /\ UNCHANGED <<frozen, supply, tokenized>>

\* issue_asset_operation: balance and supply move together, and for the
\* security token the amount the research records with them.
issue_asset(symbol, recipient, amount) ==
    /\ SupplyAdjusts(symbol, amount)
    /\ balance'   = adjust_account_balance(balance, recipient, symbol, amount)
    /\ supply'    = [supply EXCEPT ![symbol] = @ + amount]
    /\ tokenized' = IF symbol # Token THEN tokenized
                    ELSE IF tokenized = NoEntry THEN amount ELSE tokenized + amount
    /\ UNCHANGED frozen

reserve_asset(symbol, owner, amount) ==
    /\ Covers(balance, owner, symbol, amount)
    /\ SupplyAdjusts(symbol, -amount)
    /\ balance'   = adjust_account_balance(balance, owner, symbol, -amount)
    /\ supply'    = [supply EXCEPT ![symbol] = @ - amount]
    /\ tokenized' = IF symbol = Token /\ tokenized # NoEntry THEN tokenized - amount
                    ELSE tokenized
    /\ UNCHANGED frozen

BalancesOps ==
    \/ \E from, to \in Accounts, s \in Assets, n \in Amounts : transfer(from, to, s, n)
    \/ \E a \in Accounts, s \in IssuableAssets, n \in Amounts :
          issue_asset(s, a, n) \/ reserve_asset(s, a, n)

\* What the accounts hold of an asset, spendable or frozen.
OnAccounts(symbol) ==
    SumFunction([a \in Accounts |->
                    balance[a][symbol] + (IF symbol = Token THEN frozen[a] ELSE 0)])
=============================================================================
