------------------------------ MODULE Licenses ------------------------------
(***************************************************************************)
(* Licences of a research: the licensee pays a fee, the holders of the     *)
(* research's security token share it by what they hold, and the rest goes *)
(* to the research group.  The licence itself is a record nobody reads.    *)
(***************************************************************************)
EXTENDS TokenSale

\* license_revenue_holders_share of the token: everything, when the token was
\* created with the licence revenue trait, or nothing.
CONSTANTS HoldersShare

ASSUME LicensesAssumption == HoldersShare \in {0, HundredPercent}

\* What an account earns of the part of the fee that the holders get: frozen
\* tokens earn nothing but count in the supply, and every share is truncated.
Revenue(fee, a) ==
    LET share == (fee * HoldersShare) \div HundredPercent
    IN  (share * balance[a][Token]) \div supply[Token]

\* The token has been issued, so it has balance objects and calculate_share
\* refuses a supply of zero.
create_research_license(licensee, symbol, fee) ==
    /\ supply[Token] # 0
    /\ Covers(balance, licensee, symbol, fee)
    /\ LET total  == SumFunction([a \in Accounts |-> Revenue(fee, a)])
           earned == [a \in Accounts |-> [balance[a] EXCEPT ![symbol] = @ + Revenue(fee, a)]]
       IN  /\ total <= fee
           /\ balance' = adjust_account_balance(
                             adjust_account_balance(earned, Group, symbol, fee - total),
                             licensee, symbol, -fee)
    /\ UNCHANGED <<frozen, supply, tokenized, saleVars>>

LicenseOps ==
    \E a \in Accounts, s \in Assets, n \in Amounts : create_research_license(a, s, n)
=============================================================================
