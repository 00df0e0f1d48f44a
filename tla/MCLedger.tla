------------------------------ MODULE MCLedger ------------------------------
(* Small ledgers.  Account 0 is the registrar and the grantor, account 1 owns *)
(* the research group and university, account 2 the treasury.                 *)
EXTENDS Ledger

MCAssets == {"DEIP", "TOKEN", "GRANT", "USD"}

MCGenesis ==
    [a \in Accounts |->
        [s \in MCAssets |-> CASE s = "DEIP"  -> 20
                              [] s = "TOKEN" -> IF a = 1 THEN 5 ELSE 0
                              [] s = "GRANT" -> IF a = 0 THEN 5 ELSE a \div 2
                              [] s = "USD"   -> IF a = 2 THEN 4 ELSE 0]]

MCSaleTerms ==
    {[on_sale |-> 3, soft_cap |-> 3, hard_cap |-> 7, start |-> 0, end |-> 2],
     [on_sale |-> 5, soft_cap |-> 2, hard_cap |-> 5, start |-> 1, end |-> 3]}

MCVestingTerms == {[duration |-> 4, period |-> 2, cliff |-> 1],
                   [duration |-> 3, period |-> 1, cliff |-> 2]}

MCAwardTerms ==
    {[awardee |-> 1, amount |-> 4, overhead |-> 2500, subs |-> {}],
     [awardee |-> 1, amount |-> 4, overhead |-> 0,
      subs |-> {[to |-> 2, source |-> 1, amount |-> 1],
                [to |-> 0, source |-> 2, amount |-> 2]}]}

MCScenarios == {[parts |-> {"sale", "balances"}, ops |-> 3],
                [parts |-> {"sale"}, ops |-> 5],
                [parts |-> {"sale", "licenses", "balances"}, ops |-> 2],
                [parts |-> {"sale", "licenses"}, ops |-> 3],
                [parts |-> {"common"}, ops |-> 3],
                [parts |-> {"sale", "common"}, ops |-> 2],
                [parts |-> {"vesting", "common"}, ops |-> 2],
                [parts |-> {"vesting"}, ops |-> 4],
                [parts |-> {"awards"}, ops |-> 11],
                [parts |-> {"teams"}, ops |-> 4],
                [parts |-> {"reviews"}, ops |-> 4],
                [parts |-> {"teams", "reviews"}, ops |-> 3]}

\* Genetics is a part of biology.  The founder is an organisation: only user
\* accounts are created with expert tokens.  Account 1 has expertise in both,
\* account 2 in genetics and a token of biology that is empty.
MCLineage == [d \in {"biology", "genetics"} |->
                 IF d = "biology" THEN <<"biology">> ELSE <<"genetics", "biology">>]

MCFirstExpertise ==
    [a \in Accounts |-> CASE a = 1 -> [d \in {"biology", "genetics"} |-> 40]
                         [] a = 2 -> [d \in {"biology", "genetics"} |-> IF d = "genetics" THEN 20 ELSE 0]
                         [] OTHER -> <<>>]

\* A sale of all the tokens the group has, and contributions whose shares lie
\* half way between two hundredths of a percent.
MCRoundingGenesis ==
    [a \in Accounts |->
        [s \in MCAssets |-> CASE s = "DEIP"  -> 20000
                              [] s = "TOKEN" -> IF a = 1 THEN 10000 ELSE 0
                              [] OTHER       -> 0]]

MCRoundingTerms == {[on_sale |-> 10000, soft_cap |-> 1, hard_cap |-> 30000,
                     start |-> 0, end |-> 2]}

MCRoundingScenarios == {[parts |-> {"sale"}, ops |-> 3]}
=============================================================================
