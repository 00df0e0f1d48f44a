---------------------------- MODULE MCGovernance ----------------------------
(* A group of two members, one of whom is represented by carol; the owner   *)
(* authority of the group is the same two.                                  *)
EXTENDS Governance

Auth(threshold, accounts, keys) == [threshold |-> threshold, accounts |-> accounts, keys |-> keys]
Key(k)  == Auth(1, [a \in {} |-> 0], k)
Both    == Auth(2, [a \in {"alice", "bob"} |-> 1], "none")
Newer   == Auth(2, [a \in {"bob", "carol"} |-> IF a = "bob" THEN 2 ELSE 1], "none")
Carol   == Auth(1, [a \in {"carol"} |-> 1], "none")

MCNames       == <<"alice", "bob", "carol", "group">>
MCOwnerAuths  == {Key("k1"), Key("k2")}
MCOpen        == Auth(0, [a \in {} |-> 0], "none")
MCFirstActive == [a \in Accounts |-> CASE a = "group" -> Both [] a = "alice" -> Carol [] OTHER -> Key(a)]
MCFirstOwner  == [a \in Accounts |-> IF a = "group" THEN Both ELSE Key(a)]

Spends          == [type |-> "spend", by |-> "group"]
Members(auth)   == [type |-> "members", by |-> "group", auth |-> auth]
Owner(auth)     == [type |-> "owner", by |-> "group", auth |-> auth]
Override(t, au) == [type |-> "override", by |-> "group", tag |-> t, auth |-> au]
Approve(p)      == [type |-> "approve", by |-> "group", id |-> p]
Unapprove(p, a) == [type |-> "unapprove", by |-> a, id |-> p]
Create(p, t)    == [type |-> "create", by |-> "group", id |-> p, after |-> t]
Delete(p)       == [type |-> "delete", by |-> "group", id |-> p]

\* 1 spends twice, and fails half way when something has been spent before;
\* 2 spends and hands the group over to other members; 3, after a review,
\* approves 1 in the name of the group, which then runs inside it, and fails
\* if nothing is left to spend; 4, after a review, replaces both authorities;
\* 5 deletes 1 and creates 2; 6 spends and takes back an approval of its own,
\* which makes it run within itself when the others suffice; 7 has the transfers
\* depend on carol.
MCTerms ==
    [p \in Ids |->
        CASE p = 1 -> [ops |-> <<Spends, Spends>>, lifetime |-> 3, review |-> 0]
          [] p = 2 -> [ops |-> <<Members(Newer), Spends>>, lifetime |-> 2, review |-> 0]
          [] p = 3 -> [ops |-> <<Approve(1), Spends>>, lifetime |-> 2, review |-> 1]
          [] p = 4 -> [ops |-> <<Owner(Key("k2")), Members(Newer)>>, lifetime |-> 2, review |-> 1]
          [] p = 5 -> [ops |-> <<Delete(1), Create(2, 1)>>, lifetime |-> 2, review |-> 0]
          [] p = 6 -> [ops |-> <<Spends, Unapprove(6, "bob")>>, lifetime |-> 2, review |-> 0]
          [] p = 7 -> [ops |-> <<Override("spend", Carol)>>, lifetime |-> 1, review |-> 0]]

MCApprovals == {[kind |-> "active", account |-> a] : a \in {"bob", "carol"}}
               \cup {[kind |-> "owner", account |-> "group"]}

MCScenarios == {[parts |-> {"recovery"}, ids |-> {}, ops |-> 5],
                [parts |-> {"proposals"}, ids |-> {1, 2, 3}, ops |-> 5],
                [parts |-> {"proposals"}, ids |-> {1, 2, 5}, ops |-> 5],
                [parts |-> {"proposals", "members"}, ids |-> {1}, ops |-> 5],
                [parts |-> {"proposals", "members"}, ids |-> {6, 7}, ops |-> 5],
                [parts |-> {"proposals", "recovery", "members"}, ids |-> {2, 4}, ops |-> 3]}
=============================================================================
