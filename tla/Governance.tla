----------------------------- MODULE Governance -----------------------------
(***************************************************************************)
(* Authorities, account recovery and proposals over the same accounts: a   *)
(* proposal may change the authorities by which others, and account        *)
(* recovery, are judged.  A block ends with clear_expired_recent_entities, *)
(* clear_expired_proposals and process_account_recovery, in this order.    *)
(***************************************************************************)
EXTENDS Proposals

CONSTANTS FirstActive, FirstOwner,   \* the authorities at the start
          FirstMembers, FirstPartner,
          MaxTime,
          Scenarios                  \* the operations and proposals a behaviour may
                                     \* use, and how many

VARIABLES scenario, ops

vars == <<now, authorityVars, recoveryVars, proposalVars, scenario, ops>>

Init ==
    /\ InitAccounts(FirstActive, FirstOwner, FirstPartner)
    /\ InitProposals(FirstMembers)
    /\ scenario \in Scenarios
    /\ ops = 0

Operation ==
    /\ ops < scenario.ops
    /\ ops' = ops + 1
    /\ \/ "recovery" \in scenario.parts /\ RecoveryOps /\ UNCHANGED proposalVars
       \/ "proposals" \in scenario.parts /\ ProposalOps(scenario.ids)
       \/ "members" \in scenario.parts /\ MembershipOps
    /\ UNCHANGED <<now, scenario>>

EndBlock ==
    \E forgotten \in SUBSET Forgettable(now + 1) :
        LET time == now + 1
            s    == clear_expired_proposals([Database EXCEPT !.recent = @ \ forgotten], time)
        IN  /\ time <= MaxTime
            /\ now' = time
            /\ Becomes(s)
            /\ process_account_recovery(s.history, time)
            /\ UNCHANGED <<last_recovery, scenario, ops>>

Next == Operation \/ EndBlock

Spec == Init /\ [][Next]_vars

-----------------------------------------------------------------------------
\* After every block the history holds exactly the owner authorities that
\* ended within the recovery period, whoever ended them (an update, a
\* recovery, a proposal), in a block from which on the history is kept: the
\* loop of process_account_recovery that stops at the first recent entry drops
\* nothing too early and leaves nothing behind.  (Before that block, 3186477 on
\* the live network, nothing is kept and no account can be recovered.)
HistoryIsRecent ==
    history = SelectSeq(owner_log, LAMBDA h : /\ h.until >= HistoryStart
                                              /\ h.until + RecoveryPeriod >= now)

\* Whoever takes over an account by changing its owner authority cannot shake
\* off the recovery partner in time: until the recovery period has passed, the
\* partner is one that was asked for before the authority ended, however the
\* change requests are filed, replaced and withdrawn meanwhile.
PartnerOutlastsTheft ==
    \A i \in DOMAIN owner_log :
        now < owner_log[i].until + RecoveryPeriod
            => partner[owner_log[i].account].asked < owner_log[i].until
=============================================================================
