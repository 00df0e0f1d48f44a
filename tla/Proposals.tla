------------------------------ MODULE Proposals ------------------------------
(***************************************************************************)
(* Proposals: transactions that wait on the chain for the approvals they   *)
(* need.  A proposal is executed by the update that completes its          *)
(* approvals or, at its expiration, by the block; its operations run in a  *)
(* session of their own and may themselves create, approve or delete other *)
(* proposals.  The operations on proposals and authorities are modelled as *)
(* they are; the rest is one that can fail, "spend", a transfer out of the *)
(* group's balance.  No proposed operation creates an account.  Who signs  *)
(* the transactions is left open: any account may.                         *)
(***************************************************************************)
EXTENDS Accounts

CONSTANTS Group,             \* the research group proposals act for
          Ids,               \* external ids, as numbers
          Terms,             \* for every id: ops, lifetime and review period
          Approvals,         \* the approvals accounts may sign: kind and account
          GroupFunds,        \* the group's balance
          MaxNesting,        \* twice the number of active witnesses
          MaxLifetime,       \* DEIP_MAX_PROPOSAL_LIFETIME_SEC
          EntityLifetime     \* what DEIP_RECENT_ENTITY_LIFETIME_SEC, a macro without
                             \* parentheses, takes off a time: three lifetimes of
                             \* proposals less a block interval

\* Operations are records with the account whose authority they need: "spend";
\* update_account as "members" with a new active authority, "owner" with a new
\* owner authority or "override" with an authority for one type of operation;
\* update_proposal as "approve" or "unapprove"; "delete"; and "create" of a
\* proposal that expires a while after the one it is proposed in.  Ids are
\* numbered such that a proposal creates, approves and deletes only others with
\* smaller ones: one that approves or deletes itself, directly or by way of
\* others, is left out, because push_proposal then touches an object that is
\* no longer there.
ASSUME ProposalsAssumption ==
    /\ Group \in Accounts /\ Ids \subseteq Nat
    /\ GroupFunds \in Nat /\ MaxNesting \in Nat /\ MaxLifetime \in Nat /\ EntityLifetime \in Nat
    /\ \A id \in Ids : /\ Terms[id].ops # <<>>
                       /\ Terms[id].lifetime \in 1..MaxLifetime
                       /\ Terms[id].review \in 0..(Terms[id].lifetime - 1)
                       /\ \A op \in ToSet(Terms[id].ops) :
                             op.type \in {"create", "approve", "delete"} => op.id < id

VARIABLES proposals,     \* proposal_objects by external id
          recent,          \* recent_entity_objects: ids and when they were created
          members,         \* owners of the research_group_token_objects of the group
          funds,
          born,            \* history: when a proposal was last created under an id
          runs,            \* history: how often the id has been executed
          applied,         \* history: how many of its operations have taken effect
          ran,             \* history: time and approvals of the run
          given            \* history: when the standing approvals were given

proposalVars == <<proposals, recent, members, funds, born, runs, applied, ran, given>>

InitProposals(first) ==
    /\ proposals = [id \in Ids |-> None]
    /\ recent = {}
    /\ members = first
    /\ funds = GroupFunds
    /\ born = [id \in Ids |-> -EntityLifetime]
    /\ runs = [id \in Ids |-> 0] /\ applied = [id \in Ids |-> 0]
    /\ ran = [id \in Ids |-> None]
    /\ given = [id \in Ids |-> {}]

-----------------------------------------------------------------------------
(* Authorities *)

\* operation_get_required_authorities of a proposed operation: whether it
\* needs the owner authority of its account, the active one, or both.
NeedsOwner(op) == op.type \in {"owner", "override"}
NeedsActive(op) == op.type # "owner"

\* operation::which
Tag(op) ==
    CASE op.type \in {"members", "owner", "override"} -> "update_account"
      [] op.type \in {"approve", "unapprove"} -> "update_proposal"
      [] OTHER -> op.type

Required(ops) == {op.by : op \in ToSet(ops)}

Overridden(db, op) == NeedsActive(op) /\ Tag(op) \in DOMAIN db.overrides[op.by]

\* verify_authority: every operation whose active authority is overridden needs
\* the override or the owner authority, an approval in the name of the account
\* does not do; then the active and the owner authorities of the others.
\* Whoever was found to have approved is remembered from one to the next.
verify_authority(db, ops, active_approvals, owner_approvals) ==
    LET override(r, op) ==
            IF ~r.ok THEN r
            ELSE AnyOf(db, r.by, <<db.overrides[op.by][Tag(op)], db.owner[op.by]>>, 0)
        act(r, a) ==
            IF ~r.ok \/ a \in r.by THEN r
            ELSE AnyOf(db, r.by, <<db.active[a], db.owner[a], db.owner[a]>>, 0)
        own(r, a) ==
            IF ~r.ok \/ a \in owner_approvals THEN r ELSE AnyOf(db, r.by, <<db.owner[a]>>, 0)
        named(Test(_)) ==
            SelectSeq(Names, LAMBDA a : \E op \in ToSet(ops) : op.by = a /\ Test(op))
        start == [ok |-> TRUE, by |-> active_approvals \cup owner_approvals]
        r1 == FoldLeft(override, start, SelectSeq(ops, LAMBDA op : Overridden(db, op)))
        r2 == FoldLeft(act, r1, named(LAMBDA op : NeedsActive(op) /\ ~Overridden(db, op)))
        r3 == FoldLeft(own, r2, named(NeedsOwner))
    IN  r3.ok

\* proposal_object::is_authorized_to_execute
is_authorized_to_execute(db, id) ==
    verify_authority(db, Terms[id].ops, db.proposals[id].active, db.proposals[id].owner)

\* For comparison, what the approvals amount to: the accounts that approved and
\* whoever has an authority that such accounts satisfy, however deep.
Meets(auth, accounts) ==
    FoldLeft(LAMBDA sum, a : IF a \in accounts \cap DOMAIN auth.accounts THEN sum + auth.accounts[a] ELSE sum,
             0, Names) >= auth.threshold

Vouched(db, approved) ==
    LET closed(S) == /\ approved \subseteq S
                     /\ \A a \in Accounts \ S : ~Meets(db.active[a], S) /\ ~Meets(db.owner[a], S)
    IN  {a \in Accounts : \A S \in SUBSET Accounts : closed(S) => a \in S}

Approved(db, id) ==
    LET p  == db.proposals[id]
        by == Vouched(db, p.active \cup p.owner)
    IN  \A op \in ToSet(Terms[id].ops) :
            /\ NeedsOwner(op) => op.by \in p.owner \/ Meets(db.owner[op.by], by)
            /\ Overridden(db, op) => \/ Meets(db.overrides[op.by][Tag(op)], by)
                                     \/ Meets(db.owner[op.by], by)
            /\ NeedsActive(op) /\ ~Overridden(db, op) => op.by \in by

-----------------------------------------------------------------------------
(* Execution.  A result that is not ok is an exception, and its database is *)
(* discarded by the session that ends.                                     *)

HasReview(id) == Terms[id].review > 0

\* Mutant of KnownEntity: an id is known only as long as the proposal is there.
StandingProposal(db, id) == db.proposals[id] # None

\* dbs_dynamic_global_properties::entity_exists
KnownEntity(db, id) == \E e \in db.recent : e.id = id

\* The ids duplicated_entity_guard visits: the proposal's and those of the
\* proposals that are created in it.
RECURSIVE EntityIds(_)
EntityIds(id) ==
    {id} \cup UNION {EntityIds(op.id) : op \in {o \in ToSet(Terms[id].ops) : o.type = "create"}}

\* create_proposal_evaluator.  The index by external id is unique, too.
create_proposal(db, id, expires, time) ==
    LET numbers == {db.proposals[i].number : i \in {j \in Ids : db.proposals[j] # None}}
        again   == time < db.born[id] + EntityLifetime
    IN  [ok |-> /\ \A i \in EntityIds(id) : ~KnownEntity(db, i)
                /\ expires > time /\ expires <= time + MaxLifetime
                /\ Terms[id].review < expires - time
                /\ db.proposals[id] = None,
         s  |-> [db EXCEPT !.proposals[id] = [active |-> {}, owner |-> {}, expires |-> expires,
                                              review_time |-> expires - Terms[id].review,
                                              number |-> Max({0} \cup numbers) + 1],
                           !.recent = @ \cup {[id |-> id, created |-> time]},
                           !.born[id] = time,
                           !.runs[id] = IF again THEN @ ELSE 0,
                           !.applied[id] = IF again THEN @ ELSE 0,
                           !.given[id] = {}]]

\* delete_proposal_evaluator, by an account the proposal needs.
delete_proposal(db, id, account) ==
    [ok |-> db.proposals[id] # None /\ account \in Required(Terms[id].ops),
     s  |-> [db EXCEPT !.proposals[id] = None]]

HasApproval(db, id, approval) ==
    approval.account \in (IF approval.kind = "owner" THEN db.proposals[id].owner
                          ELSE db.proposals[id].active)

\* Mutant of CanUpdate: approvals are still taken in the review period.
CanUpdateAnyTime(db, id, adds, approval, time) ==
    db.proposals[id] # None /\ HasApproval(db, id, approval) = ~adds

\* The assertions of update_proposal_evaluator: approvals are added before the
\* review period only, and only new ones; those that are there can be removed.
CanUpdate(db, id, adds, approval, time) ==
    /\ db.proposals[id] # None
    /\ HasReview(id) /\ adds => time < db.proposals[id].review_time
    /\ HasApproval(db, id, approval) = ~adds

\* dbs_proposal::update_proposal
Updated(db, id, adds, approval, time) ==
    LET new(old) == IF adds THEN old \cup {approval.account} ELSE old \ {approval.account}
    IN  [db EXCEPT !.proposals[id] = IF approval.kind = "owner" THEN [@ EXCEPT !.owner = new(@)]
                                     ELSE [@ EXCEPT !.active = new(@)],
                   !.given[id] = IF adds THEN @ \cup {[approval |-> approval, at |-> time]}
                                 ELSE {g \in @ : g.approval # approval}]

RECURSIVE apply_operation(_, _, _, _, _), update_proposal(_, _, _, _, _, _)

\* One operation of the proposal p.
apply_operation(db, p, op, time, depth) ==
    LET does(s)  == [ok |-> TRUE, s |-> s]
        own      == [kind |-> "active", account |-> op.by]
        adds     == op.type = "approve"
    IN  CASE op.type = "spend"    -> [ok |-> db.funds > 0, s |-> [db EXCEPT !.funds = @ - 1]]
          [] op.type = "members"  -> does([db EXCEPT !.active[op.by] = op.auth])
          [] op.type = "owner"    -> does(WithOwner(db, op.by, op.auth, time))
          [] op.type = "override" -> does(WithOverride(db, op.by, op.tag, op.auth))
          [] op.type = "create"   -> create_proposal(db, op.id, p.expires + op.after, time)
          [] op.type = "delete"   -> delete_proposal(db, op.id, op.by)
          [] op.type \in {"approve", "unapprove"} ->
                IF CanUpdate(db, op.id, adds, own, time)
                THEN does(update_proposal(db, op.id, adds, own, time, depth))
                ELSE [ok |-> FALSE, s |-> db]

\* database::push_proposal: the operations in order, then the removal of the
\* proposal, all in one session.
push_proposal(db, id, time, depth) ==
    LET p == db.proposals[id]
        done(r) == [r EXCEPT !.s.applied[id] = IF r.ok THEN @ + 1 ELSE @]
        step(r, op) == IF r.ok THEN done(apply_operation(r.s, p, op, time, depth + 1)) ELSE r
    IN  [FoldLeft(step, [ok |-> depth < MaxNesting, s |-> db], Terms[id].ops)
            EXCEPT !.s.proposals[id] = None,
                   !.s.runs[id] = @ + 1,
                   !.s.ran[id] = [time |-> time, expires |-> p.expires,
                                  given |-> db.given[id], approved |-> Approved(db, id)]]

\* Every execution: when it is approved and does not fail, and otherwise nothing
\* of it is left.
Executed(db, id, time, depth, otherwise) ==
    LET kept(run) == IF run.ok THEN run.s ELSE otherwise
    IN  IF is_authorized_to_execute(db, id) THEN kept(push_proposal(db, id, time, depth))
        ELSE otherwise

\* update_proposal_evaluator after its assertions: the approvals are kept even
\* when the execution fails, and a proposal with a review period is left to its
\* expiration.  An update that removes approvals tries to execute, too.
update_proposal(db, id, adds, approval, time, depth) ==
    LET s == Updated(db, id, adds, approval, time)
    IN  IF HasReview(id) THEN s ELSE Executed(s, id, time, depth, s)

\* clear_expired_proposals: in the order of expiration, then of age, every
\* expired proposal is executed, if it may be, and removed in any case.
RECURSIVE clear_expired_proposals(_, _)
clear_expired_proposals(db, time) ==
    LET expired == {i \in Ids : db.proposals[i] # None /\ db.proposals[i].expires <= time}
        first   == CHOOSE i \in expired : \A j \in expired \ {i} :
                       \/ db.proposals[i].expires < db.proposals[j].expires
                       \/ /\ db.proposals[i].expires = db.proposals[j].expires
                          /\ db.proposals[i].number < db.proposals[j].number
        removed == [db EXCEPT !.proposals[first] = None]
    IN  IF expired = {} THEN db
        ELSE clear_expired_proposals(Executed(db, first, time, 0, removed), time)

-----------------------------------------------------------------------------
(* Operations of transactions *)

Database ==
    [proposals |-> proposals, recent |-> recent, funds |-> funds, active |-> active, owner |-> owner,
     overrides |-> overrides, history |-> history, owner_log |-> owner_log, born |-> born,
     runs |-> runs, applied |-> applied, ran |-> ran, given |-> given]

\* The history is left to the caller: the end of a block still cuts it.
Becomes(s) ==
    /\ proposals' = s.proposals /\ recent' = s.recent /\ funds' = s.funds
    /\ active' = s.active /\ owner' = s.owner /\ overrides' = s.overrides /\ owner_log' = s.owner_log
    /\ born' = s.born /\ runs' = s.runs /\ applied' = s.applied /\ ran' = s.ran /\ given' = s.given
    /\ UNCHANGED members

Applies(result) == result.ok /\ Becomes(result.s) /\ history' = result.s.history

AddOrRemove(id, adds, approval) ==
    /\ CanUpdate(Database, id, adds, approval, now)
    /\ Applies([ok |-> TRUE, s |-> update_proposal(Database, id, adds, approval, now, 0)])

ProposalOps(ids) ==
    /\ \E id \in ids :
          \/ Applies(create_proposal(Database, id, now + Terms[id].lifetime, now))
          \/ \E adds \in BOOLEAN, approval \in Approvals : AddOrRemove(id, adds, approval)
          \/ \E a \in Accounts : Applies(delete_proposal(Database, id, a))
    /\ UNCHANGED recoveryVars

\* What joining and leaving the group do to its active authority; a leaver
\* stays in the owner authority, and the thresholds are as before.
join_research_group_membership(member) ==
    /\ member \notin members
    /\ members' = members \cup {member}
    /\ active' = [active EXCEPT ![Group] = add_to_active_authority(@, member)]

leave_research_group_membership(member) ==
    /\ member \in members /\ members # {member}
    /\ members' = members \ {member}
    /\ active' = [active EXCEPT ![Group] = remove_from_active_authority(@, member)]

MembershipOps ==
    /\ \E a \in Accounts \ {Group} :
          join_research_group_membership(a) \/ leave_research_group_membership(a)
    /\ UNCHANGED <<owner, overrides, history, owner_log, recoveryVars,
                   proposals, recent, funds, born, runs, applied, ran, given>>

\* clear_expired_recent_entities: an old entity is forgotten in a block whose
\* number its transaction refers to, modulo 2^16; any set of them may be.
Forgettable(time) == {e \in recent : e.created <= time - EntityLifetime}

-----------------------------------------------------------------------------
\* A proposal runs at most once, and entirely or not at all: whichever way it
\* is reached (the last approval, the expiration, an operation of another
\* proposal or of its own, a retry after a failure, or a second proposal under
\* the same id within the lifetime of its entity), each of its operations has
\* taken effect exactly as often as it ran.
ProposalsRunOnce ==
    \A id \in Ids : /\ runs[id] <= 1
                    /\ applied[id] = runs[id] * Len(Terms[id].ops)

\* What ran had been approved: the approvals that stood at that very moment
\* satisfied, by weights, the authorities of that moment (the active ones and
\* their overrides, or the owner authorities, of which a member who left may
\* still be part), and, where there is a review period, it ran at the
\* expiration and on approvals that had all stood since the review began.
RunsAreApproved ==
    \A id \in Ids : runs[id] > 0 =>
        LET r == ran[id]
        IN  /\ r.approved
            /\ HasReview(id) =>
                  /\ r.time >= r.expires
                  /\ \A g \in r.given : g.at < r.expires - Terms[id].review
=============================================================================
