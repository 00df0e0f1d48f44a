------------------------------ MODULE Accounts ------------------------------
(***************************************************************************)
(* Accounts as the holders of authority: owner and active authorities, the *)
(* overrides of the active one, the history of owner authorities, and the  *)
(* recovery of an account through its recovery partner.  An authority is a *)
(* threshold over weighted accounts and keys; the keys are opaque, because *)
(* signatures are checked elsewhere and an approval of a proposal is never *)
(* one of a key (update_proposal_operation::validate refuses those).       *)
(***************************************************************************)
EXTENDS Integers, Sequences, FiniteSets, SequencesExt

CONSTANTS Names,             \* the accounts, in the order of their names
          Recoverable,       \* the accounts whose recovery is followed
          OwnerAuths,        \* the owner authorities accounts may be given
          Open,              \* an authority with weight_threshold 0
          NoPartner,         \* the empty recovery account
          TopWitness,        \* the account of the witness with the most votes
          RecoveryPeriod,    \* DEIP_OWNER_AUTH_RECOVERY_PERIOD
          RequestPeriod,     \* DEIP_ACCOUNT_RECOVERY_REQUEST_EXPIRATION_PERIOD
          OwnerUpdateLimit,  \* DEIP_OWNER_UPDATE_LIMIT
          HistoryStart,      \* DEIP_OWNER_AUTH_HISTORY_TRACKING_START_BLOCK_NUM
          MaxSigCheckDepth   \* DEIP_MAX_SIG_CHECK_DEPTH

Accounts == ToSet(Names)

ASSUME AccountsAssumption ==
    /\ Recoverable \subseteq Accounts
    /\ NoPartner \notin Accounts /\ TopWitness \in Accounts
    /\ Open.threshold = 0 /\ \A auth \in OwnerAuths : auth.threshold > 0
    /\ RecoveryPeriod \in Nat /\ RequestPeriod \in Nat /\ OwnerUpdateLimit \in Nat
    /\ HistoryStart \in Nat /\ MaxSigCheckDepth \in Nat

VARIABLES now,           \* head_block_time and, with a block at every time, head_block_num
          owner,         \* account_authority_object::owner
          active,        \* account_authority_object::active: threshold, accounts, keys
          overrides,     \* account_authority_object::active_overrides, by type of operation
          history,       \* owner_authority_history_objects, by id
          request,       \* account_recovery_request_object of an account
          partner,       \* account_object::recovery_account and when it was asked for
          change,        \* change_recovery_account_request_object of an account
          last_recovery, \* account_object::last_account_recovery
          owner_log      \* history variable: every owner authority that ended

authorityVars == <<owner, active, overrides, history, owner_log>>
recoveryVars == <<request, partner, change, last_recovery>>

None == [none |-> TRUE]
NoOverrides == [tag \in {} |-> None]

InitAccounts(actives, owners, first) ==
    /\ now = 0
    /\ owner  = owners
    /\ active = actives
    /\ overrides = [a \in Accounts |-> NoOverrides]
    /\ history = <<>> /\ owner_log = <<>>
    /\ request = [a \in Accounts |-> None]
    /\ partner = [a \in Accounts |-> [account |-> first, asked |-> -RecoveryPeriod]]
    /\ change  = [a \in Accounts |-> None]
    /\ last_recovery = [a \in Accounts |-> -OwnerUpdateLimit - 1]

-----------------------------------------------------------------------------
(* Authorities, of a database db that has the tables among its fields.      *)
(* What is known of a signature check is the record r: the verdict so far, *)
(* and approved_by.                                                        *)

RECURSIVE check_authority(_, _, _, _), AnyOf(_, _, _, _)

\* The first of the authorities that is satisfied.
AnyOf(db, by, auths, depth) ==
    FoldLeft(LAMBDA r, auth : IF r.ok THEN r ELSE check_authority(db, r.by, auth, depth),
             [ok |-> FALSE, by |-> by], auths)

\* sign_state::check_authority of an authority: the weights of the accounts
\* that approved count, and so do those of the accounts whose own active or
\* owner authority is satisfied one level deeper, which are then taken to have
\* approved.  The loop ends with the weight that reaches the threshold; one of
\* zero is reached in any case.
check_authority(db, by, auth, depth) ==
    LET counted(r, a) == LET sum == r.sum + auth.accounts[a]
                         IN  [r EXCEPT !.sum = sum, !.ok = sum >= auth.threshold]
        deeper(r, a)  == AnyOf(db, r.by, <<db.active[a], db.owner[a]>>, depth + 1)
        found(r, a, d) == IF d.ok THEN counted([r EXCEPT !.by = d.by \cup {a}], a)
                          ELSE [r EXCEPT !.by = d.by]
        visit(r, a) ==
            CASE r.ok -> r
              [] ~r.ok /\ a \in r.by -> counted(r, a)
              [] ~r.ok /\ a \notin r.by /\ depth = MaxSigCheckDepth -> r
              [] OTHER -> found(r, a, deeper(r, a))
        start == [ok |-> FALSE, by |-> by, sum |-> 0]
    IN  [FoldLeft(visit, start, SelectSeq(Names, LAMBDA a : a \in DOMAIN auth.accounts))
            EXCEPT !.ok = @ \/ auth.threshold = 0]

\* dbs_account::update_owner_authority at a time: the authority that ends is
\* kept, from a certain block on.
WithOwner(db, a, auth, time) ==
    LET ended == [account |-> a, auth |-> db.owner[a], until |-> time]
    IN  [db EXCEPT !.owner[a]  = auth,
                   !.history   = IF time >= HistoryStart THEN Append(@, ended) ELSE @,
                   !.owner_log = Append(@, ended)]

update_owner_authority(a, auth) ==
    LET db == WithOwner([owner |-> owner, history |-> history, owner_log |-> owner_log],
                        a, auth, now)
    IN  owner' = db.owner /\ history' = db.history /\ owner_log' = db.owner_log

\* update_account_operation with an owner authority.
update_account_owner(a, auth) ==
    /\ update_owner_authority(a, auth)
    /\ UNCHANGED <<active, overrides, recoveryVars>>

\* dbs_account::update_active_overrides_authorities, for one type of
\* operation; None takes the override away.
WithOverride(db, a, tag, auth) ==
    LET old == db.overrides[a]
    IN  [db EXCEPT !.overrides[a] =
            IF auth = None THEN [t \in DOMAIN old \ {tag} |-> old[t]]
            ELSE [t \in DOMAIN old \cup {tag} |-> IF t = tag THEN auth ELSE old[t]]]

\* A member who joins a group gets a weight of 1 unless he has one.
add_to_active_authority(auth, member) ==
    [auth EXCEPT !.accounts = [a \in DOMAIN @ \cup {member} |-> IF a \in DOMAIN @ THEN @[a] ELSE 1]]

remove_from_active_authority(auth, member) ==
    [auth EXCEPT !.accounts = [a \in DOMAIN @ \ {member} |-> @[a]]]

-----------------------------------------------------------------------------
(* Recovery *)

\* By the recovery partner, or by the top witness where there is none: a new
\* request, a changed one, or, with an open authority, the end of the request.
request_account_recovery(by, a, auth) ==
    /\ by = IF partner[a].account = NoPartner THEN TopWitness ELSE partner[a].account
    /\ request[a] = None => auth.threshold > 0
    /\ request' = [request EXCEPT ![a] =
                      IF auth.threshold = 0 THEN None
                      ELSE [auth |-> auth, expires |-> now + RequestPeriod]]
    /\ UNCHANGED <<authorityVars, partner, change, last_recovery>>

\* By the holder of an owner authority that ended within the recovery period.
recover_account(a, auth, recent) ==
    /\ now - last_recovery[a] > OwnerUpdateLimit
    /\ request[a] # None
    /\ request[a].auth = auth
    /\ \E i \in DOMAIN history : history[i].account = a /\ history[i].auth = recent
    /\ update_owner_authority(a, auth)
    /\ request' = [request EXCEPT ![a] = None]
    /\ last_recovery' = [last_recovery EXCEPT ![a] = now]
    /\ UNCHANGED <<active, overrides, partner, change>>

\* Mutant of EffectiveOn: a second request inherits the time of the first.
FirstEffectiveOn(a) ==
    IF change[a] # None THEN change[a].effective_on ELSE now + RecoveryPeriod

EffectiveOn(a) == now + RecoveryPeriod

\* A second request replaces the first and waits the whole period again; one
\* that names the current partner withdraws it.
change_recovery_account(a, new) ==
    /\ change' = [change EXCEPT ![a] =
                     IF change[a] # None /\ partner[a].account = new THEN None
                     ELSE [account |-> new, effective_on |-> EffectiveOn(a), asked |-> now]]
    /\ UNCHANGED <<authorityVars, request, partner, last_recovery>>

\* Mutant of RecentHistory: an entry at the very end of its period is dropped.
YoungHistory(h, time) ==
    LET recent == {i \in DOMAIN h : h[i].until + RecoveryPeriod > time}
    IN  IF recent = {} THEN <<>> ELSE SubSeq(h, Min(recent), Len(h))

\* process_account_recovery, at the end of a block: the history loses its
\* oldest entries up to the first that is still recent.
RecentHistory(h, time) ==
    LET recent == {i \in DOMAIN h : h[i].until + RecoveryPeriod >= time}
    IN  IF recent = {} THEN <<>> ELSE SubSeq(h, Min(recent), Len(h))

Effective(a, time) == change[a] # None /\ change[a].effective_on <= time

process_account_recovery(h, time) ==
    /\ request' = [a \in Accounts |->
                      IF request[a] # None /\ request[a].expires <= time THEN None ELSE request[a]]
    /\ history' = RecentHistory(h, time)
    /\ partner' = [a \in Accounts |->
                      IF Effective(a, time)
                      THEN [account |-> change[a].account, asked |-> change[a].asked] ELSE partner[a]]
    /\ change'  = [a \in Accounts |-> IF Effective(a, time) THEN None ELSE change[a]]

RecoveryOps ==
    \E a \in Recoverable :
        \/ \E auth \in OwnerAuths : update_account_owner(a, auth)
        \/ \E by \in Accounts, auth \in OwnerAuths \cup {Open} : request_account_recovery(by, a, auth)
        \/ \E auth \in OwnerAuths, i \in DOMAIN history : recover_account(a, auth, history[i].auth)
        \/ \E new \in Accounts : change_recovery_account(a, new)
=============================================================================
