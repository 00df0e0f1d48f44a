------------------------------ MODULE PendingTx ------------------------------
(***************************************************************************)
(* Pending transactions of chain::database: push_transaction(), the        *)
(* pending_transactions_restorer around push_block(), the transactions of  *)
(* popped blocks, generate_block(), and the deduplication of transactions  *)
(* (libraries/chain/database/database.cpp, database/db_with.hpp).          *)
(*                                                                         *)
(* A block is its transactions and its time.  Which fork wins, and what    *)
(* becomes irreversible, is the subject of ChainDb; here a push_block()    *)
(* pops any number of blocks and applies one more, each valid or not.      *)
(* The undo stack holds full copies, which is what SnapshotStack promises. *)
(***************************************************************************)
EXTENDS Integers, FiniteSets, SequencesExt

CONSTANTS Txs,               \* transactions
          Needs,             \* [Txs -> SUBSET Txs]: t is valid only after them
          Excludes,          \* [Txs -> SUBSET Txs]: t is invalid after any of them
          Expires,           \* [Txs -> Nat]: trx.expiration
          Size,              \* [Txs -> Nat]: pack_size(trx)
          MaximumBlockSize,  \* maximum_block_size of the global properties
          HeaderSize,        \* max_block_header_size
          Uncounted,         \* bytes of a header above that: witness, extensions
          MaxBlockSize,      \* DEIP_MAX_BLOCK_SIZE
          TxReserve,         \* what push_transaction() leaves for the header: 256
          MaxUntilExpiration, \* DEIP_MAX_TIME_UNTIL_EXPIRATION
          MaxTime,           \* bound: the time of the last block
          MaxBlockTxs,       \* bound: transactions in a block of another witness
          MaxPops            \* bound: blocks popped by a switch of forks

ASSUME PendingTxAssumption ==
    /\ IsFiniteSet(Txs)
    /\ Needs \in [Txs -> SUBSET Txs] /\ Excludes \in [Txs -> SUBSET Txs]
    /\ Expires \in [Txs -> Nat] /\ Size \in [Txs -> Nat]
    /\ MaximumBlockSize \in Nat /\ HeaderSize \in Nat /\ TxReserve \in Nat
    /\ MaxUntilExpiration \in Nat
    /\ Uncounted \in Nat /\ MaxBlockSize \in Nat
    /\ MaxTime \in Nat /\ MaxBlockTxs \in Nat /\ MaxPops \in Nat

VARIABLES db,         \* the tables: effects, the deduplication list, head time
          undo_stack, \* the tables before every session that can be undone
          session,    \* _pending_tx_session.valid()
          chain,      \* the blocks from the last irreversible one to the head
          pending,    \* _pending_tx
          popped,     \* _popped_tx
          task        \* what push_block() is doing

vars == <<db, undo_stack, session, chain, pending, popped, task>>

DbState == [done : SUBSET Txs,    \* transactions whose effects are in the tables
            known : SUBSET Txs,   \* transaction_index
            time : Nat, num : Nat]
Block == [txs : Seq(Txs), time : Nat]

(* before: what the node had accepted when push_block() was called.        *)
Idle(before) == [pc |-> "idle", pops |-> 0, pushes |-> 0, applied |-> 0, old |-> <<>>, own |-> <<>>,
                 failed |-> FALSE, saved |-> <<>>, before |-> before]

TypeOK ==
    /\ db \in DbState /\ undo_stack \in Seq(DbState) /\ session \in BOOLEAN
    /\ chain \in Seq(Block) /\ pending \in Seq(Txs) /\ popped \in Seq(Txs)
    /\ task.pc \in {"idle", "pop", "push", "unwind", "restore", "retry", "clear"}
    /\ task.pops \in Nat /\ task.pushes \in Nat /\ task.applied \in Nat /\ task.failed \in BOOLEAN
    /\ task.old \in Seq(Block) /\ task.own \in Seq(Block)
    /\ task.saved \in Seq(Txs) /\ task.before \subseteq Txs

Init ==
    /\ db = [done |-> {}, known |-> {}, time |-> 0, num |-> 0]
    /\ undo_stack = <<>> /\ session = FALSE
    /\ chain = <<>> /\ pending = <<>> /\ popped = <<>>
    /\ task = Idle({})
----------------------------------------------------------------------------
(* Faulty variant: the expiration is not checked.                          *)
CanApplyExpired(d, t) ==
    /\ t \notin d.known
    /\ Needs[t] \subseteq d.done
    /\ Excludes[t] \cap d.done = {}

(* _apply_transaction: not a duplicate, not expired, not too far in the    *)
(* future; authorities, TaPoS and the operations themselves, which depend  *)
(* on what the chain did before, are Needs and Excludes.                   *)
CanApply(d, t) ==
    /\ t \notin d.known
    /\ Needs[t] \subseteq d.done
    /\ Excludes[t] \cap d.done = {}
    /\ d.num > 0 => /\ Expires[t] <= d.time + MaxUntilExpiration
                    /\ d.time < Expires[t]

WithTxs(d, ts) == [d EXCEPT !.done = @ \cup ts, !.known = @ \cup ts]

(* Each of the transactions applies after the ones before it.              *)
TxsApply(d, txs) ==
    \A i \in 1..Len(txs) : CanApply(WithTxs(d, {txs[j] : j \in 1..(i - 1)}), txs[i])

BlockSize(b) == FoldLeft(LAMBDA n, t : n + Size[t], HeaderSize + Uncounted, b.txs)

(* _apply_block: the header, the size, and every transaction ...           *)
BlockApplies(d, b) ==
    /\ d.time < b.time
    /\ BlockSize(b) <= MaximumBlockSize
    /\ TxsApply(d, b.txs)

(* ... then update_global_dynamic_data and clear_expired_transactions.     *)
WithBlock(d, b) ==
    LET e == WithTxs(d, ToSet(b.txs)) IN
    [e EXCEPT !.time = b.time, !.num = @ + 1,
              !.known = {t \in @ : ~(b.time > Expires[t])}]
----------------------------------------------------------------------------
(* The tables without the pending session, and the undo stack below it.    *)
HeadState == IF session THEN Last(undo_stack) ELSE db
HeadStack == IF session THEN Front(undo_stack) ELSE undo_stack

(* Faulty variant: a transaction is kept as pending before it is applied.  *)
TryTransactionKeepsAll(t) ==
    /\ session' = TRUE
    /\ undo_stack' = IF session THEN undo_stack ELSE Append(undo_stack, db)
    /\ pending' = Append(pending, t)
    /\ db' = IF CanApply(db, t) THEN WithTxs(db, {t}) ELSE db

(* _push_transaction: the pending session is opened when there is none,    *)
(* and stays open when the transaction is refused.  The session of the     *)
(* transaction is squashed into it, or undone.                             *)
TryTransaction(t) ==
    /\ session' = TRUE
    /\ undo_stack' = IF session THEN undo_stack ELSE Append(undo_stack, db)
    /\ IF CanApply(db, t) THEN /\ db' = WithTxs(db, {t})
                               /\ pending' = Append(pending, t)
       ELSE UNCHANGED <<db, pending>>

PushTransaction(t) ==
    /\ task.pc = "idle"
    /\ Size[t] <= MaximumBlockSize - TxReserve
    /\ TryTransaction(t)
    /\ UNCHANGED <<chain, popped, task>>

(* What the node holds: transactions of its blocks, and pending ones.      *)
Accepted == ToSet(pending) \cup UNION {ToSet(chain[i].txs) : i \in 1..Len(chain)}

(* push_block: the restorer takes _pending_tx, and clear_pending() undoes  *)
(* the pending session.                                                    *)
BeginPush(pops, pushes, own) ==
    /\ db' = HeadState /\ undo_stack' = HeadStack /\ session' = FALSE
    /\ pending' = <<>>
    /\ task' = [Idle(Accepted) EXCEPT
                  !.pc = IF pops > 0 THEN "pop" ELSE IF pushes > 0 THEN "push" ELSE "retry",
                  !.pops = pops, !.pushes = pushes, !.own = own, !.saved = pending]
    /\ UNCHANGED <<chain, popped>>

(* A block of the network: it is refused or kept aside by the fork         *)
(* database, or extends the head, or wins over the last pops blocks.       *)
PushBlock(pops) ==
    /\ task.pc = "idle"
    /\ pops <= Len(chain)
    /\ \/ pops = 0 /\ BeginPush(0, 0, <<>>)
       \/ BeginPush(pops, pops + 1, <<>>)

(* _generate_block: the pending transactions, tried again on the state of  *)
(* the head; expired ones, those that no longer fit and those that no      *)
(* longer apply are left out, and stay in _pending_tx.                     *)
Generated(when) ==
    LET include(acc, t) ==
          IF \/ Expires[t] < when
             \/ acc.size + Size[t] >= MaximumBlockSize
             \/ ~CanApply(acc.state, t)
          THEN acc
          ELSE [state |-> WithTxs(acc.state, {t}), txs |-> Append(acc.txs, t), size |-> acc.size + Size[t]]
    IN FoldLeft(include, [state |-> HeadState, txs |-> <<>>, size |-> HeaderSize], pending).txs

(* The block is pushed as any other.  If it turns out to be larger than    *)
(* DEIP_MAX_BLOCK_SIZE, the session is gone while _pending_tx remains.     *)
GenerateBlock(when) ==
    LET block == [txs |-> Generated(when), time |-> when] IN
    /\ task.pc = "idle"
    /\ HeadState.time < when
    /\ \/ BlockSize(block) <= MaxBlockSize /\ BeginPush(0, 1, <<block>>)
       \/ /\ BlockSize(block) > MaxBlockSize
          /\ db' = HeadState /\ undo_stack' = HeadStack /\ session' = FALSE
          /\ task' = [Idle({}) EXCEPT !.pc = "clear"]
          /\ UNCHANGED <<chain, pending, popped>>
----------------------------------------------------------------------------
(* Faulty variant: the transactions of popped blocks end up in the reverse *)
(* order of the blocks.                                                    *)
PopBlockAppends ==
    /\ db' = Last(undo_stack) /\ undo_stack' = Front(undo_stack)
    /\ popped' = popped \o Last(chain).txs
    /\ chain' = Front(chain)

(* pop_block: the transactions of the head are put before the ones that    *)
(* were popped so far.                                                     *)
PopBlock ==
    /\ db' = Last(undo_stack) /\ undo_stack' = Front(undo_stack)
    /\ popped' = Last(chain).txs \o popped
    /\ chain' = Front(chain)

(* The session of an applied block is pushed.                              *)
ApplyBlock(b) ==
    /\ BlockApplies(db, b)
    /\ db' = WithBlock(db, b)
    /\ undo_stack' = Append(undo_stack, db)
    /\ chain' = Append(chain, b)

PopOldBlock ==
    /\ task.pc = "pop"
    /\ PopBlock
    /\ task' = [task EXCEPT !.pc = IF task.pops = 1 THEN "push" ELSE "pop",
                            !.pops = @ - 1, !.old = <<Last(chain)>> \o @]
    /\ UNCHANGED <<session, pending>>

(* The next block of the new fork, or the only one.                        *)
Candidates ==
    IF task.own # <<>> THEN ToSet(task.own)
    ELSE [txs : UNION {[1..n -> Txs] : n \in 0..MaxBlockTxs}, time : (db.time + 1)..MaxTime]

ApplyNewBlock ==
    /\ task.pc = "push"
    /\ \E b \in Candidates : ApplyBlock(b)
    /\ task' = [task EXCEPT !.pc = IF task.pushes = 1 THEN "retry" ELSE "push",
                            !.pushes = @ - 1, !.applied = @ + 1]
    /\ UNCHANGED <<session, pending, popped>>

(* A block that does not apply ends a simple push.  A switch of forks is   *)
(* taken back: what was applied of the new fork is popped, the old blocks  *)
(* are applied again, and only then the exception is passed on.            *)
RejectNewBlock ==
    /\ task.pc = "push"
    /\ task.own # <<>> => ~BlockApplies(db, task.own[1])
    /\ task' = [task EXCEPT !.failed = TRUE,
                            !.pc = IF task.old = <<>> THEN "retry"
                                   ELSE IF task.applied = 0 THEN "restore" ELSE "unwind"]
    /\ UNCHANGED <<db, undo_stack, session, chain, pending, popped>>

PopNewBlock ==
    /\ task.pc = "unwind"
    /\ PopBlock
    /\ task' = [task EXCEPT !.pc = IF task.applied = 1 THEN "restore" ELSE "unwind", !.applied = @ - 1]
    /\ UNCHANGED <<session, pending>>

(* An old block that did not apply would leave _push_block at once; in     *)
(* this model it would be a deadlock.                                      *)
RestoreBlock ==
    /\ task.pc = "restore"
    /\ ApplyBlock(Head(task.old))
    /\ task' = [task EXCEPT !.pc = IF Len(task.old) = 1 THEN "retry" ELSE "restore", !.old = Tail(@)]
    /\ UNCHANGED <<session, pending, popped>>

(* ~pending_transactions_restorer, on every way out of push_block: first   *)
(* the popped transactions, then the ones that were pending.               *)
Retry(t) == IF t \in db.known THEN UNCHANGED <<db, undo_stack, session, pending>> ELSE TryTransaction(t)

RetryPopped ==
    /\ task.pc = "retry" /\ popped # <<>>
    /\ Retry(Head(popped))
    /\ popped' = Tail(popped)
    /\ UNCHANGED <<chain, task>>

RetryPending ==
    /\ task.pc = "retry" /\ popped = <<>> /\ task.saved # <<>>
    /\ Retry(Head(task.saved))
    /\ task' = [task EXCEPT !.saved = Tail(@)]
    /\ UNCHANGED <<chain, popped>>

Return ==
    /\ task.pc = "retry" /\ popped = <<>> /\ task.saved = <<>>
    /\ task' = IF task.failed /\ task.own # <<>> THEN [Idle({}) EXCEPT !.pc = "clear"]
               ELSE Idle(task.before)
    /\ UNCHANGED <<db, undo_stack, session, chain, pending, popped>>

(* witness_plugin::maybe_produce_block: when its block fails, the pending  *)
(* transactions are cleared before the next attempt.                       *)
ClearPending ==
    /\ task.pc = "clear"
    /\ db' = HeadState /\ undo_stack' = HeadStack /\ session' = FALSE
    /\ pending' = <<>>
    /\ task' = Idle({})
    /\ UNCHANGED <<chain, popped>>

Handler ==
    \/ PopOldBlock \/ ApplyNewBlock \/ RejectNewBlock \/ PopNewBlock \/ RestoreBlock
    \/ RetryPopped \/ RetryPending \/ Return \/ ClearPending

Next ==
    \/ \E t \in Txs : PushTransaction(t)
    \/ \E pops \in 0..MaxPops : PushBlock(pops)
    \/ \E when \in 1..MaxTime : GenerateBlock(when)
    \/ Handler

Spec == Init /\ [][Next]_vars
----------------------------------------------------------------------------
(* A transaction takes effect at most once on a chain, although the list   *)
(* of known ones forgets it as soon as it has expired                      *)
(* (clear_expired_transactions): no two places of the blocks hold it.      *)
AppliedOnce ==
    LET places == UNION {{i} \X (1..Len(chain[i].txs)) : i \in 1..Len(chain)} IN
    \A p, q \in places : chain[p[1]].txs[p[2]] = chain[q[1]].txs[q[2]] => p = q

(* "_pending_tx_session is the result of applying _pending_tx": at rest,   *)
(* the tables are those of the head block after the pending transactions,  *)
(* each of which applies in its turn; without a session nothing is pending. *)
PendingIsReplay ==
    task.pc = "idle" =>
      IF session THEN /\ TxsApply(Last(undo_stack), pending)
                      /\ db = WithTxs(Last(undo_stack), ToSet(pending))
      ELSE pending = <<>>

(* Switching forks, with or without success, loses no transaction: what    *)
(* the node had accepted before push_block() has taken effect afterwards,  *)
(* on the chain or as pending, unless it cannot be applied any more.       *)
NothingLost ==
    task.pc = "idle" => \A t \in task.before : t \in db.done \/ ~CanApply(db, t)
=============================================================================
