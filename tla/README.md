# A TLA+ verification project for the DEIP blockchain node

The repository is a node of a delegated proof-of-stake chain (Steem / Graphene
lineage) with research-related operations on top. `libraries/chain` holds the
state machine, `libraries/chainbase` the in-memory tables with undo,
`libraries/net` the peer-to-peer layer, `libraries/app` and
`libraries/plugins` the process around them.

## 1. Inventory

| Component | State | Operations | Interacts with |
|---|---|---|---|
| chainbase `generic_index` | objects by id, unique keys, `_next_id`, `_revision`, stack of undo states | emplace, modify, remove, start_undo_session, undo, squash, commit, undo_all, set_revision | every table of the node; sessions are opened by `_push_block`, `_push_transaction`, `push_proposal`, `_generate_block` |
| chainbase locking | array of read-write locks, current lock | with_read_lock, with_write_lock, next_lock | API threads (read), block and transaction handlers (write) |
| `fork_database` | tree of recent blocks, `_head`, `_max_size` | push_block, pop_block, remove, set_head, set_max_size, fetch_branch_from | `chain::database` |
| `chain::database`, blocks | head, LIB, confirmations, undo stack, fork database, block log | push_block, pop_block, apply_block, open, reindex | network, witness plugin, application |
| `chain::database`, transactions | `_pending_tx`, `_pending_tx_session`, `_popped_tx`, transaction index | push_transaction, generate_block, clear_pending, the pending-transactions restorer | network, API, witness plugin |
| `block_log` | data file, index file, head | append, flush, open, construct_index | `chain::database` |
| witness schedule | witness objects with votes, keys and virtual times, the shuffled schedule, hardfork votes | update_witness_schedule, _reset_virtual_schedule_time, adjust_witness_vote, witness_update, shutdown of absent witnesses | block application, vote and witness evaluators |
| balances and assets | balances with a frozen part, asset supplies | transfer, issue, reserve, freeze, unfreeze | every service that moves money |
| research token sales | sale with its status, contributions | create_research_token_sale, contribute_to_token_sale, processing per block | balances |
| common tokens | per account: common tokens, the withdrawal going on, routes; the supply | transfer, withdraw, set route, withdrawals, rewards and witness pay per block | balances, witnesses |
| research licences | licence records | create_research_license (a fee that goes to the token holders and the group) | balances |
| vesting | vesting contracts | create and withdraw | balances |
| grants and awards | funding opportunities, awards, recipients, withdrawal requests | create_grant, create_award, create, certify, approve, reject and pay a request | balances |
| research groups, contents, reviews, expertise | groups with shares, researches and members, contents, reviews, votes, expert tokens with power, eci | create and join and leave groups, create research and content, review, vote, reward of the expertise per block | authorities, accounts |
| accounts and recovery | owner and active authorities, overrides per operation, history of owner authorities, recovery requests, changes of the recovery partner | update_account, request_account_recovery, recover_account, change_recovery_account, processing per block | proposals, transactions |
| proposals | proposal with approvals, review period, expiration, recent entities | create, update, delete, execution (also nested), clean-up per block | undo sessions, authorities, every operation |
| `sign_state`, `authority` | none | check_authority | transaction validation, proposals |
| witness plugin | production flag, slot timer | maybe_produce_block | `generate_block`, network |
| net node | peers, what each was asked for and offers, blocks received and not yet pushed | handlers per message, fetch loops, time-outs, disconnects | `push_block`, `push_transaction` |

Everything on a node that writes (network delegate, API broadcast, witness loop)
runs on one thread and under chainbase's write lock, so two block handlers never
interleave. What does interleave: other processes that map the same file and
read; a stop of the process between any two steps; and the order in which
blocks and transactions arrive.

Behaviours that are hard, and what makes each component correct:

* **Tables and undo.** Nested sessions, squash, commit and undo over recorded
  differences. Correct when every undo gives back exactly the earlier table.
* **Forks.** A switch to another fork can fail half way, blocks arrive in any
  order, several times and on several branches. Correct when the node ends on
  the longest valid chain, a failed push leaves everything as it was, and
  irreversible blocks stay.
* **What undo cannot take back.** `commit()`, the block log and the pruning of
  the fork database happen while a block is applied, before its last steps.
  Correct when the log stays on the chain and a restart at any point recovers.
* **Pending transactions.** They must survive blocks and fork switches, take
  effect at most once and never leak into the state a block is applied to.
* **Locks.** A process can die with a mutex of the mapped file; the writer moves
  along a ring of mutexes. Correct when the writer always proceeds, and
  never shares a mutex with a reader.
* **Schedule.** Virtual times of fixed width wrap around, keys and votes change
  between rounds. Correct when schedules are complete and nobody starves.
* **Block log.** Two files with buffers of their own; a crash can keep any part of
  either. Correct when an open log reads every block by its number.
* **Synchronisation.** Several peers on several forks answer, fall silent or
  disconnect while their blocks wait for a parent. Correct when no request is
  made twice or forgotten while its answer may come, and blocks reach the chain
  parent first.
* **Money.** Services freeze, lock and pay in different assets with integer
  rounding, some of it by block time. Correct when everything held is supply,
  what is set aside is there when it is due, and every due payment is possible.
* **Proposals and authorities.** A proposal runs in a nested session, may run
  other proposals, and may change the authority it is judged by. Correct when it
  runs once, whole, and approved by those who decide at that moment.
* **Expertise.** Reviews and votes change the expertise of contents, researches and
  people in steps. Correct when all the sums agree after each of them.

The hazards, each at its line, are listed in `PROJECT.json`.

## 2. Plan

Modules, in the order of their importance; (done) marks what exists.

1. `UndoIndex` with its abstract specification `SnapshotStack`: every other part
   relies on it (done, proved).
2. `ForkDatabase` and `ChainDb`: forks, irreversibility, log, restart (done).
   `ChainDb` composes `ForkDatabase`, and uses the stack of full copies that
   `SnapshotStack` promises in the place of `UndoIndex`.
3. `PendingTx`: pending transactions and block production (done).
4. `RwLock`: locks shared by processes (done).
5. `WitnessSchedule` (done); hardfork votes, `process_hardforks` and the median
   of the witnesses' properties are to follow.
6. `BlockLog` with its abstract specification `DurableLog` (done).
7. `NetSync`: synchronisation and block delivery of the network node (done).
   Handshake, addresses and transactions of the network are not planned.
8. The money of the chain (done): `Balances`, `TokenSale`, `Licenses`,
   `CommonTokens`, `Vesting`, `Awards`, and `Expertise` for groups and reviews,
   composed by `Ledger`.
9. `Accounts` and `Proposals`, composed by `Governance`: authorities with weights and
   overrides, recovery, proposals that act on proposals (done).
10. To follow: hardforks and median properties, expertise allocation proposals,
    grant applications and the discipline supply, the production loop of the witness
    plugin, the minimal signature search.

Abstract specifications: `SnapshotStack`, `DurableLog` (done).
Theorems, in the order of what they say about the node: undo (done), the state is
the replay of the chain (done), pending transactions take effect once (done), the
log's files are a durable log (done), locks (done), vesting and awards (done),
virtual times of the schedule (done), no transaction is lost (done), the money of
`Ledger` (`HeldIsSupply`, `CommonTokensBacked`, `SaleHoldsItsStakes`, done), the log and
the irreversible blocks of `ChainDb` (`LogIsOnChain`, `IrreversibleNotReplaced`, done);
left are `IrreversibleStays`, `NetSync` and `Expertise` (section 6).
Each component has one passing run where one instance can show all of it.

## 3. Modules and code

### SnapshotStack, UndoIndex, UndoIndexHistory (`chainbase.hpp`, `generic_index`)

`indices`, `next_id`, `revision`, `stack` are the members `_indices`, `_next_id`,
`_revision`, `_stack`; `sessions` are the `session` objects alive on the call
stack; `failed` says that a `std::logic_error` left `undo()` or `modify()` half
done. One action per member function: `Emplace`, `Modify`, `Remove`,
`start_undo_session`, `SessionPush`, `SessionSquash`, `SessionUndo` (also the
destructor), `PopRevision` (`undo_all`, one step per revision), `commit`,
`set_revision`. An object is a unique key and a payload; one unique index stands
for any number of them. The three loops of `undo()` go through the ids in order,
so that the point at which a key is still taken is found as in the code.
`UndoIndexHistory` adds the history variable `snaps`, a full copy of the table
for every open undo state. `SnapshotStack` is the promise: a revision copies the
contents, undo puts the copy back, squash and commit drop copies.

### ForkDatabase, ChainDb (`fork_database.cpp`, `database.cpp`, `application.cpp`)

A block is the sequence of payloads from genesis to it, so its number, parent and
ancestors are sequence operations, and a set of blocks closed under parents is the
tree. `fork_db` is a record: the index, `_head`, `_max_size`, and the items whose
weak parent pointer is dead (`lost`). An item that was removed from the index while the
two branches of a switch still point to it is alive and links its children (`Held`). `db` holds what decides about blocks: head,
last irreversible block number, the last block each witness confirmed. It is
restored by undo; `fork_db` and `block_log` are not. `push_block()` is split into
one step per popped or applied block (`PushBlock`, `ApplyBlock`, `PopTowardsFork`,
`AtForkPoint`, `PushForkBlock`, `RestoreBlock`), because `StopAndOpen` can come
between two of them: a stop, `open()`, and `reindex()`. The process may also stop inside of
a block, after `commit()` has made revisions permanent and before the log has been written
and flushed (`StopInBlock`). `open()` falls back to the reindex when an assertion fails, and
as `validate_invariants()` compares sums that need not agree (section 7), it may do so at
any time.
A block is valid, fails early (header or transaction) or fails late (in a step
after `update_last_irreversible_block`, when commit, log and pruning are done).
Blocks come from any peer in any order. `Redelivery` TRUE stands for
`network_broadcast_api::broadcast_block`, which pushes whatever it is given;
FALSE for the network layer, which drops recently accepted blocks
(`_most_recent_blocks_accepted`).

### PendingTx (`database.cpp`, `db_with.hpp`, `witness_plugin.cpp`)

Transactions depend on others, are excluded by others, expire and have a size.
`db.done` are those whose effects are in the tables, `db.known` the deduplication
list. `PushTransaction`, `PushBlock` (with any number of popped blocks),
`GenerateBlock`, then the steps of the switch, the restorer's `RetryPopped` and
`RetryPending`, `Return`, and `ClearPending` of the witness plugin. Which fork wins
is left to `ChainDb`; here every switch, successful or not, can happen.

### RwLock (`chainbase.hpp`, `with_read_lock`, `with_write_lock`)

The ring of mutexes, the index of the current one, and for every process what it
does and which mutex it has taken a reference to. `Enter` reads the current mutex,
`ReadLock` acquires it, the writer first passes the gate that keeps new readers out
(`Claim`) and then waits for the readers inside (`WriteLock`). `ReadTimeout` and
`WriteTimeout` give up after the second that a timed wait takes: whenever
nobody alive will release the mutex, and up to `MaxSlow` times while its holder is alive
and only takes long. The writer then counts up and constructs the next mutex anew
(`ConstructLock`). Any process may die at any step (`Crash`, up to `MaxCrashes` times), which
leaves the mapped file as it is. `lapped` is history: a mutex was constructed while some
process still waited for it or held it, so the ring has gone round. The mutex of boost is
external, with its two gates and a count of readers that wraps.

### WitnessSchedule (`database_witness_schedule.cpp`, `dbs_witness.cpp`, `database.cpp`)

Witness objects with key, votes and virtual times; `UpdateWitness` and
`AdjustWitnessVote` are the evaluators, `ApplyBlock(slots)` a block in the given
slot: missed slots, shutdowns, the signing witness, and every `MaxWitnesses`
blocks `update_witness_schedule()`. Virtual times are numbers modulo `Lap + 1` as
the code's are modulo 2^128. Votes are signed as in the code, which asserts only an upper
bound (`dbs_witness.cpp:61`): a withdrawal of common tokens takes off what was counted from
expertise (`database.cpp:1110`), so they can fall below zero, here to `-MaxDebt`. A sum of -1
makes the divisor zero and the operation or block is refused; any other negative number
becomes a huge unsigned one, and its witness comes first in every lap. `debt` is history:
the votes were negative since the lap began. The pseudo-random shuffle is any permutation. Numbers
stand for both ids and names of witnesses.

### BlockLog, DurableLog (`block_log.cpp`)

The data file and the index file as sequences of units (a packed block, a position),
each with the buffer of its stream, and the mode of the two streams (reading or
appending; changing over writes the buffer). `OpenEmpty` and `OpenExisting` (with
`construct_index`), `append`, `AppendRefused`, `flush`, `close`,
`read_block_by_num`, `IndexRemoved`, and `Crash`, which keeps any prefix of either
buffer. A file that ends in a block without its position is torn. The first
`block_log` of a process throws when it reads past such an end and the node stays down
(`StaysDown`); after `close()` the streams are new and without their exception flags
(`throws`), the failed read goes unnoticed, and `construct_index` never ends
(`OpenHangs`). Left out are torn files whose last eight bytes happen to
be a position.
`DurableLog` is the promise: a sequence of blocks of which a flushed part survives.

### NetSync (`node.cpp`, `peer_connection.hpp`, `application.cpp`)

For every peer the members of `peer_connection` that steer synchronisation (ids it
offered, what it was asked for, which side needs items, its inventory); for the node
the active sync requests, the blocks that wait for a parent, the pushes in progress
and the items of normal operation. Actions are the handlers of ids, blocks, inventory
and requests for ids, the loops that fetch and advertise, the backlog loop block by
block (it does not wait, so nothing runs in between), the task that hands a block to
the chain, closed connections and time-outs. A handler is split where it waits for the
delegate (`in_call`), so that other messages are handled in between. `lacking` are the blocks
for which a peer answered that it has them not: `on_item_not_available_message` takes the
request from the peer and leaves the entry of `_active_sync_requests`. The delegate (`get_block_ids`,
`get_blockchain_synopsis`, `handle_block`) is modelled from `application.cpp`. A
remote peer is a chain that may grow and answers as a node does; a `Pushy` one also
sends what it was not asked for.

### Balances, TokenSale, Licenses, CommonTokens, Vesting, Awards, Expertise, Ledger

One module per service, with the actions of its evaluators and the operators of its
processing per block. `Ledger` composes them: `Operation` is one operation of a
transaction (a failed assertion is a guard: the undo session of the transaction
leaves no trace), `EndBlock` the periodic processing in the order of `_apply_block`
at the block's own time, which as a whole refuses the block when an assertion fails.
Amounts are integers and rounding is that of the code: `asset` arithmetic truncates,
the shares of a sale are rounded to hundredths of a percent.
A licence fee goes to the holders of the
research's token by what they hold, all of it or none according to the token's trait
(`HoldersShare`), and what truncation leaves to the group.
`Expertise` keeps groups with
shares, researches with members, contents, reviews, votes, the regenerating power
of tokens and the eci of contents and researches. The sum over reviews is accumulated in an
`int` (`dbs_review.cpp:237`); `AsInt` wraps it, a weight that is not a
number or too large becomes the least `int64_t` as on x86-64, and a difference that overflows
the product with a percentage makes the block fail. Who may act for a group is left to `Accounts`. A new
member's share is what the others are diluted by and may be zero. An account created for a user has
tokens of every discipline, an organisation none; `FirstExpertise` says which.

### Accounts, Proposals, Governance

An authority is a threshold over weighted accounts and keys. Keys are opaque: proposals
take no approvals by key (`update_proposal_operation::validate`). `check_authority` adds the
weights of those who approved and of those whose active or owner authority is satisfied one
level deeper, down to the depth limit, and remembers whoever it found to have approved;
`verify_authority` asks the overrides of the active authority per type of operation first,
then active and owner authorities. Owner authorities are kept in the history from block
`HistoryStart` on. A recovery is requested by the recovery partner, or by the top witness
where there is none. Joining and leaving a group changes its active authority only: a leaver
stays in the owner authority, and thresholds stay.

`Proposals` has the proposals with approvals, review period and expiration. The database is
a record while a proposal runs: a result that is not ok is an exception and its database is
dropped, as by the nested undo session. Proposed operations are a transfer of the group
(which can fail), changes of active authority, owner authority and overrides, and creation,
approval, withdrawal of an approval and deletion of proposals; what they approve may run
inside of them. Proposals act only on proposals with smaller ids, except that one may
withdraw an approval of its own and so run within itself: one that approves or deletes
itself makes `push_proposal` touch a removed object, which is undefined. Ids are known for
`EntityLifetime` and can then be forgotten, in any block, and used again. `Vouched` and
`Approved` are a reference definition of what approvals amount to, a closure without depth or
order, against which every run of a proposal is compared.

`Governance` composes the two; a block ends with `clear_expired_recent_entities`,
`clear_expired_proposals` and `process_account_recovery`.

## 4. Runs

| Run | Shows |
|---|---|
| `undo_fixed_keys` | Three ids, two keys, three nested revisions: every undo is exact, sessions close their own states, revisions are consecutive, no uniqueness constraint is met, and the index implements `SnapshotStack`. |
| `chain_forks` | Valid blocks of four forks (branching at blocks 1, 2 and 3), repeated, up to two stops at any step, also inside of a block between `commit()` and the flush of the log, through the change from trailing to voted irreversibility: the node is on the longest chain, and irreversible blocks stay. |
| `chain_faults` | Blocks that fail early or late, in the middle of a longer fork and on top: failed pushes are unwound, the chain never gets shorter, state is a replay of the chain, the log is on it, a valid child of the head is accepted whatever failed before it, every push returns. |
| `chain_partition` | A witness that was cut off meets the longer chain of the other three. Irreversible blocks are never replaced although the switch can fail, and the push returns although `undo()` has nothing left to undo below them. |
| `pending_transactions` | Three dependent, competing and expiring transactions; blocks of this node and others; switches of up to two blocks that fail or not; blocks that turn out too big. |
| `lock_ring` | Two readers and a writer on a ring of three mutexes, two deaths, two waits that outlast a live holder: a reader is next to the writer only at a mutex the writer gave up, and the writer always gets to write. |
| `schedule_changes` | Four witnesses for two places, two changes of votes (also below zero) or keys, one missed slot before each block: nobody is scheduled in the past, nobody without debt runs past the end of a lap, and whoever shares a place takes turns. |
| `block_log` | Logs of up to four blocks with flushes, clean closes and reopening in the same process, a deleted index and crashes: every block of an open log is read by its number, and the two files implement `DurableLog`. |
| `net_fetch` | Two peers on forks of which one is refused, one growing, asking and out of protocol; connections close and time out at any moment, other fibers run while the delegate works: no block is requested twice, a request is forgotten only when the peer has not the block it offered, blocks reach the chain parent first. |
| `ledger_money` | Twelve groups of operations with blocks in between: what is held is the supply, also through licence fees, common tokens are backed, sales hold their stakes, vesting keeps its schedule, awards are not overspent, eci and expertise follow the reviews, members have a share and the shares are the whole. |
| `governance_rules` | Nested, failing, reviewed and expiring proposals that create, approve and delete one another and change the authorities they are judged by, members who join and leave, ids that are forgotten and used again; recovery with updates, requests and changed partners. Proposals run once, whole and on approvals that suffice at that moment, and the recovery windows are exact. |
| `ledger_settle` | Expected violation, see section 7. |

The runs check `TypeOK` of `UndoIndex` only. In the other modules `TypeOK` documents
the variables.

### Bounds

* `MaxId`, `MaxDepth`, `MaxRevision`: three undo states are the least in which a
  squash merges into a state that has one below it; three ids let an object
  be created, another removed and a key be reused. The theorems remove the bounds.
* Block trees: each tree is chosen so that every branch of `_push_block` is taken,
  with forks longer than the confirmed part of the chain. The witness sets are the
  smallest for which the threshold of 75% leaves one witness out (or none).
* `MaxStops` 2 in `chain_forks`, so that a stop can hit what an earlier one and the
  reindex have rebuilt; 1 in the other two.
* `MaxTime`, `MaxBlockTxs`, `MaxPops`: enough for a transaction to be applied,
  popped, retried, to expire and to be forgotten by the deduplication list.
* `NumLocks` 3, `MaxCrashes` 2, `MaxSlow` 2, `MaxShared` 3: the writer can move on up to
  four times, so the ring goes round past a process that still uses an old mutex.
* `Lap` 7 with -3 to 2 votes: laps of 2, 3 and 7, several overflows per run, and
  witnesses whose negative votes make their lap 1.
* `MaxChanges` 2: a change of votes after the virtual time has moved, followed by
  a change of key.

* `MaxBlock` 4 in the log: a crash can lose the index of one block and the data of
  another, and the log is opened empty, with one block and with more.
* `net_fetch`: two blocks on top of each other and a refused sibling, no reconnection
  (`MaxConnects` 1), a prefetch of one and two items per peer, two calls of the delegate in
  flight and one block in the backlog. `IdsLimit` 2 holds a whole chain, so id lists are never
  partial. The run has five million states as it is.
* `Ledger`: `Scenarios` chooses the groups of operations that a behaviour may use
  and how many of them, because all of them together are too many: sales and
  balances 3, sales 5, sales with licences and balances 2, sales with licences 3, common
  tokens 3, sales with common tokens 2, vesting with
  common tokens 2, vesting 4, awards 11, teams 4, reviews 4, teams with reviews 3.
  Awards need 11 for two awards with subawards and two requests to go all the way.
  `MaxTime` 4 with gaps of one and two lets sales start and end, withdrawals take
  two intervals, vesting pass its cliff and its end, and power regenerate. The
  amounts are small and chosen so that every division leaves a remainder. `MinShare` is half
  of the whole, so a third member's share is zero, as a hundredth member's can be in the code.
  `IntLimit` 62, `Int64Limit` 100000 and `DiffLimit` 1000 are the widths scaled to these
  amounts; sums reach the first.
* `Governance`: of seven proposals one fails half way, one replaces the members that
  approve the others, one runs another, one replaces both authorities, one deletes one and
  creates another, one runs within itself, one overrides the authority for transfers. Five
  operations on proposals 1, 2, 3; on 1, 2, 5; on 1 with joining and leaving; on 6, 7 with
  joining and leaving; five of recovery; three on 2, 4 with all of these. In `MaxTime` 4 every
  lifetime, review, recovery and request period passes and another can begin;
  `EntityLifetime` 3 lets an id be used again, `HistoryStart` 1 leaves a first block whose
  owner authorities are not kept.

`Ledger`, `Governance` and `NetSync` stop when their operations, time or
connections are used up, so their configurations switch the deadlock check off.

In `chain_forks` and `chain_faults` the trees satisfy `IrreversibleIsFinal`
(evaluated by TLC as an assumption): when a valid chain makes a block
irreversible, nobody signs a higher block that does not extend it. That is what
honest witnesses provide; `chain_partition` does without it. They also satisfy
`RootIsSettled`: the chain that the node is opened on is irreversible, so no higher
block leaves it.

### Fairness

`ChainDb`: weak fairness of `Handler`, the steps of one
`push_block()`. It runs on the writing thread, under the write lock, and waits for
nothing. `RwLock`: weak fairness of every process's acquisition, timeout and
release and of the writer's steps along the ring: callbacks return, timed waits end. `WitnessSchedule` needs none:
`EveryoneTakesTurns` is conditional on rounds of blocks going on. The other
modules state no liveness: clients and peers may always stop.
The schedule's configurations switch the deadlock check off because the chain
really stops when no scheduled witness has a key.

## 5. What is proved

Each theorem holds for every value of the constants that the named assumptions of
the modules allow: any number of accounts, witnesses, processes, blocks and
transactions, any amounts, any bounds. The proofs are in `*Proofs` modules that
extend the module they are about; `SumFacts` has the lemmas they share.

**UndoIndexProofs**, under `UndoIndexAssumption` only (the bounds are naturals,
`Absent` is no value):

* `TypeCorrect`, `RevisionsAreConsecutive`, `SessionsNest`;
* `UndoIsExact`: undoing any undo state gives back the copy of the table and of
  the id counter from when it was opened;
* `FixedKeysNeverFail`: without modifiers that change unique keys no undo throws;
* `IndexImplementsSnapshots`: the refinement of `SnapshotStack`.

That an undo of the *topmost* state is exact is not inductive: a squash merges
the two topmost states, a pop uncovers the one below, and an object that is
modified after having been created must not be recorded. The inductive invariant
`IndInv` therefore says for *every* state `k` of the stack that its record is the
difference between copy `k` and what came after it (copy `k + 1`, or the table),
id by id (`DiffAt`): at most one of new, updated and removed; new and updated
objects exist afterwards, removed ones do not; before-values are exact. To it
belong unique keys and fresh ids in every copy (`Coherent`), which is what makes
the three loops of `undo()` succeed. One lemma per kind of write shows that the
record stays a difference, `MergeKeepsDifference` covers the matrix of squash, and
the step lemmas lift this to the stack, one per action.

**ChainDbProofs**, under `BlocksAssumption`, `ChainDbAssumption` and the hypothesis
`SeveralConfirm`: more than one witness has to confirm a block (16 of 21 on the
chain; TLC evaluates it for the runs' instances).

* `StateIsTheReplay`: the chain state and every state it can be undone to are the
  replay of their chains (`StateIsReplay`), through forks, failed switches, faults
  before and after the commit, and stops between any two steps and inside of a block.
* `OpenFindsItsRevision`: the assertion of `open()` that the revision is the number
  of the head block never fails.

`SeveralConfirm` is needed: with a single witness a block is irreversible while it is
being applied, `commit()` takes its own revision, and an exception in one of the later
steps leaves a state that no chain gives. With it the number found by `nth_element` is
below the new block's (`WithBlockIsProper`), so the session always finds its revision
(`CommitFacts`). The inductive invariant adds that there is one revision per block
(`Stacked`: revision, number of the block and place in the stack agree), that the log and
the branches of a switch consist of blocks, and that a switch has blocks left. `Replay` is
shown to satisfy its recursive definition for chains of every height (`ReplayStep`).

With two more hypotheses:

* `LogStaysOnChain` (`LogIsOnChain`): the block log is a prefix of the node's chain;
* `IrreversibleIsNotReplaced` (`IrreversibleNotReplaced`): no step puts another block in the
  place of one that the node took for irreversible.

The hypotheses are `RootIsSettled` (no higher block leaves the chain that was opened; TLC
evaluates it for the instances of `MCChainDbFinal`) and `Redelivery = FALSE`. A block of the
chain that is pushed once more can be removed from the index (section 7), and then the only
block of its number there may be that of another fork; `chain_partition` checks
`IrreversibleNotReplaced` with redelivery on a small tree. Nothing is assumed about who signs
which fork: `IrreversibleIsFinal` is not a hypothesis.

What is written to the log is looked up in the fork database by number, so the proof is about
what the index holds at every step of a switch. The invariant `TrunkInv` adds to the one above:

* `Trunk`: the states of the undo stack and the log are on the chain of the head, which
  extends the root, and every block above the oldest state is `Sound`: it can be applied
  again, and the log has what it made irreversible;
* `Links`: an item that is not lost has its parent in the index;
* `Covers`: from the lowest block of the index on, the index has the whole chain of the head,
  so that the lookup on the main branch finds a block of it or nothing;
* `Switching`: between which two chains a switch is, that both are covered, and that their
  branches are apart (but for the case that the head itself is popped and applied again).

**PendingTxProofs**, under `PendingTxAssumption`: `NoTransactionTwice` (`AppliedOnce`),
`PendingIsSession` (`PendingIsReplay`) and `NoTransactionLost` (`NothingLost`). `AppliedOnce` alone is not inductive; the
invariant says that the tables after each block of the chain refuse every transaction up to
that block, because it is in the deduplication list or has expired (`Remembered`), that there
is one undo session per block and one more for the pending transactions, and that this
stays so while a switch pops and applies blocks.

`NothingLost` rests on a second invariant, `Kept`. When a push ends, the popped and the
pending transactions are tried in turn, and one that fails is dropped. So what has to be
shown is that each failure is final: a transaction that is tried in vain is on the chain,
has expired, or needs one that was itself given up (`Hopeless`). That in turn needs that the
queue never holds a transaction before one it needs (`Ordered`): pending ones after those of
popped blocks, blocks popped later in front, and after a switch that is unwound the
transactions of the abandoned fork first. And what every applied transaction needs was
applied below it (`Founded`), so popping blocks uncovers no gap. In between, everything that
was accepted is on the chain, in the queue, or hopeless.

**BlockLogProofs**, under `BlockLogAssumption`: `BlocksAreRead` (`EveryBlockIsRead`) and
`LogIsDurable` (the refinement of `DurableLog`). The invariant describes the two files
with their buffers: the data file is blocks and positions in turn, torn or not
(`WellFormed`), the index file is the positions from the first block on (`WellIndexed`), an
open log has whole records and its index has them all, unless it lost the index of a
single block (`OpenLog`), and what was acknowledged is in the file.

**RwLockProofs**: `ExclusionPerMutex` (`WriteExclusion`), under `RwLockAssumption`, whoever
dies and however long callbacks take: reader and writer are never inside of their callbacks
under the same mutex, until a mutex has been constructed under a process that still used it
(`lapped`). That they exclude each other altogether is not true (section 7). The invariant says who
holds which mutex, that a mutex is held shared or exclusively, and that its count of readers
is at least the number of those inside as long as the ring has not gone round past them.

**WitnessScheduleProofs**, under `WitnessScheduleAssumption`: `TimeNeverPasses`
(`NobodyInThePast`) and `DistanceWithinTheLap` (`WithinTheLap`). Both follow from one
inductive invariant: a witness's time is not before the current one, its last update not
after it, and, for a witness whose votes were not negative in the current lap, its position
plus votes times the time left is at most a lap. Votes may take any signed value in between:
the first theorem holds for everybody, the second for a witness again from the first lap it
starts without debt.

**LedgerProofs**, under the assumptions of `Ledger` and the modules it extends:

* `VestingIsOnSchedule` (`VestingOnSchedule`): the evaluator computes the vested share from
  the remaining balance at each withdrawal; the lemma `AllowedIsVested` shows that this
  never exceeds the share of the whole deposit, with both integer divisions.
* `AwardsArePaidOnce` (`PaidWithinAward`): the invariant adds that requests name existing
  awards and recipients of theirs, and that the expenses of a recipient are the sum of the
  paid requests.
* `MoneyIsNeitherMadeNorLost` (`HeldIsSupply`): for every asset, what the accounts, token
  sales, awards and vesting contracts hold, also while licence fees are shared out, with the common tokens and the reward fund for
  the core asset, is the supply.
* `CommonTokensAreBacked` (`CommonTokensBacked`) and `SalesHoldTheirStakes`
  (`SaleHoldsItsStakes`): the total of the vesting fund is what the accounts have of it, and
  an active sale holds exactly the stakes of its contributors.

The three share the invariant `MoneyInv`. The books of the core asset and of the others
(`CoreBook`, `AssetBook`) balance only if every operation that pays out can pay: no balance,
award or remaining vesting deposit is negative (`Solvent`), a sale that ends pays the sum of
its contribution rows and keeps or refunds exactly that (`SaleHolds`, which needs one row per
contributor and sale and positive totals), and a power-down pays what `CommonHolds` says is
there, by a rate that is never zero while a withdrawal is under way. The payments of one block
are folds over sets of accounts, sales and rows; `SumFacts` has what a fold of transfers does to
a sum. The assumptions name what the code fixes before the first block: finitely many
accounts, a typed genesis state with its balances, and sale terms within their types.

Sums are `SumFunction` of the community modules, a recursive function on subsets. The
library's induction theorems have an operator as a parameter, which the installed provers
cannot instantiate. `SumFacts` therefore does induction over a *set* of naturals or of
subsets (`NaturalsByStep`, `SubsetsBySize`) and proves once that a function defined by
recursion over subsets exists (`RecursionOverSubsets`); the lemmas about sums and folds
follow from it.

## 6. What is only model-checked

* All liveness (`ChainDb`'s `PushReturns`, `WriterProceeds`, `EveryoneTakesTurns`): out of the
  prover's reach.
* Of `ChainDb`: `FailedPushIsUnwound`, `NeverShorter`, `OnLongestChain`,
  `ValidChildIsAccepted` and `IrreversibleStays`. The attempt to prove the first showed
  that it does not hold for every tree, not even with `IrreversibleIsFinal` (section 7,
  first of block handling), and on the same tree TLC refutes `OnLongestChain` and
  `ValidChildIsAccepted`: `chain_forks` and
  `chain_faults` show them for trees in which no two branches are signed on top of an
  invalid block; the tree of `chain_faults` has invalid blocks in the middle of a fork and on
  top of the head, after which valid children of the head are still accepted.
  `NeverShorter` and `IrreversibleStays` depend on the same contents of the fork database.
* All of `NetSync`.
* The properties of `Expertise`, which `Ledger` composes. The order in which a review is
  credited and disciplines are visited is a sorted sequence, and the prover has no facts about
  the standard modules' `SortSeq`. `TeamsAreMembers` says that every member of a
  research team has a share object of the group and that the shares sum to the whole; a share
  may be zero, and as members are diluted only down to a floor, in a group of about a hundred
  what is left for a new one can be negative. It speaks of shares, not of the group's
  authority, which other operations can replace (section 7).
* `Accounts` and `Proposals` use RECURSIVE operators (nested authorities, proposals
  that run proposals), which the prover cannot work with, so `Governance` stays
  with TLC.

## 7. Where the code and what it says differ

Shown by a run:

* `ledger_settle`: a sale is settled by giving each contributor a share of the
  tokens on sale, rounded to the nearest hundredth of a percent. When the shares
  round up, the sum is more than is on sale; if the group has no other tokens the
  transfer's assertion fails inside of `process_research_token_sales` and no block
  after the end of the sale can be applied (`dbs_research_token_sale.cpp:356`).

Block and lock handling, noted while modelling and proving:

* When a longer fork contains an invalid block, the blocks of that fork from the invalid
  one on are removed from the fork database, but not other branches on top of the invalid
  block (`database.cpp:605`). They have no parent any more, yet grow and become the fork
  database's head; valid children of the node's own head are refused from then on and stay
  in the index. When one of their descendants is the highest block at last, the switch pops
  the old head and applies it and several more blocks. If the last one is invalid the unwind
  loop pops the fork database from the old tip once for each of them (`:608`), and when it
  has fewer left, its assertion ends the unwinding half way (`fork_database.cpp:21`). TLC
  finds this with the constants of `chain_faults` and no stop on the tree of a chain of seven
  valid blocks with an invalid eighth (witness 1, then always 2) and, on its second block, an
  invalid third with two branches of two (witness 2) and four blocks (1, then 2).
* A longer fork from below the last irreversible block makes `_push_block` pop
  until an assertion of the fork database fails (`database.cpp:580`); the popped
  blocks are not applied again, although "every partial change is unwound" (`:511`).
* While a longer fork is applied, the fork database's head lags behind, and the
  lookup of an irreversible block by number can fail (`database.cpp:2498`).
* The size of the witness's name and of the header's extensions is not counted when
  transactions are chosen (`database.cpp:744`, `:777`, `:2062`), so the node can
  refuse its own block and then clears its pending transactions.
* "all writes must be protected by a mutex" (`chainbase/README.md:117`) is not what the ring
  gives: when a reader's callback, or a dead process's mutex, outlasts the timed wait of one
  second, the writer moves on to the next mutex and writes while that reader still reads, or
  a reader that waited is let in at the mutex given up (`chainbase.hpp:1103`). `RwLock` has
  these behaviours; `WriteExclusion` says what remains.
* Votes of a witness can become negative (`dbs_witness.cpp:61`, `database.cpp:1110`). The
  unsigned arithmetic of the virtual schedule then puts the witness ahead of everyone in each
  lap, or, at -1, divides by zero.
* Witnesses without a key are skipped but counted in the assertion on the number of
  active witnesses (`database_witness_schedule.cpp:111`, `:147`).
* `undo()` throws, with the table half restored, when modifiers have exchanged two
  unique keys (`KeysMutable`). No table of the node does that: its unique keys
  contain an id or a name that never changes.
* After an invalid block on top of the head, `_head` of the fork database stays on
  the removed block. If the current head block is then pushed once more it is
  removed from the index, too, and its children no longer link.
* `fork_database::push_block` returns its head, which after a fork switch is lower
  than other blocks of the index.
* `_generate_block` resets the pending session before its last size check; when
  that fails, `clear_pending()`'s assertion does not hold.
* `clear_expired_transactions` removes a transaction right after its expiration; the
  comment says two forking windows later. `AppliedOnce` holds nevertheless.

* After `close()` a `block_log` has new streams without exception flags
  (`block_log.cpp:179`, set at `:85`): a torn file is not refused on reopening, and
  `construct_index` does not end.
* A log of exactly one block whose index is lost: `construct_index` writes nothing,
  and the next append fails its assertion.

Network, noted while modelling:

* Blocks received before a disconnect, and those of the last branch of
  `process_backlog_of_sync_blocks`, stay in `_received_sync_items` (comment at
  `node.cpp:3664`) and can keep the node from asking for them again.
* `terminate_inactive_connections_loop` leaves its loop at the first peer of one
  kind (`:1553`); the state that `:1600` says is never reached is reached normally.
* `on_item_not_available_message` erases the request from the peer and not from
  `_active_sync_requests` (`:3088`), so that no peer is asked for that block again. `NetSync`
  has this; `RequestsAreAwaited` excepts exactly these blocks. An id
  stays among `_message_ids_currently_being_processed` when a push throws.

Domain, noted while modelling:

* `validate_invariants` compares sums that `process_funds` and the clamping of
  expertise make differ, so `open()` falls back to a reindex; the call in
  `apply_block` is commented out.
* A sale whose window contains no block stays inactive, its tokens frozen. A second
  security token for a research fails the comparison of two assets.
* `update_voting_proxy` uses common tokens where `witness_vote_weight` uses
  expertise, and keeps a pointer to a variable that is gone.
* Discipline supplies deduct the share of a block and pay rounded parts of it, and
  remove objects while they iterate; `process_funding_opportunities` is never called.
  The announced window of a grant is asked to be of opposite order in `validate` and
  in the evaluator.
* Vesting: after a partial withdrawal a rest can stay locked; a withdrawal before
  the cliff succeeds and moves nothing; contracts of the genesis have cliff =
  duration and are not in the supply.
* Awards: below the first level only single subawards are compared with their source;
  a payment burns supply while the recipient keeps the tokens.
* `set_withdraw_common_tokens_route` skips a route to account 0 and reads an iterator
  before it compares it with the end (`deip_evaluator.cpp:411`).
* `update_account` of a group replaces its active authority and touches no share
  (`deip_evaluator.cpp:241`), so those who decide need not be the members.
* Owner authorities enter the history only from block 3186477 of the live network on
  (`dbs_account.cpp:232`, `config.hpp:54`): before it no account can be recovered.
* `DEIP_RECENT_ENTITY_LIFETIME_SEC` is a macro without parentheses: subtracted from a time
  it takes off three lifetimes of proposals less a block interval.
* A proposal that approves or deletes itself, directly or through others, is removed before
  `push_proposal` removes it; nothing refuses to create it.
* A proposal that runs another one resets `_current_proposed_trx` of the outer run.
* Expertise: a reviewer without expertise makes `get_eci_weight` divide zero by zero;
  the result converted to `int64_t` can make `process_funds` fail for every further
  block (the assertion at `deip_evaluator.cpp:885` is commented out). Tokens can
  become negative. A member can leave a group and then review its content. Leaving a
  group does not lower the threshold of its authority. Weights of votes are unused.

## 8. Not modelled

* Votes on hardforks, `process_hardforks`, median properties; expertise allocation
  proposals; grant applications, discipline supply and eci grants; the minimal
  signature search; account creation (its fee makes the same entries as a transfer to common
  tokens) and proposals that create the accounts they act for; the timing of the production loop
  (section 2, item 10).
* Evaluators that create or update one record and nothing else: assets, NDA
  contracts (whose further operations are deprecated), assessment criteria, traits.
* Of the network: handshake, addresses, transactions, bandwidth, firewall checks,
  the message cache, sockets.
* Genesis beyond the initial states, which are taken from it. APIs, the history and
  tag plugins, wallet, word lists and build helpers hold no protocol state of their
  own; together they are most of the repository's lines and are left out for good.
* Floating-point arithmetic is taken to be exact.
