------------------------------- MODULE ChainDb -------------------------------
(***************************************************************************)
(* chain::database as the keeper of one chain: push_block() with the       *)
(* choice of the longest fork, pop_block(), the application of a block     *)
(* with its last irreversible block and block log, and open() after a stop *)
(* (libraries/chain/database/database.cpp).                                *)
(*                                                                         *)
(* The chain state is abstracted to what decides about blocks: the head,   *)
(* the last irreversible block number, and what every witness confirmed    *)
(* last.  It lives in chainbase tables, so it is restored by undo: the     *)
(* undo stack holds one full copy per revision, which is what SnapshotStack *)
(* promises and UndoIndex implements.  The fork database and the block log *)
(* are outside of those tables: nothing undoes what happens to them.       *)
(*                                                                         *)
(* push_block() holds the write lock from beginning to end; it is split    *)
(* into one step per block that is popped or applied, because a stop of    *)
(* the process can come between two of them; StopInBlock is a stop inside  *)
(* of a block, between commit() and the flush of the log.                  *)
(***************************************************************************)
EXTENDS ForkDatabase

CONSTANTS Witnesses,              \* the scheduled witnesses
          WitnessOf,              \* [Blocks -> Witnesses]
          Fault,                  \* how applying a block fails, see FaultKinds
          Root,                   \* head of the chain the node starts from
          IrreversibleThreshold,  \* DEIP_IRREVERSIBLE_THRESHOLD in percent
          VotingStart,            \* DEIP_START_MINER_VOTING_BLOCK
          MaxWitnesses,           \* DEIP_MAX_WITNESSES
          MaxUndoHistory,         \* DEIP_MAX_UNDO_HISTORY
          Redelivery,             \* blocks of the chain can be pushed once more
          MaxStops                \* bound: how often the process stops

(* "early": a check of the header or of a transaction throws.  "late": one *)
(* of the steps after update_last_irreversible_block() throws.             *)
FaultKinds == {"none", "early", "late"}

ASSUME ChainDbAssumption ==
    /\ Witnesses # {} /\ IsFiniteSet(Witnesses)
    /\ WitnessOf \in [Blocks -> Witnesses]
    /\ Fault \in [Blocks -> FaultKinds]
    /\ Root = Genesis \/ (Root \in Blocks /\ \A n \in 1..Num(Root) : Fault[Ancestor(Root, n)] = "none")
    /\ IrreversibleThreshold \in 1..100 /\ Redelivery \in BOOLEAN
    /\ VotingStart \in Nat /\ MaxWitnesses \in Nat /\ MaxUndoHistory \in Nat /\ MaxStops \in Nat

VARIABLES db,         \* the chain state
          undo_stack, \* _stack: the state before each revision that can be undone
          revision,   \* revision()
          fork_db,    \* _fork_db
          block_log,  \* _block_log: the blocks written, by number
          task,       \* what push_block() is doing, and how the last one ended
          stops       \* number of stops of the process so far

vars == <<db, undo_stack, revision, fork_db, block_log, task, stops>>

DbState == [head : Blocks \cup {Genesis}, lib : Nat, confirmed : [Witnesses -> Nat],
            whole : BOOLEAN]     \* all steps of all its blocks were done

NoBranches == [first |-> <<>>, second |-> <<>>]
Idle(outcome, start, b) ==
    [pc |-> "idle", outcome |-> outcome, start |-> start, block |-> b, todo |-> NoBranches]

TypeOK ==
    /\ db \in DbState
    /\ undo_stack \in Seq([before : DbState, revision : Nat])
    /\ revision \in Nat
    /\ fork_db.index \subseteq Blocks /\ fork_db.lost \subseteq Blocks
    /\ fork_db.head \in Blocks \cup {Genesis} /\ fork_db.max_size \in Nat
    /\ block_log \in Seq(Blocks)
    /\ task.pc \in {"idle", "apply", "pop", "push", "unwind", "restore"}
    /\ task.outcome \in {"none", "ok", "failed"}
    /\ stops \in 0..MaxStops
----------------------------------------------------------------------------
(* update_last_irreversible_block: with too few blocks for voting the LIB  *)
(* trails the head; later it is the block that enough witnesses confirmed, *)
(* the nth_element of what they confirmed last, and never moves back.      *)
Offset == ((100 - IrreversibleThreshold) * Cardinality(Witnesses)) \div 100

(* Several witnesses have to confirm a block: 16 of 21 at a threshold of   *)
(* 75 percent.  A block is then not irreversible when it is applied.       *)
SeveralConfirm == MaxWitnesses > 0 /\ Offset < Cardinality(Witnesses) - 1

(* The chain that the node is opened on is irreversible: nobody signs a    *)
(* higher block that does not extend it.                                   *)
RootIsSettled == Root # Genesis /\ \A c \in Blocks : Num(c) > Num(Root) => Extends(c, Root)

NthConfirmed(confirmed) ==
    CHOOSE n \in {confirmed[w] : w \in Witnesses} :
      /\ Cardinality({w \in Witnesses : confirmed[w] < n}) <= Offset
      /\ Cardinality({w \in Witnesses : confirmed[w] <= n}) > Offset

NewLib(lib, num, confirmed) ==
    IF num < VotingStart
    THEN IF num > MaxWitnesses THEN num - MaxWitnesses ELSE lib
    ELSE IF NthConfirmed(confirmed) > lib THEN NthConfirmed(confirmed) ELSE lib

(* update_global_dynamic_data, update_signing_witness and the LIB.         *)
WithBlock(d, b) ==
    LET confirmed == [d.confirmed EXCEPT ![WitnessOf[b]] = Num(b)] IN
    [d EXCEPT !.head = b, !.confirmed = confirmed, !.lib = NewLib(d.lib, Num(b), confirmed)]

(* The state after the blocks up to b, applied one after the other.        *)
GenesisState == [head |-> Genesis, lib |-> 0, confirmed |-> [w \in Witnesses |-> 0], whole |-> TRUE]

Replay[b \in Blocks \cup {Genesis}] ==
    IF b = Genesis THEN GenesisState ELSE WithBlock(Replay[Parent(b)], b)

ValidChain(b) == \A n \in 1..Num(b) : Fault[Ancestor(b, n)] = "none"

(* What the witnesses have to provide: when a valid chain makes a block    *)
(* irreversible, nobody signs a higher block that does not extend it.      *)
IrreversibleIsFinal ==
    \A b, c \in Blocks :
      LET lib == Replay[b].lib IN
      (Fault[b] # "early" /\ ValidChain(Parent(b)) /\ Num(c) > lib) => Extends(c, Ancestor(b, lib))

LogOf(b, n) == [i \in 1..n |-> Ancestor(b, i)]

(* The node has been opened on a chain that ends at Root: open() has       *)
(* undone every reversible block, so all of it is in the block log.        *)
Init ==
    /\ db = Replay[Root]
    /\ undo_stack = <<>>
    /\ revision = Num(Root)
    /\ fork_db = IF Root = Genesis THEN EmptyForkDb ELSE start_block(EmptyForkDb, Root)
    /\ block_log = LogOf(Root, Num(Root))
    /\ task = Idle("none", Replay[Root], Genesis)
    /\ stops = 0
----------------------------------------------------------------------------
(* apply_block() inside of an undo session.  A block reaches               *)
(* update_last_irreversible_block when its header and its transactions are *)
(* valid and the undo history is not exhausted.                            *)
Accepted(b) ==
    /\ Parent(b) = db.head
    /\ Fault[b] # "early"
    /\ Num(b) - db.lib < MaxUndoHistory

Opened == Append(undo_stack, [before |-> db, revision |-> revision + 1])

(* commit(): states leave the front of the stack until one is above lib.   *)
Committed(lib) == {k \in 1..Len(Opened) : \A j \in 1..k : Opened[j].revision <= lib}

(* Faulty variant: one revision too many is committed.                     *)
AfterCommitOneMore(lib) == SubSeq(Opened, Cardinality(Committed(lib + 1)) + 1, Len(Opened))

AfterCommit(lib) == SubSeq(Opened, Cardinality(Committed(lib)) + 1, Len(Opened))

(* Faulty variants: the log runs one block ahead, or one behind.           *)
MissingAhead(lib) == (Len(block_log) + 1)..(lib + 1)
MissingBehind(lib) == (Len(block_log) + 1)..(lib - 1)

(* The irreversible blocks the log lacks, looked up one by one; the loop   *)
(* ends at the first one that the fork database does not find.             *)
Missing(lib) == (Len(block_log) + 1)..lib
Lookup(n) == fetch_block_on_main_branch_by_number(fork_db, n)
Found(lib) == {n \in Missing(lib) : \A m \in (Len(block_log) + 1)..n : Lookup(m) # Genesis}
WriteLog(lib) ==
    block_log' = block_log \o [i \in 1..Cardinality(Found(lib)) |-> Lookup(Len(block_log) + i)]
AllFound(lib) == Found(lib) = Missing(lib)

Applies(b) ==
    LET new == WithBlock(db, b) IN
    /\ Accepted(b)
    /\ Fault[b] = "none"
    /\ AllFound(new.lib)
    /\ db' = new
    /\ undo_stack' = AfterCommit(new.lib)
    /\ revision' = revision + 1
    /\ WriteLog(new.lib)
    /\ fork_db' = set_max_size(fork_db, Num(b) - new.lib + 1)

(* Faulty variant: the changes of the failed block are kept.               *)
EndSessionKeeps(b, new) ==
    /\ db' = [new EXCEPT !.whole = FALSE]
    /\ undo_stack' = AfterCommit(new.lib)
    /\ revision' = revision + 1

(* An exception ends the session: its destructor calls undo(), which finds *)
(* the state of this revision on top, or nothing when commit() took it.    *)
EndSession(b, new) ==
    IF AfterCommit(new.lib) # <<>>
    THEN /\ db' = db
         /\ undo_stack' = SubSeq(AfterCommit(new.lib), 1, Len(AfterCommit(new.lib)) - 1)
         /\ revision' = revision
    ELSE /\ db' = [new EXCEPT !.whole = FALSE]
         /\ undo_stack' = <<>>
         /\ revision' = revision + 1

Rejects(b) ==
    LET new == WithBlock(db, b) IN
    \/ /\ ~Accepted(b)
       /\ UNCHANGED <<db, undo_stack, revision, block_log>>
    \/ /\ Accepted(b)
       /\ ~AllFound(new.lib) \/ Fault[b] = "late"
       /\ WriteLog(new.lib)
       /\ EndSession(b, new)

(* What a rejected block leaves in the fork database: the pruning is not   *)
(* undone.                                                                 *)
ForkDbAfterReject(b) ==
    LET lib == WithBlock(db, b).lib IN
    IF Accepted(b) /\ AllFound(lib) THEN set_max_size(fork_db, Num(b) - lib + 1) ELSE fork_db
----------------------------------------------------------------------------
Ends(outcome) == task' = Idle(outcome, task.start, task.block)

(* The network layer drops a block it has accepted recently (see           *)
(* _most_recent_blocks_accepted); network_broadcast_api::broadcast_block   *)
(* pushes whatever it is given.                                            *)
Delivered(b) == Redelivery \/ ~Extends(db.head, b)

(* push_block and _push_block up to the decision what to do with the head  *)
(* of the longest fork.                                                    *)
PushBlock(b) ==
    LET pushed   == push_block(fork_db, b)
        new_head == pushed.head
        start    == BranchStart(new_head, db.head)
        begin(pc, todo) == task' = [pc |-> pc, outcome |-> "none", start |-> db, block |-> b, todo |-> todo]
    IN
    /\ task.pc = "idle"
    /\ Delivered(b)
    /\ \/ /\ TooOld(fork_db, b) \/ Unlinkable(fork_db, b)
          /\ task' = Idle("failed", db, b)
          /\ UNCHANGED fork_db
       \/ /\ ~TooOld(fork_db, b) /\ ~Unlinkable(fork_db, b)
          /\ fork_db' = pushed
          /\ \/ /\ Parent(new_head) = db.head
                /\ begin("apply", NoBranches)
             \/ /\ Parent(new_head) # db.head
                /\ Num(new_head) <= Num(db.head)
                /\ task' = Idle("ok", db, b)
             \/ /\ Parent(new_head) # db.head
                /\ Num(new_head) > Num(db.head)
                /\ \/ /\ ~CanFetchBranches(pushed, new_head, db.head)
                      /\ task' = Idle("failed", db, b)
                   \/ /\ CanFetchBranches(pushed, new_head, db.head)
                      /\ begin("pop", [first |-> Branch(new_head, start),
                                       second |-> Branch(db.head, start)])
    /\ UNCHANGED <<db, undo_stack, revision, block_log, stops>>

(* The block extends the head.                                             *)
ApplyBlock ==
    /\ task.pc = "apply"
    /\ \/ Applies(task.block) /\ Ends("ok")
       \/ /\ Rejects(task.block)
          /\ fork_db' = remove(ForkDbAfterReject(task.block), task.block)
          /\ Ends("failed")
    /\ UNCHANGED stops

(* pop_block: the head of the fork database and the last revision.  undo() *)
(* does nothing when no revision can be undone.  Until the old chain is    *)
(* restored _push_block holds the items of its branch, pruned or not.      *)
Held == {task.todo.second[i] : i \in 1..Len(task.todo.second)}

(* Faulty variant: nothing ends the loop when there is nothing to undo.    *)
CanPopBlockUnchecked ==
    /\ db.head # Genesis
    /\ db.head \in fork_db.index \/ (Num(db.head) <= Len(block_log) /\ block_log[Num(db.head)] = db.head)

CanPopBlock ==
    /\ db.head # Genesis
    /\ db.head \in fork_db.index \/ (Num(db.head) <= Len(block_log) /\ block_log[Num(db.head)] = db.head)
    /\ CanPop(fork_db, Held)

PopBlock ==
    /\ CanPopBlock
    /\ fork_db' = pop_block(fork_db)
    /\ IF undo_stack = <<>> THEN UNCHANGED <<db, undo_stack, revision>>
       ELSE /\ db' = undo_stack[Len(undo_stack)].before
            /\ undo_stack' = SubSeq(undo_stack, 1, Len(undo_stack) - 1)
            /\ revision' = revision - 1
    /\ UNCHANGED block_log

ForkPoint == Parent(task.todo.second[1])

(* Popping towards the fork point, before the new fork is applied or after *)
(* it turned out to be bad.                                                *)
PopTowardsFork ==
    /\ task.pc \in {"pop", "unwind"}
    /\ db.head # ForkPoint
    /\ \/ PopBlock /\ UNCHANGED task
       \/ /\ ~CanPopBlock
          /\ Ends("failed")
          /\ UNCHANGED <<db, undo_stack, revision, fork_db, block_log>>
    /\ UNCHANGED stops

AtForkPoint ==
    /\ task.pc \in {"pop", "unwind"}
    /\ db.head = ForkPoint
    /\ task' = [task EXCEPT !.pc = IF @ = "pop" THEN "push" ELSE "restore"]
    /\ UNCHANGED <<db, undo_stack, revision, fork_db, block_log, stops>>

(* Faulty variants: after a rejected block the old chain is not restored,  *)
(* or the same block is tried again.                                       *)
PushForkBlockNoRestore ==
    LET first == task.todo.first IN
    /\ task.pc = "push"
    /\ \/ /\ Applies(first[1])
          /\ IF Len(first) = 1 THEN Ends("ok")
             ELSE task' = [task EXCEPT !.todo.first = Tail(@)]
       \/ /\ Rejects(first[1])
          /\ fork_db' = ForkDbAfterReject(first[1])
          /\ Ends("failed")
    /\ UNCHANGED stops

PushForkBlockRetries ==
    LET first == task.todo.first IN
    /\ task.pc = "push"
    /\ \/ /\ Applies(first[1])
          /\ IF Len(first) = 1 THEN Ends("ok")
             ELSE task' = [task EXCEPT !.todo.first = Tail(@)]
       \/ /\ Rejects(first[1])
          /\ fork_db' = ForkDbAfterReject(first[1])
          /\ UNCHANGED task
    /\ UNCHANGED stops

(* The blocks of the new fork, one by one.  When one is rejected it and    *)
(* all above it leave the fork database, whose head is set back.           *)
PushForkBlock ==
    LET first == task.todo.first
        b     == first[1]
        bad   == {first[i] : i \in 1..Len(first)}
        front == task.todo.second[Len(task.todo.second)]
    IN
    /\ task.pc = "push"
    /\ \/ /\ Applies(b)
          /\ IF Len(first) = 1 THEN Ends("ok")
             ELSE task' = [task EXCEPT !.todo.first = Tail(@)]
       \/ /\ Rejects(b)
          /\ fork_db' = set_head(WithoutItems(ForkDbAfterReject(b), bad \cap fork_db.index), front)
          /\ task' = [task EXCEPT !.pc = "unwind", !.todo.first = <<>>]
    /\ UNCHANGED stops

(* The blocks of the old chain are applied again, on the state they were   *)
(* applied to before.  None can be refused: an exception here would leave  *)
(* _push_block at once, and in this model PushReturns would be violated.   *)
RestoreBlock ==
    LET second == task.todo.second IN
    /\ task.pc = "restore"
    /\ Applies(second[1])
    /\ IF Len(second) = 1 THEN Ends("failed")
       ELSE task' = [task EXCEPT !.todo.second = Tail(@)]
    /\ UNCHANGED stops
----------------------------------------------------------------------------
(* The process stops and is started again.  The tables are in a mapped     *)
(* file and survive; open() undoes every revision.  When its assertions    *)
(* fail the application calls reindex(), which replays the block log from  *)
(* genesis.  validate_invariants(), which open() calls too, compares sums  *)
(* that are not modelled here: it may fail whatever the chain is.          *)
Oldest(d, stack) == IF stack = <<>> THEN d ELSE stack[1].before

OpenSucceeds(d, rev, log) ==
    /\ rev = Num(d.head)
    /\ d.head # Genesis => Num(d.head) <= Len(log) /\ log[Num(d.head)] = d.head

Start(d, max_size) ==
    /\ db' = d
    /\ undo_stack' = <<>>
    /\ revision' = Num(d.head)
    /\ fork_db' = LET f == [EmptyForkDb EXCEPT !.max_size = max_size] IN
                  IF d.head = Genesis THEN f ELSE start_block(f, d.head)
    /\ task' = Idle("none", d, Genesis)

(* Applying the blocks of the log leaves its mark on _max_size, which      *)
(* _fork_db.reset() does not touch.  With an empty log the chain is        *)
(* fetched again from the network.                                         *)
Reindex(log) ==
    IF log = <<>> THEN Start(GenesisState, MaxBlockReordering)
    ELSE LET d == Replay[log[Len(log)]] IN Start(d, Num(d.head) - d.lib + 1)

(* What the process finds when it is started on these tables and this log. *)
Reopen(d, stack, rev, log) ==
    /\ stops < MaxStops
    /\ stops' = stops + 1
    /\ \/ /\ OpenSucceeds(Oldest(d, stack), rev - Len(stack), log)
          /\ Start(Oldest(d, stack), MaxBlockReordering)
       \/ Reindex(log)

(* The process stops at rest or between two steps of push_block.           *)
StopAndOpen ==
    /\ Reopen(db, undo_stack, revision, block_log)
    /\ UNCHANGED block_log

(* It stops while a block is applied, after commit(): the tables have the  *)
(* unfinished block, and of the blocks appended to the log, which are      *)
(* flushed at the end, some or none have reached the file.  (A stop before *)
(* commit() leaves the same as one before the block.)                      *)
Applying ==
    {b \in Blocks : \/ task.pc = "apply" /\ b = task.block
                    \/ task.pc = "push" /\ b = task.todo.first[1]
                    \/ task.pc = "restore" /\ b = task.todo.second[1]}

StopInBlock ==
    \E b \in Applying :
      LET new == WithBlock(db, b) IN
      /\ Accepted(b)
      /\ \E written \in 0..new.lib : WriteLog(written)
      /\ Reopen([new EXCEPT !.whole = FALSE], AfterCommit(new.lib), revision + 1, block_log')

Handler == ApplyBlock \/ PopTowardsFork \/ AtForkPoint \/ PushForkBlock \/ RestoreBlock

Next == (\E b \in Blocks : PushBlock(b)) \/ Handler \/ StopAndOpen \/ StopInBlock

(* The handler runs under the write lock until it returns.                 *)
Spec == Init /\ [][Next]_vars /\ WF_vars(Handler)
----------------------------------------------------------------------------
(* The oldest state the node can go back to: what open() starts from.      *)
Rewound == Oldest(db, undo_stack)

(* However the node came to its head, through forks, failed switches and   *)
(* restarts, its state is the one a replay of that chain gives: two nodes  *)
(* on the same block agree (every state below in the undo stack too).      *)
StateIsReplay ==
    /\ db = Replay[db.head]
    /\ \A k \in 1..Len(undo_stack) : undo_stack[k].before = Replay[undo_stack[k].before.head]

(* The block log holds the chain of the head: it never contains a block    *)
(* that was abandoned for another fork, and never runs ahead of the chain  *)
(* the node can still go back to.                                          *)
LogIsOnChain ==
    /\ Len(block_log) <= Num(Rewound.head)
    /\ \A n \in 1..Len(block_log) : block_log[n] = Ancestor(Rewound.head, n)

(* A block that became irreversible stays on the chain, across forks and   *)
(* restarts, also when the process stops after commit() and before the log *)
(* has the block: the oldest state that the node can go back to only moves *)
(* up its own branch, every head keeps the blocks that the one before      *)
(* counted as irreversible, and on the way up a branch the LIB never falls,*)
(* at the change from trailing the head to counting confirmations neither. *)
IrreversibleStays ==
    [][/\ Extends(Rewound'.head, Rewound.head)
       /\ Extends(db'.head, Ancestor(db.head, db.lib))
       /\ (db'.head # db.head /\ Extends(db'.head, db.head)) => db'.lib >= db.lib]_vars

(* ... nor replaced: a crash in the middle of a block may set the node     *)
(* back on its branch, but never to another one.                           *)
IrreversibleNotReplaced ==
    [][Extends(Rewound'.head, Rewound.head) \/ Extends(Rewound.head, Rewound'.head)]_vars

(* "Push block 'may fail' in which case every partial change is unwound":  *)
(* when push_block() throws, the chain is the one from before the call.    *)
FailedPushIsUnwound ==
    (task.pc = "idle" /\ task.outcome = "failed") => db = task.start

(* A push never leaves the node on a shorter chain than before.            *)
NeverShorter ==
    (task.pc = "idle" /\ task.outcome # "none") => Num(db.head) >= Num(task.start.head)

(* Only switch forks if the new head is higher: a push that does not fail  *)
(* leaves the node on the longest chain of the fork database, unless a     *)
(* block of it is invalid or it lacks an irreversible block.               *)
OnLongestChain ==
    (task.pc = "idle" /\ task.outcome = "ok") =>
      \A b \in fork_db.index :
        (ValidChain(b) /\ Extends(b, Rewound.head)) => Num(b) <= Num(db.head)

(* A valid block on top of the head is not refused, although invalid blocks*)
(* were pushed before it and left _head of the fork database on a block    *)
(* that is no longer in its index: _push_block applies it when the fork    *)
(* database agrees that it is the new head.                                *)
ValidChildIsAccepted ==
    (task.pc = "idle" /\ task.outcome = "failed") =>
      ~(task.block # Genesis /\ ValidChain(task.block) /\ Parent(task.block) = task.start.head)

(* push_block() returns: neither the loops that pop blocks nor the ones    *)
(* that apply them run forever.                                            *)
PushReturns == task.pc # "idle" ~> task.pc = "idle"
=============================================================================
