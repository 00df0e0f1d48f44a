------------------------------ MODULE NetSync ------------------------------
(***************************************************************************)
(* libraries/net/node.cpp, libraries/net/peer_connection.cpp and the       *)
(* delegate in libraries/app/application.cpp: how a node fetches the       *)
(* blocks its peers have.  In sync mode it sends a synopsis of its chain,  *)
(* receives ids of the blocks that follow, requests those from the peers   *)
(* that are idle and hands the received ones to the chain in order.  In    *)
(* normal operation it fetches the blocks a peer advertises.               *)
(*                                                                         *)
(* A block is the sequence of payloads from block 1 on, so its prefixes    *)
(* are its ancestors and its length is its number.  The node's fibers      *)
(* share one thread and yield only when they wait: a handler that does not *)
(* wait is one action, and a fiber that loops without waiting keeps the    *)
(* others out (InBacklog).  The delegate runs in another thread, so that a *)
(* call of it is a wait: the two handlers that use what they read before   *)
(* the call are in two actions (in_call).  A task that sleeps until it is  *)
(* triggered has a flag.                                                   *)
(*                                                                         *)
(* A peer answers in the order of the requests; since nothing it does      *)
(* between a request and its answer reaches the node before the answer,    *)
(* the answer is put into the connection when the request is sent.  The    *)
(* undo history of the node reaches back to block 1.  Left out: expiry of  *)
(* old inventory, the limit on ids from the future, and transactions.      *)
(***************************************************************************)
EXTENDS Naturals, Sequences, FiniteSets, SequencesExt, FiniteSetsExt, Functions

CONSTANTS Peers,
          Blocks,          \* every block there is, closed under Parent
          Rejected,        \* the blocks the chain refuses as invalid
          Start,           \* the head of each peer's chain at the beginning
          Growing,         \* the peers whose chain grows
          Asking,          \* the peers that fetch blocks from us
          Pushy,           \* the peers that do not keep to the protocol
          IdsLimit,        \* most ids in one answer of get_block_ids()
          MinPrefetch,     \* GRAPHENE_NET_MIN_BLOCK_IDS_TO_PREFETCH
          MaxPerPeer,      \* _maximum_blocks_per_peer_during_syncing
          MaxCalls,        \* _maximum_number_of_blocks_to_handle_at_one_time
          MaxBacklog,      \* _maximum_number_of_sync_blocks_to_prefetch
          MaxConnects      \* bound: connections made to one peer

Genesis == <<>>
Parent(b) == Front(b)
Num(b) == Len(b)
Ancestor(b, n) == SubSeq(b, 1, n)
InChainOf(b, h) == IsPrefix(b, h)

ASSUME NetSyncAssumption ==
    /\ Blocks \subseteq Seq(Nat) \ {Genesis}
    /\ \A b \in Blocks : Parent(b) \in Blocks \cup {Genesis}
    /\ Rejected \subseteq Blocks
    /\ Start \in [Peers -> Blocks \cup {Genesis}] /\ Growing \cup Asking \cup Pushy \subseteq Peers
    /\ {IdsLimit, MaxPerPeer, MaxCalls} \subseteq Nat \ {0}
    /\ {MinPrefetch, MaxBacklog, MaxConnects} \subseteq Nat

VARIABLES peer,       \* one record per peer, see Connection
          known,      \* blocks the chain has
          head,       \* the head of the chain
          requests,   \* _active_sync_requests
          received,   \* _received_sync_items and _new_received_sync_items
          calls,      \* _handle_message_calls_in_progress, oldest first
          accepted,   \* _most_recent_blocks_accepted
          to_fetch,   \* _items_to_fetch
          processing, \* _message_ids_currently_being_processed
          inventory,  \* _new_inventory
          suspend,    \* _suspend_fetching_sync_blocks
          trigger,    \* the tasks that will run: "sync", "items", "backlog"
          InBacklog,  \* process_backlog_of_sync_blocks() is in its loop
          lacking     \* history: blocks a peer said it lacks when asked in sync

vars == <<peer, known, head, requests, received, calls, accepted, to_fetch,
          processing, inventory, suspend, trigger, InBacklog, lacking>>
chain == <<known, head>>
syncing == <<requests, received, calls, suspend>>
normal == <<to_fetch, processing, inventory>>

NotAsked == <<>>
NoCall == <<>>

\* peer_connection, and what the node at its other end does: conn is the list
\* the connection is in, has the head of that node's chain, tells whether it
\* advertises its new blocks to us, inq its messages that we have not read.
Connection ==
    [ conn : {"closed", "active", "closing"},
      connects : 0 .. MaxConnects,
      ids : Seq(Blocks),             \* ids_of_items_to_get
      proc : SUBSET Blocks,          \* ids_of_items_being_processed
      unfetched : Nat,               \* number_of_unfetched_item_ids
      we_need : BOOLEAN,             \* we_need_sync_items_from_peer
      needs_us : BOOLEAN,            \* peer_needs_sync_items_from_us
      inhibit : BOOLEAN,             \* inhibit_fetching_sync_blocks
      in_call : Seq([skip : Nat, had : BOOLEAN] \cup Blocks),  \* the delegate has not returned
      last : Blocks \cup {Genesis},  \* last_block_delegate_has_seen
      asked : Seq(Seq(Blocks)),      \* item_ids_requested_from_peer: NotAsked or <<synopsis>>
      sync_req : SUBSET Blocks,      \* sync_items_requested_from_peer
      item_req : SUBSET Blocks,      \* items_requested_from_peer
      offers : SUBSET Blocks,        \* inventory_peer_advertised_to_us
      told : SUBSET Blocks,          \* inventory_advertised_to_peer
      has : Blocks \cup {Genesis},
      tells : BOOLEAN,
      inq : Seq([type : {"ids"}, hashes : Seq(Blocks), remaining : Nat]
                 \cup [type : {"block", "offer", "missing"}, block : Blocks]) ]

Fresh(r) == [r EXCEPT !.ids = <<>>, !.proc = {}, !.unfetched = 0, !.we_need = TRUE,
                      !.needs_us = TRUE, !.inhibit = FALSE, !.last = Genesis, !.asked = NotAsked,
                      !.sync_req = {}, !.item_req = {}, !.offers = {}, !.told = {},
                      !.tells = FALSE, !.inq = <<>>]

active == {p \in Peers : peer[p].conn = "active"}
idle(r) == r.item_req = {} /\ r.sync_req = {} /\ r.asked = NotAsked

-----------------------------------------------------------------------------
(* The synopsis and its answer.                                            *)

\* The numbers of the blocks in a synopsis that ends at block high.
Samples(high) ==
    LET from[n \in 1 .. high + 1] ==
            IF n > high THEN <<>> ELSE <<n>> \o from[n + (high - n + 2) \div 2]
    IN  from[1]

\* get_blockchain_synopsis(): main chain and fork up to the reference point
\* are the path to that block; without one, the path to the head.
get_blockchain_synopsis(reference, after, h) ==
    LET upto == IF reference = Genesis THEN h ELSE reference
        nums == SelectSeq(Samples(Num(upto) + after), LAMBDA n : n <= Num(upto))
    IN  [i \in 1 .. Len(nums) |-> Ancestor(upto, nums[i])]

\* The synopsis of the chain and of the ids the peer has sent before.
create_blockchain_synopsis_for_peer(r, h) ==
    LET own == get_blockchain_synopsis(r.last, Len(r.ids), h)
        first == Num(r.ids[1])
        nums == SelectSeq(Samples(first + Len(r.ids) - 1), LAMBDA n : n >= first)
    IN  IF r.ids = <<>> THEN own
        ELSE own \o [i \in 1 .. Len(nums) |-> r.ids[nums[i] - first + 1]]

\* get_block_ids(): the blocks of the chain up to h from the last one of the
\* synopsis that is in it; none if there is no such block.
get_block_ids(synopsis, h) ==
    LET found == {i \in 1 .. Len(synopsis) : InChainOf(synopsis[i], h)}
        start == IF synopsis = <<>> THEN 1 ELSE Num(synopsis[Max(found)])
        count == IF h = Genesis \/ (synopsis # <<>> /\ found = {}) THEN 0
                 ELSE Min({IdsLimit, Num(h) - start + 1})
    IN  [hashes |-> [i \in 1 .. count |-> Ancestor(h, start + i - 1)],
         remaining |-> IF count = 0 THEN 0 ELSE Num(h) - (start + count - 1)]

\* The asking node has everything: an empty answer, or one known block.
UpToDate(synopsis, hashes) ==
    hashes = <<>> \/ (Len(hashes) = 1 /\ Contains(synopsis, hashes[1]))

\* fetch_next_batch_of_item_ids_from_peer(), and the peer's answer to it.
Ask(r, h) ==
    LET synopsis == create_blockchain_synopsis_for_peer(r, h)
        answer == get_block_ids(synopsis, r.has)
    IN  [r EXCEPT !.asked = <<synopsis>>,
                  !.tells = UpToDate(synopsis, answer.hashes),
                  !.inq = Append(@, [type |-> "ids", hashes |-> answer.hashes,
                                     remaining |-> answer.remaining])]

start_synchronizing_with_peer(r, h) ==
    Ask([r EXCEPT !.ids = <<>>, !.unfetched = 0, !.we_need = TRUE, !.last = Genesis,
                  !.inhibit = FALSE], h)

disconnect_from_peer(r) == [r EXCEPT !.conn = "closing"]

-----------------------------------------------------------------------------
(* The chain: handle_block() pushes a block whose parent it has.           *)

Links(b) == Parent(b) \in known \cup {Genesis}
Accepts(b) == Links(b) /\ b \notin Rejected

HeadWith(b) == IF Num(b) > Num(head) THEN b ELSE head
Push(b) == known' = known \cup {b} /\ head' = HeadWith(b)

-----------------------------------------------------------------------------
Init ==
    /\ peer = [p \in Peers |->
         [conn |-> "closed", connects |-> 0, ids |-> <<>>, proc |-> {}, unfetched |-> 0,
          we_need |-> TRUE, needs_us |-> TRUE, inhibit |-> FALSE, in_call |-> NoCall,
          last |-> Genesis, asked |-> NotAsked,
          sync_req |-> {}, item_req |-> {}, offers |-> {}, told |-> {},
          has |-> Start[p], tells |-> FALSE, inq |-> <<>>]]
    /\ known = {} /\ head = Genesis
    /\ requests = {} /\ received = {} /\ calls = <<>> /\ accepted = {}
    /\ to_fetch = {} /\ processing = {} /\ inventory = {}
    /\ suspend = FALSE /\ trigger = {} /\ InBacklog = FALSE /\ lacking = {}

\* new_peer_just_added(): the handshake is done.
Connect(p) ==
    /\ peer[p].conn = "closed" /\ peer[p].connects < MaxConnects
    /\ peer' = [peer EXCEPT ![p] = start_synchronizing_with_peer(
                   [Fresh(@) EXCEPT !.conn = "active", !.connects = @ + 1], head)]
    /\ UNCHANGED <<chain, syncing, accepted, normal, trigger, InBacklog, lacking>>

\* The peer's chain grows or switches to a longer one.  It advertises the
\* new block unless it believes that we are not in sync with it.
PeerExtends(p) == p \in Growing /\
    \E b \in Blocks :
       /\ Num(b) > Num(peer[p].has)
       /\ peer' = [peer EXCEPT ![p].has = b,
                      ![p].inq = IF peer[p].tells /\ peer[p].conn = "active"
                                    /\ b \notin peer[p].told
                                 THEN Append(@, [type |-> "offer", block |-> b]) ELSE @]
       /\ UNCHANGED <<chain, syncing, accepted, normal, trigger, InBacklog, lacking>>

\* A peer that does not keep to the protocol sends its last block unasked,
\* answers with that block alone, or has not the block that it offered.
PeerMisbehaves(p) ==
    LET r == peer[p]
    IN  /\ p \in Pushy /\ r.conn = "active" /\ r.in_call = NoCall /\ r.has # Genesis
        /\ \/ /\ r.inq = <<>> /\ idle(r)
              /\ peer' = [peer EXCEPT ![p].inq = <<[type |-> "block", block |-> r.has]>>]
           \/ /\ Len(r.inq) = 1 /\ r.inq[1].type = "ids"
              /\ peer' = [peer EXCEPT ![p].inq[1].hashes = <<r.has>>]
           \/ /\ Len(r.inq) = 1 /\ r.inq[1].type = "block"
              /\ peer' = [peer EXCEPT ![p].inq[1].type = "missing"]
        /\ UNCHANGED <<chain, syncing, accepted, normal, trigger, InBacklog, lacking>>

\* The peer asks for ids: whether it needs blocks from us is noted, and sync
\* with it starts over when its last block is new to us.  One that has all of
\* ours, and from which we fetch nothing, is disconnected.
on_fetch_blockchain_item_ids_message(p) ==
    LET r == peer[p]
        synopsis == get_blockchain_synopsis(Genesis, 0, r.has)
        answer == get_block_ids(synopsis, head)
        noted == [r EXCEPT !.needs_us = ~UpToDate(synopsis, answer.hashes)]
        replied == IF ~r.we_need /\ synopsis # <<>> /\ r.has \notin known
                   THEN start_synchronizing_with_peer(noted, head) ELSE noted
        useless == r.inhibit /\ ~noted.needs_us /\ answer.hashes # <<>>
    IN  /\ p \in Asking /\ r.conn = "active" /\ r.in_call = NoCall
        /\ peer' = [peer EXCEPT ![p] = IF useless THEN disconnect_from_peer(replied) ELSE replied]
        /\ UNCHANGED <<chain, syncing, accepted, normal, trigger, InBacklog, lacking>>

-----------------------------------------------------------------------------
(* Messages of a peer, in the order it sent them.                          *)

HasRead(p, type) == peer[p].conn # "closed" /\ peer[p].inq # <<>> /\ Head(peer[p].inq).type = type
Reads(p, type) == HasRead(p, type) /\ peer[p].in_call = NoCall
Resumes(p, type) == HasRead(p, type) /\ peer[p].in_call # NoCall
Message(p) == Head(peer[p].inq)
After(p) == [peer[p] EXCEPT !.inq = Tail(@), !.in_call = NoCall]

\* An answer has to start at a block of the synopsis, or at block 1.
FitsSynopsis(synopsis, hashes) ==
    hashes # <<>> => IF synopsis = <<>> THEN Num(hashes[1]) = 1
                     ELSE Contains(synopsis, hashes[1])

\* How many blocks at the start of the list the chain has.
KnownPrefix(hashes) ==
    Max({n \in 0 .. Len(hashes) : \A i \in 1 .. n : hashes[i] \in known})

\* Blocks the chain has are skipped, unless another peer's list starts there.
Skipped(p, hashes) ==
    IF hashes # <<>> /\ \E q \in active \ {p} : peer[q].ids # <<>> /\ peer[q].ids[1] = hashes[1]
    THEN 0 ELSE KnownPrefix(hashes)

\* The list of ids with the new ones: a list that is not empty is cut back to
\* where they join it.
Merged(r, hashes, skip) ==
    LET join == {i \in 1 .. Len(r.ids) : r.ids[i] = hashes[1]}
    IN  CASE hashes = <<>> -> r
          [] hashes # <<>> /\ r.ids = <<>> ->
               [r EXCEPT !.last = IF skip = 0 THEN @ ELSE hashes[skip],
                         !.ids = SubSeq(hashes, skip + 1, Len(hashes))]
          [] hashes # <<>> /\ r.ids # <<>> /\ join = {} ->
               [r EXCEPT !.last = hashes[1], !.ids = Tail(hashes)]
          [] OTHER -> [r EXCEPT !.ids = SubSeq(@, 1, Max(join) - 1) \o hashes]

\* An answer is checked against the synopsis; whether the chain has its blocks
\* is asked of the delegate (has_item()), while the peer counts as idle.
on_blockchain_item_ids_inventory_message(p) ==
    LET hashes == Message(p).hashes
        asks == [skip |-> Skipped(p, hashes), had |-> hashes # <<>> /\ hashes[1] \in known]
    IN  /\ Reads(p, "ids")
        /\ \/ /\ peer[p].asked = NotAsked
              /\ peer' = [peer EXCEPT ![p] = After(p)]
           \/ /\ peer[p].asked # NotAsked
              /\ ~FitsSynopsis(peer[p].asked[1], hashes)
              /\ peer' = [peer EXCEPT ![p] = disconnect_from_peer(After(p))]
           \/ /\ peer[p].asked # NotAsked
              /\ FitsSynopsis(peer[p].asked[1], hashes)
              /\ peer' = [peer EXCEPT ![p].asked = NotAsked, ![p].in_call = <<asks>>]
        /\ UNCHANGED <<chain, syncing, accepted, normal, trigger, InBacklog, lacking>>

\* The delegate has returned: we are in sync with the peer, or its list grows.
ListGrows(p) ==
    LET m == Message(p)
        call == peer[p].in_call[1]
        r == After(p)
        merged == [Merged(r, m.hashes, call.skip) EXCEPT !.unfetched = m.remaining]
        fetch == IF m.remaining # 0 THEN Len(merged.ids) > MinPrefetch ELSE merged.ids # <<>>
        in_sync == /\ m.remaining = 0
                   /\ m.hashes # <<>> => Len(m.hashes) = 1 /\ call.had
                   /\ r.ids = <<>> /\ r.unfetched = 0
    IN  /\ Resumes(p, "ids")
        /\ \/ /\ in_sync
              /\ peer' = [peer EXCEPT ![p] = [r EXCEPT !.we_need = FALSE]]
              /\ UNCHANGED trigger
           \/ /\ ~in_sync
              /\ peer' = [peer EXCEPT ![p] = IF fetch THEN merged ELSE Ask(merged, head)]
              /\ trigger' = IF fetch THEN trigger \cup {"sync"} ELSE trigger
        /\ UNCHANGED <<chain, syncing, accepted, normal, InBacklog, lacking>>

\* A block that was requested while syncing waits for its turn.
process_block_during_sync(p) ==
    LET b == Message(p).block
        r == [After(p) EXCEPT !.sync_req = @ \ {b}]
        ask == idle(r) /\ r.unfetched > 0 /\ Len(r.ids) < MinPrefetch
    IN  /\ Reads(p, "block") /\ b \notin peer[p].item_req /\ b \in peer[p].sync_req
        /\ requests' = requests \ {b}
        /\ received' = received \cup {b}
        /\ peer' = [peer EXCEPT ![p] = IF ask THEN Ask(r, head) ELSE r]
        /\ trigger' = trigger \cup {"backlog"} \cup (IF idle(r) /\ ~ask THEN {"sync"} ELSE {})
        /\ UNCHANGED <<chain, calls, suspend, accepted, normal, InBacklog, lacking>>

\* broadcast(): the block is accepted and will be advertised.
broadcast(b) == accepted' = accepted \cup {b} /\ inventory' = inventory \cup {b}

\* A block that was requested after it was advertised goes to the delegate,
\* unless the chain accepted it before.
process_block_during_normal_operation(p) ==
    LET b == Message(p).block
    IN  /\ Reads(p, "block") /\ b \in peer[p].item_req
        /\ peer' = [peer EXCEPT ![p].item_req = @ \ {b}, ![p].in_call = <<b>>]
        /\ processing' = IF b \in accepted THEN processing ELSE processing \cup {b}
        /\ UNCHANGED <<chain, syncing, accepted, to_fetch, inventory, trigger, InBacklog, lacking>>

\* handle_block() returns: the chain takes the block, cannot link it (sync
\* starts over), or refuses it (every peer whose list starts with it is
\* disconnected); when it throws, the id stays in
\* _message_ids_currently_being_processed.
BlockHandled(p) ==
    LET b == Message(p).block
        r == After(p)
        seen(q) == IF q \in active /\ b \in peer[q].offers
                   THEN [(IF q = p THEN r ELSE peer[q]) EXCEPT !.last = b]
                   ELSE IF q = p THEN r ELSE peer[q]
        blamed(q) == q = p \/ (q \in active /\ peer[q].ids # <<>> /\ peer[q].ids[1] = b)
        next == IF idle(r) THEN {"items"} ELSE {}
    IN  /\ Resumes(p, "block")
        /\ \/ /\ b \in accepted \/ Accepts(b)
              /\ IF b \in known THEN UNCHANGED chain ELSE Push(b)
              /\ peer' = [q \in Peers |-> seen(q)]
              /\ broadcast(b)
              /\ processing' = processing \ {b}
              /\ trigger' = trigger \cup {"advertise"} \cup next
           \/ /\ b \notin accepted /\ ~Links(b)
              /\ peer' = [peer EXCEPT ![p] = start_synchronizing_with_peer(r, head)]
              /\ UNCHANGED <<chain, accepted, inventory, processing, trigger>>
           \/ /\ b \notin accepted /\ Links(b) /\ b \in Rejected
              /\ peer' = [q \in Peers |->
                            LET s == IF q = p THEN r ELSE peer[q]
                            IN  IF blamed(q) THEN disconnect_from_peer(s) ELSE s]
              /\ trigger' = trigger \cup next
              /\ UNCHANGED <<chain, accepted, inventory, processing>>
        /\ UNCHANGED <<syncing, to_fetch, InBacklog, lacking>>

\* A block that was not requested.
UnrequestedBlock(p) ==
    LET b == Message(p).block
    IN  /\ Reads(p, "block") /\ b \notin peer[p].item_req \cup peer[p].sync_req
        /\ peer' = [peer EXCEPT ![p] = disconnect_from_peer(After(p))]
        /\ UNCHANGED <<chain, syncing, accepted, normal, trigger, InBacklog, lacking>>

on_item_ids_inventory_message(p) ==
    LET b == Message(p).block
        ours == b \in processing \cup inventory \/ \E q \in active : b \in peer[q].told
        asked == \E q \in active : b \in peer[q].item_req
    IN  /\ Reads(p, "offer")
        /\ peer' = [peer EXCEPT ![p] = [After(p) EXCEPT !.offers = IF ours THEN @ ELSE @ \cup {b}]]
        /\ IF ours \/ asked \/ b \in to_fetch
           THEN UNCHANGED <<to_fetch, trigger>>
           ELSE to_fetch' = to_fetch \cup {b} /\ trigger' = trigger \cup {"items"}
        /\ UNCHANGED <<chain, syncing, accepted, processing, inventory, InBacklog, lacking>>

\* The peer has not the block.  One that was advertised is fetched from another
\* peer that offers it.  A sync block is no longer awaited from this peer, which
\* is asked for no more or disconnected; _active_sync_requests keeps the id.
on_item_not_available_message(p) ==
    LET b == Message(p).block
        r == After(p)
        offered == \E q \in active \ {p} : b \in peer[q].offers
    IN  /\ Reads(p, "missing")
        /\ \/ /\ b \in r.item_req
              /\ peer' = [peer EXCEPT ![p] = [r EXCEPT !.item_req = @ \ {b}, !.offers = @ \ {b}]]
              /\ to_fetch' = IF offered THEN to_fetch \cup {b} ELSE to_fetch
              /\ trigger' = trigger \cup {"items"}
              /\ UNCHANGED lacking
           \/ /\ b \notin r.item_req /\ b \in r.sync_req
              /\ LET gone == [r EXCEPT !.sync_req = @ \ {b}]
                 IN  peer' = [peer EXCEPT ![p] = IF r.needs_us THEN [gone EXCEPT !.inhibit = TRUE]
                                                 ELSE disconnect_from_peer(gone)]
              /\ trigger' = trigger \cup {"sync"}
              /\ lacking' = lacking \cup {b}
              /\ UNCHANGED to_fetch
           \/ /\ b \notin r.item_req \cup r.sync_req
              /\ peer' = [peer EXCEPT ![p] = r]
              /\ UNCHANGED <<to_fetch, trigger, lacking>>
        /\ UNCHANGED <<chain, syncing, accepted, processing, inventory, InBacklog>>

-----------------------------------------------------------------------------
(* The tasks.                                                              *)

Orders == {s \in [1 .. Cardinality(active) -> active] : \A p \in active : Contains(s, p)}

Wanted(p) == peer[p].we_need /\ idle(peer[p]) /\ ~peer[p].inhibit

\* What the peers are asked for, in some order of the peers: of its list, the
\* first blocks that are neither here nor requested from another peer.
Schedule(order) ==
    FoldLeft(LAMBDA sofar, p :
                LET taken == received \cup requests \cup UNION {ToSet(sofar[q]) : q \in Peers}
                    free == SelectSeq(peer[p].ids, LAMBDA b : b \notin taken)
                IN  IF Wanted(p)
                    THEN [sofar EXCEPT ![p] = SubSeq(free, 1, Min({MaxPerPeer, Len(free)}))]
                    ELSE sofar,
             [p \in Peers |-> <<>>], order)

\* The peer sends the blocks it is asked for; as in on_fetch_items_message().
Request(r, batch) ==
    [r EXCEPT !.sync_req = @ \cup ToSet(batch),
              !.inq = @ \o [i \in 1 .. Len(batch) |-> [type |-> "block", block |-> batch[i]]]]

fetch_sync_items_loop ==
    /\ "sync" \in trigger
    /\ trigger' = trigger \ {"sync"}
    /\ IF suspend THEN UNCHANGED <<peer, requests>>
       ELSE \E order \in Orders :
              LET batch == Schedule(order)
              IN  /\ peer' = [p \in Peers |-> Request(peer[p], batch[p])]
                  /\ requests' = requests \cup UNION {ToSet(batch[p]) : p \in Peers}
    /\ UNCHANGED <<chain, received, calls, suspend, accepted, normal, InBacklog, lacking>>

\* One item per idle peer (GRAPHENE_NET_MAX_ITEMS_PER_PEER_DURING_NORMAL_OPERATION
\* is 1); an item stays when every idle peer that offers it is taken.
fetch_items_loop ==
    LET free == {p \in active : idle(peer[p])}
    IN  /\ "items" \in trigger
        /\ trigger' = trigger \ {"items"}
        /\ \E items \in SUBSET to_fetch : \E from \in [items -> free] :
             /\ \A b \in items : b \in peer[from[b]].offers
             /\ IsInjective(from)
             /\ \A b \in to_fetch \ items : \A p \in free :
                   b \in peer[p].offers => \E a \in items : from[a] = p
             /\ to_fetch' = to_fetch \ items
             /\ peer' = [p \in Peers |->
                  IF \E b \in items : from[b] = p
                  THEN LET b == CHOOSE x \in items : from[x] = p
                       IN  [peer[p] EXCEPT !.item_req = @ \cup {b},
                               !.inq = Append(@, [type |-> "block", block |-> b])]
                  ELSE peer[p]]
        /\ UNCHANGED <<chain, syncing, accepted, processing, inventory, InBacklog, lacking>>

\* Only to the peers that are in sync with us, and nothing they offered us.
advertise_inventory_loop ==
    /\ "advertise" \in trigger
    /\ trigger' = trigger \ {"advertise"}
    /\ inventory' = {}
    /\ peer' = [p \in Peers |-> IF p \in active /\ ~peer[p].needs_us
                                THEN [peer[p] EXCEPT !.told = @ \cup (inventory \ peer[p].offers)]
                                ELSE peer[p]]
    /\ UNCHANGED <<chain, syncing, accepted, to_fetch, processing, InBacklog, lacking>>

\* The list of the peer, and what is being handled for it, ran empty.
Drained(r) == r.ids = <<>> /\ r.proc = {} /\ r.unfetched = 0

\* Mutant of StartsWith: any block of the list will do.
ListHas(r, b) == Contains(r.ids, b)

StartsWith(r, b) == r.ids # <<>> /\ r.ids[1] = b

\* process_backlog_of_sync_blocks() starts, unless enough blocks are handled.
StartBacklog ==
    /\ "backlog" \in trigger
    /\ trigger' = trigger \ {"backlog"}
    /\ IF Len(calls) >= MaxCalls THEN UNCHANGED <<suspend, InBacklog, lacking>>
       ELSE suspend' = FALSE /\ InBacklog' = TRUE
    /\ UNCHANGED <<peer, chain, requests, received, calls, accepted, normal, lacking>>

\* Leaving the loop of process_backlog_of_sync_blocks().
LeaveBacklog(sus) ==
    /\ InBacklog' = FALSE
    /\ suspend' = sus
    /\ trigger' = IF sus THEN trigger ELSE trigger \cup {"sync"}

\* One round of its loop: a received block that is the next one of some peer
\* goes to the chain, and the loop goes on while there is room for more.
BacklogPush(b) ==
    LET full == Len(calls) + 1 >= MaxCalls
    IN  /\ InBacklog /\ b \in received /\ b \notin accepted
        /\ \E p \in active : StartsWith(peer[p], b)
        /\ peer' = [p \in Peers |->
              IF p \in active /\ StartsWith(peer[p], b)
              THEN [peer[p] EXCEPT !.ids = Tail(@), !.proc = @ \cup {b}] ELSE peer[p]]
        /\ received' = received \ {b}
        /\ calls' = Append(calls, b)
        /\ IF full THEN LeaveBacklog(Cardinality(received') >= MaxBacklog)
           ELSE UNCHANGED <<InBacklog, suspend, trigger>>
        /\ UNCHANGED <<chain, requests, accepted, normal, lacking>>

\* A block that came through the inventory in the meantime counts as handled:
\* it stays in the list of received blocks, and the loop ends.
BacklogSkip(b) ==
    LET popped(p) == IF p \in active /\ StartsWith(peer[p], b)
                     THEN [peer[p] EXCEPT !.ids = Tail(@), !.proc = @ \cup {b}] ELSE peer[p]
        done(p) == [popped(p) EXCEPT !.proc = @ \ {b}]
    IN  /\ InBacklog /\ b \in received /\ b \in accepted
        /\ \E p \in active : StartsWith(peer[p], b)
        /\ peer' = [p \in Peers |->
              IF p \in active /\ b \in popped(p).proc
              THEN IF Drained(done(p)) THEN Ask(done(p), head) ELSE done(p)
              ELSE peer[p]]
        /\ LeaveBacklog(suspend)
        /\ UNCHANGED <<chain, requests, received, calls, accepted, normal, lacking>>

\* No received block is the next one of a peer.
BacklogEnds ==
    /\ InBacklog
    /\ \A b \in received : \A p \in active : ~StartsWith(peer[p], b)
    /\ LeaveBacklog(suspend)
    /\ UNCHANGED <<peer, chain, requests, received, calls, accepted, normal, lacking>>

\* The chain takes the oldest of the handled blocks; a peer whose list ran
\* empty is asked again, one that is in sync with us both ways is told.
send_sync_block_to_node_delegate ==
    LET b == Head(calls)
        done(r) == [r EXCEPT !.last = b, !.proc = @ \ {b}]
        handled(r) ==
            CASE r.ids = <<>> /\ r.proc = {} /\ (r.needs_us \/ r.we_need) -> r
              [] r.ids = <<>> /\ r.proc = {} /\ ~r.needs_us /\ ~r.we_need ->
                   start_synchronizing_with_peer(r, HeadWith(b))
              [] b \in r.proc -> IF Drained(done(r)) THEN Ask(done(r), HeadWith(b)) ELSE done(r)
              [] OTHER -> r
    IN  /\ calls # <<>>
        /\ calls' = Tail(calls)
        /\ IF Accepts(b)
           THEN /\ Push(b)
                /\ accepted' = accepted \cup {b}
                /\ peer' = [p \in Peers |-> IF p \in active THEN handled(peer[p]) ELSE peer[p]]
           ELSE /\ peer' = [p \in Peers |-> IF p \in active /\ b \in peer[p].proc
                                            THEN disconnect_from_peer(peer[p]) ELSE peer[p]]
                /\ UNCHANGED <<chain, accepted>>
        /\ trigger' = trigger \cup {"backlog"}
        /\ UNCHANGED <<requests, received, suspend, normal, InBacklog, lacking>>

\* Mutant of RequestsWithout: the requests of a closed connection stay.
AllRequests(r) == requests

\* What remains requested when the connection r is gone.
RequestsWithout(r) == requests \ r.sync_req

\* on_connection_closed(), by the peer or after disconnect_from_peer(): what
\* was requested from this peer can be requested from another.
on_connection_closed(p) ==
    LET r == peer[p]
        again == {b \in r.item_req : \E q \in active \ {p} : b \in peer[q].offers}
    IN  /\ r.conn # "closed" /\ r.in_call = NoCall
        /\ peer' = [peer EXCEPT ![p] = [Fresh(@) EXCEPT !.conn = "closed"]]
        /\ requests' = RequestsWithout(r)
        /\ to_fetch' = to_fetch \cup again
        /\ trigger' = trigger \cup (IF r.sync_req # {} THEN {"sync"} ELSE {})
                              \cup (IF r.item_req # {} THEN {"items"} ELSE {})
        /\ UNCHANGED <<chain, received, calls, suspend, accepted, processing, inventory, InBacklog, lacking>>

\* terminate_inactive_connections_loop() finds that sync with the peer has
\* stalled: no ids are left and none were asked for.
Stalled(r) == r.we_need /\ r.asked = NotAsked /\ r.ids = <<>>

\* What makes the loop disconnect a peer: a late answer, or a stalled sync.
\* (Sync blocks that do not come make it leave the loop instead.)
TimesOut(r) == r.asked # NotAsked \/ r.item_req # {} \/ Stalled(r)

terminate_inactive_connections_loop(p) ==
    /\ p \in active /\ TimesOut(peer[p])
    /\ peer' = [peer EXCEPT ![p] = disconnect_from_peer(@)]
    /\ UNCHANGED <<chain, syncing, accepted, normal, trigger, InBacklog, lacking>>

Handle(p) ==
    \/ on_blockchain_item_ids_inventory_message(p)
    \/ process_block_during_sync(p)
    \/ process_block_during_normal_operation(p)
    \/ UnrequestedBlock(p)
    \/ on_item_ids_inventory_message(p)
    \/ on_item_not_available_message(p)
    \/ ListGrows(p)
    \/ BlockHandled(p)

Tasks ==
    \/ fetch_sync_items_loop \/ fetch_items_loop \/ advertise_inventory_loop
    \/ StartBacklog \/ send_sync_block_to_node_delegate

Backlog == BacklogEnds \/ \E b \in Blocks : BacklogPush(b) \/ BacklogSkip(b)

Environment ==
    \E p \in Peers :
       \/ Connect(p) \/ PeerExtends(p) \/ PeerMisbehaves(p)
       \/ on_fetch_blockchain_item_ids_message(p)
       \/ on_connection_closed(p) \/ terminate_inactive_connections_loop(p)

\* The backlog loop does not wait, so nothing else runs during it.
Next ==
    \/ Backlog
    \/ ~InBacklog /\ (Tasks \/ Environment \/ \E p \in Peers : Handle(p))

Spec == Init /\ [][Next]_vars
-----------------------------------------------------------------------------
TypeOK ==
    /\ \A p \in Peers : LET r == peer[p] IN
         /\ r.conn \in {"closed", "active", "closing"}
         /\ ToSet(r.ids) \cup r.proc \cup r.sync_req \cup r.item_req \cup r.offers \cup r.told
               \subseteq Blocks
         /\ {r.last, r.has} \subseteq Blocks \cup {Genesis}
    /\ requests \cup received \cup ToSet(calls) \cup accepted \subseteq Blocks
    /\ head \in known \cup {Genesis} /\ known \subseteq Blocks
    /\ trigger \subseteq {"sync", "items", "backlog", "advertise"}

\* No sync block is awaited from two peers, and each one that is awaited counts
\* as requested.  One that counts as requested without being awaited is never
\* asked from anybody, because fetch_sync_items_loop() skips what is in
\* _active_sync_requests: that happens only to a block which the peer that was
\* asked said it lacks (on_item_not_available_message()), never because a
\* connection closed, timed out or was reset while blocks were on their way.
RequestsAreAwaited ==
    LET awaited == UNION {peer[p].sync_req : p \in Peers}
    IN  /\ awaited \subseteq requests /\ requests \subseteq awaited \cup lacking
        /\ \A p, q \in Peers : p # q => peer[p].sync_req \cap peer[q].sync_req = {}

\* The blocks handed to the chain link: the parent of each is in the chain,
\* or is handed over before it, or was refused.
BlocksInOrder ==
    \A i \in 1 .. Len(calls) :
       \/ Links(calls[i])
       \/ \E j \in 1 .. i - 1 : calls[j] = Parent(calls[i])
       \/ \E n \in 1 .. Num(calls[i]) : Ancestor(calls[i], n) \in Rejected
=============================================================================
