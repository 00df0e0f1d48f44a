---------------------------- MODULE ForkDatabase ----------------------------
(***************************************************************************)
(* fork_database: the tree of recent blocks from which the longest chain   *)
(* is chosen (libraries/chain/database/fork_database.cpp).                 *)
(*                                                                         *)
(* A block id is a hash over the block and, through its previous id, over  *)
(* all blocks below it.  A block is therefore written as the sequence of   *)
(* payloads from the first block up to itself: its number is its length,   *)
(* its parent is the sequence without the last payload, and its ancestors  *)
(* are its prefixes.  Genesis, the empty sequence, is the zero block id;   *)
(* as _head it stands for the null pointer.                                *)
(*                                                                         *)
(* The operators work on a record with the members of the class: index,    *)
(* head and max_size.  fork_item::prev is a weak pointer: lost holds the   *)
(* items whose parent item is gone, so that prev.lock() is null.           *)
(* _unlinked_index is always empty: push_block() throws before its insert. *)
(***************************************************************************)
EXTENDS Integers, Sequences, FiniteSets

CONSTANTS Payloads,   \* what a block adds to its parent
          Blocks      \* every block some witness has signed, closed under Parent

Genesis == <<>>
Num(b) == Len(b)
Parent(b) == SubSeq(b, 1, Len(b) - 1)
Ancestor(b, n) == SubSeq(b, 1, n)
Extends(b, a) == Num(b) >= Num(a) /\ Ancestor(b, Num(a)) = a

ASSUME BlocksAssumption ==
    /\ Genesis \notin Blocks
    /\ \A b \in Blocks : b \in Seq(Payloads)
    /\ \A b \in Blocks : Parent(b) = Genesis \/ Parent(b) \in Blocks

MaxBlockReordering == 1024    \* initial _max_size

EmptyForkDb == [index |-> {}, head |-> Genesis, max_size |-> MaxBlockReordering, lost |-> {}]

(* start_block: the item has no previous item.                             *)
start_block(f, b) ==
    [f EXCEPT !.index = @ \cup {b}, !.head = b, !.lost = @ \cup {b}]

Positive(n) == IF n > 0 THEN n ELSE 0

TooOld(f, b) == f.head # Genesis /\ Num(b) <= Positive(Num(f.head) - f.max_size)

Unlinkable(f, b) == f.head # Genesis /\ Parent(b) # Genesis /\ Parent(b) \notin f.index

(* Faulty variant: only a child of the head becomes the head.              *)
push_block_child(f, b) ==
    [f EXCEPT !.index = @ \cup {b},
              !.head = IF f.head \in {Genesis, Parent(b)} THEN b ELSE @,
              !.lost = IF Parent(b) = Genesis THEN @ \cup {b} ELSE @]

(* _push_block: a known block is not inserted again, but it does become    *)
(* the head when it is higher.  push_block() returns the head.             *)
push_block(f, b) ==
    LET unlinked == f.head = Genesis \/ Parent(b) = Genesis
        new_head == IF f.head = Genesis \/ Num(b) > Num(f.head) THEN b ELSE f.head
    IN [f EXCEPT !.index = @ \cup {b},
                 !.head = new_head,
                 !.lost = IF b \in f.index THEN @
                          ELSE IF unlinked THEN @ \cup {b} ELSE @ \ {b}]

(* Items leave the index: their children lose their previous item.  The    *)
(* head is kept alive by _head.                                            *)
WithoutItems(f, gone) ==
    LET left == f.index \ gone IN
    [f EXCEPT !.index = left,
              !.lost = {b \in left \cup {f.head} : b \in f.lost \/ Parent(b) \in gone}]

remove(f, b) == WithoutItems(f, {b} \cap f.index)

set_max_size(f, s) ==
    IF f.head = Genesis THEN [f EXCEPT !.max_size = s]
    ELSE WithoutItems([f EXCEPT !.max_size = s],
                      {b \in f.index : Num(b) < Positive(Num(f.head) - s)})

(* The item of b becomes _head.  When it has left the index, and its       *)
(* parent's item too, nothing but _head will keep it alive.                *)
set_head(f, b) ==
    [f EXCEPT !.head = b, !.lost = IF {b, Parent(b)} \cap f.index = {} THEN @ \cup {b} ELSE @]

(* held: items that the caller keeps alive, and so their links to each     *)
(* other, whether or not they are in the index.                            *)
CanPop(f, held) == f.head # Genesis /\ f.head \notin {b \in f.lost : Parent(b) \notin held}

(* Faulty variant: the popped block leaves the index.                      *)
pop_block_erases(f) == [f EXCEPT !.head = Parent(@), !.index = @ \ {f.head}]

pop_block(f) == set_head(f, Parent(f.head))

(* prev.lock() succeeds on the way from b down to its ancestor number n.   *)
Linked(f, b, n) == \A m \in (n + 1)..Num(b) : Ancestor(b, m) \notin f.lost

(* fetch_branch_from: the number of the lowest blocks of the two branches, *)
(* the first ones down from equal height that have the same parent.        *)
BranchStart(first, second) ==
    CHOOSE n \in 1..Num(second) :
      /\ Parent(Ancestor(first, n)) = Parent(Ancestor(second, n))
      /\ \A m \in (n + 1)..Num(second) : m <= Num(first) =>
           Parent(Ancestor(first, m)) # Parent(Ancestor(second, m))

CanFetchBranches(f, first, second) ==
    /\ first \in f.index
    /\ second \in f.index
    /\ Linked(f, first, BranchStart(first, second))
    /\ Linked(f, second, BranchStart(first, second))

(* The blocks of a branch, lowest first.                                   *)
Branch(b, start) == [i \in 1..(Num(b) - start + 1) |-> Ancestor(b, start + i - 1)]

(* Faulty variant: a block of another branch is taken when there is one.   *)
FetchAnyByNumber(f, n) ==
    LET blocks == {b \in f.index : Num(b) = n}
        other  == {b \in blocks : ~Extends(f.head, b)}
    IN IF blocks = {} THEN Genesis
       ELSE CHOOSE b \in blocks : other # {} => b \in other

(* fetch_block_on_main_branch_by_number: the only block with the number,   *)
(* or the one met walking down from the head; Genesis when there is none.  *)
fetch_block_on_main_branch_by_number(f, n) ==
    LET blocks == {b \in f.index : Num(b) = n} IN
    IF Cardinality(blocks) = 1 THEN CHOOSE b \in blocks : TRUE
    ELSE IF blocks = {} \/ n > Num(f.head) \/ ~Linked(f, f.head, n) THEN Genesis
    ELSE Ancestor(f.head, n)
=============================================================================
