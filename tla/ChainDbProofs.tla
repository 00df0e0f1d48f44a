---------------------------- MODULE ChainDbProofs ----------------------------
(***************************************************************************)
(* Proofs about ChainDb: that the chain state is always the one that a     *)
(* replay of the head's chain gives.  First what Replay and the choice of  *)
(* the last irreversible block compute for blocks of every height, then    *)
(* the stack of revisions, then the inductive invariant.                   *)
(*                                                                         *)
(* The second half shows that the block log stays on the chain of the      *)
(* node and that nothing irreversible is replaced, with an invariant that  *)
(* says which chains the fork database has while a fork is switched.       *)
(***************************************************************************)
EXTENDS ChainDb, SequenceTheorems, SumFacts

\* Blocks and the genesis below them.
Chains == Blocks \cup {Genesis}

\* The part of a sequence between two positions.
LEMMA PartFacts ==
    ASSUME NEW S, NEW s \in Seq(S), NEW m \in 1..(Len(s) + 1), NEW n \in (m - 1)..Len(s)
    PROVE  /\ SubSeq(s, m, n) \in Seq(S)
           /\ Len(SubSeq(s, m, n)) = (n - m) + 1
           /\ \A k \in 1..((n - m) + 1) : SubSeq(s, m, n)[k] = s[(m + k) - 1]
<1>1. /\ m \in Int /\ n \in Int
      /\ \A i \in m..n : s[i] \in S
    OBVIOUS
<1> DEFINE t == SubSeq(s, m, n)
<1>2. /\ t \in Seq(S)
      /\ Len(t) = IF m <= n THEN n - m + 1 ELSE 0
      /\ \A i \in 1..(n - m + 1) : t[i] = s[m + i - 1]
    BY <1>1, SubSeqProperties
<1> HIDE DEF t
<1>3. QED
    BY <1>1, <1>2 DEF t

\* A block has a number and a parent with the number below.
LEMMA BlockFacts ==
    ASSUME NEW b \in Blocks
    PROVE  /\ b \in Seq(Payloads) /\ b # Genesis
           /\ Num(b) \in Nat /\ Num(b) > 0
           /\ Parent(b) \in Chains /\ Num(Parent(b)) = Num(b) - 1
<1>1. b \in Seq(Payloads) /\ b # <<>> /\ Parent(b) \in Chains
    BY BlocksAssumption DEF Chains, Genesis
<1>2. Len(b) \in Nat /\ Len(b) > 0
    BY <1>1
<1>3. Len(SubSeq(b, 1, Len(b) - 1)) = Len(b) - 1
  <2>1. 1 \in 1..(Len(b) + 1) /\ Len(b) - 1 \in (1 - 1)..Len(b)
      BY <1>2
  <2>2. Len(SubSeq(b, 1, Len(b) - 1)) = ((Len(b) - 1) - 1) + 1
      BY <1>1, <2>1, PartFacts, Zenon
  <2>3. QED
      BY <1>2, <2>2
<1>4. QED
    BY <1>1, <1>2, <1>3 DEF Num, Parent, Genesis

\* The number of a block or of genesis.
LEMMA ChainFacts ==
    ASSUME NEW b \in Chains
    PROVE  b \in Seq(Payloads) /\ Num(b) \in Nat /\ (Num(b) = 0 <=> b = Genesis)
<1>1. CASE b \in Blocks
    BY <1>1, BlockFacts
<1>2. CASE b = Genesis
    BY <1>2 DEF Genesis, Num
<1>3. QED
    BY <1>1, <1>2 DEF Chains

\* What holds for genesis, and for a block when it holds for its parent,
\* holds for every block: a set with these two properties has them all.
LEMMA BlocksByParent ==
    ASSUME NEW T, Genesis \in T, \A b \in Blocks : Parent(b) \in T => b \in T
    PROVE  Chains \subseteq T
<1> DEFINE H == {n \in Nat : \A b \in Chains : Num(b) <= n => b \in T}
<1>1. 0 \in H
    BY ChainFacts
<1>2. ASSUME NEW n \in H PROVE n + 1 \in H
  <2>1. SUFFICES ASSUME NEW b \in Chains, Num(b) <= n + 1 PROVE b \in T
      OBVIOUS
  <2>2. CASE b \in Blocks
      BY <2>1, <2>2, BlockFacts
  <2>3. QED
      BY <2>2 DEF Chains
<1>3. H = Nat
  <2>1. H \in SUBSET Nat
      OBVIOUS
  <2> HIDE DEF H
  <2>2. QED
      BY <1>1, <1>2, <2>1, NaturalsByStep
<1>4. QED
    BY <1>3, ChainFacts

\* The ancestors of a block are blocks.
LEMMA AncestorsAreBlocks ==
    ASSUME NEW b \in Chains, NEW n \in 1..Num(b)
    PROVE  Ancestor(b, n) \in Blocks
<1> DEFINE T == {c \in Chains : \A m \in 1..Num(c) : Ancestor(c, m) \in Blocks}
<1>1. Genesis \in T
    BY DEF Chains, Genesis, Num
<1>2. ASSUME NEW c \in Blocks, Parent(c) \in T PROVE c \in T
  <2>1. SUFFICES ASSUME NEW m \in 1..Num(c) PROVE Ancestor(c, m) \in Blocks
      BY DEF Chains
  <2>2. CASE m = Num(c)
      BY <2>2, BlockFacts, SubSeqFull DEF Ancestor, Num
  <2>3. CASE m # Num(c)
    <3>1. m \in 1..Num(Parent(c))
        BY <2>3, BlockFacts
    <3>2. c \in Seq(Payloads) /\ Num(c) \in Nat /\ Num(c) > 0 /\ Num(Parent(c)) = Num(c) - 1
        BY BlockFacts
    <3>3. SubSeq(SubSeq(c, 1, Len(c) - 1), 1, m) = SubSeq(c, 1, m)
        BY <3>1, <3>2 DEF Num, Parent
    <3>4. Ancestor(Parent(c), m) = Ancestor(c, m)
        BY <3>3 DEF Ancestor, Parent
    <3>5. QED
        BY <1>2, <3>1, <3>4
  <2>4. QED
      BY <2>2, <2>3
<1> HIDE DEF T
<1>3. Chains \subseteq T
    BY <1>1, <1>2, BlocksByParent
<1>4. QED
    BY <1>3 DEF T

\* The ancestors of a block by their numbers.
LEMMA AncestorFacts ==
    ASSUME NEW b \in Chains, NEW n \in 0..Num(b)
    PROVE  /\ Ancestor(b, n) \in Chains /\ Num(Ancestor(b, n)) = n
           /\ n > 0 => Ancestor(b, n) \in Blocks /\ Parent(Ancestor(b, n)) = Ancestor(b, n - 1)
           /\ \A m \in 0..n : Ancestor(Ancestor(b, n), m) = Ancestor(b, m)
           /\ n = Num(b) => Ancestor(b, n) = b
<1>1. b \in Seq(Payloads) /\ Num(b) \in Nat /\ Num(b) = Len(b)
    BY ChainFacts DEF Num
<1> DEFINE a == SubSeq(b, 1, n)
<1>2. 1 \in 1..(Len(b) + 1) /\ n \in (1 - 1)..Len(b)
    BY <1>1
<1>3. /\ a \in Seq(Payloads) /\ Len(a) = (n - 1) + 1
      /\ \A k \in 1..((n - 1) + 1) : a[k] = b[(1 + k) - 1]
    BY <1>1, <1>2, PartFacts, Zenon
<1>4. a \in Seq(Payloads) /\ Len(a) = n /\ \A k \in 1..n : a[k] = b[k]
    BY <1>1, <1>3
<1> HIDE DEF a
<1>5. Ancestor(b, n) = a
    BY DEF Ancestor, a
<1>6. a \in Chains
  <2>1. CASE n = 0
      BY <1>4, <2>1 DEF Chains, Genesis
  <2>2. CASE n # 0
    <3>1. n \in 1..Num(b)
        BY <1>1, <2>2
    <3>2. QED
        BY <1>5, <3>1, AncestorsAreBlocks DEF Chains
  <2>3. QED
      BY <2>1, <2>2
<1>7. ASSUME NEW m \in 0..n PROVE SubSeq(a, 1, m) = SubSeq(b, 1, m)
  <2>1. /\ 1 \in 1..(Len(a) + 1) /\ m \in (1 - 1)..Len(a)
        /\ 1 \in 1..(Len(b) + 1) /\ m \in (1 - 1)..Len(b)
      BY <1>1, <1>4
  <2> DEFINE p == SubSeq(a, 1, m)
             q == SubSeq(b, 1, m)
  <2>2. /\ p \in Seq(Payloads) /\ Len(p) = (m - 1) + 1
        /\ \A k \in 1..((m - 1) + 1) : p[k] = a[(1 + k) - 1]
      BY <1>4, <2>1, PartFacts, Zenon
  <2>3. /\ q \in Seq(Payloads) /\ Len(q) = (m - 1) + 1
        /\ \A k \in 1..((m - 1) + 1) : q[k] = b[(1 + k) - 1]
      BY <1>1, <2>1, PartFacts, Zenon
  <2> HIDE DEF p, q
  <2>4. Len(p) = Len(q) /\ \A k \in 1..Len(p) : p[k] = q[k]
      BY <1>1, <1>4, <2>2, <2>3
  <2>5. p = q
      BY <2>2, <2>3, <2>4, SeqEqual
  <2>6. QED
      BY <2>5 DEF p, q
<1>8. ASSUME n > 0 PROVE a \in Blocks /\ Parent(a) = Ancestor(b, n - 1)
  <2>1. a # Genesis
      BY <1>4, <1>8 DEF Genesis
  <2>2. n - 1 \in 0..n /\ Len(a) - 1 = n - 1
      BY <1>1, <1>4, <1>8
  <2>3. QED
      BY <1>6, <1>7, <2>1, <2>2 DEF Chains, Parent, Ancestor
<1>9. ASSUME n = Num(b) PROVE a = b
  <2>1. Len(a) = Len(b) /\ \A k \in 1..Len(a) : a[k] = b[k]
      BY <1>1, <1>4, <1>9
  <2>2. QED
      BY <1>1, <1>4, <2>1, SeqEqual
<1>10. QED
    BY <1>4, <1>5, <1>6, <1>7, <1>8, <1>9 DEF Num, Ancestor

\* The order of chains.
LEMMA ExtendsFacts ==
    ASSUME NEW b \in Chains, NEW a \in Chains, Extends(b, a)
    PROVE  /\ Num(a) \in Nat /\ Num(b) \in Nat /\ Num(a) <= Num(b)
           /\ \A n \in 0..Num(a) : Ancestor(b, n) = Ancestor(a, n) /\ Extends(b, Ancestor(a, n))
           /\ \A c \in Chains : Extends(a, c) => Extends(b, c)
           /\ \A c \in Chains : Extends(b, c) /\ Num(c) <= Num(a) => Extends(a, c)
           /\ a \in Blocks => Extends(b, Parent(a))
<1>1. /\ Num(a) \in Nat /\ Num(b) \in Nat /\ Num(a) <= Num(b) /\ Num(a) \in 0..Num(b)
      /\ Ancestor(b, Num(a)) = a
    BY ChainFacts DEF Extends
<1>2. ASSUME NEW n \in 0..Num(a) PROVE Ancestor(b, n) = Ancestor(a, n) /\ Extends(b, Ancestor(a, n))
  <2>1. Ancestor(Ancestor(b, Num(a)), n) = Ancestor(b, n)
      BY <1>1, AncestorFacts
  <2>2. Num(Ancestor(a, n)) = n
      BY AncestorFacts
  <2>3. QED
      BY <1>1, <2>1, <2>2 DEF Extends
<1>3. ASSUME NEW c \in Chains, Extends(a, c) PROVE Extends(b, c)
  <2>1. Num(c) \in 0..Num(a) /\ Ancestor(a, Num(c)) = c
      BY <1>1, <1>3, ChainFacts DEF Extends
  <2>2. QED
      BY <1>2, <2>1
<1>4. ASSUME NEW c \in Chains, Extends(b, c), Num(c) <= Num(a) PROVE Extends(a, c)
  <2>1. Num(c) \in 0..Num(a) /\ Ancestor(b, Num(c)) = c
      BY <1>1, <1>4, ChainFacts DEF Extends
  <2>2. QED
      BY <1>1, <1>2, <1>4, <2>1 DEF Extends
<1>5. ASSUME a \in Blocks PROVE Extends(b, Parent(a))
  <2>1. Num(a) > 0 /\ Num(a) - 1 \in 0..Num(a) /\ Num(a) \in 0..Num(a)
      BY <1>1, <1>5, BlockFacts
  <2>2. Ancestor(a, Num(a)) = a /\ Parent(Ancestor(a, Num(a))) = Ancestor(a, Num(a) - 1)
      BY <2>1, AncestorFacts
  <2>3. QED
      BY <1>2, <2>1, <2>2
<1>6. QED
    BY <1>1, <1>2, <1>3, <1>4, <1>5

\* A block, its parent and itself.
LEMMA ChildFacts ==
    ASSUME NEW b \in Blocks
    PROVE  /\ Parent(b) = Ancestor(b, Num(b) - 1) /\ Ancestor(b, Num(b)) = b
           /\ Extends(b, Parent(b)) /\ Extends(b, b)
           /\ \A c \in Chains : Extends(b, c) => c = b \/ Extends(Parent(b), c)
<1>1. b \in Chains /\ Num(b) \in Nat /\ Num(b) > 0 /\ Num(Parent(b)) = Num(b) - 1 /\ Parent(b) \in Chains
    BY BlockFacts DEF Chains
<1>2. Num(b) \in 0..Num(b)
    BY <1>1
<1>3. Ancestor(b, Num(b)) = b /\ Parent(Ancestor(b, Num(b))) = Ancestor(b, Num(b) - 1)
    BY <1>1, <1>2, AncestorFacts
<1>4. Extends(b, Parent(b)) /\ Extends(b, b)
    BY <1>1, <1>3 DEF Extends
<1>5. ASSUME NEW c \in Chains, Extends(b, c), c # b PROVE Extends(Parent(b), c)
  <2>1. Num(c) \in Nat /\ Num(c) <= Num(b) /\ Num(c) # Num(b)
      BY <1>1, <1>3, <1>5, ChainFacts DEF Extends
  <2>2. Num(c) <= Num(Parent(b))
      BY <1>1, <2>1
  <2>3. QED
      BY <1>1, <1>4, <1>5, <2>2, ExtendsFacts
<1>6. QED
    BY <1>3, <1>4, <1>5
-----------------------------------------------------------------------------
(* Replay *)

\* A function on the chains up to a height that is built block by block.
Below(n) == {b \in Chains : Num(b) <= n}
Step(f, b) == IF b = Genesis THEN GenesisState ELSE WithBlock(f[Parent(b)], b)
ReplaysBelow(f, n) == f = [b \in Below(n) |-> Step(f, b)]

\* There is such a function, and only one, for every height.
LEMMA ReplayBelowExists ==
    ASSUME NEW n \in Nat
    PROVE  /\ \E f : ReplaysBelow(f, n)
           /\ \A f, g : ReplaysBelow(f, n) /\ ReplaysBelow(g, n) => f = g
<1> DEFINE T == {k \in Nat : /\ \E f : ReplaysBelow(f, k)
                             /\ \A f, g : ReplaysBelow(f, k) /\ ReplaysBelow(g, k) => f = g}
<1>1. 0 \in T
  <2>1. \A b \in Below(0) : b = Genesis
      BY ChainFacts DEF Below
  <2> DEFINE f0 == [b \in Below(0) |-> GenesisState]
  <2>2. ReplaysBelow(f0, 0)
      BY <2>1 DEF ReplaysBelow, Step
  <2>3. ASSUME NEW f, ReplaysBelow(f, 0) PROVE f = f0
      BY <2>1, <2>3 DEF ReplaysBelow, Step
  <2> HIDE DEF f0
  <2>4. QED
      BY <2>2, <2>3
<1>2. ASSUME NEW k \in T PROVE k + 1 \in T
  <2>0. k \in Nat /\ k + 1 \in Nat
      OBVIOUS
  <2>1. PICK f : ReplaysBelow(f, k)
      OBVIOUS
  <2>2. \A b \in Below(k + 1) : b # Genesis => Parent(b) \in Below(k)
      BY <2>0, BlockFacts, ChainFacts DEF Below, Chains
  <2>3. Below(k) \subseteq Below(k + 1)
      BY <2>0, ChainFacts DEF Below
  <2> DEFINE g == [b \in Below(k + 1) |-> Step(f, b)]
  <2>4. ASSUME NEW b \in Below(k) PROVE g[b] = f[b]
      BY <2>1, <2>3, <2>4 DEF ReplaysBelow
  <2>5. ASSUME NEW b \in Below(k + 1) PROVE Step(f, b) = Step(g, b)
    <3>1. CASE b = Genesis
        BY <3>1 DEF Step
    <3>2. CASE b # Genesis
      <4>1. g[Parent(b)] = f[Parent(b)]
          BY <2>2, <2>4, <3>2
      <4> HIDE DEF g
      <4>2. QED
          BY <3>2, <4>1 DEF Step
    <3>3. QED
        BY <3>1, <3>2
  <2>6. ReplaysBelow(g, k + 1)
      BY <2>5 DEF ReplaysBelow
  <2>7. ASSUME NEW h, ReplaysBelow(h, k + 1) PROVE h = g
    <3> DEFINE r == [b \in Below(k) |-> h[b]]
    <3>1. ASSUME NEW b \in Below(k) PROVE h[b] = Step(r, b)
      <4>1. h[b] = Step(h, b)
          BY <2>3, <2>7 DEF ReplaysBelow
      <4>2. CASE b = Genesis
          BY <4>1, <4>2 DEF Step
      <4>3. CASE b # Genesis
        <5>1. r[Parent(b)] = h[Parent(b)]
            BY <2>2, <2>3, <4>3
        <5> HIDE DEF r
        <5>2. QED
            BY <4>1, <4>3, <5>1 DEF Step
      <4>4. QED
          BY <4>2, <4>3
    <3>2. ReplaysBelow(r, k)
        BY <3>1 DEF ReplaysBelow
    <3>3. r = f
        BY <2>1, <3>2
    <3>4. ASSUME NEW b \in Below(k + 1) PROVE Step(h, b) = Step(f, b)
      <4>1. CASE b = Genesis
          BY <4>1 DEF Step
      <4>2. CASE b # Genesis
        <5>1. h[Parent(b)] = f[Parent(b)]
            BY <2>2, <3>3, <4>2
        <5>2. QED
            BY <4>2, <5>1 DEF Step
      <4>3. QED
          BY <4>1, <4>2
    <3>5. QED
        BY <2>7, <3>4 DEF ReplaysBelow
  <2> HIDE DEF g
  <2>8. QED
      BY <2>0, <2>6, <2>7
<1>3. T = Nat
  <2>1. T \in SUBSET Nat
      OBVIOUS
  <2> HIDE DEF T
  <2>2. QED
      BY <1>1, <1>2, <2>1, NaturalsByStep
<1>4. QED
    BY <1>3

\* Replay is what its definition says: applying a block to the replay of
\* its parent.
LEMMA ReplayStep ==
    /\ Replay[Genesis] = GenesisState
    /\ \A b \in Blocks : Replay[b] = WithBlock(Replay[Parent(b)], b)
<1> DEFINE F(n) == CHOOSE f : ReplaysBelow(f, n)
           R == [b \in Chains |-> F(Num(b))[b]]
<1>1. ASSUME NEW n \in Nat PROVE ReplaysBelow(F(n), n)
    BY ReplayBelowExists
<1>2. ASSUME NEW b \in Chains PROVE b \in Below(Num(b))
    BY ChainFacts DEF Below
<1>3. ASSUME NEW b \in Blocks PROVE F(Num(b))[Parent(b)] = R[Parent(b)]
  <2> DEFINE n == Num(b)
             r == [c \in Below(n - 1) |-> F(n)[c]]
  <2>1. n \in Nat /\ n > 0 /\ n - 1 \in Nat /\ Parent(b) \in Chains /\ Num(Parent(b)) = n - 1
      BY BlockFacts
  <2>2. ReplaysBelow(F(n), n)
      BY <1>1, <2>1
  <2> HIDE DEF F, n
  <2>3. Below(n - 1) \subseteq Below(n)
      BY <2>1, ChainFacts DEF Below
  <2>4. ASSUME NEW c \in Below(n - 1) PROVE F(n)[c] = Step(r, c)
    <3>1. F(n)[c] = Step(F(n), c)
        BY <2>2, <2>3 DEF ReplaysBelow
    <3>2. CASE c = Genesis
        BY <3>1, <3>2 DEF Step
    <3>3. CASE c # Genesis
      <4>1. Parent(c) \in Below(n - 1)
          BY <2>1, <2>4, <3>3, BlockFacts, ChainFacts DEF Below, Chains
      <4>2. r[Parent(c)] = F(n)[Parent(c)]
          BY <4>1
      <4> HIDE DEF r
      <4>3. QED
          BY <3>1, <3>3, <4>2 DEF Step
    <3>4. QED
        BY <3>2, <3>3
  <2>5. ReplaysBelow(r, n - 1)
      BY <2>4 DEF ReplaysBelow
  <2>6. ReplaysBelow(F(n - 1), n - 1)
      BY <1>1, <2>1
  <2>7. r = F(n - 1)
      BY <2>1, <2>5, <2>6, ReplayBelowExists
  <2>8. Parent(b) \in Below(n - 1)
      BY <2>1, <1>2
  <2>9. F(n)[Parent(b)] = F(n - 1)[Parent(b)]
      BY <2>7, <2>8
  <2>10. QED
      BY <2>1, <2>9 DEF n
<1>4. ASSUME NEW b \in Chains PROVE R[b] = Step(R, b)
  <2>1. F(Num(b))[b] = Step(F(Num(b)), b)
    <3>1. ReplaysBelow(F(Num(b)), Num(b)) /\ b \in Below(Num(b))
        BY <1>1, <1>2, ChainFacts
    <3> HIDE DEF F
    <3>2. QED
        BY <3>1 DEF ReplaysBelow
  <2>2. CASE b = Genesis
    <3> HIDE DEF F
    <3>1. QED
        BY <2>1, <2>2 DEF Step
  <2>3. CASE b # Genesis
    <3>1. F(Num(b))[Parent(b)] = R[Parent(b)] /\ R[b] = F(Num(b))[b]
        BY <1>3, <2>3 DEF Chains
    <3> HIDE DEF F, R
    <3>2. QED
        BY <2>1, <2>3, <3>1 DEF Step
  <2>4. QED
      BY <2>2, <2>3
<1>5. R = [b \in Chains |-> Step(R, b)]
    BY <1>4
<1> HIDE DEF R, F
<1>6. \E f : f = [b \in Chains |-> Step(f, b)]
    BY <1>5
<1>7. Replay = CHOOSE f : f = [b \in Chains |-> Step(f, b)]
    BY DEF Replay, Step, Chains
<1>8. Replay = [b \in Chains |-> Step(Replay, b)]
    BY <1>6, <1>7
<1>9. QED
    BY <1>8, BlockFacts DEF Step, Chains
-----------------------------------------------------------------------------
(* The last irreversible block *)

\* The position of the witness that decides.
LEMMA OffsetIsNat == Offset \in Nat
<1> DEFINE n == (100 - IrreversibleThreshold) * Cardinality(Witnesses)
<1>1. n \in Nat
  <2>1. Cardinality(Witnesses) \in Nat /\ (100 - IrreversibleThreshold) \in Nat
      BY ChainDbAssumption, FS_CardinalityType
  <2>2. \A a, b \in Nat : a * b \in Nat
      OBVIOUS
  <2>3. QED
      BY <2>1, <2>2
<1> HIDE DEF n
<1>2. n \div 100 \in Nat
    BY <1>1
<1>3. QED
    BY <1>2 DEF Offset, n

\* There is a number that not too many and not too few witnesses are below.
LEMMA NthConfirmedFacts ==
    ASSUME SeveralConfirm, NEW m \in Nat, NEW confirmed \in [Witnesses -> 0..m]
    PROVE  /\ NthConfirmed(confirmed) \in 0..m
           /\ Cardinality({w \in Witnesses : confirmed[w] < NthConfirmed(confirmed)}) <= Offset
<1> DEFINE AtMost(n) == {w \in Witnesses : confirmed[w] <= n}
           Under(n) == {w \in Witnesses : confirmed[w] < n}
           S == {n \in Nat : Cardinality(AtMost(n)) > Offset}
           Nth(n) == n \in {confirmed[w] : w \in Witnesses} /\ Cardinality(Under(n)) <= Offset
                       /\ Cardinality(AtMost(n)) > Offset
<1>0. IsFiniteSet(Witnesses) /\ Cardinality(Witnesses) \in Nat /\ Offset \in Nat
        /\ Offset < Cardinality(Witnesses)
    BY ChainDbAssumption, OffsetIsNat, FS_CardinalityType DEF SeveralConfirm
<1>1. m \in S
  <2>1. AtMost(m) = Witnesses
      OBVIOUS
  <2>2. QED
      BY <1>0, <2>1
<1>2. PICK n \in S : \A k \in S : ~ (<<k, n>> \in OpToRel(<, Nat))
  <2>1. S # {} /\ S \subseteq Nat /\ IsWellFoundedOn(OpToRel(<, Nat), Nat)
      BY <1>1, NatLessThanWellFounded
  <2> HIDE DEF S
  <2>2. QED
      BY <2>1, WFMin
<1>3. n \in Nat /\ \A k \in S : ~ (k < n)
    BY <1>2 DEF OpToRel
<1>4. Cardinality(Under(n)) <= Offset
  <2>1. CASE n = 0
    <3>1. Under(n) = {}
        BY <2>1
    <3>2. QED
        BY <1>0, <3>1, FS_EmptySet
  <2>2. CASE n # 0
    <3>1. n - 1 \in Nat /\ n - 1 < n
        BY <1>3, <2>2
    <3>2. Under(n) = AtMost(n - 1)
        BY <1>3, <3>1
    <3>3. n - 1 \notin S
        BY <1>3, <3>1
    <3>4. Cardinality(AtMost(n - 1)) \in Nat
        BY <1>0, FS_Subset, FS_CardinalityType
    <3>5. ~ (Cardinality(AtMost(n - 1)) > Offset)
        BY <3>1, <3>3
    <3>6. Cardinality(Under(n)) = Cardinality(AtMost(n - 1))
        BY <3>2
    <3> HIDE DEF Under, AtMost
    <3>7. QED
        BY <1>0, <3>4, <3>5, <3>6
  <2>3. QED
      BY <2>1, <2>2
<1>5. Cardinality(AtMost(n)) > Offset
    BY <1>2
<1>6. n \in {confirmed[w] : w \in Witnesses}
  <2>1. SUFFICES ASSUME n \notin {confirmed[w] : w \in Witnesses} PROVE FALSE
      OBVIOUS
  <2>2. Under(n) = AtMost(n)
      BY <1>3, <2>1
  <2>3. Cardinality(AtMost(n)) \in Nat
      BY <1>0, FS_Subset, FS_CardinalityType
  <2>4. QED
      BY <1>0, <1>4, <1>5, <2>2, <2>3
<1>7. Nth(n)
    BY <1>4, <1>5, <1>6
<1>8. NthConfirmed(confirmed) = CHOOSE k \in {confirmed[w] : w \in Witnesses} :
                                  Cardinality(Under(k)) <= Offset /\ Cardinality(AtMost(k)) > Offset
    BY DEF NthConfirmed
<1> HIDE DEF Under, AtMost
<1>9. Nth(NthConfirmed(confirmed))
    BY <1>7, <1>8
<1>10. QED
    BY <1>9 DEF Under

\* What is known of a state that the blocks up to its head have led to.
Proper(d) ==
    /\ d = [head |-> d.head, lib |-> d.lib, confirmed |-> d.confirmed, whole |-> d.whole]
    /\ d.head \in Chains
    /\ d.lib \in 0..Num(d.head)
    /\ d.confirmed \in [Witnesses -> 0..Num(d.head)]
    /\ d.head # Genesis => d.lib < Num(d.head)

\* Applying a block gives such a state, whose head is the block and not yet
\* irreversible.
LEMMA WithBlockIsProper ==
    ASSUME SeveralConfirm, NEW d, Proper(d), NEW b \in Blocks, Parent(b) = d.head
    PROVE  Proper(WithBlock(d, b)) /\ WithBlock(d, b).head = b
<1> DEFINE n == Num(b)
           conf == [d.confirmed EXCEPT ![WitnessOf[b]] = n]
           nth == NthConfirmed(conf)
           lib == NewLib(d.lib, n, conf)
<1>1. n \in Nat /\ n > 0 /\ Num(d.head) = n - 1 /\ WitnessOf[b] \in Witnesses
    BY BlockFacts, ChainDbAssumption
<1>2. d.confirmed \in [Witnesses -> 0..(n - 1)] /\ d.lib \in 0..(n - 1)
    BY <1>1 DEF Proper
<1> HIDE DEF n
<1>3. conf \in [Witnesses -> 0..n] /\ \A w \in Witnesses \ {WitnessOf[b]} : conf[w] < n
  <2>1. DOMAIN conf = Witnesses /\ \A w \in Witnesses : conf[w] = IF w = WitnessOf[b] THEN n ELSE d.confirmed[w]
      BY <1>2
  <2>2. \A w \in Witnesses : d.confirmed[w] \in 0..(n - 1)
      BY <1>2
  <2>3. conf = [w \in Witnesses |-> conf[w]]
      BY <1>2
  <2> HIDE DEF conf
  <2>4. \A w \in Witnesses : conf[w] \in 0..n /\ (w # WitnessOf[b] => conf[w] < n)
      BY <1>1, <2>1, <2>2
  <2>5. QED
      BY <2>3, <2>4
<1> HIDE DEF conf
<1>4. nth \in 0..n /\ Cardinality({w \in Witnesses : conf[w] < nth}) <= Offset
    BY <1>1, <1>3, NthConfirmedFacts
<1>5. nth < n
  <2>1. SUFFICES ASSUME nth = n PROVE FALSE
      BY <1>1, <1>4
  <2> DEFINE U == {w \in Witnesses : conf[w] < nth}
             V == Witnesses \ {WitnessOf[b]}
  <2>2. V \subseteq U
      BY <1>3, <2>1
  <2>3. IsFiniteSet(Witnesses) /\ IsFiniteSet(U) /\ Cardinality(V) = Cardinality(Witnesses) - 1
      BY <1>1, ChainDbAssumption, FS_RemoveElement, FS_Subset
  <2>4. Cardinality(V) <= Cardinality(U) /\ Cardinality(U) \in Nat /\ Cardinality(Witnesses) \in Nat
      BY <2>2, <2>3, FS_Subset, FS_CardinalityType
  <2>5. Cardinality(U) <= Offset
      BY <1>4
  <2> HIDE DEF U, V
  <2>6. QED
      BY <2>3, <2>4, <2>5, OffsetIsNat DEF SeveralConfirm
<1> HIDE DEF nth
<1>6. lib \in 0..n /\ lib < n
  <2>1. lib = IF n < VotingStart THEN IF n > MaxWitnesses THEN n - MaxWitnesses ELSE d.lib
              ELSE IF nth > d.lib THEN nth ELSE d.lib
      BY DEF NewLib, nth
  <2>2. MaxWitnesses \in Nat /\ MaxWitnesses > 0
      BY ChainDbAssumption DEF SeveralConfirm
  <2> HIDE DEF lib
  <2>3. QED
      BY <1>1, <1>2, <1>4, <1>5, <2>1, <2>2
<1> DEFINE new == [head |-> b, lib |-> lib, confirmed |-> conf, whole |-> d.whole]
<1>7. WithBlock(d, b) = new
  <2>1. d = [head |-> d.head, lib |-> d.lib, confirmed |-> d.confirmed, whole |-> d.whole]
      BY DEF Proper
  <2>2. WithBlock(d, b) = [d EXCEPT !.head = b, !.confirmed = conf, !.lib = lib]
      BY DEF WithBlock, conf, n
  <2> HIDE DEF lib
  <2>3. PICK h, l, c, t : d = [head |-> h, lib |-> l, confirmed |-> c, whole |-> t]
      BY <2>1, Zenon
  <2> HIDE DEF conf
  <2> DEFINE x == [d EXCEPT !.head = b, !.confirmed = conf, !.lib = lib]
  <2>4. x = new
    <3>1. d \in [head : {h}, lib : {l}, confirmed : {c}, whole : {t}]
        BY <2>3
    <3>2. x \in [head : {b}, lib : {lib}, confirmed : {conf}, whole : {t}]
        BY <3>1
    <3> HIDE DEF x
    <3>3. x = [head |-> b, lib |-> lib, confirmed |-> conf, whole |-> t]
        BY <3>2
    <3>4. d.whole = t
        BY <2>3
    <3>5. QED
        BY <3>3, <3>4
  <2>5. QED
      BY <2>2, <2>4
<1> HIDE DEF lib
<1>8. Proper(new)
    BY <1>1, <1>3, <1>6 DEF Proper, Chains, n
<1>9. QED
    BY <1>7, <1>8

\* The replay of a chain ends at its head and is such a state.
LEMMA ReplayIsProper ==
    ASSUME SeveralConfirm, NEW b \in Chains
    PROVE  Proper(Replay[b]) /\ Replay[b].head = b
<1> DEFINE T == {c \in Chains : Proper(Replay[c]) /\ Replay[c].head = c}
<1>1. Genesis \in T
  <2>1. Num(Genesis) = 0 /\ Genesis \in Chains
      BY DEF Num, Genesis, Chains
  <2>2. Replay[Genesis] = [head |-> Genesis, lib |-> 0, confirmed |-> [w \in Witnesses |-> 0], whole |-> TRUE]
      BY ReplayStep DEF GenesisState
  <2> DEFINE none == [w \in Witnesses |-> 0]
             t == TRUE
  <2>3. none \in [Witnesses -> 0..0] /\ 0 \in 0..0
      OBVIOUS
  <2>4. Replay[Genesis] = [head |-> Genesis, lib |-> 0, confirmed |-> none, whole |-> t]
      BY <2>2, Zenon
  <2> HIDE DEF none, t
  <2>5. QED
      BY <2>1, <2>3, <2>4 DEF Proper
<1>2. ASSUME NEW c \in Blocks, Parent(c) \in T PROVE c \in T
    BY <1>2, WithBlockIsProper, ReplayStep DEF Chains
<1> HIDE DEF T
<1>3. Chains \subseteq T
    BY <1>1, <1>2, BlocksByParent
<1>4. QED
    BY <1>3 DEF T
-----------------------------------------------------------------------------
(* The stack of revisions and the log *)

\* A set of numbers above a that has all between a and its elements is an
\* interval, which ends where its size says.
LEMMA FromTheStart ==
    ASSUME NEW a \in Nat, NEW n \in Nat, NEW S \in SUBSET ((a + 1)..n),
           \A k \in S : \A j \in (a + 1)..k : j \in S
    PROVE  Cardinality(S) \in Nat /\ S = (a + 1)..(a + Cardinality(S))
<1>1. CASE S = {}
  <2>1. Cardinality(S) = 0
      BY <1>1, FS_EmptySet
  <2>2. QED
      BY <1>1, <2>1
<1>2. CASE S # {}
  <2>1. S \subseteq 0..n
      OBVIOUS
  <2>2. Max(S) \in S /\ \A k \in S : k <= Max(S)
      BY <1>2, <2>1, MaxIsGreatest
  <2> DEFINE m == Max(S)
  <2>3. m \in S /\ m \in (a + 1)..n /\ \A k \in S : k <= m
      BY <2>2
  <2> HIDE DEF m
  <2>4. S = (a + 1)..m
    <3>1. ASSUME NEW k \in S PROVE k \in (a + 1)..m
        BY <2>3
    <3>2. ASSUME NEW k \in (a + 1)..m PROVE k \in S
        BY <2>3
    <3>3. QED
        BY <3>1, <3>2
  <2>5. Cardinality((a + 1)..m) = m - (a + 1) + 1
      BY <2>3, FS_Interval
  <2>6. Cardinality(S) = m - a
      BY <2>3, <2>4, <2>5
  <2>7. QED
      BY <2>3, <2>4, <2>6
<1>3. QED
    BY <1>1, <1>2

\* The revisions on a stack end at the given one, each holds the state of
\* the block below, and the states are the ones that replay gives.
States == {Replay[b] : b \in Chains}
Revision == [before : States, revision : Nat]
Stacked(s, r) ==
    /\ s \in Seq(Revision)
    /\ r \in Nat /\ Len(s) <= r
    /\ \A k \in 1..Len(s) : /\ s[k].revision = (r - Len(s)) + k
                            /\ Num(s[k].before.head) = (r - Len(s)) + k - 1

\* The parts of a stack without the oldest or the newest revisions.
LEMMA StackedParts ==
    ASSUME NEW r, NEW s, Stacked(s, r), NEW c \in 0..Len(s)
    PROVE  /\ Stacked(SubSeq(s, c + 1, Len(s)), r)
           /\ Len(SubSeq(s, c + 1, Len(s))) = Len(s) - c
           /\ Len(s) > 0 => Stacked(SubSeq(s, 1, Len(s) - 1), r - 1)
<1> DEFINE n == Len(s)
           t == SubSeq(s, c + 1, n)
           u == SubSeq(s, 1, n - 1)
<1>1. s \in Seq(Revision) /\ n \in Nat /\ r \in Nat /\ n <= r
    BY DEF Stacked
<1>2. c \in Nat /\ c + 1 \in 1..(n + 1) /\ n \in ((c + 1) - 1)..n
    BY <1>1
<1>3. t \in Seq(Revision) /\ Len(t) = n - c /\ \A k \in 1..(n - c) : t[k] = s[c + k]
  <2>1. /\ t \in Seq(Revision) /\ Len(t) = (n - (c + 1)) + 1
        /\ \A k \in 1..((n - (c + 1)) + 1) : t[k] = s[((c + 1) + k) - 1]
      BY <1>1, <1>2, PartFacts
  <2> HIDE DEF t, n
  <2>2. (n - (c + 1)) + 1 = n - c /\ \A k \in 1..(n - c) : ((c + 1) + k) - 1 = c + k
      BY <1>1, <1>2
  <2>3. QED
      BY <2>1, <2>2
<1>4. \A k \in 1..n : s[k].revision = (r - n) + k /\ Num(s[k].before.head) = (r - n) + k - 1
    BY DEF Stacked
<1>5. Stacked(t, r)
  <2>1. ASSUME NEW k \in 1..(n - c)
        PROVE  /\ t[k].revision = (r - (n - c)) + k
               /\ Num(t[k].before.head) = (r - (n - c)) + k - 1
    <3>1. t[k] = s[c + k] /\ c + k \in 1..n
        BY <1>1, <1>2, <1>3
    <3>2. s[c + k].revision = (r - n) + (c + k) /\ Num(s[c + k].before.head) = (r - n) + (c + k) - 1
        BY <1>4, <3>1, Zenon
    <3> HIDE DEF t, n
    <3>3. (r - n) + (c + k) = (r - (n - c)) + k /\ (r - n) + (c + k) - 1 = (r - (n - c)) + k - 1
        BY <1>1, <1>2
    <3>4. QED
        BY <3>1, <3>2, <3>3
  <2> HIDE DEF t, n
  <2>2. QED
      BY <1>1, <1>2, <1>3, <2>1 DEF Stacked
<1>6. ASSUME n > 0 PROVE Stacked(u, r - 1)
  <2>0. 1 \in 1..(n + 1) /\ n - 1 \in (1 - 1)..n
      BY <1>1, <1>6
  <2>1. /\ u \in Seq(Revision) /\ Len(u) = ((n - 1) - 1) + 1
        /\ \A k \in 1..(((n - 1) - 1) + 1) : u[k] = s[(1 + k) - 1]
      BY <1>1, <2>0, PartFacts, Zenon
  <2> HIDE DEF u, n
  <2>2. ((n - 1) - 1) + 1 = n - 1 /\ \A k \in 1..(n - 1) : (1 + k) - 1 = k
      BY <1>1
  <2>3. Len(u) = n - 1 /\ \A k \in 1..(n - 1) : u[k] = s[k]
      BY <2>1, <2>2
  <2>4. ASSUME NEW k \in 1..(n - 1)
        PROVE  /\ u[k].revision = ((r - 1) - (n - 1)) + k
               /\ Num(u[k].before.head) = ((r - 1) - (n - 1)) + k - 1
    <3>1. k \in 1..n /\ ((r - 1) - (n - 1)) + k = (r - n) + k /\ ((r - 1) - (n - 1)) + k - 1 = (r - n) + k - 1
        BY <1>1
    <3>2. s[k].revision = (r - n) + k /\ Num(s[k].before.head) = (r - n) + k - 1
        BY <1>4, <3>1, Zenon
    <3>3. QED
        BY <2>3, <3>1, <3>2
  <2>5. r - 1 \in Nat /\ n - 1 <= r - 1
      BY <1>1, <1>6
  <2>6. QED
      BY <2>1, <2>3, <2>4, <2>5 DEF Stacked
<1>7. QED
    BY <1>3, <1>5, <1>6
-----------------------------------------------------------------------------
(* The fork database *)

ForkDbs == [index : SUBSET Blocks, head : Chains, max_size : Nat, lost : SUBSET Chains]

\* Removing items leaves a fork database.
LEMMA WithoutItemsFacts ==
    ASSUME NEW f \in ForkDbs, NEW gone
    PROVE  WithoutItems(f, gone) \in ForkDbs
<1> DEFINE left == f.index \ gone
           lost == {b \in left \cup {f.head} : b \in f.lost \/ Parent(b) \in gone}
<1>1. f.index \in SUBSET Blocks /\ f.head \in Chains
    BY DEF ForkDbs
<1>2. left \in SUBSET Blocks /\ lost \in SUBSET Chains
    BY <1>1 DEF Chains
<1>3. WithoutItems(f, gone) = [f EXCEPT !.index = left, !.lost = lost]
    BY DEF WithoutItems
<1> HIDE DEF left, lost
<1>4. QED
    BY <1>2, <1>3 DEF ForkDbs

\* Setting the head, popping the head, pushing a block, the size and the
\* first block.
LEMMA ForkDbFacts ==
    ASSUME NEW f \in ForkDbs, NEW b \in Blocks, NEW s \in Nat
    PROVE  /\ set_head(f, b) \in ForkDbs
           /\ f.head # Genesis => pop_block(f) \in ForkDbs
           /\ push_block(f, b) \in ForkDbs
           /\ push_block(f, b).head \in Blocks
           /\ set_max_size(f, s) \in ForkDbs
           /\ start_block(f, b) \in ForkDbs
           /\ remove(f, b) \in ForkDbs
           /\ [EmptyForkDb EXCEPT !.max_size = s] \in ForkDbs
<1>0. f.index \in SUBSET Blocks /\ f.head \in Chains /\ f.lost \in SUBSET Chains /\ b \in Chains
    BY DEF ForkDbs, Chains
<1>1. ASSUME NEW c \in Chains PROVE set_head(f, c) \in ForkDbs
  <2> DEFINE lost == IF {c, Parent(c)} \cap f.index = {} THEN f.lost \cup {c} ELSE f.lost
  <2>1. lost \in SUBSET Chains
      BY <1>0
  <2>2. set_head(f, c) = [f EXCEPT !.head = c, !.lost = lost]
      BY DEF set_head
  <2> HIDE DEF lost
  <2>3. QED
      BY <2>1, <2>2 DEF ForkDbs
<1>2. ASSUME f.head # Genesis PROVE pop_block(f) \in ForkDbs
  <2>1. Parent(f.head) \in Chains
      BY <1>0, <1>2, BlockFacts DEF Chains
  <2>2. QED
      BY <1>1, <2>1 DEF pop_block
<1>3. push_block(f, b) \in ForkDbs /\ push_block(f, b).head \in Blocks
  <2> DEFINE unlinked == f.head = Genesis \/ Parent(b) = Genesis
             new_head == IF f.head = Genesis \/ Num(b) > Num(f.head) THEN b ELSE f.head
             index == f.index \cup {b}
             lost == IF b \in f.index THEN f.lost ELSE IF unlinked THEN f.lost \cup {b} ELSE f.lost \ {b}
  <2>1. new_head \in Blocks
      BY <1>0 DEF Chains
  <2>2. index \in SUBSET Blocks /\ lost \in SUBSET Chains
      BY <1>0
  <2>3. push_block(f, b) = [f EXCEPT !.index = index, !.head = new_head, !.lost = lost]
      BY DEF push_block
  <2> HIDE DEF index, new_head, lost
  <2>4. new_head \in Chains
      BY <2>1 DEF Chains
  <2>5. push_block(f, b) \in ForkDbs /\ push_block(f, b).head = new_head
      BY <2>2, <2>3, <2>4 DEF ForkDbs
  <2>6. QED
      BY <2>1, <2>5
<1>4. set_max_size(f, s) \in ForkDbs
  <2>1. [f EXCEPT !.max_size = s] \in ForkDbs
      BY DEF ForkDbs
  <2>2. QED
      BY <2>1, WithoutItemsFacts DEF set_max_size
<1>5. start_block(f, b) \in ForkDbs
  <2> DEFINE index == f.index \cup {b}
             lost == f.lost \cup {b}
  <2>1. index \in SUBSET Blocks /\ lost \in SUBSET Chains
      BY <1>0
  <2>2. start_block(f, b) = [f EXCEPT !.index = index, !.head = b, !.lost = lost]
      BY DEF start_block
  <2> HIDE DEF index, lost
  <2>3. QED
      BY <1>0, <2>1, <2>2 DEF ForkDbs
<1>6. remove(f, b) \in ForkDbs
    BY WithoutItemsFacts DEF remove
<1>7. [EmptyForkDb EXCEPT !.max_size = s] \in ForkDbs
  <2>1. EmptyForkDb \in ForkDbs
      BY DEF EmptyForkDb, ForkDbs, MaxBlockReordering, Chains
  <2>2. QED
      BY <2>1 DEF ForkDbs
<1>8. QED
    BY <1>0, <1>1, <1>2, <1>3, <1>4, <1>5, <1>6, <1>7

\* A block that is found by its number is one.
LEMMA LookupIsBlock ==
    ASSUME fork_db \in ForkDbs, NEW n \in Nat, n > 0, Lookup(n) # Genesis
    PROVE  Lookup(n) \in Blocks
<1> DEFINE blocks == {b \in fork_db.index : Num(b) = n}
<1>1. fork_db.index \in SUBSET Blocks /\ fork_db.head \in Chains
    BY DEF ForkDbs
<1>2. CASE Cardinality(blocks) = 1
  <2>1. blocks # {}
      BY <1>2, FS_EmptySet
  <2>2. (CHOOSE b \in blocks : TRUE) \in blocks
      BY <2>1
  <2>3. QED
      BY <1>1, <1>2, <2>2 DEF Lookup, fetch_block_on_main_branch_by_number
<1>3. CASE Cardinality(blocks) # 1
  <2>1. ~(n > Num(fork_db.head)) /\ Lookup(n) = Ancestor(fork_db.head, n)
      BY <1>3 DEF Lookup, fetch_block_on_main_branch_by_number
  <2>2. n \in 1..Num(fork_db.head)
      BY <1>1, <2>1, ChainFacts
  <2>3. QED
      BY <1>1, <2>1, <2>2, AncestorsAreBlocks
<1>4. QED
    BY <1>2, <1>3

\* A branch of a chain, as a sequence.
LEMMA BranchIs ==
    ASSUME NEW x \in Blocks, NEW s \in 1..Num(x)
    PROVE  LET t == Branch(x, s) IN
           /\ t \in Seq(Blocks) /\ Len(t) = (Num(x) - s) + 1 /\ t # <<>>
           /\ t[1] = Ancestor(x, s) /\ t[Len(t)] = x
           /\ \A i \in 1..Len(t) : \E n \in s..Num(x) : t[i] = Ancestor(x, n)
           /\ Len(t) # 1 => s + 1 \in 1..Num(x) /\ Tail(t) = Branch(x, s + 1)
           /\ Len(t) = 1 => s = Num(x)
<1> DEFINE n == (Num(x) - s) + 1
           t == Branch(x, s)
<1>1. Num(x) \in Nat /\ n \in Nat /\ n > 0 /\ x \in Chains /\ s \in Nat /\ s > 0
    BY BlockFacts DEF Chains
<1>2. ASSUME NEW i \in 1..n PROVE Ancestor(x, s + i - 1) \in Blocks /\ s + i - 1 \in s..Num(x)
  <2>1. s + i - 1 \in 1..Num(x) /\ s + i - 1 \in s..Num(x)
      BY <1>1
  <2>2. QED
      BY <1>1, <2>1, AncestorsAreBlocks
<1>3. t = [i \in 1..n |-> Ancestor(x, s + i - 1)]
    BY DEF Branch
<1> HIDE DEF t
<1>4. t \in Seq(Blocks) /\ Len(t) = n
  <2> HIDE DEF n
  <2>1. t \in [1..n -> Blocks]
      BY <1>2, <1>3
  <2>2. QED
      BY <1>1, <2>1
<1>5. \A i \in 1..n : t[i] = Ancestor(x, s + i - 1)
    BY <1>3
<1>6. t[1] = Ancestor(x, s) /\ t[n] = x
  <2>1. 1 \in 1..n /\ n \in 1..n /\ s + 1 - 1 = s /\ s + n - 1 = Num(x)
      BY <1>1
  <2>2. QED
      BY <1>5, <2>1, ChildFacts
<1>7. \A i \in 1..n : \E m \in s..Num(x) : t[i] = Ancestor(x, m)
    BY <1>2, <1>5
<1>8. ASSUME n # 1 PROVE s + 1 \in 1..Num(x) /\ Tail(t) = Branch(x, s + 1)
  <2>1. s + 1 \in 1..Num(x)
      BY <1>1, <1>8
  <2> DEFINE u == Branch(x, s + 1)
             k == (Num(x) - (s + 1)) + 1
             v == Tail(t)
  <2>2. k = n - 1 /\ k \in Nat
      BY <1>1, <1>8
  <2>3. u = [i \in 1..k |-> Ancestor(x, (s + 1) + i - 1)]
      BY DEF Branch
  <2>4. v \in Seq(Blocks) /\ Len(v) = Len(t) - 1 /\ \A i \in 1..Len(v) : v[i] = t[i + 1]
    <3>1. t # <<>>
        BY <1>1, <1>4
    <3>2. QED
        BY <1>4, <3>1, HeadTailProperties
  <2> HIDE DEF u, v, k, n
  <2>5. ASSUME NEW i \in 1..k PROVE v[i] = Ancestor(x, (s + 1) + i - 1)
    <3>1. i + 1 \in 1..n /\ s + (i + 1) - 1 = (s + 1) + i - 1 /\ i \in 1..Len(v)
        BY <1>1, <1>4, <2>2, <2>4
    <3>2. QED
        BY <1>5, <2>4, <3>1
  <2>6. v = [i \in 1..k |-> v[i]]
      BY <1>4, <2>2, <2>4
  <2>7. v = u
      BY <2>3, <2>5, <2>6
  <2>8. QED
      BY <2>1, <2>7 DEF u, v
<1>9. n = 1 => s = Num(x)
    BY <1>1
<1>10. t # <<>>
    BY <1>1, <1>4
<1>11. QED
    BY <1>4, <1>6, <1>7, <1>8, <1>9, <1>10 DEF t

\* Where the branches of a longer fork and of the head's chain begin: the
\* blocks have the same parent there, and no more further up.
LEMMA BranchStartFacts ==
    ASSUME NEW a \in Blocks, NEW b \in Blocks, Num(a) > Num(b)
    PROVE  LET s == BranchStart(a, b) IN
           /\ s \in 1..Num(b) /\ Parent(Ancestor(a, s)) = Parent(Ancestor(b, s))
           /\ \A k \in (s + 1)..Num(b) : Parent(Ancestor(a, k)) # Parent(Ancestor(b, k))
<1> DEFINE start == BranchStart(a, b)
           Same(n) == Parent(Ancestor(a, n)) = Parent(Ancestor(b, n))
           S == {n \in 1..Num(b) : Same(n)}
<1>0. /\ a \in Seq(Payloads) /\ Num(a) \in Nat /\ Num(a) > 0
      /\ b \in Seq(Payloads) /\ Num(b) \in Nat /\ Num(b) > 0
    BY BlockFacts
<1>1. 1 \in S
  <2>1. ASSUME NEW c \in Blocks PROVE Parent(Ancestor(c, 1)) = Genesis
    <3>1. c \in Chains /\ Num(c) \in Nat /\ Num(c) > 0 /\ 1 \in 0..Num(c) /\ 0 \in 0..Num(c) /\ 1 - 1 = 0
        BY BlockFacts DEF Chains
    <3>2. Parent(Ancestor(c, 1)) = Ancestor(c, 0) /\ Ancestor(c, 0) \in Chains /\ Num(Ancestor(c, 0)) = 0
        BY <3>1, AncestorFacts
    <3>3. QED
        BY <3>2, ChainFacts
  <2>2. QED
      BY <1>0, <2>1
<1>2. Max(S) \in S /\ \A n \in S : n <= Max(S)
  <2>1. S \in SUBSET (0..Num(b)) /\ S # {}
      BY <1>0, <1>1
  <2> HIDE DEF S
  <2>2. QED
      BY <1>0, <2>1, MaxIsGreatest
<1> DEFINE m == Max(S)
           Highest(n) == Same(n) /\ \A k \in (n + 1)..Num(b) : k <= Num(a) => ~Same(k)
<1>3. m \in 1..Num(b) /\ Same(m) /\ \A k \in 1..Num(b) : Same(k) => k <= m
    BY <1>2
<1> HIDE DEF m
<1>4. Highest(m)
    BY <1>0, <1>3
<1>5. start = CHOOSE n \in 1..Num(b) : Highest(n)
    BY DEF BranchStart
<1> HIDE DEF Highest, start
<1>6. start \in 1..Num(b) /\ Highest(start)
    BY <1>3, <1>4, <1>5
<1>7. QED
    BY <1>0, <1>6 DEF Highest, start
-----------------------------------------------------------------------------
(* The invariant *)

\* The tables: the state is the replay of its head's chain, and there is one
\* revision for every block of it.
Tables ==
    /\ db.head \in Chains /\ db = Replay[db.head]
    /\ revision = Num(db.head)
    /\ Stacked(undo_stack, revision)

Pcs == {"idle", "apply", "pop", "push", "unwind", "restore"}
Outcomes == {"none", "ok", "failed"}
Branches == [first : Seq(Blocks), second : Seq(Blocks)]
Tasks == [pc : Pcs, outcome : Outcomes, start : States, block : Chains, todo : Branches]

\* While a fork is switched there are blocks to apply.
Busy(t) ==
    /\ t \in Tasks
    /\ t.pc = "apply" => t.block \in Blocks
    /\ t.pc \in {"pop", "push"} => t.todo.first # <<>>
    /\ t.pc \in {"pop", "push", "unwind", "restore"} => t.todo.second # <<>>

IndInv ==
    /\ Tables
    /\ fork_db \in ForkDbs
    /\ block_log \in Seq(Blocks)
    /\ Busy(task)

\* A task that is done.
LEMMA IdleIsBusy ==
    ASSUME NEW outcome \in Outcomes, NEW start \in States, NEW b \in Chains
    PROVE  Busy(Idle(outcome, start, b))
<1> DEFINE t == Idle(outcome, start, b)
<1>1. t = [pc |-> "idle", outcome |-> outcome, start |-> start, block |-> b,
           todo |-> [first |-> <<>>, second |-> <<>>]]
    BY DEF Idle, NoBranches
<1>2. [first |-> <<>>, second |-> <<>>] \in Branches
    BY DEF Branches
<1> HIDE DEF t
<1>3. t \in Tasks /\ t.pc = "idle"
    BY <1>1, <1>2 DEF Tasks, Pcs
<1>4. QED
    BY <1>3 DEF Busy, t

\* The state is one of those that replay gives.
LEMMA StateFacts ==
    ASSUME SeveralConfirm, Tables
    PROVE  /\ db \in States /\ revision \in Nat /\ Num(db.head) \in Nat
           /\ Proper(db)
           /\ \A k \in 1..Len(undo_stack) :
                /\ undo_stack[k].before \in States
                /\ undo_stack[k].before.head \in Chains
                /\ undo_stack[k].before = Replay[undo_stack[k].before.head]
<1>1. db \in States /\ Proper(db)
    BY ReplayIsProper DEF Tables, States
<1>2. revision \in Nat /\ Num(db.head) \in Nat
    BY ChainFacts DEF Tables
<1>3. ASSUME NEW k \in 1..Len(undo_stack)
      PROVE  /\ undo_stack[k].before \in States
             /\ undo_stack[k].before.head \in Chains
             /\ undo_stack[k].before = Replay[undo_stack[k].before.head]
  <2>1. undo_stack \in Seq(Revision)
      BY DEF Tables, Stacked
  <2>2. undo_stack[k] \in Revision
      BY <2>1
  <2>3. undo_stack[k].before \in States
      BY <2>2 DEF Revision
  <2>4. PICK b \in Chains : undo_stack[k].before = Replay[b]
      BY <2>3 DEF States
  <2>5. QED
      BY <2>3, <2>4, ReplayIsProper
<1>4. QED
    BY <1>1, <1>2, <1>3

\* Committing up to a block below the new one leaves its revision, and takes
\* all up to that block.
LEMMA CommitFacts ==
    ASSUME SeveralConfirm, Tables, NEW lib \in Nat, lib <= revision
    PROVE  /\ Stacked(AfterCommit(lib), revision + 1) /\ Len(AfterCommit(lib)) > 0
           /\ Len(AfterCommit(lib)) <= Len(undo_stack) + 1
           /\ lib <= (revision + 1) - Len(AfterCommit(lib))
           /\ \A k \in 1..Len(AfterCommit(lib)) :
                \/ AfterCommit(lib)[k].before = db
                \/ \E j \in 1..Len(undo_stack) : AfterCommit(lib)[k] = undo_stack[j]
<1> DEFINE u == [before |-> db, revision |-> revision + 1]
           n == Len(undo_stack)
           o == Opened
           C == Committed(lib)
<1>1. /\ undo_stack \in Seq(Revision) /\ n \in Nat /\ revision \in Nat /\ n <= revision
      /\ \A k \in 1..n : /\ undo_stack[k].revision = (revision - n) + k
                          /\ Num(undo_stack[k].before.head) = (revision - n) + k - 1
      /\ Num(db.head) = revision
    BY StateFacts DEF Tables, Stacked
<1>2. u \in Revision /\ u.revision = revision + 1 /\ u.before = db
    BY <1>1, StateFacts DEF Revision
<1>3. o = Append(undo_stack, u)
    BY DEF Opened
<1> HIDE DEF u, o
<1>4. /\ o \in Seq(Revision) /\ Len(o) = n + 1
      /\ \A i \in 1..n : o[i] = undo_stack[i]
      /\ o[n + 1] = u
    BY <1>1, <1>2, <1>3, AppendProperties
<1> HIDE DEF n
<1>5. Stacked(o, revision + 1)
  <2>1. ASSUME NEW k \in 1..(n + 1)
        PROVE  /\ o[k].revision = ((revision + 1) - (n + 1)) + k
               /\ Num(o[k].before.head) = ((revision + 1) - (n + 1)) + k - 1
    <3>1. CASE k \in 1..n
      <4>1. o[k] = undo_stack[k]
          BY <1>4, <3>1
      <4>2. /\ undo_stack[k].revision = (revision - n) + k
            /\ Num(undo_stack[k].before.head) = (revision - n) + k - 1
          BY <1>1, <3>1, Zenon
      <4>3. /\ (revision - n) + k = ((revision + 1) - (n + 1)) + k
            /\ (revision - n) + k - 1 = ((revision + 1) - (n + 1)) + k - 1
          BY <1>1
      <4>4. QED
          BY <4>1, <4>2, <4>3
    <3>2. CASE k = n + 1
      <4>1. o[k] = u
          BY <1>4, <3>2
      <4>2. /\ revision + 1 = ((revision + 1) - (n + 1)) + k
            /\ revision = ((revision + 1) - (n + 1)) + k - 1
          BY <1>1, <3>2
      <4>3. QED
          BY <1>1, <1>2, <4>1, <4>2
    <3>3. QED
        BY <1>1, <3>1, <3>2
  <2>2. revision + 1 \in Nat /\ n + 1 <= revision + 1
      BY <1>1
  <2>3. QED
      BY <1>4, <2>1, <2>2 DEF Stacked
<1>6. C = {k \in 1..(n + 1) : \A j \in 1..k : o[j].revision <= lib}
    BY <1>4 DEF Committed, o
<1> HIDE DEF C
<1>7. C \in SUBSET ((0 + 1)..(n + 1)) /\ \A k \in C : \A j \in (0 + 1)..k : j \in C
    BY <1>1, <1>6
<1>8. Cardinality(C) \in Nat /\ C = (0 + 1)..(0 + Cardinality(C))
  <2>1. 0 \in Nat /\ n + 1 \in Nat
      BY <1>1
  <2>2. QED
      BY <1>7, <2>1, FromTheStart
<1>9. n + 1 \notin C
    BY <1>1, <1>2, <1>4, <1>6
<1>10. Cardinality(C) \in 0..n
    BY <1>1, <1>8, <1>9
<1>11. AfterCommit(lib) = SubSeq(o, Cardinality(C) + 1, Len(o))
    BY DEF AfterCommit, C, o
<1>12. /\ Stacked(SubSeq(o, Cardinality(C) + 1, Len(o)), revision + 1)
       /\ Len(SubSeq(o, Cardinality(C) + 1, Len(o))) = Len(o) - Cardinality(C)
  <2>1. Cardinality(C) \in 0..Len(o)
      BY <1>1, <1>4, <1>10
  <2>2. QED
      BY <1>5, <2>1, StackedParts
<1> DEFINE c == Cardinality(C)
           t == SubSeq(o, c + 1, Len(o))
<1> HIDE DEF c
<1>13. c \in 0..n /\ C = 1..c /\ Len(t) = (n + 1) - c /\ Len(t) > 0 /\ Len(t) <= n + 1
    BY <1>1, <1>4, <1>8, <1>10, <1>12 DEF c
<1>14. lib <= (revision + 1) - Len(t)
  <2>1. c + 1 \in 1..(n + 1) /\ c + 1 \notin C
      BY <1>1, <1>13
  <2>2. PICK j \in 1..(c + 1) : ~(o[j].revision <= lib)
      BY <1>6, <2>1
  <2>3. j \in 1..(n + 1)
      BY <1>1, <1>13
  <2>4. o[j].revision = ((revision + 1) - (n + 1)) + j
      BY <1>4, <1>5, <2>3 DEF Stacked
  <2> HIDE DEF t
  <2>5. QED
      BY <1>1, <1>13, <2>2, <2>4
<1>15. ASSUME NEW k \in 1..Len(t) PROVE t[k].before = db \/ \E j \in 1..n : t[k] = undo_stack[j]
  <2>1. c + 1 \in 1..(Len(o) + 1) /\ Len(o) \in ((c + 1) - 1)..Len(o) /\ k \in 1..((Len(o) - (c + 1)) + 1)
      BY <1>1, <1>4, <1>13
  <2>2. t[k] = o[((c + 1) + k) - 1]
      BY <1>4, <2>1, PartFacts, Zenon
  <2>3. ((c + 1) + k) - 1 = c + k /\ c + k \in 1..(n + 1)
      BY <1>1, <1>13
  <2> HIDE DEF t
  <2>4. CASE c + k = n + 1
      BY <1>2, <1>4, <2>2, <2>3, <2>4
  <2>5. CASE c + k # n + 1
    <3>1. c + k \in 1..n
        BY <1>1, <2>3, <2>5
    <3>2. QED
        BY <1>4, <2>2, <2>3, <3>1
  <2>6. QED
      BY <2>4, <2>5
<1>16. AfterCommit(lib) = t
    BY <1>11 DEF c
<1>17. Stacked(t, revision + 1)
    BY <1>12 DEF c
<1> HIDE DEF t
<1>18. QED
    BY <1>13, <1>14, <1>15, <1>16, <1>17 DEF n

\* Only blocks are written to the log.
LEMMA LogFacts ==
    ASSUME fork_db \in ForkDbs, block_log \in Seq(Blocks), NEW lib \in Nat, WriteLog(lib)
    PROVE  block_log' \in Seq(Blocks)
<1> DEFINE a == Len(block_log)
           F == Found(lib)
           c == Cardinality(F)
           s == [i \in 1..c |-> Lookup(a + i)]
<1>1. a \in Nat
    OBVIOUS
<1>2. F = {n \in (a + 1)..lib : \A m \in (a + 1)..n : Lookup(m) # Genesis}
    BY DEF Found, Missing
<1>3. block_log' = block_log \o s
    BY DEF WriteLog
<1> HIDE DEF F, a
<1>4. F \in SUBSET ((a + 1)..lib) /\ \A k \in F : \A j \in (a + 1)..k : j \in F
    BY <1>1, <1>2
<1>5. c \in Nat /\ F = (a + 1)..(a + c)
    BY <1>1, <1>4, FromTheStart
<1> HIDE DEF c
<1>6. ASSUME NEW i \in 1..c PROVE Lookup(a + i) \in Blocks
  <2>1. a + i \in Nat /\ a + i > 0 /\ a + i \in F /\ a + i \in (a + 1)..(a + i)
      BY <1>1, <1>5
  <2>2. Lookup(a + i) # Genesis
      BY <1>2, <2>1
  <2>3. QED
      BY <2>1, <2>2, LookupIsBlock
<1>7. s \in Seq(Blocks)
  <2>1. s \in [1..c -> Blocks]
      BY <1>6
  <2>2. QED
      BY <1>5, <2>1
<1> HIDE DEF s
<1>8. QED
    BY <1>3, <1>7, ConcatProperties

\* The state after a block that the head is the parent of.
LEMMA NewStateFacts ==
    ASSUME SeveralConfirm, Tables, NEW b \in Blocks, Accepted(b)
    PROVE  LET new == WithBlock(db, b) IN
           /\ new = Replay[b] /\ new.head = b /\ new.lib \in Nat /\ new.lib <= revision
           /\ Num(b) = revision + 1 /\ (Num(b) - new.lib) + 1 \in Nat
<1> DEFINE new == WithBlock(db, b)
<1>1. Parent(b) = db.head
    BY DEF Accepted
<1>2. new = Replay[b]
    BY <1>1, ReplayStep DEF Tables
<1>3. Proper(new) /\ new.head = b
    BY <1>1, StateFacts, WithBlockIsProper
<1> HIDE DEF new
<1>4. Num(b) \in Nat /\ Num(b) > 0 /\ revision = Num(b) - 1 /\ b # Genesis
    BY <1>1, BlockFacts DEF Tables
<1>5. new.lib \in 0..Num(b) /\ new.lib < Num(b)
    BY <1>3, <1>4 DEF Proper
<1>6. new.lib \in Nat /\ new.lib <= revision /\ Num(b) = revision + 1 /\ (Num(b) - new.lib) + 1 \in Nat
    BY <1>4, <1>5
<1>7. QED
    BY <1>2, <1>3, <1>6 DEF new

\* A block that is applied.
LEMMA AppliesHolds ==
    ASSUME SeveralConfirm, IndInv, NEW b \in Blocks, Applies(b)
    PROVE  Tables' /\ fork_db' \in ForkDbs /\ block_log' \in Seq(Blocks)
<1> DEFINE new == WithBlock(db, b)
<1>1. /\ Accepted(b) /\ db' = new /\ undo_stack' = AfterCommit(new.lib) /\ revision' = revision + 1
      /\ WriteLog(new.lib) /\ fork_db' = set_max_size(fork_db, (Num(b) - new.lib) + 1)
    BY DEF Applies
<1>2. /\ new = Replay[b] /\ new.head = b /\ new.lib \in Nat /\ new.lib <= revision
      /\ Num(b) = revision + 1 /\ (Num(b) - new.lib) + 1 \in Nat
    BY <1>1, NewStateFacts DEF IndInv
<1> HIDE DEF new
<1>3. Stacked(AfterCommit(new.lib), revision + 1)
    BY <1>2, CommitFacts DEF IndInv
<1>4. b \in Chains /\ db'.head = b /\ db' = Replay[b]
    BY <1>1, <1>2 DEF Chains
<1>5. Tables'
  <2>1. revision' = Num(db'.head) /\ Stacked(undo_stack', revision')
      BY <1>1, <1>2, <1>3, <1>4
  <2>2. QED
      BY <1>4, <2>1 DEF Tables
<1>6. fork_db' \in ForkDbs
    BY <1>1, <1>2, ForkDbFacts DEF IndInv
<1>7. block_log' \in Seq(Blocks)
    BY <1>1, <1>2, LogFacts DEF IndInv
<1>8. QED
    BY <1>5, <1>6, <1>7

\* A block that is rejected: the session is undone, because its revision
\* was not committed.
LEMMA RejectsHolds ==
    ASSUME SeveralConfirm, IndInv, NEW b \in Blocks, Rejects(b)
    PROVE  Tables' /\ ForkDbAfterReject(b) \in ForkDbs /\ block_log' \in Seq(Blocks)
<1> DEFINE new == WithBlock(db, b)
<1>0. Tables /\ fork_db \in ForkDbs /\ block_log \in Seq(Blocks)
    BY DEF IndInv
<1>1. CASE ~Accepted(b) /\ UNCHANGED <<db, undo_stack, revision, block_log>>
  <2>1. ForkDbAfterReject(b) = fork_db
      BY <1>1 DEF ForkDbAfterReject
  <2>2. Tables'
      BY <1>0, <1>1 DEF Tables
  <2>3. QED
      BY <1>0, <1>1, <2>1, <2>2
<1>2. CASE Accepted(b) /\ WriteLog(new.lib) /\ EndSession(b, new)
  <2>1. /\ new.lib \in Nat /\ new.lib <= revision /\ (Num(b) - new.lib) + 1 \in Nat
      BY <1>0, <1>2, NewStateFacts
  <2>2. ForkDbAfterReject(b) \in ForkDbs
    <3>1. set_max_size(fork_db, (Num(b) - new.lib) + 1) \in ForkDbs
        BY <1>0, <2>1, ForkDbFacts
    <3>2. QED
        BY <1>0, <3>1 DEF ForkDbAfterReject
  <2> HIDE DEF new
  <2> DEFINE s == AfterCommit(new.lib)
  <2>3. Stacked(s, revision + 1) /\ Len(s) > 0
      BY <1>0, <2>1, CommitFacts
  <2>4. s # <<>>
      BY <2>3
  <2>5. db' = db /\ undo_stack' = SubSeq(s, 1, Len(s) - 1) /\ revision' = revision
      BY <1>2, <2>4 DEF EndSession
  <2> HIDE DEF s
  <2>6. Stacked(SubSeq(s, 1, Len(s) - 1), (revision + 1) - 1)
    <3>1. Len(s) \in Nat /\ 0 \in 0..Len(s)
        BY <2>3 DEF Stacked
    <3>2. QED
        BY <2>3, <3>1, StackedParts
  <2>7. (revision + 1) - 1 = revision
      BY <1>0, StateFacts
  <2>8. Tables'
      BY <1>0, <2>5, <2>6, <2>7 DEF Tables
  <2>9. block_log' \in Seq(Blocks)
      BY <1>0, <1>2, <2>1, LogFacts
  <2>10. QED
      BY <2>2, <2>8, <2>9
<1>3. QED
    BY <1>1, <1>2 DEF Rejects

\* A push that decides what to do.
LEMMA PushHolds ==
    ASSUME SeveralConfirm, IndInv, NEW b \in Blocks, PushBlock(b)
    PROVE  IndInv'
<1> DEFINE pushed == push_block(fork_db, b)
           new_head == pushed.head
           start == BranchStart(new_head, db.head)
           todo == [first |-> Branch(new_head, start), second |-> Branch(db.head, start)]
           Begun(pc, t) == [pc |-> pc, outcome |-> "none", start |-> db, block |-> b, todo |-> t]
<1>0. Tables /\ fork_db \in ForkDbs /\ block_log \in Seq(Blocks) /\ db \in States /\ b \in Chains
    BY StateFacts DEF IndInv, Chains
<1>1. UNCHANGED <<db, undo_stack, revision, block_log>>
    BY DEF PushBlock
<1>2. Tables' /\ block_log' \in Seq(Blocks)
    BY <1>0, <1>1 DEF Tables
<1>3. pushed \in ForkDbs /\ new_head \in Blocks
    BY <1>0, ForkDbFacts, 0 \in Nat
<1>4. fork_db' \in {fork_db, pushed}
    BY DEF PushBlock
<1>5. fork_db' \in ForkDbs
    BY <1>0, <1>3, <1>4
<1>6. \/ task' = Idle("failed", db, b)
      \/ task' = Idle("ok", db, b)
      \/ task' = Begun("apply", NoBranches)
      \/ /\ Num(new_head) > Num(db.head)
         /\ CanFetchBranches(pushed, new_head, db.head)
         /\ task' = Begun("pop", todo)
    BY DEF PushBlock
<1> HIDE DEF start
<1>7. Busy(task')
  <2>1. CASE task' = Idle("failed", db, b) \/ task' = Idle("ok", db, b)
      BY <1>0, <2>1, IdleIsBusy DEF Outcomes
  <2>2. CASE task' = Begun("apply", NoBranches)
    <3>1. NoBranches \in Branches
        BY DEF NoBranches, Branches
    <3>2. task' \in Tasks /\ task'.pc = "apply" /\ task'.block = b
        BY <1>0, <2>2, <3>1 DEF Tasks, Pcs, Outcomes
    <3>3. QED
        BY <3>2 DEF Busy
  <2>3. CASE Num(new_head) > Num(db.head) /\ CanFetchBranches(pushed, new_head, db.head) /\ task' = Begun("pop", todo)
    <3>1. db.head \in Blocks
        BY <1>3, <2>3 DEF CanFetchBranches, ForkDbs
    <3>2. /\ todo.first \in Seq(Blocks) /\ todo.first # <<>>
          /\ todo.second \in Seq(Blocks) /\ todo.second # <<>>
          /\ todo = [first |-> todo.first, second |-> todo.second]
      <4>1. Num(db.head) \in Nat /\ Num(new_head) \in Nat
          BY <1>3, <3>1, BlockFacts
      <4>2. start \in 1..Num(db.head)
          BY <1>3, <2>3, <3>1, BranchStartFacts DEF start
      <4>3. start \in 1..Num(new_head)
          BY <2>3, <4>1, <4>2
      <4>4. QED
          BY <1>3, <3>1, <4>2, <4>3, BranchIs
    <3> HIDE DEF todo
    <3>3. todo \in Branches
        BY <3>2 DEF Branches
    <3>4. task' \in Tasks /\ task'.pc = "pop" /\ task'.todo = todo
        BY <1>0, <2>3, <3>3 DEF Tasks, Pcs, Outcomes
    <3>5. QED
        BY <3>2, <3>4 DEF Busy
  <2>4. QED
      BY <1>6, <2>1, <2>2, <2>3
<1>8. QED
    BY <1>2, <1>5, <1>7 DEF IndInv

\* A task that ends.
LEMMA EndsHolds ==
    ASSUME Busy(task), NEW outcome \in Outcomes, Ends(outcome)
    PROVE  Busy(task')
<1>1. task.start \in States /\ task.block \in Chains
    BY DEF Busy, Tasks
<1>2. QED
    BY <1>1, IdleIsBusy DEF Ends

\* Applying a block on top of the head.
LEMMA ApplyHolds ==
    ASSUME SeveralConfirm, IndInv, ApplyBlock
    PROVE  IndInv'
<1>0. Busy(task) /\ task.block \in Blocks
    BY DEF IndInv, ApplyBlock, Busy
<1>1. CASE Applies(task.block) /\ Ends("ok")
    BY <1>0, <1>1, AppliesHolds, EndsHolds DEF IndInv, Outcomes
<1>2. CASE /\ Rejects(task.block) /\ Ends("failed")
           /\ fork_db' = remove(ForkDbAfterReject(task.block), task.block)
  <2>1. Tables' /\ ForkDbAfterReject(task.block) \in ForkDbs /\ block_log' \in Seq(Blocks)
      BY <1>0, <1>2, RejectsHolds
  <2>2. fork_db' \in ForkDbs
      BY <1>2, <2>1, WithoutItemsFacts DEF remove
  <2>3. Busy(task')
      BY <1>0, <1>2, EndsHolds DEF Outcomes
  <2>4. QED
      BY <2>1, <2>2, <2>3 DEF IndInv
<1>3. QED
    BY <1>1, <1>2 DEF ApplyBlock

\* Popping blocks: the last revision is the one of the head.
LEMMA PopHolds ==
    ASSUME SeveralConfirm, IndInv, PopTowardsFork
    PROVE  IndInv'
<1>0. Tables /\ fork_db \in ForkDbs /\ block_log \in Seq(Blocks) /\ Busy(task)
    BY DEF IndInv
<1>1. CASE PopBlock /\ UNCHANGED task
  <2>1. fork_db' \in ForkDbs
    <3>1. fork_db.head # Genesis /\ fork_db' = pop_block(fork_db) /\ db.head # Genesis
        BY <1>1 DEF PopBlock, CanPopBlock, CanPop
    <3>2. db.head \in Blocks
        BY <1>0, <3>1 DEF Tables, Chains
    <3>3. QED
        BY <1>0, <3>1, <3>2, ForkDbFacts, 0 \in Nat
  <2>2. block_log' = block_log /\ Busy(task')
      BY <1>0, <1>1 DEF PopBlock
  <2>3. CASE undo_stack = <<>>
    <3>1. UNCHANGED <<db, undo_stack, revision>>
        BY <1>1, <2>3 DEF PopBlock
    <3>2. Tables'
        BY <1>0, <3>1 DEF Tables
    <3>3. QED
        BY <1>0, <2>1, <2>2, <3>2 DEF IndInv
  <2>4. CASE undo_stack # <<>>
    <3> DEFINE n == Len(undo_stack)
               d == undo_stack[n].before
    <3>1. db' = d /\ undo_stack' = SubSeq(undo_stack, 1, n - 1) /\ revision' = revision - 1
        BY <1>1, <2>4 DEF PopBlock
    <3>2. Stacked(undo_stack, revision) /\ n \in Nat /\ n > 0 /\ revision \in Nat
        BY <1>0, <2>4 DEF Tables, Stacked
    <3>3. Num(d.head) = (revision - n) + n - 1
        BY <3>2 DEF Stacked
    <3>4. n \in 1..Len(undo_stack) /\ (revision - n) + n - 1 = revision - 1
        BY <3>2
    <3>5. d.head \in Chains /\ d = Replay[d.head]
        BY <1>0, <3>4, StateFacts
    <3>6. Stacked(SubSeq(undo_stack, 1, n - 1), revision - 1)
      <4>1. 0 \in 0..Len(undo_stack)
          BY <3>2
      <4>2. QED
          BY <3>2, <4>1, StackedParts
    <3> HIDE DEF d, n
    <3>7. Tables'
        BY <3>1, <3>3, <3>4, <3>5, <3>6 DEF Tables
    <3>8. QED
        BY <1>0, <2>1, <2>2, <3>7 DEF IndInv
  <2>5. QED
      BY <2>3, <2>4
<1>2. CASE ~CanPopBlock /\ Ends("failed") /\ UNCHANGED <<db, undo_stack, revision, fork_db, block_log>>
  <2>1. Tables'
      BY <1>0, <1>2 DEF Tables
  <2>2. Busy(task')
      BY <1>0, <1>2, EndsHolds DEF Outcomes
  <2>3. QED
      BY <1>0, <1>2, <2>1, <2>2 DEF IndInv
<1>3. QED
    BY <1>1, <1>2 DEF PopTowardsFork

\* At the fork point.
LEMMA AtForkPointHolds ==
    ASSUME SeveralConfirm, IndInv, AtForkPoint
    PROVE  IndInv'
<1>0. Tables /\ fork_db \in ForkDbs /\ block_log \in Seq(Blocks) /\ Busy(task)
    BY DEF IndInv
<1>1. Tables' /\ fork_db' = fork_db /\ block_log' = block_log
    BY <1>0 DEF AtForkPoint, Tables
<1> DEFINE q == IF task.pc = "pop" THEN "push" ELSE "restore"
<1>2. task.pc \in {"pop", "unwind"} /\ task' = [task EXCEPT !.pc = q]
    BY DEF AtForkPoint
<1>3. q \in Pcs /\ (q = "push" => task.pc = "pop") /\ q \in {"push", "restore"}
    BY DEF Pcs
<1> HIDE DEF q
<1>4. task \in Tasks
    BY <1>0 DEF Busy
<1>5. task' \in Tasks /\ task'.pc = q /\ task'.todo = task.todo
    BY <1>2, <1>3, <1>4 DEF Tasks
<1>6. Busy(task')
    BY <1>0, <1>2, <1>3, <1>5 DEF Busy
<1>7. QED
    BY <1>0, <1>1, <1>6 DEF IndInv

\* A sequence that is not empty has a first element, and a rest when it has
\* more than that.
LEMMA FirstAndRest ==
    ASSUME NEW s \in Seq(Blocks), s # <<>>
    PROVE  /\ s[1] \in Blocks /\ s[Len(s)] \in Blocks
           /\ Len(s) # 1 => Tail(s) \in Seq(Blocks) /\ Tail(s) # <<>>
<1>1. Len(s) \in Nat /\ Len(s) > 0
    OBVIOUS
<1>2. s[1] \in Blocks /\ s[Len(s)] \in Blocks
    BY <1>1
<1>3. ASSUME Len(s) # 1 PROVE Tail(s) \in Seq(Blocks) /\ Tail(s) # <<>>
  <2> DEFINE t == Tail(s)
  <2>1. t \in Seq(Blocks) /\ Len(t) = Len(s) - 1
      BY HeadTailProperties
  <2> HIDE DEF t
  <2>2. Len(t) # 0
      BY <1>1, <1>3, <2>1
  <2>3. t # <<>>
      BY <2>1, <2>2
  <2>4. QED
      BY <2>1, <2>3 DEF t
<1>4. QED
    BY <1>2, <1>3

\* The blocks of the new fork.
LEMMA PushForkHolds ==
    ASSUME SeveralConfirm, IndInv, PushForkBlock
    PROVE  IndInv'
<1> DEFINE first == task.todo.first
           second == task.todo.second
           b == first[1]
           bad == {first[i] : i \in 1..Len(first)}
           front == second[Len(second)]
<1>0. Tables /\ fork_db \in ForkDbs /\ block_log \in Seq(Blocks) /\ Busy(task) /\ task \in Tasks
    BY DEF IndInv, Busy
<1>1. task.pc = "push" /\ task.todo \in Branches
    BY <1>0 DEF PushForkBlock, Tasks
<1>2. first \in Seq(Blocks) /\ first # <<>> /\ second \in Seq(Blocks) /\ second # <<>>
    BY <1>0, <1>1 DEF Busy, Branches
<1>3. b \in Blocks /\ front \in Blocks /\ (Len(first) # 1 => Tail(first) \in Seq(Blocks) /\ Tail(first) # <<>>)
    BY <1>2, FirstAndRest
<1>4. ASSUME NEW pc \in Pcs, NEW s \in Seq(Blocks), task' = [task EXCEPT !.pc = pc, !.todo.first = s],
             (pc = "push" /\ s # <<>>) \/ pc = "unwind"
      PROVE  Busy(task')
  <2> DEFINE todo == [task.todo EXCEPT !.first = s]
  <2>1. todo \in Branches /\ todo.first = s /\ todo.second = second
      BY <1>1 DEF Branches
  <2>2. task' = [task EXCEPT !.pc = pc, !.todo = todo]
      BY <1>0, <1>4 DEF Tasks
  <2> HIDE DEF todo
  <2>3. task' \in Tasks /\ task'.pc = pc /\ task'.todo = todo
      BY <1>0, <2>1, <2>2 DEF Tasks
  <2> HIDE DEF second
  <2>4. QED
      BY <1>2, <1>4, <2>1, <2>3 DEF Busy
<1>5. CASE /\ Applies(b)
           /\ IF Len(first) = 1 THEN Ends("ok")
              ELSE task' = [task EXCEPT !.todo.first = Tail(first)]
  <2>1. Tables' /\ fork_db' \in ForkDbs /\ block_log' \in Seq(Blocks)
      BY <1>3, <1>5, AppliesHolds
  <2>2. Busy(task')
    <3>1. CASE Len(first) = 1
        BY <1>0, <1>5, <3>1, EndsHolds DEF Outcomes
    <3>2. CASE Len(first) # 1
      <4>1. task' = [task EXCEPT !.pc = "push", !.todo.first = Tail(first)]
          BY <1>0, <1>1, <1>5, <3>2 DEF Tasks
      <4>2. QED
          BY <1>3, <1>4, <3>2, <4>1 DEF Pcs
    <3>3. QED
        BY <3>1, <3>2
  <2>3. QED
      BY <2>1, <2>2 DEF IndInv
<1>6. CASE /\ Rejects(b)
           /\ fork_db' = set_head(WithoutItems(ForkDbAfterReject(b), bad \cap fork_db.index), front)
           /\ task' = [task EXCEPT !.pc = "unwind", !.todo.first = <<>>]
  <2>1. Tables' /\ ForkDbAfterReject(b) \in ForkDbs /\ block_log' \in Seq(Blocks)
      BY <1>3, <1>6, RejectsHolds
  <2>2. fork_db' \in ForkDbs
      BY <1>3, <1>6, <2>1, WithoutItemsFacts, ForkDbFacts, 0 \in Nat
  <2>3. Busy(task')
    <3>1. "unwind" \in Pcs /\ <<>> \in Seq(Blocks)
        BY DEF Pcs
    <3>2. QED
        BY <1>4, <1>6, <3>1
  <2>4. QED
      BY <2>1, <2>2, <2>3 DEF IndInv
<1>7. QED
    BY <1>5, <1>6 DEF PushForkBlock

\* The blocks of the old chain.
LEMMA RestoreHolds ==
    ASSUME SeveralConfirm, IndInv, RestoreBlock
    PROVE  IndInv'
<1> DEFINE second == task.todo.second
<1>0. Busy(task) /\ task \in Tasks
    BY DEF IndInv, Busy
<1>1. task.pc = "restore" /\ task.todo \in Branches
    BY <1>0 DEF RestoreBlock, Tasks
<1>2. second \in Seq(Blocks) /\ second # <<>>
    BY <1>0, <1>1 DEF Busy, Branches
<1>3. second[1] \in Blocks /\ (Len(second) # 1 => Tail(second) \in Seq(Blocks) /\ Tail(second) # <<>>)
    BY <1>2, FirstAndRest
<1>4. /\ Applies(second[1])
      /\ IF Len(second) = 1 THEN Ends("failed")
         ELSE task' = [task EXCEPT !.todo.second = Tail(second)]
    BY DEF RestoreBlock
<1>5. Tables' /\ fork_db' \in ForkDbs /\ block_log' \in Seq(Blocks)
    BY <1>3, <1>4, AppliesHolds
<1>6. Busy(task')
  <2>1. CASE Len(second) = 1
      BY <1>0, <1>4, <2>1, EndsHolds DEF Outcomes
  <2>2. CASE Len(second) # 1
    <3> DEFINE s == Tail(second)
               todo == [task.todo EXCEPT !.second = s]
    <3>1. s \in Seq(Blocks) /\ s # <<>> /\ task' = [task EXCEPT !.todo.second = s]
        BY <1>3, <1>4, <2>2
    <3> HIDE DEF s
    <3>2. todo \in Branches /\ todo.second = s
        BY <1>1, <3>1 DEF Branches
    <3>3. task' = [task EXCEPT !.todo = todo]
        BY <1>0, <3>1 DEF Tasks
    <3> HIDE DEF todo
    <3>4. task' \in Tasks /\ task'.pc = "restore" /\ task'.todo = todo
        BY <1>0, <1>1, <3>2, <3>3 DEF Tasks
    <3>5. QED
        BY <3>1, <3>2, <3>4 DEF Busy
  <2>3. QED
      BY <2>1, <2>2
<1>7. QED
    BY <1>5, <1>6 DEF IndInv

\* Starting on a state that replay gives.
LEMMA StartHolds ==
    ASSUME SeveralConfirm, NEW d, d.head \in Chains, d = Replay[d.head], NEW m \in Nat,
           Start(d, m), block_log' \in Seq(Blocks)
    PROVE  IndInv'
<1>1. db' = d /\ undo_stack' = <<>> /\ revision' = Num(d.head) /\ task' = Idle("none", d, Genesis)
    BY DEF Start
<1>2. Num(d.head) \in Nat
    BY ChainFacts
<1>3. Stacked(<<>>, Num(d.head))
    BY <1>2 DEF Stacked
<1>4. Tables'
    BY <1>1, <1>3 DEF Tables
<1>5. Busy(task')
  <2>1. d \in States /\ Genesis \in Chains
      BY DEF States, Chains
  <2>2. QED
      BY <1>1, <2>1, IdleIsBusy DEF Outcomes
<1>6. fork_db' \in ForkDbs
  <2> DEFINE f == [EmptyForkDb EXCEPT !.max_size = m]
  <2>1. f \in ForkDbs
    <3>1. EmptyForkDb \in ForkDbs
        BY DEF EmptyForkDb, ForkDbs, MaxBlockReordering, Chains
    <3>2. QED
        BY <3>1 DEF ForkDbs
  <2>2. fork_db' = IF d.head = Genesis THEN f ELSE start_block(f, d.head)
      BY DEF Start
  <2> HIDE DEF f
  <2>3. d.head # Genesis => start_block(f, d.head) \in ForkDbs
      BY <2>1, ForkDbFacts, 0 \in Nat DEF Chains
  <2>4. QED
      BY <2>1, <2>2, <2>3
<1>7. QED
    BY <1>4, <1>5, <1>6 DEF IndInv

\* The state that undoing every revision of a stack gives, and its revision.
LEMMA RewoundFacts ==
    ASSUME SeveralConfirm, NEW d, NEW s, NEW r, Stacked(s, r),
           s = <<>> => d.head \in Chains /\ d = Replay[d.head] /\ r = Num(d.head)
    PROVE  /\ Oldest(d, s).head \in Chains /\ Oldest(d, s) = Replay[Oldest(d, s).head]
           /\ r - Len(s) = Num(Oldest(d, s).head)
<1> DEFINE n == Len(s)
<1>1. /\ n \in Nat /\ r \in Nat /\ s \in Seq(Revision)
      /\ \A k \in 1..n : Num(s[k].before.head) = (r - n) + k - 1
    BY DEF Stacked
<1>2. CASE s = <<>>
  <2>1. n = 0 /\ Oldest(d, s) = d
      BY <1>2 DEF Oldest
  <2> HIDE DEF n
  <2>2. r - n = r
      BY <1>1, <2>1
  <2>3. QED
      BY <1>1, <1>2, <2>1, <2>2 DEF n
<1>3. CASE s # <<>>
  <2>1. 1 \in 1..n
      BY <1>1, <1>3
  <2>2. Oldest(d, s) = s[1].before
      BY <1>3 DEF Oldest
  <2>3. s[1].before \in States
    <3>1. s[1] \in Revision
        BY <1>1, <2>1
    <3>2. QED
        BY <3>1 DEF Revision
  <2>4. Oldest(d, s).head \in Chains /\ Oldest(d, s) = Replay[Oldest(d, s).head]
    <3>1. PICK b \in Chains : s[1].before = Replay[b]
        BY <2>3 DEF States
    <3>2. Replay[b].head = b
        BY ReplayIsProper
    <3>3. QED
        BY <2>2, <3>1, <3>2
  <2>5. Num(Oldest(d, s).head) = (r - n) + 1 - 1
      BY <1>1, <2>1, <2>2, Zenon
  <2> HIDE DEF n
  <2>6. (r - n) + 1 - 1 = r - n
      BY <1>1
  <2>7. QED
      BY <2>4, <2>5, <2>6 DEF n
<1>4. QED
    BY <1>2, <1>3

\* A start on a stack of states and on a log.
LEMMA ReopenHolds ==
    ASSUME SeveralConfirm, NEW d, NEW s, NEW r, NEW log \in Seq(Blocks), block_log' = log, Reopen(d, s, r, log),
           Oldest(d, s).head \in Chains, Oldest(d, s) = Replay[Oldest(d, s).head]
    PROVE  IndInv'
<1>1. MaxBlockReordering \in Nat
    BY DEF MaxBlockReordering
<1>2. CASE Start(Oldest(d, s), MaxBlockReordering)
    BY <1>1, <1>2, StartHolds
<1>3. CASE Reindex(log)
  <2>1. CASE log = <<>>
    <3>1. GenesisState.head = Genesis /\ Genesis \in Chains /\ GenesisState = Replay[Genesis]
        BY ReplayStep DEF GenesisState, Chains
    <3>2. Start(GenesisState, MaxBlockReordering)
        BY <1>3, <2>1 DEF Reindex
    <3>3. QED
        BY <1>1, <3>1, <3>2, StartHolds
  <2>2. CASE log # <<>>
    <3> DEFINE b == log[Len(log)]
               e == Replay[b]
    <3>1. b \in Blocks
        BY <2>2, FirstAndRest
    <3>2. Start(e, (Num(e.head) - e.lib) + 1)
        BY <1>3, <2>2 DEF Reindex
    <3> HIDE DEF b
    <3>3. Proper(e) /\ e.head = b /\ b \in Chains
        BY <3>1, ReplayIsProper DEF Chains
    <3>4. e.head \in Chains /\ e = Replay[e.head]
        BY <3>3
    <3>5. (Num(e.head) - e.lib) + 1 \in Nat
      <4>1. Num(e.head) \in Nat /\ e.lib \in 0..Num(e.head)
          BY <3>3, ChainFacts DEF Proper
      <4> HIDE DEF e
      <4>2. QED
          BY <4>1
    <3> HIDE DEF e
    <3>6. QED
        BY <3>2, <3>4, <3>5, StartHolds
  <2>3. QED
      BY <2>1, <2>2
<1>4. QED
    BY <1>2, <1>3 DEF Reopen

\* A stop and the start after it.
LEMMA StopHolds ==
    ASSUME SeveralConfirm, IndInv, StopAndOpen
    PROVE  IndInv'
<1>1. /\ Tables /\ block_log \in Seq(Blocks) /\ block_log' = block_log
      /\ Reopen(db, undo_stack, revision, block_log)
    BY DEF IndInv, StopAndOpen
<1>2. Oldest(db, undo_stack).head \in Chains /\ Oldest(db, undo_stack) = Replay[Oldest(db, undo_stack).head]
    BY <1>1, RewoundFacts DEF Tables
<1>3. QED
    BY <1>1, <1>2, ReopenHolds

\* A stop while a block is applied: its revision is not committed, so open()
\* undoes the unfinished block.
LEMMA StopInBlockHolds ==
    ASSUME SeveralConfirm, IndInv, StopInBlock
    PROVE  IndInv'
<1>1. PICK b \in Applying :
        LET new == WithBlock(db, b) IN
        /\ Accepted(b) /\ \E written \in 0..new.lib : WriteLog(written)
        /\ Reopen([new EXCEPT !.whole = FALSE], AfterCommit(new.lib), revision + 1, block_log')
    BY DEF StopInBlock
<1> DEFINE new == WithBlock(db, b)
           d == [new EXCEPT !.whole = FALSE]
           u == AfterCommit(new.lib)
<1>2. b \in Blocks /\ Tables /\ fork_db \in ForkDbs /\ block_log \in Seq(Blocks)
    BY DEF Applying, IndInv
<1>3. new.lib \in Nat /\ new.lib <= revision
    BY <1>1, <1>2, NewStateFacts
<1>4. PICK written \in 0..new.lib : WriteLog(written)
    BY <1>1
<1>5. Reopen(d, u, revision + 1, block_log')
    BY <1>1
<1> HIDE DEF new, d
<1>6. written \in Nat
    BY <1>3
<1>7. block_log' \in Seq(Blocks)
    BY <1>2, <1>4, <1>6, LogFacts
<1>8. Stacked(u, revision + 1) /\ u # <<>>
    BY <1>2, <1>3, CommitFacts
<1> HIDE DEF u
<1>9. Oldest(d, u).head \in Chains /\ Oldest(d, u) = Replay[Oldest(d, u).head]
    BY <1>8, RewoundFacts
<1>10. QED
    BY <1>5, <1>7, <1>9, ReopenHolds

\* The start.
LEMMA InitHolds ==
    ASSUME SeveralConfirm, Init
    PROVE  IndInv
<1>0. Root \in Chains
    BY ChainDbAssumption DEF Chains
<1>1. Replay[Root].head = Root /\ Num(Root) \in Nat /\ Replay[Root] \in States
    BY <1>0, ReplayIsProper, ChainFacts DEF States
<1>2. Tables
  <2>1. Stacked(<<>>, Num(Root))
      BY <1>1 DEF Stacked
  <2>2. QED
      BY <1>0, <1>1, <2>1 DEF Init, Tables
<1>3. fork_db \in ForkDbs
  <2>1. EmptyForkDb \in ForkDbs
      BY DEF EmptyForkDb, ForkDbs, MaxBlockReordering, Chains
  <2>2. QED
      BY <1>0, <2>1, ForkDbFacts, 0 \in Nat DEF Init, Chains
<1>4. block_log \in Seq(Blocks)
  <2> DEFINE n == Num(Root)
  <2>1. block_log = [i \in 1..n |-> Ancestor(Root, i)]
      BY DEF Init, LogOf
  <2>2. \A i \in 1..n : Ancestor(Root, i) \in Blocks
      BY <1>0, AncestorsAreBlocks
  <2> HIDE DEF n
  <2>3. block_log \in [1..n -> Blocks] /\ n \in Nat
      BY <1>1, <2>1, <2>2 DEF n
  <2>4. QED
      BY <2>3
<1>5. Busy(task)
  <2>1. Genesis \in Chains /\ "none" \in Outcomes
      BY DEF Chains, Outcomes
  <2>2. QED
      BY <1>1, <2>1, IdleIsBusy DEF Init
<1>6. QED
    BY <1>2, <1>3, <1>4, <1>5 DEF IndInv

\* Every step keeps the invariant.
LEMMA StepHolds ==
    ASSUME SeveralConfirm, IndInv, [Next]_vars
    PROVE  IndInv'
<1>1. CASE UNCHANGED vars
    BY <1>1 DEF vars, IndInv, Tables
<1>2. ASSUME NEW b \in Blocks, PushBlock(b) PROVE IndInv'
    BY <1>2, PushHolds
<1>3. CASE Handler
    BY <1>3, ApplyHolds, PopHolds, AtForkPointHolds, PushForkHolds, RestoreHolds DEF Handler
<1>4. CASE StopAndOpen
    BY <1>4, StopHolds
<1>5. CASE StopInBlock
    BY <1>5, StopInBlockHolds
<1>6. QED
    BY <1>1, <1>2, <1>3, <1>4, <1>5 DEF Next

\* When several witnesses have to confirm a block, the state of the node and
\* every state it can undo to are the ones that a replay of their chains
\* gives: whatever blocks, valid or not, arrive in whatever order, wherever
\* a switch of forks fails and wherever the process stops.
THEOREM StateIsTheReplay == ASSUME SeveralConfirm PROVE Spec => []StateIsReplay
<1>0. SeveralConfirm
    OBVIOUS
<1>1. Init => IndInv
    BY <1>0, InitHolds
<1>2. IndInv /\ [Next]_vars => IndInv'
    BY <1>0, StepHolds
<1>3. IndInv => StateIsReplay
    BY <1>0, StateFacts DEF IndInv, Tables, StateIsReplay
<1>4. QED
    BY <1>1, <1>2, <1>3, PTL DEF Spec

\* open() undoes every revision and then asserts that the revision is the
\* number of the head block: it is, when the process stopped between blocks
\* and when it stopped in one, after commit().
RevisionIsHeadNumber ==
    /\ revision - Len(undo_stack) = Num(Rewound.head)
    /\ \A b \in Blocks : Accepted(b) =>
         LET new == WithBlock(db, b)
             u   == AfterCommit(new.lib)
         IN (revision + 1) - Len(u) = Num(Oldest(new, u).head)

\* The assertion of open() on the revision never fails.
THEOREM OpenFindsItsRevision == ASSUME SeveralConfirm PROVE Spec => []RevisionIsHeadNumber
<1>0. SeveralConfirm
    OBVIOUS
<1>1. Init => IndInv
    BY <1>0, InitHolds
<1>2. IndInv /\ [Next]_vars => IndInv'
    BY <1>0, StepHolds
<1>3. IndInv => RevisionIsHeadNumber
  <2> SUFFICES ASSUME IndInv PROVE RevisionIsHeadNumber
      OBVIOUS
  <2>1. Tables
      BY DEF IndInv
  <2>2. revision - Len(undo_stack) = Num(Rewound.head)
      BY <2>1, RewoundFacts DEF Tables, Rewound
  <2>3. ASSUME NEW b \in Blocks, Accepted(b)
        PROVE  LET new == WithBlock(db, b)
                   u   == AfterCommit(new.lib)
               IN (revision + 1) - Len(u) = Num(Oldest(new, u).head)
    <3> DEFINE new == WithBlock(db, b)
               u   == AfterCommit(new.lib)
    <3>1. new.lib \in Nat /\ new.lib <= revision
        BY <1>0, <2>1, <2>3, NewStateFacts
    <3> HIDE DEF new
    <3>2. Stacked(u, revision + 1) /\ u # <<>>
        BY <1>0, <2>1, <3>1, CommitFacts
    <3> HIDE DEF u
    <3>3. (revision + 1) - Len(u) = Num(Oldest(new, u).head)
        BY <3>2, RewoundFacts
    <3>4. QED
        BY <3>3 DEF u, new
  <2>4. QED
      BY <2>2, <2>3 DEF RevisionIsHeadNumber
<1>4. QED
    BY <1>1, <1>2, <1>3, PTL DEF Spec
-----------------------------------------------------------------------------
(* The chain and the log.  The states on the stack, the log and the blocks *)
(* that a lookup finds are all on one chain, as long as the fork database  *)
(* has the blocks of that chain from its lowest one on.                    *)

\* The index is finite, and an item that is not lost has its parent in it.
Links(f) ==
    /\ f.head \in Blocks /\ IsFiniteSet(f.index)
    /\ \A b \in f.index \cup {f.head} : b \notin f.lost => Parent(b) \in f.index

\* Pruning takes whole heights: from the lowest block that is left on, the
\* index has the chain of x.
Covers(f, x) ==
    \A c \in f.index : Extends(c, Root) => \A m \in Num(c)..Num(x) : Ancestor(x, m) \in f.index

\* Items leave the index.
LEMMA WithoutKeeps ==
    ASSUME NEW f \in ForkDbs, Links(f), NEW gone
    PROVE  /\ Links(WithoutItems(f, gone)) /\ WithoutItems(f, gone).head = f.head
           /\ WithoutItems(f, gone).index = f.index \ gone
<1> DEFINE left == f.index \ gone
           lost == {b \in left \cup {f.head} : b \in f.lost \/ Parent(b) \in gone}
           g == [f EXCEPT !.index = left, !.lost = lost]
<1>1. WithoutItems(f, gone) = g
    BY DEF WithoutItems
<1>2. g.head = f.head /\ g.index = left /\ g.lost = lost
    BY DEF ForkDbs
<1> HIDE DEF g
<1>3. ASSUME NEW b \in left \cup {f.head}, b \notin lost PROVE Parent(b) \in left
    BY <1>3 DEF Links
<1>4. IsFiniteSet(left)
    BY FS_Subset DEF Links
<1> HIDE DEF left, lost
<1>5. Links(g)
    BY <1>2, <1>3, <1>4 DEF Links
<1>6. QED
    BY <1>1, <1>2, <1>5 DEF left

\* ... and a chain that has none of them stays covered.
LEMMA WithoutCovers ==
    ASSUME NEW f \in ForkDbs, Links(f), NEW gone, RootIsSettled, NEW x \in Chains, Covers(f, x),
           \A m \in 1..Num(x) : Ancestor(x, m) \notin gone
    PROVE  Covers(WithoutItems(f, gone), x)
<1>1. WithoutItems(f, gone).index = f.index \ gone
    BY WithoutKeeps
<1>2. ASSUME NEW c \in f.index \ gone, Extends(c, Root), NEW m \in Num(c)..Num(x)
      PROVE  Ancestor(x, m) \in f.index \ gone
  <2>1. Ancestor(x, m) \in f.index
      BY <1>2 DEF Covers
  <2>2. Num(c) \in Nat /\ Num(c) > 0 /\ Num(x) \in Nat
      BY BlockFacts, ChainFacts DEF ForkDbs
  <2>3. m \in 1..Num(x)
      BY <2>2
  <2>4. QED
      BY <2>1, <2>3
<1>3. QED
    BY <1>1, <1>2 DEF Covers

\* Pruning.
LEMMA PruneKeeps ==
    ASSUME NEW f \in ForkDbs, Links(f), NEW s \in Nat
    PROVE  LET g == set_max_size(f, s) IN
           /\ Links(g) /\ g.head = f.head /\ g.index \subseteq f.index
           /\ \A x \in Chains : Covers(f, x) => Covers(g, x)
<1> DEFINE h == [f EXCEPT !.max_size = s]
           low == Positive(Num(f.head) - s)
           gone == {b \in f.index : Num(b) < low}
           g == set_max_size(f, s)
<1>1. h \in ForkDbs /\ h.head = f.head /\ h.index = f.index /\ h.lost = f.lost
    BY DEF ForkDbs
<1>2. f.head # Genesis /\ f.head \in Blocks
    BY BlockFacts DEF Links
<1>3. g = WithoutItems(h, gone)
    BY <1>2 DEF set_max_size
<1> HIDE DEF h, gone, g
<1>4. Links(h)
    BY <1>1 DEF Links
<1>5. Links(g) /\ g.head = f.head /\ g.index = f.index \ gone
    BY <1>1, <1>3, <1>4, WithoutKeeps
<1>6. ASSUME NEW x \in Chains, Covers(f, x) PROVE Covers(g, x)
  <2>1. low \in Nat
    <3>1. Num(f.head) \in Nat
        BY <1>2, BlockFacts
    <3>2. QED
        BY <3>1 DEF Positive
  <2> HIDE DEF low
  <2>2. ASSUME NEW c \in f.index \ gone, Extends(c, Root), NEW m \in Num(c)..Num(x)
        PROVE  Ancestor(x, m) \in f.index \ gone
    <3>1. Ancestor(x, m) \in f.index
        BY <1>6, <2>2 DEF Covers
    <3>2. Num(c) \in Nat /\ Num(x) \in Nat /\ ~(Num(c) < low)
        BY BlockFacts, ChainFacts DEF ForkDbs, gone
    <3>3. m \in 0..Num(x) /\ m >= low
        BY <2>1, <3>2
    <3>4. Num(Ancestor(x, m)) = m
        BY <3>3, AncestorFacts
    <3>5. QED
        BY <2>1, <3>1, <3>3, <3>4 DEF gone
  <2>3. QED
      BY <1>5, <2>2 DEF Covers
<1>7. QED
    BY <1>5, <1>6 DEF g

\* The head is set.
LEMMA SetHeadKeeps ==
    ASSUME NEW f \in ForkDbs, Links(f), NEW b \in Blocks
    PROVE  /\ Links(set_head(f, b)) /\ set_head(f, b).head = b /\ set_head(f, b).index = f.index
           /\ \A x : Covers(f, x) => Covers(set_head(f, b), x)
<1> DEFINE lost == IF {b, Parent(b)} \cap f.index = {} THEN f.lost \cup {b} ELSE f.lost
           g == [f EXCEPT !.head = b, !.lost = lost]
<1>1. set_head(f, b) = g
    BY DEF set_head
<1>2. g.head = b /\ g.index = f.index /\ g.lost = lost
    BY DEF ForkDbs
<1> HIDE DEF g
<1>3. ASSUME NEW c \in f.index \cup {b}, c \notin lost PROVE Parent(c) \in f.index
  <2>1. CASE c \in f.index
      BY <1>3, <2>1 DEF Links
  <2>2. CASE c \notin f.index
      BY <1>3, <2>2
  <2>3. QED
      BY <2>1, <2>2
<1> HIDE DEF lost
<1>4. Links(g)
    BY <1>2, <1>3 DEF Links
<1>5. \A x : Covers(f, x) => Covers(g, x)
    BY <1>2 DEF Covers
<1>6. QED
    BY <1>1, <1>2, <1>4, <1>5

\* A block is pushed.  The chain of the head was covered from its parent's
\* height on.
LEMMA PushKeeps ==
    ASSUME NEW f \in ForkDbs, Links(f), RootIsSettled, NEW b \in Blocks, b # Root, ~Unlinkable(f, b)
    PROVE  LET g == push_block(f, b) IN
           /\ Links(g) /\ g.index = f.index \cup {b}
           /\ \A x \in Chains : Covers(f, x) => Covers(g, x)
<1> DEFINE new_head == IF f.head = Genesis \/ Num(b) > Num(f.head) THEN b ELSE f.head
           lost == IF b \in f.index THEN f.lost
                   ELSE IF f.head = Genesis \/ Parent(b) = Genesis THEN f.lost \cup {b} ELSE f.lost \ {b}
           g == [f EXCEPT !.index = f.index \cup {b}, !.head = new_head, !.lost = lost]
<1>1. push_block(f, b) = g
    BY DEF push_block
<1>2. g.head = new_head /\ g.index = f.index \cup {b} /\ g.lost = lost
    BY DEF ForkDbs
<1> HIDE DEF g
<1>3. f.head \in Blocks /\ f.head # Genesis
    BY BlockFacts DEF Links
<1>4. new_head \in {b, f.head}
    OBVIOUS
<1>5. ASSUME b \notin f.index, b \notin lost PROVE Parent(b) \in f.index
    BY <1>3, <1>5 DEF Unlinkable
<1>6. ASSUME NEW c \in f.index \cup {b, f.head}, c \notin lost PROVE Parent(c) \in f.index
  <2>1. CASE c = b /\ b \notin f.index
      BY <1>5, <1>6, <2>1
  <2>2. CASE c # b \/ b \in f.index
    <3>1. c \in f.index \cup {f.head} /\ c \notin f.lost
        BY <1>6, <2>2
    <3>2. QED
        BY <3>1 DEF Links
  <2>3. QED
      BY <2>1, <2>2
<1> HIDE DEF lost, new_head
<1>7. Links(g)
  <2>1. g.head \in Blocks /\ IsFiniteSet(g.index)
      BY <1>2, <1>3, <1>4, FS_AddElement DEF Links
  <2>2. QED
      BY <1>2, <1>4, <1>6, <2>1 DEF Links
<1>8. ASSUME NEW x \in Chains, Covers(f, x) PROVE Covers(g, x)
  <2>1. ASSUME NEW c \in f.index \cup {b}, Extends(c, Root), NEW m \in Num(c)..Num(x)
        PROVE  Ancestor(x, m) \in f.index
    <3>1. CASE c \in f.index
        BY <1>8, <2>1, <3>1 DEF Covers
    <3>2. CASE c = b
      <4>1. Root \in Blocks /\ Root \in Chains /\ Num(Root) \in Nat /\ Num(Root) > 0
          BY ChainDbAssumption, BlockFacts DEF RootIsSettled, Chains
      <4>2. Extends(Parent(b), Root)
          BY <2>1, <3>2, <4>1, ChildFacts
      <4>3. Parent(b) \in Chains /\ Num(Parent(b)) >= Num(Root) /\ Num(Parent(b)) = Num(b) - 1 /\ Num(b) \in Nat
          BY <4>2, BlockFacts DEF Extends
      <4>4. Parent(b) # Genesis
          BY <4>1, <4>3, ChainFacts
      <4>5. Parent(b) \in f.index
          BY <1>3, <4>4 DEF Unlinkable
      <4>6. m \in Num(Parent(b))..Num(x)
        <5>1. Num(x) \in Nat
            BY ChainFacts
        <5>2. QED
            BY <3>2, <4>3, <5>1
      <4>7. QED
          BY <1>8, <4>2, <4>5, <4>6 DEF Covers
    <3>3. QED
        BY <3>1, <3>2
  <2>2. QED
      BY <1>2, <2>1 DEF Covers
<1>9. QED
    BY <1>1, <1>2, <1>7, <1>8
\* A block that is found by its number is on the chain of x, when that is
\* covered and agrees with the chain of the fork database's head.
LEMMA LookupOnChain ==
    ASSUME RootIsSettled, fork_db \in ForkDbs, Links(fork_db), NEW x \in Chains, Covers(fork_db, x),
           NEW t \in Chains, Extends(t, fork_db.head), Extends(t, x),
           NEW n \in (Num(Root) + 1)..Num(x), Lookup(n) # Genesis
    PROVE  Lookup(n) = Ancestor(x, n)
<1> DEFINE blocks == {b \in fork_db.index : Num(b) = n}
<1>1. fork_db.index \in SUBSET Blocks /\ fork_db.head \in Chains
    BY DEF ForkDbs
<1>2. /\ Root \in Blocks /\ Num(Root) \in Nat /\ Num(x) \in Nat
      /\ n \in 0..Num(x) /\ n \in Num(Root)..Num(x) /\ n > Num(Root)
  <2>1. Root \in Blocks
      BY ChainDbAssumption DEF RootIsSettled
  <2>2. Num(Root) \in Nat /\ Num(x) \in Nat
      BY <2>1, BlockFacts, ChainFacts
  <2>3. QED
      BY <2>1, <2>2
<1>3. CASE Cardinality(blocks) = 1
  <2>1. PICK b : blocks = {b}
    <3>1. IsFiniteSet(blocks)
        BY FS_Subset DEF Links
    <3> HIDE DEF blocks
    <3>2. QED
        BY <1>3, <3>1, FS_Singleton
  <2>2. b \in Blocks /\ b \in fork_db.index /\ Num(b) = n
      BY <1>1, <2>1
  <2>3. Extends(b, Root)
      BY <1>2, <2>2 DEF RootIsSettled
  <2>4. n \in Num(b)..Num(x)
      BY <1>2, <2>2
  <2>5. Ancestor(x, n) \in fork_db.index /\ Num(Ancestor(x, n)) = n
      BY <1>2, <2>2, <2>3, <2>4, AncestorFacts DEF Covers
  <2>6. Ancestor(x, n) = b
      BY <2>1, <2>5
  <2>7. Lookup(n) = CHOOSE c \in blocks : TRUE
      BY <1>3 DEF Lookup, fetch_block_on_main_branch_by_number
  <2>8. QED
      BY <2>1, <2>6, <2>7
<1>4. CASE Cardinality(blocks) # 1
  <2>1. ~(n > Num(fork_db.head)) /\ Lookup(n) = Ancestor(fork_db.head, n)
      BY <1>4 DEF Lookup, fetch_block_on_main_branch_by_number
  <2>2. n \in 0..Num(fork_db.head)
      BY <1>1, <1>2, <2>1, ChainFacts
  <2>3. Ancestor(t, n) = Ancestor(fork_db.head, n) /\ Ancestor(t, n) = Ancestor(x, n)
      BY <1>1, <1>2, <2>2, ExtendsFacts
  <2>4. QED
      BY <2>1, <2>3
<1>5. QED
    BY <1>3, <1>4

-----------------------------------------------------------------------------
(* The trunk *)

\* A block that was applied: it can be applied once more on the same state,
\* and the log has what it made irreversible.
Sound(b, log) ==
    /\ Fault[b] = "none"
    /\ Num(b) - Replay[Parent(b)].lib < MaxUndoHistory
    /\ Replay[b].lib <= Len(log)

\* The states of the stack are on the chain of the head, which extends the
\* chain the node was started on; so does the log, which ends below them.
Trunk(d, s, log) ==
    /\ \A k \in 1..Len(s) : Extends(d.head, s[k].before.head)
    /\ Extends(Oldest(d, s).head, Root)
    /\ Len(log) >= Num(Root) /\ Len(log) <= Num(Oldest(d, s).head)
    /\ \A n \in 1..Len(log) : log[n] = Ancestor(Oldest(d, s).head, n)
    /\ \A n \in (Num(Oldest(d, s).head) + 1)..Num(d.head) : Sound(Ancestor(d.head, n), log)

\* The oldest state is on the chain, as far below as the stack is high.
LEMMA OldestFacts ==
    ASSUME SeveralConfirm, NEW d, d.head \in Chains, NEW s, Stacked(s, Num(d.head)),
           \A k \in 1..Len(s) : Extends(d.head, s[k].before.head)
    PROVE  /\ Oldest(d, s).head \in Chains /\ Extends(d.head, Oldest(d, s).head)
           /\ Len(s) \in Nat /\ Num(Oldest(d, s).head) \in Nat
           /\ Num(Oldest(d, s).head) = Num(d.head) - Len(s)
<1>1. /\ s \in Seq(Revision) /\ Len(s) \in Nat /\ Num(d.head) \in Nat /\ Len(s) <= Num(d.head)
      /\ \A k \in 1..Len(s) : Num(s[k].before.head) = (Num(d.head) - Len(s)) + k - 1
    BY ChainFacts DEF Stacked
<1>2. CASE s = <<>>
  <2>1. Oldest(d, s) = d /\ Len(s) = 0
      BY <1>2 DEF Oldest
  <2>2. Extends(d.head, d.head)
    <3>1. Num(d.head) \in 0..Num(d.head)
        BY <1>1
    <3>2. QED
        BY <1>1, <3>1, AncestorFacts DEF Extends
  <2>3. QED
      BY <1>1, <2>1, <2>2
<1>3. CASE s # <<>>
  <2>1. 1 \in 1..Len(s)
      BY <1>1, <1>3
  <2>2. Oldest(d, s) = s[1].before
      BY <1>3 DEF Oldest
  <2>3. s[1] \in Revision
      BY <1>1, <2>1
  <2>4. PICK b \in Chains : s[1].before = Replay[b]
      BY <2>3 DEF Revision, States
  <2>5. s[1].before.head \in Chains
      BY <2>4, ReplayIsProper
  <2>6. Num(s[1].before.head) = (Num(d.head) - Len(s)) + 1 - 1
      BY <1>1, <2>1, Zenon
  <2>7. QED
      BY <1>1, <2>1, <2>2, <2>5, <2>6
<1>4. QED
    BY <1>2, <1>3

\* What a trunk needs when the oldest state moves up the chain and the log
\* grows along it.
LEMMA TrunkGrows ==
    ASSUME SeveralConfirm, RootIsSettled,
           NEW d, d.head \in Chains, NEW s, Stacked(s, Num(d.head)), NEW log \in Seq(Blocks), Trunk(d, s, log),
           NEW e, e.head \in Chains, NEW u, Stacked(u, Num(e.head)), NEW more \in Seq(Blocks),
           \A k \in 1..Len(u) : Extends(e.head, u[k].before.head),
           Extends(d.head, Oldest(e, u).head), Num(Oldest(d, s).head) <= Num(Oldest(e, u).head),
           Len(log) <= Len(more), Len(more) <= Num(Oldest(e, u).head),
           \A n \in 1..Len(log) : more[n] = log[n],
           \A n \in (Len(log) + 1)..Len(more) : more[n] = Ancestor(d.head, n),
           \A n \in (Num(Oldest(e, u).head) + 1)..Num(e.head) : Sound(Ancestor(e.head, n), more)
    PROVE  Trunk(e, u, more) /\ Extends(Oldest(e, u).head, Oldest(d, s).head)
<1> DEFINE q == Oldest(d, s).head
           r == Oldest(e, u).head
<1>1. q \in Chains /\ Extends(d.head, q) /\ Num(q) \in Nat
    BY OldestFacts DEF Trunk
<1>2. r \in Chains /\ Num(r) \in Nat
    BY OldestFacts
<1>3. /\ Extends(q, Root) /\ Len(log) >= Num(Root) /\ Len(log) <= Num(q)
      /\ \A n \in 1..Len(log) : log[n] = Ancestor(q, n)
    BY DEF Trunk
<1>4. Extends(d.head, r) /\ Num(q) <= Num(r)
    OBVIOUS
<1>5. Root \in Chains /\ Num(Root) \in Nat
    BY ChainDbAssumption, ChainFacts DEF Chains
<1> HIDE DEF q, r
<1>6. Extends(r, q)
    BY <1>1, <1>2, <1>4, ExtendsFacts
<1>7. Extends(r, Root)
    BY <1>1, <1>2, <1>3, <1>5, <1>6, ExtendsFacts
<1>8. Len(log) \in Nat /\ Len(more) \in Nat
    OBVIOUS
<1>9. ASSUME NEW n \in 1..Len(more) PROVE more[n] = Ancestor(r, n)
  <2>1. CASE n \in 1..Len(log)
    <3>1. more[n] = Ancestor(q, n) /\ n \in 0..Num(q)
        BY <1>1, <1>3, <1>8, <2>1
    <3>2. Ancestor(r, n) = Ancestor(q, n)
        BY <1>1, <1>2, <1>6, <3>1, ExtendsFacts
    <3>3. QED
        BY <3>1, <3>2
  <2>2. CASE n \notin 1..Len(log)
    <3>1. n \in (Len(log) + 1)..Len(more) /\ n \in 0..Num(r)
        BY <1>2, <1>8, <1>9, <2>2 DEF r
    <3>2. more[n] = Ancestor(d.head, n)
        BY <3>1
    <3>3. Ancestor(d.head, n) = Ancestor(r, n)
        BY <1>2, <1>4, <3>1, ExtendsFacts
    <3>4. QED
        BY <3>2, <3>3
  <2>3. QED
      BY <2>1, <2>2
<1>10. Len(more) >= Num(Root)
    BY <1>3, <1>5, <1>8
<1>11. QED
    BY <1>6, <1>7, <1>9, <1>10 DEF Trunk, q, r

\* What is written to the log.
LEMMA LogGrows ==
    ASSUME fork_db \in ForkDbs, block_log \in Seq(Blocks), NEW lib \in Nat, WriteLog(lib)
    PROVE  /\ Len(block_log) \in Nat /\ Len(block_log') \in Nat /\ Len(block_log) <= Len(block_log')
           /\ Len(block_log') = Len(block_log) \/ Len(block_log') <= lib
           /\ \A n \in 1..Len(block_log) : block_log'[n] = block_log[n]
           /\ \A n \in (Len(block_log) + 1)..Len(block_log') : block_log'[n] = Lookup(n) /\ Lookup(n) # Genesis
           /\ AllFound(lib) => lib <= Len(block_log')
<1> DEFINE a == Len(block_log)
           F == Found(lib)
           c == Cardinality(F)
           s == [i \in 1..c |-> Lookup(a + i)]
<1>1. a \in Nat
    OBVIOUS
<1>2. F = {n \in (a + 1)..lib : \A m \in (a + 1)..n : Lookup(m) # Genesis}
    BY DEF Found, Missing
<1>3. block_log' = block_log \o s
    BY DEF WriteLog
<1>4. AllFound(lib) => F = (a + 1)..lib
    BY DEF AllFound, Missing
<1> HIDE DEF F, a
<1>5. F \in SUBSET ((a + 1)..lib) /\ \A k \in F : \A j \in (a + 1)..k : j \in F
    BY <1>1, <1>2
<1>6. c \in Nat /\ F = (a + 1)..(a + c)
    BY <1>1, <1>5, FromTheStart
<1> HIDE DEF c
<1>7. ASSUME NEW i \in 1..c PROVE Lookup(a + i) \in Blocks /\ Lookup(a + i) # Genesis
  <2>1. a + i \in Nat /\ a + i > 0 /\ a + i \in F /\ a + i \in (a + 1)..(a + i)
      BY <1>1, <1>6
  <2>2. Lookup(a + i) # Genesis
      BY <1>2, <2>1
  <2>3. QED
      BY <2>1, <2>2, LookupIsBlock
<1>8. s \in Seq(Blocks) /\ Len(s) = c /\ \A i \in 1..c : s[i] = Lookup(a + i)
  <2>1. s \in [1..c -> Blocks]
      BY <1>7
  <2>2. QED
      BY <1>6, <2>1
<1> HIDE DEF s
<1>9. /\ Len(block_log') = a + c
      /\ \A n \in 1..(a + c) : block_log'[n] = IF n <= a THEN block_log[n] ELSE s[n - a]
    BY <1>3, <1>8, ConcatProperties DEF a
<1>10. ASSUME NEW n \in (a + 1)..(a + c) PROVE block_log'[n] = Lookup(n) /\ Lookup(n) # Genesis
  <2>1. n \in 1..(a + c) /\ ~(n <= a) /\ n - a \in 1..c /\ a + (n - a) = n
      BY <1>1, <1>6
  <2>2. QED
      BY <1>7, <1>8, <1>9, <2>1
<1>11. c = 0 \/ a + c <= lib
  <2>1. c # 0 => a + c \in F
      BY <1>1, <1>6
  <2>2. QED
      BY <1>1, <1>5, <1>6, <2>1
<1>12. AllFound(lib) => lib <= a + c
  <2>1. lib \in (a + 1)..lib \/ lib <= a
      BY <1>1
  <2>2. QED
      BY <1>1, <1>4, <1>6, <2>1
<1>13. \A n \in 1..a : block_log'[n] = block_log[n]
    BY <1>1, <1>6, <1>9
<1>14. QED
    BY <1>1, <1>6, <1>9, <1>10, <1>11, <1>12, <1>13 DEF a

\* A block stays sound when the log grows.
LEMMA SoundGrows ==
    ASSUME SeveralConfirm, NEW b \in Chains, NEW log, NEW more, Len(log) \in Nat, Len(more) \in Nat,
           Len(log) <= Len(more), Sound(b, log)
    PROVE  Sound(b, more)
<1> DEFINE d == Replay[b]
<1>1. Proper(d) /\ d.head = b
    BY ReplayIsProper
<1> HIDE DEF d
<1>2. Num(b) \in Nat /\ d.lib \in 0..Num(b)
    BY <1>1, ChainFacts DEF Proper
<1>3. d.lib \in Nat
    BY <1>2
<1>4. QED
    BY <1>3 DEF Sound, d

\* The states that are left when a block's revision was opened and the
\* irreversible ones were committed.
LEMMA CommittedChain ==
    ASSUME SeveralConfirm, IndInv, Trunk(db, undo_stack, block_log), NEW lib \in Nat, lib <= revision
    PROVE  /\ \A k \in 1..Len(AfterCommit(lib)) : Extends(db.head, AfterCommit(lib)[k].before.head)
           /\ \A k \in 1..Len(AfterCommit(lib)) : AfterCommit(lib)[k].before.head \in Chains
           /\ Num(Oldest(db, undo_stack).head) <= (revision + 1) - Len(AfterCommit(lib))
           /\ Num(Oldest(db, undo_stack).head) \in Nat
           /\ Extends(db.head, Oldest(db, undo_stack).head)
<1> DEFINE u == AfterCommit(lib)
           n == Len(undo_stack)
<1>0. Tables /\ db.head \in Chains /\ revision = Num(db.head) /\ revision \in Nat
    BY StateFacts DEF IndInv, Tables
<1>1. /\ Len(u) <= n + 1 /\ Len(u) > 0 /\ Stacked(u, revision + 1)
      /\ \A k \in 1..Len(u) : u[k].before = db \/ \E j \in 1..n : u[k] = undo_stack[j]
    BY <1>0, CommitFacts
<1>2. \A j \in 1..n : Extends(db.head, undo_stack[j].before.head) /\ undo_stack[j].before.head \in Chains
    BY <1>0, StateFacts DEF Trunk
<1>3. Extends(db.head, db.head)
  <2>1. Num(db.head) \in 0..Num(db.head)
      BY <1>0
  <2>2. QED
      BY <1>0, <2>1, AncestorFacts DEF Extends
<1>4. /\ Extends(db.head, Oldest(db, undo_stack).head) /\ n \in Nat
      /\ Num(Oldest(db, undo_stack).head) \in Nat /\ Num(Oldest(db, undo_stack).head) = Num(db.head) - n
    BY <1>0, OldestFacts DEF Tables, Trunk
<1>5. Len(u) \in Nat
    BY <1>1 DEF Stacked
<1> HIDE DEF u, n
<1>6. ASSUME NEW k \in 1..Len(u) PROVE Extends(db.head, u[k].before.head) /\ u[k].before.head \in Chains
  <2>1. CASE u[k].before = db
      BY <1>0, <1>3, <2>1
  <2>2. CASE \E j \in 1..n : u[k] = undo_stack[j]
      BY <1>2, <2>2
  <2>3. QED
      BY <1>1, <2>1, <2>2
<1>7. Num(Oldest(db, undo_stack).head) <= (revision + 1) - Len(u)
    BY <1>0, <1>1, <1>4, <1>5
<1>8. QED
    BY <1>4, <1>6, <1>7 DEF u

\* What an accepted block writes to the log is on the chain of the head.
LEMMA LogOnChain ==
    ASSUME SeveralConfirm, RootIsSettled, IndInv, Trunk(db, undo_stack, block_log),
           Links(fork_db), Covers(fork_db, db.head),
           NEW t \in Chains, Extends(t, fork_db.head), Extends(t, db.head),
           NEW lib \in Nat, lib <= revision, WriteLog(lib)
    PROVE  /\ block_log' \in Seq(Blocks)
           /\ Len(block_log) \in Nat /\ Len(block_log') \in Nat /\ Len(block_log) <= Len(block_log')
           /\ Len(block_log') <= (revision + 1) - Len(AfterCommit(lib))
           /\ \A n \in 1..Len(block_log) : block_log'[n] = block_log[n]
           /\ \A n \in (Len(block_log) + 1)..Len(block_log') : block_log'[n] = Ancestor(db.head, n)
           /\ AllFound(lib) => lib <= Len(block_log')
<1>0. /\ Tables /\ db.head \in Chains /\ revision = Num(db.head) /\ revision \in Nat
      /\ fork_db \in ForkDbs /\ block_log \in Seq(Blocks)
    BY StateFacts DEF IndInv, Tables
<1>1. /\ Len(block_log) \in Nat /\ Len(block_log') \in Nat /\ Len(block_log) <= Len(block_log')
      /\ Len(block_log') = Len(block_log) \/ Len(block_log') <= lib
      /\ \A n \in 1..Len(block_log) : block_log'[n] = block_log[n]
      /\ \A n \in (Len(block_log) + 1)..Len(block_log') : block_log'[n] = Lookup(n) /\ Lookup(n) # Genesis
      /\ AllFound(lib) => lib <= Len(block_log')
    BY <1>0, LogGrows
<1>2. block_log' \in Seq(Blocks)
    BY <1>0, LogFacts
<1>3. lib <= (revision + 1) - Len(AfterCommit(lib)) /\ Len(AfterCommit(lib)) \in Nat
    BY <1>0, CommitFacts DEF Stacked
<1>4. /\ Num(Oldest(db, undo_stack).head) <= (revision + 1) - Len(AfterCommit(lib))
      /\ Num(Oldest(db, undo_stack).head) \in Nat
    BY CommittedChain
<1>5. Len(block_log) >= Num(Root) /\ Len(block_log) <= Num(Oldest(db, undo_stack).head)
    BY DEF Trunk
<1>6. Len(block_log') <= (revision + 1) - Len(AfterCommit(lib))
    BY <1>0, <1>1, <1>3, <1>4, <1>5
<1>7. ASSUME NEW n \in (Len(block_log) + 1)..Len(block_log') PROVE block_log'[n] = Ancestor(db.head, n)
  <2>1. Num(Root) \in Nat
      BY ChainDbAssumption, ChainFacts DEF Chains
  <2>2. n \in (Num(Root) + 1)..Num(db.head)
      BY <1>0, <1>1, <1>5, <1>7, <2>1
  <2>3. block_log'[n] = Lookup(n) /\ Lookup(n) # Genesis
      BY <1>1
  <2>4. QED
      BY <1>0, <2>2, <2>3, LookupOnChain
<1>8. QED
    BY <1>1, <1>2, <1>6, <1>7

\* A block is applied.
LEMMA TrunkApplies ==
    ASSUME SeveralConfirm, RootIsSettled, IndInv, Trunk(db, undo_stack, block_log),
           Links(fork_db), Covers(fork_db, db.head),
           NEW t \in Chains, Extends(t, fork_db.head), Extends(t, db.head),
           NEW b \in Blocks, Applies(b)
    PROVE  /\ Trunk(db', undo_stack', block_log') /\ db'.head = b /\ Parent(b) = db.head
           /\ Extends(Oldest(db', undo_stack').head, Oldest(db, undo_stack).head)
           /\ Len(block_log) <= Len(block_log')
           /\ undo_stack' # <<>>
<1> DEFINE new == WithBlock(db, b)
           lib == new.lib
           u == AfterCommit(lib)
<1>0. /\ Tables /\ db.head \in Chains /\ db = Replay[db.head] /\ revision = Num(db.head) /\ revision \in Nat
      /\ block_log \in Seq(Blocks) /\ Stacked(undo_stack, Num(db.head))
    BY StateFacts DEF IndInv, Tables
<1>1. /\ Accepted(b) /\ Fault[b] = "none" /\ AllFound(lib) /\ db' = new /\ undo_stack' = u /\ WriteLog(lib)
    BY DEF Applies
<1>2. new = Replay[b] /\ new.head = b /\ lib \in Nat /\ lib <= revision /\ Num(b) = revision + 1
    BY <1>0, <1>1, NewStateFacts
<1>3. Parent(b) = db.head /\ Num(b) - db.lib < MaxUndoHistory
    BY <1>1 DEF Accepted
<1>4. b \in Chains /\ Extends(b, db.head) /\ Ancestor(b, Num(b)) = b
    BY <1>3, ChildFacts DEF Chains
<1>lib. lib = Replay[b].lib
    BY <1>2
<1> HIDE DEF new, lib
<1>5. Stacked(u, revision + 1) /\ Len(u) > 0 /\ Len(u) \in Nat
    BY SMTT(30), <1>0, <1>2, CommitFacts DEF Stacked
<1>6. /\ \A k \in 1..Len(u) : Extends(db.head, u[k].before.head) /\ u[k].before.head \in Chains
      /\ Num(Oldest(db, undo_stack).head) <= (revision + 1) - Len(u)
      /\ Num(Oldest(db, undo_stack).head) \in Nat
    BY <1>2, CommittedChain
<1>7. /\ block_log' \in Seq(Blocks)
      /\ Len(block_log) \in Nat /\ Len(block_log') \in Nat /\ Len(block_log) <= Len(block_log')
      /\ Len(block_log') <= (revision + 1) - Len(u)
      /\ \A n \in 1..Len(block_log) : block_log'[n] = block_log[n]
      /\ \A n \in (Len(block_log) + 1)..Len(block_log') : block_log'[n] = Ancestor(db.head, n)
      /\ lib <= Len(block_log')
    BY <1>1, <1>2, LogOnChain
<1> HIDE DEF u
<1>8. \A k \in 1..Len(u) : Extends(b, u[k].before.head)
    BY <1>0, <1>4, <1>6, ExtendsFacts
<1>9. new.head \in Chains /\ Stacked(u, Num(new.head)) /\ \A k \in 1..Len(u) : Extends(new.head, u[k].before.head)
    BY <1>2, <1>4, <1>5, <1>8
<1>10. Oldest(new, u) = u[1].before /\ 1 \in 1..Len(u) /\ u # <<>>
  <2>1. u # <<>>
      BY <1>5
  <2>2. QED
      BY <1>5, <2>1 DEF Oldest
<1>11. Num(Oldest(new, u).head) = Num(b) - Len(u) /\ Num(Oldest(new, u).head) \in Nat
    BY <1>2, <1>9, OldestFacts
<1>12. Extends(db.head, Oldest(new, u).head)
    BY <1>6, <1>10
<1>13. ASSUME NEW n \in (Num(Oldest(new, u).head) + 1)..Num(new.head)
       PROVE  Sound(Ancestor(new.head, n), block_log')
  <2>1. CASE n = Num(b)
    <3>1. Num(b) - Replay[Parent(b)].lib < MaxUndoHistory
        BY <1>0, <1>3
    <3>2. QED
        BY <1>1, <1>2, <1>lib, <1>4, <1>7, <2>1, <3>1 DEF Sound
  <2>2. CASE n # Num(b)
    <3>1. n \in (Num(Oldest(db, undo_stack).head) + 1)..Num(db.head) /\ n \in 0..Num(db.head)
        BY <1>0, <1>2, <1>5, <1>6, <1>11, <1>13, <2>2
    <3>2. Ancestor(b, n) = Ancestor(db.head, n)
        BY <1>0, <1>4, <3>1, ExtendsFacts
    <3>3. Sound(Ancestor(db.head, n), block_log)
        BY <3>1 DEF Trunk
    <3>4. Ancestor(db.head, n) \in Chains
        BY <1>0, <3>1, AncestorFacts
    <3>5. QED
        BY <1>2, <1>7, <3>2, <3>3, <3>4, SoundGrows
  <2>3. QED
      BY <2>1, <2>2
<1>14. /\ Num(Oldest(db, undo_stack).head) <= Num(Oldest(new, u).head)
       /\ Len(block_log') <= Num(Oldest(new, u).head)
    BY <1>2, <1>6, <1>7, <1>11
<1>15. Trunk(new, u, block_log') /\ Extends(Oldest(new, u).head, Oldest(db, undo_stack).head)
    BY <1>0, <1>7, <1>9, <1>12, <1>13, <1>14, TrunkGrows
<1>16. QED
    BY <1>1, <1>2, <1>3, <1>7, <1>10, <1>15

\* A block is rejected.
LEMMA TrunkRejects ==
    ASSUME SeveralConfirm, RootIsSettled, IndInv, Trunk(db, undo_stack, block_log),
           Links(fork_db), Covers(fork_db, db.head),
           NEW t \in Chains, Extends(t, fork_db.head), Extends(t, db.head),
           NEW b \in Blocks, Rejects(b)
    PROVE  /\ Trunk(db', undo_stack', block_log') /\ db' = db
           /\ Extends(Oldest(db', undo_stack').head, Oldest(db, undo_stack).head)
           /\ Len(block_log) <= Len(block_log')
<1> DEFINE new == WithBlock(db, b)
           lib == new.lib
           a == AfterCommit(lib)
           u == SubSeq(a, 1, Len(a) - 1)
<1>0. /\ Tables /\ db.head \in Chains /\ db = Replay[db.head] /\ revision = Num(db.head) /\ revision \in Nat
      /\ block_log \in Seq(Blocks) /\ Stacked(undo_stack, Num(db.head))
    BY StateFacts DEF IndInv, Tables
<1>1. CASE ~Accepted(b) /\ UNCHANGED <<db, undo_stack, revision, block_log>>
  <2> DEFINE q == Oldest(db, undo_stack).head
  <2>1. q \in Chains /\ Num(q) \in Nat
      BY <1>0, OldestFacts DEF Trunk
  <2> HIDE DEF q
  <2>2. Extends(q, q)
    <3>1. Num(q) \in 0..Num(q)
        BY <2>1
    <3>2. QED
        BY <2>1, <3>1, AncestorFacts DEF Extends
  <2>3. Trunk(db', undo_stack', block_log') /\ Oldest(db', undo_stack') = Oldest(db, undo_stack)
      BY <1>1
  <2>4. QED
      BY <1>0, <1>1, <2>2, <2>3 DEF q
<1>2. CASE Accepted(b) /\ WriteLog(lib) /\ EndSession(b, new)
  <2>1. new = Replay[b] /\ new.head = b /\ lib \in Nat /\ lib <= revision /\ Num(b) = revision + 1
      BY <1>0, <1>2, NewStateFacts
  <2>2. WriteLog(lib) /\ (a # <<>> => db' = db /\ undo_stack' = u)
      BY <1>2 DEF EndSession
  <2> HIDE DEF new, lib
  <2>3. Stacked(a, revision + 1) /\ Len(a) > 0 /\ Len(a) \in Nat /\ a \in Seq(Revision)
      BY SMTT(30), <1>0, <2>1, CommitFacts DEF Stacked
  <2>4. /\ \A k \in 1..Len(a) : Extends(db.head, a[k].before.head) /\ a[k].before.head \in Chains
        /\ Num(Oldest(db, undo_stack).head) <= (revision + 1) - Len(a)
        /\ Num(Oldest(db, undo_stack).head) \in Nat
      BY <2>1, CommittedChain
  <2>5. /\ block_log' \in Seq(Blocks)
        /\ Len(block_log) \in Nat /\ Len(block_log') \in Nat /\ Len(block_log) <= Len(block_log')
        /\ Len(block_log') <= (revision + 1) - Len(a)
        /\ \A n \in 1..Len(block_log) : block_log'[n] = block_log[n]
        /\ \A n \in (Len(block_log) + 1)..Len(block_log') : block_log'[n] = Ancestor(db.head, n)
      BY <2>1, <2>2, LogOnChain
  <2> HIDE DEF a
  <2>6. a # <<>> /\ db' = db /\ undo_stack' = u
      BY <2>2, <2>3
  <2>7. 1 \in 1..(Len(a) + 1) /\ Len(a) - 1 \in (1 - 1)..Len(a)
      BY <2>3
  <2>8. Len(u) = ((Len(a) - 1) - 1) + 1 /\ \A k \in 1..(((Len(a) - 1) - 1) + 1) : u[k] = a[(1 + k) - 1]
      BY <2>3, <2>7, PartFacts, Zenon
  <2>9. Stacked(u, (revision + 1) - 1)
    <3>1. 0 \in 0..Len(a)
        BY <2>3
    <3>2. QED
        BY <2>3, <3>1, StackedParts
  <2> HIDE DEF u
  <2>10. Len(u) = Len(a) - 1 /\ Stacked(u, Num(db.head)) /\ \A k \in 1..Len(u) : k \in 1..Len(a) /\ u[k] = a[k]
      BY <1>0, <2>3, <2>8, <2>9
  <2>11. \A k \in 1..Len(u) : Extends(db.head, u[k].before.head)
      BY <2>4, <2>10
  <2>12. /\ Num(Oldest(db, u).head) = Num(db.head) - Len(u) /\ Num(Oldest(db, u).head) \in Nat
         /\ Extends(db.head, Oldest(db, u).head)
      BY <1>0, <2>10, <2>11, OldestFacts
  <2>13. /\ Num(Oldest(db, undo_stack).head) <= Num(Oldest(db, u).head)
         /\ Len(block_log') <= Num(Oldest(db, u).head)
      BY <1>0, <2>3, <2>4, <2>5, <2>10, <2>12
  <2>14. ASSUME NEW n \in (Num(Oldest(db, u).head) + 1)..Num(db.head)
         PROVE  Sound(Ancestor(db.head, n), block_log')
    <3>1. n \in (Num(Oldest(db, undo_stack).head) + 1)..Num(db.head) /\ n \in 0..Num(db.head)
        BY <1>0, <2>4, <2>12, <2>13, <2>14
    <3>2. Sound(Ancestor(db.head, n), block_log)
        BY <3>1 DEF Trunk
    <3>3. Ancestor(db.head, n) \in Chains
        BY <1>0, <3>1, AncestorFacts
    <3>4. QED
        BY <2>5, <3>2, <3>3, SoundGrows
  <2>15. Trunk(db, u, block_log') /\ Extends(Oldest(db, u).head, Oldest(db, undo_stack).head)
      BY <1>0, <2>5, <2>10, <2>11, <2>12, <2>13, <2>14, TrunkGrows
  <2>16. QED
      BY <2>5, <2>6, <2>15
<1>3. QED
    BY <1>1, <1>2 DEF Rejects

-----------------------------------------------------------------------------
(* Switching forks *)

\* The chain that is left, from its block number s on, and the one that is
\* gone to: the fork database has both.
OldChain(f, second, c, s) ==
    c \in Blocks /\ s \in 1..Num(c) /\ second = Branch(c, s) /\ Covers(f, c)
NewChain(f, first, a, s) ==
    a \in Blocks /\ s \in 1..Num(a) /\ first = Branch(a, s) /\ Covers(f, a) /\ Extends(a, f.head)

\* None of the blocks of the new chain from number s on is on the old one.
Apart(a, s, c) == \A n \in s..Num(a) : ~Extends(c, Ancestor(a, n))

\* A block is about to be applied to the head.
InApply ==
    /\ task.block \in fork_db.index /\ ~Extends(db.head, task.block)
    /\ Parent(fork_db.head) = db.head

\* Blocks are popped.  The two branches have nothing in common, but for one
\* case: when the new chain extends the head, fetch_branch_from() returns the
\* head in both of them, and it is popped and applied once more.
InPop ==
    \E a, c \in Blocks, s \in Nat :
      /\ OldChain(fork_db, task.todo.second, c, s) /\ NewChain(fork_db, task.todo.first, a, s)
      /\ Parent(Ancestor(a, s)) = Parent(Ancestor(c, s)) /\ Extends(c, db.head)
      /\ \/ Apart(a, s, c)
         \/ /\ Ancestor(a, s) = c
            /\ Sound(c, block_log) \/ (undo_stack = <<>> /\ db.head = c)

\* The new chain is applied.
InPush ==
    \E a, c \in Blocks, s, r \in Nat :
      /\ OldChain(fork_db, task.todo.second, c, r) /\ NewChain(fork_db, task.todo.first, a, s)
      /\ s = Num(db.head) + 1 /\ Ancestor(a, s - 1) = db.head
      /\ Apart(a, s, c) \/ (Ancestor(a, s) = c /\ Sound(c, block_log))

\* The new chain is popped, and the old one is applied again.
InUnwind ==
    \E c \in Blocks, r \in Nat : OldChain(fork_db, task.todo.second, c, r) /\ Extends(c, fork_db.head)
InRestore ==
    \E c \in Blocks, r \in Nat :
      /\ OldChain(fork_db, task.todo.second, c, r) /\ Extends(c, fork_db.head)
      /\ r = Num(db.head) + 1 /\ Ancestor(c, r - 1) = db.head

Switching ==
    /\ task.pc = "apply" => InApply
    /\ task.pc = "pop" => InPop
    /\ task.pc = "push" => InPush
    /\ task.pc = "unwind" => InUnwind
    /\ task.pc = "restore" => InRestore

OnTrunk ==
    /\ Trunk(db, undo_stack, block_log)
    /\ Links(fork_db) /\ Covers(fork_db, db.head)

TrunkInv == IndInv /\ OnTrunk /\ Switching

\* A step moves the oldest state along its chain.
Moves == Extends(Rewound'.head, Rewound.head) \/ Extends(Rewound.head, Rewound'.head)

\* Every chain extends itself.
LEMMA ExtendsItself == ASSUME NEW b \in Chains PROVE Extends(b, b)
<1>1. Num(b) \in Nat /\ Num(b) \in 0..Num(b)
    BY ChainFacts
<1>2. QED
    BY <1>1, AncestorFacts DEF Extends

\* A chain is covered down to every block of it.
LEMMA CoversBelow ==
    ASSUME NEW f \in ForkDbs, NEW x \in Chains, Covers(f, x), NEW y \in Chains, Extends(x, y)
    PROVE  Covers(f, y)
<1>1. Num(x) \in Nat /\ Num(y) \in Nat /\ Num(y) <= Num(x)
    BY ExtendsFacts
<1>2. ASSUME NEW c \in f.index, Extends(c, Root), NEW m \in Num(c)..Num(y) PROVE Ancestor(y, m) \in f.index
  <2>1. Num(c) \in Nat
      BY BlockFacts DEF ForkDbs
  <2>2. m \in Num(c)..Num(x) /\ m \in 0..Num(y)
      BY <1>1, <2>1
  <2>3. Ancestor(x, m) \in f.index
      BY <1>2, <2>2 DEF Covers
  <2>4. Ancestor(x, m) = Ancestor(y, m)
      BY <2>2, ExtendsFacts
  <2>5. QED
      BY <2>3, <2>4
<1>3. QED
    BY <1>2 DEF Covers

\* ... and up to a block that the index has.
LEMMA CoversChild ==
    ASSUME NEW f \in ForkDbs, NEW b \in f.index, Covers(f, Parent(b))
    PROVE  Covers(f, b)
<1>1. /\ b \in Blocks /\ b \in Chains /\ Num(b) \in Nat /\ Num(b) > 0
      /\ Parent(b) \in Chains /\ Num(Parent(b)) = Num(b) - 1
    BY BlockFacts DEF ForkDbs, Chains
<1>2. Extends(b, Parent(b)) /\ Ancestor(b, Num(b)) = b
    BY <1>1, ChildFacts
<1>3. ASSUME NEW c \in f.index, Extends(c, Root), NEW m \in Num(c)..Num(b) PROVE Ancestor(b, m) \in f.index
  <2>1. Num(c) \in Nat
      BY BlockFacts DEF ForkDbs
  <2>2. CASE m = Num(b)
      BY <1>2, <2>2
  <2>3. CASE m # Num(b)
    <3>1. m \in Num(c)..Num(Parent(b)) /\ m \in 0..Num(Parent(b))
        BY <1>1, <2>1, <2>3
    <3>2. Ancestor(Parent(b), m) \in f.index
        BY <1>3, <3>1 DEF Covers
    <3>3. Ancestor(b, m) = Ancestor(Parent(b), m)
        BY <1>1, <1>2, <3>1, ExtendsFacts
    <3>4. QED
        BY <3>2, <3>3
  <2>4. QED
      BY <2>2, <2>3
<1>4. QED
    BY <1>3 DEF Covers

\* The state and the tables, as the lemmas above need them.
LEMMA OnTrunkFacts ==
    ASSUME SeveralConfirm, RootIsSettled, IndInv, OnTrunk
    PROVE  /\ db.head \in Blocks /\ db.head \in Chains /\ Extends(db.head, Root)
           /\ revision = Num(db.head) /\ Num(db.head) \in Nat
           /\ fork_db \in ForkDbs /\ fork_db.head \in Blocks /\ fork_db.head \in Chains
           /\ block_log \in Seq(Blocks) /\ Stacked(undo_stack, Num(db.head))
           /\ Rewound = Oldest(db, undo_stack)
           /\ Rewound.head \in Chains /\ Extends(Rewound.head, Root) /\ Extends(db.head, Rewound.head)
<1>0. /\ Tables /\ db.head \in Chains /\ revision = Num(db.head) /\ revision \in Nat
      /\ fork_db \in ForkDbs /\ block_log \in Seq(Blocks) /\ Stacked(undo_stack, Num(db.head))
    BY StateFacts DEF IndInv, Tables
<1>1. Rewound = Oldest(db, undo_stack)
    BY DEF Rewound, Oldest
<1>2. Rewound.head \in Chains /\ Extends(db.head, Rewound.head) /\ Extends(Rewound.head, Root)
    BY <1>0, <1>1, OldestFacts DEF OnTrunk, Trunk
<1>3. Root \in Blocks /\ Root \in Chains /\ Num(Root) \in Nat /\ Num(Root) > 0
    BY ChainDbAssumption, BlockFacts DEF RootIsSettled, Chains
<1>4. Extends(db.head, Root)
    BY <1>0, <1>2, <1>3, ExtendsFacts
<1>5. db.head # Genesis
    BY <1>0, <1>3, <1>4, ChainFacts DEF Extends
<1>6. fork_db.head \in Blocks
    BY DEF OnTrunk, Links
<1>7. QED
    BY <1>0, <1>1, <1>2, <1>4, <1>5, <1>6 DEF Chains

\* A node is started on a state.
LEMMA StartOnTrunk ==
    ASSUME RootIsSettled, NEW d, d.head \in Chains, Extends(d.head, Root), NEW log \in Seq(Blocks),
           Len(log) >= Num(Root), Len(log) <= Num(d.head), \A n \in 1..Len(log) : log[n] = Ancestor(d.head, n),
           NEW m \in Nat
    PROVE  LET f == start_block([EmptyForkDb EXCEPT !.max_size = m], d.head) IN
           d.head \in Blocks /\ Trunk(d, <<>>, log) /\ Links(f) /\ Covers(f, d.head)
<1> DEFINE f == start_block([EmptyForkDb EXCEPT !.max_size = m], d.head)
<1>1. Root \in Blocks /\ Root \in Chains /\ Num(Root) \in Nat /\ Num(Root) > 0
    BY ChainDbAssumption, BlockFacts DEF RootIsSettled, Chains
<1>2. d.head # Genesis /\ d.head \in Blocks /\ Num(d.head) \in Nat /\ Ancestor(d.head, Num(d.head)) = d.head
  <2>1. d.head # Genesis
      BY <1>1, ChainFacts DEF Extends
  <2>2. QED
      BY <2>1, ChildFacts, BlockFacts DEF Chains
<1>3. f.index = {d.head} /\ f.head = d.head /\ f.lost = {d.head}
    BY DEF start_block, EmptyForkDb
<1> HIDE DEF f
<1>4. Links(f)
  <2>1. IsFiniteSet({d.head})
      BY FS_Singleton
  <2>2. \A b \in f.index \cup {f.head} : b \in f.lost
      BY <1>3
  <2>3. QED
      BY <1>2, <1>3, <2>1, <2>2 DEF Links
<1>5. Covers(f, d.head)
  <2>1. \A k \in Num(d.head)..Num(d.head) : k = Num(d.head)
      BY <1>2
  <2>2. QED
      BY <1>2, <1>3, <2>1 DEF Covers
<1>6. Oldest(d, <<>>) = d /\ Len(<<>>) = 0
    BY DEF Oldest
<1>7. Trunk(d, <<>>, log)
  <2>1. ~\E n \in (Num(d.head) + 1)..Num(d.head) : TRUE
      BY <1>2
  <2>2. ~\E k \in 1..0 : TRUE
      OBVIOUS
  <2>3. QED
      BY <1>6, <2>1, <2>2 DEF Trunk
<1>8. QED
    BY <1>2, <1>4, <1>5, <1>7 DEF f

\* The last revision is undone.
LEMMA TrunkPops ==
    ASSUME SeveralConfirm, NEW d, d.head \in Chains, NEW s, Stacked(s, Num(d.head)), s # <<>>,
           NEW log, Trunk(d, s, log)
    PROVE  LET e == s[Len(s)].before
               u == SubSeq(s, 1, Len(s) - 1)
           IN  /\ Trunk(e, u, log) /\ Oldest(e, u) = Oldest(d, s)
               /\ Extends(d.head, e.head) /\ e.head \in Chains
<1> DEFINE k == Len(s)
           e == s[k].before
           u == SubSeq(s, 1, k - 1)
<1>1. /\ s \in Seq(Revision) /\ k \in Nat /\ k > 0 /\ Num(d.head) \in Nat /\ k <= Num(d.head)
      /\ \A i \in 1..k : Num(s[i].before.head) = (Num(d.head) - k) + i - 1
    BY ChainFacts DEF Stacked
<1>2. ASSUME NEW i \in 1..k PROVE s[i].before.head \in Chains
  <2>1. s[i] \in Revision
      BY <1>1
  <2>2. PICK b \in Chains : s[i].before = Replay[b]
      BY <2>1 DEF Revision, States
  <2>3. QED
      BY <2>2, ReplayIsProper
<1>3. 1 \in 1..(k + 1) /\ k - 1 \in (1 - 1)..k /\ k \in 1..k /\ 1 \in 1..k
    BY <1>1
<1>4. Len(u) = ((k - 1) - 1) + 1 /\ \A i \in 1..(((k - 1) - 1) + 1) : u[i] = s[(1 + i) - 1]
    BY <1>1, <1>3, PartFacts, Zenon
<1>u. u \in Seq(Revision)
    BY <1>1, <1>3, PartFacts, Zenon
<1>5. e.head \in Chains /\ Num(e.head) = Num(d.head) - 1
  <2>1. Num(s[k].before.head) = (Num(d.head) - k) + k - 1
      BY <1>1, <1>3, Zenon
  <2>2. (Num(d.head) - k) + k - 1 = Num(d.head) - 1
      BY <1>1
  <2>3. QED
      BY <1>2, <1>3, <2>1, <2>2
<1>6. Extends(d.head, e.head)
  <2>1. \A i \in 1..k : Extends(d.head, s[i].before.head)
      BY DEF Trunk
  <2>2. QED
      BY <1>3, <2>1, Zenon
<1> HIDE DEF u, k
<1>7. Len(u) = k - 1 /\ \A i \in 1..(k - 1) : i \in 1..k /\ u[i] = s[i]
  <2>1. ((k - 1) - 1) + 1 = k - 1 /\ \A i \in 1..(k - 1) : i \in 1..k /\ (1 + i) - 1 = i
      BY <1>1
  <2>2. QED
      BY <1>4, <2>1
<1> HIDE DEF e
<1>8. ASSUME NEW i \in 1..Len(u) PROVE Extends(e.head, u[i].before.head)
  <2>1. i \in 1..k /\ u[i] = s[i]
      BY <1>7
  <2>2. Num(s[i].before.head) = (Num(d.head) - k) + i - 1
      BY <1>1, <2>1, Zenon
  <2>3. Num(s[i].before.head) <= Num(e.head)
    <3>1. (Num(d.head) - k) + i - 1 <= Num(d.head) - 1
        BY <1>1, <2>1
    <3>2. QED
        BY <1>5, <2>2, <3>1
  <2>4. Extends(d.head, s[i].before.head)
      BY <2>1 DEF Trunk, k
  <2>5. QED
      BY <1>2, <1>5, <1>6, <2>1, <2>3, <2>4, ExtendsFacts
<1>9. Oldest(e, u) = Oldest(d, s)
  <2>1. Oldest(d, s) = s[1].before
      BY DEF Oldest
  <2>2. CASE k = 1
    <3>1. Len(u) = 0
        BY <1>7, <2>2
    <3>2. u = <<>>
        BY <1>u, <3>1
    <3>3. QED
        BY <2>1, <2>2, <3>2 DEF Oldest, e
  <2>3. CASE k # 1
    <3>1. 1 \in 1..(k - 1) /\ Len(u) # 0
        BY <1>1, <1>7, <2>3
    <3>2. u # <<>> /\ u[1] = s[1]
        BY <1>7, <3>1
    <3>3. QED
        BY <2>1, <3>2 DEF Oldest
  <2>4. QED
      BY <2>2, <2>3
<1> DEFINE q == Num(Oldest(d, s).head)
<1>10. q \in Nat
    BY OldestFacts DEF Trunk
<1>11. ASSUME NEW n \in (q + 1)..Num(e.head) PROVE Sound(Ancestor(e.head, n), log)
  <2> HIDE DEF q
  <2>1. n \in (q + 1)..Num(d.head) /\ n \in 0..Num(e.head)
      BY <1>1, <1>5, <1>10
  <2>2. Ancestor(d.head, n) = Ancestor(e.head, n)
      BY <1>5, <1>6, <2>1, ExtendsFacts
  <2>3. Sound(Ancestor(d.head, n), log)
      BY <2>1 DEF Trunk, q
  <2>4. QED
      BY <2>2, <2>3
<1>12. Trunk(e, u, log)
    BY <1>8, <1>9, <1>11 DEF Trunk
<1>13. QED
    BY <1>5, <1>6, <1>9, <1>12 DEF e, u, k

\* A block is applied, on the way to t.
LEMMA AppliesOnTrunk ==
    ASSUME SeveralConfirm, RootIsSettled, IndInv, OnTrunk,
           NEW t \in Chains, Extends(t, fork_db.head), Extends(t, db.head),
           NEW b \in Blocks, Applies(b), Covers(fork_db, b)
    PROVE  /\ OnTrunk' /\ Moves /\ db'.head = b /\ Parent(b) = db.head
           /\ fork_db'.head = fork_db.head
           /\ \A x \in Chains : Covers(fork_db, x) => Covers(fork_db', x)
           /\ Len(block_log) <= Len(block_log')
<1> DEFINE size == (Num(b) - WithBlock(db, b).lib) + 1
<1>1. Accepted(b) /\ fork_db' = set_max_size(fork_db, size)
    BY DEF Applies
<1>2. size \in Nat
    BY <1>1, NewStateFacts DEF IndInv
<1>3. fork_db \in ForkDbs /\ Links(fork_db) /\ Covers(fork_db, db.head) /\ Trunk(db, undo_stack, block_log)
    BY DEF IndInv, OnTrunk
<1> HIDE DEF size
<1>4. /\ Links(fork_db') /\ fork_db'.head = fork_db.head
      /\ \A x \in Chains : Covers(fork_db, x) => Covers(fork_db', x)
    BY <1>1, <1>2, <1>3, PruneKeeps
<1>5. /\ Trunk(db', undo_stack', block_log') /\ db'.head = b /\ Parent(b) = db.head
      /\ Extends(Oldest(db', undo_stack').head, Oldest(db, undo_stack).head)
      /\ Len(block_log) <= Len(block_log')
    BY <1>3, TrunkApplies
<1>6. Rewound' = Oldest(db', undo_stack') /\ Rewound = Oldest(db, undo_stack)
    BY DEF Rewound, Oldest
<1>7. b \in Chains
    BY DEF Chains
<1>8. QED
    BY <1>4, <1>5, <1>6, <1>7 DEF OnTrunk, Moves

\* A block is rejected.
LEMMA RejectsOnTrunk ==
    ASSUME SeveralConfirm, RootIsSettled, IndInv, OnTrunk,
           NEW t \in Chains, Extends(t, fork_db.head), Extends(t, db.head),
           NEW b \in Blocks, Rejects(b)
    PROVE  LET g == ForkDbAfterReject(b) IN
           /\ Trunk(db', undo_stack', block_log') /\ db' = db /\ Moves
           /\ g \in ForkDbs /\ Links(g) /\ g.head = fork_db.head /\ g.index \subseteq fork_db.index
           /\ \A x \in Chains : Covers(fork_db, x) => Covers(g, x)
<1> DEFINE size == (Num(b) - WithBlock(db, b).lib) + 1
           g == ForkDbAfterReject(b)
<1>1. g = fork_db \/ (Accepted(b) /\ g = set_max_size(fork_db, size))
    BY DEF ForkDbAfterReject
<1>2. Accepted(b) => size \in Nat
    BY NewStateFacts DEF IndInv
<1>3. fork_db \in ForkDbs /\ Links(fork_db) /\ Covers(fork_db, db.head) /\ Trunk(db, undo_stack, block_log)
    BY DEF IndInv, OnTrunk
<1>4. g \in ForkDbs
    BY RejectsHolds
<1> HIDE DEF size, g
<1>5. /\ Links(g) /\ g.head = fork_db.head /\ g.index \subseteq fork_db.index
      /\ \A x \in Chains : Covers(fork_db, x) => Covers(g, x)
  <2>1. CASE g = fork_db
      BY <1>3, <2>1
  <2>2. CASE Accepted(b) /\ g = set_max_size(fork_db, size)
      BY <1>2, <1>3, <2>2, PruneKeeps
  <2>3. QED
      BY <1>1, <2>1, <2>2
<1>6. /\ Trunk(db', undo_stack', block_log') /\ db' = db
      /\ Extends(Oldest(db', undo_stack').head, Oldest(db, undo_stack).head)
    BY <1>3, TrunkRejects
<1>7. Rewound' = Oldest(db', undo_stack') /\ Rewound = Oldest(db, undo_stack)
    BY DEF Rewound, Oldest
<1>8. QED
    BY <1>4, <1>5, <1>6, <1>7 DEF g, Moves

\* A task that is done.
LEMMA IdleSwitching ==
    ASSUME task'.pc = "idle"
    PROVE  Switching'
    BY DEF Switching

\* Nothing happens to the tables.
LEMMA SameMoves ==
    ASSUME SeveralConfirm, RootIsSettled, IndInv, OnTrunk, db' = db, undo_stack' = undo_stack
    PROVE  Moves
<1>1. Rewound' = Rewound
    BY DEF Rewound
<1>2. Extends(Rewound.head, Rewound.head)
    BY OnTrunkFacts, ExtendsItself
<1>3. QED
    BY <1>1, <1>2 DEF Moves

\* The block that extends the head.
LEMMA ApplyOnTrunk ==
    ASSUME SeveralConfirm, RootIsSettled, TrunkInv, ApplyBlock
    PROVE  OnTrunk' /\ Switching' /\ Moves
<1> DEFINE b == task.block
           t == fork_db.head
<1>1. /\ IndInv /\ OnTrunk /\ task.pc = "apply" /\ InApply
    BY DEF TrunkInv, Switching, ApplyBlock
<1>2. b \in Blocks /\ b \in fork_db.index /\ ~Extends(db.head, b) /\ Parent(t) = db.head
    BY <1>1 DEF InApply, IndInv, Busy
<1>3. db.head \in Chains /\ t \in Chains /\ t \in Blocks /\ fork_db \in ForkDbs /\ Covers(fork_db, db.head)
    BY <1>1, OnTrunkFacts DEF OnTrunk
<1>4. Extends(t, t) /\ Extends(t, db.head)
    BY <1>2, <1>3, ChildFacts
<1> HIDE DEF t
<1>5. CASE Applies(b) /\ Ends("ok")
  <2>1. Parent(b) = db.head
      BY <1>5 DEF Applies, Accepted
  <2>2. Covers(fork_db, b)
      BY <1>2, <1>3, <2>1, CoversChild
  <2>3. OnTrunk' /\ Moves
      BY <1>1, <1>2, <1>3, <1>4, <1>5, <2>2, AppliesOnTrunk DEF t
  <2>4. task'.pc = "idle"
      BY <1>5 DEF Ends, Idle
  <2>5. QED
      BY <2>3, <2>4, IdleSwitching
<1>6. CASE Rejects(b) /\ fork_db' = remove(ForkDbAfterReject(b), b) /\ Ends("failed")
  <2> DEFINE g == ForkDbAfterReject(b)
  <2>1. /\ Trunk(db', undo_stack', block_log') /\ db' = db /\ Moves
        /\ g \in ForkDbs /\ Links(g) /\ \A x \in Chains : Covers(fork_db, x) => Covers(g, x)
      BY <1>1, <1>2, <1>3, <1>4, <1>6, RejectsOnTrunk DEF t
  <2>2. Covers(g, db.head)
      BY <1>3, <2>1
  <2>3. fork_db' = WithoutItems(g, {b} \cap g.index)
      BY <1>6 DEF remove
  <2> HIDE DEF g
  <2>4. Links(fork_db')
      BY <2>1, <2>3, WithoutKeeps
  <2>5. ASSUME NEW m \in 1..Num(db.head) PROVE Ancestor(db.head, m) \notin {b} \cap g.index
    <3>1. m \in 0..Num(db.head) /\ m <= Num(db.head)
        BY <1>3, ChainFacts
    <3>2. Num(Ancestor(db.head, m)) = m
        BY <1>3, <3>1, AncestorFacts
    <3>3. CASE Ancestor(db.head, m) = b
        BY <1>2, <3>1, <3>2, <3>3 DEF Extends
    <3>4. QED
        BY <3>3
  <2>6. Covers(fork_db', db.head)
      BY <1>3, <2>1, <2>2, <2>3, <2>5, WithoutCovers
  <2>7. task'.pc = "idle"
      BY <1>6 DEF Ends, Idle
  <2>8. QED
      BY <2>1, <2>4, <2>6, <2>7, IdleSwitching DEF OnTrunk
<1>7. QED
    BY <1>5, <1>6 DEF ApplyBlock

\* Popping: the parent of the fork database's head is a block of the index,
\* or of the old chain.
LEMMA PopKeeps ==
    ASSUME SeveralConfirm, RootIsSettled, IndInv, OnTrunk, PopBlock,
           NEW c, NEW r, OldChain(fork_db, task.todo.second, c, r)
    PROVE  /\ OnTrunk' /\ Moves /\ block_log' = block_log
           /\ db'.head \in Chains /\ Extends(db.head, db'.head)
           /\ fork_db'.head = Parent(fork_db.head)
           /\ \A x \in Chains : Covers(fork_db, x) => Covers(fork_db', x)
           /\ \A x \in Chains : Extends(x, fork_db.head) => Extends(x, fork_db'.head)
           /\ undo_stack = <<>> => undo_stack' = undo_stack /\ db' = db
<1> DEFINE p == Parent(fork_db.head)
<1>1. /\ fork_db \in ForkDbs /\ fork_db.head \in Blocks /\ fork_db.head \in Chains /\ db.head \in Chains
      /\ Rewound = Oldest(db, undo_stack) /\ Links(fork_db) /\ Covers(fork_db, db.head)
      /\ Trunk(db, undo_stack, block_log) /\ Stacked(undo_stack, Num(db.head)) /\ Rewound.head \in Chains
    BY OnTrunkFacts DEF OnTrunk
<1>2. /\ CanPop(fork_db, Held) /\ fork_db' = set_head(fork_db, p) /\ block_log' = block_log
    BY DEF PopBlock, CanPopBlock, pop_block
<1>3. Held \subseteq Blocks
  <2>1. c \in Blocks /\ r \in 1..Num(c) /\ task.todo.second = Branch(c, r)
      BY DEF OldChain
  <2>2. task.todo.second \in Seq(Blocks)
      BY <2>1, BranchIs
  <2>3. QED
      BY <2>2 DEF Held
<1>4. p \in Blocks
  <2>1. CASE fork_db.head \notin fork_db.lost
      BY <1>1, <2>1 DEF Links, ForkDbs
  <2>2. CASE fork_db.head \in fork_db.lost
      BY <1>2, <1>3, <2>2 DEF CanPop
  <2>3. QED
      BY <2>1, <2>2
<1> HIDE DEF p
<1>5. /\ Links(fork_db') /\ fork_db'.head = p
      /\ \A x : Covers(fork_db, x) => Covers(fork_db', x)
    BY <1>1, <1>2, <1>4, SetHeadKeeps
<1>6. \A x \in Chains : Extends(x, fork_db.head) => Extends(x, p)
    BY <1>1, ExtendsFacts DEF p
<1>7. CASE undo_stack = <<>>
  <2>1. db' = db /\ undo_stack' = undo_stack
      BY <1>7 DEF PopBlock
  <2>2. Moves /\ Extends(db.head, db.head)
      BY <1>1, <2>1, SameMoves, ExtendsItself
  <2>3. OnTrunk'
      BY <1>1, <1>2, <1>5, <2>1 DEF OnTrunk
  <2>4. QED
      BY <1>1, <1>2, <1>5, <1>6, <2>1, <2>2, <2>3 DEF p
<1>8. CASE undo_stack # <<>>
  <2> DEFINE e == undo_stack[Len(undo_stack)].before
             u == SubSeq(undo_stack, 1, Len(undo_stack) - 1)
  <2>1. db' = e /\ undo_stack' = u
      BY <1>8 DEF PopBlock
  <2>2. /\ Trunk(e, u, block_log) /\ Oldest(e, u) = Oldest(db, undo_stack)
        /\ Extends(db.head, e.head) /\ e.head \in Chains
      BY <1>1, <1>8, TrunkPops
  <2> HIDE DEF e, u
  <2>3. Covers(fork_db, e.head)
      BY <1>1, <2>2, CoversBelow
  <2>4. OnTrunk'
      BY <1>2, <1>5, <2>1, <2>2, <2>3 DEF OnTrunk
  <2>5. Rewound' = Rewound
    <3>1. Rewound' = Oldest(db', undo_stack')
        BY DEF Rewound, Oldest
    <3>2. QED
        BY <1>1, <2>1, <2>2, <3>1
  <2>6. Moves
      BY <1>1, <2>5, ExtendsItself DEF Moves
  <2>7. QED
      BY <1>2, <1>5, <1>6, <1>8, <2>1, <2>2, <2>4, <2>6 DEF p
<1>9. QED
    BY <1>7, <1>8

\* One step towards the fork point.
LEMMA PopOnTrunk ==
    ASSUME SeveralConfirm, RootIsSettled, TrunkInv, PopTowardsFork
    PROVE  OnTrunk' /\ Switching' /\ Moves
<1>1. IndInv /\ OnTrunk /\ Switching /\ task.pc \in {"pop", "unwind"}
    BY DEF TrunkInv, PopTowardsFork
<1>2. CASE PopBlock /\ task' = task /\ task.pc = "pop"
  <2>1. PICK a \in Blocks, c \in Blocks, s \in Nat :
          /\ OldChain(fork_db, task.todo.second, c, s) /\ NewChain(fork_db, task.todo.first, a, s)
          /\ Parent(Ancestor(a, s)) = Parent(Ancestor(c, s)) /\ Extends(c, db.head)
          /\ \/ Apart(a, s, c)
             \/ /\ Ancestor(a, s) = c
                /\ Sound(c, block_log) \/ (undo_stack = <<>> /\ db.head = c)
      BY <1>1, <1>2 DEF Switching, InPop
  <2>2. /\ OnTrunk' /\ Moves /\ block_log' = block_log
        /\ db'.head \in Chains /\ Extends(db.head, db'.head)
        /\ \A x \in Chains : Covers(fork_db, x) => Covers(fork_db', x)
        /\ \A x \in Chains : Extends(x, fork_db.head) => Extends(x, fork_db'.head)
        /\ undo_stack = <<>> => undo_stack' = undo_stack /\ db' = db
      BY <1>1, <1>2, <2>1, PopKeeps
  <2>3. a \in Chains /\ c \in Chains /\ db.head \in Chains
      BY <1>1, OnTrunkFacts DEF Chains
  <2>4. OldChain(fork_db', task'.todo.second, c, s)
      BY <1>2, <2>1, <2>2, <2>3 DEF OldChain
  <2>5. NewChain(fork_db', task'.todo.first, a, s)
      BY <1>2, <2>1, <2>2, <2>3 DEF NewChain
  <2>6. Extends(c, db'.head)
      BY <2>1, <2>2, <2>3, ExtendsFacts
  <2>7. Apart(a, s, c) \/ (Ancestor(a, s) = c /\ (Sound(c, block_log') \/ (undo_stack' = <<>> /\ db'.head = c)))
      BY <2>1, <2>2
  <2>8. InPop'
      BY <2>1, <2>4, <2>5, <2>6, <2>7 DEF InPop
  <2>9. task'.pc = "pop"
      BY <1>2
  <2>10. Switching'
      BY <2>8, <2>9 DEF Switching
  <2>11. QED
      BY <2>2, <2>10
<1>3. CASE PopBlock /\ task' = task /\ task.pc = "unwind"
  <2>1. PICK c \in Blocks, r \in Nat : OldChain(fork_db, task.todo.second, c, r) /\ Extends(c, fork_db.head)
      BY <1>1, <1>3 DEF Switching, InUnwind
  <2>2. /\ OnTrunk' /\ Moves
        /\ \A x \in Chains : Covers(fork_db, x) => Covers(fork_db', x)
        /\ \A x \in Chains : Extends(x, fork_db.head) => Extends(x, fork_db'.head)
      BY <1>1, <1>3, <2>1, PopKeeps
  <2>3. c \in Chains
      BY DEF Chains
  <2>4. OldChain(fork_db', task'.todo.second, c, r) /\ Extends(c, fork_db'.head)
      BY <1>3, <2>1, <2>2, <2>3 DEF OldChain
  <2>5. InUnwind'
      BY <2>4 DEF InUnwind
  <2>6. task'.pc = "unwind"
      BY <1>3
  <2>7. Switching'
      BY <2>5, <2>6 DEF Switching
  <2>8. QED
      BY <2>2, <2>7
<1>4. CASE Ends("failed") /\ UNCHANGED <<db, undo_stack, revision, fork_db, block_log>>
  <2>1. task'.pc = "idle"
      BY <1>4 DEF Ends, Idle
  <2>2. OnTrunk'
      BY <1>1, <1>4 DEF OnTrunk
  <2>3. QED
      BY <1>1, <1>4, <2>1, <2>2, IdleSwitching, SameMoves
<1>5. QED
    BY <1>1, <1>2, <1>3, <1>4 DEF PopTowardsFork

\* The fork point is reached.
LEMMA ForkPointOnTrunk ==
    ASSUME SeveralConfirm, RootIsSettled, TrunkInv, AtForkPoint
    PROVE  OnTrunk' /\ Switching' /\ Moves
<1>1. /\ IndInv /\ OnTrunk /\ Switching /\ task.pc \in {"pop", "unwind"} /\ task \in Tasks
      /\ UNCHANGED <<db, undo_stack, revision, fork_db, block_log>>
      /\ task' = [task EXCEPT !.pc = IF task.pc = "pop" THEN "push" ELSE "restore"]
      /\ db.head = Parent(task.todo.second[1])
    BY DEF TrunkInv, AtForkPoint, ForkPoint, IndInv, Busy
<1>2. OnTrunk'
    BY <1>1 DEF OnTrunk
<1>3. Moves
    BY <1>1, SameMoves
<1>4. ASSUME NEW c \in Blocks, NEW r, OldChain(fork_db, task.todo.second, c, r)
      PROVE  /\ db.head = Parent(Ancestor(c, r)) /\ r = Num(db.head) + 1 /\ Ancestor(c, r - 1) = db.head
             /\ r \in 1..Num(c) /\ r \in 0..Num(c) /\ r > 0 /\ r \in Nat
  <2>1. c \in Chains /\ Num(c) \in Nat /\ r \in 1..Num(c) /\ task.todo.second = Branch(c, r)
      BY <1>4, BlockFacts DEF OldChain, Chains
  <2>2. task.todo.second[1] = Ancestor(c, r)
      BY <2>1, BranchIs
  <2>3. r \in 0..Num(c) /\ r - 1 \in 0..Num(c) /\ r > 0 /\ r \in Nat
      BY <2>1
  <2>4. Parent(Ancestor(c, r)) = Ancestor(c, r - 1) /\ Num(Ancestor(c, r - 1)) = r - 1
      BY <2>1, <2>3, AncestorFacts
  <2>5. QED
      BY <1>1, <2>1, <2>2, <2>3, <2>4
<1>5. CASE task.pc = "pop"
  <2>1. PICK a \in Blocks, c \in Blocks, s \in Nat :
          /\ OldChain(fork_db, task.todo.second, c, s) /\ NewChain(fork_db, task.todo.first, a, s)
          /\ Parent(Ancestor(a, s)) = Parent(Ancestor(c, s)) /\ Extends(c, db.head)
          /\ \/ Apart(a, s, c)
             \/ /\ Ancestor(a, s) = c
                /\ Sound(c, block_log) \/ (undo_stack = <<>> /\ db.head = c)
      BY <1>1, <1>5 DEF Switching, InPop
  <2>2. task'.pc = "push" /\ task'.todo = task.todo
      BY <1>1, <1>5 DEF Tasks
  <2>3. db.head = Parent(Ancestor(c, s)) /\ s = Num(db.head) + 1 /\ s > 0
      BY <1>4, <2>1
  <2>4. Ancestor(a, s - 1) = db.head
    <3>1. a \in Chains /\ s \in 0..Num(a)
        BY <2>1, BlockFacts DEF NewChain, Chains
    <3>2. Parent(Ancestor(a, s)) = Ancestor(a, s - 1)
        BY <2>3, <3>1, AncestorFacts
    <3>3. QED
        BY <2>1, <2>3, <3>2
  <2>5. Apart(a, s, c) \/ (Ancestor(a, s) = c /\ Sound(c, block_log))
    <3>1. ASSUME Ancestor(a, s) = c, db.head = c PROVE FALSE
      <4>1. Parent(c) = c
          BY <2>1, <2>3, <3>1
      <4>2. Num(c) \in Nat /\ Num(Parent(c)) = Num(c) - 1
          BY BlockFacts
      <4>3. QED
          BY <4>1, <4>2
    <3>2. QED
        BY <2>1, <3>1
  <2>6. OldChain(fork_db', task'.todo.second, c, s) /\ NewChain(fork_db', task'.todo.first, a, s)
      BY <1>1, <2>1, <2>2
  <2>7. /\ s = Num(db'.head) + 1 /\ Ancestor(a, s - 1) = db'.head
        /\ Apart(a, s, c) \/ (Ancestor(a, s) = c /\ Sound(c, block_log'))
      BY <1>1, <2>3, <2>4, <2>5
  <2>8. InPush'
      BY <2>6, <2>7 DEF InPush
  <2>9. Switching'
      BY <2>2, <2>8 DEF Switching
  <2>10. QED
      BY <1>2, <1>3, <2>9
<1>6. CASE task.pc = "unwind"
  <2>1. PICK c \in Blocks, r \in Nat : OldChain(fork_db, task.todo.second, c, r) /\ Extends(c, fork_db.head)
      BY <1>1, <1>6 DEF Switching, InUnwind
  <2>2. task'.pc = "restore" /\ task'.todo = task.todo
      BY <1>1, <1>6 DEF Tasks
  <2>3. r = Num(db.head) + 1 /\ Ancestor(c, r - 1) = db.head
      BY <1>4, <2>1
  <2>4. /\ OldChain(fork_db', task'.todo.second, c, r) /\ Extends(c, fork_db'.head)
        /\ r = Num(db'.head) + 1 /\ Ancestor(c, r - 1) = db'.head
      BY <1>1, <2>1, <2>2, <2>3
  <2>5. InRestore'
      BY <2>4 DEF InRestore
  <2>6. Switching'
      BY <2>2, <2>5 DEF Switching
  <2>7. QED
      BY <1>2, <1>3, <2>6
<1>7. QED
    BY <1>1, <1>5, <1>6

\* A block of the old chain is applied again.
LEMMA RestoreOnTrunk ==
    ASSUME SeveralConfirm, RootIsSettled, TrunkInv, RestoreBlock
    PROVE  OnTrunk' /\ Switching' /\ Moves
<1> DEFINE second == task.todo.second
           b == second[1]
<1>1. /\ IndInv /\ OnTrunk /\ Switching /\ task.pc = "restore" /\ task \in Tasks /\ task.todo \in Branches
    BY DEF TrunkInv, RestoreBlock, IndInv, Busy, Tasks
<1>2. PICK c \in Blocks, r \in Nat :
        /\ OldChain(fork_db, second, c, r) /\ Extends(c, fork_db.head)
        /\ r = Num(db.head) + 1 /\ Ancestor(c, r - 1) = db.head
    BY <1>1 DEF Switching, InRestore
<1>3. r \in 1..Num(c) /\ second = Branch(c, r) /\ Covers(fork_db, c) /\ c \in Chains /\ Num(c) \in Nat
    BY <1>2, BlockFacts DEF OldChain, Chains
<1>4. b = Ancestor(c, r) /\ (Len(second) # 1 => r + 1 \in 1..Num(c) /\ Tail(second) = Branch(c, r + 1))
    BY <1>3, BranchIs
<1>5. Applies(b) /\ IF Len(second) = 1 THEN Ends("failed") ELSE task' = [task EXCEPT !.todo.second = Tail(second)]
    BY DEF RestoreBlock
<1>6. fork_db \in ForkDbs /\ db.head \in Chains /\ Num(db.head) \in Nat
    BY <1>1, OnTrunkFacts
<1> HIDE DEF b, second
<1>7. /\ r \in 0..Num(c) /\ r > 0 /\ r - 1 \in 0..Num(c) /\ (r + 1) - 1 = r /\ r \in Nat
      /\ r + 1 \in Nat
    BY <1>3
<1>8. b \in Blocks /\ b \in Chains /\ Num(b) = r /\ Extends(c, b) /\ Extends(c, db.head)
  <2>1. b \in Blocks /\ Num(b) = r /\ Num(Ancestor(c, r - 1)) = r - 1
      BY <1>3, <1>4, <1>7, AncestorFacts
  <2>2. QED
      BY <1>2, <1>3, <1>4, <1>7, <2>1 DEF Extends, Chains
<1>9. Covers(fork_db, b)
    BY <1>3, <1>6, <1>8, CoversBelow
<1>10. /\ OnTrunk' /\ Moves /\ db'.head = b /\ fork_db'.head = fork_db.head
       /\ \A x \in Chains : Covers(fork_db, x) => Covers(fork_db', x)
    BY <1>1, <1>2, <1>3, <1>5, <1>8, <1>9, AppliesOnTrunk
<1>11. CASE Len(second) = 1
  <2>1. task'.pc = "idle"
      BY <1>5, <1>11 DEF Ends, Idle
  <2>2. QED
      BY <1>10, <2>1, IdleSwitching
<1>12. CASE Len(second) # 1
  <2> DEFINE rest == Tail(second)
             todo == [task.todo EXCEPT !.second = rest]
  <2>1. task' = [task EXCEPT !.todo = todo]
      BY <1>1, <1>5, <1>12 DEF Tasks
  <2>2. todo.second = rest
      BY <1>1 DEF Branches
  <2> HIDE DEF todo, rest
  <2>3. task'.pc = "restore" /\ task'.todo.second = rest
      BY <1>1, <2>1, <2>2 DEF Tasks
  <2>4. rest = Branch(c, r + 1) /\ r + 1 \in 1..Num(c)
      BY <1>4, <1>12 DEF rest
  <2>5. OldChain(fork_db', task'.todo.second, c, r + 1)
      BY <1>3, <1>10, <2>3, <2>4 DEF OldChain
  <2>6. Extends(c, fork_db'.head) /\ r + 1 = Num(db'.head) + 1 /\ Ancestor(c, (r + 1) - 1) = db'.head
      BY <1>2, <1>4, <1>7, <1>8, <1>10
  <2>7. InRestore'
      BY <1>7, <2>5, <2>6 DEF InRestore
  <2>8. Switching'
      BY <2>3, <2>7 DEF Switching
  <2>9. QED
      BY <1>10, <2>8
<1>13. QED
    BY <1>11, <1>12

\* A block that was applied once is not rejected where it is applied again.
LEMMA SoundIsNotRejected ==
    ASSUME SeveralConfirm, IndInv, NEW c \in Blocks, Parent(c) = db.head, Sound(c, block_log)
    PROVE  ~Rejects(c)
<1> DEFINE new == WithBlock(db, c)
<1>0. Tables /\ db = Replay[Parent(c)] /\ block_log \in Seq(Blocks)
    BY DEF IndInv, Tables
<1>1. Accepted(c) /\ Fault[c] = "none"
    BY <1>0 DEF Sound, Accepted
<1>2. new = Replay[c] /\ new.lib \in Nat
    BY <1>0, <1>1, NewStateFacts
<1>3. new.lib <= Len(block_log)
    BY <1>2 DEF Sound
<1> HIDE DEF new
<1>4. Missing(new.lib) = {}
    BY <1>0, <1>2, <1>3 DEF Missing
<1>5. AllFound(new.lib)
    BY <1>4 DEF AllFound, Found
<1>6. QED
    BY <1>1, <1>5 DEF Rejects, new

\* A block of the new chain is applied, or rejected with all above it.
LEMMA PushForkOnTrunk ==
    ASSUME SeveralConfirm, RootIsSettled, TrunkInv, PushForkBlock
    PROVE  OnTrunk' /\ Switching' /\ Moves
<1> DEFINE first == task.todo.first
           second == task.todo.second
           b == first[1]
           bad == {first[i] : i \in 1..Len(first)}
           front == second[Len(second)]
<1>1. /\ IndInv /\ OnTrunk /\ Switching /\ task.pc = "push" /\ task \in Tasks /\ task.todo \in Branches
    BY DEF TrunkInv, PushForkBlock, IndInv, Busy, Tasks
<1>2. PICK a \in Blocks, c \in Blocks, s \in Nat, r \in Nat :
        /\ OldChain(fork_db, second, c, r) /\ NewChain(fork_db, first, a, s)
        /\ s = Num(db.head) + 1 /\ Ancestor(a, s - 1) = db.head
        /\ Apart(a, s, c) \/ (Ancestor(a, s) = c /\ Sound(c, block_log))
    BY <1>1 DEF Switching, InPush
<1>3. /\ a \in Chains /\ s \in 1..Num(a) /\ first = Branch(a, s) /\ Covers(fork_db, a) /\ Num(a) \in Nat
      /\ Extends(a, fork_db.head)
    BY <1>2, BlockFacts DEF NewChain, Chains
<1>4. c \in Chains /\ r \in 1..Num(c) /\ second = Branch(c, r) /\ Covers(fork_db, c) /\ Num(c) \in Nat
    BY <1>2, BlockFacts DEF OldChain, Chains
<1>5. /\ b = Ancestor(a, s) /\ (Len(first) # 1 => s + 1 \in 1..Num(a) /\ Tail(first) = Branch(a, s + 1))
      /\ \A x \in bad : \E n \in s..Num(a) : x = Ancestor(a, n)
    BY <1>3, BranchIs
<1>6. front = c
    BY <1>4, BranchIs
<1>7. fork_db \in ForkDbs /\ db.head \in Chains /\ Num(db.head) \in Nat /\ Covers(fork_db, db.head)
    BY <1>1, OnTrunkFacts DEF OnTrunk
<1>8. \/ /\ Applies(b)
         /\ IF Len(first) = 1 THEN Ends("ok") ELSE task' = [task EXCEPT !.todo.first = Tail(first)]
      \/ /\ Rejects(b)
         /\ fork_db' = set_head(WithoutItems(ForkDbAfterReject(b), bad \cap fork_db.index), front)
         /\ task' = [task EXCEPT !.pc = "unwind", !.todo.first = <<>>]
    BY DEF PushForkBlock
<1> HIDE DEF b, first, second, bad, front
<1>9. s \in 0..Num(a) /\ s > 0 /\ s - 1 \in 0..Num(a) /\ (s + 1) - 1 = s /\ s + 1 \in Nat
    BY <1>3
<1>10. b \in Blocks /\ b \in Chains /\ Num(b) = s /\ Extends(a, b) /\ Extends(a, db.head) /\ Parent(b) = db.head
  <2>1. b \in Blocks /\ Num(b) = s /\ Num(Ancestor(a, s - 1)) = s - 1 /\ Parent(b) = Ancestor(a, s - 1)
      BY <1>3, <1>5, <1>9, AncestorFacts
  <2>2. QED
      BY <1>2, <1>3, <1>5, <1>9, <2>1 DEF Extends, Chains
<1>11. CASE Applies(b) /\ IF Len(first) = 1 THEN Ends("ok") ELSE task' = [task EXCEPT !.todo.first = Tail(first)]
  <2>1. Covers(fork_db, b)
      BY <1>3, <1>7, <1>10, CoversBelow
  <2>2. /\ OnTrunk' /\ Moves /\ db'.head = b /\ fork_db'.head = fork_db.head
        /\ \A x \in Chains : Covers(fork_db, x) => Covers(fork_db', x)
      BY <1>1, <1>3, <1>10, <1>11, <2>1, AppliesOnTrunk
  <2>3. CASE Len(first) = 1
    <3>1. task'.pc = "idle"
        BY <1>11, <2>3 DEF Ends, Idle
    <3>2. QED
        BY <2>2, <3>1, IdleSwitching
  <2>4. CASE Len(first) # 1
    <3> DEFINE rest == Tail(first)
               todo == [task.todo EXCEPT !.first = rest]
    <3>1. task' = [task EXCEPT !.todo = todo]
        BY <1>1, <1>11, <2>4 DEF Tasks
    <3>2. todo.first = rest /\ todo.second = second
        BY <1>1 DEF Branches, second
    <3> HIDE DEF todo, rest
    <3>3. task'.pc = "push" /\ task'.todo.first = rest /\ task'.todo.second = second
        BY <1>1, <3>1, <3>2 DEF Tasks
    <3>4. rest = Branch(a, s + 1) /\ s + 1 \in 1..Num(a)
        BY <1>5, <2>4 DEF rest
    <3>5. NewChain(fork_db', task'.todo.first, a, s + 1)
        BY <1>3, <2>2, <3>3, <3>4 DEF NewChain
    <3>6. OldChain(fork_db', task'.todo.second, c, r)
        BY <1>4, <2>2, <3>3 DEF OldChain
    <3>7. Apart(a, s + 1, c)
      <4>1. ASSUME NEW n \in (s + 1)..Num(a), Extends(c, Ancestor(a, n)) PROVE FALSE
        <5>1. n \in s..Num(a) /\ n \in 0..Num(a) /\ n > s
            BY <1>3, <4>1
        <5>2. CASE Apart(a, s, c)
            BY <4>1, <5>1, <5>2 DEF Apart
        <5>3. CASE Ancestor(a, s) = c
          <6>1. Num(c) = s /\ Num(Ancestor(a, n)) = n
              BY <1>3, <1>9, <5>1, <5>3, AncestorFacts
          <6>2. QED
              BY <1>3, <4>1, <5>1, <6>1 DEF Extends
        <5>4. QED
            BY <1>2, <5>2, <5>3
      <4>2. QED
          BY <4>1 DEF Apart
    <3>8. s + 1 = Num(db'.head) + 1 /\ Ancestor(a, (s + 1) - 1) = db'.head
        BY <1>5, <1>9, <1>10, <2>2
    <3>9. InPush'
        BY <1>9, <3>5, <3>6, <3>7, <3>8 DEF InPush
    <3>10. Switching'
        BY <3>3, <3>9 DEF Switching
    <3>11. QED
        BY <2>2, <3>10
  <2>5. QED
      BY <2>3, <2>4
<1>12. CASE /\ Rejects(b)
            /\ fork_db' = set_head(WithoutItems(ForkDbAfterReject(b), bad \cap fork_db.index), front)
            /\ task' = [task EXCEPT !.pc = "unwind", !.todo.first = <<>>]
  <2> DEFINE g == ForkDbAfterReject(b)
             gone == bad \cap fork_db.index
             h == WithoutItems(g, gone)
  <2>1. Apart(a, s, c)
    <3>1. ASSUME b = c, Sound(c, block_log) PROVE FALSE
        BY <1>1, <1>10, <1>12, <3>1, SoundIsNotRejected
    <3>2. QED
        BY <1>2, <1>5, <3>1
  <2>2. /\ Trunk(db', undo_stack', block_log') /\ db' = db /\ Moves
        /\ g \in ForkDbs /\ Links(g) /\ \A x \in Chains : Covers(fork_db, x) => Covers(g, x)
      BY <1>1, <1>3, <1>10, <1>12, RejectsOnTrunk
  <2>3. fork_db' = set_head(h, c)
      BY <1>6, <1>12
  <2> HIDE DEF g, gone
  <2>4. Links(h) /\ h \in ForkDbs
      BY <2>2, WithoutKeeps, WithoutItemsFacts
  <2>5. Covers(h, c)
    <3>1. ASSUME NEW m \in 1..Num(c), Ancestor(c, m) \in gone PROVE FALSE
      <4>1. PICK n \in s..Num(a) : Ancestor(c, m) = Ancestor(a, n)
          BY <1>5, <3>1 DEF gone
      <4>2. m \in 0..Num(c)
          BY <1>4
      <4>3. Num(Ancestor(c, m)) = m /\ m <= Num(c)
          BY <1>4, <4>2, AncestorFacts
      <4>4. Extends(c, Ancestor(a, n))
          BY <4>1, <4>2, <4>3, <1>4 DEF Extends
      <4>5. QED
          BY <2>1, <4>4 DEF Apart
    <3>2. Covers(g, c)
        BY <1>4, <2>2
    <3>3. QED
        BY <1>4, <2>2, <3>1, <3>2, WithoutCovers
  <2>6. Covers(h, db.head)
    <3>1. ASSUME NEW m \in 1..Num(db.head), Ancestor(db.head, m) \in gone PROVE FALSE
      <4>1. PICK n \in s..Num(a) : Ancestor(db.head, m) = Ancestor(a, n)
          BY <1>5, <3>1 DEF gone
      <4>2. m \in 0..Num(db.head) /\ n \in 0..Num(a) /\ m < n
          BY <1>2, <1>3, <1>7
      <4>3. Num(Ancestor(db.head, m)) = m /\ Num(Ancestor(a, n)) = n
          BY <1>3, <1>7, <4>2, AncestorFacts
      <4>4. QED
          BY <4>1, <4>2, <4>3
    <3>2. Covers(g, db.head)
        BY <1>7, <2>2
    <3>3. QED
        BY <1>7, <2>2, <3>1, <3>2, WithoutCovers
  <2> HIDE DEF h
  <2>7. /\ Links(fork_db') /\ fork_db'.head = c /\ Covers(fork_db', c) /\ Covers(fork_db', db.head)
      BY <2>3, <2>4, <2>5, <2>6, SetHeadKeeps
  <2>8. OnTrunk'
      BY <2>2, <2>7 DEF OnTrunk
  <2>9. task'.pc = "unwind" /\ task'.todo.second = second
    <3> DEFINE todo == [task.todo EXCEPT !.first = <<>>]
    <3>1. task' = [task EXCEPT !.pc = "unwind", !.todo = todo]
        BY <1>1, <1>12 DEF Tasks
    <3>2. todo.second = second
        BY <1>1 DEF Branches, second
    <3> HIDE DEF todo
    <3>3. QED
        BY <1>1, <3>1, <3>2 DEF Tasks
  <2>10. OldChain(fork_db', task'.todo.second, c, r) /\ Extends(c, fork_db'.head)
      BY <1>4, <2>7, <2>9, ChildFacts DEF OldChain
  <2>11. InUnwind'
      BY <2>10 DEF InUnwind
  <2>12. Switching'
      BY <2>9, <2>11 DEF Switching
  <2>13. QED
      BY <2>2, <2>8, <2>12
<1>13. QED
    BY <1>8, <1>11, <1>12

\* A chain whose items are linked down to number s, and which below has the
\* blocks of a covered one, is covered.
LEMMA LinkedCovers ==
    ASSUME NEW f \in ForkDbs, Links(f), NEW a \in Blocks, a \in f.index, NEW s \in 1..Num(a), Linked(f, a, s),
           NEW c \in Chains, s - 1 <= Num(c), Ancestor(a, s - 1) = Ancestor(c, s - 1), Covers(f, c)
    PROVE  Covers(f, a)
<1> DEFINE D == {k \in Nat : Num(a) - k >= s => Ancestor(a, Num(a) - k) \in f.index}
<1>0. a \in Chains /\ Num(a) \in Nat /\ Ancestor(a, Num(a)) = a /\ Num(c) \in Nat
    BY BlockFacts, ChildFacts, ChainFacts DEF Chains
<1>1. 0 \in D
  <2>1. Num(a) - 0 = Num(a)
      BY <1>0
  <2>2. QED
      BY <1>0, <2>1
<1>2. ASSUME NEW k \in D PROVE k + 1 \in D
  <2> DEFINE m == Num(a) - k
  <2>1. SUFFICES ASSUME Num(a) - (k + 1) >= s PROVE Ancestor(a, Num(a) - (k + 1)) \in f.index
      OBVIOUS
  <2>2. m \in 0..Num(a) /\ m \in (s + 1)..Num(a) /\ m >= s /\ m > 0 /\ Num(a) - (k + 1) = m - 1
      BY <1>0, <2>1
  <2>3. Ancestor(a, m) \in f.index
      BY <2>2
  <2> HIDE DEF m
  <2>4. Ancestor(a, m) \notin f.lost
      BY <2>2 DEF Linked
  <2>5. Parent(Ancestor(a, m)) = Ancestor(a, m - 1)
      BY <1>0, <2>2, AncestorFacts
  <2>6. Ancestor(a, m - 1) \in f.index
      BY <2>3, <2>4, <2>5 DEF Links
  <2>7. QED
      BY <2>2, <2>6
<1>3. D = Nat
  <2>1. D \in SUBSET Nat
      OBVIOUS
  <2> HIDE DEF D
  <2>2. QED
      BY <1>1, <1>2, <2>1, NaturalsByStep
<1>4. ASSUME NEW m \in s..Num(a) PROVE Ancestor(a, m) \in f.index
  <2>1. Num(a) - m \in Nat /\ Num(a) - (Num(a) - m) = m
      BY <1>0
  <2>2. Num(a) - m \in D
      BY <1>3, <2>1
  <2>3. QED
      BY <2>1, <2>2
<1>5. ASSUME NEW m \in 0..(s - 1) PROVE Ancestor(a, m) = Ancestor(c, m)
  <2>1. s - 1 \in 0..Num(a) /\ s - 1 \in 0..Num(c)
      BY <1>0
  <2>2. Ancestor(Ancestor(a, s - 1), m) = Ancestor(a, m) /\ Ancestor(Ancestor(c, s - 1), m) = Ancestor(c, m)
      BY <1>0, <2>1, AncestorFacts
  <2>3. QED
      BY <2>2
<1>6. ASSUME NEW b \in f.index, Extends(b, Root), NEW m \in Num(b)..Num(a) PROVE Ancestor(a, m) \in f.index
  <2>1. Num(b) \in Nat
      BY BlockFacts DEF ForkDbs
  <2>2. CASE m \in s..Num(a)
      BY <1>4, <2>2
  <2>3. CASE m \notin s..Num(a)
    <3>1. m \in 0..(s - 1) /\ m \in Num(b)..Num(c)
        BY <1>0, <2>1, <2>3
    <3>2. Ancestor(c, m) \in f.index
        BY <1>6, <3>1 DEF Covers
    <3>3. QED
        BY <1>5, <3>1, <3>2
  <2>4. QED
      BY <2>2, <2>3
<1>7. QED
    BY <1>6 DEF Covers

\* The branches of a longer fork: they have nothing in common, or both begin
\* with the head.
LEMMA BranchesApart ==
    ASSUME NEW a \in Blocks, NEW c \in Blocks, Num(a) > Num(c)
    PROVE  LET s == BranchStart(a, c) IN
           /\ s \in 1..Num(c) /\ s \in 1..Num(a) /\ s \in Nat
           /\ Parent(Ancestor(a, s)) = Parent(Ancestor(c, s)) /\ Ancestor(a, s - 1) = Ancestor(c, s - 1)
           /\ Apart(a, s, c) \/ Ancestor(a, s) = c
<1> DEFINE s == BranchStart(a, c)
<1>0. a \in Chains /\ c \in Chains /\ Num(a) \in Nat /\ Num(c) \in Nat /\ Ancestor(c, Num(c)) = c
    BY BlockFacts, ChildFacts DEF Chains
<1>1. /\ s \in 1..Num(c) /\ Parent(Ancestor(a, s)) = Parent(Ancestor(c, s))
      /\ \A k \in (s + 1)..Num(c) : Parent(Ancestor(a, k)) # Parent(Ancestor(c, k))
    BY BranchStartFacts
<1> HIDE DEF s
<1>2. /\ s \in 1..Num(a) /\ s \in Nat /\ s \in 0..Num(a) /\ s \in 0..Num(c) /\ s > 0
      /\ s + 1 - 1 = s
    BY <1>0, <1>1
<1>3. Parent(Ancestor(a, s)) = Ancestor(a, s - 1) /\ Parent(Ancestor(c, s)) = Ancestor(c, s - 1)
    BY <1>0, <1>2, AncestorFacts
<1>4. CASE Ancestor(a, s) = Ancestor(c, s)
  <2>1. CASE s = Num(c)
      BY <1>0, <1>1, <1>2, <1>3, <1>4, <2>1 DEF s
  <2>2. CASE s # Num(c)
    <3>1. s + 1 \in (s + 1)..Num(c) /\ s + 1 \in 0..Num(c) /\ s + 1 \in 0..Num(a) /\ s + 1 > 0
        BY <1>0, <1>2, <2>2
    <3>2. Parent(Ancestor(a, s + 1)) = Ancestor(a, s) /\ Parent(Ancestor(c, s + 1)) = Ancestor(c, s)
        BY <1>0, <1>2, <3>1, AncestorFacts
    <3>3. QED
        BY <1>1, <1>4, <3>1, <3>2
  <2>3. QED
      BY <2>1, <2>2
<1>5. CASE Ancestor(a, s) # Ancestor(c, s)
  <2>1. ASSUME NEW n \in s..Num(a), Extends(c, Ancestor(a, n)) PROVE FALSE
    <3>1. n \in 0..Num(a) /\ s \in 0..n
        BY <1>0, <1>2
    <3>2. Ancestor(a, n) \in Chains /\ Num(Ancestor(a, n)) = n /\ Ancestor(Ancestor(a, n), s) = Ancestor(a, s)
        BY <1>0, <3>1, AncestorFacts
    <3>3. Ancestor(c, s) = Ancestor(Ancestor(a, n), s)
        BY <1>0, <2>1, <3>1, <3>2, ExtendsFacts
    <3>4. QED
        BY <1>5, <3>2, <3>3
  <2>2. Apart(a, s, c)
      BY <2>1 DEF Apart
  <2>3. QED
      BY <1>1, <1>2, <1>3, <2>2 DEF s
<1>6. QED
    BY <1>4, <1>5

\* A block is pushed.
LEMMA PushOnTrunk ==
    ASSUME SeveralConfirm, RootIsSettled, Redelivery = FALSE, TrunkInv, NEW b \in Blocks, PushBlock(b)
    PROVE  OnTrunk' /\ Switching' /\ Moves
<1> DEFINE pushed == push_block(fork_db, b)
           a == pushed.head
           s == BranchStart(a, db.head)
           todo == [first |-> Branch(a, s), second |-> Branch(db.head, s)]
           Begun(pc, t) == [pc |-> pc, outcome |-> "none", start |-> db, block |-> b, todo |-> t]
<1>0. /\ IndInv /\ OnTrunk /\ UNCHANGED <<db, undo_stack, revision, block_log>> /\ ~Extends(db.head, b)
    BY DEF TrunkInv, PushBlock, Delivered
<1>1. /\ db.head \in Blocks /\ db.head \in Chains /\ Extends(db.head, Root) /\ Num(db.head) \in Nat
      /\ fork_db \in ForkDbs /\ block_log \in Seq(Blocks) /\ Stacked(undo_stack, Num(db.head))
      /\ Links(fork_db) /\ Covers(fork_db, db.head) /\ Trunk(db, undo_stack, block_log)
    BY <1>0, OnTrunkFacts DEF OnTrunk
<1>2. Moves
    BY <1>0, SameMoves
<1>3. \/ fork_db' = fork_db /\ task' = Idle("failed", db, b)
      \/ /\ ~Unlinkable(fork_db, b) /\ fork_db' = pushed
         /\ \/ task' = Idle("failed", db, b) \/ task' = Idle("ok", db, b)
            \/ Parent(a) = db.head /\ task' = Begun("apply", NoBranches)
            \/ /\ Num(a) > Num(db.head) /\ CanFetchBranches(pushed, a, db.head)
               /\ task' = Begun("pop", todo)
    BY DEF PushBlock
<1>4. CASE fork_db' = fork_db /\ task' = Idle("failed", db, b)
  <2>1. task'.pc = "idle"
      BY <1>4 DEF Idle
  <2>2. OnTrunk'
      BY <1>0, <1>4 DEF OnTrunk
  <2>3. QED
      BY <1>2, <2>1, <2>2, IdleSwitching
<1>5. CASE ~Unlinkable(fork_db, b) /\ fork_db' = pushed
  <2>1. b # Root
      BY <1>0, <1>1
  <2>2. /\ Links(pushed) /\ pushed.index = fork_db.index \cup {b}
        /\ \A x \in Chains : Covers(fork_db, x) => Covers(pushed, x)
      BY <1>1, <1>5, <2>1, PushKeeps
  <2>3. pushed \in ForkDbs /\ a \in Blocks
      BY <1>1, ForkDbFacts, 0 \in Nat
  <2> HIDE DEF pushed, s
  <2>4. Covers(pushed, db.head)
      BY <1>1, <2>2
  <2>5. OnTrunk'
      BY <1>0, <1>5, <2>2, <2>4 DEF OnTrunk
  <2>6. CASE task' = Idle("failed", db, b) \/ task' = Idle("ok", db, b)
    <3>1. task'.pc = "idle"
        BY <2>6 DEF Idle
    <3>2. QED
        BY <1>2, <2>5, <3>1, IdleSwitching
  <2>7. CASE Parent(a) = db.head /\ task' = Begun("apply", NoBranches)
    <3>1. task'.pc = "apply" /\ task'.block = b
        BY <2>7
    <3>2. InApply'
        BY <1>0, <1>5, <2>2, <2>7, <3>1 DEF InApply
    <3>3. Switching'
        BY <3>1, <3>2 DEF Switching
    <3>4. QED
        BY <1>2, <2>5, <3>3
  <2>8. CASE Num(a) > Num(db.head) /\ CanFetchBranches(pushed, a, db.head) /\ task' = Begun("pop", todo)
    <3>1. task'.pc = "pop" /\ task'.todo.first = Branch(a, s) /\ task'.todo.second = Branch(db.head, s)
        BY <2>8
    <3>2. /\ s \in 1..Num(db.head) /\ s \in 1..Num(a) /\ s \in Nat
          /\ Parent(Ancestor(a, s)) = Parent(Ancestor(db.head, s))
          /\ Ancestor(a, s - 1) = Ancestor(db.head, s - 1)
          /\ Apart(a, s, db.head) \/ Ancestor(a, s) = db.head
        BY <1>1, <2>3, <2>8, BranchesApart DEF s
    <3>3. a \in pushed.index /\ Linked(pushed, a, s) /\ s - 1 <= Num(db.head)
        BY <1>1, <2>8, <3>2 DEF CanFetchBranches, s
    <3> HIDE DEF a
    <3>4. Covers(pushed, a)
        BY <1>1, <2>2, <2>3, <2>4, <3>2, <3>3, LinkedCovers
    <3>5. Extends(a, a) /\ Extends(db.head, db.head)
        BY <1>1, <2>3, ChildFacts
    <3>6. OldChain(fork_db', task'.todo.second, db.head, s)
        BY <1>1, <1>5, <2>4, <3>1, <3>2 DEF OldChain
    <3>7. NewChain(fork_db', task'.todo.first, a, s)
        BY <1>5, <2>3, <3>1, <3>2, <3>4, <3>5 DEF NewChain, a
    <3>8. undo_stack # <<>> => Sound(db.head, block_log)
      <4>1. SUFFICES ASSUME undo_stack # <<>> PROVE Sound(db.head, block_log)
          OBVIOUS
      <4>2. /\ Len(undo_stack) \in Nat /\ Num(Oldest(db, undo_stack).head) \in Nat
            /\ Num(Oldest(db, undo_stack).head) = Num(db.head) - Len(undo_stack)
          BY <1>1, OldestFacts DEF Trunk
      <4>3. Len(undo_stack) # 0
          BY <1>1, <4>1 DEF Stacked
      <4>4. Num(db.head) \in (Num(Oldest(db, undo_stack).head) + 1)..Num(db.head)
          BY <1>1, <4>2, <4>3
      <4>5. Sound(Ancestor(db.head, Num(db.head)), block_log)
          BY <1>1, <4>4 DEF Trunk
      <4>6. QED
          BY <1>1, <4>5, ChildFacts
    <3>9. \/ Apart(a, s, db.head)
          \/ /\ Ancestor(a, s) = db.head
             /\ Sound(db.head, block_log') \/ (undo_stack' = <<>> /\ db'.head = db.head)
        BY <1>0, <3>2, <3>8
    <3>10. Extends(db.head, db'.head)
        BY <1>0, <3>5
    <3>11. InPop'
      <4> DEFINE c == db.head
      <4>1. /\ c \in Blocks /\ OldChain(fork_db', task'.todo.second, c, s)
            /\ Parent(Ancestor(a, s)) = Parent(Ancestor(c, s)) /\ Extends(c, db'.head)
            /\ \/ Apart(a, s, c)
               \/ /\ Ancestor(a, s) = c
                  /\ Sound(c, block_log') \/ (undo_stack' = <<>> /\ db'.head = c)
          BY <1>1, <3>2, <3>6, <3>9, <3>10
      <4> HIDE DEF c
      <4>2. QED
          BY <2>3, <3>2, <3>7, <4>1 DEF InPop, a
    <3>12. Switching'
        BY <3>1, <3>11 DEF Switching
    <3>13. QED
        BY <1>2, <2>5, <3>12
  <2>9. QED
      BY <1>3, <1>5, <1>2, <2>5, <2>6, <2>7, <2>8, <1>4
<1>6. QED
    BY <1>3, <1>4, <1>5

\* A stop and the start after it: on the oldest state, or on the block that
\* A start on a state and a log of the chain of the head.
LEMMA StartMoves ==
    ASSUME SeveralConfirm, RootIsSettled, TrunkInv, NEW d, NEW m \in Nat, Start(d, m),
           d.head \in Chains, Extends(db.head, d.head), NEW log \in Seq(Blocks), block_log' = log,
           Len(log) >= Num(Root), Len(log) <= Num(d.head),
           \A n \in 1..Len(log) : log[n] = Ancestor(db.head, n)
    PROVE  OnTrunk' /\ Switching' /\ Moves
<1> DEFINE f == start_block([EmptyForkDb EXCEPT !.max_size = m], d.head)
           q == Rewound.head
           L == Len(log)
<1>1. IndInv /\ OnTrunk
    BY DEF TrunkInv
<1>2. q \in Chains /\ Extends(db.head, q) /\ Extends(db.head, Root) /\ db.head \in Chains
    BY <1>1, OnTrunkFacts
<1>3. Root \in Chains /\ Num(Root) \in Nat /\ L \in Nat /\ Num(q) \in Nat /\ Num(d.head) \in Nat
    BY <1>2, ChainDbAssumption, ChainFacts DEF RootIsSettled, Chains
<1>4. Extends(d.head, Root)
    BY <1>2, <1>3, ExtendsFacts
<1>5. ASSUME NEW n \in 1..L PROVE log[n] = Ancestor(d.head, n)
  <2>1. n \in 0..Num(d.head)
      BY <1>3, <1>5
  <2>2. Ancestor(db.head, n) = Ancestor(d.head, n)
      BY <1>2, <2>1, ExtendsFacts
  <2>3. QED
      BY <1>5, <2>2
<1>6. d.head \in Blocks /\ Trunk(d, <<>>, log) /\ Links(f) /\ Covers(f, d.head)
    BY <1>4, <1>5, StartOnTrunk
<1>7. d.head # Genesis
    BY <1>6, BlockFacts
<1>8. db' = d /\ undo_stack' = <<>> /\ fork_db' = f /\ task' = Idle("none", d, Genesis)
    BY <1>7 DEF Start
<1> HIDE DEF f
<1>9. OnTrunk'
    BY <1>6, <1>8 DEF OnTrunk
<1>10. task'.pc = "idle"
    BY <1>8 DEF Idle
<1>11. Rewound' = d
    BY <1>8 DEF Rewound, Oldest
<1>12. Moves
  <2>1. CASE Num(q) <= Num(d.head)
      BY <1>2, <1>3, <1>11, <2>1, ExtendsFacts DEF Moves
  <2>2. CASE Num(d.head) <= Num(q)
      BY <1>2, <1>3, <1>11, <2>2, ExtendsFacts DEF Moves
  <2>3. QED
      BY <1>3, <2>1, <2>2
<1>13. QED
    BY <1>9, <1>10, <1>12, IdleSwitching

\* open() or reindex() on such a log.
LEMMA ReopenMoves ==
    ASSUME SeveralConfirm, RootIsSettled, TrunkInv, NEW d, NEW s, NEW r, NEW log \in Seq(Blocks),
           block_log' = log, Reopen(d, s, r, log),
           Oldest(d, s).head \in Chains, Extends(db.head, Oldest(d, s).head),
           Len(log) >= Num(Root), Len(log) <= Num(Oldest(d, s).head),
           \A n \in 1..Len(log) : log[n] = Ancestor(db.head, n)
    PROVE  OnTrunk' /\ Switching' /\ Moves
<1> DEFINE L == Len(log)
<1>1. MaxBlockReordering \in Nat
    BY DEF MaxBlockReordering
<1>2. CASE Start(Oldest(d, s), MaxBlockReordering)
    BY <1>1, <1>2, StartMoves
<1>3. CASE Reindex(log)
  <2>1. Root \in Chains /\ Num(Root) \in Nat /\ Num(Root) > 0 /\ L \in Nat /\ Num(Oldest(d, s).head) \in Nat
      BY SMTT(30), ChainDbAssumption, BlockFacts, ChainFacts DEF RootIsSettled, Chains
  <2>2. db.head \in Chains /\ Num(Oldest(d, s).head) <= Num(db.head) /\ Num(db.head) \in Nat
      BY OnTrunkFacts, ChainFacts DEF TrunkInv, Extends
  <2>3. L \in 1..L /\ log # <<>> /\ L \in 0..Num(db.head)
      BY <2>1, <2>2
  <2> DEFINE b == log[L]
             e == Replay[b]
             m == (Num(e.head) - e.lib) + 1
  <2>4. Start(e, m)
      BY <1>3, <2>3 DEF Reindex
  <2>5. b \in Blocks /\ b \in Chains /\ b = Ancestor(db.head, L)
      BY <2>3 DEF Chains
  <2> HIDE DEF b
  <2>6. Proper(e) /\ e.head = b
      BY <2>5, ReplayIsProper
  <2> HIDE DEF e
  <2>7. Num(b) \in Nat /\ e.lib \in 0..Num(b)
      BY <2>5, <2>6, BlockFacts DEF Proper
  <2>8. m \in Nat
      BY <2>6, <2>7
  <2> HIDE DEF m
  <2>9. Num(b) = L /\ Extends(db.head, b)
      BY <2>2, <2>3, <2>5, AncestorFacts DEF Extends
  <2>10. e.head \in Chains /\ Extends(db.head, e.head) /\ L <= Num(e.head)
      BY <2>3, <2>5, <2>6, <2>9
  <2>11. QED
      BY <2>4, <2>8, <2>10, StartMoves
<1>4. QED
    BY <1>2, <1>3 DEF Reopen

\* A log of the chain of the oldest state is one of the chain of the head.
LEMMA LogOfHead ==
    ASSUME SeveralConfirm, RootIsSettled, TrunkInv
    PROVE  /\ Len(block_log) \in Nat /\ Len(block_log) >= Num(Root) /\ Len(block_log) <= Num(Rewound.head)
           /\ \A n \in 1..Len(block_log) : block_log[n] = Ancestor(db.head, n)
<1> DEFINE q == Rewound.head
<1>1. IndInv /\ OnTrunk
    BY DEF TrunkInv
<1>2. /\ q \in Chains /\ Extends(db.head, q) /\ db.head \in Chains /\ Rewound = Oldest(db, undo_stack)
      /\ block_log \in Seq(Blocks) /\ Num(q) \in Nat
    BY <1>1, OnTrunkFacts, ChainFacts
<1>3. /\ Len(block_log) >= Num(Root) /\ Len(block_log) <= Num(q)
      /\ \A n \in 1..Len(block_log) : block_log[n] = Ancestor(q, n)
    BY <1>1, <1>2 DEF OnTrunk, Trunk
<1> HIDE DEF q
<1>4. ASSUME NEW n \in 1..Len(block_log) PROVE block_log[n] = Ancestor(db.head, n)
  <2>1. n \in 0..Num(q)
      BY <1>2, <1>3, <1>4
  <2>2. QED
      BY <1>2, <1>3, <1>4, <2>1, ExtendsFacts DEF q
<1>5. QED
    BY <1>2, <1>3, <1>4 DEF q

\* A stop between two steps.
LEMMA StopOnTrunk ==
    ASSUME SeveralConfirm, RootIsSettled, TrunkInv, StopAndOpen
    PROVE  OnTrunk' /\ Switching' /\ Moves
<1>1. IndInv /\ OnTrunk /\ block_log' = block_log /\ Reopen(db, undo_stack, revision, block_log)
    BY DEF TrunkInv, StopAndOpen
<1>2. /\ Oldest(db, undo_stack).head \in Chains /\ Extends(db.head, Oldest(db, undo_stack).head)
      /\ block_log \in Seq(Blocks) /\ Rewound = Oldest(db, undo_stack)
    BY <1>1, OnTrunkFacts
<1>3. QED
    BY <1>1, <1>2, LogOfHead, ReopenMoves

\* A stop while a block is applied: whatever part of the log is lost, what
\* is left of it is on the chain of the head.
LEMMA StopInBlockOnTrunk ==
    ASSUME SeveralConfirm, RootIsSettled, TrunkInv, StopInBlock
    PROVE  OnTrunk' /\ Switching' /\ Moves
<1>1. PICK b \in Applying :
        LET new == WithBlock(db, b) IN
        /\ Accepted(b) /\ \E written \in 0..new.lib : WriteLog(written)
        /\ Reopen([new EXCEPT !.whole = FALSE], AfterCommit(new.lib), revision + 1, block_log')
    BY DEF StopInBlock
<1> DEFINE new == WithBlock(db, b)
           lib == new.lib
           d == [new EXCEPT !.whole = FALSE]
           u == AfterCommit(lib)
<1>2. /\ b \in Blocks /\ IndInv /\ OnTrunk /\ Switching /\ Tables /\ fork_db \in ForkDbs /\ block_log \in Seq(Blocks)
      /\ Trunk(db, undo_stack, block_log) /\ Links(fork_db) /\ Covers(fork_db, db.head)
    BY DEF Applying, TrunkInv, IndInv, OnTrunk
<1>3. lib \in Nat /\ lib <= revision
    BY <1>1, <1>2, NewStateFacts
<1>4. PICK written \in 0..lib : WriteLog(written)
    BY <1>1
<1>5. Reopen(d, u, revision + 1, block_log')
    BY <1>1
<1> HIDE DEF new, lib, d
<1>6. /\ db.head \in Chains /\ revision = Num(db.head) /\ revision \in Nat
      /\ fork_db.head \in Chains /\ fork_db.head \in Blocks
    BY <1>2, OnTrunkFacts
<1>7. written \in Nat /\ written <= lib /\ written <= revision
    BY <1>3, <1>6
<1>8. PICK t \in Chains : Extends(t, fork_db.head) /\ Extends(t, db.head)
  <2>1. CASE task.pc = "apply"
    <3>1. Parent(fork_db.head) = db.head
        BY <1>2, <2>1 DEF Switching, InApply
    <3>2. Extends(fork_db.head, fork_db.head) /\ Extends(fork_db.head, db.head)
        BY <1>6, <3>1, ChildFacts
    <3>3. QED
        BY <1>6, <3>2
  <2>2. CASE task.pc = "push"
    <3>1. PICK a \in Blocks, c \in Blocks, i \in Nat, r \in Nat :
            NewChain(fork_db, task.todo.first, a, i) /\ i = Num(db.head) + 1 /\ Ancestor(a, i - 1) = db.head
        BY <1>2, <2>2 DEF Switching, InPush
    <3>2. a \in Chains /\ Extends(a, fork_db.head) /\ i \in 1..Num(a) /\ Num(a) \in Nat
        BY <3>1, BlockFacts DEF NewChain, Chains
    <3>3. i - 1 = Num(db.head) /\ Num(a) >= Num(db.head)
        BY <1>6, <3>1, <3>2
    <3>4. Extends(a, db.head)
        BY <3>1, <3>3 DEF Extends
    <3>5. QED
        BY <3>2, <3>4
  <2>3. CASE task.pc = "restore"
    <3>1. PICK c \in Blocks, r \in Nat :
            /\ OldChain(fork_db, task.todo.second, c, r) /\ Extends(c, fork_db.head)
            /\ r = Num(db.head) + 1 /\ Ancestor(c, r - 1) = db.head
        BY <1>2, <2>3 DEF Switching, InRestore
    <3>2. c \in Chains /\ r \in 1..Num(c) /\ Num(c) \in Nat
        BY <3>1, BlockFacts DEF OldChain, Chains
    <3>3. r - 1 = Num(db.head) /\ Num(c) >= Num(db.head)
        BY <1>6, <3>1, <3>2
    <3>4. Extends(c, db.head)
        BY <3>1, <3>3 DEF Extends
    <3>5. QED
        BY <3>1, <3>2, <3>4
  <2>4. QED
      BY <2>1, <2>2, <2>3 DEF Applying
<1>9. /\ block_log' \in Seq(Blocks)
      /\ Len(block_log) \in Nat /\ Len(block_log') \in Nat /\ Len(block_log) <= Len(block_log')
      /\ \A n \in 1..Len(block_log) : block_log'[n] = block_log[n]
      /\ \A n \in (Len(block_log) + 1)..Len(block_log') : block_log'[n] = Ancestor(db.head, n)
    BY <1>2, <1>4, <1>7, <1>8, LogOnChain
<1>10. Len(block_log') = Len(block_log) \/ Len(block_log') <= written
    BY <1>2, <1>4, <1>7, LogGrows
<1>11. /\ Stacked(u, revision + 1) /\ u # <<>> /\ Len(u) \in Nat /\ Len(u) > 0
       /\ lib <= (revision + 1) - Len(u)
    BY <1>2, <1>3, CommitFacts DEF Stacked
<1>12. /\ \A k \in 1..Len(u) : Extends(db.head, u[k].before.head) /\ u[k].before.head \in Chains
       /\ Num(Oldest(db, undo_stack).head) <= (revision + 1) - Len(u)
       /\ Num(Oldest(db, undo_stack).head) \in Nat
    BY <1>2, <1>3, CommittedChain
<1> HIDE DEF u
<1>13. Oldest(d, u) = u[1].before /\ 1 \in 1..Len(u)
    BY <1>11 DEF Oldest
<1>14. (revision + 1) - Len(u) = Num(Oldest(d, u).head)
    BY <1>11, RewoundFacts
<1>15. Oldest(d, u).head \in Chains /\ Extends(db.head, Oldest(d, u).head)
    BY <1>12, <1>13
<1>16. /\ Len(block_log) >= Num(Root) /\ Len(block_log) <= Num(Oldest(db, undo_stack).head)
       /\ \A n \in 1..Len(block_log) : block_log[n] = Ancestor(db.head, n)
    BY LogOfHead DEF Rewound
<1>17. Len(block_log') >= Num(Root) /\ Len(block_log') <= Num(Oldest(d, u).head)
  <2>1. Num(Root) \in Nat
      BY ChainDbAssumption, ChainFacts DEF RootIsSettled, Chains
  <2>2. QED
      BY <1>3, <1>6, <1>7, <1>9, <1>10, <1>11, <1>12, <1>14, <1>16, <2>1
<1>18. ASSUME NEW n \in 1..Len(block_log') PROVE block_log'[n] = Ancestor(db.head, n)
  <2>1. CASE n \in 1..Len(block_log)
      BY <1>9, <1>16, <2>1
  <2>2. CASE n \in (Len(block_log) + 1)..Len(block_log')
      BY <1>9, <2>2
  <2>3. QED
      BY <1>9, <1>18, <2>1, <2>2
<1>19. QED
    BY <1>5, <1>9, <1>15, <1>17, <1>18, ReopenMoves

\* The start.
LEMMA InitOnTrunk ==
    ASSUME SeveralConfirm, RootIsSettled, Init
    PROVE  OnTrunk /\ Switching
<1> DEFINE d == Replay[Root]
           n == Num(Root)
           f == start_block([EmptyForkDb EXCEPT !.max_size = MaxBlockReordering], d.head)
<1>1. Root \in Chains /\ Root # Genesis /\ n \in Nat
    BY ChainDbAssumption, ChainFacts DEF RootIsSettled, Chains
<1>2. d.head = Root /\ Extends(Root, Root) /\ MaxBlockReordering \in Nat
    BY <1>1, ReplayIsProper, ExtendsItself DEF MaxBlockReordering
<1>3. block_log \in Seq(Blocks) /\ block_log = [i \in 1..n |-> Ancestor(Root, i)]
    BY InitHolds DEF Init, LogOf, IndInv
<1> HIDE DEF n
<1>4. Len(block_log) = n /\ \A i \in 1..n : block_log[i] = Ancestor(Root, i)
    BY <1>1, <1>3
<1>5. EmptyForkDb = [EmptyForkDb EXCEPT !.max_size = MaxBlockReordering]
    BY DEF EmptyForkDb
<1>6. db = d /\ undo_stack = <<>> /\ fork_db = f /\ task.pc = "idle"
    BY <1>1, <1>2, <1>5 DEF Init, Idle
<1> HIDE DEF d
<1>7. Trunk(d, <<>>, block_log) /\ Links(f) /\ Covers(f, d.head)
    BY <1>1, <1>2, <1>3, <1>4, StartOnTrunk DEF n
<1> HIDE DEF f
<1>8. QED
    BY <1>6, <1>7 DEF OnTrunk, Switching

\* Every step keeps the invariant, and moves along the chain.
LEMMA StepOnTrunk ==
    ASSUME SeveralConfirm, RootIsSettled, Redelivery = FALSE, TrunkInv, [Next]_vars
    PROVE  TrunkInv' /\ [Moves]_vars
<1>1. IndInv'
    BY StepHolds DEF TrunkInv
<1>2. CASE UNCHANGED vars
  <2>1. OnTrunk'
      BY <1>2 DEF vars, TrunkInv, OnTrunk
  <2>2. Switching'
      BY <1>2 DEF vars, TrunkInv, Switching, InApply, InPop, InPush, InUnwind, InRestore
  <2>3. QED
      BY <1>1, <1>2, <2>1, <2>2 DEF TrunkInv
<1>3. CASE Next
  <2>1. ASSUME NEW b \in Blocks, PushBlock(b) PROVE OnTrunk' /\ Switching' /\ Moves
      BY <2>1, PushOnTrunk
  <2>2. ASSUME Handler PROVE OnTrunk' /\ Switching' /\ Moves
      BY <2>2, ApplyOnTrunk, PopOnTrunk, ForkPointOnTrunk, PushForkOnTrunk, RestoreOnTrunk DEF Handler
  <2>3. ASSUME StopAndOpen PROVE OnTrunk' /\ Switching' /\ Moves
      BY <2>3, StopOnTrunk
  <2>4. ASSUME StopInBlock PROVE OnTrunk' /\ Switching' /\ Moves
      BY <2>4, StopInBlockOnTrunk
  <2>5. OnTrunk' /\ Switching' /\ Moves
      BY <1>3, <2>1, <2>2, <2>3, <2>4 DEF Next
  <2>6. QED
      BY <1>1, <2>5 DEF TrunkInv
<1>4. QED
    BY <1>2, <1>3

\* The block log holds the chain of the oldest state that the node can go
\* back to, through every switch of forks, failed switch and restart.
THEOREM LogStaysOnChain ==
    ASSUME SeveralConfirm, RootIsSettled, Redelivery = FALSE
    PROVE  Spec => []LogIsOnChain
<1>0. SeveralConfirm /\ RootIsSettled /\ Redelivery = FALSE
    OBVIOUS
<1>1. Init => TrunkInv
    BY <1>0, InitHolds, InitOnTrunk DEF TrunkInv
<1>2. TrunkInv /\ [Next]_vars => TrunkInv'
    BY <1>0, StepOnTrunk
<1>3. TrunkInv => LogIsOnChain
    BY <1>0, OnTrunkFacts DEF TrunkInv, OnTrunk, Trunk, LogIsOnChain
<1>4. QED
    BY <1>1, <1>2, <1>3, PTL DEF Spec

\* What became irreversible is never replaced: a step, a stop and the
\* reindex after it included, moves the oldest state up or down its chain
\* and never to another one.
THEOREM IrreversibleIsNotReplaced ==
    ASSUME SeveralConfirm, RootIsSettled, Redelivery = FALSE
    PROVE  Spec => IrreversibleNotReplaced
<1>0. SeveralConfirm /\ RootIsSettled /\ Redelivery = FALSE
    OBVIOUS
<1>1. Init => TrunkInv
    BY <1>0, InitHolds, InitOnTrunk DEF TrunkInv
<1>2. TrunkInv /\ [Next]_vars => TrunkInv'
    BY <1>0, StepOnTrunk
<1>3. TrunkInv /\ [Next]_vars
      => [Extends(Rewound'.head, Rewound.head) \/ Extends(Rewound.head, Rewound'.head)]_vars
    BY <1>0, StepOnTrunk DEF Moves
<1>4. QED
    BY <1>1, <1>2, <1>3, PTL DEF Spec, IrreversibleNotReplaced
=============================================================================
