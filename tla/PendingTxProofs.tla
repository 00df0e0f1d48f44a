--------------------------- MODULE PendingTxProofs ---------------------------
(***************************************************************************)
(* No transaction is twice on a chain, the pending session is what the     *)
(* pending transactions do, and no accepted transaction is lost, for any   *)
(* transactions, expirations, sizes and lengths of forks.                  *)
(***************************************************************************)
EXTENDS PendingTx, SequenceTheorems, SumFacts

\* The tables after k - 1 blocks: the undo stack has them up to the head, or
\* one less when there is no pending session.
Level(d, u, k) == IF k <= Len(u) THEN u[k] ELSE d

\* A duplicate of t is refused on d: it is in the list or has expired.
Refused(d, t) == d.num > 0 /\ (t \in d.known \/ d.time > Expires[t])

\* The tables after each block refuse every transaction up to that block.
Remembered(d, u, c) ==
    \A k \in 1 .. Len(c) + 1 : \A i \in 1 .. k - 1 : \A j \in 1 .. Len(c[i].txs) :
        Refused(Level(d, u, k), c[i].txs[j])

\* AppliedOnce of the blocks c, place by place.
Once(c) == \A i1, i2 \in 1 .. Len(c) :
    \A j1 \in 1 .. Len(c[i1].txs), j2 \in 1 .. Len(c[i2].txs) :
        c[i1].txs[j1] = c[i2].txs[j2] => i1 = i2 /\ j1 = j2

\* Mutual reading of the two forms.
LEMMA OncePlaces == chain \in Seq(Block) => (AppliedOnce <=> Once(chain))
<1> DEFINE places == UNION {{i} \X (1 .. Len(chain[i].txs)) : i \in 1 .. Len(chain)}
<1>1. \A i \in 1 .. Len(chain) : \A j \in 1 .. Len(chain[i].txs) : <<i, j>> \in places
    OBVIOUS
<1>2. \A p \in places : \E i \in 1 .. Len(chain) : \E j \in 1 .. Len(chain[i].txs) : p = <<i, j>>
    OBVIOUS
<1>3. AppliedOnce <=> \A p, q \in places : chain[p[1]].txs[p[2]] = chain[q[1]].txs[q[2]] => p = q
    BY DEF AppliedOnce
<1> HIDE DEF places
<1>4. AppliedOnce => Once(chain)
  <2> SUFFICES ASSUME AppliedOnce,
                      NEW i1 \in 1 .. Len(chain), NEW i2 \in 1 .. Len(chain),
                      NEW j1 \in 1 .. Len(chain[i1].txs), NEW j2 \in 1 .. Len(chain[i2].txs),
                      chain[i1].txs[j1] = chain[i2].txs[j2]
               PROVE  i1 = i2 /\ j1 = j2
      BY DEF Once
  <2>1. <<i1, j1>> \in places /\ <<i2, j2>> \in places
      BY <1>1
  <2>2. <<i1, j1>> = <<i2, j2>>
      BY <1>3, <2>1
  <2>3. QED
      BY <2>2
<1>5. Once(chain) => AppliedOnce
  <2> SUFFICES ASSUME Once(chain), NEW p \in places, NEW q \in places,
                      chain[p[1]].txs[p[2]] = chain[q[1]].txs[q[2]]
               PROVE  p = q
      BY <1>3
  <2>1. PICK i1 \in 1 .. Len(chain) : \E j \in 1 .. Len(chain[i1].txs) : p = <<i1, j>>
      BY <1>2
  <2>2. PICK j1 \in 1 .. Len(chain[i1].txs) : p = <<i1, j1>>
      BY <2>1
  <2>3. PICK i2 \in 1 .. Len(chain) : \E j \in 1 .. Len(chain[i2].txs) : q = <<i2, j>>
      BY <1>2
  <2>4. PICK j2 \in 1 .. Len(chain[i2].txs) : q = <<i2, j2>>
      BY <2>3
  <2>5. chain[i1].txs[j1] = chain[i2].txs[j2]
      BY <2>2, <2>4
  <2>6. i1 = i2 /\ j1 = j2
      BY <2>5 DEF Once
  <2>7. QED
      BY <2>2, <2>4, <2>6
<1>6. QED
    BY <1>4, <1>5

-----------------------------------------------------------------------------
(* Applying a block *)

\* The tables after more transactions.
LEMMA MoreTxs ==
    ASSUME NEW d \in DbState, NEW ts \in SUBSET Txs
    PROVE  /\ WithTxs(d, ts) \in DbState
           /\ WithTxs(d, ts).done = d.done \cup ts
           /\ WithTxs(d, ts).known = d.known \cup ts
           /\ WithTxs(d, ts).time = d.time /\ WithTxs(d, ts).num = d.num
  BY DEF DbState, WithTxs

\* The transactions of a sequence.
LEMMA SetOfSeq ==
    ASSUME NEW S, NEW s \in Seq(S)
    PROVE  ToSet(s) \in SUBSET S /\ ToSet(s) = {s[i] : i \in 1 .. Len(s)}
  BY DEF ToSet

\* The tables after a block.
LEMMA MoreBlocks ==
    ASSUME NEW d \in DbState, NEW b \in Block
    PROVE  /\ WithBlock(d, b) \in DbState
           /\ WithBlock(d, b).time = b.time /\ WithBlock(d, b).num = d.num + 1
           /\ \A t \in d.known \cup ToSet(b.txs) :
                 t \in WithBlock(d, b).known \/ b.time > Expires[t]
<1>1. b.txs \in Seq(Txs) /\ b.time \in Nat
    BY DEF Block
<1> DEFINE ts == ToSet(b.txs)
           e == WithTxs(d, ts)
<1>2. ts \in SUBSET Txs
    BY <1>1, SetOfSeq
<1> HIDE DEF ts
<1>3. e \in DbState /\ e.known = d.known \cup ts /\ e.num = d.num
    BY <1>2, MoreTxs
<1>4. WithBlock(d, b) = [e EXCEPT !.time = b.time, !.num = @ + 1,
                                  !.known = {t \in @ : ~(b.time > Expires[t])}]
    BY DEF WithBlock, ts
<1> HIDE DEF e
<1> DEFINE kept == {t \in e.known : ~(b.time > Expires[t])}
           w == WithBlock(d, b)
<1>5. w = [e EXCEPT !.time = b.time, !.num = e.num + 1, !.known = kept]
    BY <1>3, <1>4 DEF DbState
<1>6. \A t \in d.known \cup ts : t \in kept \/ b.time > Expires[t]
    BY <1>3
<1>7. kept \in SUBSET Txs
    BY <1>3 DEF DbState
<1> HIDE DEF kept, w
<1>8. /\ w = [done |-> e.done, known |-> kept, time |-> b.time, num |-> e.num + 1]
      /\ e.done \in SUBSET Txs /\ e.num \in Nat
    BY <1>3, <1>5 DEF DbState
<1>9. w \in DbState /\ w.time = b.time /\ w.num = d.num + 1 /\ w.known = kept
    BY <1>1, <1>3, <1>7, <1>8 DEF DbState
<1>10. QED
    BY <1>6, <1>9 DEF w, ts

\* Transactions that apply in their turn are none that the tables refuse, and
\* none of them is there twice.
LEMMA FreshSeq ==
    ASSUME NEW d \in DbState, NEW p \in Seq(Txs), TxsApply(d, p)
    PROVE  /\ \A j \in 1 .. Len(p) : ~Refused(d, p[j])
           /\ \A j1, j2 \in 1 .. Len(p) : p[j1] = p[j2] => j1 = j2
<1>1. p \in Seq(Txs)
    OBVIOUS
<1> DEFINE before(i) == {p[j] : j \in 1 .. (i - 1)}
<1>2. \A i \in 1 .. Len(p) : CanApply(WithTxs(d, before(i)), p[i])
    BY DEF TxsApply
<1>3. ASSUME NEW i \in 1 .. Len(p)
      PROVE  /\ p[i] \notin d.known \cup before(i)
             /\ d.num > 0 => d.time < Expires[p[i]]
             /\ p[i] \in Txs
  <2>1. before(i) \in SUBSET Txs
      BY <1>1
  <2> DEFINE e == WithTxs(d, before(i))
  <2>2. e.known = d.known \cup before(i) /\ e.num = d.num /\ e.time = d.time
      BY <2>1, MoreTxs
  <2> HIDE DEF e, before
  <2>3. CanApply(e, p[i])
      BY <1>2 DEF e
  <2>4. QED
      BY <1>1, <2>2, <2>3 DEF CanApply
<1>4. \A j \in 1 .. Len(p) : ~Refused(d, p[j])
    BY <1>3, PendingTxAssumption DEF Refused, DbState
<1>5. ASSUME NEW j1 \in 1 .. Len(p), NEW j2 \in 1 .. Len(p),
             p[j1] = p[j2], j1 < j2
      PROVE  FALSE
  <2>1. j1 \in 1 .. (j2 - 1)
      BY <1>1, <1>5
  <2>2. QED
      BY <1>3, <1>5, <2>1
<1>6. QED
    BY <1>1, <1>4, <1>5

\* A block that applies has no transaction that the tables refuse, and none
\* of its own twice.
LEMMA FreshTxs ==
    ASSUME NEW d \in DbState, NEW b \in Block, BlockApplies(d, b)
    PROVE  /\ \A j \in 1 .. Len(b.txs) : ~Refused(d, b.txs[j])
           /\ \A j1, j2 \in 1 .. Len(b.txs) : b.txs[j1] = b.txs[j2] => j1 = j2
  BY FreshSeq DEF BlockApplies, Block

\* What is refused stays refused after a block.
LEMMA StaysRefused ==
    ASSUME NEW d \in DbState, NEW b \in Block, BlockApplies(d, b), NEW t \in Txs,
           Refused(d, t) \/ t \in ToSet(b.txs)
    PROVE  Refused(WithBlock(d, b), t)
<1>1. d.time < b.time /\ b.time \in Nat /\ d.time \in Nat /\ d.num \in Nat /\ Expires[t] \in Nat
    BY PendingTxAssumption DEF BlockApplies, Block, DbState
<1>2. WithBlock(d, b).num > 0 /\ WithBlock(d, b).time = b.time
    BY <1>1, MoreBlocks
<1>3. t \in d.known \cup ToSet(b.txs) => t \in WithBlock(d, b).known \/ b.time > Expires[t]
    BY MoreBlocks
<1>4. QED
    BY <1>1, <1>2, <1>3 DEF Refused

\* The tables and blocks of a node without a pending session.
Sound(d, u, c) ==
    /\ d \in DbState /\ u \in Seq(DbState) /\ c \in Seq(Block)
    /\ Remembered(d, u, c) /\ Once(c)

\* A block that applies keeps them.
LEMMA ApplyKeeps ==
    ASSUME NEW d, NEW u, NEW c, Sound(d, u, c), Len(u) = Len(c),
           NEW b \in Block, BlockApplies(d, b)
    PROVE  Sound(WithBlock(d, b), Append(u, d), Append(c, b))
<1> DEFINE n == Len(c)
           e == WithBlock(d, b)
           v == Append(u, d)
           a == Append(c, b)
<1>1. /\ d \in DbState /\ u \in Seq(DbState) /\ c \in Seq(Block) /\ n \in Nat
      /\ Len(u) = n
    BY DEF Sound
<1>2. e \in DbState
    BY <1>1, MoreBlocks
<1>3. /\ v \in Seq(DbState) /\ Len(v) = n + 1 /\ v[n + 1] = d
      /\ \A k \in 1 .. n : v[k] = u[k]
    BY <1>1, AppendProperties
<1>4. /\ a \in Seq(Block) /\ Len(a) = n + 1 /\ a[n + 1] = b
      /\ \A k \in 1 .. n : a[k] = c[k]
    BY <1>1, AppendProperties
<1>5. b.txs \in Seq(Txs) /\ \A i \in 1 .. n : c[i].txs \in Seq(Txs)
  <2>1. \A i \in 1 .. n : c[i] \in Block
      BY <1>1
  <2> HIDE DEF n
  <2>2. QED
      BY <2>1 DEF Block
<1> HIDE DEF n, e, v, a
<1>6. \A k \in 1 .. n + 1 : Level(e, v, k) = Level(d, u, k)
    BY <1>1, <1>3 DEF Level
<1>7. Level(e, v, n + 2) = e /\ Level(d, u, n + 1) = d
    BY <1>1, <1>3 DEF Level
<1>8. \A k \in 1 .. n + 1 : \A i \in 1 .. k - 1 : \A j \in 1 .. Len(c[i].txs) :
          Refused(Level(d, u, k), c[i].txs[j])
    BY DEF Sound, Remembered, n
<1>9. \A i \in 1 .. n : \A j \in 1 .. Len(c[i].txs) : Refused(d, c[i].txs[j])
  <2> SUFFICES ASSUME NEW i \in 1 .. n, NEW j \in 1 .. Len(c[i].txs)
               PROVE  Refused(d, c[i].txs[j])
      OBVIOUS
  <2>1. i \in 1 .. (n + 1) - 1 /\ n + 1 \in 1 .. n + 1
      BY <1>1
  <2>2. QED
      BY <1>7, <1>8, <2>1
<1>10. Remembered(e, v, a)
  <2> SUFFICES ASSUME NEW k \in 1 .. n + 2, NEW i \in 1 .. k - 1, NEW j \in 1 .. Len(a[i].txs)
               PROVE  Refused(Level(e, v, k), a[i].txs[j])
    <3>1. Len(a) + 1 = n + 2
        BY <1>1, <1>4
    <3>2. QED
        BY <3>1 DEF Remembered
  <2>1. CASE k <= n + 1
    <3>1. k \in 1 .. n + 1 /\ i \in 1 .. n
        BY <1>1, <2>1
    <3>2. QED
        BY <1>4, <1>6, <1>8, <3>1
  <2>2. CASE k = n + 2 /\ i <= n
    <3>1. i \in 1 .. n
        BY <1>1, <2>2
    <3>2. Refused(d, c[i].txs[j]) /\ c[i].txs[j] \in Txs /\ a[i] = c[i]
        BY <1>4, <1>5, <1>9, <3>1
    <3>3. QED
        BY <1>1, <1>7, <2>2, <3>2, StaysRefused DEF e
  <2>3. CASE k = n + 2 /\ i = n + 1
    <3>1. b.txs[j] \in Txs /\ b.txs[j] \in ToSet(b.txs) /\ a[i] = b
        BY <1>4, <1>5, <2>3, SetOfSeq
    <3>2. QED
        BY <1>1, <1>7, <2>3, <3>1, StaysRefused DEF e
  <2>4. QED
      BY <1>1, <2>1, <2>2, <2>3
<1>11. Once(a)
  <2> SUFFICES ASSUME NEW i1 \in 1 .. n + 1, NEW i2 \in 1 .. n + 1,
                      NEW j1 \in 1 .. Len(a[i1].txs), NEW j2 \in 1 .. Len(a[i2].txs),
                      a[i1].txs[j1] = a[i2].txs[j2]
               PROVE  i1 = i2 /\ j1 = j2
      BY <1>4 DEF Once
  <2>1. CASE i1 # n + 1 /\ i2 # n + 1
    <3>1. i1 \in 1 .. n /\ i2 \in 1 .. n
        BY <1>1, <2>1
    <3>2. a[i1] = c[i1] /\ a[i2] = c[i2]
        BY <1>4, <3>1
    <3>3. QED
        BY <3>1, <3>2 DEF Sound, Once, n
  <2>2. CASE i1 = n + 1 /\ i2 # n + 1
    <3>1. i2 \in 1 .. n
        BY <1>1, <2>2
    <3>2. QED
        BY <1>1, <1>4, <1>9, <2>2, <3>1, FreshTxs
  <2>3. CASE i1 # n + 1 /\ i2 = n + 1
    <3>1. i1 \in 1 .. n
        BY <1>1, <2>3
    <3>2. QED
        BY <1>1, <1>4, <1>9, <2>3, <3>1, FreshTxs
  <2>4. CASE i1 = n + 1 /\ i2 = n + 1
      BY <1>1, <1>4, <2>4, FreshTxs
  <2>5. QED
      BY <2>1, <2>2, <2>3, <2>4
<1>12. QED
    BY <1>2, <1>3, <1>4, <1>10, <1>11 DEF Sound, e, v, a

\* Another way to keep the same tables after each block.
LEMMA SameLevels ==
    ASSUME NEW d, NEW u, NEW c, Sound(d, u, c),
           NEW e \in DbState, NEW v \in Seq(DbState),
           \A k \in 1 .. Len(c) + 1 : Level(e, v, k) = Level(d, u, k)
    PROVE  Sound(e, v, c)
  BY DEF Sound, Remembered

\* The last block popped.
LEMMA PopKeeps ==
    ASSUME NEW d, NEW u, NEW c, Sound(d, u, c), Len(u) = Len(c), c # <<>>
    PROVE  /\ Sound(Last(u), Front(u), Front(c))
           /\ Len(Front(u)) = Len(c) - 1 /\ Len(Front(c)) = Len(c) - 1
<1> DEFINE n == Len(c)
           e == Last(u)
           v == Front(u)
           a == Front(c)
<1>1. /\ u \in Seq(DbState) /\ c \in Seq(Block) /\ n \in Nat \ {0} /\ Len(u) = n
    BY EmptySeq DEF Sound
<1>2. e = u[n] /\ e \in DbState
    BY <1>1 DEF Last
<1>3. /\ v \in Seq(DbState) /\ Len(v) = n - 1
      /\ \A k \in 1 .. n - 1 : v[k] = u[k]
    BY <1>1, SubSeqProperties DEF Front
<1>4. /\ a \in Seq(Block) /\ Len(a) = n - 1
      /\ \A k \in 1 .. n - 1 : a[k] = c[k]
    BY <1>1, SubSeqProperties DEF Front
<1> HIDE DEF n, e, v, a
<1>5. \A k \in 1 .. n : Level(e, v, k) = Level(d, u, k)
    BY <1>1, <1>2, <1>3 DEF Level
<1>6. Remembered(e, v, a)
  <2> SUFFICES ASSUME NEW k \in 1 .. n, NEW i \in 1 .. k - 1, NEW j \in 1 .. Len(a[i].txs)
               PROVE  Refused(Level(e, v, k), a[i].txs[j])
    <3>1. Len(a) + 1 = n
        BY <1>1, <1>4
    <3>2. QED
        BY <3>1 DEF Remembered
  <2>1. k \in 1 .. n + 1 /\ i \in 1 .. n - 1
      BY <1>1
  <2>2. a[i] = c[i] /\ Level(e, v, k) = Level(d, u, k)
      BY <1>4, <1>5, <2>1
  <2>3. QED
      BY <2>1, <2>2 DEF Sound, Remembered, n
<1>7. Once(a)
  <2> SUFFICES ASSUME NEW i1 \in 1 .. n - 1, NEW i2 \in 1 .. n - 1,
                      NEW j1 \in 1 .. Len(a[i1].txs), NEW j2 \in 1 .. Len(a[i2].txs),
                      a[i1].txs[j1] = a[i2].txs[j2]
               PROVE  i1 = i2 /\ j1 = j2
      BY <1>4 DEF Once
  <2>1. i1 \in 1 .. n /\ i2 \in 1 .. n /\ a[i1] = c[i1] /\ a[i2] = c[i2]
      BY <1>1, <1>4
  <2>2. QED
      BY <2>1 DEF Sound, Once, n
<1>8. QED
    BY <1>1, <1>2, <1>3, <1>4, <1>6, <1>7 DEF Sound, n, e, v, a

-----------------------------------------------------------------------------
(* The block that is generated *)

\* What _generate_block() knows after some of the pending transactions.
Progress == [state : DbState, txs : Seq(Txs), size : Nat]
Include(when, acc, t) ==
    IF \/ Expires[t] < when
       \/ acc.size + Size[t] >= MaximumBlockSize
       \/ ~CanApply(acc.state, t)
    THEN acc
    ELSE [state |-> WithTxs(acc.state, {t}), txs |-> Append(acc.txs, t), size |-> acc.size + Size[t]]
Start(d) == [state |-> d, txs |-> <<>>, size |-> HeaderSize]

\* The fold over the transactions, from the last one back.
Generates(g, when, d, p) ==
    g = [s \in SUBSET DOMAIN p |->
           IF s = {} THEN Start(d) ELSE Include(when, g[s \ {Max(s)}], p[Max(s)])]

\* Generated() as the fold it is.
LEMMA GeneratedIsFold ==
    ASSUME NEW when
    PROVE  Generated(when) = (CHOOSE g : Generates(g, when, HeadState, pending))[DOMAIN pending].txs
  BY DEF Generated, FoldLeft, MapThenFoldSet, Generates, Include, Start

\* One more transaction.
LEMMA IncludeTyped ==
    ASSUME NEW when, NEW acc \in Progress, NEW t \in Txs
    PROVE  Include(when, acc, t) \in Progress
<1>1. acc.state \in DbState /\ acc.txs \in Seq(Txs) /\ acc.size \in Nat /\ Size[t] \in Nat
    BY PendingTxAssumption DEF Progress
<1>2. WithTxs(acc.state, {t}) \in DbState /\ Append(acc.txs, t) \in Seq(Txs) /\ acc.size + Size[t] \in Nat
    BY <1>1, MoreTxs
<1>3. QED
    BY <1>2 DEF Include, Progress

\* Of a set of places there is a last one.
LEMMA LastPlace ==
    ASSUME NEW n \in Nat, NEW s \in SUBSET (1 .. n), s # {}
    PROVE  Max(s) \in s
<1> DEFINE T == {m \in Nat : \A x \in s : x <= m}
<1>1. n \in T
    OBVIOUS
<1>2. PICK m \in T : \A k \in T : ~(k < m)
  <2>1. IsWellFoundedOn(OpToRel(<, Nat), Nat)
      BY NatLessThanWellFounded
  <2>2. PICK m \in T : \A k \in T : ~ (<<k, m>> \in OpToRel(<, Nat))
    <3>1. T \subseteq Nat /\ T # {}
        BY <1>1
    <3> HIDE DEF T
    <3>2. QED
        BY <2>1, <3>1, WFMin
  <2>3. QED
      BY <2>2 DEF OpToRel
<1>3. m \in s
  <2>1. m \in Nat /\ \A x \in s : x <= m /\ x \in Nat
      OBVIOUS
  <2>2. ASSUME m \notin s PROVE FALSE
    <3>1. \A x \in s : x < m
        BY <2>1, <2>2
    <3>2. m # 0 /\ m - 1 \in Nat
      <4>1. PICK x \in s : x \in Nat /\ x < m
          BY <2>1, <3>1
      <4>2. QED
          BY <2>1, <4>1
    <3>3. \A x \in s : x <= m - 1
        BY <2>1, <3>1, <3>2
    <3>4. m - 1 \in T /\ m - 1 < m
        BY <2>1, <3>2, <3>3
    <3> HIDE DEF T
    <3>5. QED
        BY <1>2, <3>4
  <2>3. QED
      BY <2>2
<1>4. \A y \in s : m >= y
    OBVIOUS
<1>5. QED
    BY <1>3, <1>4 DEF Max

\* The generated block consists of transactions.
LEMMA GeneratedTyped ==
    ASSUME NEW when, HeadState \in DbState, pending \in Seq(Txs)
    PROVE  Generated(when) \in Seq(Txs)
<1> DEFINE p == pending
           d == HeadState
           D == DOMAIN p
           c == [s \in SUBSET D |-> Max(s)]
           G == [q \in (SUBSET D) \X Progress |->
                   IF q[1] = {} THEN Start(d) ELSE Include(when, q[2], p[Max(q[1])])]
<1>1. Start(d) \in Progress
    BY PendingTxAssumption, EmptySeq DEF Start, Progress
<1>2. Len(p) \in Nat /\ D = 1 .. Len(p) /\ IsFiniteSet(D) /\ \A i \in D : p[i] \in Txs
    BY FS_Interval
<1>3. \A s \in SUBSET D : s # {} => Max(s) \in s
    BY <1>2, LastPlace
<1>4. Chooses(c, D) /\ \A s \in SUBSET D : c[s] = Max(s)
    BY <1>3 DEF Chooses
<1> HIDE DEF D, d, p
<1>5. G \in [(SUBSET D) \X Progress -> Progress]
  <2>1. ASSUME NEW q \in (SUBSET D) \X Progress
        PROVE  (IF q[1] = {} THEN Start(d) ELSE Include(when, q[2], p[Max(q[1])])) \in Progress
    <3>1. q[1] \in SUBSET D /\ q[2] \in Progress
        OBVIOUS
    <3>2. q[1] # {} => p[Max(q[1])] \in Txs
        BY <1>2, <1>3, <3>1
    <3>3. QED
        BY <1>1, <3>1, <3>2, IncludeTyped
  <2>2. QED
      BY <2>1
<1>6. \A s \in SUBSET D, v \in Progress : s # {} => G[<<s, v>>] = Include(when, v, p[Max(s)])
    OBVIOUS
<1> HIDE DEF c, G
<1>7. \E g : Generates(g, when, d, p)
  <2>1. PICK g \in [SUBSET D -> Progress] : Recursive(g, D, Start(d), c, G)
      BY <1>1, <1>2, <1>4, <1>5, RecursionOverSubsets
  <2>2. \A s \in SUBSET D : g[s] = IF s = {} THEN Start(d) ELSE Include(when, g[s \ {Max(s)}], p[Max(s)])
    <3> SUFFICES ASSUME NEW s \in SUBSET D, s # {}
                 PROVE  g[s] = Include(when, g[s \ {Max(s)}], p[Max(s)])
        BY <2>1 DEF Recursive
    <3>1. g[s \ {Max(s)}] \in Progress
        OBVIOUS
    <3>2. g[s] = G[<<s, g[s \ {Max(s)}]>>]
        BY <1>4, <2>1 DEF Recursive
    <3>3. QED
        BY <1>6, <3>1, <3>2
  <2>3. g = [s \in SUBSET D |-> g[s]]
      OBVIOUS
  <2>4. QED
      BY <2>2, <2>3, Zenon DEF Generates, D
<1> DEFINE g == CHOOSE h : Generates(h, when, d, p)
<1>8. Generates(g, when, d, p)
    BY <1>7
<1> HIDE DEF g
<1>9. \A s \in SUBSET D : g[s] = IF s = {} THEN Start(d) ELSE Include(when, g[s \ {Max(s)}], p[Max(s)])
    BY <1>8 DEF Generates, D
<1> DEFINE T == {s \in SUBSET D : g[s] \in Progress}
<1>10. ASSUME NEW s \in SUBSET D, \A r \in SUBSET s : r # s => r \in T PROVE s \in T
  <2>1. CASE s = {}
      BY <1>1, <1>9, <2>1
  <2>2. CASE s # {}
    <3>1. Max(s) \in s /\ p[Max(s)] \in Txs
        BY <1>2, <1>3, <2>2
    <3>2. g[s \ {Max(s)}] \in Progress
        BY <1>10, <3>1
    <3>3. QED
        BY <1>9, <2>2, <3>1, <3>2, IncludeTyped
  <2>3. QED
      BY <2>1, <2>2
<1>11. T = SUBSET D
  <2>1. T \in SUBSET (SUBSET D)
      OBVIOUS
  <2> HIDE DEF T
  <2>2. QED
      BY <1>2, <1>10, <2>1, SubsetsBySize
<1>12. g[D].txs \in Seq(Txs)
    BY <1>11 DEF Progress
<1>13. QED
    BY <1>12, GeneratedIsFold DEF g, d, p, D

-----------------------------------------------------------------------------
(* The pending session *)

\* The pending transactions p, applied in their turn on d, give e.
Replays(d, p, e) == TxsApply(d, p) /\ e = WithTxs(d, ToSet(p))

\* No transactions.
LEMMA ReplaysNone == ASSUME NEW d \in DbState PROVE Replays(d, <<>>, d)
<1>1. ToSet(<<>>) = {} /\ Len(<<>>) = 0
    BY DEF ToSet
<1>2. WithTxs(d, {}) = d
    BY DEF WithTxs, DbState
<1>3. 1 .. Len(<<>>) = {}
    BY <1>1
<1>4. TxsApply(d, <<>>)
    BY <1>3, Zenon DEF TxsApply
<1>5. QED
    BY <1>1, <1>2, <1>4 DEF Replays

\* One more that applies.
LEMMA ReplaysMore ==
    ASSUME NEW d \in DbState, NEW p \in Seq(Txs), NEW e, Replays(d, p, e),
           NEW t \in Txs, CanApply(e, t)
    PROVE  Replays(d, Append(p, t), WithTxs(e, {t}))
<1> DEFINE n == Len(p)
           a == Append(p, t)
<1>1. n \in Nat
    OBVIOUS
<1>2. a \in Seq(Txs) /\ Len(a) = n + 1 /\ a[n + 1] = t /\ \A i \in 1 .. n : a[i] = p[i]
    BY AppendProperties
<1>3. ToSet(p) = {p[j] : j \in 1 .. n} /\ ToSet(p) \in SUBSET Txs
    BY SetOfSeq
<1>4. ToSet(a) = {a[j] : j \in 1 .. n + 1}
    BY <1>2, SetOfSeq
<1> HIDE DEF n, a
<1>5. \A i \in 1 .. n + 1 : {a[j] : j \in 1 .. (i - 1)} = {p[j] : j \in 1 .. (i - 1)}
  <2> SUFFICES ASSUME NEW i \in 1 .. n + 1
               PROVE  {a[j] : j \in 1 .. (i - 1)} = {p[j] : j \in 1 .. (i - 1)}
      OBVIOUS
  <2>1. \A j \in 1 .. (i - 1) : a[j] = p[j]
      BY <1>1, <1>2
  <2>2. QED
      BY <2>1
<1>6. {p[j] : j \in 1 .. ((n + 1) - 1)} = ToSet(p)
  <2>1. (n + 1) - 1 = n
      BY <1>1
  <2>2. QED
      BY <1>3, <2>1
<1>7. ToSet(a) = ToSet(p) \cup {t}
  <2>1. \A x \in ToSet(a) : x \in ToSet(p) \cup {t}
    <3> SUFFICES ASSUME NEW j \in 1 .. n + 1 PROVE a[j] \in ToSet(p) \cup {t}
        BY <1>4
    <3>1. CASE j = n + 1
        BY <1>2, <3>1
    <3>2. CASE j \in 1 .. n
        BY <1>2, <1>3, <3>2
    <3>3. QED
        BY <1>1, <3>1, <3>2
  <2>2. \A x \in ToSet(p) : x \in ToSet(a)
    <3> SUFFICES ASSUME NEW j \in 1 .. n PROVE p[j] \in ToSet(a)
        BY <1>3
    <3>1. j \in 1 .. n + 1 /\ p[j] = a[j]
        BY <1>1, <1>2
    <3>2. QED
        BY <1>4, <3>1
  <2>3. t \in ToSet(a)
    <3>1. n + 1 \in 1 .. n + 1
        BY <1>1
    <3>2. QED
        BY <1>2, <1>4, <3>1
  <2>4. QED
      BY <2>1, <2>2, <2>3
<1>8. WithTxs(d, ToSet(p) \cup {t}) = WithTxs(WithTxs(d, ToSet(p)), {t})
    BY DEF WithTxs, DbState
<1>9. TxsApply(d, a)
  <2> SUFFICES ASSUME NEW i \in 1 .. n + 1
               PROVE  CanApply(WithTxs(d, {a[j] : j \in 1 .. (i - 1)}), a[i])
      BY <1>2 DEF TxsApply
  <2>1. CASE i = n + 1
      BY <1>2, <1>5, <1>6, <2>1 DEF Replays
  <2>2. CASE i \in 1 .. n
      BY <1>2, <1>5, <2>2 DEF Replays, TxsApply, n
  <2>3. QED
      BY <1>1, <2>1, <2>2
<1>10. QED
    BY <1>7, <1>8, <1>9 DEF Replays, a
-----------------------------------------------------------------------------
(* The invariant *)

Pcs == {"idle", "pop", "push", "unwind", "restore", "retry", "clear"}
Task == [pc : Pcs, pops : Nat, pushes : Nat, applied : Nat, old : Seq(Block),
         own : Seq(Block), failed : BOOLEAN, saved : Seq(Txs), before : SUBSET Txs]

\* Tables, undo stack and blocks belong together: a session per block, and one
\* more for the pending transactions.
Tables ==
    /\ Sound(db, undo_stack, chain) /\ session \in BOOLEAN
    /\ Len(undo_stack) = Len(chain) + IF session THEN 1 ELSE 0

\* While blocks are popped and applied there is no pending session, and what
\* is to be popped or applied again is there.
Handling ==
    /\ task \in Task /\ popped \in Seq(Txs)
    /\ task.pc \in {"pop", "push", "unwind", "restore"} => ~session
    /\ task.pc = "pop" => task.pops \in 1 .. Len(chain) /\ task.applied = 0
    /\ task.pc = "push" => task.applied <= Len(chain) /\ task.pushes > 0
    /\ task.pc = "pop" => task.pushes > 0
    /\ task.pc = "unwind" => task.applied \in 1 .. Len(chain)
    /\ task.pc \in {"unwind", "restore"} => task.old # <<>>

Pending ==
    /\ pending \in Seq(Txs)
    /\ session => Replays(Last(undo_stack), pending, db)
    /\ ~session /\ task.pc # "clear" => pending = <<>>

IndInv == Tables /\ Handling /\ Pending

\* The head of the chain, below the pending session.
LEMMA HeadHolds ==
    ASSUME Tables
    PROVE  /\ HeadState \in DbState /\ HeadStack \in Seq(DbState)
           /\ Sound(HeadState, HeadStack, chain) /\ Len(HeadStack) = Len(chain)
           /\ session => undo_stack # <<>> /\ Last(undo_stack) \in DbState
<1> DEFINE n == Len(chain)
<1>1. /\ db \in DbState /\ undo_stack \in Seq(DbState) /\ chain \in Seq(Block) /\ n \in Nat
      /\ Sound(db, undo_stack, chain)
    BY DEF Tables, Sound
<1>2. CASE session
  <2>1. Len(undo_stack) = n + 1
      BY <1>2 DEF Tables
  <2> HIDE DEF n
  <2>2. HeadState = undo_stack[n + 1] /\ HeadState \in DbState
      BY <1>1, <1>2, <2>1 DEF HeadState, Last
  <2>3. HeadStack = SubSeq(undo_stack, 1, n)
    <3>1. Len(undo_stack) - 1 = n
        BY <1>1, <2>1
    <3>2. QED
        BY <1>2, <3>1 DEF HeadStack, Front
  <2>4. \A i \in 1 .. n : undo_stack[i] \in DbState
      BY <1>1, <2>1
  <2>5. /\ HeadStack \in Seq(DbState) /\ Len(HeadStack) = n
        /\ \A i \in 1 .. n : HeadStack[i] = undo_stack[i]
      BY <1>1, <2>3, <2>4, SubSeqProperties
  <2>6. \A k \in 1 .. n + 1 : Level(HeadState, HeadStack, k) = Level(db, undo_stack, k)
      BY <1>1, <2>1, <2>2, <2>5 DEF Level
  <2>7. Sound(HeadState, HeadStack, chain)
      BY <1>1, <2>2, <2>5, <2>6, SameLevels DEF n
  <2>8. undo_stack # <<>> /\ Last(undo_stack) \in DbState
      BY <1>1, <2>1, <2>2, EmptySeq DEF Last
  <2>9. QED
      BY <2>2, <2>5, <2>7, <2>8 DEF n
<1>3. CASE ~session
    BY <1>1, <1>3 DEF HeadState, HeadStack, Tables
<1>4. QED
    BY <1>2, <1>3

\* A transaction that is tried keeps the tables, and the session is what the
\* pending transactions do.
LEMMA TryHolds ==
    ASSUME Tables, Pending, ~session => pending = <<>>,
           NEW t \in Txs, TryTransaction(t), chain' = chain
    PROVE  /\ Tables' /\ session'
           /\ pending' \in Seq(Txs) /\ Replays(Last(undo_stack'), pending', db')
           /\ \A k \in 1 .. Len(chain) + 1 : Level(db', undo_stack', k) = Level(db, undo_stack, k)
<1> DEFINE n == Len(chain)
<1>1. /\ db \in DbState /\ undo_stack \in Seq(DbState) /\ chain \in Seq(Block) /\ n \in Nat
      /\ Sound(db, undo_stack, chain) /\ pending \in Seq(Txs) /\ session \in BOOLEAN
    BY DEF Tables, Sound, Pending
<1>2. db' \in DbState
    BY <1>1, MoreTxs DEF TryTransaction
<1>3. /\ undo_stack' \in Seq(DbState) /\ Len(undo_stack') = n + 1
      /\ \A k \in 1 .. n + 1 : undo_stack'[k] = Level(db, undo_stack, k)
  <2>1. CASE session
    <3>1. undo_stack' = undo_stack /\ Len(undo_stack) = n + 1
        BY <2>1 DEF TryTransaction, Tables
    <3> HIDE DEF n
    <3>2. QED
        BY <1>1, <3>1 DEF Level
  <2>2. CASE ~session
    <3>1. undo_stack' = Append(undo_stack, db) /\ Len(undo_stack) = n
        BY <1>1, <2>2 DEF TryTransaction, Tables
    <3> DEFINE v == Append(undo_stack, db)
    <3> HIDE DEF n
    <3>2. /\ v \in Seq(DbState) /\ Len(v) = n + 1 /\ v[n + 1] = db
          /\ \A k \in 1 .. n : v[k] = undo_stack[k]
        BY <1>1, <3>1, AppendProperties
    <3> HIDE DEF v
    <3>3. \A k \in 1 .. n + 1 : v[k] = Level(db, undo_stack, k)
        BY <1>1, <3>1, <3>2 DEF Level
    <3>4. QED
        BY <3>1, <3>2, <3>3 DEF v
  <2>3. QED
      BY <2>1, <2>2
<1>4. \A k \in 1 .. n + 1 : Level(db', undo_stack', k) = Level(db, undo_stack, k)
  <2> HIDE DEF n
  <2> QED
    BY <1>1, <1>3 DEF Level
<1>5. Sound(db', undo_stack', chain)
    BY <1>1, <1>2, <1>3, <1>4, SameLevels
<1>6. Tables' /\ session'
    BY <1>3, <1>5 DEF Tables, TryTransaction
<1> DEFINE d == HeadState
<1>7. Last(undo_stack') = d /\ d \in DbState
  <2>1. d \in DbState
      BY HeadHolds
  <2>2. CASE session
      BY <2>1, <2>2 DEF TryTransaction, HeadState
  <2>3. CASE ~session
    <3>1. Last(undo_stack') = undo_stack'[n + 1]
        BY <1>3 DEF Last
    <3>2. Len(undo_stack) = n
        BY <1>1, <2>3 DEF Tables
    <3> HIDE DEF n
    <3>3. Level(db, undo_stack, n + 1) = db /\ n + 1 \in 1 .. n + 1
        BY <1>1, <3>2 DEF Level
    <3>4. QED
        BY <1>3, <2>1, <2>3, <3>1, <3>3 DEF HeadState
  <2>4. QED
      BY <2>2, <2>3
<1>8. Replays(d, pending, db)
    BY <1>1, ReplaysNone DEF HeadState, Pending
<1>9. pending' \in Seq(Txs) /\ Replays(d, pending', db')
  <2>1. CASE CanApply(db, t)
    <3>1. db' = WithTxs(db, {t}) /\ pending' = Append(pending, t)
        BY <2>1 DEF TryTransaction
    <3>2. Replays(d, Append(pending, t), WithTxs(db, {t})) /\ Append(pending, t) \in Seq(Txs)
        BY <1>1, <1>7, <1>8, <2>1, ReplaysMore, AppendProperties
    <3>3. QED
        BY <3>1, <3>2
  <2>2. CASE ~CanApply(db, t)
      BY <1>1, <1>8, <2>2 DEF TryTransaction
  <2>3. QED
      BY <2>1, <2>2
<1>10. QED
    BY <1>4, <1>6, <1>7, <1>9

\* The pending session undone.
LEMMA ClearHolds ==
    ASSUME Tables, db' = HeadState, undo_stack' = HeadStack, session' = FALSE, chain' = chain
    PROVE  Tables'
<1>1. Sound(HeadState, HeadStack, chain) /\ Len(HeadStack) = Len(chain)
    BY HeadHolds
<1>2. Len(chain) \in Nat
    BY DEF Tables, Sound
<1>3. Sound(db', undo_stack', chain')
    BY <1>1, Zenon
<1>4. Len(undo_stack') = Len(chain')
    BY <1>1
<1>5. Len(undo_stack') = Len(chain') + IF session' THEN 1 ELSE 0
    BY <1>2, <1>4
<1>6. session' \in BOOLEAN
    OBVIOUS
<1>7. QED
    BY <1>3, <1>5, <1>6 DEF Tables

\* A block applied.
LEMMA ApplyHolds ==
    ASSUME Tables, ~session, UNCHANGED session, NEW b \in Block, ApplyBlock(b)
    PROVE  Tables' /\ Len(chain') = Len(chain) + 1
<1>1. /\ Sound(db, undo_stack, chain) /\ Len(undo_stack) = Len(chain) /\ Len(chain) \in Nat
      /\ chain \in Seq(Block) /\ undo_stack \in Seq(DbState) /\ db \in DbState
    BY DEF Tables, Sound
<1>2. Sound(WithBlock(db, b), Append(undo_stack, db), Append(chain, b))
    BY <1>1, ApplyKeeps DEF ApplyBlock
<1>3. Len(Append(undo_stack, db)) = Len(chain) + 1 /\ Len(Append(chain, b)) = Len(chain) + 1
    BY <1>1, AppendProperties
<1>4. QED
    BY <1>2, <1>3 DEF ApplyBlock, Tables

\* A block popped.
LEMMA PopHolds ==
    ASSUME Tables, ~session, UNCHANGED session, popped \in Seq(Txs), chain # <<>>, PopBlock
    PROVE  Tables' /\ Len(chain') = Len(chain) - 1 /\ popped' \in Seq(Txs) /\ Last(chain) \in Block
<1>1. /\ Sound(db, undo_stack, chain) /\ Len(undo_stack) = Len(chain) /\ Len(chain) \in Nat \ {0}
      /\ chain \in Seq(Block)
    BY EmptySeq DEF Tables, Sound
<1>2. /\ Sound(Last(undo_stack), Front(undo_stack), Front(chain))
      /\ Len(Front(undo_stack)) = Len(chain) - 1 /\ Len(Front(chain)) = Len(chain) - 1
    BY <1>1, PopKeeps
<1>3. Last(chain) \in Block
    BY <1>1 DEF Last
<1>4. Last(chain).txs \in Seq(Txs)
    BY <1>3 DEF Block
<1>5. popped' \in Seq(Txs)
    BY <1>4, ConcatProperties DEF PopBlock
<1>6. QED
    BY <1>1, <1>2, <1>3, <1>5 DEF PopBlock, Tables

-----------------------------------------------------------------------------
(* One step *)

\* What the node holds are transactions.
LEMMA AcceptedTyped == IndInv => Accepted \in SUBSET Txs
<1> SUFFICES ASSUME IndInv, NEW t \in Accepted PROVE t \in Txs
    OBVIOUS
<1>1. pending \in Seq(Txs) /\ chain \in Seq(Block)
    BY DEF IndInv, Pending, Tables, Sound
<1>2. CASE t \in ToSet(pending)
    BY <1>1, <1>2, SetOfSeq
<1>3. CASE \E i \in 1 .. Len(chain) : t \in ToSet(chain[i].txs)
  <2>1. PICK i \in 1 .. Len(chain) : t \in ToSet(chain[i].txs)
      BY <1>3
  <2>2. chain[i] \in Block
      BY <1>1
  <2>3. chain[i].txs \in Seq(Txs)
      BY <2>2 DEF Block
  <2>4. QED
      BY <2>1, <2>3, SetOfSeq
<1>4. QED
    BY <1>2, <1>3 DEF Accepted

\* push_block() begins.
LEMMA BeginHolds ==
    ASSUME IndInv, task.pc = "idle", NEW pops \in Nat, NEW pushes \in Nat, NEW own \in Seq(Block),
           pops <= Len(chain), pops > 0 => pushes > 0, BeginPush(pops, pushes, own)
    PROVE  IndInv'
<1>1. Tables'
    BY ClearHolds DEF IndInv, BeginPush
<1>2. /\ task' = [Idle(Accepted) EXCEPT
                   !.pc = IF pops > 0 THEN "pop" ELSE IF pushes > 0 THEN "push" ELSE "retry",
                   !.pops = pops, !.pushes = pushes, !.own = own, !.saved = pending]
      /\ chain' = chain /\ popped' = popped /\ pending' = <<>> /\ session' = FALSE
    BY DEF BeginPush
<1>3. Accepted \in SUBSET Txs /\ pending \in Seq(Txs) /\ <<>> \in Seq(Block) /\ <<>> \in Seq(Txs)
    BY AcceptedTyped, EmptySeq DEF IndInv, Pending
<1>4. Len(chain) \in Nat /\ popped \in Seq(Txs)
    BY DEF IndInv, Tables, Sound, Handling
<1> DEFINE pc == IF pops > 0 THEN "pop" ELSE IF pushes > 0 THEN "push" ELSE "retry"
<1>5. task' = [pc |-> pc, pops |-> pops, pushes |-> pushes, applied |-> 0, old |-> <<>>,
               own |-> own, failed |-> FALSE, saved |-> pending, before |-> Accepted]
    BY <1>2 DEF Idle
<1>6. task' \in Task
    BY <1>3, <1>5 DEF Task, Pcs
<1>7. task'.pc = pc /\ task'.pops = pops /\ task'.pushes = pushes /\ task'.applied = 0
    BY <1>5
<1>8. Handling'
    BY <1>2, <1>4, <1>6, <1>7 DEF Handling
<1>9. Pending'
    BY <1>2, <1>3 DEF Pending
<1>10. QED
    BY <1>1, <1>8, <1>9 DEF IndInv

\* A record of the task of an idle node, or of one that has to clear.
LEMMA RestingTask ==
    ASSUME NEW B \in SUBSET Txs
    PROVE  /\ Idle(B) \in Task /\ Idle(B).pc = "idle"
           /\ [Idle(B) EXCEPT !.pc = "clear"] \in Task
           /\ [Idle(B) EXCEPT !.pc = "clear"].pc = "clear"
<1>1. <<>> \in Seq(Block) /\ <<>> \in Seq(Txs)
    BY EmptySeq
<1>2. QED
    BY <1>1 DEF Idle, Task, Pcs

\* A transaction, a block of the network, and a block of the node.
LEMMA CallsHold ==
    ASSUME IndInv, \/ \E t \in Txs : PushTransaction(t)
                   \/ \E pops \in 0 .. MaxPops : PushBlock(pops)
                   \/ \E when \in 1 .. MaxTime : GenerateBlock(when)
    PROVE  IndInv'
<1>0. MaxPops \in Nat /\ MaxTime \in Nat
    BY PendingTxAssumption
<1>1. ASSUME NEW t \in Txs, PushTransaction(t) PROVE IndInv'
  <2>1. /\ TryTransaction(t) /\ chain' = chain /\ popped' = popped /\ task' = task
        /\ task.pc = "idle"
      BY <1>1 DEF PushTransaction
  <2>2. ~session => pending = <<>>
      BY <2>1 DEF IndInv, Pending
  <2>3. Tables' /\ session' /\ pending' \in Seq(Txs) /\ Replays(Last(undo_stack'), pending', db')
      BY <2>1, <2>2, TryHolds DEF IndInv
  <2>4. Handling'
      BY <2>1 DEF IndInv, Handling
  <2>5. QED
      BY <2>3, <2>4 DEF IndInv, Pending
<1>2. ASSUME NEW pops \in 0 .. MaxPops, PushBlock(pops) PROVE IndInv'
  <2>1. task.pc = "idle" /\ pops <= Len(chain) /\ pops \in Nat /\ <<>> \in Seq(Block) /\ Len(chain) \in Nat
      BY <1>0, <1>2, EmptySeq DEF PushBlock, IndInv, Tables, Sound
  <2>2. CASE pops = 0 /\ BeginPush(0, 0, <<>>)
    <3>1. 0 \in Nat /\ 0 <= Len(chain) /\ (0 > 0 => 0 > 0)
        BY <2>1
    <3>2. QED
        BY <2>1, <2>2, <3>1, BeginHolds, Zenon
  <2>3. CASE BeginPush(pops, pops + 1, <<>>)
    <3>1. pops + 1 \in Nat /\ (pops > 0 => pops + 1 > 0)
        BY <2>1
    <3>2. QED
        BY <2>1, <2>3, <3>1, BeginHolds
  <2>4. QED
      BY <1>2, <2>2, <2>3 DEF PushBlock
<1>3. ASSUME NEW when \in 1 .. MaxTime, GenerateBlock(when) PROVE IndInv'
  <2> DEFINE block == [txs |-> Generated(when), time |-> when]
  <2>1. task.pc = "idle" /\ HeadState \in DbState /\ pending \in Seq(Txs) /\ Len(chain) \in Nat
      BY <1>3, HeadHolds DEF GenerateBlock, IndInv, Pending, Tables, Sound
  <2>2. block \in Block
    <3>1. Generated(when) \in Seq(Txs) /\ when \in Nat
        BY <1>0, <2>1, GeneratedTyped
    <3>2. QED
        BY <3>1 DEF Block
  <2>3. \/ BeginPush(0, 1, <<block>>)
        \/ /\ db' = HeadState /\ undo_stack' = HeadStack /\ session' = FALSE
           /\ task' = [Idle({}) EXCEPT !.pc = "clear"]
           /\ UNCHANGED <<chain, pending, popped>>
      BY <1>3 DEF GenerateBlock
  <2> HIDE DEF block
  <2>4. CASE BeginPush(0, 1, <<block>>)
    <3>1. <<block>> \in Seq(Block)
        BY <2>2
    <3>2. 0 \in Nat /\ 1 \in Nat /\ 0 <= Len(chain) /\ (0 > 0 => 1 > 0)
        BY <2>1
    <3>3. QED
        BY <2>1, <2>4, <3>1, <3>2, BeginHolds, Zenon
  <2>5. CASE /\ db' = HeadState /\ undo_stack' = HeadStack /\ session' = FALSE
             /\ task' = [Idle({}) EXCEPT !.pc = "clear"]
             /\ UNCHANGED <<chain, pending, popped>>
    <3>1. Tables'
        BY <2>5, ClearHolds DEF IndInv
    <3>2. task' \in Task /\ task'.pc = "clear"
        BY <2>5, RestingTask
    <3>3. Handling' /\ Pending'
        BY <2>1, <2>5, <3>2 DEF IndInv, Handling, Pending
    <3>4. QED
        BY <3>1, <3>3 DEF IndInv
  <2>6. QED
      BY <2>3, <2>4, <2>5
<1>4. QED
    BY <1>1, <1>2, <1>3

\* A block of another node, or the one that was generated.
LEMMA CandidatesTyped == IndInv => Candidates \subseteq Block
<1> SUFFICES ASSUME IndInv, NEW b \in Candidates PROVE b \in Block
    OBVIOUS
<1>1. task.own \in Seq(Block) /\ db.time \in Nat
    BY DEF IndInv, Handling, Task, Tables, Sound, DbState
<1>2. CASE task.own # <<>>
    BY <1>1, <1>2, SetOfSeq DEF Candidates
<1>3. CASE task.own = <<>>
  <2> DEFINE seqs == UNION {[1 .. n -> Txs] : n \in 0 .. MaxBlockTxs}
  <2>1. b \in [txs : seqs, time : (db.time + 1) .. MaxTime]
      BY <1>3 DEF Candidates
  <2>2. ASSUME NEW s \in seqs PROVE s \in Seq(Txs)
    <3>1. PICK n \in 0 .. MaxBlockTxs : s \in [1 .. n -> Txs]
        OBVIOUS
    <3>2. n \in Nat
        BY PendingTxAssumption
    <3>3. QED
        BY <3>1, <3>2, SeqDef
  <2> HIDE DEF seqs
  <2>3. b.txs \in Seq(Txs) /\ b.time \in Nat /\ b = [txs |-> b.txs, time |-> b.time]
      BY <1>1, <2>1, <2>2, PendingTxAssumption
  <2>4. QED
      BY <2>3 DEF Block
<1>4. QED
    BY <1>2, <1>3

\* A pop keeps what is pending, which is nothing.
LEMMA NothingPending ==
    ASSUME IndInv, task.pc \in {"pop", "push", "unwind", "restore"},
           session' = session, pending' = pending
    PROVE  ~session /\ Pending'
<1>1. ~session /\ pending = <<>> /\ pending \in Seq(Txs) /\ session \in BOOLEAN
    BY DEF IndInv, Handling, Pending, Tables
<1>2. QED
    BY <1>1 DEF Pending

\* The old fork is popped.
LEMMA PopOldHolds == IndInv /\ PopOldBlock => IndInv'
<1> SUFFICES ASSUME IndInv, PopOldBlock PROVE IndInv'
    OBVIOUS
<1>1. /\ task.pc = "pop" /\ PopBlock /\ session' = session /\ pending' = pending
      /\ task' = [task EXCEPT !.pc = IF task.pops = 1 THEN "push" ELSE "pop",
                              !.pops = @ - 1, !.old = <<Last(chain)>> \o @]
    BY DEF PopOldBlock
<1>2. /\ ~session /\ Pending'
    BY <1>1, NothingPending
<1>3. /\ task.pops \in 1 .. Len(chain) /\ task.applied = 0 /\ task.pushes > 0 /\ task \in Task
      /\ chain \in Seq(Block) /\ popped \in Seq(Txs) /\ Tables
    BY <1>1 DEF IndInv, Handling, Tables, Sound
<1>4. chain # <<>> /\ Len(chain) \in Nat
    BY <1>3, EmptySeq
<1>5. Tables' /\ Len(chain') = Len(chain) - 1 /\ popped' \in Seq(Txs) /\ Last(chain) \in Block
    BY <1>1, <1>2, <1>3, <1>4, PopHolds
<1>6. task.old \in Seq(Block) /\ task.pops \in Nat /\ task.pushes \in Nat
    BY <1>3 DEF Task
<1>7. <<Last(chain)>> \o task.old \in Seq(Block)
  <2>1. <<Last(chain)>> \in Seq(Block)
      BY <1>5
  <2>2. QED
      BY <1>6, <2>1, ConcatProperties
<1>8. task.pops - 1 \in Nat
    BY <1>3, <1>4
<1> DEFINE o == <<Last(chain)>> \o task.old
           m == task.pops - 1
           q == IF task.pops = 1 THEN "push" ELSE "pop"
<1>9. task' = [task EXCEPT !.pc = q, !.pops = m, !.old = o]
    BY <1>1, <1>3 DEF Task
<1>10. q \in {"push", "pop"} /\ (q = "pop" => m \in 1 .. Len(chain) - 1)
    BY <1>3, <1>4
<1> HIDE DEF o, m, q
<1>11. /\ task' \in Task /\ task'.pc = q /\ task'.pops = m
       /\ task'.applied = 0 /\ task'.pushes = task.pushes
    BY <1>3, <1>7, <1>8, <1>9, <1>10 DEF Task, Pcs, o, m
<1>12. Handling'
    BY <1>1, <1>2, <1>3, <1>4, <1>5, <1>10, <1>11 DEF Handling
<1>13. QED
    BY <1>2, <1>5, <1>12 DEF IndInv

\* The next block of the new fork.
LEMMA ApplyNewHolds == IndInv /\ ApplyNewBlock => IndInv'
<1> SUFFICES ASSUME IndInv, ApplyNewBlock PROVE IndInv'
    OBVIOUS
<1>1. /\ task.pc = "push" /\ session' = session /\ pending' = pending /\ popped' = popped
      /\ task' = [task EXCEPT !.pc = IF task.pushes = 1 THEN "retry" ELSE "push",
                              !.pushes = @ - 1, !.applied = @ + 1]
    BY DEF ApplyNewBlock
<1>2. PICK b \in Block : ApplyBlock(b)
    BY CandidatesTyped DEF ApplyNewBlock
<1>3. ~session /\ Pending'
    BY <1>1, NothingPending
<1>4. /\ task.applied <= Len(chain) /\ task.pushes > 0 /\ task \in Task
      /\ Len(chain) \in Nat /\ popped \in Seq(Txs) /\ Tables
    BY <1>1 DEF IndInv, Handling, Tables, Sound
<1>5. Tables' /\ Len(chain') = Len(chain) + 1
    BY <1>1, <1>2, <1>3, <1>4, ApplyHolds
<1>6. task.pushes \in Nat /\ task.applied \in Nat
    BY <1>4 DEF Task
<1> DEFINE m == task.pushes - 1
           k == task.applied + 1
           q == IF task.pushes = 1 THEN "retry" ELSE "push"
<1>7. task' = [task EXCEPT !.pc = q, !.pushes = m, !.applied = k]
    BY <1>1, <1>4 DEF Task
<1>8. m \in Nat /\ k \in Nat /\ q \in {"retry", "push"} /\ (q = "push" => m > 0) /\ k <= Len(chain) + 1
    BY <1>4, <1>6
<1> HIDE DEF m, k, q
<1>9. task' \in Task /\ task'.pc = q /\ task'.pushes = m /\ task'.applied = k
    BY <1>4, <1>7, <1>8 DEF Task, Pcs
<1>10. Handling'
    BY <1>1, <1>3, <1>4, <1>5, <1>8, <1>9 DEF Handling
<1>11. QED
    BY <1>3, <1>5, <1>10 DEF IndInv

\* A block of the new fork that does not apply.
LEMMA RejectHolds == IndInv /\ RejectNewBlock => IndInv'
<1> SUFFICES ASSUME IndInv, RejectNewBlock PROVE IndInv'
    OBVIOUS
<1> DEFINE q == IF task.old = <<>> THEN "retry" ELSE IF task.applied = 0 THEN "restore" ELSE "unwind"
<1>1. /\ task.pc = "push" /\ UNCHANGED <<db, undo_stack, session, chain, pending, popped>>
      /\ task' = [task EXCEPT !.failed = TRUE, !.pc = q]
    BY DEF RejectNewBlock
<1>2. ~session /\ Pending'
    BY <1>1, NothingPending
<1>3. task \in Task /\ task.applied <= Len(chain) /\ Len(chain) \in Nat /\ popped \in Seq(Txs)
    BY <1>1 DEF IndInv, Handling, Tables, Sound
<1>4. task.applied \in Nat
    BY <1>3 DEF Task
<1>5. /\ q \in {"retry", "restore", "unwind"} /\ (q # "retry" => task.old # <<>>)
      /\ q = "unwind" => task.applied \in 1 .. Len(chain)
    BY <1>3, <1>4
<1> HIDE DEF q
<1>6. task' \in Task /\ task'.pc = q /\ task'.applied = task.applied /\ task'.old = task.old
    BY <1>1, <1>3, <1>5 DEF Task, Pcs
<1>7. Handling'
    BY <1>1, <1>2, <1>3, <1>5, <1>6 DEF Handling
<1>8. Tables'
    BY <1>1 DEF IndInv, Tables
<1>9. QED
    BY <1>2, <1>7, <1>8 DEF IndInv

\* What was applied of the new fork is popped again.
LEMMA PopNewHolds == IndInv /\ PopNewBlock => IndInv'
<1> SUFFICES ASSUME IndInv, PopNewBlock PROVE IndInv'
    OBVIOUS
<1> DEFINE q == IF task.applied = 1 THEN "restore" ELSE "unwind"
           m == task.applied - 1
<1>1. /\ task.pc = "unwind" /\ PopBlock /\ session' = session /\ pending' = pending
      /\ task' = [task EXCEPT !.pc = IF task.applied = 1 THEN "restore" ELSE "unwind", !.applied = @ - 1]
    BY DEF PopNewBlock
<1>2. ~session /\ Pending'
    BY <1>1, NothingPending
<1>3. /\ task.applied \in 1 .. Len(chain) /\ task.old # <<>> /\ task \in Task
      /\ chain \in Seq(Block) /\ popped \in Seq(Txs) /\ Tables
    BY <1>1 DEF IndInv, Handling, Tables, Sound
<1>4. chain # <<>> /\ Len(chain) \in Nat
    BY <1>3, EmptySeq
<1>5. Tables' /\ Len(chain') = Len(chain) - 1 /\ popped' \in Seq(Txs)
    BY <1>1, <1>2, <1>3, <1>4, PopHolds
<1>6. task' = [task EXCEPT !.pc = q, !.applied = m]
    BY <1>1, <1>3 DEF Task
<1>7. m \in Nat /\ q \in {"restore", "unwind"} /\ (q = "unwind" => m \in 1 .. Len(chain) - 1)
    BY <1>3, <1>4
<1> HIDE DEF q, m
<1>8. task' \in Task /\ task'.pc = q /\ task'.applied = m /\ task'.old = task.old
    BY <1>3, <1>6, <1>7 DEF Task, Pcs
<1>9. Handling'
    BY <1>1, <1>2, <1>3, <1>5, <1>7, <1>8 DEF Handling
<1>10. QED
    BY <1>2, <1>5, <1>9 DEF IndInv

\* The old fork is applied again.
LEMMA RestoreHolds == IndInv /\ RestoreBlock => IndInv'
<1> SUFFICES ASSUME IndInv, RestoreBlock PROVE IndInv'
    OBVIOUS
<1> DEFINE q == IF Len(task.old) = 1 THEN "retry" ELSE "restore"
           o == Tail(task.old)
<1>1. /\ task.pc = "restore" /\ ApplyBlock(Head(task.old))
      /\ session' = session /\ pending' = pending /\ popped' = popped
      /\ task' = [task EXCEPT !.pc = IF Len(task.old) = 1 THEN "retry" ELSE "restore", !.old = Tail(@)]
    BY DEF RestoreBlock
<1>2. ~session /\ Pending'
    BY <1>1, NothingPending
<1>3. task \in Task /\ task.old # <<>> /\ popped \in Seq(Txs) /\ Tables
    BY <1>1 DEF IndInv, Handling
<1>4. task.old \in Seq(Block)
    BY <1>3 DEF Task
<1>5. /\ Head(task.old) \in Block /\ o \in Seq(Block) /\ Len(o) = Len(task.old) - 1
      /\ Len(task.old) \in Nat \ {0}
    BY <1>3, <1>4, HeadTailProperties, EmptySeq
<1>6. Tables'
    BY <1>1, <1>2, <1>3, <1>5, ApplyHolds
<1>7. task' = [task EXCEPT !.pc = q, !.old = o]
    BY <1>1, <1>3 DEF Task
<1>8. q \in {"retry", "restore"} /\ (q = "restore" => o # <<>>)
  <2>1. ASSUME q = "restore" PROVE o # <<>>
    <3>1. Len(o) # 0
        BY <1>5, <2>1
    <3>2. QED
        BY <3>1, EmptySeq
  <2>2. QED
      BY <2>1
<1> HIDE DEF q, o
<1>9. task' \in Task /\ task'.pc = q /\ task'.old = o
    BY <1>3, <1>5, <1>7, <1>8 DEF Task, Pcs
<1>10. Handling'
    BY <1>1, <1>2, <1>3, <1>8, <1>9 DEF Handling
<1>11. QED
    BY <1>2, <1>6, <1>10 DEF IndInv

\* A transaction is tried again.
LEMMA RetryHolds ==
    ASSUME IndInv, task.pc = "retry", NEW t \in Txs, Retry(t), chain' = chain,
           task' \in Task, task'.pc = "retry", popped' \in Seq(Txs)
    PROVE  IndInv'
<1>1. Handling'
    BY DEF Handling
<1>2. ~session => pending = <<>>
    BY DEF IndInv, Pending
<1>3. CASE t \in db.known
    BY <1>1, <1>3 DEF Retry, IndInv, Tables, Pending
<1>4. CASE t \notin db.known
  <2>1. TryTransaction(t)
      BY <1>4 DEF Retry
  <2>2. Tables' /\ session' /\ pending' \in Seq(Txs) /\ Replays(Last(undo_stack'), pending', db')
      BY <1>2, <2>1, TryHolds DEF IndInv
  <2>3. QED
      BY <1>1, <2>2 DEF IndInv, Pending
<1>5. QED
    BY <1>3, <1>4

\* The transactions of popped blocks, then the ones that were pending.
LEMMA RetriesHold == IndInv /\ (RetryPopped \/ RetryPending) => IndInv'
<1>1. ASSUME IndInv, RetryPopped PROVE IndInv'
  <2>1. popped \in Seq(Txs) /\ popped # <<>> /\ task \in Task /\ task.pc = "retry"
      BY <1>1 DEF RetryPopped, IndInv, Handling
  <2>2. Head(popped) \in Txs /\ Tail(popped) \in Seq(Txs)
      BY <2>1, HeadTailProperties
  <2>3. Retry(Head(popped)) /\ popped' = Tail(popped) /\ chain' = chain /\ task' = task
      BY <1>1 DEF RetryPopped
  <2>4. QED
      BY <1>1, <2>1, <2>2, <2>3, RetryHolds
<1>2. ASSUME IndInv, RetryPending PROVE IndInv'
  <2>1. popped \in Seq(Txs) /\ task.saved # <<>> /\ task \in Task /\ task.pc = "retry"
      BY <1>2 DEF RetryPending, IndInv, Handling
  <2>2. Head(task.saved) \in Txs /\ Tail(task.saved) \in Seq(Txs)
      BY <2>1, HeadTailProperties DEF Task
  <2>3. /\ Retry(Head(task.saved)) /\ popped' = popped /\ chain' = chain
        /\ task' = [task EXCEPT !.saved = Tail(@)]
      BY <1>2 DEF RetryPending
  <2>4. task' \in Task /\ task'.pc = "retry"
      BY <2>1, <2>2, <2>3 DEF Task
  <2>5. QED
      BY <1>2, <2>1, <2>2, <2>3, <2>4, RetryHolds
<1>3. QED
    BY <1>1, <1>2

\* push_block() returns, and a failed production clears what is pending.
LEMMA EndsHold == IndInv /\ (Return \/ ClearPending) => IndInv'
<1>1. ASSUME IndInv, Return PROVE IndInv'
  <2>1. /\ task.pc = "retry" /\ UNCHANGED <<db, undo_stack, session, chain, pending, popped>>
        /\ task' = IF task.failed /\ task.own # <<>> THEN [Idle({}) EXCEPT !.pc = "clear"]
                   ELSE Idle(task.before)
      BY <1>1 DEF Return
  <2>2. task.before \in SUBSET Txs
      BY <1>1 DEF IndInv, Handling, Task
  <2>3. task' \in Task /\ task'.pc \in {"idle", "clear"}
      BY <2>1, <2>2, RestingTask
  <2>4. Handling' /\ Tables'
      BY <1>1, <2>1, <2>3 DEF IndInv, Handling, Tables
  <2>5. Pending'
      BY <1>1, <2>1, <2>3 DEF IndInv, Pending
  <2>6. QED
      BY <2>4, <2>5 DEF IndInv
<1>2. ASSUME IndInv, ClearPending PROVE IndInv'
  <2>1. /\ db' = HeadState /\ undo_stack' = HeadStack /\ session' = FALSE
        /\ pending' = <<>> /\ task' = Idle({}) /\ chain' = chain /\ popped' = popped
      BY <1>2 DEF ClearPending
  <2>2. Tables'
      BY <1>2, <2>1, ClearHolds DEF IndInv
  <2>3. task' \in Task /\ task'.pc = "idle"
      BY <2>1, RestingTask
  <2>4. Handling' /\ Pending'
      BY <1>2, <2>1, <2>3, EmptySeq DEF IndInv, Handling, Pending
  <2>5. QED
      BY <2>2, <2>4 DEF IndInv
<1>3. QED
    BY <1>1, <1>2

\* Every step keeps the invariant.
LEMMA StepHolds == IndInv /\ [Next]_vars => IndInv'
<1> SUFFICES ASSUME IndInv, [Next]_vars PROVE IndInv'
    OBVIOUS
<1>1. CASE UNCHANGED vars
    BY <1>1 DEF vars, IndInv, Tables, Handling, Pending
<1>2. CASE \/ \E t \in Txs : PushTransaction(t)
           \/ \E pops \in 0 .. MaxPops : PushBlock(pops)
           \/ \E when \in 1 .. MaxTime : GenerateBlock(when)
    BY <1>2, CallsHold
<1>3. CASE Handler
    BY <1>3, PopOldHolds, ApplyNewHolds, RejectHolds, PopNewHolds, RestoreHolds,
       RetriesHold, EndsHold DEF Handler
<1>4. QED
    BY <1>1, <1>2, <1>3 DEF Next

\* It holds at the start.
LEMMA InitHolds == Init => IndInv
<1> SUFFICES ASSUME Init PROVE IndInv
    OBVIOUS
<1>1. /\ db = [done |-> {}, known |-> {}, time |-> 0, num |-> 0]
      /\ undo_stack = <<>> /\ session = FALSE
      /\ chain = <<>> /\ pending = <<>> /\ popped = <<>> /\ task = Idle({})
    BY DEF Init
<1>2. <<>> \in Seq(DbState) /\ <<>> \in Seq(Block) /\ <<>> \in Seq(Txs) /\ Len(<<>>) = 0
    BY EmptySeq
<1>3. db \in DbState
    BY <1>1 DEF DbState
<1>4. Remembered(db, undo_stack, chain) /\ Once(chain)
    BY <1>1, <1>2 DEF Remembered, Once
<1>5. Tables
  <2>1. Sound(db, undo_stack, chain)
      BY <1>1, <1>2, <1>3, <1>4 DEF Sound
  <2>2. Len(undo_stack) = Len(chain) + 0
      BY <1>1, <1>2
  <2>3. QED
      BY <1>1, <2>1, <2>2 DEF Tables
<1>6. task \in Task /\ task.pc = "idle"
    BY <1>1, RestingTask
<1>7. Handling /\ Pending
    BY <1>1, <1>2, <1>6 DEF Handling, Pending
<1>8. QED
    BY <1>5, <1>7 DEF IndInv
-----------------------------------------------------------------------------
\* No transaction is at two places of the chain, whatever forks were switched
\* to, taken back or produced, although the list of known transactions forgets
\* the expired ones: a transaction of the chain is known or has expired on
\* every state from its block on.
THEOREM NoTransactionTwice == Spec => []AppliedOnce
<1>1. Init => IndInv
    BY InitHolds
<1>2. IndInv /\ [Next]_vars => IndInv'
    BY StepHolds
<1>3. IndInv => AppliedOnce
    BY OncePlaces DEF IndInv, Tables, Sound
<1>4. QED
    BY <1>1, <1>2, <1>3, PTL DEF Spec

\* At rest the tables are the ones of the head block after the pending
\* transactions, each of which applies in its turn, and without a session
\* nothing is pending: the restorer, failed pushes, and the block that turned
\* out too large all come back to that.
THEOREM PendingIsSession == Spec => []PendingIsReplay
<1>1. Init => IndInv
    BY InitHolds
<1>2. IndInv /\ [Next]_vars => IndInv'
    BY StepHolds
<1>3. IndInv => PendingIsReplay
    BY DEF IndInv, Pending, Replays, PendingIsReplay
<1>4. QED
    BY <1>1, <1>2, <1>3, PTL DEF Spec

-----------------------------------------------------------------------------
(* Nothing is lost *)

\* The transactions of the first k - 1 blocks.
DoneOf(c, k) == UNION {ToSet(c[i].txs) : i \in 1 .. k - 1}

\* Tables after k - 1 blocks have their transactions, and know no others.
Counted(d, u, c) ==
    \A k \in 1 .. Len(c) + 1 : /\ Level(d, u, k).done = DoneOf(c, k)
                               /\ Level(d, u, k).known \subseteq DoneOf(c, k)

\* A transaction of a block comes after the ones that it needs.
Founded(c) ==
    \A i \in 1 .. Len(c) : \A j \in 1 .. Len(c[i].txs) : \A s \in Needs[c[i].txs[j]] :
        s \in DoneOf(c, i) \/ \E m \in 1 .. j - 1 : s = c[i].txs[m]

Grounded(d, u, c) == Counted(d, u, c) /\ Founded(c)

\* The transactions that the restorer will try, in this order.
Queue == popped \o task.saved

\* When an accepted transaction is tried for the last time, the ones that it
\* needs, all of them accepted, have been tried for the last time before.
Ordered(q, B) ==
    \A k \in 1 .. Len(q) :
        q[k] \in B /\ (\A j \in k + 1 .. Len(q) : q[j] # q[k])
            => \A s \in Needs[q[k]] : s \in B /\ \A j \in k .. Len(q) : q[j] # s

\* t does not apply on d, nor after more transactions.
Blocked(d, t) ==
    \/ Excludes[t] \cap d.done # {}
    \/ d.num > 0 /\ ~(Expires[t] <= d.time + MaxUntilExpiration /\ d.time < Expires[t])

\* None of F will apply before the next block: it is blocked, or needs another
\* one of them.
Hopeless(d, F) == \A t \in F : Blocked(d, t) \/ \E s \in Needs[t] : s \in F

\* What had been accepted and is neither done nor still to be tried.
GivenUp == task.before \ (db.done \cup ToSet(Queue))

Kept ==
    /\ Grounded(db, undo_stack, chain) /\ db.known \subseteq db.done
    /\ Ordered(Queue, task.before)
    /\ task.pc = "pop" => DoneOf(chain, Len(chain) + 1) \subseteq task.before \ ToSet(Queue)
    /\ task.pc \in {"pop", "push", "unwind"} =>
          task.before \subseteq DoneOf(chain, Len(chain) - task.applied + 1) \cup ToSet(Queue)
    /\ task.pc = "restore" => task.before \subseteq db.done \cup ToSet(Queue)
    /\ task.pc \in {"retry", "idle"} => Hopeless(db, GivenUp)
    /\ task.pc \in {"idle", "clear"} => popped = <<>> /\ task.saved = <<>>

\* One more block, and blocks before it.
LEMMA DoneOfMore ==
    ASSUME NEW c \in Seq(Block), NEW b \in Block
    PROVE  /\ \A k \in 1 .. Len(c) + 1 : DoneOf(Append(c, b), k) = DoneOf(c, k)
           /\ DoneOf(Append(c, b), Len(c) + 2) = DoneOf(c, Len(c) + 1) \cup ToSet(b.txs)
           /\ \A k \in 1 .. Len(c) : DoneOf(c, k + 1) = DoneOf(c, k) \cup ToSet(c[k].txs)
<1> DEFINE n == Len(c)
           a == Append(c, b)
<1>1. n \in Nat /\ Len(a) = n + 1 /\ a[n + 1] = b /\ \A k \in 1 .. n : a[k] = c[k]
    BY AppendProperties
<1> HIDE DEF n, a
<1>2. ASSUME NEW k \in 1 .. n + 1 PROVE DoneOf(a, k) = DoneOf(c, k)
  <2>1. \A i \in 1 .. k - 1 : a[i] = c[i]
      BY <1>1
  <2>2. {ToSet(a[i].txs) : i \in 1 .. k - 1} = {ToSet(c[i].txs) : i \in 1 .. k - 1}
      BY <2>1
  <2>3. QED
      BY <2>2 DEF DoneOf
<1>3. ASSUME NEW e, NEW k \in Nat \ {0} PROVE DoneOf(e, k + 1) = DoneOf(e, k) \cup ToSet(e[k].txs)
  <2>1. 1 .. (k + 1) - 1 = (1 .. k - 1) \cup {k}
      OBVIOUS
  <2>2. \A x : x \in DoneOf(e, k + 1) <=> \E i \in 1 .. (k + 1) - 1 : x \in ToSet(e[i].txs)
      BY DEF DoneOf
  <2>3. \A x : x \in DoneOf(e, k) <=> \E i \in 1 .. k - 1 : x \in ToSet(e[i].txs)
      BY DEF DoneOf
  <2>4. \A x : x \in DoneOf(e, k + 1) <=> x \in DoneOf(e, k) \/ x \in ToSet(e[k].txs)
      BY <2>1, <2>2, <2>3
  <2>5. QED
      BY <2>4
<1>4. DoneOf(a, n + 2) = DoneOf(a, n + 1) \cup ToSet(a[n + 1].txs)
  <2>1. n + 1 \in Nat \ {0} /\ (n + 1) + 1 = n + 2
      BY <1>1
  <2>2. QED
      BY <1>3, <2>1
<1>5. DoneOf(a, n + 1) = DoneOf(c, n + 1)
    BY <1>1, <1>2
<1>6. \A k \in 1 .. n : k \in Nat \ {0}
    BY <1>1
<1>7. QED
    BY <1>1, <1>2, <1>3, <1>4, <1>5, <1>6 DEF n, a

\* Blocks before the last one.
LEMMA DoneOfFront ==
    ASSUME NEW c \in Seq(Block), c # <<>>
    PROVE  \A k \in 1 .. Len(c) : DoneOf(Front(c), k) = DoneOf(c, k)
<1> DEFINE n == Len(c)
           a == Front(c)
<1>1. n \in Nat \ {0} /\ \A k \in 1 .. n - 1 : a[k] = c[k]
    BY SubSeqProperties, EmptySeq DEF Front
<1> HIDE DEF n, a
<1>2. ASSUME NEW k \in 1 .. n PROVE DoneOf(a, k) = DoneOf(c, k)
  <2>1. \A i \in 1 .. k - 1 : a[i] = c[i]
      BY <1>1
  <2>2. {ToSet(a[i].txs) : i \in 1 .. k - 1} = {ToSet(c[i].txs) : i \in 1 .. k - 1}
      BY <2>1
  <2>3. QED
      BY <2>2 DEF DoneOf
<1>3. QED
    BY <1>2 DEF n, a

\* Membership, and more blocks have more.
LEMMA DoneOfMembers ==
    ASSUME NEW c \in Seq(Block), NEW k \in Nat, k <= Len(c) + 1
    PROVE  /\ \A t : t \in DoneOf(c, k) <=> \E i \in 1 .. k - 1 : \E j \in 1 .. Len(c[i].txs) : t = c[i].txs[j]
           /\ DoneOf(c, k) \in SUBSET Txs
           /\ \A m \in Nat : m <= k => DoneOf(c, m) \subseteq DoneOf(c, k)
<1>1. \A i \in 1 .. k - 1 : c[i] \in Block
    OBVIOUS
<1>2. \A i \in 1 .. k - 1 : c[i].txs \in Seq(Txs)
    BY <1>1 DEF Block
<1>3. \A i \in 1 .. k - 1 : ToSet(c[i].txs) = {c[i].txs[j] : j \in 1 .. Len(c[i].txs)} /\ ToSet(c[i].txs) \in SUBSET Txs
    BY <1>2, SetOfSeq
<1>4. ASSUME NEW t PROVE t \in DoneOf(c, k) <=> \E i \in 1 .. k - 1 : \E j \in 1 .. Len(c[i].txs) : t = c[i].txs[j]
  <2>1. t \in DoneOf(c, k) <=> \E i \in 1 .. k - 1 : t \in ToSet(c[i].txs)
      BY DEF DoneOf
  <2>2. QED
      BY <1>3, <2>1
<1>5. DoneOf(c, k) \in SUBSET Txs
    BY <1>3 DEF DoneOf
<1>6. ASSUME NEW m \in Nat, m <= k, NEW t \in DoneOf(c, m) PROVE t \in DoneOf(c, k)
  <2>1. PICK i \in 1 .. m - 1 : t \in ToSet(c[i].txs)
      BY <1>6 DEF DoneOf
  <2>2. i \in 1 .. k - 1
      BY <1>6
  <2>3. QED
      BY <2>1, <2>2 DEF DoneOf
<1>7. QED
    BY <1>4, <1>5, <1>6

\* What a block adds.
LEMMA BlockAdds ==
    ASSUME NEW d \in DbState, NEW b \in Block
    PROVE  /\ WithBlock(d, b).done = d.done \cup ToSet(b.txs)
           /\ WithBlock(d, b).known \subseteq d.known \cup ToSet(b.txs)
<1> DEFINE ts == ToSet(b.txs)
           e == WithTxs(d, ts)
<1>1. ts \in SUBSET Txs
    BY SetOfSeq DEF Block
<1> HIDE DEF ts
<1>2. e \in DbState /\ e.known = d.known \cup ts /\ e.done = d.done \cup ts
    BY <1>1, MoreTxs
<1>3. WithBlock(d, b) = [e EXCEPT !.time = b.time, !.num = @ + 1,
                                  !.known = {t \in @ : ~(b.time > Expires[t])}]
    BY DEF WithBlock, ts
<1> HIDE DEF e
<1>4. WithBlock(d, b).done = e.done /\ WithBlock(d, b).known = {t \in e.known : ~(b.time > Expires[t])}
    BY <1>2, <1>3 DEF DbState
<1>5. QED
    BY <1>2, <1>4 DEF ts

\* Transactions that apply in their turn come after the ones they need.
LEMMA SeqFounded ==
    ASSUME NEW d \in DbState, NEW p \in Seq(Txs), TxsApply(d, p)
    PROVE  \A j \in 1 .. Len(p) : \A s \in Needs[p[j]] :
               s \in d.done \/ \E m \in 1 .. j - 1 : s = p[m]
<1> SUFFICES ASSUME NEW j \in 1 .. Len(p), NEW s \in Needs[p[j]]
             PROVE  s \in d.done \/ \E m \in 1 .. j - 1 : s = p[m]
    OBVIOUS
<1> DEFINE before == {p[m] : m \in 1 .. (j - 1)}
           e == WithTxs(d, before)
<1>1. p \in Seq(Txs)
    OBVIOUS
<1>2. before \in SUBSET Txs
    BY <1>1
<1>3. CanApply(e, p[j])
    BY DEF TxsApply
<1>4. e.done = d.done \cup before
  <2> HIDE DEF before
  <2> QED
    BY <1>2, MoreTxs
<1> HIDE DEF e
<1>5. s \in d.done \cup before
    BY <1>3, <1>4 DEF CanApply
<1>6. QED
    BY <1>5

\* A block that applies.
LEMMA GroundedApply ==
    ASSUME NEW d, NEW u, NEW c, Sound(d, u, c), Len(u) = Len(c), Grounded(d, u, c),
           NEW b \in Block, BlockApplies(d, b)
    PROVE  Grounded(WithBlock(d, b), Append(u, d), Append(c, b))
<1> DEFINE n == Len(c)
           e == WithBlock(d, b)
           v == Append(u, d)
           a == Append(c, b)
<1>1. d \in DbState /\ u \in Seq(DbState) /\ c \in Seq(Block) /\ n \in Nat /\ Len(u) = n
    BY DEF Sound
<1>2. Len(v) = n + 1 /\ v[n + 1] = d /\ \A k \in 1 .. n : v[k] = u[k]
    BY <1>1, AppendProperties
<1>3. Len(a) = n + 1 /\ a[n + 1] = b /\ \A k \in 1 .. n : a[k] = c[k]
    BY <1>1, AppendProperties
<1>4. /\ \A k \in 1 .. n + 1 : DoneOf(a, k) = DoneOf(c, k)
      /\ DoneOf(a, n + 2) = DoneOf(c, n + 1) \cup ToSet(b.txs)
    BY <1>1, DoneOfMore
<1>5. e.done = d.done \cup ToSet(b.txs) /\ e.known \subseteq d.known \cup ToSet(b.txs)
    BY <1>1, BlockAdds
<1>6. \A k \in 1 .. n + 1 : Level(d, u, k).done = DoneOf(c, k) /\ Level(d, u, k).known \subseteq DoneOf(c, k)
    BY DEF Grounded, Counted
<1> HIDE DEF n, e, v, a
<1>7. /\ \A k \in 1 .. n + 1 : Level(e, v, k) = Level(d, u, k)
      /\ Level(e, v, n + 2) = e /\ Level(d, u, n + 1) = d
    BY <1>1, <1>2 DEF Level
<1>8. d.done = DoneOf(c, n + 1) /\ d.known \subseteq DoneOf(c, n + 1)
    BY <1>1, <1>6, <1>7
<1>9. Counted(e, v, a)
  <2> SUFFICES ASSUME NEW k \in 1 .. n + 2
               PROVE  Level(e, v, k).done = DoneOf(a, k) /\ Level(e, v, k).known \subseteq DoneOf(a, k)
    <3>1. Len(a) + 1 = n + 2
        BY <1>1, <1>3
    <3>2. QED
        BY <3>1 DEF Counted
  <2>1. CASE k \in 1 .. n + 1
      BY <1>4, <1>6, <1>7, <2>1
  <2>2. CASE k = n + 2
      BY <1>4, <1>5, <1>7, <1>8, <2>2
  <2>3. QED
      BY <1>1, <2>1, <2>2
<1>10. Founded(a)
  <2> SUFFICES ASSUME NEW i \in 1 .. n + 1, NEW j \in 1 .. Len(a[i].txs), NEW s \in Needs[a[i].txs[j]]
               PROVE  s \in DoneOf(a, i) \/ \E m \in 1 .. j - 1 : s = a[i].txs[m]
      BY <1>3 DEF Founded
  <2>1. CASE i \in 1 .. n
    <3>1. a[i] = c[i] /\ DoneOf(a, i) = DoneOf(c, i)
        BY <1>1, <1>3, <1>4, <2>1
    <3>2. QED
        BY <2>1, <3>1 DEF Grounded, Founded, n
  <2>2. CASE i = n + 1
    <3>1. a[i] = b /\ DoneOf(a, i) = d.done
        BY <1>1, <1>3, <1>4, <1>8, <2>2
    <3>2. QED
        BY SMTT(30), <1>1, <3>1, SeqFounded DEF BlockApplies, Block
  <2>3. QED
      BY <1>1, <2>1, <2>2
<1>11. QED
    BY <1>9, <1>10 DEF Grounded, e, v, a

\* The last block popped.
LEMMA GroundedPop ==
    ASSUME NEW d, NEW u, NEW c, Sound(d, u, c), Len(u) = Len(c), c # <<>>, Grounded(d, u, c)
    PROVE  /\ Grounded(Last(u), Front(u), Front(c))
           /\ Last(u).known \subseteq Last(u).done /\ Last(u).done = DoneOf(c, Len(c))
           /\ d.done = DoneOf(c, Len(c) + 1)
<1> DEFINE n == Len(c)
           e == Last(u)
           v == Front(u)
           a == Front(c)
<1>1. /\ u \in Seq(DbState) /\ c \in Seq(Block) /\ n \in Nat \ {0} /\ Len(u) = n
    BY EmptySeq DEF Sound
<1>2. e = u[n]
    BY <1>1 DEF Last
<1>3. Len(v) = n - 1 /\ \A k \in 1 .. n - 1 : v[k] = u[k]
    BY <1>1, SubSeqProperties DEF Front
<1>4. Len(a) = n - 1 /\ \A k \in 1 .. n - 1 : a[k] = c[k]
    BY <1>1, SubSeqProperties DEF Front
<1>5. \A k \in 1 .. n : DoneOf(a, k) = DoneOf(c, k)
    BY <1>1, DoneOfFront
<1>6. \A k \in 1 .. n + 1 : Level(d, u, k).done = DoneOf(c, k) /\ Level(d, u, k).known \subseteq DoneOf(c, k)
    BY DEF Grounded, Counted
<1> HIDE DEF n, e, v, a
<1>7. \A k \in 1 .. n : Level(e, v, k) = Level(d, u, k)
    BY <1>1, <1>2, <1>3 DEF Level
<1>8. Level(d, u, n) = e /\ Level(d, u, n + 1) = d
    BY <1>1, <1>2 DEF Level
<1>9. Counted(e, v, a)
  <2> SUFFICES ASSUME NEW k \in 1 .. n
               PROVE  Level(e, v, k).done = DoneOf(a, k) /\ Level(e, v, k).known \subseteq DoneOf(a, k)
    <3>1. Len(a) + 1 = n
        BY <1>1, <1>4
    <3>2. QED
        BY <3>1 DEF Counted
  <2>1. k \in 1 .. n + 1
      BY <1>1
  <2>2. QED
      BY <1>5, <1>6, <1>7, <2>1
<1>10. Founded(a)
  <2> SUFFICES ASSUME NEW i \in 1 .. n - 1, NEW j \in 1 .. Len(a[i].txs), NEW s \in Needs[a[i].txs[j]]
               PROVE  s \in DoneOf(a, i) \/ \E m \in 1 .. j - 1 : s = a[i].txs[m]
      BY <1>4 DEF Founded
  <2>1. i \in 1 .. n /\ a[i] = c[i] /\ DoneOf(a, i) = DoneOf(c, i)
      BY <1>1, <1>4, <1>5
  <2>2. QED
      BY <2>1 DEF Grounded, Founded, n
<1>11. n \in 1 .. n + 1 /\ n + 1 \in 1 .. n + 1
    BY <1>1
<1>12. e.known \subseteq e.done /\ e.done = DoneOf(c, n) /\ d.done = DoneOf(c, n + 1)
    BY <1>6, <1>8, <1>11
<1>13. QED
    BY <1>9, <1>10, <1>12 DEF Grounded, n, e, v, a

\* Another way to keep the same tables after each block.
LEMMA GroundedSame ==
    ASSUME NEW d, NEW u, NEW c, Grounded(d, u, c), NEW e, NEW v,
           \A k \in 1 .. Len(c) + 1 : Level(e, v, k) = Level(d, u, k)
    PROVE  Grounded(e, v, c)
  BY DEF Grounded, Counted

\* The head of the chain has the transactions of its blocks.
LEMMA HeadGrounded ==
    ASSUME Tables, Grounded(db, undo_stack, chain)
    PROVE  /\ Grounded(HeadState, HeadStack, chain)
           /\ HeadState.done = DoneOf(chain, Len(chain) + 1)
           /\ HeadState.known \subseteq HeadState.done
<1> DEFINE n == Len(chain)
<1>1. /\ undo_stack \in Seq(DbState) /\ chain \in Seq(Block) /\ n \in Nat
      /\ Len(undo_stack) = n + IF session THEN 1 ELSE 0
    BY DEF Tables, Sound
<1>2. \A k \in 1 .. n + 1 : Level(HeadState, HeadStack, k) = Level(db, undo_stack, k)
  <2>1. CASE session
    <3>1. Len(undo_stack) = n + 1 /\ HeadState = undo_stack[n + 1]
        BY <1>1, <2>1 DEF HeadState, Last
    <3>2. HeadStack = SubSeq(undo_stack, 1, n)
      <4>1. Len(undo_stack) - 1 = n
          BY <1>1, <3>1
      <4>2. QED
          BY <2>1, <4>1 DEF HeadStack, Front
    <3>3. Len(HeadStack) = n /\ \A i \in 1 .. n : HeadStack[i] = undo_stack[i]
        BY <1>1, <3>1, <3>2, SubSeqProperties
    <3> HIDE DEF n
    <3>4. QED
        BY <1>1, <3>1, <3>3 DEF Level
  <2>2. CASE ~session
      BY <2>2 DEF HeadState, HeadStack
  <2>3. QED
      BY <2>1, <2>2
<1>3. Grounded(HeadState, HeadStack, chain)
    BY <1>2, GroundedSame
<1>4. Len(HeadStack) = n
    BY HeadHolds
<1> HIDE DEF n
<1>5. Level(HeadState, HeadStack, n + 1) = HeadState /\ n + 1 \in 1 .. n + 1
    BY <1>1, <1>4 DEF Level
<1>6. QED
    BY <1>3, <1>5 DEF Grounded, Counted, n

\* What is in two sequences.
LEMMA SetOfConcat ==
    ASSUME NEW S, NEW p \in Seq(S), NEW q \in Seq(S)
    PROVE  ToSet(p \o q) = ToSet(p) \cup ToSet(q)
<1> DEFINE r == p \o q
           m == Len(p)
           n == Len(q)
<1>1. m \in Nat /\ n \in Nat
    OBVIOUS
<1>2. /\ r \in Seq(S) /\ Len(r) = m + n
      /\ \A i \in 1 .. m + n : r[i] = IF i <= m THEN p[i] ELSE q[i - m]
    BY ConcatProperties
<1>3. /\ ToSet(r) = {r[i] : i \in 1 .. m + n}
      /\ ToSet(p) = {p[i] : i \in 1 .. m} /\ ToSet(q) = {q[i] : i \in 1 .. n}
    BY <1>2, SetOfSeq
<1> HIDE DEF r, m, n
<1>4. ASSUME NEW i \in 1 .. m + n PROVE r[i] \in ToSet(p) \cup ToSet(q)
  <2>1. CASE i <= m
    <3>1. i \in 1 .. m /\ r[i] = p[i]
        BY <1>1, <1>2, <2>1
    <3>2. QED
        BY <1>3, <3>1
  <2>2. CASE i > m
    <3>1. i - m \in 1 .. n /\ r[i] = q[i - m]
        BY <1>1, <1>2, <2>2
    <3>2. QED
        BY <1>3, <3>1
  <2>3. QED
      BY <1>1, <2>1, <2>2
<1>5. ASSUME NEW i \in 1 .. m PROVE p[i] \in ToSet(r)
  <2>1. i \in 1 .. m + n /\ r[i] = p[i]
      BY <1>1, <1>2
  <2>2. QED
      BY <1>3, <2>1
<1>6. ASSUME NEW i \in 1 .. n PROVE q[i] \in ToSet(r)
  <2>1. m + i \in 1 .. m + n /\ r[m + i] = q[i]
      BY <1>1, <1>2
  <2>2. QED
      BY <1>3, <2>1
<1>7. QED
    BY <1>3, <1>4, <1>5, <1>6 DEF r

\* What is in a sequence: its head and the rest.
LEMMA SetOfTail ==
    ASSUME NEW S, NEW q \in Seq(S), q # <<>>
    PROVE  ToSet(q) = {Head(q)} \cup ToSet(Tail(q))
<1> DEFINE n == Len(q)
           r == Tail(q)
<1>1. n \in Nat \ {0} /\ r \in Seq(S) /\ Len(r) = n - 1 /\ \A i \in 1 .. n - 1 : r[i] = q[i + 1]
  <2>1. n \in Nat \ {0}
      BY EmptySeq
  <2>2. r \in Seq(S) /\ Len(r) = n - 1 /\ \A i \in 1 .. Len(r) : r[i] = q[i + 1]
      BY HeadTailProperties
  <2>3. QED
      BY <2>1, <2>2
<1>2. ToSet(q) = {q[i] : i \in 1 .. n} /\ ToSet(r) = {r[i] : i \in 1 .. n - 1} /\ Head(q) = q[1]
  <2>1. ToSet(q) = {q[i] : i \in 1 .. n} /\ Head(q) = q[1]
      BY <1>1, SetOfSeq
  <2> HIDE DEF r
  <2>2. ToSet(r) = {r[i] : i \in 1 .. Len(r)}
      BY <1>1, SetOfSeq
  <2>3. QED
      BY <1>1, <2>1, <2>2
<1> HIDE DEF n, r
<1>3. ASSUME NEW i \in 1 .. n PROVE q[i] \in {Head(q)} \cup ToSet(r)
  <2>1. CASE i = 1
      BY <1>2, <2>1
  <2>2. CASE i # 1
    <3>1. i - 1 \in 1 .. n - 1 /\ r[i - 1] = q[i]
        BY <1>1, <2>2
    <3>2. QED
        BY <1>2, <3>1
  <2>3. QED
      BY <2>1, <2>2
<1>4. ASSUME NEW i \in 1 .. n - 1 PROVE r[i] \in ToSet(q)
  <2>1. i + 1 \in 1 .. n /\ r[i] = q[i + 1]
      BY <1>1
  <2>2. QED
      BY <1>2, <2>1
<1>5. Head(q) \in ToSet(q)
  <2>1. 1 \in 1 .. n
      BY <1>1
  <2>2. QED
      BY <1>2, <2>1
<1>6. QED
    BY <1>2, <1>3, <1>4, <1>5 DEF r

\* The order of the queue when its head has been tried.
LEMMA OrderedTail ==
    ASSUME NEW q \in Seq(Txs), q # <<>>, NEW B, Ordered(q, B)
    PROVE  /\ Ordered(Tail(q), B)
           /\ Head(q) \in B /\ Head(q) \notin ToSet(Tail(q))
                => \A s \in Needs[Head(q)] : s \in B /\ s \notin ToSet(q)
<1> DEFINE n == Len(q)
           r == Tail(q)
<1>1. n \in Nat \ {0} /\ r \in Seq(Txs) /\ Len(r) = n - 1 /\ \A i \in 1 .. n - 1 : r[i] = q[i + 1]
  <2>1. n \in Nat \ {0}
      BY EmptySeq
  <2>2. r \in Seq(Txs) /\ Len(r) = n - 1 /\ \A i \in 1 .. Len(r) : r[i] = q[i + 1]
      BY HeadTailProperties
  <2>3. QED
      BY <2>1, <2>2
<1>2. ToSet(q) = {q[i] : i \in 1 .. n} /\ ToSet(r) = {r[i] : i \in 1 .. n - 1} /\ Head(q) = q[1]
  <2>1. ToSet(q) = {q[i] : i \in 1 .. n} /\ Head(q) = q[1]
      BY <1>1, SetOfSeq
  <2> HIDE DEF r
  <2>2. ToSet(r) = {r[i] : i \in 1 .. Len(r)}
      BY <1>1, SetOfSeq
  <2>3. QED
      BY <1>1, <2>1, <2>2
<1>3. \A k \in 1 .. n : q[k] \in B /\ (\A j \in k + 1 .. n : q[j] # q[k])
            => \A s \in Needs[q[k]] : s \in B /\ \A j \in k .. n : q[j] # s
    BY DEF Ordered
<1> HIDE DEF n, r
<1>4. Ordered(r, B)
  <2> SUFFICES ASSUME NEW k \in 1 .. n - 1, r[k] \in B, \A j \in k + 1 .. n - 1 : r[j] # r[k],
                      NEW s \in Needs[r[k]]
               PROVE  s \in B /\ \A j \in k .. n - 1 : r[j] # s
      BY <1>1 DEF Ordered
  <2>1. k + 1 \in 1 .. n /\ r[k] = q[k + 1]
      BY <1>1
  <2>2. \A j \in (k + 1) + 1 .. n : q[j] # q[k + 1]
    <3> SUFFICES ASSUME NEW j \in (k + 1) + 1 .. n PROVE q[j] # q[k + 1]
        OBVIOUS
    <3>1. j - 1 \in k + 1 .. n - 1 /\ r[j - 1] = q[j]
        BY <1>1
    <3>2. QED
        BY <2>1, <3>1
  <2>3. s \in B /\ \A j \in k + 1 .. n : q[j] # s
      BY <1>3, <2>1, <2>2
  <2>4. \A j \in k .. n - 1 : r[j] = q[j + 1] /\ j + 1 \in k + 1 .. n
      BY <1>1
  <2>5. QED
      BY <2>3, <2>4
<1>5. ASSUME Head(q) \in B, Head(q) \notin ToSet(r), NEW s \in Needs[Head(q)]
      PROVE  s \in B /\ s \notin ToSet(q)
  <2>1. \A j \in 1 + 1 .. n : q[j] # q[1]
    <3> SUFFICES ASSUME NEW j \in 1 + 1 .. n PROVE q[j] # q[1]
        OBVIOUS
    <3>1. j - 1 \in 1 .. n - 1 /\ r[j - 1] = q[j]
        BY <1>1
    <3>2. QED
        BY <1>2, <1>5, <3>1
  <2>2. 1 \in 1 .. n
      BY <1>1
  <2>3. s \in B /\ \A j \in 1 .. n : q[j] # s
      BY <1>2, <1>3, <1>5, <2>1, <2>2
  <2>4. QED
      BY <1>2, <2>3
<1>6. QED
    BY <1>4, <1>5 DEF r

\* The order of the queue with the transactions of one more popped block.
LEMMA OrderedConcat ==
    ASSUME NEW b \in Seq(Txs), NEW q \in Seq(Txs), NEW B, Ordered(q, B),
           \A i \in 1 .. Len(b) :
               b[i] \in B /\ b[i] \notin ToSet(q)
               => \A s \in Needs[b[i]] : s \in B /\ s \notin ToSet(q) /\ \A j \in i .. Len(b) : b[j] # s
    PROVE  Ordered(b \o q, B)
<1> DEFINE r == b \o q
           m == Len(b)
           n == Len(q)
<1>1. m \in Nat /\ n \in Nat
    OBVIOUS
<1>2. /\ r \in Seq(Txs) /\ Len(r) = m + n
      /\ \A i \in 1 .. m + n : r[i] = IF i <= m THEN b[i] ELSE q[i - m]
    BY ConcatProperties
<1>3. ToSet(q) = {q[i] : i \in 1 .. n}
    BY SetOfSeq
<1>4. \A k \in 1 .. n : q[k] \in B /\ (\A j \in k + 1 .. n : q[j] # q[k])
            => \A s \in Needs[q[k]] : s \in B /\ \A j \in k .. n : q[j] # s
    BY DEF Ordered
<1>5. \A i \in 1 .. m : b[i] \in B /\ b[i] \notin ToSet(q)
        => \A s \in Needs[b[i]] : s \in B /\ s \notin ToSet(q) /\ \A j \in i .. m : b[j] # s
    OBVIOUS
<1> HIDE DEF r, m, n
<1> SUFFICES ASSUME NEW k \in 1 .. m + n, r[k] \in B, \A j \in k + 1 .. m + n : r[j] # r[k],
                    NEW s \in Needs[r[k]]
             PROVE  s \in B /\ \A j \in k .. m + n : r[j] # s
    BY <1>2 DEF Ordered, r
<1>6. CASE k <= m
  <2>1. k \in 1 .. m /\ r[k] = b[k]
      BY <1>1, <1>2, <1>6
  <2>2. b[k] \notin ToSet(q)
    <3> SUFFICES ASSUME NEW i \in 1 .. n PROVE q[i] # b[k]
        BY <1>3
    <3>1. m + i \in k + 1 .. m + n /\ r[m + i] = q[i]
        BY <1>1, <1>2, <1>6
    <3>2. QED
        BY <2>1, <3>1
  <2>3. s \in B /\ s \notin ToSet(q) /\ \A j \in k .. m : b[j] # s
      BY <1>5, <2>1, <2>2
  <2>4. ASSUME NEW j \in k .. m + n PROVE r[j] # s
    <3>1. CASE j <= m
        BY <1>1, <1>2, <2>3, <3>1
    <3>2. CASE j > m
      <4>1. j - m \in 1 .. n /\ r[j] = q[j - m]
          BY <1>1, <1>2, <3>2
      <4>2. QED
          BY <1>3, <2>3, <4>1
    <3>3. QED
        BY <1>1, <3>1, <3>2
  <2>5. QED
      BY <2>3, <2>4
<1>7. CASE k > m
  <2> DEFINE h == k - m
  <2>1. h \in 1 .. n /\ r[k] = q[h]
      BY <1>1, <1>2, <1>7
  <2>2. \A j \in h + 1 .. n : q[j] # q[h]
    <3> SUFFICES ASSUME NEW j \in h + 1 .. n PROVE q[j] # q[h]
        OBVIOUS
    <3>1. m + j \in k + 1 .. m + n /\ r[m + j] = q[j]
        BY <1>1, <1>2, <1>7
    <3>2. QED
        BY <2>1, <3>1
  <2>3. s \in B /\ \A j \in h .. n : q[j] # s
      BY <1>4, <2>1, <2>2
  <2>4. ASSUME NEW j \in k .. m + n PROVE r[j] # s
    <3>1. j - m \in h .. n /\ r[j] = q[j - m]
        BY <1>1, <1>2, <1>7
    <3>2. QED
        BY <2>3, <3>1
  <2>5. QED
      BY <2>3, <2>4
<1>8. QED
    BY <1>1, <1>6, <1>7

\* What applies is not hopeless.
LEMMA HopelessFails ==
    ASSUME NEW d \in DbState, NEW F, Hopeless(d, F), NEW t \in F, F \cap d.done = {}
    PROVE  ~CanApply(d, t)
<1>1. CASE Blocked(d, t)
    BY <1>1 DEF Blocked, CanApply
<1>2. CASE \E s \in Needs[t] : s \in F
  <2>1. PICK s \in Needs[t] : s \in F
      BY <1>2
  <2>2. s \notin d.done
      BY <2>1
  <2>3. QED
      BY <2>1, <2>2 DEF CanApply
<1>3. QED
    BY <1>1, <1>2 DEF Hopeless

\* Hopeless transactions stay so after more transactions.
LEMMA HopelessStays ==
    ASSUME NEW d \in DbState, NEW F, Hopeless(d, F), NEW ts \in SUBSET Txs
    PROVE  Hopeless(WithTxs(d, ts), F)
<1> DEFINE e == WithTxs(d, ts)
<1>1. e.done = d.done \cup ts /\ e.time = d.time /\ e.num = d.num
    BY MoreTxs
<1> HIDE DEF e
<1>2. \A t : Blocked(d, t) => Blocked(e, t)
    BY <1>1 DEF Blocked
<1>3. QED
    BY <1>2 DEF Hopeless, e

\* A transaction is tried: of what had been accepted, only hopeless ones are
\* given up.
LEMMA TriedOnce ==
    ASSUME NEW q \in Seq(Txs), q # <<>>, NEW B \in SUBSET Txs, Ordered(q, B),
           NEW d \in DbState, d.known \subseteq d.done, Hopeless(d, B \ (d.done \cup ToSet(q))),
           NEW e, \/ Head(q) \in d.known /\ e = d
                  \/ CanApply(d, Head(q)) /\ e = WithTxs(d, {Head(q)})
                  \/ Head(q) \notin d.known /\ ~CanApply(d, Head(q)) /\ e = d
    PROVE  Hopeless(e, B \ (e.done \cup ToSet(Tail(q))))
<1> DEFINE h == Head(q)
           R == ToSet(Tail(q))
           F == B \ (d.done \cup ToSet(q))
           G == B \ (e.done \cup R)
<1>1. h \in Txs /\ ToSet(q) = {h} \cup R
    BY SetOfTail, HeadTailProperties
<1>2. h \in B /\ h \notin R => \A s \in Needs[h] : s \in B /\ s \notin ToSet(q)
    BY OrderedTail
<1> HIDE DEF h, R
<1>3. CASE e = d /\ h \in d.done
  <2>1. G = F
      BY <1>1, <1>3
  <2>2. QED
      BY <1>3, <2>1 DEF R
<1>4. CASE CanApply(d, h) /\ e = WithTxs(d, {h})
  <2>1. e.done = d.done \cup {h}
      BY <1>1, <1>4, MoreTxs
  <2>2. G = F
      BY <1>1, <2>1
  <2>3. Hopeless(e, F)
      BY <1>1, <1>4, HopelessStays
  <2>4. QED
      BY <2>2, <2>3 DEF R
<1>5. CASE e = d /\ h \notin d.known /\ ~CanApply(d, h) /\ h \notin d.done
  <2>1. CASE h \notin B \/ h \in R
    <3>1. G = F
        BY <1>1, <1>5, <2>1
    <3>2. QED
        BY <1>5, <3>1 DEF R
  <2>2. CASE h \in B /\ h \notin R
    <3>1. G = F \cup {h}
        BY <1>1, <1>5, <2>2
    <3>2. Blocked(d, h) \/ \E s \in Needs[h] : s \notin d.done
        BY <1>5 DEF Blocked, CanApply
    <3>3. Blocked(d, h) \/ \E s \in Needs[h] : s \in F
        BY <1>2, <2>2, <3>2
    <3> HIDE DEF F, G
    <3>4. Hopeless(d, F)
        BY DEF F
    <3>5. Hopeless(d, F \cup {h})
        BY <3>3, <3>4 DEF Hopeless
    <3>6. QED
        BY <1>5, <3>1, <3>5 DEF G, R
  <2>3. QED
      BY <2>1, <2>2
<1>6. QED
    BY <1>3, <1>4, <1>5 DEF h

\* The tables when a transaction is tried.
LEMMA TryGrounded ==
    ASSUME Tables, Pending, ~session => pending = <<>>, Kept,
           NEW t \in Txs, TryTransaction(t), chain' = chain
    PROVE  Grounded(db', undo_stack', chain') /\ db'.known \subseteq db'.done
<1>1. \A k \in 1 .. Len(chain) + 1 : Level(db', undo_stack', k) = Level(db, undo_stack, k)
    BY TryHolds
<1>2. Grounded(db', undo_stack', chain)
    BY <1>1, GroundedSame DEF Kept
<1>3. db \in DbState
    BY DEF Tables, Sound
<1>4. CASE CanApply(db, t)
  <2>1. db' = WithTxs(db, {t})
      BY <1>4 DEF TryTransaction
  <2>2. db'.known = db.known \cup {t} /\ db'.done = db.done \cup {t}
      BY <1>3, <2>1, MoreTxs
  <2>3. QED
      BY <1>2, <2>2 DEF Kept
<1>5. CASE ~CanApply(db, t)
    BY <1>2, <1>5 DEF TryTransaction, Kept
<1>6. QED
    BY <1>4, <1>5

\* The queue consists of transactions.
LEMMA QueueTyped ==
    ASSUME IndInv
    PROVE  /\ popped \in Seq(Txs) /\ task.saved \in Seq(Txs) /\ Queue \in Seq(Txs)
           /\ task.before \in SUBSET Txs
           /\ popped = <<>> => Queue = task.saved
<1>1. popped \in Seq(Txs) /\ task.saved \in Seq(Txs) /\ task.before \in SUBSET Txs
    BY DEF IndInv, Handling, Task
<1>2. QED
    BY <1>1, ConcatProperties, ConcatEmptySeq DEF Queue

\* A transaction is tried again.
LEMMA RetryKept ==
    ASSUME IndInv, Kept, task.pc = "retry", Queue # <<>>, Retry(Head(Queue)), chain' = chain,
           task'.before = task.before, task'.pc = "retry", Queue' = Tail(Queue)
    PROVE  Kept'
<1> DEFINE h == Head(Queue)
<1>1. /\ Queue \in Seq(Txs) /\ task.before \in SUBSET Txs /\ db \in DbState /\ h \in Txs
    BY QueueTyped, HeadTailProperties DEF IndInv, Tables, Sound
<1>2. Grounded(db', undo_stack', chain') /\ db'.known \subseteq db'.done
  <2>1. CASE h \in db.known
      BY <2>1 DEF Retry, Kept
  <2>2. CASE h \notin db.known
    <3>1. TryTransaction(h) /\ (~session => pending = <<>>)
        BY <2>2 DEF Retry, IndInv, Pending
    <3>2. QED
        BY <1>1, <3>1, TryGrounded DEF IndInv
  <2>3. QED
      BY <2>1, <2>2
<1>3. Ordered(Queue, task.before) /\ db.known \subseteq db.done
      /\ Hopeless(db, task.before \ (db.done \cup ToSet(Queue)))
    BY DEF Kept, GivenUp
<1>4. \/ h \in db.known /\ db' = db
      \/ CanApply(db, h) /\ db' = WithTxs(db, {h})
      \/ h \notin db.known /\ ~CanApply(db, h) /\ db' = db
    BY DEF Retry, TryTransaction
<1>5. Hopeless(db', task.before \ (db'.done \cup ToSet(Tail(Queue))))
    BY <1>1, <1>3, <1>4, TriedOnce
<1>6. Hopeless(db', GivenUp')
    BY <1>5 DEF GivenUp
<1>7. Ordered(Queue', task'.before)
    BY <1>1, <1>3, OrderedTail
<1>8. QED
    BY <1>2, <1>6, <1>7 DEF Kept

\* The transactions of popped blocks, then the ones that were pending.
LEMMA RetriesKept == IndInv /\ Kept /\ (RetryPopped \/ RetryPending) => Kept'
<1>1. ASSUME IndInv, Kept, RetryPopped PROVE Kept'
  <2>1. /\ task.pc = "retry" /\ popped # <<>> /\ Retry(Head(popped)) /\ popped' = Tail(popped)
        /\ chain' = chain /\ task' = task
      BY <1>1 DEF RetryPopped
  <2>2. popped \in Seq(Txs) /\ task.saved \in Seq(Txs)
      BY <1>1, QueueTyped
  <2>3. Queue # <<>> /\ Head(Queue) = Head(popped) /\ Queue' = Tail(Queue)
    <3> DEFINE p == popped
               v == task.saved
               q == p \o v
               r == Tail(p)
               m == Len(p)
               n == Len(v)
    <3>1. m \in Nat \ {0} /\ n \in Nat
        BY <2>1, <2>2, EmptySeq
    <3>2. r \in Seq(Txs) /\ Len(r) = m - 1 /\ \A i \in 1 .. m - 1 : r[i] = p[i + 1]
      <4>1. r \in Seq(Txs) /\ Len(r) = m - 1 /\ \A i \in 1 .. Len(r) : r[i] = p[i + 1]
          BY <2>1, <2>2, HeadTailProperties
      <4>2. QED
          BY <4>1
    <3>3. /\ q \in Seq(Txs) /\ Len(q) = m + n
          /\ \A i \in 1 .. m + n : q[i] = IF i <= m THEN p[i] ELSE v[i - m]
        BY <2>2, ConcatProperties
    <3>4. q # <<>> /\ Head(q) = Head(p)
        BY <2>1, <2>2, <3>1, <3>3, EmptySeq
    <3>5. /\ r \o v \in Seq(Txs) /\ Len(r \o v) = (m - 1) + n
          /\ \A i \in 1 .. (m - 1) + n : (r \o v)[i] = IF i <= m - 1 THEN r[i] ELSE v[i - (m - 1)]
      <4> HIDE DEF r
      <4>1. /\ r \o v \in Seq(Txs) /\ Len(r \o v) = Len(r) + n
            /\ \A i \in 1 .. Len(r) + n : (r \o v)[i] = IF i <= Len(r) THEN r[i] ELSE v[i - Len(r)]
          BY <2>2, <3>2, ConcatProperties
      <4>2. QED
          BY <3>2, <4>1
    <3>6. /\ Tail(q) \in Seq(Txs) /\ Len(Tail(q)) = (m + n) - 1
          /\ \A i \in 1 .. (m + n) - 1 : Tail(q)[i] = q[i + 1]
      <4> HIDE DEF q
      <4>1. /\ Tail(q) \in Seq(Txs) /\ Len(Tail(q)) = Len(q) - 1
            /\ \A i \in 1 .. Len(Tail(q)) : Tail(q)[i] = q[i + 1]
          BY <3>3, <3>4, HeadTailProperties
      <4>2. QED
          BY <3>3, <4>1
    <3>7. r \o v = Tail(q)
      <4> DEFINE y == r \o v
                 z == Tail(q)
      <4> HIDE DEF p, v, q, r, m, n, y, z
      <4>1. y \in Seq(Txs) /\ z \in Seq(Txs) /\ Len(y) = Len(z)
          BY <3>1, <3>5, <3>6 DEF y, z
      <4>2. \A i \in 1 .. (m + n) - 1 : y[i] = z[i]
        <5> SUFFICES ASSUME NEW i \in 1 .. (m + n) - 1 PROVE y[i] = z[i]
            OBVIOUS
        <5>1. y[i] = IF i <= m - 1 THEN r[i] ELSE v[i - (m - 1)]
            BY <3>1, <3>5 DEF y
        <5>2. z[i] = IF i + 1 <= m THEN p[i + 1] ELSE v[(i + 1) - m]
            BY <3>1, <3>3, <3>6 DEF z
        <5>3. CASE i <= m - 1
            BY <3>1, <3>2, <5>1, <5>2, <5>3
        <5>4. CASE ~(i <= m - 1)
          <6>1. i - (m - 1) = (i + 1) - m /\ ~(i + 1 <= m)
              BY <3>1, <5>4
          <6>2. QED
              BY <5>1, <5>2, <5>4, <6>1
        <5>5. QED
            BY <5>3, <5>4
      <4>3. Len(y) = (m + n) - 1
          BY <3>1, <3>6, <4>1 DEF z
      <4>4. y = z
          BY <4>1, <4>2, <4>3, SeqEqual
      <4>5. QED
          BY <4>4 DEF y, z
    <3>8. Queue = q /\ Queue' = r \o v
        BY <2>1 DEF Queue
    <3>9. QED
        BY <3>4, <3>7, <3>8
  <2>4. QED
      BY <1>1, <2>1, <2>3, RetryKept
<1>2. ASSUME IndInv, Kept, RetryPending PROVE Kept'
  <2>1. /\ task.pc = "retry" /\ popped = <<>> /\ task.saved # <<>> /\ Retry(Head(task.saved))
        /\ task' = [task EXCEPT !.saved = Tail(@)] /\ chain' = chain /\ popped' = popped
      BY <1>2 DEF RetryPending
  <2>2. task.saved \in Seq(Txs) /\ Queue = task.saved
      BY <1>2, <2>1, QueueTyped
  <2>3. task' \in Task /\ task'.saved = Tail(task.saved) /\ task'.before = task.before /\ task'.pc = "retry"
    <3>1. Tail(task.saved) \in Seq(Txs) /\ task \in Task
        BY <1>2, <2>1, <2>2, HeadTailProperties DEF IndInv, Handling
    <3>2. QED
        BY <2>1, <3>1 DEF Task
  <2>4. Queue' = Tail(Queue)
    <3>1. Tail(task.saved) \in Seq(Txs)
        BY <2>1, <2>2, HeadTailProperties
    <3>2. Queue' = <<>> \o Tail(task.saved)
        BY <2>1, <2>3 DEF Queue
    <3>3. QED
        BY <2>2, <3>1, <3>2, ConcatEmptySeq
  <2>5. QED
      BY <1>2, <2>1, <2>2, <2>3, <2>4, RetryKept
<1>3. QED
    BY <1>1, <1>2

\* A block popped: its transactions are put before the queue.
LEMMA PopGives ==
    ASSUME IndInv, Kept, ~session, session' = session, chain # <<>>, PopBlock, task'.saved = task.saved
    PROVE  /\ Grounded(db', undo_stack', chain') /\ db'.known \subseteq db'.done
           /\ chain \in Seq(Block) /\ Len(chain) \in Nat \ {0} /\ Len(chain') = Len(chain) - 1
           /\ Last(chain).txs \in Seq(Txs) /\ Last(chain) = chain[Len(chain)]
           /\ Queue' = Last(chain).txs \o Queue
           /\ ToSet(Queue') = ToSet(Last(chain).txs) \cup ToSet(Queue)
           /\ \A k \in 1 .. Len(chain) : DoneOf(chain', k) = DoneOf(chain, k)
           /\ DoneOf(chain, Len(chain) + 1) = DoneOf(chain, Len(chain)) \cup ToSet(Last(chain).txs)
           /\ db'.done = DoneOf(chain, Len(chain))
           /\ \A t \in ToSet(Last(chain).txs) : t \notin DoneOf(chain, Len(chain))
<1> DEFINE n == Len(chain)
           b == Last(chain).txs
<1>1. /\ Sound(db, undo_stack, chain) /\ Len(undo_stack) = n /\ Grounded(db, undo_stack, chain)
      /\ chain \in Seq(Block) /\ n \in Nat \ {0}
  <2>1. Sound(db, undo_stack, chain) /\ Len(undo_stack) = n + 0 /\ Grounded(db, undo_stack, chain)
      BY DEF IndInv, Tables, Kept
  <2>2. chain \in Seq(Block)
      BY <2>1 DEF Sound
  <2>3. n \in Nat \ {0}
      BY <2>2, EmptySeq
  <2>4. QED
      BY <2>1, <2>2, <2>3
<1>2. /\ db' = Last(undo_stack) /\ undo_stack' = Front(undo_stack) /\ chain' = Front(chain)
      /\ popped' = b \o popped
    BY DEF PopBlock
<1>3. /\ Grounded(db', undo_stack', chain') /\ db'.known \subseteq db'.done
      /\ db'.done = DoneOf(chain, n)
    BY <1>1, <1>2, GroundedPop
<1>4. Last(chain) = chain[n] /\ chain[n] \in Block
    BY <1>1 DEF Last
<1>5. b \in Seq(Txs)
    BY <1>4 DEF Block
<1>6. Len(chain') = n - 1
    BY <1>1, <1>2, PopKeeps
<1>7. \A k \in 1 .. n : DoneOf(chain', k) = DoneOf(chain, k)
    BY <1>1, <1>2, DoneOfFront
<1>8. DoneOf(chain, n + 1) = DoneOf(chain, n) \cup ToSet(b)
  <2>1. \A k \in 1 .. n : DoneOf(chain, k + 1) = DoneOf(chain, k) \cup ToSet(chain[k].txs)
      BY <1>1, <1>4, DoneOfMore
  <2>2. QED
      BY <1>1, <1>4, <2>1
<1>9. Queue' = b \o Queue /\ ToSet(Queue') = ToSet(b) \cup ToSet(Queue)
  <2>1. popped \in Seq(Txs) /\ task.saved \in Seq(Txs) /\ Queue \in Seq(Txs)
      BY QueueTyped
  <2>2. Queue' = (b \o popped) \o task.saved
      BY <1>2 DEF Queue
  <2>3. Queue' = b \o Queue
    <3> DEFINE p == popped
               v == task.saved
    <3>1. Queue = p \o v /\ Queue' = (b \o p) \o v /\ p \in Seq(Txs) /\ v \in Seq(Txs)
        BY <2>1, <2>2 DEF Queue
    <3> HIDE DEF p, v, b
    <3>2. (b \o p) \o v = b \o (p \o v)
        BY <1>5, <3>1, ConcatAssociative
    <3>3. QED
        BY <3>1, <3>2
  <2>4. QED
    <3> HIDE DEF b
    <3> QED
      BY <1>5, <2>1, <2>3, SetOfConcat
<1>10. ASSUME NEW t \in ToSet(b), t \in DoneOf(chain, n) PROVE FALSE
  <2>1. PICK j \in 1 .. Len(b) : t = b[j]
      BY <1>5, SetOfSeq
  <2>2. PICK i \in 1 .. n - 1 : \E m \in 1 .. Len(chain[i].txs) : t = chain[i].txs[m]
      BY <1>1, <1>10, DoneOfMembers
  <2>3. Once(chain)
      BY <1>1 DEF Sound
  <2>4. n \in 1 .. n /\ i \in 1 .. n /\ i # n
      BY <1>1
  <2> HIDE DEF n
  <2>5. QED
      BY <1>4, <2>1, <2>2, <2>3, <2>4 DEF Once, n
<1>11. QED
    BY <1>1, <1>3, <1>4, <1>5, <1>6, <1>7, <1>8, <1>9, <1>10

\* The old fork is popped.
LEMMA PopOldKept == IndInv /\ Kept /\ PopOldBlock => Kept'
<1> SUFFICES ASSUME IndInv, Kept, PopOldBlock PROVE Kept'
    OBVIOUS
<1> DEFINE n == Len(chain)
           b == Last(chain).txs
           B == task.before
<1>1. /\ task.pc = "pop" /\ PopBlock /\ session' = session
      /\ task' = [task EXCEPT !.pc = IF task.pops = 1 THEN "push" ELSE "pop",
                              !.pops = @ - 1, !.old = <<Last(chain)>> \o @]
    BY DEF PopOldBlock
<1>2. /\ ~session /\ task \in Task /\ task.applied = 0 /\ task.pops \in 1 .. n /\ chain \in Seq(Block)
    BY <1>1 DEF IndInv, Handling, Tables, Sound
<1>3. /\ task'.pc \in {"push", "pop"} /\ task'.saved = task.saved /\ task'.before = B
      /\ task'.applied = 0
    BY <1>1, <1>2 DEF Task
<1>4. chain # <<>>
    BY <1>2, EmptySeq
<1>5. /\ Grounded(db', undo_stack', chain') /\ db'.known \subseteq db'.done
      /\ n \in Nat \ {0} /\ Len(chain') = n - 1
      /\ b \in Seq(Txs) /\ Last(chain) = chain[n]
      /\ Queue' = b \o Queue /\ ToSet(Queue') = ToSet(b) \cup ToSet(Queue)
      /\ \A k \in 1 .. n : DoneOf(chain', k) = DoneOf(chain, k)
      /\ DoneOf(chain, n + 1) = DoneOf(chain, n) \cup ToSet(b)
      /\ \A t \in ToSet(b) : t \notin DoneOf(chain, n)
    BY <1>1, <1>2, <1>3, <1>4, PopGives
<1>6. /\ DoneOf(chain, n + 1) \subseteq B \ ToSet(Queue)
      /\ B \subseteq DoneOf(chain, n - 0 + 1) \cup ToSet(Queue)
      /\ Ordered(Queue, B)
    BY <1>1, <1>2 DEF Kept
<1>7. ToSet(b) = {b[i] : i \in 1 .. Len(b)} /\ Queue \in Seq(Txs)
  <2> HIDE DEF b
  <2>1. ToSet(b) = {b[i] : i \in 1 .. Len(b)}
      BY <1>5, SetOfSeq
  <2>2. QED
      BY <2>1, QueueTyped
<1>8. ASSUME NEW i \in 1 .. Len(b), NEW s \in Needs[b[i]]
      PROVE  s \in B /\ s \notin ToSet(Queue) /\ \A j \in i .. Len(b) : b[j] # s
  <2>1. s \in DoneOf(chain, n) \/ \E m \in 1 .. i - 1 : s = b[m]
    <3>1. Founded(chain) /\ n \in 1 .. n
        BY <1>5 DEF Kept, Grounded
    <3> HIDE DEF n
    <3>2. QED
        BY <1>5, <3>1 DEF Founded, n
  <2>2. Len(b) \in Nat
      BY <1>5
  <2>3. CASE s \in DoneOf(chain, n)
    <3>1. \A j \in i .. Len(b) : j \in 1 .. Len(b)
        BY <2>2
    <3>2. QED
        BY <1>5, <1>6, <1>7, <2>3, <3>1
  <2>4. CASE \E m \in 1 .. i - 1 : s = b[m]
    <3>1. PICK m \in 1 .. i - 1 : s = b[m]
        BY <2>4
    <3>2. m \in 1 .. Len(b) /\ \A j \in i .. Len(b) : j \in 1 .. Len(b) /\ j # m
        BY <2>2
    <3>3. Once(chain) /\ n \in 1 .. n
        BY <1>5 DEF IndInv, Tables, Sound
    <3>4. \A j \in 1 .. Len(b) : b[j] = b[m] => j = m
      <4> HIDE DEF n
      <4> QED
        BY <1>5, <3>2, <3>3 DEF Once, n
    <3>5. s \in ToSet(b)
        BY <1>7, <3>1, <3>2
    <3>6. s \in B /\ s \notin ToSet(Queue)
        BY <1>5, <1>6, <3>5
    <3>7. QED
        BY <3>1, <3>2, <3>4, <3>6
  <2>5. QED
      BY <2>1, <2>3, <2>4
<1>9. Ordered(Queue', B)
  <2> HIDE DEF b
  <2>1. Ordered(b \o Queue, B)
      BY <1>5, <1>6, <1>7, <1>8, OrderedConcat
  <2>2. QED
      BY <1>5, <2>1
<1>10. DoneOf(chain', n) = DoneOf(chain, n) /\ Len(chain') + 1 = n /\ Len(chain') - 0 + 1 = n
    BY <1>5
<1>11. DoneOf(chain', n) \subseteq B \ ToSet(Queue')
    BY <1>5, <1>6, <1>10
<1>12. B \subseteq DoneOf(chain', n) \cup ToSet(Queue')
  <2>1. n - 0 + 1 = n + 1
      BY <1>5
  <2>2. QED
      BY <1>5, <1>6, <1>10, <2>1
<1>13. /\ task'.pc = "pop" => DoneOf(chain', Len(chain') + 1) \subseteq task'.before \ ToSet(Queue')
       /\ task'.before \subseteq DoneOf(chain', Len(chain') - task'.applied + 1) \cup ToSet(Queue')
       /\ Ordered(Queue', task'.before)
    BY <1>3, <1>9, <1>10, <1>11, <1>12
<1>14. QED
    BY <1>3, <1>5, <1>13 DEF Kept

\* What was applied of the new fork is popped again.
LEMMA PopNewKept == IndInv /\ Kept /\ PopNewBlock => Kept'
<1> SUFFICES ASSUME IndInv, Kept, PopNewBlock PROVE Kept'
    OBVIOUS
<1> DEFINE n == Len(chain)
           a == task.applied
           b == Last(chain).txs
           B == task.before
<1>1. /\ task.pc = "unwind" /\ PopBlock /\ session' = session
      /\ task' = [task EXCEPT !.pc = IF task.applied = 1 THEN "restore" ELSE "unwind", !.applied = @ - 1]
    BY DEF PopNewBlock
<1>2. ~session /\ task \in Task /\ a \in 1 .. n /\ chain \in Seq(Block)
    BY <1>1 DEF IndInv, Handling, Tables, Sound
<1>3. /\ task'.pc = IF a = 1 THEN "restore" ELSE "unwind"
      /\ task'.saved = task.saved /\ task'.before = B /\ task'.applied = a - 1
    BY <1>1, <1>2 DEF Task
<1>4. chain # <<>>
    BY <1>2, EmptySeq
<1>5. /\ Grounded(db', undo_stack', chain') /\ db'.known \subseteq db'.done
      /\ n \in Nat \ {0} /\ Len(chain') = n - 1
      /\ b \in Seq(Txs) /\ db'.done = DoneOf(chain, n)
      /\ Queue' = b \o Queue /\ ToSet(Queue') = ToSet(b) \cup ToSet(Queue)
      /\ \A k \in 1 .. n : DoneOf(chain', k) = DoneOf(chain, k)
      /\ \A t \in ToSet(b) : t \notin DoneOf(chain, n)
    BY <1>1, <1>2, <1>3, <1>4, PopGives
<1>6. B \subseteq DoneOf(chain, n - a + 1) \cup ToSet(Queue) /\ Ordered(Queue, B)
    BY <1>1, <1>2 DEF Kept
<1>7. ToSet(b) = {b[i] : i \in 1 .. Len(b)} /\ Queue \in Seq(Txs)
  <2> HIDE DEF b
  <2>1. ToSet(b) = {b[i] : i \in 1 .. Len(b)}
      BY <1>5, SetOfSeq
  <2>2. QED
      BY <2>1, QueueTyped
<1> HIDE DEF n, a, b, B
<1>8. n - a + 1 \in 1 .. n /\ n - a + 1 \in Nat /\ n \in Nat /\ n <= n + 1
    BY <1>2, <1>5
<1>9. DoneOf(chain, n - a + 1) \subseteq DoneOf(chain, n)
    BY <1>2, <1>8, DoneOfMembers DEF n
<1>10. Ordered(Queue', B)
  <2>1. \A i \in 1 .. Len(b) : ~(b[i] \in B /\ b[i] \notin ToSet(Queue))
      BY <1>5, <1>6, <1>7, <1>9
  <2>2. Ordered(b \o Queue, B)
      BY <1>5, <1>6, <1>7, <2>1, OrderedConcat
  <2>3. QED
      BY <1>5, <2>2
<1>11. Len(chain') - task'.applied + 1 = n - a + 1
    BY <1>2, <1>3, <1>5
<1>12. B \subseteq DoneOf(chain', n - a + 1) \cup ToSet(Queue')
    BY <1>5, <1>6, <1>8
<1>13. B \subseteq db'.done \cup ToSet(Queue')
    BY <1>5, <1>6, <1>9
<1>14. QED
    BY <1>3, <1>5, <1>10, <1>11, <1>12, <1>13 DEF Kept

\* A block applied.
LEMMA ApplyGives ==
    ASSUME IndInv, Kept, ~session, session' = session, NEW b \in Block, ApplyBlock(b)
    PROVE  /\ Grounded(db', undo_stack', chain') /\ db'.known \subseteq db'.done
           /\ Len(chain) \in Nat /\ chain \in Seq(Block) /\ Len(chain') = Len(chain) + 1
           /\ \A k \in 1 .. Len(chain) + 1 : DoneOf(chain', k) = DoneOf(chain, k)
           /\ db.done = DoneOf(chain, Len(chain) + 1) /\ db.done \subseteq db'.done
<1> DEFINE n == Len(chain)
<1>1. /\ Sound(db, undo_stack, chain) /\ Len(undo_stack) = n /\ Grounded(db, undo_stack, chain)
      /\ chain \in Seq(Block) /\ n \in Nat /\ db \in DbState /\ undo_stack \in Seq(DbState)
    BY DEF IndInv, Tables, Kept, Sound
<1>2. /\ BlockApplies(db, b) /\ db' = WithBlock(db, b) /\ undo_stack' = Append(undo_stack, db)
      /\ chain' = Append(chain, b)
    BY DEF ApplyBlock
<1>3. Grounded(db', undo_stack', chain')
    BY <1>1, <1>2, GroundedApply
<1>4. Len(chain') = n + 1
    BY <1>1, <1>2, AppendProperties
<1>5. \A k \in 1 .. n + 1 : DoneOf(chain', k) = DoneOf(chain, k)
    BY <1>1, <1>2, DoneOfMore
<1>6. db.done = DoneOf(chain, n + 1)
  <2> HIDE DEF n
  <2>1. Level(db, undo_stack, n + 1) = db /\ n + 1 \in 1 .. n + 1
      BY <1>1 DEF Level
  <2>2. QED
      BY <1>1, <2>1 DEF Grounded, Counted, n
<1>7. db.done \subseteq db'.done /\ db'.known \subseteq db'.done
  <2>1. db'.done = db.done \cup ToSet(b.txs) /\ db'.known \subseteq db.known \cup ToSet(b.txs)
      BY <1>1, <1>2, BlockAdds
  <2>2. QED
      BY <2>1 DEF Kept
<1>8. QED
    BY <1>1, <1>3, <1>4, <1>5, <1>6, <1>7

\* The next block of the new fork.
LEMMA ApplyNewKept == IndInv /\ Kept /\ ApplyNewBlock => Kept'
<1> SUFFICES ASSUME IndInv, Kept, ApplyNewBlock PROVE Kept'
    OBVIOUS
<1> DEFINE n == Len(chain)
           a == task.applied
           B == task.before
<1>1. /\ task.pc = "push" /\ session' = session /\ popped' = popped
      /\ task' = [task EXCEPT !.pc = IF task.pushes = 1 THEN "retry" ELSE "push",
                              !.pushes = @ - 1, !.applied = @ + 1]
    BY DEF ApplyNewBlock
<1>2. PICK b \in Block : ApplyBlock(b)
    BY CandidatesTyped DEF ApplyNewBlock
<1>3. ~session /\ task \in Task /\ a <= n /\ a \in Nat
    BY <1>1 DEF IndInv, Handling, Task
<1>4. /\ task'.pc \in {"retry", "push"} /\ task'.saved = task.saved /\ task'.before = B
      /\ task'.applied = a + 1
    BY <1>1, <1>3 DEF Task
<1>5. /\ Grounded(db', undo_stack', chain') /\ db'.known \subseteq db'.done
      /\ n \in Nat /\ chain \in Seq(Block) /\ Len(chain') = n + 1
      /\ \A k \in 1 .. n + 1 : DoneOf(chain', k) = DoneOf(chain, k)
      /\ db.done = DoneOf(chain, n + 1) /\ db.done \subseteq db'.done
    BY <1>1, <1>2, <1>3, ApplyGives
<1>6. Queue' = Queue
    BY <1>1, <1>4 DEF Queue
<1>7. B \subseteq DoneOf(chain, n - a + 1) \cup ToSet(Queue) /\ Ordered(Queue, B)
    BY <1>1 DEF Kept
<1> HIDE DEF n, a, B
<1>8. /\ n - a + 1 \in 1 .. n + 1 /\ n - a + 1 \in Nat /\ n + 1 \in Nat /\ n + 1 <= n + 1
      /\ n - a + 1 <= n + 1 /\ Len(chain') - task'.applied + 1 = n - a + 1
    BY <1>3, <1>4, <1>5
<1>9. DoneOf(chain, n - a + 1) \subseteq db.done
    BY <1>5, <1>8, DoneOfMembers DEF n
<1>10. B \subseteq db'.done \cup ToSet(Queue')
    BY <1>5, <1>6, <1>7, <1>9
<1>11. Hopeless(db', GivenUp')
    BY <1>4, <1>10 DEF GivenUp, Hopeless
<1>12. B \subseteq DoneOf(chain', n - a + 1) \cup ToSet(Queue')
    BY <1>5, <1>6, <1>7, <1>8
<1>13. QED
    BY <1>4, <1>5, <1>6, <1>7, <1>8, <1>11, <1>12 DEF Kept

\* A block of the new fork that does not apply.
LEMMA RejectKept == IndInv /\ Kept /\ RejectNewBlock => Kept'
<1> SUFFICES ASSUME IndInv, Kept, RejectNewBlock PROVE Kept'
    OBVIOUS
<1> DEFINE n == Len(chain)
           a == task.applied
           B == task.before
           q == IF task.old = <<>> THEN "retry" ELSE IF task.applied = 0 THEN "restore" ELSE "unwind"
<1>1. /\ task.pc = "push" /\ UNCHANGED <<db, undo_stack, session, chain, pending, popped>>
      /\ task' = [task EXCEPT !.failed = TRUE, !.pc = q]
    BY DEF RejectNewBlock
<1>2. /\ ~session /\ task \in Task /\ a <= n /\ a \in Nat /\ n \in Nat /\ chain \in Seq(Block)
      /\ undo_stack \in Seq(DbState) /\ Len(undo_stack) = n
    BY <1>1 DEF IndInv, Handling, Task, Tables, Sound
<1>3. q \in {"retry", "restore", "unwind"}
    OBVIOUS
<1> HIDE DEF q
<1>4. task'.pc = q /\ task'.saved = task.saved /\ task'.before = B /\ task'.applied = a
    BY <1>1, <1>2 DEF Task
<1>5. Queue' = Queue
    BY <1>1, <1>4 DEF Queue
<1>6. /\ B \subseteq DoneOf(chain, n - a + 1) \cup ToSet(Queue) /\ Ordered(Queue, B)
      /\ Grounded(db, undo_stack, chain) /\ db.known \subseteq db.done
    BY <1>1 DEF Kept
<1>7. DoneOf(chain, n - a + 1) \subseteq db.done
  <2> HIDE DEF n, a
  <2>1. /\ n - a + 1 \in Nat /\ n + 1 \in Nat /\ n - a + 1 <= n + 1 /\ n + 1 <= n + 1
      BY <1>2
  <2>2. DoneOf(chain, n - a + 1) \subseteq DoneOf(chain, n + 1)
      BY <1>2, <2>1, DoneOfMembers DEF n
  <2>3. Level(db, undo_stack, n + 1) = db /\ n + 1 \in 1 .. n + 1
      BY <1>2 DEF Level
  <2>4. db.done = DoneOf(chain, n + 1)
      BY <1>6, <2>3 DEF Grounded, Counted, n
  <2>5. QED
      BY <2>2, <2>4
<1>8. B \subseteq db'.done \cup ToSet(Queue')
    BY <1>1, <1>5, <1>6, <1>7
<1>9. Hopeless(db', GivenUp')
    BY <1>4, <1>8 DEF GivenUp, Hopeless
<1>10. QED
    BY <1>1, <1>3, <1>4, <1>5, <1>6, <1>8, <1>9 DEF Kept

\* The old fork is applied again.
LEMMA RestoreKept == IndInv /\ Kept /\ RestoreBlock => Kept'
<1> SUFFICES ASSUME IndInv, Kept, RestoreBlock PROVE Kept'
    OBVIOUS
<1> DEFINE B == task.before
           b == Head(task.old)
<1>1. /\ task.pc = "restore" /\ ApplyBlock(b) /\ session' = session /\ popped' = popped
      /\ task' = [task EXCEPT !.pc = IF Len(task.old) = 1 THEN "retry" ELSE "restore", !.old = Tail(@)]
    BY DEF RestoreBlock
<1>2. ~session /\ task \in Task /\ task.old # <<>>
    BY <1>1 DEF IndInv, Handling
<1>3. b \in Block
    BY <1>2, HeadTailProperties DEF Task
<1>4. task'.pc \in {"retry", "restore"} /\ task'.saved = task.saved /\ task'.before = B
    BY <1>1, <1>2 DEF Task
<1> HIDE DEF b
<1>5. /\ Grounded(db', undo_stack', chain') /\ db'.known \subseteq db'.done
      /\ db.done \subseteq db'.done
    BY <1>1, <1>2, <1>3, ApplyGives
<1>6. Queue' = Queue
    BY <1>1, <1>4 DEF Queue
<1>7. B \subseteq db.done \cup ToSet(Queue) /\ Ordered(Queue, B)
    BY <1>1 DEF Kept
<1>8. B \subseteq db'.done \cup ToSet(Queue')
    BY <1>5, <1>6, <1>7
<1>9. Hopeless(db', GivenUp')
    BY <1>4, <1>8 DEF GivenUp, Hopeless
<1>10. QED
    BY <1>4, <1>5, <1>6, <1>7, <1>8, <1>9 DEF Kept

\* At rest, what is pending comes after what it needs, and is not on the chain.
LEMMA PendingOrdered ==
    ASSUME IndInv, Kept, task.pc = "idle"
    PROVE  /\ Ordered(pending, Accepted)
           /\ Accepted = ToSet(pending) \cup DoneOf(chain, Len(chain) + 1)
           /\ ToSet(pending) \cap DoneOf(chain, Len(chain) + 1) = {}
<1> DEFINE n == Len(chain)
           d == HeadState
           p == pending
           D == DoneOf(chain, n + 1)
<1>1. /\ d \in DbState /\ Sound(d, HeadStack, chain) /\ Len(HeadStack) = n /\ p \in Seq(Txs)
      /\ chain \in Seq(Block) /\ n \in Nat /\ HeadStack \in Seq(DbState)
    BY HeadHolds DEF IndInv, Pending, Tables, Sound
<1>2. d.done = D
    BY HeadGrounded DEF IndInv, Kept
<1>3. TxsApply(d, p)
  <2>1. CASE session
      BY <2>1 DEF IndInv, Pending, Replays, HeadState
  <2>2. CASE ~session
    <3>1. p = <<>>
        BY <2>2 DEF IndInv, Pending
    <3>2. QED
        BY <1>1, <3>1, ReplaysNone DEF Replays
  <2>3. QED
      BY <2>1, <2>2
<1>4. Accepted = ToSet(p) \cup D
  <2>1. (n + 1) - 1 = n
      BY <1>1
  <2>2. QED
      BY <2>1 DEF Accepted, DoneOf
<1>5. \A t \in D : Refused(d, t)
  <2>1. Level(d, HeadStack, n + 1) = d /\ n + 1 \in 1 .. n + 1 /\ n + 1 \in Nat /\ n + 1 <= n + 1
    <3> HIDE DEF n, d
    <3> QED
      BY <1>1 DEF Level
  <2> SUFFICES ASSUME NEW t \in D PROVE Refused(d, t)
      OBVIOUS
  <2>2. PICK i \in 1 .. (n + 1) - 1 : \E j \in 1 .. Len(chain[i].txs) : t = chain[i].txs[j]
      BY <1>1, <2>1, DoneOfMembers
  <2>3. Remembered(d, HeadStack, chain)
      BY <1>1 DEF Sound
  <2> HIDE DEF n, d
  <2>4. QED
      BY <2>1, <2>2, <2>3 DEF Remembered, n
<1> HIDE DEF d, p, D
<1>6. ToSet(p) = {p[i] : i \in 1 .. Len(p)} /\ Len(p) \in Nat
    BY <1>1, SetOfSeq
<1>7. /\ \A j \in 1 .. Len(p) : ~Refused(d, p[j])
      /\ \A j1, j2 \in 1 .. Len(p) : p[j1] = p[j2] => j1 = j2
    BY <1>1, <1>3, FreshSeq
<1>8. ToSet(p) \cap D = {}
    BY <1>5, <1>6, <1>7
<1>9. Ordered(p, Accepted)
  <2> SUFFICES ASSUME NEW k \in 1 .. Len(p), NEW s \in Needs[p[k]]
               PROVE  s \in Accepted /\ \A j \in k .. Len(p) : p[j] # s
      BY DEF Ordered
  <2>1. s \in d.done \/ \E m \in 1 .. k - 1 : s = p[m]
      BY <1>1, <1>3, SeqFounded
  <2>2. CASE s \in D
    <3>1. \A j \in k .. Len(p) : j \in 1 .. Len(p)
        BY <1>6
    <3>2. QED
        BY <1>4, <1>6, <1>8, <2>2, <3>1
  <2>3. CASE \E m \in 1 .. k - 1 : s = p[m]
    <3>1. PICK m \in 1 .. k - 1 : s = p[m]
        BY <2>3
    <3>2. m \in 1 .. Len(p) /\ \A j \in k .. Len(p) : j \in 1 .. Len(p) /\ j # m
        BY <1>6
    <3>3. QED
        BY <1>4, <1>6, <1>7, <3>1, <3>2
  <2>4. QED
      BY <1>2, <2>1, <2>2, <2>3
<1>10. QED
    BY <1>4, <1>8, <1>9 DEF p, D, n

\* push_block() begins.
LEMMA BeginKept ==
    ASSUME IndInv, Kept, task.pc = "idle", NEW pops, NEW pushes, NEW own, BeginPush(pops, pushes, own)
    PROVE  Kept'
<1> DEFINE n == Len(chain)
           D == DoneOf(chain, n + 1)
           pc == IF pops > 0 THEN "pop" ELSE IF pushes > 0 THEN "push" ELSE "retry"
<1>1. /\ task' = [Idle(Accepted) EXCEPT !.pc = pc, !.pops = pops, !.pushes = pushes, !.own = own,
                                        !.saved = pending]
      /\ chain' = chain /\ popped' = popped /\ db' = HeadState /\ undo_stack' = HeadStack
    BY DEF BeginPush
<1>2. pc \in {"pop", "push", "retry"}
    OBVIOUS
<1> HIDE DEF pc
<1>3. task'.pc = pc /\ task'.before = Accepted /\ task'.saved = pending /\ task'.applied = 0
    BY <1>1 DEF Idle
<1>4. popped = <<>> /\ pending \in Seq(Txs) /\ n \in Nat
    BY DEF Kept, IndInv, Pending, Tables, Sound
<1>5. Queue' = pending
  <2>1. Queue' = <<>> \o pending
      BY <1>1, <1>3, <1>4 DEF Queue
  <2>2. QED
      BY <1>4, <2>1, ConcatEmptySeq
<1>6. /\ Grounded(db', undo_stack', chain') /\ db'.done = D /\ db'.known \subseteq db'.done
    BY <1>1, HeadGrounded DEF IndInv, Kept
<1>7. Ordered(pending, Accepted) /\ Accepted = ToSet(pending) \cup D /\ ToSet(pending) \cap D = {}
    BY PendingOrdered
<1>8. DoneOf(chain', Len(chain') + 1) = D /\ DoneOf(chain', Len(chain') - 0 + 1) = D
  <2>1. Len(chain') + 1 = n + 1 /\ Len(chain') - 0 + 1 = n + 1
      BY <1>1, <1>4
  <2>2. QED
      BY <1>1, <2>1
<1> HIDE DEF D
<1>9. Hopeless(db', GivenUp')
    BY <1>3, <1>5, <1>6, <1>7 DEF GivenUp, Hopeless
<1>10. D \subseteq Accepted \ ToSet(pending) /\ Accepted \subseteq D \cup ToSet(pending)
    BY <1>7
<1>11. QED
    BY <1>2, <1>3, <1>5, <1>6, <1>7, <1>8, <1>9, <1>10 DEF Kept

\* No queue and nothing to remember.
LEMMA RestKept ==
    ASSUME Grounded(db', undo_stack', chain'), db'.known \subseteq db'.done, popped' = <<>>,
           NEW pc \in {"idle", "clear"}, task' = [Idle({}) EXCEPT !.pc = pc]
    PROVE  Kept'
<1>1. task'.pc = pc /\ task'.before = {} /\ task'.saved = <<>>
    BY DEF Idle
<1>2. Ordered(Queue', {})
    BY DEF Ordered
<1>3. Hopeless(db', GivenUp')
    BY <1>1 DEF GivenUp, Hopeless
<1>4. QED
    BY <1>1, <1>2, <1>3 DEF Kept

\* A transaction, a block of the network, and a block of the node.
LEMMA CallsKept ==
    ASSUME IndInv, Kept, \/ \E t \in Txs : PushTransaction(t)
                         \/ \E pops \in 0 .. MaxPops : PushBlock(pops)
                         \/ \E when \in 1 .. MaxTime : GenerateBlock(when)
    PROVE  Kept'
<1>1. ASSUME NEW t \in Txs, PushTransaction(t) PROVE Kept'
  <2>1. /\ TryTransaction(t) /\ chain' = chain /\ popped' = popped /\ task' = task
        /\ task.pc = "idle"
      BY <1>1 DEF PushTransaction
  <2>2. ~session => pending = <<>>
      BY <2>1 DEF IndInv, Pending
  <2>3. Grounded(db', undo_stack', chain') /\ db'.known \subseteq db'.done
      BY <2>1, <2>2, TryGrounded DEF IndInv
  <2>4. Queue' = Queue /\ task.before \in SUBSET Txs /\ db \in DbState
      BY <2>1, QueueTyped DEF Queue, IndInv, Tables, Sound
  <2> DEFINE R == ToSet(Queue)
             F == task.before \ (db.done \cup R)
             G == task.before \ (db'.done \cup R)
  <2>5. Hopeless(db, F)
      BY <2>1 DEF Kept, GivenUp
  <2>6. Hopeless(db', G)
    <3> HIDE DEF R
    <3>1. CASE CanApply(db, t)
      <4>1. db' = WithTxs(db, {t}) /\ db'.done = db.done \cup {t}
          BY <2>1, <2>4, <3>1, MoreTxs DEF TryTransaction
      <4>2. t \notin F
        <5>1. F \cap db.done = {}
            OBVIOUS
        <5> HIDE DEF F
        <5>2. QED
            BY <2>4, <2>5, <3>1, <5>1, HopelessFails
      <4>3. G = F
          BY <4>1, <4>2
      <4> HIDE DEF F, G
      <4>4. Hopeless(db', F)
          BY <2>4, <2>5, <4>1, HopelessStays
      <4>5. QED
          BY <4>3, <4>4
    <3>2. CASE ~CanApply(db, t)
        BY <2>1, <2>5, <3>2 DEF TryTransaction
    <3>3. QED
        BY <3>1, <3>2
  <2>7. Hopeless(db', GivenUp')
      BY <2>1, <2>4, <2>6 DEF GivenUp
  <2>8. QED
      BY <2>1, <2>3, <2>4, <2>7 DEF Kept
<1>2. ASSUME NEW pops \in 0 .. MaxPops, PushBlock(pops) PROVE Kept'
    BY <1>2, BeginKept DEF PushBlock
<1>3. ASSUME NEW when \in 1 .. MaxTime, GenerateBlock(when) PROVE Kept'
  <2> DEFINE block == [txs |-> Generated(when), time |-> when]
  <2>1. task.pc = "idle"
      BY <1>3 DEF GenerateBlock
  <2>2. CASE BeginPush(0, 1, <<block>>)
      BY <2>1, <2>2, BeginKept
  <2>3. CASE /\ db' = HeadState /\ undo_stack' = HeadStack /\ session' = FALSE
             /\ task' = [Idle({}) EXCEPT !.pc = "clear"]
             /\ UNCHANGED <<chain, pending, popped>>
    <3>1. Grounded(db', undo_stack', chain') /\ db'.known \subseteq db'.done
        BY <2>3, HeadGrounded DEF IndInv, Kept
    <3>2. popped' = <<>>
        BY <2>1, <2>3 DEF Kept
    <3>3. QED
        BY <2>3, <3>1, <3>2, RestKept
  <2>4. QED
      BY <1>3, <2>2, <2>3 DEF GenerateBlock
<1>4. QED
    BY <1>1, <1>2, <1>3

\* push_block() returns, and a failed production clears what is pending.
LEMMA EndsKept == IndInv /\ Kept /\ (Return \/ ClearPending) => Kept'
<1>1. ASSUME IndInv, Kept, Return PROVE Kept'
  <2>1. /\ task.pc = "retry" /\ popped = <<>> /\ task.saved = <<>>
        /\ UNCHANGED <<db, undo_stack, session, chain, pending, popped>>
        /\ task' = IF task.failed /\ task.own # <<>> THEN [Idle({}) EXCEPT !.pc = "clear"]
                   ELSE Idle(task.before)
      BY <1>1 DEF Return
  <2>2. Grounded(db', undo_stack', chain') /\ db'.known \subseteq db'.done /\ popped' = <<>>
      BY <1>1, <2>1 DEF Kept
  <2>3. CASE task' = [Idle({}) EXCEPT !.pc = "clear"]
      BY <2>2, <2>3, RestKept
  <2>4. CASE task' = Idle(task.before)
    <3>1. task'.pc = "idle" /\ task'.before = task.before /\ task'.saved = <<>>
        BY <2>4 DEF Idle
    <3>2. Queue' = Queue
        BY <2>1, <3>1 DEF Queue
    <3>3. Hopeless(db, GivenUp) /\ Ordered(Queue, task.before)
        BY <1>1, <2>1 DEF Kept
    <3>4. Hopeless(db', GivenUp')
        BY <2>1, <3>1, <3>2, <3>3 DEF GivenUp
    <3>5. QED
        BY <2>2, <3>1, <3>2, <3>3, <3>4 DEF Kept
  <2>5. QED
      BY <2>1, <2>3, <2>4
<1>2. ASSUME IndInv, Kept, ClearPending PROVE Kept'
  <2>1. /\ task.pc = "clear" /\ db' = HeadState /\ undo_stack' = HeadStack /\ task' = Idle({})
        /\ chain' = chain /\ popped' = popped
      BY <1>2 DEF ClearPending
  <2>2. Grounded(db', undo_stack', chain') /\ db'.known \subseteq db'.done
      BY <1>2, <2>1, HeadGrounded DEF IndInv, Kept
  <2>3. popped' = <<>> /\ task' = [Idle({}) EXCEPT !.pc = "idle"]
      BY <1>2, <2>1 DEF Kept, Idle
  <2>4. QED
      BY <2>2, <2>3, RestKept
<1>3. QED
    BY <1>1, <1>2

\* Every step keeps the invariant.
LEMMA KeptStep == IndInv /\ Kept /\ [Next]_vars => Kept'
<1> SUFFICES ASSUME IndInv, Kept, [Next]_vars PROVE Kept'
    OBVIOUS
<1>1. CASE UNCHANGED vars
    BY <1>1 DEF vars, Kept, Queue, GivenUp
<1>2. CASE \/ \E t \in Txs : PushTransaction(t)
           \/ \E pops \in 0 .. MaxPops : PushBlock(pops)
           \/ \E when \in 1 .. MaxTime : GenerateBlock(when)
    BY <1>2, CallsKept
<1>3. CASE Handler
    BY <1>3, PopOldKept, ApplyNewKept, RejectKept, PopNewKept, RestoreKept,
       RetriesKept, EndsKept DEF Handler
<1>4. QED
    BY <1>1, <1>2, <1>3 DEF Next

\* It holds at the start.
LEMMA KeptStarts == Init => Kept
<1> SUFFICES ASSUME Init PROVE Kept
    OBVIOUS
<1>1. /\ db = [done |-> {}, known |-> {}, time |-> 0, num |-> 0]
      /\ undo_stack = <<>> /\ chain = <<>> /\ popped = <<>> /\ task = Idle({})
    BY DEF Init
<1>2. Len(<<>>) = 0
    OBVIOUS
<1>3. DoneOf(<<>>, 1) = {}
  <2>1. 1 .. 1 - 1 = {}
      OBVIOUS
  <2>2. QED
      BY <2>1 DEF DoneOf
<1>4. Founded(chain)
    BY <1>1, <1>2 DEF Founded
<1>5. Counted(db, undo_stack, chain)
  <2>1. \A k \in 1 .. 0 + 1 : k = 1 /\ ~(k <= 0)
      OBVIOUS
  <2>2. \A k \in 1 .. 0 + 1 : Level(db, undo_stack, k) = db
      BY <1>1, <1>2, <2>1 DEF Level
  <2>3. db.done = {} /\ db.known = {}
      BY <1>1
  <2>4. \A k \in 1 .. 0 + 1 : /\ Level(db, undo_stack, k).done = DoneOf(chain, k)
                             /\ Level(db, undo_stack, k).known \subseteq DoneOf(chain, k)
      BY <1>1, <1>3, <2>1, <2>2, <2>3
  <2>5. QED
      BY <1>1, <1>2, <2>4 DEF Counted
<1>6. task.pc = "idle" /\ task.before = {} /\ task.saved = <<>>
    BY <1>1 DEF Idle
<1>7. Ordered(Queue, {}) /\ Hopeless(db, GivenUp)
    BY <1>6 DEF Ordered, Hopeless, GivenUp
<1>8. QED
    BY <1>1, <1>4, <1>5, <1>6, <1>7 DEF Kept, Grounded

\* What the node had accepted before push_block() has taken effect again when
\* it returns, or does not apply any more: the order in which the restorer
\* tries the transactions of popped blocks and the pending ones never makes it
\* give up one that another one, tried later, would have made valid.
THEOREM NoTransactionLost == Spec => []NothingLost
<1>1. Init => IndInv /\ Kept
    BY InitHolds, KeptStarts
<1>2. IndInv /\ Kept /\ [Next]_vars => (IndInv /\ Kept)'
    BY StepHolds, KeptStep
<1>3. IndInv /\ Kept => NothingLost
  <2> SUFFICES ASSUME IndInv, Kept, task.pc = "idle", NEW t \in task.before, t \notin db.done
               PROVE  ~CanApply(db, t)
      BY DEF NothingLost
  <2>1. Queue = <<>> /\ db \in DbState
      BY QueueTyped DEF Kept, IndInv, Tables, Sound
  <2>2. ToSet(Queue) = {}
      BY <2>1 DEF ToSet
  <2>3. Hopeless(db, GivenUp) /\ t \in GivenUp /\ GivenUp \cap db.done = {}
      BY <2>2 DEF Kept, GivenUp
  <2>4. QED
      BY <2>1, <2>3, HopelessFails
<1>4. QED
    BY <1>1, <1>2, <1>3, PTL DEF Spec
=============================================================================
