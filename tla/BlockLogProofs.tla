--------------------------- MODULE BlockLogProofs ---------------------------
(***************************************************************************)
(* The block log reads every block by its number and implements            *)
(* DurableLog, for logs of any length and any payloads.                    *)
(***************************************************************************)
EXTENDS BlockLog, SequenceTheorems, TLAPS

Bodies(k) == {Body([num |-> k, val |-> v]) : v \in Payloads}
Unit == (UNION {Bodies(k) : k \in Nat}) \cup {Pos(p) : p \in Nat}

\* A block file, torn or not: block k, then its own position.
WellFormed(f) ==
    /\ f \in Seq(Unit)
    /\ \A k \in 1 .. Len(f) :
          /\ 2 * k - 1 <= Len(f) => f[2 * k - 1] \in Bodies(k)
          /\ 2 * k <= Len(f) => f[2 * k] = Pos(2 * k - 2)

\* An index file: the position of block k at place k.
WellIndexed(x) ==
    /\ x \in Seq(Unit)
    /\ \A k \in 1 .. Len(x) : x[k] = Pos(2 * k - 2)

\* An open log: whole records, the head is the last one, and the index has
\* them all, except that a log of one block may have lost its index.
OpenLog(f, x, h) ==
    LET n == Records(f)
    IN  /\ Len(f) = 2 * n
        /\ h = IF n = 0 THEN NoBlock ELSE f[2 * n - 1].body
        /\ n > 1 => Len(x) = n
        /\ n <= 1 => Len(x) <= n

IndInv ==
    /\ block_file \in Seq(Unit) /\ block_buf \in Seq(Unit)
    /\ index_file \in Seq(Unit) /\ index_buf \in Seq(Unit)
    /\ WellFormed(written)
    /\ is_open \/ ~Torn(block_file) => WellIndexed(indexed)
    /\ is_open => OpenLog(written, indexed, head)
    /\ ~is_open => block_buf = <<>> /\ index_buf = <<>>
    /\ acked \in Nat /\ acked <= Records(block_file)

-----------------------------------------------------------------------------
(* Files *)

\* The units of a file.
LEMMA Units == /\ \A k \in Nat : Bodies(k) \subseteq Unit
               /\ \A p \in Nat : Pos(p) \in Unit
<1>1. ASSUME NEW k \in Nat, NEW u \in Bodies(k) PROVE u \in Unit
    BY <1>1 DEF Unit
<1>2. ASSUME NEW p \in Nat PROVE Pos(p) \in Unit
  <2>1. Pos(p) \in {Pos(q) : q \in Nat}
      BY Zenon
  <2>2. QED
      BY <2>1, Zenon DEF Unit
<1>3. QED
    BY <1>1, <1>2

\* A prefix of a block file is one.
LEMMA PrefixWellFormed ==
    ASSUME NEW f, WellFormed(f), NEW g \in Seq(Unit), Len(g) <= Len(f),
           \A i \in 1 .. Len(g) : g[i] = f[i]
    PROVE  WellFormed(g)
  BY DEF WellFormed

\* A prefix of an index file is one.
LEMMA PrefixWellIndexed ==
    ASSUME NEW x, WellIndexed(x), NEW y \in Seq(Unit), Len(y) <= Len(x),
           \A i \in 1 .. Len(y) : y[i] = x[i]
    PROVE  WellIndexed(y)
  BY DEF WellIndexed

\* Writing a buffer to its file changes neither contents.
LEMMA BufferMoves ==
    ASSUME NEW s \in Seq(Unit), NEW t \in Seq(Unit), NEW u \in Seq(Unit)
    PROVE  /\ (s \o t) \o <<>> = s \o t
           /\ (s \o t) \in Seq(Unit) /\ (t \o u) \in Seq(Unit)
           /\ (s \o t) \o u = s \o (t \o u)
           /\ (s \o t) \o (<<>> \o u) = (s \o t) \o u
           /\ s \o <<>> = s /\ <<>> \o u = u
  BY ConcatProperties, ConcatEmptySeq, ConcatAssociative

\* A crash keeps a prefix.
LEMMA CrashKeepsPrefix ==
    ASSUME NEW s \in Seq(Unit), NEW t \in Seq(Unit), NEW i \in 0 .. Len(t)
    PROVE  LET c == s \o SubSeq(t, 1, i)
           IN  /\ c \in Seq(Unit)
               /\ Len(c) = Len(s) + i /\ Len(c) <= Len(s \o t)
               /\ \A k \in 1 .. Len(c) : c[k] = (s \o t)[k]
<1>1. \A k \in 1 .. i : t[k] \in Unit
    OBVIOUS
<1>2. /\ SubSeq(t, 1, i) \in Seq(Unit)
      /\ Len(SubSeq(t, 1, i)) = i
      /\ \A k \in 1 .. i : SubSeq(t, 1, i)[k] = t[k]
    BY <1>1, SubSeqProperties
<1>3. QED
    BY <1>2, ConcatProperties

\* The number of whole records.
LEMMA RecordsCount ==
    ASSUME NEW f \in Seq(Unit)
    PROVE  /\ Records(f) \in Nat
           /\ Len(f) = 2 * Records(f) \/ Len(f) = 2 * Records(f) + 1
  BY DEF Records

\* A file that ends in a position has whole records only.
LEMMA WholeFile ==
    ASSUME NEW f, WellFormed(f), f # <<>>, ~Torn(f)
    PROVE  /\ Len(f) = 2 * Records(f) /\ Records(f) > 0
           /\ LastPos(f) = 2 * Records(f) - 2
           /\ read_head(f) = f[2 * Records(f) - 1].body
<1> DEFINE n == Records(f)
<1>0. f \in Seq(Unit) /\ Len(f) \in Nat \ {0}
    BY EmptySeq DEF WellFormed
<1>1. n \in Nat /\ (Len(f) = 2 * n \/ Len(f) = 2 * n + 1)
    BY <1>0, RecordsCount
<1> HIDE DEF n
<1>2. ASSUME Len(f) = 2 * n + 1 PROVE FALSE
  <2>1. n + 1 \in 1 .. Len(f) /\ 2 * (n + 1) - 1 = Len(f)
      BY <1>1, <1>2
  <2>2. f[Len(f)] \in Bodies(n + 1)
      BY <2>1 DEF WellFormed
  <2>3. DOMAIN f[Len(f)] = {"body"}
      BY <2>2 DEF Bodies, Body
  <2>4. QED
      BY <2>3 DEF Torn, IsPos
<1>3. Len(f) = 2 * n /\ n > 0
    BY <1>0, <1>1, <1>2
<1>4. f[2 * n] = Pos(2 * n - 2)
  <2>1. n \in 1 .. Len(f) /\ 2 * n <= Len(f)
      BY <1>1, <1>3
  <2>2. QED
      BY <2>1 DEF WellFormed
<1>5. LastPos(f) = 2 * n - 2
    BY <1>3, <1>4 DEF LastPos, Pos
<1>6. QED
    BY <1>1, <1>3, <1>5 DEF read_head, n

\* construct_index() finds every block of a file with more than one, and
\* nothing in a file with one.
LEMMA IndexConstructed ==
    ASSUME NEW f, WellFormed(f), f # <<>>, ~Torn(f)
    PROVE  LET n == Records(f)
               x == construct_index(f)
           IN  /\ WellIndexed(x)
               /\ n > 1 => Len(x) = n
               /\ n <= 1 => Len(x) <= n
<1> DEFINE n == Records(f)
           before(k) == IF k = 1 THEN 0 ELSE f[2 * (k - 1)].pos
           Rounds == {k \in 0 .. n : \A j \in 1 .. k : before(j) < LastPos(f)}
           rounds == Max(Rounds)
<1>1. /\ n \in Nat \ {0} /\ Len(f) = 2 * n /\ LastPos(f) = 2 * n - 2
      /\ f \in Seq(Unit)
    BY WholeFile, RecordsCount DEF WellFormed
<1>2. construct_index(f) = [i \in 1 .. rounds |-> f[2 * i]]
    BY DEF construct_index
<1>3. \A k \in 1 .. n : f[2 * k] = Pos(2 * k - 2)
  <2> SUFFICES ASSUME NEW k \in 1 .. n PROVE f[2 * k] = Pos(2 * k - 2)
      OBVIOUS
  <2> HIDE DEF n
  <2>1. k \in 1 .. Len(f) /\ 2 * k <= Len(f)
      BY <1>1
  <2>2. QED
      BY <2>1 DEF WellFormed
<1>4. \A k \in 2 .. n : before(k) = 2 * k - 4
  <2> SUFFICES ASSUME NEW k \in 2 .. n PROVE before(k) = 2 * k - 4
      OBVIOUS
  <2> HIDE DEF n
  <2>1. k - 1 \in 1 .. n /\ k # 1 /\ 2 * (k - 1) - 2 = 2 * k - 4
      BY <1>1
  <2>2. f[2 * (k - 1)] = Pos(2 * k - 4)
      BY <1>3, <2>1
  <2>3. QED
      BY <2>1, <2>2 DEF Pos
<1>5. Rounds = IF n > 1 THEN 0 .. n ELSE {0}
  <2> HIDE DEF n
  <2>1. before(1) = 0
      OBVIOUS
  <2> HIDE DEF before
  <2>2. CASE n > 1
    <3>1. \A j \in 1 .. n : before(j) < LastPos(f)
        BY <1>1, <1>4, <2>1, <2>2
    <3>2. QED
        BY <2>2, <3>1, <1>1
  <2>3. CASE n = 1
    <3>1. ~(before(1) < LastPos(f))
        BY <1>1, <2>1, <2>3
    <3>2. QED
        BY <2>3, <3>1
  <2>4. QED
      BY <1>1, <2>2, <2>3
<1>6. rounds = IF n > 1 THEN n ELSE 0
  <2> HIDE DEF n, Rounds
  <2> SUFFICES ASSUME NEW m \in Nat, m = (IF n > 1 THEN n ELSE 0)
               PROVE  Max(Rounds) = m
      BY <1>1
  <2>1. m \in Rounds /\ (\A y \in Rounds : m >= y) /\ Rounds \subseteq Nat
      BY <1>1, <1>5
  <2>2. \A z \in Rounds : (\A y \in Rounds : z >= y) => z = m
      BY <2>1
  <2>3. QED
      BY <2>1, <2>2 DEF Max
<1> HIDE DEF rounds
<1>7. QED
  <2> HIDE DEF n
  <2> DEFINE x == construct_index(f)
  <2>1. rounds \in 0 .. n
      BY <1>1, <1>6
  <2>2. \A i \in 1 .. rounds : i \in 1 .. n
      BY <1>1, <2>1
  <2>3. \A i \in 1 .. rounds : x[i] = Pos(2 * i - 2) /\ x[i] \in Unit
    <3> SUFFICES ASSUME NEW i \in 1 .. rounds
                 PROVE  x[i] = Pos(2 * i - 2) /\ x[i] \in Unit
        OBVIOUS
    <3>1. x[i] = Pos(2 * i - 2)
        BY <1>2, <1>3, <2>2
    <3>2. 2 * i - 2 \in Nat
        BY <2>1, <1>1
    <3>3. QED
        BY <3>1, <3>2, Units
  <2>4. x = [i \in 1 .. rounds |-> x[i]]
      BY <1>2
  <2> HIDE DEF x
  <2>5. x \in Seq(Unit) /\ Len(x) = rounds
      BY <2>1, <2>3, <2>4, <1>1
  <2>6. WellIndexed(x)
      BY <2>3, <2>5 DEF WellIndexed
  <2>7. (n > 1 => Len(x) = n) /\ (n <= 1 => Len(x) <= n)
      BY <1>1, <1>6, <2>5
  <2>8. QED
      BY <2>6, <2>7 DEF n, x
-----------------------------------------------------------------------------
(* One step *)

\* An append to a whole log whose index is at the next block.
LEMMA AppendRecord ==
    ASSUME NEW f, WellFormed(f), NEW x, WellIndexed(x), NEW h, OpenLog(f, x, h),
           NEW b \in Block, b.num = h.num + 1, Len(x) = b.num - 1
    PROVE  LET pos == Pos(Len(f))
               g   == f \o <<Body(b), pos>>
           IN  /\ Len(f) = 2 * (b.num - 1) /\ Records(f) = b.num - 1
               /\ Records(g) = b.num /\ pos \in Unit /\ Body(b) \in Unit
               /\ WellFormed(g) /\ WellIndexed(x \o <<pos>>)
               /\ OpenLog(g, x \o <<pos>>, b)
<1> DEFINE n == Records(f)
           pos == Pos(Len(f))
           g == f \o <<Body(b), pos>>
           y == x \o <<pos>>
<1>1. f \in Seq(Unit) /\ x \in Seq(Unit) /\ n \in Nat /\ Len(f) = 2 * n
    BY RecordsCount DEF WellFormed, WellIndexed, OpenLog
<1>2. b.num \in Nat \ {0} /\ b.val \in Payloads /\ b = [num |-> b.num, val |-> b.val]
    BY DEF Block
<1>3. h.num = n
  <2>1. CASE n = 0
      BY <2>1 DEF OpenLog, NoBlock
  <2>2. CASE n # 0
    <3> HIDE DEF n
    <3>1. n \in 1 .. Len(f) /\ 2 * n - 1 <= Len(f)
        BY <1>1, <2>2
    <3>2. f[2 * n - 1] \in Bodies(n)
        BY <3>1 DEF WellFormed
    <3>3. PICK v \in Payloads : f[2 * n - 1] = Body([num |-> n, val |-> v])
        BY <3>2 DEF Bodies
    <3>4. f[2 * n - 1].body.num = n
        BY <3>3 DEF Body
    <3>5. QED
        BY <2>2, <3>4 DEF OpenLog, n
  <2>3. QED
      BY <2>1, <2>2
<1>4. b.num = n + 1 /\ Len(x) = n
    BY <1>1, <1>2, <1>3
<1>5. Body(b) \in Bodies(n + 1)
    BY <1>2, <1>4 DEF Bodies
<1>6. Body(b) \in Unit /\ pos \in Unit
    BY <1>1, <1>5, Units
<1>7. /\ g \in Seq(Unit) /\ Len(g) = 2 * n + 2
      /\ \A i \in 1 .. 2 * n : g[i] = f[i]
      /\ g[2 * n + 1] = Body(b) /\ g[2 * n + 2] = pos
  <2> HIDE DEF n, pos
  <2> DEFINE t == <<Body(b), pos>>
  <2>1. t \in Seq(Unit) /\ Len(t) = 2 /\ t[1] = Body(b) /\ t[2] = pos
      BY <1>6
  <2> HIDE DEF t
  <2>2. QED
      BY <1>1, <2>1, ConcatProperties DEF t
<1>8. /\ y \in Seq(Unit) /\ Len(y) = n + 1
      /\ \A i \in 1 .. n : y[i] = x[i]
      /\ y[n + 1] = pos
  <2> HIDE DEF n, pos
  <2> DEFINE t == <<pos>>
  <2>1. t \in Seq(Unit) /\ Len(t) = 1 /\ t[1] = pos
      BY <1>6
  <2> HIDE DEF t
  <2>2. QED
      BY <1>1, <1>4, <2>1, ConcatProperties DEF t
<1>9. pos = Pos(2 * n)
    BY <1>1
<1>10. Records(g) = n + 1
  <2> HIDE DEF n, g
  <2> QED
    BY <1>1, <1>7 DEF Records
<1> HIDE DEF n, g, y, pos
<1>11. WellFormed(g)
  <2> SUFFICES ASSUME NEW k \in 1 .. Len(g)
               PROVE  /\ 2 * k - 1 <= Len(g) => g[2 * k - 1] \in Bodies(k)
                      /\ 2 * k <= Len(g) => g[2 * k] = Pos(2 * k - 2)
      BY <1>7 DEF WellFormed
  <2>1. CASE k <= n
    <3>1. /\ k \in 1 .. Len(f) /\ 2 * k - 1 \in 1 .. 2 * n /\ 2 * k \in 1 .. 2 * n
          /\ 2 * k - 1 <= Len(f) /\ 2 * k <= Len(f)
        BY <1>1, <2>1
    <3>2. f[2 * k - 1] \in Bodies(k) /\ f[2 * k] = Pos(2 * k - 2)
        BY <3>1 DEF WellFormed
    <3>3. QED
        BY <3>1, <3>2, <1>7
  <2>2. CASE k = n + 1
    <3>1. 2 * k - 1 = 2 * n + 1 /\ 2 * k = 2 * n + 2 /\ 2 * k - 2 = 2 * n
        BY <1>1, <2>2
    <3>2. QED
        BY <3>1, <1>5, <1>7, <1>9, <2>2
  <2>3. CASE k > n + 1
      BY <1>1, <1>7, <2>3
  <2>4. QED
      BY <1>1, <2>1, <2>2, <2>3
<1>12. WellIndexed(y)
  <2> SUFFICES ASSUME NEW k \in 1 .. Len(y) PROVE y[k] = Pos(2 * k - 2)
      BY <1>8 DEF WellIndexed
  <2>1. CASE k = n + 1
    <3>1. 2 * k - 2 = 2 * n
        BY <1>1, <2>1
    <3>2. QED
        BY <3>1, <1>8, <1>9, <2>1
  <2>2. CASE k # n + 1
      BY <1>1, <1>4, <1>8, <2>2 DEF WellIndexed
  <2>3. QED
      BY <2>1, <2>2
<1>13. OpenLog(g, y, b)
  <2>1. 2 * (n + 1) - 1 = 2 * n + 1 /\ Len(g) = 2 * (n + 1) /\ n + 1 # 0
      BY <1>1, <1>7
  <2>2. Body(b).body = b
      BY DEF Body
  <2>3. b = g[2 * (n + 1) - 1].body
      BY <2>1, <2>2, <1>7
  <2>4. QED
      BY <1>1, <1>8, <1>10, <2>1, <2>3 DEF OpenLog
<1>14. QED
    BY <1>1, <1>4, <1>6, <1>10, <1>11, <1>12, <1>13 DEF n, g, y, pos

\* A longer file has no fewer records.
LEMMA RecordsGrow ==
    ASSUME NEW f \in Seq(Unit), NEW g \in Seq(Unit), Len(f) <= Len(g)
    PROVE  Records(f) <= Records(g)
  BY DEF Records

\* A step of an open log that appends nothing keeps the invariant.
LEMMA KeepsContents ==
    ASSUME IndInv, is_open, is_open', head' = head,
           \/ block_file' = block_file /\ block_buf' = block_buf
           \/ block_file' = written /\ block_buf' = <<>>,
           \/ index_file' = index_file /\ index_buf' = index_buf
           \/ index_file' = indexed /\ index_buf' = <<>>,
           acked' = acked \/ acked' = Records(block_file')
    PROVE  IndInv' /\ written' = written
<1>1. /\ block_file' \in Seq(Unit) /\ block_buf' \in Seq(Unit)
      /\ written' = written /\ Len(block_file) <= Len(block_file')
  <2>1. block_file \in Seq(Unit) /\ block_buf \in Seq(Unit)
      BY DEF IndInv
  <2>2. \/ block_file' = block_file /\ block_buf' = block_buf
        \/ block_file' = block_file \o block_buf /\ block_buf' = <<>>
      BY DEF written
  <2>3. QED
    <3>1. CASE block_file' = block_file /\ block_buf' = block_buf
        BY <2>1, <3>1 DEF written
    <3>2. CASE block_file' = block_file \o block_buf /\ block_buf' = <<>>
      <4>1. block_file' \o block_buf' = block_file \o block_buf /\ block_file' \in Seq(Unit)
          BY <2>1, <3>2, BufferMoves
      <4>2. Len(block_file') = Len(block_file) + Len(block_buf) /\ Len(block_file) \in Nat /\ Len(block_buf) \in Nat
          BY <2>1, <3>2, ConcatProperties
      <4>3. QED
          BY <3>2, <4>1, <4>2, EmptySeq DEF written
    <3>3. QED
        BY <2>2, <3>1, <3>2
<1>2. /\ index_file' \in Seq(Unit) /\ index_buf' \in Seq(Unit) /\ indexed' = indexed
  <2>1. index_file \in Seq(Unit) /\ index_buf \in Seq(Unit)
      BY DEF IndInv
  <2>2. \/ index_file' = index_file /\ index_buf' = index_buf
        \/ index_file' = index_file \o index_buf /\ index_buf' = <<>>
      BY DEF indexed
  <2>3. QED
    <3>1. CASE index_file' = index_file /\ index_buf' = index_buf
        BY <2>1, <3>1 DEF indexed
    <3>2. CASE index_file' = index_file \o index_buf /\ index_buf' = <<>>
      <4>1. index_file' \o index_buf' = index_file \o index_buf /\ index_file' \in Seq(Unit)
          BY <2>1, <3>2, BufferMoves
      <4>2. Len(index_file') = Len(index_file) + Len(index_buf) /\ Len(index_file) \in Nat /\ Len(index_buf) \in Nat
          BY <2>1, <3>2, ConcatProperties
      <4>3. QED
          BY <3>2, <4>1, <4>2, EmptySeq DEF indexed
    <3>3. QED
        BY <2>2, <3>1, <3>2
<1>3. Records(block_file) <= Records(block_file') /\ Records(block_file') \in Nat /\ Records(block_file) \in Nat
    BY <1>1, RecordsGrow, RecordsCount DEF IndInv
<1>4. acked' \in Nat /\ acked' <= Records(block_file')
    BY <1>3 DEF IndInv
<1>5. QED
    BY <1>1, <1>2, <1>4 DEF IndInv

\* What a step may do to the records of the two files together.
Unchanged == written' = written /\ (acked' = acked \/ acked' = Records(written))
Appended == \E b \in Block :
    /\ b.num = Records(written) + 1
    /\ Len(written) = 2 * Records(written)
    /\ written' = written \o <<Body(b), Pos(Len(written))>>
    /\ acked' = acked
Cut == \E n \in 0 .. Len(written) :
    /\ Len(written') = n /\ \A k \in 1 .. n : written'[k] = written[k]
    /\ acked <= Records(written') /\ acked' = acked

\* The invariant holds at the start.
LEMMA InitHolds == Init => IndInv
<1> SUFFICES ASSUME Init PROVE IndInv
    OBVIOUS
<1>1. <<>> \o <<>> = <<>> /\ <<>> \in Seq(Unit) /\ Len(<<>>) = 0
    BY EmptySeq, ConcatEmptySeq
<1>2. written = <<>> /\ indexed = <<>>
    BY <1>1 DEF Init, written, indexed
<1>3. WellFormed(<<>>) /\ WellIndexed(<<>>)
    BY <1>1 DEF WellFormed, WellIndexed
<1>4. Records(<<>>) = 0
    BY <1>1 DEF Records
<1>5. QED
    BY <1>1, <1>2, <1>3, <1>4 DEF Init, IndInv

\* Opening a log, with or without blocks.
LEMMA OpenHolds ==
    ASSUME IndInv, OpenEmpty \/ OpenExisting
    PROVE  IndInv' /\ Unchanged
<1>1. ~is_open /\ block_buf = <<>> /\ index_buf = <<>>
    BY DEF OpenEmpty, OpenExisting, IndInv
<1>2. /\ block_file' = block_file /\ block_buf' = block_buf /\ acked' = acked /\ is_open'
      /\ written' = written /\ written = block_file
    BY <1>1, BufferMoves DEF OpenEmpty, OpenExisting, IndInv, written, bufs
<1>3. Unchanged
    BY <1>2 DEF Unchanged
<1>4. <<>> \in Seq(Unit) /\ Len(<<>>) = 0 /\ <<>> \o <<>> = <<>>
    BY EmptySeq, ConcatEmptySeq
<1>5. SUFFICES /\ index_file' \in Seq(Unit) /\ index_buf' \in Seq(Unit)
               /\ WellIndexed(indexed') /\ OpenLog(written, indexed', head')
    BY <1>2, <1>3, RecordsCount DEF IndInv
<1>6. CASE OpenEmpty
  <2>1. indexed' = <<>> /\ index_file' = <<>> /\ index_buf' = <<>> /\ head' = NoBlock /\ written = <<>>
      BY <1>1, <1>2, <1>4, <1>6 DEF OpenEmpty, indexed, bufs
  <2>2. Records(<<>>) = 0
      BY <1>4 DEF Records
  <2>3. QED
      BY <2>1, <2>2, <1>4 DEF OpenLog, WellIndexed
<1>7. CASE OpenExisting
  <2> DEFINE n == Records(block_file)
  <2>1. /\ WellFormed(block_file) /\ block_file # <<>> /\ ~Torn(block_file)
        /\ head' = read_head(block_file)
      BY <1>2, <1>7 DEF OpenExisting, IndInv
  <2>2. /\ Len(block_file) = 2 * n /\ n > 0 /\ n \in Nat
        /\ LastPos(block_file) = 2 * n - 2
        /\ head' = block_file[2 * n - 1].body
      BY <2>1, WholeFile, RecordsCount DEF IndInv
  <2>3. CASE IndexIsCurrent /\ index_file' = index_file /\ index_buf' = index_buf
    <3>1. indexed = index_file /\ indexed' = index_file
        BY <1>1, <2>3, BufferMoves DEF IndInv, indexed
    <3>2. index_file # <<>> /\ LastPos(index_file) = LastPos(block_file)
        BY <2>3 DEF IndexIsCurrent
    <3>3. index_file \in Seq(Unit) /\ Len(index_file) \in Nat \ {0} /\ Len(index_file) \in 1 .. Len(index_file)
        BY <3>2, EmptySeq DEF IndInv
    <3>4. index_file[Len(index_file)] = Pos(2 * Len(index_file) - 2)
        BY <2>1, <3>1, <3>3 DEF IndInv, WellIndexed
    <3>5. LastPos(index_file) = 2 * Len(index_file) - 2
        BY <3>4 DEF LastPos, Pos
    <3> HIDE DEF n
    <3>6. Len(index_file) = n
      <4>1. 2 * Len(index_file) - 2 = 2 * n - 2
          BY <3>2, <3>5, <2>2
      <4>2. QED
          BY <4>1, <3>3, <2>2
    <3>7. OpenLog(written, indexed', head')
        BY <1>2, <2>2, <3>1, <3>6 DEF OpenLog, n
    <3>8. QED
        BY <1>1, <1>4, <2>1, <2>3, <3>1, <3>3, <3>7 DEF IndInv
  <2>4. CASE index_file' = <<>> /\ index_buf' = construct_index(block_file)
    <3> DEFINE x == construct_index(block_file)
    <3>1. WellIndexed(x) /\ (n > 1 => Len(x) = n) /\ (n <= 1 => Len(x) <= n)
        BY <2>1, IndexConstructed
    <3> HIDE DEF x
    <3>2. x \in Seq(Unit)
        BY <3>1 DEF WellIndexed
    <3>3. indexed' = x /\ index_buf' = x
        BY <2>4, <3>2, BufferMoves, ConcatEmptySeq DEF indexed, x
    <3>4. OpenLog(written, x, head')
        BY <1>2, <2>2, <3>1 DEF OpenLog
    <3>5. QED
        BY <1>4, <2>4, <3>1, <3>2, <3>3, <3>4
  <2>5. QED
      BY <1>7, <2>3, <2>4 DEF OpenExisting
<1>8. QED
    BY <1>6, <1>7

\* An append of the block that follows the head.
LEMMA AppendHolds ==
    ASSUME IndInv, NEW b \in NextIrreversible, append(b)
    PROVE  IndInv' /\ Appended
<1> DEFINE pos == Pos(Len(written))
           u == <<Body(b), pos>>
           v == <<pos>>
<1>1. /\ block_file \in Seq(Unit) /\ block_buf \in Seq(Unit)
      /\ index_file \in Seq(Unit) /\ index_buf \in Seq(Unit)
      /\ is_open /\ WellFormed(written) /\ WellIndexed(indexed)
      /\ OpenLog(written, indexed, head)
    BY DEF IndInv, append
<1>2. Len(written) = Len(block_file) + Len(block_buf) /\ Len(indexed) = Len(index_file) + Len(index_buf)
    BY <1>1, ConcatProperties DEF written, indexed
<1>3. b \in Block /\ b.num = head.num + 1 /\ Len(indexed) = b.num - 1
    BY <1>2 DEF NextIrreversible, append
<1>4. /\ Len(written) = 2 * (b.num - 1) /\ Records(written) = b.num - 1
      /\ Records(written \o u) = b.num /\ pos \in Unit /\ Body(b) \in Unit
      /\ WellFormed(written \o u) /\ WellIndexed(indexed \o v)
      /\ OpenLog(written \o u, indexed \o v, b)
    BY <1>1, <1>3, AppendRecord
<1>5. u \in Seq(Unit) /\ v \in Seq(Unit)
    BY <1>4
<1>6. /\ block_file' = IF block_write THEN block_file ELSE block_file \o block_buf
      /\ index_file' = IF index_write THEN index_file ELSE index_file \o index_buf
      /\ block_buf' = (IF block_write THEN block_buf ELSE <<>>) \o u
      /\ index_buf' = (IF index_write THEN index_buf ELSE <<>>) \o v
      /\ head' = b /\ is_open' = is_open /\ acked' = acked
    BY <1>2 DEF append
<1> HIDE DEF u, v, pos
<1>7. /\ block_file' \in Seq(Unit) /\ block_buf' \in Seq(Unit)
      /\ written' = written \o u /\ Len(block_file) <= Len(block_file')
  <2>1. CASE block_write
    <3>1. (block_file \o block_buf) \o u = block_file \o (block_buf \o u) /\ block_buf \o u \in Seq(Unit)
        BY SMTT(30), <1>1, <1>5, ConcatAssociative, ConcatProperties
    <3>2. QED
        BY <1>1, <1>6, <2>1, <3>1 DEF written
  <2>2. CASE ~block_write
    <3>1. <<>> \o u = u /\ block_file \o block_buf \in Seq(Unit)
        BY <1>1, <1>5, BufferMoves
    <3>2. Len(block_file) <= Len(block_file \o block_buf)
        BY <1>1, ConcatProperties
    <3>3. QED
        BY <1>1, <1>5, <1>6, <2>2, <3>1, <3>2 DEF written
  <2>3. QED
      BY <2>1, <2>2
<1>8. /\ index_file' \in Seq(Unit) /\ index_buf' \in Seq(Unit) /\ indexed' = indexed \o v
  <2>1. CASE index_write
    <3>1. (index_file \o index_buf) \o v = index_file \o (index_buf \o v) /\ index_buf \o v \in Seq(Unit)
        BY SMTT(30), <1>1, <1>5, BufferMoves
    <3>2. QED
        BY <1>1, <1>6, <2>1, <3>1 DEF indexed
  <2>2. CASE ~index_write
    <3>1. <<>> \o v = v /\ index_file \o index_buf \in Seq(Unit)
        BY <1>1, <1>5, BufferMoves
    <3>2. QED
        BY <1>1, <1>5, <1>6, <2>2, <3>1 DEF indexed
  <2>3. QED
      BY <2>1, <2>2
<1>9. acked' \in Nat /\ acked' <= Records(block_file')
  <2>1. Records(block_file) <= Records(block_file') /\ Records(block_file') \in Nat /\ Records(block_file) \in Nat
      BY <1>1, <1>7, RecordsGrow, RecordsCount
  <2>2. QED
      BY <1>6, <2>1 DEF IndInv
<1>10. IndInv'
    BY <1>1, <1>4, <1>6, <1>7, <1>8, <1>9 DEF IndInv
<1>11. Appended
  <2>1. b.num \in Nat
      BY <1>3 DEF Block
  <2>2. b.num = Records(written) + 1 /\ Len(written) = 2 * Records(written)
      BY <1>4, <2>1
  <2>3. QED
      BY <1>3, <1>6, <1>7, <2>2 DEF Appended, u, pos
<1>12. QED
    BY <1>10, <1>11

\* flush(), a refused append and a read only move buffers to their files.
LEMMA MovesHold ==
    ASSUME IndInv, \/ flush
                   \/ \E b \in NextIrreversible : AppendRefused(b)
                   \/ \E n \in 1 .. MaxBlock : read_block_by_num(n)
    PROVE  IndInv' /\ Unchanged
<1>1. /\ is_open /\ is_open' = is_open /\ head' = head
      /\ \/ block_file' = block_file /\ block_buf' = block_buf
         \/ block_file' = written /\ block_buf' = <<>>
      /\ \/ index_file' = index_file /\ index_buf' = index_buf
         \/ index_file' = indexed /\ index_buf' = <<>>
  <2>1. CASE flush
      BY <2>1 DEF flush, WriteBlocks, WriteIndex, written, indexed
  <2>2. ASSUME NEW b, AppendRefused(b) PROVE <1>1!:
      BY <2>2 DEF AppendRefused, ToMode, WriteBlocks, WriteIndex, written, indexed
  <2>3. ASSUME NEW n, read_block_by_num(n) PROVE <1>1!:
      BY <2>3 DEF read_block_by_num, WriteBlocks, WriteIndex, written, indexed
  <2>4. QED
      BY <2>1, <2>2, <2>3
<1>2. acked' = acked \/ (acked' = Records(block_file') /\ block_file' = written)
    BY DEF flush, AppendRefused, read_block_by_num, WriteBlocks, written
<1>3. IndInv' /\ written' = written
    BY <1>1, <1>2, KeepsContents
<1>4. QED
    BY <1>2, <1>3 DEF Unchanged

\* close() writes the buffers.
LEMMA CloseHolds ==
    ASSUME IndInv, close
    PROVE  IndInv' /\ Unchanged
<1>1. /\ block_file \in Seq(Unit) /\ block_buf \in Seq(Unit)
      /\ index_file \in Seq(Unit) /\ index_buf \in Seq(Unit)
      /\ WellFormed(written) /\ WellIndexed(indexed)
    BY DEF IndInv, close
<1>2. /\ block_file' = written /\ block_buf' = <<>>
      /\ index_file' = indexed /\ index_buf' = <<>>
      /\ acked' = Records(block_file') /\ ~is_open'
    BY DEF close, WriteBlocks, WriteIndex, written, indexed
<1>3. written \in Seq(Unit) /\ indexed \in Seq(Unit) /\ <<>> \in Seq(Unit)
    BY <1>1, EmptySeq DEF WellFormed, WellIndexed
<1>4. written' = written /\ indexed' = indexed
    BY <1>2, <1>3, BufferMoves DEF written, indexed
<1>5. Records(written) \in Nat /\ Records(written) <= Records(written)
    BY <1>3, RecordsCount
<1>6. IndInv'
    BY <1>1, <1>2, <1>3, <1>4, <1>5 DEF IndInv
<1>7. QED
    BY <1>2, <1>4, <1>6 DEF Unchanged

\* A crash, and a lost index.
LEMMA CrashHolds ==
    ASSUME IndInv, Crash
    PROVE  IndInv' /\ Cut
<1>1. /\ block_file \in Seq(Unit) /\ block_buf \in Seq(Unit)
      /\ index_file \in Seq(Unit) /\ index_buf \in Seq(Unit)
      /\ WellFormed(written) /\ WellIndexed(indexed)
    BY DEF IndInv, Crash
<1>2. PICK i \in 0 .. Len(block_buf), j \in 0 .. Len(index_buf) :
          /\ block_file' = block_file \o SubSeq(block_buf, 1, i)
          /\ index_file' = index_file \o SubSeq(index_buf, 1, j)
    BY DEF Crash
<1>3. /\ block_file' \in Seq(Unit)
      /\ Len(block_file') = Len(block_file) + i /\ Len(block_file') <= Len(written)
      /\ \A k \in 1 .. Len(block_file') : block_file'[k] = written[k]
    BY <1>1, <1>2, CrashKeepsPrefix DEF written
<1>4. /\ index_file' \in Seq(Unit) /\ Len(index_file') <= Len(indexed)
      /\ \A k \in 1 .. Len(index_file') : index_file'[k] = indexed[k]
    BY <1>1, <1>2, CrashKeepsPrefix DEF indexed
<1>5. WellFormed(block_file') /\ WellIndexed(index_file')
    BY <1>1, <1>3, <1>4, PrefixWellFormed, PrefixWellIndexed
<1>6. block_buf' = <<>> /\ index_buf' = <<>> /\ ~is_open' /\ acked' = acked
    BY DEF Crash
<1>7. written' = block_file' /\ indexed' = index_file' /\ <<>> \in Seq(Unit)
    BY <1>3, <1>4, <1>6, BufferMoves, EmptySeq DEF written, indexed
<1>8. acked' \in Nat /\ acked' <= Records(block_file')
  <2>1. Len(block_file) <= Len(block_file')
      BY <1>1, <1>3
  <2>2. Records(block_file) <= Records(block_file') /\ Records(block_file') \in Nat /\ Records(block_file) \in Nat
      BY <1>1, <1>3, <2>1, RecordsGrow, RecordsCount
  <2>3. QED
      BY <1>6, <2>2 DEF IndInv
<1>9. IndInv'
    BY <1>3, <1>4, <1>5, <1>6, <1>7, <1>8 DEF IndInv
<1>10. Cut
  <2>1. Len(block_file') \in 0 .. Len(written)
      BY <1>1, <1>3 DEF WellFormed
  <2>2. QED
      BY <1>3, <1>6, <1>7, <1>8, <2>1 DEF Cut
<1>11. QED
    BY <1>9, <1>10

\* The index file is deleted while the log is closed.
LEMMA IndexRemovedHolds ==
    ASSUME IndInv, IndexRemoved
    PROVE  IndInv' /\ Unchanged
<1>1. /\ block_file' = block_file /\ block_buf' = block_buf /\ index_buf' = <<>>
      /\ index_buf = <<>> /\ block_buf = <<>> /\ index_file' = <<>>
      /\ ~is_open' /\ acked' = acked
    BY DEF IndexRemoved, IndInv, bufs
<1>2. written' = written /\ indexed' = <<>> /\ <<>> \in Seq(Unit) /\ Len(<<>>) = 0
    BY <1>1, BufferMoves, EmptySeq, ConcatEmptySeq DEF written, indexed
<1>3. WellIndexed(<<>>)
    BY <1>2 DEF WellIndexed
<1>4. QED
    BY <1>1, <1>2, <1>3 DEF IndInv, Unchanged

\* A torn file met by streams that report nothing: only the index changes, and
\* it is not read again.
LEMMA OpenHangsHolds ==
    ASSUME IndInv, OpenHangs
    PROVE  IndInv' /\ Unchanged
<1>1. /\ block_file' = block_file /\ block_buf' = block_buf /\ index_buf' = index_buf
      /\ index_buf = <<>> /\ block_buf = <<>> /\ Torn(block_file)
      /\ ~is_open' /\ acked' = acked
    BY DEF OpenHangs, IndInv, bufs
<1>2. PICK k \in 0 .. MaxBlock : index_file' = [i \in 1 .. k |-> Pos(0)]
    BY DEF OpenHangs
<1>3. index_file' \in Seq(Unit)
    BY <1>2, Units
<1>4. written' = written /\ Torn(block_file')
    BY <1>1 DEF written
<1>5. QED
    BY <1>1, <1>3, <1>4 DEF IndInv, Unchanged

\* Every step keeps the invariant and is one of the three kinds.
LEMMA StepHolds == IndInv /\ [Next]_vars => IndInv' /\ (Unchanged \/ Appended \/ Cut)
<1> SUFFICES ASSUME IndInv, [Next]_vars
             PROVE  IndInv' /\ (Unchanged \/ Appended \/ Cut)
    OBVIOUS
<1>1. CASE UNCHANGED vars
    BY <1>1 DEF vars, IndInv, Unchanged, written, indexed
<1>2. CASE StaysDown
    BY <1>2 DEF StaysDown, vars, IndInv, Unchanged, written, indexed
<1>3. CASE OpenEmpty \/ OpenExisting
    BY <1>3, OpenHolds
<1>4. CASE flush \/ (\E b \in NextIrreversible : AppendRefused(b))
                 \/ (\E n \in 1 .. MaxBlock : read_block_by_num(n))
    BY <1>4, MovesHold
<1>5. CASE \E b \in NextIrreversible : append(b)
    BY <1>5, AppendHolds
<1>6. CASE close
    BY <1>6, CloseHolds
<1>7. CASE Crash
    BY <1>7, CrashHolds
<1>8. CASE IndexRemoved
    BY <1>8, IndexRemovedHolds
<1>9. CASE OpenHangs
    BY <1>9, OpenHangsHolds
<1>10. CASE CloseUnopened \/ Restart
    BY <1>10 DEF CloseUnopened, Restart, files, bufs, modes, IndInv, Unchanged, written, indexed
<1>11. QED
    BY <1>1, <1>2, <1>3, <1>4, <1>5, <1>6, <1>7, <1>8, <1>9, <1>10 DEF Next

-----------------------------------------------------------------------------
(* Reading *)

\* Block k of a file has number k.
LEMMA BlockNumbers ==
    ASSUME NEW f, WellFormed(f), NEW k \in Nat, 0 < k, 2 * k - 1 <= Len(f)
    PROVE  f[2 * k - 1].body.num = k /\ f[2 * k - 1].body.val \in Payloads
<1>1. k \in 1 .. Len(f)
    BY DEF WellFormed
<1>2. f[2 * k - 1] \in Bodies(k)
    BY <1>1 DEF WellFormed
<1>3. PICK v \in Payloads : f[2 * k - 1] = Body([num |-> k, val |-> v])
    BY <1>2 DEF Bodies
<1>4. QED
    BY <1>3 DEF Body

\* The invariant says that every block can be read.
LEMMA InvariantReads == IndInv => EveryBlockIsRead
<1> SUFFICES ASSUME IndInv, is_open PROVE EveryBlockIsRead
    BY DEF EveryBlockIsRead
<1> DEFINE n == Records(written)
<1>1. WellFormed(written) /\ WellIndexed(indexed) /\ OpenLog(written, indexed, head)
    BY DEF IndInv
<1>2. n \in Nat /\ Len(written) = 2 * n /\ written \in Seq(Unit)
    BY <1>1, RecordsCount DEF WellFormed, OpenLog
<1>3. head = IF n = 0 THEN NoBlock ELSE written[2 * n - 1].body
    BY <1>1 DEF OpenLog
<1>4. (n > 1 => Len(indexed) = n)
    BY <1>1 DEF OpenLog
<1>5. n # 0 => BlocksOf(written)[n] = written[2 * n - 1].body
  <2>1. BlocksOf(written) = [i \in 1 .. n |-> written[2 * i - 1].body]
      BY DEF BlocksOf
  <2> HIDE DEF n
  <2>2. QED
      BY <1>2, <2>1
<1> HIDE DEF n
<1>6. written = <<>> <=> n = 0
    BY <1>2, EmptySeq
<1>7. ASSUME n > 1, NEW k \in 1 .. head.num PROVE BlockRead(k).num = k
  <2>1. n > 0 /\ 2 * n - 1 <= Len(written)
      BY <1>2, <1>7
  <2>2. head.num = n
      BY <1>1, <1>2, <1>3, <2>1, BlockNumbers
  <2>3. k \in Nat /\ 0 < k /\ 2 * k - 1 <= Len(written) /\ k \in 1 .. Len(indexed)
      BY <1>2, <1>4, <1>7, <2>2
  <2>4. indexed[k] = Pos(2 * k - 2)
      BY <1>1, <2>3 DEF WellIndexed
  <2>5. indexed[k].pos + 1 = 2 * k - 1
    <3>1. indexed[k].pos = 2 * k - 2
        BY <2>4 DEF Pos
    <3>2. QED
        BY <2>3, <3>1
  <2>6. BlockRead(k) = written[2 * k - 1].body
      BY <2>5 DEF BlockRead, written, indexed
  <2>7. QED
      BY <1>1, <2>3, <2>6, BlockNumbers
<1>8. QED
    BY <1>3, <1>4, <1>5, <1>6, <1>7 DEF EveryBlockIsRead, n

\* In every reachable state of an open log the head is the last block of the
\* file and, from the second block on, each block is found by its number,
\* whatever crashes and lost index files came before: open() takes an index
\* that ends where the blocks end and rebuilds any other.
THEOREM BlocksAreRead == Spec => []EveryBlockIsRead
<1>1. Init => IndInv
    BY InitHolds
<1>2. IndInv /\ [Next]_vars => IndInv'
    BY StepHolds
<1>3. IndInv => EveryBlockIsRead
    BY InvariantReads
<1>4. QED
    BY <1>1, <1>2, <1>3, PTL DEF Spec

-----------------------------------------------------------------------------
(* Refinement *)

\* The blocks of a file.
LEMMA BlocksSequence ==
    ASSUME NEW f \in Seq(Unit)
    PROVE  /\ BlocksOf(f) = [i \in 1 .. Records(f) |-> f[2 * i - 1].body]
           /\ BlocksOf(f) \in Seq({f[2 * i - 1].body : i \in 1 .. Records(f)})
           /\ Len(BlocksOf(f)) = Records(f)
<1>1. BlocksOf(f) = [i \in 1 .. Records(f) |-> f[2 * i - 1].body]
    BY DEF BlocksOf
<1> DEFINE n == Records(f)
           S == {f[2 * i - 1].body : i \in 1 .. n}
<1>2. n \in Nat
    BY RecordsCount
<1> HIDE DEF n
<1>3. \A i \in 1 .. n : f[2 * i - 1].body \in S
    OBVIOUS
<1> HIDE DEF S
<1>4. [i \in 1 .. n |-> f[2 * i - 1].body] \in Seq(S)
    BY <1>2, <1>3
<1>5. Len([i \in 1 .. n |-> f[2 * i - 1].body]) = n
    BY <1>2
<1>6. QED
    BY <1>1, <1>4, <1>5 DEF n, S

\* Two units at the end of a file.
LEMMA TwoMore ==
    ASSUME NEW f \in Seq(Unit), NEW a \in Unit, NEW c \in Unit
    PROVE  LET g == f \o <<a, c>>
           IN  /\ Len(g) = Len(f) + 2
               /\ \A i \in 1 .. Len(f) : g[i] = f[i]
               /\ g[Len(f) + 1] = a
<1> DEFINE t == <<a, c>>
<1>1. t \in Seq(Unit) /\ Len(t) = 2 /\ t[1] = a
    OBVIOUS
<1> HIDE DEF t
<1>2. Len(f) \in Nat
    OBVIOUS
<1>3. QED
    BY <1>1, <1>2, ConcatProperties DEF t

\* Append as a function.
LEMMA AppendIsFunction ==
    ASSUME NEW S, NEW s \in Seq(S), NEW e, NEW n \in Nat, Len(s) = n
    PROVE  Append(s, e) = [i \in 1 .. n + 1 |-> IF i = n + 1 THEN e ELSE s[i]]
<1> DEFINE T == S \cup {e}
           a == Append(s, e)
<1>1. s \in Seq(T) /\ e \in T
    OBVIOUS
<1> HIDE DEF T
<1>2. /\ a \in Seq(T) /\ Len(a) = n + 1 /\ a[n + 1] = e
      /\ \A i \in 1 .. n : a[i] = s[i]
    BY <1>1, AppendProperties
<1> HIDE DEF a
<1>3. a = [i \in 1 .. n + 1 |-> a[i]]
    BY <1>2
<1>4. \A i \in 1 .. n + 1 : a[i] = IF i = n + 1 THEN e ELSE s[i]
    BY <1>2
<1>5. QED
    BY <1>3, <1>4 DEF a

\* An append adds one block with the next number.
LEMMA AppendRefines ==
    ASSUME IndInv, Appended, IndInv'
    PROVE  Abstract!Append1
<1> DEFINE n == Records(written)
<1>1. PICK b \in Block : /\ b.num = n + 1
                         /\ Len(written) = 2 * n
                         /\ written' = written \o <<Body(b), Pos(Len(written))>>
                         /\ acked' = acked
    BY DEF Appended
<1>2. written \in Seq(Unit) /\ written' \in Seq(Unit)
    BY DEF IndInv, WellFormed
<1>3. n \in Nat
    BY <1>2, RecordsCount
<1>4. b.val \in Payloads /\ b = [num |-> n + 1, val |-> b.val]
    BY <1>1 DEF Block
<1>5. /\ BlocksOf(written) = [i \in 1 .. n |-> written[2 * i - 1].body]
      /\ Len(BlocksOf(written)) = n
      /\ BlocksOf(written') = [i \in 1 .. Records(written') |-> written'[2 * i - 1].body]
    BY <1>2, BlocksSequence
<1> HIDE DEF n
<1>6. /\ Len(written') = 2 * n + 2
      /\ \A i \in 1 .. 2 * n : written'[i] = written[i]
      /\ written'[2 * n + 1] = Body(b)
  <2> DEFINE p == Pos(Len(written))
  <2>1. p \in Unit /\ Body(b) \in Unit
    <3>1. p \in Unit
        BY <1>1, <1>3, Units
    <3>2. Body(b) \in Bodies(n + 1)
        BY <1>4 DEF Bodies
    <3>3. QED
        BY <1>3, <3>1, <3>2, Units
  <2> HIDE DEF p
  <2>2. written' = written \o <<Body(b), p>>
      BY <1>1 DEF p
  <2>3. /\ Len(written') = Len(written) + 2
        /\ \A i \in 1 .. Len(written) : written'[i] = written[i]
        /\ written'[Len(written) + 1] = Body(b)
      BY <1>2, <2>1, <2>2, TwoMore
  <2>4. QED
      BY <1>1, <1>3, <2>3
<1>7. Records(written') = n + 1
    BY <1>3, <1>6 DEF Records
<1>8. \A i \in 1 .. n : written'[2 * i - 1] = written[2 * i - 1]
    BY <1>3, <1>6
<1>9. written'[2 * (n + 1) - 1].body = b
  <2>1. 2 * (n + 1) - 1 = 2 * n + 1
      BY <1>3
  <2>2. QED
      BY <2>1, <1>6 DEF Body
<1>10. BlocksOf(written') = [i \in 1 .. n + 1 |-> IF i = n + 1 THEN b ELSE BlocksOf(written)[i]]
  <2>1. ASSUME NEW i \in 1 .. n + 1
        PROVE  written'[2 * i - 1].body = IF i = n + 1 THEN b ELSE BlocksOf(written)[i]
    <3>1. CASE i = n + 1
        BY <3>1, <1>9
    <3>2. CASE i # n + 1
      <4>1. i \in 1 .. n
          BY <1>3, <3>2
      <4>2. QED
          BY <1>5, <1>8, <3>2, <4>1
    <3>3. QED
        BY <3>1, <3>2
  <2>2. BlocksOf(written') = [i \in 1 .. n + 1 |-> written'[2 * i - 1].body]
      BY <1>5, <1>7
  <2>3. QED
      BY <2>1, <2>2
<1>11. BlocksOf(written') = Append(BlocksOf(written), b)
  <2> DEFINE s == BlocksOf(written)
             S == {written[2 * i - 1].body : i \in 1 .. Records(written)}
  <2>1. s \in Seq(S) /\ Len(s) = n
      BY <1>2, <1>5, BlocksSequence
  <2> HIDE DEF s, S
  <2>2. Append(s, b) = [i \in 1 .. n + 1 |-> IF i = n + 1 THEN b ELSE s[i]]
      BY <1>3, <2>1, AppendIsFunction
  <2>3. QED
      BY <1>10, <2>2 DEF s
<1>12. QED
    BY <1>1, <1>4, <1>5, <1>11 DEF Abstract!Append1

\* A crash drops blocks from the end, none that was flushed.
LEMMA CutRefines ==
    ASSUME IndInv, Cut, IndInv'
    PROVE  Abstract!Crash
<1> DEFINE m == Records(written')
<1>1. PICK c \in 0 .. Len(written) :
          /\ Len(written') = c /\ \A k \in 1 .. c : written'[k] = written[k]
          /\ acked <= m /\ acked' = acked
    BY DEF Cut
<1>2. written \in Seq(Unit) /\ written' \in Seq(Unit) /\ acked \in Nat
    BY DEF IndInv, WellFormed
<1>3. m \in Nat /\ m <= Records(written) /\ Records(written) \in Nat
    BY <1>1, <1>2, RecordsGrow, RecordsCount
<1>4. 2 * m <= c
  <2>1. Len(written') = 2 * m \/ Len(written') = 2 * m + 1
      BY <1>2, RecordsCount
  <2> HIDE DEF m
  <2>2. QED
      BY <1>1, <1>3, <2>1
<1>5. /\ BlocksOf(written) = [i \in 1 .. Records(written) |-> written[2 * i - 1].body]
      /\ Len(BlocksOf(written)) = Records(written)
      /\ BlocksOf(written') = [i \in 1 .. m |-> written'[2 * i - 1].body]
    BY <1>2, BlocksSequence
<1> HIDE DEF m
<1>6. \A i \in 1 .. m : written'[2 * i - 1].body = BlocksOf(written)[i]
  <2> SUFFICES ASSUME NEW i \in 1 .. m PROVE written'[2 * i - 1].body = BlocksOf(written)[i]
      OBVIOUS
  <2>1. 2 * i - 1 \in 1 .. c /\ i \in 1 .. Records(written)
      BY <1>3, <1>4
  <2>2. QED
      BY <1>1, <1>5, <2>1
<1>7. BlocksOf(written') = SubSeq(BlocksOf(written), 1, m)
  <2>1. BlocksOf(written') = [i \in 1 .. m |-> BlocksOf(written)[i]]
      BY <1>5, <1>6
  <2> DEFINE s == BlocksOf(written)
  <2> HIDE DEF s
  <2>2. SubSeq(s, 1, m) = [i \in 1 .. m |-> s[i]]
      BY <1>3
  <2>3. QED
      BY <2>1, <2>2 DEF s
<1>8. m \in acked .. Len(BlocksOf(written))
    BY <1>1, <1>2, <1>3, <1>5
<1>9. QED
    BY <1>1, <1>7, <1>8 DEF Abstract!Crash

\* The two files with their buffers implement DurableLog: append() adds one
\* block with the next number at the end, flush() and close() make what was
\* appended safe, and a crash between any two steps takes blocks only from the
\* end and none that was safe.  Opening, reading, a refused append and the
\* loss of the index are not seen.
THEOREM LogIsDurable == Spec => IsDurableLog
<1>1. Init => Abstract!Init
  <2> SUFFICES ASSUME Init PROVE BlocksOf(written) = <<>> /\ acked = 0
      BY DEF Abstract!Init
  <2>1. <<>> \o <<>> = <<>> /\ <<>> \in Seq(Unit) /\ Len(<<>>) = 0
      BY EmptySeq, ConcatEmptySeq
  <2>2. written = <<>> /\ acked = 0
      BY <2>1 DEF Init, written
  <2>3. Records(written) = 0
      BY <2>1, <2>2 DEF Records
  <2>4. QED
      BY <2>2, <2>3 DEF BlocksOf
<1>2. IndInv /\ IndInv' /\ (Unchanged \/ Appended \/ Cut) => [Abstract!Next]_(Abstract!vars)
  <2> SUFFICES ASSUME IndInv, IndInv', Unchanged \/ Appended \/ Cut
               PROVE  [Abstract!Next]_(Abstract!vars)
      OBVIOUS
  <2>1. CASE Unchanged
    <3>1. Len(BlocksOf(written)) = Records(written)
        BY BlocksSequence DEF IndInv, WellFormed
    <3>2. BlocksOf(written') = BlocksOf(written) /\ (acked' = acked \/ acked' = Len(BlocksOf(written)))
        BY <2>1, <3>1 DEF Unchanged
    <3>3. QED
        BY <3>2 DEF Abstract!Next, Abstract!Flush, Abstract!vars
  <2>2. CASE Appended
      BY <2>2, AppendRefines DEF Abstract!Next
  <2>3. CASE Cut
      BY <2>3, CutRefines DEF Abstract!Next
  <2>4. QED
      BY <2>1, <2>2, <2>3
<1>3. Init => IndInv
    BY InitHolds
<1>4. IndInv /\ [Next]_vars => IndInv' /\ (Unchanged \/ Appended \/ Cut)
    BY StepHolds
<1>5. QED
    BY <1>1, <1>2, <1>3, <1>4, PTL DEF Spec, IsDurableLog, Abstract!Spec
=============================================================================
