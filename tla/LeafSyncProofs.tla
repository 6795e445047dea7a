---------------------------- MODULE LeafSyncProofs ----------------------------
(***************************************************************************)
(* Proofs about LeafSync for any number of runs, any chunk, concurrency    *)
(* and chain: every cache lists the deposits in their order, and, while    *)
(* the nodes are up to date and no file lacks its blocks, all of them up   *)
(* to its last block.                                                      *)
(***************************************************************************)
EXTENDS LeafSync, ArithmeticTheorems, SequenceTheorems

-----------------------------------------------------------------------------
(* The inductive invariant.                                                 *)

\* Deposits are in the order of their blocks.
ChainInv ==
    /\ setting \in Settings /\ height \in 0 .. MaxHeight
    /\ blockOf \in Seq(1 .. height) /\ Len(blockOf) <= MaxDeposits
    /\ \A i, j \in DOMAIN blockOf : i <= j => blockOf[i] <= blockOf[j]

\* The first n deposits are those up to block b.
UpTo(n, b) ==
    /\ n \in 0 .. Len(blockOf)
    /\ \A k \in DOMAIN blockOf : blockOf[k] <= b <=> k <= n

\* A cache whose leaves are the first deposits, with a block for each or for none.
InOrder(c) ==
    /\ c \in Cache /\ c.lastBlock <= height
    /\ Len(c.leaves) <= Len(blockOf)
    /\ \A k \in DOMAIN c.leaves : c.leaves[k] = k
    /\ c.leafBlocks # NoBlocks => Len(c.leafBlocks) = Len(c.leaves)

\* Up-to-date nodes, and no file of an earlier release.
Exact == ~setting.lagging /\ ~setting.legacy

\* A cache that holds every deposit up to its last block, and its block.
Complete(c) ==
    /\ UpTo(Len(c.leaves), c.lastBlock)
    /\ IF c.leafBlocks = NoBlocks THEN c.leaves = <<>>
       ELSE \A k \in DOMAIN c.leaves : c.leafBlocks[k] = blockOf[k]

Good(c) == InOrder(c) /\ (Exact => Complete(c))

\* Whole blocks, but for a deposit followed by another.
SeedInv ==
    seed # NoSeed =>
        \E b \in 1 .. height :
            \/ seed = DepositsIn(1, b)
            \/ \E k \in DepositsIn(1, b) : k + 1 \in DepositsIn(1, b) /\ seed = DepositsIn(1, b) \ {k}

FileInv == file \in {NoFile, OtherPool, Torn} \/ Good(file)

\* Is k a deposit that has not been asked for yet?
Awaited(k, ranges) == \E i \in DOMAIN ranges : blockOf[k] \in ranges[i][1] .. ranges[i][2]

\* What a run has fetched, and what it will, is what its cache lacks.
FetchInv(p) ==
    LET missing == DepositsIn(cache[p].lastBlock + 1, head[p]) IN
    /\ cache[p].lastBlock <= head[p]
    /\ events[p] \subseteq missing
    /\ \A i \in DOMAIN todo[p] :
          cache[p].lastBlock < todo[p][i][1] /\ todo[p][i][2] <= head[p]
    /\ ~setting.lagging => \A k \in missing : k \in events[p] \/ Awaited(k, todo[p])

RunInv(p) ==
    /\ Good(cache[p])
    /\ head[p] <= height /\ events[p] \subseteq DOMAIN blockOf
    /\ pc[p] \in {"idle", "loaded"} => todo[p] = <<>> /\ events[p] = {}
    /\ pc[p] = "fetching" => FetchInv(p)

SyncInv ==
    /\ TypeOK /\ ChainInv /\ SeedInv /\ FileInv
    /\ \A p \in Runs : RunInv(p)

-----------------------------------------------------------------------------
(* What the operators of the model compute.                                 *)

LEMMA RemoveAtKeeps ==
    ASSUME NEW S, NEW s \in Seq(S), NEW i \in DOMAIN s
    PROVE  /\ RemoveAt(s, i) \in Seq(S)
           /\ \A j \in DOMAIN RemoveAt(s, i) : \E m \in DOMAIN s : RemoveAt(s, i)[j] = s[m]
           /\ \A m \in DOMAIN s : m # i => \E j \in DOMAIN RemoveAt(s, i) : RemoveAt(s, i)[j] = s[m]
<1> DEFINE n == Len(s)
           a == SubSeq(s, 1, i - 1)
           b == SubSeq(s, i + 1, n)
           r == a \o b
<1>1. n \in Nat /\ DOMAIN s = 1 .. n /\ i \in 1 .. n
  BY LenProperties
<1>2. /\ a \in Seq(S) /\ Len(a) = i - 1
      /\ \A j \in 1 .. i - 1 : a[j] = s[j]
  <2>1. \A j \in 1 .. i - 1 : s[j] \in S
    BY <1>1
  <2>2. 1 \in Int /\ i - 1 \in Int /\ (IF 1 <= i - 1 THEN (i - 1) - 1 + 1 ELSE 0) = i - 1
        /\ (i - 1) - 1 + 1 = i - 1 /\ \A j \in 1 .. i - 1 : 1 + j - 1 = j
    BY <1>1
  <2> HIDE DEF n
  <2> QED
    BY <2>1, <2>2, SubSeqProperties
<1>3. /\ b \in Seq(S) /\ Len(b) = n - i
      /\ \A j \in 1 .. n - i : b[j] = s[i + j]
  <2>1. \A j \in i + 1 .. n : s[j] \in S
    BY <1>1
  <2>2. i + 1 \in Int /\ n \in Int /\ (IF i + 1 <= n THEN n - (i + 1) + 1 ELSE 0) = n - i
        /\ n - (i + 1) + 1 = n - i /\ \A j \in 1 .. n - i : (i + 1) + j - 1 = i + j
    BY <1>1
  <2> HIDE DEF n
  <2> QED
    BY <2>1, <2>2, SubSeqProperties
<1> HIDE DEF a, b, n
<1>4. /\ r \in Seq(S) /\ Len(r) = (i - 1) + (n - i)
      /\ \A j \in 1 .. Len(r) : r[j] = IF j <= i - 1 THEN a[j] ELSE b[j - (i - 1)]
  <2>1. /\ r \in Seq(S) /\ Len(r) = Len(a) + Len(b)
        /\ \A j \in 1 .. Len(a) + Len(b) : r[j] = IF j <= Len(a) THEN a[j] ELSE b[j - Len(a)]
    BY <1>2, <1>3, ConcatProperties
  <2> HIDE DEF r
  <2> QED
    BY <1>2, <1>3, <2>1
<1>5. DOMAIN r = 1 .. n - 1
  BY <1>1, <1>4, LenProperties
<1>6. \A j \in 1 .. n - 1 : r[j] = s[IF j <= i - 1 THEN j ELSE j + 1]
  <2> SUFFICES ASSUME NEW j \in 1 .. n - 1
               PROVE  r[j] = s[IF j <= i - 1 THEN j ELSE j + 1]
    OBVIOUS
  <2>1. j \in 1 .. Len(r)
    BY <1>1, <1>4
  <2>2. CASE j <= i - 1
    <3>1. j \in 1 .. i - 1
      BY <1>1, <2>2
    <3> QED
      BY <1>2, <1>4, <2>1, <2>2, <3>1
  <2>3. CASE ~(j <= i - 1)
    <3>1. j - (i - 1) \in 1 .. n - i /\ i + (j - (i - 1)) = j + 1
      BY <1>1, <2>3
    <3> QED
      BY <1>3, <1>4, <2>1, <2>3, <3>1
  <2> QED
    BY <2>2, <2>3
<1> HIDE DEF r
<1>7. \A j \in 1 .. n - 1 : \E m \in 1 .. n : r[j] = s[m]
  <2>1. \A j \in 1 .. n - 1 : (IF j <= i - 1 THEN j ELSE j + 1) \in 1 .. n
    BY <1>1
  <2> QED
    BY <1>6, <2>1
<1>8. ASSUME NEW m \in 1 .. n, m # i
      PROVE  \E j \in 1 .. n - 1 : r[j] = s[m]
  <2> DEFINE j == IF m < i THEN m ELSE m - 1
  <2>1. j \in 1 .. n - 1 /\ (IF j <= i - 1 THEN j ELSE j + 1) = m
    BY <1>1, <1>8
  <2> HIDE DEF j
  <2> QED
    BY <1>6, <2>1
<1> QED
  BY <1>1, <1>4, <1>5, <1>7, <1>8 DEF RemoveAt, r, a, b, n

\* Sorting events without a gap lists them one after the other.
LEMMA SortedInterval ==
    ASSUME NEW from \in Nat, NEW n \in Nat, NEW es, es = from + 1 .. from + n
    PROVE  Cardinality(es) = n /\ Sorted(es) = [i \in 1 .. n |-> from + i]
<1>1. Cardinality(es) = n
  BY FS_Interval
<1> DEFINE Increasing(s) == s \in [1 .. n -> es] /\ \A i, j \in DOMAIN s : i < j => s[i] < s[j]
<1>2. Increasing([i \in 1 .. n |-> from + i])
  OBVIOUS
<1>3. Sorted(es) = CHOOSE s \in [1 .. n -> es] : \A i, j \in DOMAIN s : i < j => s[i] < s[j]
  BY <1>1 DEF Sorted
<1>4. Increasing(Sorted(es))
  BY <1>2, <1>3
<1> DEFINE s == Sorted(es)
<1>5. s \in [1 .. n -> from + 1 .. from + n] /\ \A i, j \in 1 .. n : i < j => s[i] < s[j]
  BY <1>4
<1> HIDE DEF s
<1>6. \A i \in 1 .. n : s[i] >= from + i
  <2> DEFINE S == {i \in Nat : i \in 1 .. n => s[i] >= from + i}
  <2>1. 0 \in S
    OBVIOUS
  <2>2. ASSUME NEW i \in Nat, i \in S
        PROVE  i + 1 \in S
    <3> SUFFICES ASSUME i + 1 \in 1 .. n PROVE s[i + 1] >= from + (i + 1)
      OBVIOUS
    <3>1. s[i + 1] \in from + 1 .. from + n
      BY <1>5
    <3>2. CASE i = 0
      BY <3>1, <3>2
    <3>3. CASE i # 0
      <4>1. i \in 1 .. n /\ s[i] >= from + i /\ s[i] < s[i + 1] /\ s[i] \in from + 1 .. from + n
        BY <1>5, <2>2, <3>3
      <4> QED
        BY <3>1, <4>1
    <3> QED
      BY <3>2, <3>3
  <2> HIDE DEF S
  <2>3. \A i \in Nat : i \in S
    BY <2>1, <2>2, NatSetInduction
  <2> QED
    BY <2>3 DEF S
<1>7. \A i \in 1 .. n : s[i] <= from + i
  <2> DEFINE S == {d \in Nat : d < n => s[n - d] <= from + (n - d)}
  <2>1. 0 \in S
    <3>1. 0 < n => s[n - 0] \in from + 1 .. from + n
      BY <1>5
    <3> QED
      BY <3>1
  <2>2. ASSUME NEW d \in Nat, d \in S
        PROVE  d + 1 \in S
    <3> SUFFICES ASSUME d + 1 < n PROVE s[n - (d + 1)] <= from + (n - (d + 1))
      OBVIOUS
    <3>1. /\ n - d \in 1 .. n /\ n - (d + 1) \in 1 .. n /\ n - (d + 1) < n - d /\ d < n
      OBVIOUS
    <3>2. /\ s[n - d] <= from + (n - d) /\ s[n - (d + 1)] < s[n - d]
          /\ s[n - d] \in Int /\ s[n - (d + 1)] \in Int
      BY <1>5, <2>2, <3>1
    <3> QED
      BY <3>1, <3>2
  <2> HIDE DEF S
  <2>3. \A d \in Nat : d \in S
    BY <2>1, <2>2, NatSetInduction
  <2>4. ASSUME NEW i \in 1 .. n
        PROVE  s[i] <= from + i
    <3>1. n - i \in Nat /\ n - i < n /\ n - (n - i) = i
      OBVIOUS
    <3>2. n - i \in S
      BY <2>3, <3>1
    <3> QED
      BY <3>1, <3>2 DEF S
  <2> QED
    BY <2>4
<1>8. s = [i \in 1 .. n |-> from + i]
  <2>1. \A i \in 1 .. n : s[i] \in Int /\ s[i] = from + i
    BY <1>5, <1>6, <1>7
  <2> QED
    BY <1>5, <2>1
<1> QED
  BY <1>1, <1>8 DEF s

LEMMA RangesCover ==
    ASSUME NEW last \in Nat, NEW h \in 0 .. MaxHeight, last <= h
    PROVE  /\ Ranges(last, h) \in Seq((1 .. MaxHeight) \X (1 .. MaxHeight))
           /\ \A i \in DOMAIN Ranges(last, h) :
                 last < Ranges(last, h)[i][1] /\ Ranges(last, h)[i][2] <= h
           /\ \A b \in last + 1 .. h : \E i \in DOMAIN Ranges(last, h) :
                 b \in Ranges(last, h)[i][1] .. Ranges(last, h)[i][2]
<1> DEFINE n == (h - last + Chunk - 1) \div Chunk
           from(i) == last + 1 + (i - 1) * Chunk
           to(i) == IF from(i) + Chunk - 1 > h THEN h ELSE from(i) + Chunk - 1
           r == [i \in 1 .. n |-> <<from(i), to(i)>>]
<1>1. Chunk \in Nat \ {0} /\ MaxHeight \in Nat /\ h \in Nat /\ h <= MaxHeight
  BY SyncAssumption
<1>2. n \in Nat /\ Chunk * n <= h - last + Chunk - 1
      /\ h - last + Chunk - 1 < Chunk * n + Chunk
  <2>1. h - last + Chunk - 1 \in Nat
    BY <1>1
  <2> QED
    BY <1>1, <2>1, Division
<1>3. Ranges(last, h) = r
  BY DEF Ranges
<1> HIDE DEF n
<1>4. ASSUME NEW i \in 1 .. n
      PROVE  /\ from(i) \in 1 .. h /\ to(i) \in 1 .. h /\ last < from(i)
    <2>1. (i - 1) * Chunk <= (n - 1) * Chunk /\ (i - 1) * Chunk \in Nat
      BY <1>1, <1>2, TimesMonotone
    <2>2. (n - 1) * Chunk = Chunk * n - Chunk
      BY <1>1, <1>2
    <2> DEFINE x == (i - 1) * Chunk
               y == Chunk * n
    <2>3. x \in Nat /\ x <= y - Chunk /\ y <= h - last + Chunk - 1 /\ y \in Int
      BY <1>1, <1>2, <2>1, <2>2
    <2> HIDE DEF x, y
    <2>4. last + 1 + x \in 1 .. h /\ last < last + 1 + x
      BY <1>1, <2>3
    <2>5. from(i) = last + 1 + x
      BY DEF x
    <2> HIDE DEF from
    <2> QED
      BY <1>1, <2>4, <2>5
<1>5. ASSUME NEW b \in last + 1 .. h
      PROVE  \E i \in 1 .. n : b \in from(i) .. to(i)
  <2> DEFINE m == (b - last - 1) \div Chunk
  <2>1. m \in Nat /\ Chunk * m <= b - last - 1 /\ b - last - 1 < Chunk * m + Chunk
    <3>1. b - last - 1 \in Nat
      OBVIOUS
    <3> QED
      BY <1>1, <3>1, Division
  <2> HIDE DEF m
  <2>2. m + 1 <= n
    <3> SUFFICES ASSUME n <= m PROVE FALSE
      BY <1>2, <2>1
    <3>1. n * Chunk <= m * Chunk
      BY <1>1, <1>2, <2>1, TimesMonotone
    <3> DEFINE x == Chunk * m
               y == Chunk * n
    <3>2. y <= x /\ x <= b - last - 1 /\ h - last + Chunk - 1 < y + Chunk /\ x \in Int /\ y \in Int
      BY <1>1, <1>2, <2>1, <3>1
    <3> HIDE DEF x, y
    <3> QED
      BY <1>1, <3>2
  <2>3. m + 1 \in 1 .. n
    BY <1>2, <2>1, <2>2
  <2>4. from(m + 1) = last + 1 + Chunk * m
    BY <1>1, <2>1
  <2> HIDE DEF from
  <2>5. b \in from(m + 1) .. to(m + 1)
    <3> DEFINE x == Chunk * m
    <3>1. x \in Int /\ from(m + 1) = last + 1 + x /\ x <= b - last - 1 /\ b - last - 1 < x + Chunk
      BY <1>1, <2>1, <2>4
    <3> HIDE DEF x
    <3> QED
      BY <1>1, <3>1
  <2> QED
    BY <2>3, <2>5
<1> HIDE DEF from, to
<1>6. r \in Seq((1 .. MaxHeight) \X (1 .. MaxHeight))
  <2>1. \A i \in 1 .. n : from(i) \in 1 .. MaxHeight /\ to(i) \in 1 .. MaxHeight
    BY <1>1, <1>4
  <2>2. r \in [1 .. n -> (1 .. MaxHeight) \X (1 .. MaxHeight)]
    BY <2>1
  <2> QED
    BY <1>2, <2>2, SeqDef
<1>7. DOMAIN r = 1 .. n /\ \A i \in 1 .. n : r[i][1] = from(i) /\ r[i][2] = to(i)
  OBVIOUS
<1> HIDE DEF r
<1>8. \A i \in DOMAIN r : last < r[i][1] /\ r[i][2] <= h
  BY <1>1, <1>4, <1>7
<1>9. \A b \in last + 1 .. h : \E i \in DOMAIN r : b \in r[i][1] .. r[i][2]
  BY <1>5, <1>7
<1> QED
  BY <1>3, <1>6, <1>8, <1>9

\* The loop of a rewind stops.
LEMMA KeptAtStops ==
    ASSUME NEW c, c.leafBlocks \in Seq(0 .. MaxHeight), NEW h \in Nat
    PROVE  /\ KeptAt(c, h) \in 0 .. Len(c.leafBlocks)
           /\ \A k \in 1 .. KeptAt(c, h) : c.leafBlocks[k] <= h
           /\ KeptAt(c, h) < Len(c.leafBlocks) => c.leafBlocks[KeptAt(c, h) + 1] > h
<1> DEFINE b == c.leafBlocks
           n == Len(b)
           Stops(keep) == /\ \A k \in 1 .. keep : b[k] <= h
                          /\ keep < n => b[keep + 1] > h
           S == {m \in Nat : m <= n => (\A k \in 1 .. m : b[k] <= h) \/ \E keep \in 0 .. n : Stops(keep)}
<1>1. n \in Nat /\ \A k \in 1 .. n : b[k] \in Int
  BY SyncAssumption
<1>2. 0 \in S
  OBVIOUS
<1>3. ASSUME NEW m \in Nat, m \in S
      PROVE  m + 1 \in S
  <2> SUFFICES ASSUME m + 1 <= n
               PROVE  (\A k \in 1 .. m + 1 : b[k] <= h) \/ \E keep \in 0 .. n : Stops(keep)
    OBVIOUS
  <2>1. CASE \A k \in 1 .. m : b[k] <= h
    <3>1. CASE b[m + 1] <= h
      <4>1. \A k \in 1 .. m + 1 : k \in 1 .. m \/ k = m + 1
        OBVIOUS
      <4> QED
        BY <2>1, <3>1, <4>1
    <3>2. CASE ~(b[m + 1] <= h)
      <4>1. m \in 0 .. n /\ b[m + 1] \in Int
        BY <1>1
      <4>2. Stops(m)
        BY <2>1, <3>2, <4>1
      <4> QED
        BY <4>1, <4>2
    <3> QED
      BY <3>1, <3>2
  <2>2. CASE \E keep \in 0 .. n : Stops(keep)
    BY <2>2
  <2> QED
    BY <1>1, <1>3, <2>1, <2>2
<1> HIDE DEF S
<1>4. n \in S
  BY <1>1, <1>2, <1>3, NatSetInduction
<1>5. \E keep \in 0 .. n : Stops(keep)
  <2>1. (\A k \in 1 .. n : b[k] <= h) => n \in 0 .. n /\ Stops(n)
    BY <1>1
  <2> QED
    BY <1>1, <1>4, <2>1 DEF S
<1>6. KeptAt(c, h) = CHOOSE keep \in 0 .. n : Stops(keep)
  BY DEF KeptAt
<1> HIDE DEF Stops
<1>7. KeptAt(c, h) \in 0 .. n /\ Stops(KeptAt(c, h))
  BY <1>5, <1>6
<1> QED
  BY <1>7 DEF Stops

-----------------------------------------------------------------------------
(* The chain only grows, and what was true of the deposits stays true.      *)

ChainGrows ==
    /\ setting' = setting /\ height <= height'
    /\ \A k \in DOMAIN blockOf : k \in DOMAIN blockOf' /\ blockOf'[k] = blockOf[k]
    /\ \A k \in DOMAIN blockOf' : k \notin DOMAIN blockOf => blockOf'[k] > height

\* The deposits, and their number.
LEMMA Chain ==
    ASSUME ChainInv
    PROVE  /\ height \in Nat /\ Len(blockOf) \in Nat /\ DOMAIN blockOf = 1 .. Len(blockOf)
           /\ \A k \in DOMAIN blockOf : blockOf[k] \in 1 .. height /\ k \in 1 .. MaxDeposits
BY SyncAssumption DEF ChainInv

LEMMA Counted ==
    ASSUME ChainInv, NEW n, NEW b \in Nat, UpTo(n, b)
    PROVE  DepositsIn(1, b) = 1 .. n /\ Cardinality(DepositsIn(1, b)) = n /\ n \in Nat
<1>1. n \in Nat /\ n <= Len(blockOf)
  BY Chain DEF UpTo
<1>2. DepositsIn(1, b) = 1 .. n
  BY <1>1, Chain DEF UpTo, DepositsIn
<1>3. Cardinality(1 .. n) = n
  BY <1>1, FS_Interval
<1> QED
  BY <1>1, <1>2, <1>3

\* Whatever block one looks at, the deposits up to it are the first ones.
LEMMA FirstDeposits ==
    ASSUME ChainInv, NEW b \in Nat, NEW n \in Nat, DepositsIn(1, b) = 1 .. n
    PROVE  UpTo(n, b)
<1>1. \A k \in DOMAIN blockOf : (blockOf[k] <= b) <=> (k \in 1 .. n)
  BY Chain DEF DepositsIn
<1>2. n # 0 => n \in DepositsIn(1, b)
  OBVIOUS
<1>3. n # 0 => n \in 1 .. Len(blockOf)
  BY <1>2, Chain DEF DepositsIn
<1>4. n \in 0 .. Len(blockOf)
  BY <1>3, Chain
<1>5. \A k \in DOMAIN blockOf : (k \in 1 .. n) <=> (k <= n)
  BY Chain
<1> QED
  BY <1>1, <1>4, <1>5 DEF UpTo

LEMMA DepositsKept ==
    ASSUME ChainInv, ChainGrows, ChainInv', NEW from \in Nat, NEW to \in Nat, to <= height
    PROVE  DepositsIn(from, to)' = DepositsIn(from, to)
<1>1. \A k \in DOMAIN blockOf' : k \notin DOMAIN blockOf => blockOf'[k] \notin from .. to
  BY Chain DEF ChainGrows
<1> QED
  BY <1>1 DEF ChainGrows, DepositsIn

LEMMA GoodKept ==
    ASSUME ChainInv, ChainGrows, ChainInv', NEW c, Good(c)
    PROVE  Good(c)'
<1>1. /\ height \in Nat /\ height' \in Nat /\ height <= height'
      /\ DOMAIN blockOf = 1 .. Len(blockOf) /\ Len(blockOf) \in Nat
      /\ DOMAIN blockOf' = 1 .. Len(blockOf') /\ Len(blockOf') \in Nat
  BY SyncAssumption DEF ChainInv, ChainGrows
<1>2. Len(blockOf) <= Len(blockOf')
  <2>1. Len(blockOf) # 0 => Len(blockOf) \in 1 .. Len(blockOf')
    BY <1>1 DEF ChainGrows
  <2> QED
    BY <1>1, <2>1
<1>3. c \in Cache /\ c.lastBlock \in Nat /\ c.lastBlock <= height
      /\ Len(c.leaves) \in Nat /\ DOMAIN c.leaves = 1 .. Len(c.leaves) /\ Len(c.leaves) <= Len(blockOf)
  BY DEF Good, InOrder, Cache
<1>4. InOrder(c)'
  <2>1. c.lastBlock <= height' /\ Len(c.leaves) <= Len(blockOf')
    BY <1>1, <1>2, <1>3
  <2> QED
    BY <1>3, <2>1 DEF Good, InOrder
<1>5. ASSUME Exact, Complete(c)
      PROVE  Complete(c)'
  <2>1. \A k \in DOMAIN blockOf' : blockOf'[k] <= c.lastBlock <=> k <= Len(c.leaves)
    <3> SUFFICES ASSUME NEW k \in DOMAIN blockOf'
                 PROVE  blockOf'[k] <= c.lastBlock <=> k <= Len(c.leaves)
      OBVIOUS
    <3>1. CASE k \in DOMAIN blockOf
      BY <1>5, <3>1 DEF ChainGrows, Complete, UpTo
    <3>2. CASE k \notin DOMAIN blockOf
      <4>1. blockOf'[k] > height /\ blockOf'[k] \in Nat
        BY <3>2 DEF ChainGrows, ChainInv
      <4>2. k > Len(blockOf) /\ k \in Nat
        BY <1>1, <3>2
      <4> QED
        BY <1>1, <1>3, <4>1, <4>2
    <3> QED
      BY <3>1, <3>2
  <2>2. Len(c.leaves) \in 0 .. Len(blockOf')
    BY <1>1, <1>2, <1>3
  <2>3. UpTo(Len(c.leaves), c.lastBlock)'
    BY <2>1, <2>2 DEF UpTo
  <2>4. \A k \in DOMAIN c.leaves : k \in DOMAIN blockOf /\ blockOf'[k] = blockOf[k]
    BY <1>1, <1>3 DEF ChainGrows
  <2> QED
    BY <1>5, <2>3, <2>4 DEF Complete
<1>6. Exact' = Exact
  BY DEF Exact, ChainGrows
<1> QED
  BY <1>4, <1>5, <1>6 DEF Good

\* What the variables hold of one run.
LEMMA RunTypes ==
    ASSUME TypeOK, NEW p \in Runs
    PROVE  /\ cache[p] \in Cache /\ cache[p].lastBlock \in Nat
           /\ cache[p].leaves \in Seq(1 .. MaxDeposits)
           /\ cache[p].leafBlocks \in Seq(0 .. MaxHeight) \cup {NoBlocks}
           /\ head[p] \in 0 .. MaxHeight /\ head[p] \in Nat
           /\ todo[p] \in Seq((1 .. MaxHeight) \X (1 .. MaxHeight))
BY DEF TypeOK, Cache

\* A step that leaves a run alone.
LEMMA RunKept ==
    ASSUME TypeOK, ChainInv, ChainGrows, ChainInv', NEW p \in Runs, RunInv(p),
           UNCHANGED <<pc[p], cache[p], head[p], todo[p], events[p]>>
    PROVE  RunInv(p)'
<1>1. Good(cache[p])'
  <2> DEFINE c == cache[p]
  <2>1. Good(c)
    BY DEF RunInv
  <2> SUFFICES ASSUME NEW d, d = c PROVE Good(d)'
    BY DEF Good, InOrder, Complete, UpTo, Exact
  <2> QED
    BY <2>1, GoodKept
<1>2. height \in Nat /\ height' \in Nat /\ head[p] \in Nat /\ cache[p].lastBlock \in Nat
  BY RunTypes, SyncAssumption DEF ChainInv
<1>3. head'[p] <= height' /\ events'[p] \subseteq DOMAIN blockOf'
  BY <1>2 DEF RunInv, ChainGrows
<1>4. ASSUME pc[p] = "fetching"
      PROVE  FetchInv(p)'
  <2> DEFINE missing == DepositsIn(cache[p].lastBlock + 1, head[p])
  <2>1. FetchInv(p) /\ head[p] <= height
    BY <1>4 DEF RunInv
  <2>2. missing' = missing
    <3>1. cache[p].lastBlock + 1 \in Nat /\ head[p] \in Nat
      BY <1>2
    <3>2. missing' = {k \in DOMAIN blockOf' : blockOf'[k] \in cache[p].lastBlock + 1 .. head[p]}
      BY DEF DepositsIn
    <3>3. \A k \in DOMAIN blockOf' : k \notin DOMAIN blockOf => blockOf'[k] \notin cache[p].lastBlock + 1 .. head[p]
      <4>1. \A k \in DOMAIN blockOf' : k \notin DOMAIN blockOf => blockOf'[k] > height
        BY DEF ChainGrows
      <4> QED
        BY <1>2, <2>1, <4>1
    <3> QED
      BY <3>2, <3>3 DEF ChainGrows, DepositsIn
  <2>3. \A k \in missing : blockOf'[k] = blockOf[k]
    BY DEF DepositsIn, ChainGrows
  <2>4. \A k \in missing : Awaited(k, todo[p]) => \E i \in DOMAIN todo[p] : blockOf'[k] \in todo[p][i][1] .. todo[p][i][2]
    BY <2>3 DEF Awaited
  <2> HIDE DEF missing
  <2>5. setting'.lagging = setting.lagging
    BY DEF ChainGrows
  <2> QED
    BY <2>1, <2>2, <2>4, <2>5 DEF FetchInv, Awaited, missing
<1> QED
  BY <1>1, <1>3, <1>4 DEF RunInv

-----------------------------------------------------------------------------
(* The chain and the files others leave.                                    *)

LEMMA InitSync == Init => SyncInv
<1> SUFFICES ASSUME Init PROVE SyncInv
  OBVIOUS
<1>1. MaxHeight \in Nat /\ MaxDeposits \in Nat
  BY SyncAssumption
<1>2. blockOf = <<>> /\ blockOf \in Seq(1 .. height) /\ blockOf \in Seq(1 .. MaxHeight)
      /\ Len(blockOf) = 0 /\ DOMAIN blockOf = {}
  BY DEF Init
<1>3. ChainInv
  BY <1>1, <1>2 DEF Init, ChainInv
<1>4. Fresh \in Cache
  <2>1. <<>> \in Seq(1 .. MaxDeposits)
    OBVIOUS
  <2> QED
    BY <1>1, <2>1 DEF Fresh, Cache
<1>5. Good(Fresh)
  <2>1. DOMAIN Fresh.leaves = {} /\ Len(Fresh.leaves) = 0 /\ Fresh.leafBlocks = NoBlocks
        /\ Fresh.lastBlock = 0 /\ Fresh.leaves = <<>>
    BY DEF Fresh
  <2>2. height = 0
    BY DEF Init
  <2> QED
    BY <1>2, <1>4, <2>1, <2>2 DEF Good, InOrder, Complete, UpTo
<1>6. TypeOK
  <2>1. <<>> \in Seq((1 .. MaxHeight) \X (1 .. MaxHeight))
    OBVIOUS
  <2>2. pc \in [Runs -> {"idle", "loaded", "fetching", "writing", "done", "failed"}]
    BY DEF Init
  <2>3. cache \in [Runs -> Cache] /\ head \in [Runs -> 0 .. MaxHeight]
    BY <1>1, <1>4 DEF Init
  <2>4. /\ todo \in [Runs -> Seq((1 .. MaxHeight) \X (1 .. MaxHeight))]
        /\ events \in [Runs -> SUBSET (1 .. MaxDeposits)]
    BY <2>1 DEF Init
  <2>5. setting \in Settings /\ height \in 0 .. MaxHeight
    BY <1>1 DEF Init
  <2>6. file \in Cache \cup {NoFile, OtherPool, Torn} /\ seed \in (SUBSET (1 .. MaxDeposits)) \cup {NoSeed}
    BY DEF Init
  <2> QED
    BY <1>2, <2>2, <2>3, <2>4, <2>5, <2>6 DEF TypeOK
<1>7. \A p \in Runs : RunInv(p)
  BY <1>5 DEF Init, RunInv
<1> QED
  BY <1>3, <1>6, <1>7 DEF Init, SyncInv, SeedInv, FileInv

\* A cache no sync has used: the deposits of block 0.
LEMMA FreshGood == ASSUME ChainInv PROVE Good(Fresh)
<1>1. DOMAIN Fresh.leaves = {} /\ Len(Fresh.leaves) = 0 /\ Fresh.leafBlocks = NoBlocks
      /\ Fresh.lastBlock = 0 /\ Fresh.leaves = <<>>
  BY DEF Fresh
<1>2. Fresh \in Cache
  <2>1. <<>> \in Seq(1 .. MaxDeposits) /\ MaxHeight \in Nat
    BY SyncAssumption
  <2> QED
    BY <2>1 DEF Fresh, Cache
<1>3. UpTo(0, 0)
  BY Chain DEF UpTo
<1> QED
  BY <1>1, <1>2, <1>3, Chain DEF Good, InOrder, Complete

\* A step that leaves the chain alone.
LEMMA ChainSame ==
    ASSUME SyncInv, UNCHANGED <<setting, height, blockOf>>
    PROVE  ChainInv' /\ ChainGrows
<1>1. ChainInv'
  BY DEF SyncInv, ChainInv
<1>2. \A k \in DOMAIN blockOf : k \in DOMAIN blockOf' /\ blockOf'[k] = blockOf[k]
  OBVIOUS
<1> QED
  BY <1>1, Chain DEF SyncInv, ChainGrows

LEMMA FileKept ==
    ASSUME ChainInv, ChainGrows, ChainInv', FileInv, file' = file
    PROVE  FileInv'
<1> DEFINE f == file
<1>1. CASE f \in {NoFile, OtherPool, Torn}
  BY <1>1 DEF FileInv
<1>2. CASE Good(f)
  <2> SUFFICES ASSUME NEW d, d = f PROVE Good(d)'
    BY DEF FileInv, Good, InOrder, Complete, UpTo, Exact
  <2> QED
    BY <1>2, GoodKept
<1> QED
  BY <1>1, <1>2 DEF FileInv

LEMMA SeedKept ==
    ASSUME ChainInv, ChainGrows, ChainInv', SeedInv, seed' = seed
    PROVE  SeedInv'
<1> SUFFICES ASSUME seed # NoSeed
             PROVE  \E b \in 1 .. height' :
                       \/ seed = DepositsIn(1, b)'
                       \/ \E k \in DepositsIn(1, b)' :
                             k + 1 \in DepositsIn(1, b)' /\ seed = DepositsIn(1, b)' \ {k}
  BY DEF SeedInv
<1>1. PICK b \in 1 .. height :
         \/ seed = DepositsIn(1, b)
         \/ \E k \in DepositsIn(1, b) : k + 1 \in DepositsIn(1, b) /\ seed = DepositsIn(1, b) \ {k}
  BY DEF SeedInv
<1>2. b \in 1 .. height' /\ b \in Nat /\ b <= height
  BY Chain, SyncAssumption DEF ChainGrows, ChainInv
<1>3. DepositsIn(1, b)' = DepositsIn(1, b)
  BY <1>2, DepositsKept
<1> QED
  BY <1>1, <1>2, <1>3

LEMMA MineStep ==
    ASSUME SyncInv, Mine
    PROVE  SyncInv'
<1>1. PICK n \in 0 .. MaxDeposits - Len(blockOf) : blockOf' = blockOf \o [i \in 1 .. n |-> height + 1]
  BY DEF Mine
<1>2. /\ height' = height + 1 /\ height < MaxHeight
      /\ UNCHANGED <<setting, file, seed, pc, cache, head, todo, events>>
  BY DEF Mine
<1>3. /\ ChainInv /\ height \in 0 .. MaxHeight /\ blockOf \in Seq(1 .. height) /\ Len(blockOf) <= MaxDeposits
      /\ Len(blockOf) \in Nat /\ DOMAIN blockOf = 1 .. Len(blockOf) /\ MaxHeight \in Nat /\ MaxDeposits \in Nat
      /\ \A i, j \in DOMAIN blockOf : i <= j => blockOf[i] <= blockOf[j]
  BY SyncAssumption DEF SyncInv, ChainInv
<1> DEFINE m == Len(blockOf)
           new == [i \in 1 .. n |-> height + 1]
<1>4. /\ blockOf' \in Seq(1 .. height') /\ Len(blockOf') = m + n
      /\ \A k \in 1 .. m + n : blockOf'[k] = IF k <= m THEN blockOf[k] ELSE height + 1
  <2>1. blockOf \in Seq(1 .. height') /\ n \in Nat
    BY <1>2, <1>3
  <2>2. new \in Seq(1 .. height') /\ Len(new) = n
    BY <1>2, <1>3, <2>1
  <2>3. /\ blockOf' \in Seq(1 .. height') /\ Len(blockOf') = m + n
        /\ \A k \in 1 .. m + n : blockOf'[k] = IF k <= m THEN blockOf[k] ELSE new[k - m]
    BY <1>1, <2>1, <2>2, ConcatProperties
  <2>4. \A k \in 1 .. m + n : ~(k <= m) => new[k - m] = height + 1
    BY <1>3, <2>1
  <2> QED
    BY <2>3, <2>4
<1>5. DOMAIN blockOf' = 1 .. m + n /\ n \in Nat /\ m + n <= MaxDeposits
  BY <1>3, <1>4, LenProperties
<1> HIDE DEF m, new
<1>6. ChainInv'
  <2>1. \A i, j \in 1 .. m + n : i <= j => blockOf'[i] <= blockOf'[j]
    <3>1. \A k \in 1 .. m : blockOf[k] \in 1 .. height
      BY <1>3 DEF m
    <3> QED
      BY <1>3, <1>4, <1>5, <3>1 DEF m
  <2>2. setting' \in Settings /\ height' \in 0 .. MaxHeight
    BY <1>2, <1>3 DEF ChainInv
  <2> QED
    BY <1>4, <1>5, <2>1, <2>2 DEF ChainInv
<1>7. ChainGrows
  <2>1. \A k \in 1 .. m : k \in 1 .. m + n /\ blockOf'[k] = blockOf[k]
    BY <1>3, <1>4, <1>5 DEF m
  <2>2. \A k \in 1 .. m + n : k \notin 1 .. m => blockOf'[k] > height
    BY <1>3, <1>4, <1>5 DEF m
  <2> QED
    BY <1>2, <1>3, <1>5, <2>1, <2>2 DEF ChainGrows, m
<1>8. TypeOK'
  <2>1. blockOf' \in Seq(1 .. MaxHeight)
    BY <1>2, <1>3, <1>4
  <2> QED
    BY <1>2, <1>6, <2>1 DEF SyncInv, TypeOK, ChainInv
<1>9. \A p \in Runs : RunInv(p)'
  BY <1>2, <1>6, <1>7, RunKept DEF SyncInv
<1>10. SeedInv' /\ FileInv'
  BY <1>2, <1>6, <1>7, SeedKept, FileKept DEF SyncInv
<1> QED
  BY <1>6, <1>8, <1>9, <1>10 DEF SyncInv

LEMMA WriteSeedStep ==
    ASSUME SyncInv, WriteSeed
    PROVE  SyncInv'
<1>1. ChainInv' /\ ChainGrows
  BY ChainSame DEF WriteSeed
<1>2. UNCHANGED <<setting, height, blockOf, file, pc, cache, head, todo, events>>
  BY DEF WriteSeed
<1>3. \A p \in Runs : RunInv(p)'
  BY <1>1, <1>2, RunKept DEF SyncInv
<1>4. FileInv'
  BY <1>1, <1>2, FileKept DEF SyncInv
<1>5. SeedInv'
  BY <1>2 DEF WriteSeed, SeedInv, DepositsIn
<1>6. seed' \in SUBSET (1 .. MaxDeposits)
  BY Chain DEF WriteSeed, SyncInv, DepositsIn
<1>7. TypeOK'
  BY <1>2, <1>6 DEF SyncInv, TypeOK
<1> QED
  BY <1>1, <1>3, <1>4, <1>5, <1>7 DEF SyncInv

LEMMA EarlierReleaseStep ==
    ASSUME SyncInv, EarlierRelease
    PROVE  SyncInv'
<1>1. ChainInv' /\ ChainGrows
  BY ChainSame DEF EarlierRelease, external
<1>2. UNCHANGED <<setting, height, blockOf, seed, pc, cache, head, todo, events>> /\ setting.legacy
  BY DEF EarlierRelease, external
<1>3. (\A p \in Runs : RunInv(p)') /\ SeedInv'
  BY <1>1, <1>2, RunKept, SeedKept DEF SyncInv
<1> DEFINE l == [k \in DOMAIN blockOf |-> k]
<1>4. file' = [lastBlock |-> height, leaves |-> l, leafBlocks |-> NoBlocks]
  BY DEF EarlierRelease
<1>5. l \in Seq(1 .. MaxDeposits) /\ Len(l) = Len(blockOf) /\ \A k \in DOMAIN l : l[k] = k
  BY Chain DEF SyncInv
<1> HIDE DEF l
<1>6. file' \in Cache
  BY <1>4, <1>5 DEF Cache, SyncInv, ChainInv
<1>7. ASSUME NEW c, c = file'
      PROVE  Good(c)'
  <2>1. c \in Cache /\ c.lastBlock = height /\ c.leaves = l /\ c.leafBlocks = NoBlocks
    BY <1>4, <1>6, <1>7
  <2>2. height <= height' /\ Len(l) <= Len(blockOf')
    BY <1>2, <1>5, Chain DEF SyncInv
  <2> QED
    BY <1>2, <1>5, <2>1, <2>2 DEF Good, InOrder, Exact
<1>8. FileInv'
  BY <1>7 DEF FileInv, Good, InOrder, Complete, UpTo, Exact
<1>9. TypeOK'
  BY <1>2, <1>6 DEF SyncInv, TypeOK
<1> QED
  BY <1>1, <1>3, <1>8, <1>9 DEF SyncInv

-----------------------------------------------------------------------------
(* The caches a run makes are good.                                         *)

\* A field for a field.
LEMMA CacheFields ==
    ASSUME NEW c \in Cache
    PROVE  /\ c.lastBlock \in 0 .. MaxHeight /\ c.lastBlock \in Nat
           /\ c.leaves \in Seq(1 .. MaxDeposits) /\ Len(c.leaves) \in Nat
           /\ DOMAIN c.leaves = 1 .. Len(c.leaves)
           /\ c.leafBlocks # NoBlocks => c.leafBlocks \in Seq(0 .. MaxHeight)
BY DEF Cache

LEMMA SeedGood ==
    ASSUME ChainInv, SeedInv, seed # NoSeed, Contiguous(0, seed)
    PROVE  Good(leafCacheFromTornadoCli)
<1> DEFINE n == Cardinality(seed)
           last == IF n = 0 THEN 0 ELSE blockOf[n]
           l == [k \in 1 .. n |-> k]
           b == [k \in 1 .. n |-> blockOf[k]]
<1>1. PICK top \in 1 .. height :
         \/ seed = DepositsIn(1, top)
         \/ \E k \in DepositsIn(1, top) : k + 1 \in DepositsIn(1, top) /\ seed = DepositsIn(1, top) \ {k}
  BY DEF SeedInv
<1>2. top \in Nat /\ top <= height
  BY Chain
<1>3. n \in Nat
  <2>1. DepositsIn(1, top) \subseteq 1 .. Len(blockOf) /\ Len(blockOf) \in Int
    BY Chain DEF DepositsIn
  <2>2. seed \in SUBSET (1 .. Len(blockOf))
    BY <1>1, <2>1
  <2>3. IsFiniteSet(1 .. Len(blockOf))
    BY <2>1, FS_Interval
  <2>4. IsFiniteSet(seed)
    BY <2>2, <2>3, FS_Subset
  <2> QED
    BY <2>4, FS_CardinalityType
<1>4. seed = 1 .. n
  <2>1. seed = 0 + 1 .. 0 + n
    BY DEF Contiguous
  <2> HIDE DEF n
  <2> QED
    BY <1>3, <2>1
<1> HIDE DEF n
<1>5. seed = DepositsIn(1, top)
  <2> SUFFICES ASSUME NEW k \in DepositsIn(1, top), k + 1 \in DepositsIn(1, top),
                      seed = DepositsIn(1, top) \ {k}
               PROVE  FALSE
    BY <1>1
  <2>1. k \in Nat /\ k >= 1
    BY Chain DEF DepositsIn
  <2>2. k + 1 \in seed /\ k \notin seed
    BY <2>1
  <2> QED
    BY <1>3, <1>4, <2>1, <2>2
<1>6. UpTo(n, top)
  BY <1>2, <1>3, <1>4, <1>5, FirstDeposits
<1>7. n \in 0 .. Len(blockOf) /\ \A k \in 1 .. n : k \in DOMAIN blockOf /\ blockOf[k] \in 1 .. height /\ k \in 1 .. MaxDeposits
  BY <1>3, <1>6, Chain DEF UpTo
<1>8. last \in 0 .. height /\ UpTo(n, last)
  <2>1. CASE n = 0
    <3>1. \A k \in DOMAIN blockOf : ~(blockOf[k] <= 0) /\ ~(k <= 0)
      BY Chain
    <3> QED
      BY <1>7, <2>1, <3>1, Chain DEF UpTo
  <2>2. CASE n # 0
    <3>1. n \in DOMAIN blockOf /\ last = blockOf[n] /\ last \in 1 .. height
      BY <1>3, <1>7, <2>2
    <3>2. last <= top
      BY <1>3, <1>6, <3>1 DEF UpTo
    <3>3. ASSUME NEW k \in DOMAIN blockOf
          PROVE  blockOf[k] <= last <=> k <= n
      <4>1. k \in Nat /\ blockOf[k] \in Nat
        BY Chain
      <4>2. k <= n => blockOf[k] <= last
        BY <3>1 DEF ChainInv
      <4>3. blockOf[k] <= last => k <= n
        <5>1. blockOf[k] <= last => blockOf[k] <= top
          BY <1>2, <3>1, <3>2, <4>1
        <5> QED
          BY <1>6, <5>1 DEF UpTo
      <4> QED
        BY <4>2, <4>3
    <3>4. last \in 0 .. height
      BY <3>1, Chain
    <3> HIDE DEF last
    <3> QED
      BY <1>7, <3>3, <3>4 DEF UpTo
  <2> QED
    BY <2>1, <2>2
<1> HIDE DEF last
<1>9. height \in 0 .. MaxHeight /\ MaxHeight \in Nat
  BY SyncAssumption DEF ChainInv
<1>10. l \in Seq(1 .. MaxDeposits) /\ Len(l) = n /\ DOMAIN l = 1 .. n /\ \A k \in 1 .. n : l[k] = k
  BY <1>3, <1>7
<1>11. b \in Seq(0 .. MaxHeight) /\ Len(b) = n /\ \A k \in 1 .. n : b[k] = blockOf[k]
  <2>1. \A k \in 1 .. n : blockOf[k] \in 0 .. MaxHeight
    BY <1>7, <1>9
  <2> QED
    BY <1>3, <2>1
<1> DEFINE c == [lastBlock |-> last, leaves |-> l, leafBlocks |-> b]
<1>12. leafCacheFromTornadoCli = c
  BY DEF leafCacheFromTornadoCli, last, n
<1> HIDE DEF l, b
<1>13. c \in Cache /\ c.lastBlock = last /\ c.leaves = l /\ c.leafBlocks = b /\ b # NoBlocks
  <2>1. last \in 0 .. MaxHeight
    BY <1>8, <1>9
  <2> QED
    BY <1>10, <1>11, <2>1, SyncAssumption DEF Cache
<1> HIDE DEF c
<1>14. InOrder(c)
  BY <1>7, <1>8, <1>10, <1>11, <1>13 DEF InOrder
<1>15. Complete(c)
  BY <1>8, <1>10, <1>11, <1>13 DEF Complete
<1> QED
  BY <1>12, <1>14, <1>15 DEF Good

\* What a rewind keeps is what was deposited by then.
LEMMA RewoundGood ==
    ASSUME ChainInv, NEW c, Good(c), c.leafBlocks # NoBlocks, NEW h \in Nat, h < c.lastBlock
    PROVE  Good(Rewound(c, h)) /\ Rewound(c, h).lastBlock = h
<1>1. c \in Cache /\ c.lastBlock <= height /\ Len(c.leaves) <= Len(blockOf)
      /\ (\A k \in DOMAIN c.leaves : c.leaves[k] = k) /\ Len(c.leafBlocks) = Len(c.leaves)
  BY DEF Good, InOrder
<1>2. /\ c.lastBlock \in 0 .. MaxHeight /\ c.leaves \in Seq(1 .. MaxDeposits)
      /\ DOMAIN c.leaves = 1 .. Len(c.leaves) /\ Len(c.leaves) \in Nat
      /\ c.leafBlocks \in Seq(0 .. MaxHeight) /\ MaxHeight \in Nat
  BY <1>1, CacheFields, SyncAssumption
<1> DEFINE n == Len(c.leaves)
           keep == KeptAt(c, h)
           l == SubSeq(c.leaves, 1, keep)
           b == SubSeq(c.leafBlocks, 1, keep)
<1>3. /\ keep \in 0 .. n
      /\ \A k \in 1 .. keep : c.leafBlocks[k] <= h
      /\ keep < n => c.leafBlocks[keep + 1] > h
  BY <1>1, <1>2, KeptAtStops
<1> HIDE DEF keep
<1>4. /\ (IF 1 <= keep THEN keep - 1 + 1 ELSE 0) = keep /\ keep - 1 + 1 = keep
      /\ keep \in Int /\ 1 \in Int /\ \A k \in 1 .. keep : 1 + k - 1 = k /\ k \in 1 .. n
  BY <1>2, <1>3
<1>5. l \in Seq(1 .. MaxDeposits) /\ Len(l) = keep /\ \A k \in 1 .. keep : l[k] = k
  <2>1. \A k \in 1 .. keep : c.leaves[k] \in 1 .. MaxDeposits
    <3>1. c.leaves \in [1 .. n -> 1 .. MaxDeposits]
      BY <1>2, LenProperties
    <3> HIDE DEF n
    <3> QED
      BY <1>4, <3>1
  <2>2. /\ l \in Seq(1 .. MaxDeposits) /\ Len(l) = keep
        /\ \A k \in 1 .. keep : l[k] = c.leaves[k]
    BY <1>4, <2>1, SubSeqProperties
  <2> QED
    BY <1>1, <1>2, <1>4, <2>2
<1>6. b \in Seq(0 .. MaxHeight) /\ Len(b) = keep /\ \A k \in 1 .. keep : b[k] = c.leafBlocks[k]
  <2>1. \A k \in 1 .. keep : c.leafBlocks[k] \in 0 .. MaxHeight
    BY <1>1, <1>2, <1>4
  <2> QED
    BY <1>4, <2>1, SubSeqProperties
<1> DEFINE d == [lastBlock |-> h, leaves |-> l, leafBlocks |-> b]
<1>7. Rewound(c, h) = d
  BY DEF Rewound, keep
<1> HIDE DEF l, b
<1>8. d \in Cache /\ d.lastBlock = h /\ d.leaves = l /\ d.leafBlocks = b
  <2>1. h \in 0 .. MaxHeight
    BY <1>2
  <2> QED
    BY <1>5, <1>6, <2>1 DEF Cache
<1> HIDE DEF d
<1>9. DOMAIN l = 1 .. keep
  BY <1>5, LenProperties
<1>10. InOrder(d)
  <2>1. h <= height /\ keep <= Len(blockOf)
    BY <1>1, <1>2, <1>3, Chain
  <2> QED
    BY <1>5, <1>6, <1>8, <1>9, <2>1 DEF InOrder
<1>11. ASSUME Exact
       PROVE  Complete(d)
  <2>1. UpTo(n, c.lastBlock) /\ \A k \in 1 .. n : c.leafBlocks[k] = blockOf[k]
    BY <1>2, <1>11 DEF Good, Complete
  <2>2. keep \in 0 .. Len(blockOf)
    BY <1>1, <1>2, <1>3, Chain
  <2>3. ASSUME NEW k \in DOMAIN blockOf
        PROVE  blockOf[k] <= h <=> k <= keep
    <3>1. k \in Nat /\ k >= 1 /\ blockOf[k] \in Nat
      BY Chain
    <3>2. k <= keep => blockOf[k] <= h
      BY <1>3, <1>4, <2>1, <3>1
    <3>3. blockOf[k] <= h => k <= keep
      <4> SUFFICES ASSUME blockOf[k] <= h, keep < k PROVE FALSE
        BY <1>3, <3>1
      <4>1. k <= n
        BY <1>2, <2>1, <3>1 DEF UpTo
      <4>2. keep + 1 \in 1 .. n /\ keep + 1 <= k /\ keep < n
        BY <1>2, <1>3, <3>1, <4>1
      <4>3. keep + 1 \in DOMAIN blockOf
        BY <1>1, <1>2, <4>2, Chain
      <4>4. blockOf[keep + 1] <= blockOf[k] /\ blockOf[keep + 1] \in Nat
        BY <4>2, <4>3, Chain DEF ChainInv
      <4>5. blockOf[keep + 1] > h
        BY <1>3, <2>1, <4>2
      <4> QED
        BY <3>1, <4>4, <4>5
    <3> QED
      BY <3>2, <3>3
  <2>4. UpTo(keep, h)
    BY <2>2, <2>3 DEF UpTo
  <2>5. \A k \in 1 .. keep : b[k] = blockOf[k]
    BY <1>4, <1>6, <2>1
  <2>6. d.leafBlocks # NoBlocks
    BY <1>6, <1>8, SyncAssumption
  <2> QED
    BY <1>5, <1>8, <1>9, <2>4, <2>5, <2>6 DEF Complete
<1> QED
  BY <1>7, <1>8, <1>10, <1>11 DEF Good

\* The leaves fetched go on where those of the cache end.
LEMMA ExtendedGood ==
    ASSUME ChainInv, NEW c, Good(c), NEW h \in 0 .. MaxHeight, h <= height, c.lastBlock <= h,
           NEW es, es \subseteq DepositsIn(c.lastBlock + 1, h), NoGap(c, es),
           ~setting.lagging => DepositsIn(c.lastBlock + 1, h) \subseteq es
    PROVE  Good(Extended(c, es, h))
<1>1. c \in Cache /\ c.lastBlock <= height /\ Len(c.leaves) <= Len(blockOf)
      /\ (\A k \in DOMAIN c.leaves : c.leaves[k] = k)
      /\ (c.leafBlocks # NoBlocks => Len(c.leafBlocks) = Len(c.leaves))
  BY DEF Good, InOrder
<1>2. /\ c.lastBlock \in 0 .. MaxHeight /\ c.leaves \in Seq(1 .. MaxDeposits)
      /\ DOMAIN c.leaves = 1 .. Len(c.leaves) /\ Len(c.leaves) \in Nat
      /\ (c.leafBlocks # NoBlocks => c.leafBlocks \in Seq(0 .. MaxHeight)) /\ MaxHeight \in Nat
  BY <1>1, CacheFields, SyncAssumption
<1> DEFINE n == Len(c.leaves)
           m == Cardinality(es)
           new == [i \in 1 .. m |-> n + i]
           old == BlocksOf(c)
           got == [i \in 1 .. m |-> blockOf[n + i]]
           l == c.leaves \o new
           b == old \o got
<1>3. m \in Nat
  <2>1. es \in SUBSET (1 .. Len(blockOf)) /\ IsFiniteSet(1 .. Len(blockOf))
    BY Chain, FS_Interval DEF DepositsIn
  <2> QED
    BY <2>1, FS_Subset, FS_CardinalityType
<1>4. es = n + 1 .. n + m
  BY DEF NoGap, Contiguous
<1>5. Sorted(es) = new
  BY <1>2, <1>3, <1>4, SortedInterval
<1> HIDE DEF m
<1>6. \A i \in 1 .. m : n + i \in DOMAIN blockOf /\ blockOf[n + i] \in c.lastBlock + 1 .. h
  <2>1. \A i \in 1 .. m : n + i \in es
    BY <1>2, <1>3, <1>4
  <2> QED
    BY <2>1 DEF DepositsIn
<1>7. n + m <= Len(blockOf)
  <2>1. m = 0 => n + m = n
    BY <1>2
  <2>2. m # 0 => n + m \in DOMAIN blockOf
    BY <1>3, <1>6
  <2> QED
    BY <1>1, <1>2, <1>3, <2>1, <2>2, Chain
<1>8. new \in Seq(1 .. MaxDeposits) /\ Len(new) = m
  <2>1. \A i \in 1 .. m : n + i \in 1 .. MaxDeposits
    BY <1>6, Chain
  <2> HIDE DEF n
  <2> QED
    BY <1>3, <2>1
<1>9. got \in Seq(0 .. MaxHeight) /\ Len(got) = m
  <2>1. \A i \in 1 .. m : blockOf[n + i] \in 0 .. MaxHeight
    BY <1>2, <1>6
  <2> QED
    BY <1>3, <2>1
<1>10. old \in Seq(0 .. MaxHeight) /\ Len(old) = n
  BY <1>1, <1>2 DEF BlocksOf
<1>11. /\ \A i \in 1 .. m : new[i] = n + i /\ got[i] = blockOf[n + i]
      /\ c.leaves \in Seq(1 .. MaxDeposits) /\ Len(c.leaves) = n /\ n \in Nat
  BY <1>2
<1> HIDE DEF new, got, old, n
<1>12. \A k \in 1 .. n + m : k <= n => k \in 1 .. n
  BY <1>11
<1>13. \A k \in 1 .. n + m : ~(k <= n) => k - n \in 1 .. m /\ n + (k - n) = k
  BY <1>11, <1>3
<1>14. l \in Seq(1 .. MaxDeposits) /\ Len(l) = n + m /\ \A k \in 1 .. n + m : l[k] = k
  <2>1. /\ l \in Seq(1 .. MaxDeposits) /\ Len(l) = n + m
        /\ \A k \in 1 .. n + m : l[k] = IF k <= n THEN c.leaves[k] ELSE new[k - n]
    <3> DEFINE q == c.leaves
    <3>1. q \in Seq(1 .. MaxDeposits) /\ Len(q) = n /\ l = q \o new
      BY <1>11
    <3> HIDE DEF l, q
    <3>2. /\ l \in Seq(1 .. MaxDeposits) /\ Len(l) = n + m
          /\ \A k \in 1 .. n + m : l[k] = IF k <= n THEN q[k] ELSE new[k - n]
      BY <1>8, <3>1, ConcatProperties
    <3> QED
      BY <3>2 DEF q
  <2> QED
    BY <1>1, <1>2, <1>12, <1>13, <1>11, <2>1 DEF n
<1>15. /\ b \in Seq(0 .. MaxHeight) /\ Len(b) = n + m
       /\ \A k \in 1 .. n + m : b[k] = IF k <= n THEN old[k] ELSE blockOf[k]
  <2>1. /\ b \in Seq(0 .. MaxHeight) /\ Len(b) = n + m
        /\ \A k \in 1 .. n + m : b[k] = IF k <= n THEN old[k] ELSE got[k - n]
    BY <1>9, <1>10, ConcatProperties
  <2> QED
    BY <1>13, <1>11, <2>1
<1> DEFINE d == [lastBlock |-> h, leaves |-> l, leafBlocks |-> b]
<1>16. Extended(c, es, h) = d
  BY <1>5 DEF Extended, l, b, new, old, got, n, m
<1>17. DOMAIN l = 1 .. n + m
  BY <1>14, LenProperties
<1> HIDE DEF l, b
<1>18. d \in Cache /\ d.lastBlock = h /\ d.leaves = l /\ d.leafBlocks = b
  BY <1>14, <1>15 DEF Cache
<1> HIDE DEF d
<1>19. InOrder(d)
  BY <1>7, <1>14, <1>15, <1>17, <1>18 DEF InOrder
<1>20. ASSUME Exact
       PROVE  Complete(d)
  <2>1. UpTo(n, c.lastBlock) /\ (c.leafBlocks # NoBlocks => \A k \in 1 .. n : c.leafBlocks[k] = blockOf[k])
        /\ (c.leafBlocks = NoBlocks => n = 0)
    BY <1>2, <1>20 DEF Good, Complete, n
  <2>2. \A k \in 1 .. n : old[k] = blockOf[k]
    BY <1>2, <2>1 DEF BlocksOf, old
  <2>3. \A k \in 1 .. n + m : b[k] = blockOf[k]
    BY <1>12, <1>15, <2>2
  <2>4. ASSUME NEW k \in DOMAIN blockOf
        PROVE  blockOf[k] <= h <=> k <= n + m
    <3>1. k \in Nat /\ k >= 1 /\ blockOf[k] \in Nat /\ c.lastBlock \in Nat /\ h \in Nat
      BY <1>2, Chain
    <3>2. CASE k <= n
      <4>1. blockOf[k] <= c.lastBlock
        BY <2>1, <3>2 DEF UpTo
      <4> QED
        BY <1>11, <1>3, <3>1, <3>2, <4>1
    <3>3. CASE ~(k <= n)
      <4>1. blockOf[k] > c.lastBlock
        BY <2>1, <3>1, <3>3 DEF UpTo
      <4>2. blockOf[k] <= h <=> k \in DepositsIn(c.lastBlock + 1, h)
        BY <3>1, <4>1 DEF DepositsIn
      <4>3. k \in DepositsIn(c.lastBlock + 1, h) <=> k \in n + 1 .. n + m
        BY <1>4, <1>20 DEF Exact
      <4> QED
        BY <1>11, <1>3, <3>1, <3>3, <4>2, <4>3
    <3> QED
      BY <3>2, <3>3
  <2>5. UpTo(n + m, h)
    BY <1>11, <1>3, <1>7, <2>4, Chain DEF UpTo
  <2>6. d.leafBlocks # NoBlocks
    BY <1>15, <1>18, SyncAssumption
  <2> QED
    BY <1>14, <1>17, <1>18, <2>3, <2>5, <2>6 DEF Complete
<1> QED
  BY <1>16, <1>19, <1>20 DEF Good

-----------------------------------------------------------------------------
(* The steps of a run.                                                      *)

\* A step of one run leaves the others alone.
LEMMA OneRun ==
    ASSUME SyncInv, UNCHANGED external, NEW p \in Runs,
           \A q \in Runs : q # p => UNCHANGED <<pc[q], cache[q], head[q], todo[q], events[q]>>,
           TypeOK', RunInv(p)', FileInv'
    PROVE  SyncInv'
<1>1. ChainInv' /\ ChainGrows
  BY ChainSame DEF external
<1>2. \A q \in Runs : RunInv(q)'
  <2> SUFFICES ASSUME NEW q \in Runs, q # p PROVE RunInv(q)'
    OBVIOUS
  <2> QED
    BY <1>1, RunKept DEF SyncInv
<1>3. SeedInv'
  BY <1>1, SeedKept DEF SyncInv, external
<1> QED
  BY <1>1, <1>2, <1>3 DEF SyncInv

\* While the chain stands still, what is good stays so.
LEMMA GoodStays ==
    ASSUME UNCHANGED <<setting, height, blockOf>>, NEW c, Good(c)
    PROVE  Good(c)'
BY DEF Good, InOrder, Complete, UpTo, Exact

LEMMA FileStays ==
    ASSUME SyncInv, UNCHANGED <<setting, height, blockOf, file>>
    PROVE  FileInv'
BY ChainSame, FileKept DEF SyncInv

LEMMA LoadStep ==
    ASSUME SyncInv, NEW p \in Runs, Load(p)
    PROVE  SyncInv'
<1> DEFINE c == CASE file = OtherPool -> Fresh
                  [] file = NoFile -> IF seed = NoSeed THEN Fresh ELSE leafCacheFromTornadoCli
                  [] OTHER -> file
<1>1. /\ pc[p] = "idle" /\ file # Torn
      /\ file = NoFile /\ seed # NoSeed => Contiguous(0, seed)
      /\ cache' = [cache EXCEPT ![p] = c] /\ pc' = [pc EXCEPT ![p] = "loaded"]
      /\ UNCHANGED <<setting, height, blockOf, seed, file, head, todo, events>>
  BY DEF Load, external
<1>2. Good(c)
  <2>1. file = OtherPool \/ (file # OtherPool /\ file = NoFile) \/ (file # OtherPool /\ file # NoFile)
    OBVIOUS
  <2>2. CASE file = OtherPool
    BY <2>2, FreshGood, SyncAssumption DEF SyncInv
  <2>3. CASE file # OtherPool /\ file = NoFile
    BY <1>1, <2>3, FreshGood, SeedGood DEF SyncInv
  <2>4. CASE file # OtherPool /\ file # NoFile
    BY <1>1, <2>4 DEF SyncInv, FileInv
  <2> QED
    BY <2>1, <2>2, <2>3, <2>4
<1> HIDE DEF c
<1>3. c \in Cache /\ DOMAIN pc = Runs /\ DOMAIN cache = Runs
  BY <1>2 DEF Good, InOrder, SyncInv, TypeOK
<1>4. TypeOK'
  BY <1>1, <1>3 DEF SyncInv, TypeOK
<1>5. RunInv(p)'
  <2>1. cache'[p] = c /\ pc'[p] = "loaded"
    BY <1>1, <1>3
  <2>2. Good(cache[p])'
    BY <1>1, <1>2, <2>1 DEF Good, InOrder, Complete, UpTo, Exact
  <2> QED
    BY <1>1, <2>1, <2>2 DEF SyncInv, RunInv
<1>6. \A q \in Runs : q # p => UNCHANGED <<pc[q], cache[q], head[q], todo[q], events[q]>>
  BY <1>1, <1>3
<1> QED
  BY <1>1, <1>4, <1>5, <1>6, OneRun, FileStays DEF external

\* A run that fails, or that only ends.
LEMMA EndStep ==
    ASSUME SyncInv, NEW p \in Runs, NEW end \in {"failed", "done"}, pc' = [pc EXCEPT ![p] = end],
           UNCHANGED <<external, cache, head, todo, events>>, FileInv', TypeOK'
    PROVE  SyncInv'
<1>1. DOMAIN pc = Runs
  BY DEF SyncInv, TypeOK
<1>2. UNCHANGED <<setting, height, blockOf, cache, head, todo, events>> /\ pc'[p] = end
  BY <1>1 DEF external
<1>3. Good(cache[p])'
  BY <1>2 DEF SyncInv, RunInv, Good, InOrder, Complete, UpTo, Exact
<1>4. RunInv(p)'
  BY <1>2, <1>3 DEF SyncInv, RunInv
<1>5. \A q \in Runs : q # p => UNCHANGED <<pc[q], cache[q], head[q], todo[q], events[q]>>
  BY <1>1, <1>2
<1> QED
  BY <1>4, <1>5, OneRun

LEMMA FailStep ==
    ASSUME SyncInv, NEW p \in Runs, LoadFails(p) \/ Abort(p)
    PROVE  SyncInv'
<1>1. pc' = [pc EXCEPT ![p] = "failed"] /\ UNCHANGED <<external, file, cache, head, todo, events>>
  BY DEF LoadFails, Abort
<1>2. FileInv'
  BY <1>1, FileStays DEF external
<1>3. TypeOK'
  BY <1>1 DEF SyncInv, TypeOK, external
<1> QED
  BY <1>1, <1>2, <1>3, EndStep

LEMMA ReadHeadStep ==
    ASSUME SyncInv, NEW p \in Runs, NEW h \in 0 .. height, ReadHead(p, h)
    PROVE  SyncInv'
<1> DEFINE c == cache[p]
<1>1. /\ pc[p] = "loaded" /\ head' = [head EXCEPT ![p] = h]
      /\ UNCHANGED <<setting, height, blockOf, seed, file, events>>
  BY DEF ReadHead, external
<1>2. /\ DOMAIN pc = Runs /\ DOMAIN cache = Runs /\ DOMAIN head = Runs /\ DOMAIN todo = Runs
      /\ Good(c) /\ todo[p] = <<>> /\ events[p] = {}
      /\ c \in Cache /\ c.lastBlock \in Nat
  BY <1>1, CacheFields DEF SyncInv, TypeOK, RunInv
<1>3. h \in Nat /\ h \in 0 .. MaxHeight /\ h <= height /\ height \in Nat
  BY SyncAssumption DEF SyncInv, ChainInv
<1>4. /\ head'[p] = h
      /\ \A q \in Runs : q # p => UNCHANGED <<head[q], events[q]>>
  BY <1>1, <1>2
<1>5. CASE c.lastBlock <= h
  <2>1. todo' = [todo EXCEPT ![p] = Ranges(c.lastBlock, h)] /\ pc' = [pc EXCEPT ![p] = "fetching"]
        /\ cache' = cache
    BY <1>5 DEF ReadHead
  <2> DEFINE r == Ranges(c.lastBlock, h)
  <2>2. /\ r \in Seq((1 .. MaxHeight) \X (1 .. MaxHeight))
        /\ \A i \in DOMAIN r : c.lastBlock < r[i][1] /\ r[i][2] <= h
        /\ \A b \in c.lastBlock + 1 .. h : \E i \in DOMAIN r : b \in r[i][1] .. r[i][2]
    BY <1>2, <1>3, <1>5, RangesCover
  <2> HIDE DEF r
  <2>3. todo'[p] = r /\ pc'[p] = "fetching" /\ cache'[p] = c
    BY <1>2, <2>1 DEF r
  <2>4. TypeOK'
    BY <1>1, <1>3, <2>1, <2>2 DEF SyncInv, TypeOK, r
  <2>5. FetchInv(p)'
    <3> DEFINE missing == DepositsIn(c.lastBlock + 1, h)
    <3>1. DepositsIn(cache[p].lastBlock + 1, head[p])' = missing
      BY <1>1, <1>4, <2>3 DEF DepositsIn
    <3>2. \A k \in missing : \E i \in DOMAIN r : blockOf[k] \in r[i][1] .. r[i][2]
      BY <2>2 DEF DepositsIn
    <3>3. \A k \in missing : Awaited(k, todo[p])'
      BY <1>1, <2>3, <3>2 DEF Awaited
    <3> HIDE DEF missing, c
    <3>4. events'[p] = {} /\ cache'[p].lastBlock <= head'[p]
      BY <1>1, <1>2, <1>4, <1>5, <2>3
    <3>5. \A i \in DOMAIN todo'[p] : cache'[p].lastBlock < todo'[p][i][1] /\ todo'[p][i][2] <= head'[p]
      BY <1>4, <2>2, <2>3
    <3> QED
      BY <3>1, <3>3, <3>4, <3>5 DEF FetchInv
  <2>6. Good(cache[p])'
    BY <1>1, <1>2, <2>3 DEF Good, InOrder, Complete, UpTo, Exact
  <2>7. RunInv(p)'
    BY <1>1, <1>2, <1>3, <1>4, <2>3, <2>5, <2>6 DEF RunInv
  <2>8. \A q \in Runs : q # p => UNCHANGED <<pc[q], cache[q], todo[q]>>
    BY <1>2, <2>1
  <2> QED
    BY <1>1, <1>4, <2>4, <2>7, <2>8, OneRun, FileStays DEF external
<1>6. CASE ~(c.lastBlock <= h) /\ c.leafBlocks = NoBlocks
  <2>1. pc' = [pc EXCEPT ![p] = "failed"] /\ UNCHANGED <<cache, todo>>
    BY <1>6 DEF ReadHead
  <2>2. pc'[p] = "failed" /\ cache'[p] = c
    BY <1>2, <2>1
  <2>3. TypeOK'
    BY <1>1, <1>3, <2>1 DEF SyncInv, TypeOK
  <2>4. Good(cache[p])'
    BY <1>1, <1>2, <2>2 DEF Good, InOrder, Complete, UpTo, Exact
  <2>5. RunInv(p)'
    BY <1>1, <1>2, <1>3, <1>4, <2>2, <2>4 DEF RunInv
  <2>6. \A q \in Runs : q # p => UNCHANGED <<pc[q], cache[q], todo[q]>>
    BY <1>2, <2>1
  <2> QED
    BY <1>1, <1>4, <2>3, <2>5, <2>6, OneRun, FileStays DEF external
<1>7. CASE ~(c.lastBlock <= h) /\ c.leafBlocks # NoBlocks
  <2> DEFINE d == Rewound(c, h)
  <2>1. cache' = [cache EXCEPT ![p] = d] /\ pc' = [pc EXCEPT ![p] = "fetching"] /\ todo' = todo
    BY <1>7 DEF ReadHead
  <2>2. Good(d) /\ d.lastBlock = h
    <3>1. h < c.lastBlock
      BY <1>2, <1>3, <1>7
    <3> QED
      BY <1>2, <1>3, <1>7, <3>1, RewoundGood DEF SyncInv
  <2> HIDE DEF d
  <2>3. pc'[p] = "fetching" /\ cache'[p] = d /\ d \in Cache
    BY <1>2, <2>1, <2>2 DEF Good, InOrder
  <2>4. TypeOK'
    BY <1>1, <1>3, <2>1, <2>3 DEF SyncInv, TypeOK
  <2>5. Good(cache[p])'
    BY <1>1, <2>2, <2>3 DEF Good, InOrder, Complete, UpTo, Exact
  <2>6. FetchInv(p)'
    <3>1. DepositsIn(cache[p].lastBlock + 1, head[p])' = {}
      BY <1>1, <1>3, <1>4, <2>2, <2>3, Chain DEF DepositsIn, SyncInv
    <3>2. events'[p] = {} /\ todo'[p] = <<>> /\ cache'[p].lastBlock <= head'[p]
      BY <1>1, <1>2, <1>3, <1>4, <2>1, <2>2, <2>3
    <3>3. DOMAIN todo'[p] = {}
      BY <3>2
    <3> QED
      BY <3>1, <3>2, <3>3 DEF FetchInv
  <2>7. RunInv(p)'
    BY <1>1, <1>2, <1>3, <1>4, <2>1, <2>3, <2>5, <2>6 DEF RunInv
  <2>8. \A q \in Runs : q # p => UNCHANGED <<pc[q], cache[q], todo[q]>>
    BY <1>2, <2>1
  <2> QED
    BY <1>1, <1>4, <2>4, <2>7, <2>8, OneRun, FileStays DEF external
<1> QED
  BY <1>5, <1>6, <1>7

LEMMA GetLogsStep ==
    ASSUME SyncInv, NEW p \in Runs, NEW i \in 1 .. MaxHeight, GetLogs(p, i)
    PROVE  SyncInv'
<1> DEFINE c == cache[p]
           t == todo[p]
           r == RemoveAt(t, i)
           missing == DepositsIn(c.lastBlock + 1, head[p])
<1>1. PICK tip \in (IF setting.lagging THEN 0 .. height ELSE {height}) :
         events' = [events EXCEPT ![p] =
                      events[p] \cup {k \in DepositsIn(t[i][1], t[i][2]) : blockOf[k] <= tip}]
  BY DEF GetLogs
<1>2. /\ pc[p] = "fetching" /\ i \in DOMAIN t /\ todo' = [todo EXCEPT ![p] = r]
      /\ UNCHANGED <<setting, height, blockOf, seed, file, pc, cache, head>>
  BY DEF GetLogs, external
<1> DEFINE got == {k \in DepositsIn(t[i][1], t[i][2]) : blockOf[k] <= tip}
<1>3. /\ DOMAIN todo = Runs /\ DOMAIN events = Runs /\ FetchInv(p)
      /\ t \in Seq((1 .. MaxHeight) \X (1 .. MaxHeight)) /\ Good(c)
      /\ c.lastBlock \in Nat /\ head[p] \in Nat /\ events[p] \subseteq DOMAIN blockOf
      /\ head[p] <= height
  BY <1>2, RunTypes DEF SyncInv, TypeOK, RunInv
<1>4. /\ r \in Seq((1 .. MaxHeight) \X (1 .. MaxHeight))
      /\ \A j \in DOMAIN r : \E m \in DOMAIN t : r[j] = t[m]
      /\ \A m \in DOMAIN t : m # i => \E j \in DOMAIN r : r[j] = t[m]
  BY <1>2, <1>3, RemoveAtKeeps
<1>5. todo'[p] = r /\ events'[p] = events[p] \cup got /\ cache'[p] = c
  BY <1>1, <1>2, <1>3
<1>6. /\ c.lastBlock < t[i][1] /\ t[i][2] <= head[p]
      /\ t[i][1] \in Nat /\ t[i][2] \in Nat
  BY <1>2, <1>3 DEF FetchInv
<1>7. got \subseteq missing /\ missing \subseteq DOMAIN blockOf
  <2>1. \A k \in DOMAIN blockOf : blockOf[k] \in Nat
    BY Chain DEF SyncInv
  <2> QED
    BY <1>3, <1>6, <2>1 DEF DepositsIn
<1>8. ASSUME ~setting.lagging, NEW k \in missing
      PROVE  k \in events[p] \cup got \/ \E j \in DOMAIN r : blockOf[k] \in r[j][1] .. r[j][2]
  <2>1. CASE k \in events[p]
    BY <2>1
  <2>2. CASE k \notin events[p]
    <3>1. PICK m \in DOMAIN t : blockOf[k] \in t[m][1] .. t[m][2]
      BY <1>3, <1>8, <2>2 DEF FetchInv, Awaited
    <3>2. CASE m = i
      <4>1. tip = height /\ k \in DOMAIN blockOf /\ blockOf[k] <= height
        BY <1>8, Chain DEF SyncInv, DepositsIn
      <4>2. k \in got
        BY <3>1, <3>2, <4>1 DEF DepositsIn
      <4> QED
        BY <4>2
    <3>3. CASE m # i
      <4>1. PICK j \in DOMAIN r : r[j] = t[m]
        BY <1>4, <3>3
      <4> QED
        BY <3>1, <4>1
    <3> QED
      BY <3>2, <3>3
  <2> QED
    BY <2>1, <2>2
<1> HIDE DEF r, got, t
<1>9. FetchInv(p)'
  <2>1. DepositsIn(cache[p].lastBlock + 1, head[p])' = missing
    BY <1>2 DEF DepositsIn
  <2>2. events'[p] \subseteq missing
    BY <1>3, <1>5, <1>7 DEF FetchInv
  <2>3. \A j \in DOMAIN r : c.lastBlock < r[j][1] /\ r[j][2] <= head[p]
    BY <1>3, <1>4 DEF FetchInv, t
  <2>4. ~setting.lagging => \A k \in missing : k \in events'[p] \/ Awaited(k, todo[p])'
    BY <1>2, <1>5, <1>8 DEF Awaited
  <2> HIDE DEF missing, c
  <2>5. cache'[p] = c /\ head'[p] = head[p] /\ setting' = setting /\ c.lastBlock <= head[p]
    BY <1>2, <1>3, <1>5 DEF FetchInv, c
  <2> QED
    BY <1>5, <2>1, <2>2, <2>3, <2>4, <2>5 DEF FetchInv
<1>10. TypeOK'
  <2>1. got \subseteq 1 .. MaxDeposits
    BY <1>7, Chain DEF SyncInv
  <2>2. events' \in [Runs -> SUBSET (1 .. MaxDeposits)]
    BY <1>1, <2>1 DEF SyncInv, TypeOK, got, t
  <2>3. todo' \in [Runs -> Seq((1 .. MaxHeight) \X (1 .. MaxHeight))]
    BY <1>2, <1>4 DEF SyncInv, TypeOK
  <2> QED
    BY <1>2, <2>2, <2>3 DEF SyncInv, TypeOK
<1>11. Good(cache[p])'
  BY <1>2, <1>3 DEF Good, InOrder, Complete, UpTo, Exact
<1>12. RunInv(p)'
  BY <1>2, <1>3, <1>5, <1>7, <1>9, <1>11 DEF RunInv
<1>13. \A q \in Runs : q # p => UNCHANGED <<pc[q], cache[q], head[q], todo[q], events[q]>>
  BY <1>1, <1>2, <1>3
<1> QED
  BY <1>2, <1>10, <1>12, <1>13, OneRun, FileStays DEF external

LEMMA FinishStep ==
    ASSUME SyncInv, NEW p \in Runs, Finish(p)
    PROVE  SyncInv'
<1> DEFINE c == cache[p]
           d == Extended(c, events[p], head[p])
<1>1. /\ pc[p] = "fetching" /\ todo[p] = <<>>
      /\ UNCHANGED <<setting, height, blockOf, seed, head, todo, events>>
      /\ DOMAIN pc = Runs /\ DOMAIN cache = Runs
  BY DEF Finish, external, SyncInv, TypeOK
<1>2. CASE NoGap(c, events[p])
  <2>1. cache' = [cache EXCEPT ![p] = d] /\ file' = Torn /\ pc' = [pc EXCEPT ![p] = "writing"]
    BY <1>2 DEF Finish
  <2>2. Good(d)
    <3>1. FetchInv(p) /\ Good(c) /\ head[p] <= height /\ head[p] \in 0 .. MaxHeight
      BY <1>1 DEF SyncInv, TypeOK, RunInv
    <3>2. \A k : ~Awaited(k, todo[p])
      BY <1>1 DEF Awaited
    <3>3. ~setting.lagging => DepositsIn(c.lastBlock + 1, head[p]) \subseteq events[p]
      BY <3>1, <3>2 DEF FetchInv
    <3> QED
      BY <1>2, <3>1, <3>3, ExtendedGood DEF FetchInv, SyncInv
  <2> HIDE DEF d
  <2>3. cache'[p] = d /\ pc'[p] = "writing" /\ d \in Cache
    BY <1>1, <2>1, <2>2 DEF Good, InOrder
  <2>4. TypeOK'
    BY <1>1, <2>1, <2>3 DEF SyncInv, TypeOK
  <2>5. Good(cache[p])'
    BY <1>1, <2>2, <2>3 DEF Good, InOrder, Complete, UpTo, Exact
  <2>6. RunInv(p)'
    BY <1>1, <2>3, <2>5 DEF SyncInv, RunInv
  <2>7. \A q \in Runs : q # p => UNCHANGED <<pc[q], cache[q], head[q], todo[q], events[q]>>
    BY <1>1, <2>1
  <2>8. FileInv'
    BY <2>1 DEF FileInv
  <2> QED
    BY <1>1, <2>4, <2>6, <2>7, <2>8, OneRun DEF external
<1>3. CASE ~NoGap(c, events[p])
  <2>1. pc' = [pc EXCEPT ![p] = "failed"] /\ UNCHANGED <<cache, file>>
    BY <1>3 DEF Finish
  <2>2. TypeOK'
    BY <1>1, <2>1 DEF SyncInv, TypeOK
  <2> QED
    BY <1>1, <2>1, <2>2, EndStep, FileStays DEF external
<1> QED
  BY <1>2, <1>3

LEMMA WriteStep ==
    ASSUME SyncInv, NEW p \in Runs, Write(p)
    PROVE  SyncInv'
<1>1. /\ pc[p] = "writing" /\ pc' = [pc EXCEPT ![p] = "done"]
      /\ UNCHANGED <<external, cache, head, todo, events>>
      /\ file' = cache[p] \/ file' = Torn
  BY DEF Write
<1>2. Good(cache[p]) /\ cache[p] \in Cache
  BY DEF SyncInv, RunInv, TypeOK
<1>3. FileInv'
  <2>1. CASE file' = Torn
    BY <2>1 DEF FileInv
  <2>2. CASE file' = cache[p]
    BY <1>1, <1>2, <2>2 DEF FileInv, Good, InOrder, Complete, UpTo, Exact, external
  <2> QED
    BY <1>1, <2>1, <2>2
<1>4. TypeOK'
  BY <1>1, <1>2 DEF SyncInv, TypeOK, external
<1> QED
  BY <1>1, <1>3, <1>4, EndStep

LEMMA NextSync == SyncInv /\ [Next]_vars => SyncInv'
<1> SUFFICES ASSUME SyncInv, [Next]_vars PROVE SyncInv'
  OBVIOUS
<1>1. CASE Mine \/ WriteSeed \/ EarlierRelease
  BY <1>1, MineStep, WriteSeedStep, EarlierReleaseStep
<1>2. ASSUME NEW p \in Runs, Load(p) \/ LoadFails(p) \/ Finish(p) \/ Write(p) \/ Abort(p)
      PROVE  SyncInv'
  BY <1>2, LoadStep, FailStep, FinishStep, WriteStep
<1>3. ASSUME NEW p \in Runs, NEW h \in 0 .. height, ReadHead(p, h)
      PROVE  SyncInv'
  BY <1>3, ReadHeadStep
<1>4. ASSUME NEW p \in Runs, NEW i \in 1 .. MaxHeight, GetLogs(p, i)
      PROVE  SyncInv'
  BY <1>4, GetLogsStep
<1>5. CASE UNCHANGED vars
  BY <1>5 DEF vars, external, SyncInv, TypeOK, ChainInv, SeedInv, FileInv, RunInv, FetchInv, Awaited,
     DepositsIn, Good, InOrder, Complete, UpTo, Exact
<1> QED
  BY <1>1, <1>2, <1>3, <1>4, <1>5 DEF Next

\* The inductive invariant of syncLeaves: whatever any number of runs read, wait for and
\* write, each holds the deposits in order, and a current one all up to its block.
THEOREM SyncInvariant == Spec => []SyncInv
BY InitSync, NextSync, PTL DEF Spec

-----------------------------------------------------------------------------
(* What a proof needs of the leaves.                                        *)

\* Every variable keeps its type.
THEOREM SyncTypes == Spec => []TypeOK
<1>1. SyncInv => TypeOK
  BY DEF SyncInv
<1> QED
  BY <1>1, SyncInvariant, PTL

LEMMA UsableGood ==
    ASSUME SyncInv, NEW c \in Usable
    PROVE  Good(c)
BY DEF SyncInv, Usable, RunInv, FileInv

\* Leaf k of every finished run, and of the file, is the k-th deposit: whatever nodes leave
\* out, and in whatever order runs read, answer, crash and write.
THEOREM LeavesInOrder == Spec => []LeavesAreDeposits
<1>1. SyncInv => LeavesAreDeposits
  <2> SUFFICES ASSUME SyncInv, NEW c \in Usable, NEW k \in DOMAIN c.leaves
               PROVE  c.leaves[k] = k /\ k <= Len(blockOf)
    BY DEF LeavesAreDeposits
  <2>1. InOrder(c) /\ c \in Cache
    BY UsableGood DEF Good, InOrder
  <2>2. k \in 1 .. Len(c.leaves) /\ Len(c.leaves) \in Nat /\ Len(blockOf) \in Nat
    BY <2>1, CacheFields, Chain DEF SyncInv
  <2> QED
    BY <2>1, <2>2 DEF InOrder
<1> QED
  BY <1>1, SyncInvariant, PTL

\* With up-to-date nodes a cache holds every deposit up to its last block, unless a file of
\* an earlier release, which has no blocks to rewind by, is around.
THEOREM LeavesComplete ==
    ASSUME \A s \in Settings : s.legacy => s.lagging
    PROVE  Spec => []CompleteToLastBlock
<1>1. SyncInv => CompleteToLastBlock
  <2> SUFFICES ASSUME SyncInv, ~setting.lagging, NEW c \in Usable
               PROVE  Len(c.leaves) = Cardinality(DepositsIn(1, c.lastBlock))
    BY DEF CompleteToLastBlock
  <2>1. Exact
    BY DEF SyncInv, ChainInv, Exact
  <2>2. UpTo(Len(c.leaves), c.lastBlock) /\ c.lastBlock \in Nat
    BY <2>1, UsableGood, CacheFields DEF Good, InOrder, Complete
  <2> QED
    BY <2>2, Counted DEF SyncInv
<1> QED
  BY <1>1, SyncInvariant, PTL

=============================================================================
