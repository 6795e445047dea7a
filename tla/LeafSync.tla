------------------------------ MODULE LeafSync ------------------------------
(***************************************************************************)
(* The client's view of a pool's deposits (client/src/merkle.ts): runs of  *)
(* syncLeaves that share one cache file, each resuming from the file or    *)
(* from a tornado-cli seed, rewinding when the file is ahead of the block  *)
(* asked for, and fetching the missing block ranges by parallel            *)
(* eth_getLogs.                                                            *)
(*                                                                         *)
(* A leaf is named by its leafIndex, counted from 1.  A node behind a load *)
(* balancer may answer eth_getLogs from a shorter chain than the one       *)
(* eth_blockNumber came from.  The chain does not reorg.                   *)
(***************************************************************************)
EXTENDS Integers, Sequences, FiniteSets, SequencesExt

CONSTANTS
    Runs,              \* calls of syncLeaves, each by a process of its own
    Chunk, Concurrency,
    NoFile, OtherPool, \* no cache file; that of another instance or chain
    Torn,              \* a file that does not parse
    NoSeed,
    NoBlocks,          \* leafBlocks is undefined
    Settings,          \* lagging: a node may be behind; legacy: the file may be one
                       \* written without leafBlocks
    MaxHeight, MaxDeposits   \* bounds of the instance checked

ASSUME SyncAssumption ==
    /\ Chunk \in Nat \ {0} /\ Concurrency \in Nat \ {0}
    /\ Settings \subseteq [lagging : BOOLEAN, legacy : BOOLEAN]
    /\ MaxHeight \in Nat /\ MaxDeposits \in Nat
    /\ NoFile # OtherPool /\ NoBlocks \notin Seq(0 .. MaxHeight)

VARIABLES
    setting,
    height,            \* the last block
    blockOf,           \* the block of each deposit, in order of leafIndex
    file,
    seed,              \* the leaves of the tornado-cli cache
    pc, cache, head,
    todo,              \* block ranges not answered yet; the first few are in flight
    events             \* leaves fetched

external == <<setting, height, blockOf, seed>>
vars == <<external, file, pc, cache, head, todo, events>>

Cache == [lastBlock : 0 .. MaxHeight,
          leaves : Seq(1 .. MaxDeposits),
          leafBlocks : Seq(0 .. MaxHeight) \cup {NoBlocks}]

\* The instance was deployed in block 1: fromBlock = 1.
Fresh == [lastBlock |-> 0, leaves |-> <<>>, leafBlocks |-> NoBlocks]

TypeOK ==
    /\ setting \in Settings
    /\ height \in 0 .. MaxHeight
    /\ blockOf \in Seq(1 .. MaxHeight)
    /\ file \in Cache \cup {NoFile, OtherPool, Torn}
    /\ seed \in (SUBSET (1 .. MaxDeposits)) \cup {NoSeed}
    /\ pc \in [Runs -> {"idle", "loaded", "fetching", "writing", "done", "failed"}]
    /\ cache \in [Runs -> Cache]
    /\ head \in [Runs -> 0 .. MaxHeight]
    /\ todo \in [Runs -> Seq((1 .. MaxHeight) \X (1 .. MaxHeight))]
    /\ events \in [Runs -> SUBSET (1 .. MaxDeposits)]

Init ==
    /\ setting \in Settings
    /\ height = 0 /\ blockOf = <<>>
    /\ file \in {NoFile, OtherPool}
    /\ seed = NoSeed
    /\ pc = [p \in Runs |-> "idle"]
    /\ cache = [p \in Runs |-> Fresh]
    /\ head = [p \in Runs |-> 0]
    /\ todo = [p \in Runs |-> <<>>]
    /\ events = [p \in Runs |-> {}]

DepositsIn(from, to) == {k \in DOMAIN blockOf : blockOf[k] \in from .. to}

Contiguous(from, S) == S = from + 1 .. from + Cardinality(S)

-----------------------------------------------------------------------------
(* The chain and the files others leave.                                    *)

Mine ==
    /\ height < MaxHeight
    /\ height' = height + 1
    /\ \E n \in 0 .. MaxDeposits - Len(blockOf) :
          blockOf' = blockOf \o [i \in 1 .. n |-> height + 1]
    /\ UNCHANGED <<setting, file, seed, pc, cache, head, todo, events>>

\* tornado-cli's cache holds whole blocks; one of its deposits may be missing.
WriteSeed ==
    /\ seed = NoSeed
    /\ \E b \in 1 .. height :
          \/ seed' = DepositsIn(1, b)
          \/ \E k \in DepositsIn(1, b) : k + 1 \in DepositsIn(1, b) /\ seed' = DepositsIn(1, b) \ {k}
    /\ UNCHANGED <<setting, height, blockOf, file, pc, cache, head, todo, events>>

EarlierRelease ==
    /\ setting.legacy
    /\ \A p \in Runs : pc[p] = "idle"
    /\ file' = [lastBlock |-> height, leaves |-> [k \in DOMAIN blockOf |-> k],
                leafBlocks |-> NoBlocks]
    /\ UNCHANGED <<external, pc, cache, head, todo, events>>

-----------------------------------------------------------------------------
(* syncLeaves.                                                              *)

\* leafCacheFromTornadoCli
leafCacheFromTornadoCli ==
    LET n == Cardinality(seed) IN
    [lastBlock |-> IF n = 0 THEN 0 ELSE blockOf[n],
     leaves |-> [k \in 1 .. n |-> k],
     leafBlocks |-> [k \in 1 .. n |-> blockOf[k]]]

\* A cache file that parses is used or ignored; the seed only when there is no file.
Load(p) ==
    /\ pc[p] = "idle"
    /\ file # Torn
    /\ file = NoFile /\ seed # NoSeed => Contiguous(0, seed)
    /\ cache' = [cache EXCEPT ![p] =
                    CASE file = OtherPool -> Fresh
                      [] file = NoFile -> IF seed = NoSeed THEN Fresh ELSE leafCacheFromTornadoCli
                      [] OTHER -> file]
    /\ pc' = [pc EXCEPT ![p] = "loaded"]
    /\ UNCHANGED <<external, file, head, todo, events>>

\* The file does not parse, or the seed has a gap.
LoadFails(p) ==
    /\ pc[p] = "idle"
    /\ file = Torn \/ (file = NoFile /\ seed # NoSeed /\ ~Contiguous(0, seed))
    /\ pc' = [pc EXCEPT ![p] = "failed"]
    /\ UNCHANGED <<external, file, cache, head, todo, events>>

\* The leaves deposited by block h, as far as leafBlocks tells.
KeptAt(c, h) ==
    CHOOSE keep \in 0 .. Len(c.leafBlocks) :
        /\ \A k \in 1 .. keep : c.leafBlocks[k] <= h
        /\ keep < Len(c.leafBlocks) => c.leafBlocks[keep + 1] > h

\* A rewind that keeps every leaf.
RewindBlockOnly(c, h) == [c EXCEPT !.lastBlock = h]

Rewound(c, h) ==
    LET keep == KeptAt(c, h) IN
    [lastBlock |-> h,
     leaves |-> SubSeq(c.leaves, 1, keep),
     leafBlocks |-> SubSeq(c.leafBlocks, 1, keep)]

\* Whole chunks, the last one past h.
RangesPastHead(last, h) ==
    [i \in 1 .. (h - last + Chunk - 1) \div Chunk |->
        <<last + 1 + (i - 1) * Chunk, last + i * Chunk>>]

\* Blocks after `last` up to h, in chunks.
Ranges(last, h) ==
    LET n == (h - last + Chunk - 1) \div Chunk
        from(i) == last + 1 + (i - 1) * Chunk
    IN [i \in 1 .. n |-> <<from(i), IF from(i) + Chunk - 1 > h THEN h ELSE from(i) + Chunk - 1>>]

\* The head is toBlock, a block there is, or the latest; a cache ahead of it is cut back.
ReadHead(p, h) ==
    /\ pc[p] = "loaded"
    /\ head' = [head EXCEPT ![p] = h]
    /\ IF cache[p].lastBlock <= h
       THEN /\ todo' = [todo EXCEPT ![p] = Ranges(cache[p].lastBlock, h)]
            /\ pc' = [pc EXCEPT ![p] = "fetching"]
            /\ UNCHANGED cache
       ELSE IF cache[p].leafBlocks = NoBlocks
       THEN pc' = [pc EXCEPT ![p] = "failed"] /\ UNCHANGED <<cache, todo>>
       ELSE /\ cache' = [cache EXCEPT ![p] = Rewound(cache[p], h)]
            /\ pc' = [pc EXCEPT ![p] = "fetching"]
            /\ UNCHANGED todo
    /\ UNCHANGED <<external, file, events>>

\* eth_getLogs for one of the ranges in flight; workers take ranges in order.
GetLogs(p, i) ==
    /\ pc[p] = "fetching"
    /\ i \in DOMAIN todo[p] /\ i <= Concurrency
    /\ \E tip \in (IF setting.lagging THEN 0 .. height ELSE {height}) :
          events' = [events EXCEPT ![p] =
                        @ \cup {k \in DepositsIn(todo[p][i][1], todo[p][i][2]) : blockOf[k] <= tip}]
    /\ todo' = [todo EXCEPT ![p] = RemoveAt(@, i)]
    /\ UNCHANGED <<external, file, pc, cache, head>>

\* A file of an earlier release gets its last block as the block of every leaf.
BlocksOf(c) ==
    IF c.leafBlocks = NoBlocks THEN [k \in DOMAIN c.leaves |-> c.lastBlock] ELSE c.leafBlocks

\* No test of the leaf indices.
AnyEvents(c, es) == TRUE

NoGap(c, es) == Contiguous(Len(c.leaves), es)

\* The events in order of leafIndex.
Sorted(es) ==
    CHOOSE s \in [1 .. Cardinality(es) -> es] : \A i, j \in DOMAIN s : i < j => s[i] < s[j]

Extended(c, es, h) ==
    LET new == Sorted(es) IN
    [lastBlock |-> h,
     leaves |-> c.leaves \o new,
     leafBlocks |-> BlocksOf(c) \o [i \in DOMAIN new |-> blockOf[new[i]]]]

\* writeFileSync truncates the file before it writes it.
Finish(p) ==
    /\ pc[p] = "fetching" /\ todo[p] = <<>>
    /\ IF NoGap(cache[p], events[p])
       THEN /\ cache' = [cache EXCEPT ![p] = Extended(cache[p], events[p], head[p])]
            /\ file' = Torn
            /\ pc' = [pc EXCEPT ![p] = "writing"]
       ELSE pc' = [pc EXCEPT ![p] = "failed"] /\ UNCHANGED <<cache, file>>
    /\ UNCHANGED <<external, head, todo, events>>

\* Two writers at once may leave the longer text's tail behind.
Write(p) ==
    /\ pc[p] = "writing"
    /\ \/ file' = cache[p]
       \/ (\E q \in Runs \ {p} : pc[q] = "writing") /\ file' = Torn
    /\ pc' = [pc EXCEPT ![p] = "done"]
    /\ UNCHANGED <<external, cache, head, todo, events>>

\* A request is refused, or the process dies.
Abort(p) ==
    /\ pc[p] \in {"loaded", "fetching", "writing"}
    /\ pc' = [pc EXCEPT ![p] = "failed"]
    /\ UNCHANGED <<external, file, cache, head, todo, events>>

-----------------------------------------------------------------------------

Next ==
    \/ Mine \/ WriteSeed \/ EarlierRelease
    \/ \E p \in Runs : Load(p) \/ LoadFails(p) \/ Finish(p) \/ Write(p) \/ Abort(p)
    \/ \E p \in Runs, h \in 0 .. height : ReadHead(p, h)
    \/ \E p \in Runs, i \in 1 .. MaxHeight : GetLogs(p, i)

Spec == Init /\ [][Next]_vars

-----------------------------------------------------------------------------
(* What a proof needs of the leaves.                                        *)

\* The caches a proof, or a later run, is made from.
Usable ==
    {cache[p] : p \in {q \in Runs : pc[q] = "done"}}
        \cup (IF file \in {NoFile, OtherPool, Torn} THEN {} ELSE {file})

\* "leaf index gap": whatever a node leaves out, in whatever order parallel requests
\* are answered and whoever wrote the file last, leaf k is the k-th deposit.  (A wrong
\* leaf would give a root the pool never knew; a short list is only an older root.)
LeavesAreDeposits ==
    \A c \in Usable : \A k \in DOMAIN c.leaves : c.leaves[k] = k /\ k <= Len(blockOf)

\* "cut back to the leaves deposited by `head`": a cache holds exactly the deposits up
\* to its last block, after any sequence of syncs, rewinds, crashes and shared files, when the
\* nodes that answer are up to date.
CompleteToLastBlock ==
    ~setting.lagging =>
        \A c \in Usable : Len(c.leaves) = Cardinality(DepositsIn(1, c.lastBlock))

=============================================================================
