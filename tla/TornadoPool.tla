----------------------------- MODULE TornadoPool -----------------------------
(***************************************************************************)
(* A tornado-core instance (Tornado, ETHTornado, ERC20Tornado and the      *)
(* MerkleTreeWithHistory they extend): deposits into an incremental Merkle *)
(* tree that remembers one node per level and a ring of recent roots, and  *)
(* withdrawals by zero-knowledge proof against one of those roots.         *)
(*                                                                         *)
(* A hash is the pair it hashes.  The verifier is external: it accepts a   *)
(* proof exactly when the prover knows a commitment among the leaves of    *)
(* the root, and its nullifier.  The zero value of the tree, which can be  *)
(* deposited like any other, is keccak256("tornado") and no one knows a    *)
(* note of it.  A call that reverts is no step, and nonReentrant makes a   *)
(* call one step.                                                          *)
(***************************************************************************)
EXTENDS Integers, FiniteSets, Sequences

CONSTANTS
    Commitments,         \* what may be deposited, the zero value too
    nullifierOf,         \* the nullifier hash a commitment hides; two may share one
    NoRoot,              \* bytes32(0)
    ZeroValue,
    Levels,
    RootHistorySize,     \* 30
    Denomination,
    Fees                 \* fees a withdrawal may name

ASSUME PoolAssumption ==
    /\ IsFiniteSet(Commitments)
    /\ Levels \in Nat \ {0} /\ RootHistorySize \in Nat \ {0}
    /\ Denomination \in Nat \ {0} /\ Fees \subseteq Nat

VARIABLES
    filledSubtrees, roots, currentRootIndex, nextIndex,
    commitments, nullifierHashes,
    pool,              \* what the instance holds of its asset
    leaves             \* the Deposit events, in order of leafIndex

tree == <<filledSubtrees, roots, currentRootIndex, nextIndex>>
vars == <<tree, commitments, nullifierHashes, pool, leaves>>

Height == 0 .. Levels
Ring == 0 .. RootHistorySize - 1
NullifierHashes == {nullifierOf[c] : c \in Commitments}

hashLeftRight(left, right) == <<left, right>>

zeros[i \in Height] == IF i = 0 THEN ZeroValue ELSE hashLeftRight(zeros[i - 1], zeros[i - 1])

Init ==
    /\ filledSubtrees = [i \in 0 .. Levels - 1 |-> zeros[i]]
    /\ roots = [i \in Ring |-> IF i = 0 THEN zeros[Levels - 1] ELSE NoRoot]
    /\ currentRootIndex = 0 /\ nextIndex = 0
    /\ commitments = {} /\ nullifierHashes = {}
    /\ pool = 0
    /\ leaves = <<>>

-----------------------------------------------------------------------------
(* The incremental tree.                                                    *)

\* currentIndex: the index of the node above leaf `index`, level by level.
Ancestor(index) ==
    LET at[i \in Height] == IF i = 0 THEN index ELSE at[i - 1] \div 2
    IN at

\* Is that node a left child?
IsLeft(index, i) == Ancestor(index)[i] % 2 = 0

\* The hashes on the way up from a new leaf, one per level.
PathUp(leaf, index) ==
    LET up[i \in Height] ==
            IF i = 0 THEN leaf
            ELSE IF IsLeft(index, i - 1)
                 THEN hashLeftRight(up[i - 1], zeros[i - 1])
                 ELSE hashLeftRight(filledSubtrees[i - 1], up[i - 1])
    IN up

\* Remembers every node on the way up, right children included.
FillAll(up, index) == [i \in 0 .. Levels - 1 |-> up[i]]

Fill(up, index) ==
    [i \in 0 .. Levels - 1 |-> IF IsLeft(index, i) THEN up[i] ELSE filledSubtrees[i]]

\* A ring that overwrites the root it has just written.
StuckRootIndex == currentRootIndex

NextRootIndex == (currentRootIndex + 1) % RootHistorySize

insert(leaf) ==
    LET up == PathUp(leaf, nextIndex) IN
    /\ nextIndex # 2^Levels
    /\ filledSubtrees' = Fill(up, nextIndex)
    /\ currentRootIndex' = NextRootIndex
    /\ roots' = [roots EXCEPT ![NextRootIndex] = up[Levels]]
    /\ nextIndex' = nextIndex + 1

\* The loop visits every slot of the ring once.
isKnownRoot(root) == root # NoRoot /\ \E i \in Ring : roots[i] = root

-----------------------------------------------------------------------------
(* What the depositors and provers see: the full tree over the Deposit      *)
(* events (client merkle.ts merklePath, with the same zero leaf).           *)

\* The nodes at height h above a list of leaves, as a function of their index.
Layer(s) ==
    LET layer[h \in Height] ==
            [k \in 0 .. 2^(Levels - h) - 1 |->
                IF h = 0 THEN IF k < Len(s) THEN s[k + 1] ELSE ZeroValue
                ELSE hashLeftRight(layer[h - 1][2 * k], layer[h - 1][2 * k + 1])]
    IN layer

RootOf(s) == Layer(s)[Levels][0]

\* That of the tree when it had n leaves.
RootOver(n) == RootOf(SubSeq(leaves, 1, n))

\* No one knows of an input that hashes to zero, or to the zero value.
ASSUME HashAssumption ==
    /\ \A c, d \in Commitments \cup {ZeroValue} : hashLeftRight(c, d) # ZeroValue
    /\ \A n \in 1 .. 2^Levels : \A s \in [1 .. n -> Commitments] : RootOf(s) # NoRoot

LeavesOf(n) == {leaves[k] : k \in 1 .. n}

-----------------------------------------------------------------------------

deposit(c) ==
    /\ c \notin commitments
    /\ insert(c)
    /\ commitments' = commitments \cup {c}
    /\ pool' = pool + Denomination
    /\ leaves' = Append(leaves, c)
    /\ UNCHANGED nullifierHashes

\* A fee on top of the denomination.
PayFeeOnTop(fee) == pool' = pool - Denomination - fee

\* The recipient gets the denomination less the fee, the relayer the fee.
processWithdraw(fee) == pool' = pool - (Denomination - fee) - fee

\* A withdrawal that forgets which note it paid.
PayAgain(h) == UNCHANGED nullifierHashes

SpendNullifier(h) == nullifierHashes' = nullifierHashes \cup {h}

\* With a proof made when the tree had n leaves.
withdraw(c, n, fee) ==
    /\ fee <= Denomination
    /\ nullifierOf[c] \notin nullifierHashes
    /\ isKnownRoot(RootOver(n))
    /\ c \in LeavesOf(n) /\ c # ZeroValue
    /\ SpendNullifier(nullifierOf[c])
    /\ processWithdraw(fee)
    /\ UNCHANGED <<tree, commitments, leaves>>

Next ==
    \/ \E c \in Commitments : deposit(c)
    \/ \E c \in Commitments, n \in 1 .. nextIndex, fee \in Fees : withdraw(c, n, fee)

Spec == Init /\ [][Next]_vars

-----------------------------------------------------------------------------
(* What depositors rely on.                                                 *)

TypeOK ==
    /\ DOMAIN filledSubtrees = 0 .. Levels - 1 /\ DOMAIN roots = Ring
    /\ currentRootIndex \in Ring
    /\ nextIndex \in 0 .. 2^Levels
    /\ commitments \in SUBSET Commitments
    /\ nullifierHashes \in SUBSET NullifierHashes
    /\ pool \in Nat
    /\ leaves \in Seq(Commitments)

\* _insert touches one path and keeps one node per level: the root it arrives at is
\* that of the whole tree, the one the client computes from the Deposit events.
RootMatchesLeaves ==
    nextIndex > 0 => roots[currentRootIndex] = RootOver(nextIndex)

\* The last deposit that wrote the root the tree had with n leaves: depositing the zero
\* value makes a leaf of an empty place and writes the same root again.
LastWritten(n) == IF n < nextIndex /\ leaves[n + 1] = ZeroValue THEN n + 1 ELSE n

\* "Make sure to use a recent one": a proof stays good for exactly the ROOT_HISTORY_SIZE - 1
\* deposits after the last that wrote its root, however the ring wraps: one deposit longer
\* if the zero value is deposited next, and at no other time (MerkleTreeWithHistory.sol).
KnownRootsAreRecent ==
    \A n \in 1 .. nextIndex :
        isKnownRoot(RootOver(n)) <=> LastWritten(n) > nextIndex - RootHistorySize

UnspentNotes == {nullifierOf[c] : c \in commitments} \ nullifierHashes

\* "to prevent double spends": the pool can pay every note that is not spent, and has
\* paid each note once, whichever roots and proofs were used.
Solvent ==
    /\ pool = Denomination * (nextIndex - Cardinality(nullifierHashes))
    /\ pool >= Denomination * Cardinality(UnspentNotes)

\* Seen from outside the tree, its ring and its proofs are a set of notes: the leaves of the
\* events, each paid at most once, out of what the pool holds (Tornado.sol deposit, withdraw).
Notes == INSTANCE NotePool WITH
    deposited <- LeavesOf(nextIndex), spent <- nullifierHashes, holdings <- pool

ImplementsNotePool == Notes!Spec

=============================================================================
