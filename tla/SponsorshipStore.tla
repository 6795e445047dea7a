-------------------------- MODULE SponsorshipStore --------------------------
(***************************************************************************)
(* The store of live sponsorships (service.ts SponsorshipStore and         *)
(* MemorySponsorshipStore, store.ts FileSponsorshipStore), as operators on *)
(* a store value: a function from note (nullifier hash) to the entry held  *)
(* for it, or NoEntry.  The file of the file store is a value of the same  *)
(* shape.  Each operator is one synchronous method of the class; the       *)
(* service keeps the store in a variable and applies them.                 *)
(*                                                                         *)
(* The fields `sender` and `nonce` of an entry are never read back and are *)
(* left out.                                                               *)
(***************************************************************************)
EXTENDS Integers, FiniteSets, Functions

CONSTANTS
    Notes,         \* nullifier hashes
    Tokens,        \* identities of the requests that may hold an entry
    NoEntry,       \* "the map has no such key"
    UnknownCost    \* maxGasCostWei absent: written by a release without budget

Costs == Nat \cup {UnknownCost}

Entries == [validUntil : Nat, status : {"pending", "signed"},
            token : Tokens, maxGasCostWei : Costs]

Stores == [Notes -> Entries \cup {NoEntry}]
Files == [Notes -> {e \in Entries : e.status = "signed"} \cup {NoEntry}]

ASSUME NoEntryAssumption == NoEntry \notin Entries
ASSUME UnknownCostAssumption == UnknownCost \notin Nat

EmptyStore == [n \in Notes |-> NoEntry]

Held(store, n) == store[n] # NoEntry

HeldBy(store, n, t) == Held(store, n) /\ store[n].token = t

\* An entry counts until its last second has passed (validUntil < now drops it).
LiveAt(entry, now) == entry # NoEntry /\ entry.validUntil >= now

-----------------------------------------------------------------------------
(* reserve: the caller checks Held first and is refused if it is TRUE.      *)

ReserveEntry(store, n, until, cost, t) ==
    [store EXCEPT ![n] = [validUntil |-> until, status |-> "pending",
                          token |-> t, maxGasCostWei |-> cost]]

\* commit, once the durable write has succeeded.
SignedBy(entry) == [entry EXCEPT !.status = "signed"]

CommitEntry(store, n) == [store EXCEPT ![n] = SignedBy(store[n])]

\* A failing request that keeps its reservation.
ReleaseNothing(store, n, t) == store

ReleaseEntry(store, n, t) ==
    IF HeldBy(store, n, t) /\ store[n].status = "pending"
    THEN [store EXCEPT ![n] = NoEntry]
    ELSE store

Prune(store, now) ==
    [n \in Notes |-> IF LiveAt(store[n], now) THEN store[n] ELSE NoEntry]

-----------------------------------------------------------------------------
(* The deposit budget.                                                      *)

Outstanding(store, now) == {n \in Notes : LiveAt(store[n], now)}

CostsKnown(store, now) ==
    \A n \in Outstanding(store, now) : store[n].maxGasCostWei # UnknownCost

CommittedGasCost(store, now) ==
    SumFunctionOnSet([n \in Outstanding(store, now) |->
                         IF store[n].maxGasCostWei = UnknownCost
                         THEN 0 ELSE store[n].maxGasCostWei],
                     Outstanding(store, now))

-----------------------------------------------------------------------------
(* The file: only signed entries are ever written, and the whole file is    *)
(* replaced by a rename, so a write either happens or does not.             *)

SignedEntries(store) ==
    [n \in Notes |-> IF Held(store, n) /\ store[n].status = "signed"
                     THEN store[n] ELSE NoEntry]

\* A write that records only the new entry and forgets those already signed.
PersistOnlyNew(store, n) == [EmptyStore EXCEPT ![n] = SignedBy(store[n])]

\* A write of the whole map, pending reservations included.
PersistAll(store, n) == CommitEntry(store, n)

PersistSigned(store, n) == [SignedEntries(store) EXCEPT ![n] = SignedBy(store[n])]

\* A restart that does not read the file.
LoadNothing(file, now) == EmptyStore

\* The constructor: signed entries that have not expired.
Load(file, now) == Prune(SignedEntries(file), now)

=============================================================================
