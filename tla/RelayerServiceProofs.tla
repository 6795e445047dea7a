------------------------ MODULE RelayerServiceProofs ------------------------
(***************************************************************************)
(* Proofs about RelayerService for any requests, notes, costs and bounds.  *)
(***************************************************************************)
EXTENDS RelayerService, ArithmeticTheorems

-----------------------------------------------------------------------------
(* The store operators.                                                     *)

\* What an entry is made of.
LEMMA EntryTyped ==
    ASSUME NEW until \in Nat, NEW c \in Costs, NEW t \in Tokens,
           NEW s \in {"pending", "signed"}
    PROVE  [validUntil |-> until, status |-> s, token |-> t, maxGasCostWei |-> c] \in Entries
BY DEF Entries

\* reserve keeps a store a store.
LEMMA ReserveTyped ==
    ASSUME NEW st \in Stores, NEW n \in Notes, NEW until \in Nat, NEW c \in Costs,
           NEW t \in Tokens
    PROVE  ReserveEntry(st, n, until, c, t) \in Stores
BY EntryTyped DEF ReserveEntry, Stores

\* prune keeps a store a store, and a file a file.
LEMMA PruneTyped ==
    ASSUME NEW st \in Stores, NEW t \in Nat
    PROVE  /\ Prune(st, t) \in Stores
           /\ st \in Files => Prune(st, t) \in Files
BY DEF Prune, Stores, Files, LiveAt

\* release keeps a store a store.
LEMMA ReleaseTyped ==
    ASSUME NEW st \in Stores, NEW n \in Notes, NEW t \in Tokens
    PROVE  ReleaseEntry(st, n, t) \in Stores
BY DEF ReleaseEntry, Stores

\* An entry marked signed is a signed entry.
LEMMA SignedByTyped ==
    ASSUME NEW e \in Entries
    PROVE  SignedBy(e) \in Entries /\ SignedBy(e).status = "signed"
BY DEF SignedBy, Entries

\* A commit keeps the store a store and writes a file.
LEMMA CommitTyped ==
    ASSUME NEW st \in Stores, NEW n \in Notes, Held(st, n)
    PROVE  /\ CommitEntry(st, n) \in Stores
           /\ PersistSigned(st, n) \in Files
<1>1. st[n] \in Entries
  BY DEF Stores, Held
<1>2. SignedEntries(st) \in Files
  BY DEF SignedEntries, Stores, Files, Held
<1> QED
  BY <1>1, <1>2, SignedByTyped DEF CommitEntry, PersistSigned, Stores, Files

\* The loaded store, written back, is a file.
LEMMA LoadTyped ==
    ASSUME NEW f \in Files, NEW t \in Nat
    PROVE  Load(f, t) \in Stores /\ Load(f, t) \in Files
<1>1. f \in Stores
  BY DEF Files, Stores
<1>2. SignedEntries(f) \in Files /\ SignedEntries(f) \in Stores
  BY <1>1 DEF SignedEntries, Stores, Files, Held
<1> QED
  BY <1>2, PruneTyped DEF Load

-----------------------------------------------------------------------------
(* Types.                                                                   *)

\* Requests past their arrival name a note; one that never arrived does not.
RequestNotes == \A r \in Requests : pc[r] # "new" => note[r] \in Notes

LEMMA InitTypes == Init => TypeOK /\ RequestNotes
<1> SUFFICES ASSUME Init PROVE TypeOK /\ RequestNotes
  OBVIOUS
<1> USE ServiceAssumption
<1>1. file \in Files
  <2>1. \A r \in LegacyRequests : LegacyEntry(r) \in Entries /\ LegacyEntry(r).status = "signed"
    BY DEF LegacyEntry, Entries, Costs
  <2> QED
    BY <2>1 DEF Init, Files
<1>2. store \in Stores
  BY DEF Init, EmptyStore, Stores
<1>3. cost \in [Requests -> Nat] /\ deposit \in Nat
  BY DEF Init
<1>4. note \in [Requests -> Notes \cup {None}] /\ RequestNotes
  BY DEF Init, RequestNotes
<1> QED
  BY <1>1, <1>2, <1>3, <1>4 DEF Init, TypeOK, Running, Checking, Ended

\* A step of a handler keeps the types.
LEMMA HandleTypes ==
    ASSUME TypeOK, RequestNotes, NEW r \in Requests, Handle(r)
    PROVE  TypeOK' /\ RequestNotes'
<1> USE ServiceAssumption
<1>1. pc[r] # "new" => note[r] \in Notes
  BY DEF RequestNotes
<1>2. Prune(store, now) \in Stores
  BY PruneTyped DEF TypeOK
<1>3. CASE RefuseFee(r)
  BY <1>3 DEF TypeOK, RequestNotes, RefuseFee, Goto, process, chain, Ended, Running
<1>4. CASE ReserveNote(r)
  <2>1. now + SignatureTtlSec \in Nat /\ cost[r] \in Costs /\ note[r] \in Notes
    BY <1>1, <1>4 DEF TypeOK, Costs, ReserveNote, Goto
  <2>2. store' \in Stores
    BY <1>2, <1>4, <2>1, ReserveTyped DEF ReserveNote
  <2> QED
    BY <1>4, <2>2 DEF TypeOK, RequestNotes, ReserveNote, Goto, process, chain, Running, Checking
<1>5. CASE RefuseHeldNote(r)
  BY <1>2, <1>5 DEF TypeOK, RequestNotes, RefuseHeldNote, Goto, process, chain, Running, Ended
<1>6. ASSUME pc[r] # "new", Refuse(r)
      PROVE  TypeOK' /\ RequestNotes'
  <2>1. store' \in Stores
    BY <1>1, <1>6, ReleaseTyped DEF TypeOK, Refuse
  <2> QED
    BY <1>6, <2>1 DEF TypeOK, RequestNotes, Refuse, process, chain, Ended
<1>7. CASE CheckFails(r)
  BY <1>6, <1>7 DEF CheckFails, Checking
<1>8. CASE RefuseBudget(r)
  BY <1>6, <1>8 DEF RefuseBudget
<1>9. CASE ResolveSenderImplementation(r)
  BY <1>9 DEF TypeOK, RequestNotes, ResolveSenderImplementation, Goto, process, chain, Running, Checking
<1>10. CASE ReadDeposit(r)
  BY <1>10 DEF TypeOK, RequestNotes, ReadDeposit, Goto, process, chain, Running, Checking
<1>11. CASE AssertDepositCovers(r)
  BY <1>11 DEF TypeOK, RequestNotes, AssertDepositCovers, Goto, process, chain, Running, Checking
<1>12. CASE AssertRegistrationCurrent(r)
  BY <1>12 DEF TypeOK, RequestNotes, AssertRegistrationCurrent, Goto, process, chain, Running, Checking
<1>13. CASE AssertWithdrawSimulates(r)
  BY <1>13 DEF TypeOK, RequestNotes, AssertWithdrawSimulates, Goto, process, chain, Running, Checking
<1>14. CASE AssertBundlerSimulates(r)
  BY <1>14 DEF TypeOK, RequestNotes, AssertBundlerSimulates, Goto, process, chain, Running, Checking
<1>17. CASE HashFails(r)
  BY <1>17 DEF TypeOK, RequestNotes, HashFails, Goto, process, chain, Ended
<1>15. CASE Commit(r)
  <2>1. note[r] \in Notes /\ Held(store, note[r])
    BY <1>1, <1>15 DEF Commit, Goto, HeldBy
  <2>2. store' \in Stores /\ file' \in Files
    BY <1>15, <2>1, CommitTyped DEF Commit, TypeOK
  <2> QED
    BY <1>15, <2>2 DEF TypeOK, RequestNotes, Commit, Goto, process, chain, Running
<1>16. CASE Reply(r)
  BY <1>16 DEF TypeOK, RequestNotes, Reply, Goto, process, chain, Ended
<1> QED
  BY <1>3, <1>4, <1>5, <1>7, <1>8, <1>9, <1>10, <1>11, <1>12, <1>13, <1>14, <1>15, <1>16, <1>17
  DEF Handle

\* Every step keeps the types.
LEMMA NextTypes == TypeOK /\ RequestNotes /\ [Next]_vars => TypeOK' /\ RequestNotes'
<1> SUFFICES ASSUME TypeOK, RequestNotes, [Next]_vars
             PROVE  TypeOK' /\ RequestNotes'
  OBVIOUS
<1> USE ServiceAssumption
<1>1. ASSUME NEW r \in Requests, NEW n \in Notes, NEW c \in GasCosts, Arrive(r, n, c)
      PROVE  TypeOK' /\ RequestNotes'
  BY <1>1 DEF TypeOK, RequestNotes, Arrive, Goto, process, chain, Running
<1>2. ASSUME NEW r \in Requests, Handle(r)
      PROVE  TypeOK' /\ RequestNotes'
  BY <1>2, HandleTypes
<1>3. CASE Status
  BY <1>3, PruneTyped DEF TypeOK, RequestNotes, Status, process, local, chain
<1>4. CASE Crash
  <2>1. store' \in Stores
    BY <1>4 DEF Crash, EmptyStore, Stores
  <2>2. pc' \in [Requests -> Running \cup Ended \cup {"new"}]
    BY <1>4 DEF Crash, TypeOK, Ended
  <2>3. \A r \in Requests : pc'[r] = "new" <=> pc[r] = "new"
    BY <1>4 DEF Crash, TypeOK, Running, Checking, Granted
  <2>4. RequestNotes'
    BY <1>4, <2>3 DEF RequestNotes, Crash
  <2>5. seen' = [r \in Requests |-> 0] /\ crashes' = crashes + 1 /\ up' = FALSE
    BY <1>4 DEF Crash
  <2>6. UNCHANGED <<now, file, note, cost, since, deposit, outcome, spentBy, registered, moves>>
    BY <1>4 DEF Crash, chain
  <2>7. up' \in BOOLEAN
    BY <2>5
  <2>8. crashes' \in Nat /\ seen' \in [Requests -> Nat]
    BY <2>5 DEF TypeOK
  <2>9. TypeOK'
    BY <2>1, <2>2, <2>6, <2>7, <2>8 DEF TypeOK
  <2> QED
    BY <2>4, <2>9
<1>5. CASE Start
  BY <1>5, LoadTyped DEF TypeOK, RequestNotes, Start, local, chain
<1>6. CASE Tick
  BY <1>6 DEF TypeOK, RequestNotes, Tick, process, local, chain
<1>7. ASSUME NEW r \in Requests, NEW c \in GasCosts, Land(r, c)
      PROVE  TypeOK' /\ RequestNotes'
  <2>1. deposit' \in Nat
    BY <1>7 DEF Land, TypeOK
  <2>2. outcome' \in [Requests -> {"none", "withdrawn", "noteSpent", "notRegistered"}]
    BY <1>7 DEF Land, TypeOK
  <2>3. spentBy' \in [Notes -> Requests \cup {None, Elsewhere}]
    BY <1>7 DEF Land, TypeOK
  <2> QED
    BY <1>7, <2>1, <2>2, <2>3 DEF TypeOK, RequestNotes, Land, process, local
<1>8. ASSUME NEW c \in GasCosts, TopUp(c)
      PROVE  TypeOK' /\ RequestNotes'
  BY <1>8 DEF TypeOK, RequestNotes, TopUp, process, local
<1>9. ASSUME NEW n \in Notes, SpendElsewhere(n)
      PROVE  TypeOK' /\ RequestNotes'
  BY <1>9 DEF TypeOK, RequestNotes, SpendElsewhere, process, local
<1>10. CASE MoveRegistration
  BY <1>10 DEF TypeOK, RequestNotes, MoveRegistration, process, local
<1>11. CASE UNCHANGED vars
  BY <1>11 DEF TypeOK, RequestNotes, vars, process, local, chain
<1> QED
  BY <1>1, <1>2, <1>3, <1>4, <1>5, <1>6, <1>7, <1>8, <1>9, <1>10, <1>11 DEF Next

\* Type correctness: every reachable state of the service, whatever its
\* requests, notes and bounds, has the shape TypeOK names; in particular the
\* file only ever holds signed entries and the deposit is never overdrawn.
THEOREM TypeCorrect == Spec => []TypeOK
<1>1. Init => TypeOK /\ RequestNotes
  BY InitTypes
<1>2. TypeOK /\ RequestNotes /\ [Next]_vars => TypeOK' /\ RequestNotes'
  BY NextTypes
<1> QED
  BY <1>1, <1>2, PTL DEF Spec

-----------------------------------------------------------------------------
(* The invariant.  Mutual exclusion on a note is not inductive: it rests on  *)
(* who owns the entries in memory and on disk, and on every unexpired grant  *)
(* being in both.                                                            *)

\* The entry request r owns, once it has reserved.
EntryOf(r, status) ==
    [validUntil |-> validUntil(r), status |-> status, token |-> r,
     maxGasCostWei |-> IF r \in LegacyRequests THEN UnknownCost ELSE cost[r]]

\* Requests that may hold a reservation: being checked, or ended without giving it back.
Holding == Checking \cup {"failed"}

\* An entry in memory belongs to a request for that note: one that may hold a reservation
\* if it is pending, one that was granted if it is signed.
StoreOwned ==
    \A n \in Notes : Held(store, n) =>
        /\ note[store[n].token] = n
        /\ store[n] = EntryOf(store[n].token, store[n].status)
        /\ store[n].status = "pending" => pc[store[n].token] \in Holding
        /\ store[n].status = "signed" => pc[store[n].token] \in Granted

\* An entry on disk belongs to a granted request for that note.
FileOwned ==
    \A n \in Notes : Held(file, n) =>
        /\ note[file[n].token] = n
        /\ file[n] = EntryOf(file[n].token, "signed")
        /\ pc[file[n].token] \in Granted

\* An unexpired grant is on disk, and in memory while the process runs.
GrantRecorded ==
    \A r \in Requests :
        pc[r] \in Granted /\ validUntil(r) >= now =>
            /\ HeldBy(file, note[r], r)
            /\ up => HeldBy(store, note[r], r)

\* A process that is down holds nothing and runs nothing.
DownIsEmpty == ~up => store = EmptyStore /\ \A r \in Requests : pc[r] \notin Running

\* The signatures of the earlier release are out from the start.
LegacyIssued == \A r \in LegacyRequests : pc[r] = "issued"

Inv ==
    /\ TypeOK
    /\ RequestNotes
    /\ StoreOwned
    /\ FileOwned
    /\ GrantRecorded
    /\ DownIsEmpty
    /\ LegacyIssued

\* The invariant without the types, which NextTypes has dealt with.
Owners == StoreOwned /\ FileOwned /\ GrantRecorded /\ DownIsEmpty /\ LegacyIssued

\* The owner of an entry, and its note, are what their types say.
LEMMA EntryFacts ==
    ASSUME NEW st \in Stores, NEW n \in Notes, Held(st, n)
    PROVE  /\ st[n] \in Entries
           /\ st[n].token \in Requests
           /\ st[n].status \in {"pending", "signed"}
           /\ st[n].validUntil \in Nat
BY ServiceAssumption DEF Stores, Held, Entries

\* A file is a store of signed entries.
LEMMA FileFacts ==
    ASSUME NEW f \in Files
    PROVE  f \in Stores /\ \A n \in Notes : Held(f, n) => f[n].status = "signed"
BY DEF Files, Stores, Held

LEMMA InitOwners == Init => Owners
<1> SUFFICES ASSUME Init PROVE Owners
  OBVIOUS
<1> USE ServiceAssumption
<1>1. StoreOwned /\ DownIsEmpty /\ LegacyIssued
  <2>1. \A n \in Notes : ~Held(store, n)
    BY DEF Init, EmptyStore, Held
  <2>2. \A r \in Requests : pc[r] \notin Running
    BY DEF Init, Running, Checking
  <2> QED
    BY <2>1, <2>2 DEF Init, StoreOwned, DownIsEmpty, LegacyIssued
<1>2. FileOwned
  <2> SUFFICES ASSUME NEW n \in Notes, Held(file, n)
               PROVE  /\ note[file[n].token] = n
                      /\ file[n] = EntryOf(file[n].token, "signed")
                      /\ pc[file[n].token] \in Granted
    BY DEF FileOwned
  <2>1. file[n] # NoEntry /\ note[file[n].token] = n
    BY DEF Init, Held
  <2>2. PICK r \in LegacyRequests : file[n] = LegacyEntry(r)
    BY <2>1 DEF Init
  <2>3. file[n].token = r /\ file[n] = EntryOf(r, "signed")
    BY <2>2 DEF LegacyEntry, EntryOf, validUntil, Init
  <2> QED
    BY <2>1, <2>3 DEF Init, Granted
<1>3. GrantRecorded
  <2> SUFFICES ASSUME NEW r \in Requests, pc[r] \in Granted
               PROVE  HeldBy(file, note[r], r) /\ ~up
    BY DEF GrantRecorded
  <2>1. r \in LegacyRequests
    BY DEF Init, Granted
  <2>2. file[note[r]] = LegacyEntry(r)
    BY <2>1 DEF Init
  <2>3. note[r] \in Notes /\ LegacyEntry(r) \in Entries
    BY <2>1 DEF Init, LegacyEntry, Entries, Costs
  <2>4. LegacyEntry(r).token = r /\ LegacyEntry(r) # NoEntry
    BY <2>3, NoEntryAssumption DEF LegacyEntry
  <2>5. ~up
    BY DEF Init
  <2> QED
    BY <2>2, <2>4, <2>5 DEF HeldBy, Held
<1> QED
  BY <1>1, <1>2, <1>3 DEF Owners

\* A handler step that leaves both stores alone and moves between awaits,
\* from the price to a refusal, or from the reply to the response.
LEMMA QuietOwners ==
    ASSUME Inv, NEW r \in Requests, NEW q,
           pc' = [pc EXCEPT ![r] = q],
           \/ pc[r] \in Checking /\ q \in Holding
           \/ pc[r] = "pricing" /\ q = "refused"
           \/ pc[r] = "replying" /\ q = "issued",
           UNCHANGED <<now, up, store, file, note, cost, since>>
    PROVE  Owners'
<1> USE ServiceAssumption
<1>1. pc[r] \in Running
  BY DEF Running
<1>2. \A s \in Requests : /\ pc[s] \in Holding => pc'[s] \in Holding
                          /\ pc[s] \in Granted <=> pc'[s] \in Granted
                          /\ s # r => pc'[s] = pc[s]
  BY DEF Inv, TypeOK, Checking, Holding, Granted
<1>3. store \in Stores /\ file \in Stores
  BY FileFacts DEF Inv, TypeOK
<1>4. StoreOwned'
  BY <1>2, <1>3, EntryFacts DEF Inv, StoreOwned, EntryOf, validUntil, Held
<1>5. FileOwned'
  BY <1>2, <1>3, EntryFacts DEF Inv, FileOwned, EntryOf, validUntil, Held
<1>6. GrantRecorded'
  BY <1>2 DEF Inv, GrantRecorded, HeldBy, Held, validUntil
<1>7. DownIsEmpty'
  BY <1>1 DEF Inv, DownIsEmpty
<1>8. LegacyIssued'
  BY <1>1 DEF Inv, LegacyIssued, Running, Checking
<1> QED
  BY <1>4, <1>5, <1>6, <1>7, <1>8 DEF Owners

\* A step that leaves the requests and both stores alone, and lets no time run back.
LEMMA OutsideOwners ==
    ASSUME Inv, now' \in Nat, now' >= now,
           UNCHANGED <<up, store, file, pc, note, cost, since>>
    PROVE  Owners'
<1> USE ServiceAssumption
<1>1. StoreOwned' /\ FileOwned' /\ DownIsEmpty' /\ LegacyIssued'
  BY DEF Inv, StoreOwned, FileOwned, DownIsEmpty, LegacyIssued, EntryOf, validUntil, Held
<1>2. \A r \in Requests : validUntil(r)' = validUntil(r) /\ validUntil(r) \in Nat
  BY DEF Inv, TypeOK, validUntil
<1>3. GrantRecorded'
  BY <1>2 DEF Inv, TypeOK, GrantRecorded, HeldBy, Held
<1> QED
  BY <1>1, <1>3 DEF Owners

\* prune drops expired entries and keeps the others as they are.
LEMMA PruneKeeps ==
    ASSUME NEW st, NEW t, NEW n \in Notes
    PROVE  /\ LiveAt(st[n], t) => Prune(st, t)[n] = st[n]
           /\ Held(Prune(st, t), n) => Prune(st, t)[n] = st[n] /\ Held(st, n)
BY DEF Prune, LiveAt, Held

\* An unexpired grant's entry is live, in memory and on disk.
LEMMA GrantLive ==
    ASSUME Inv, NEW r \in Requests, pc[r] \in Granted, validUntil(r) >= now
    PROVE  /\ note[r] \in Notes
           /\ HeldBy(file, note[r], r) /\ LiveAt(file[note[r]], now)
           /\ up => HeldBy(store, note[r], r) /\ LiveAt(store[note[r]], now)
<1>1. note[r] \in Notes
  BY DEF Inv, RequestNotes, Granted
<1>2. HeldBy(file, note[r], r) /\ (up => HeldBy(store, note[r], r))
  BY DEF Inv, GrantRecorded
<1>3. file[note[r]].validUntil = validUntil(r)
  <2>1. file[note[r]] = EntryOf(r, "signed")
    BY <1>1, <1>2 DEF Inv, FileOwned, HeldBy
  <2> QED
    BY <2>1 DEF EntryOf
<1>4. up => store[note[r]].validUntil = validUntil(r)
  <2>1. up => store[note[r]] = EntryOf(r, store[note[r]].status)
    BY <1>1, <1>2 DEF Inv, StoreOwned, HeldBy
  <2> QED
    BY <2>1 DEF EntryOf
<1> QED
  BY <1>1, <1>2, <1>3, <1>4 DEF HeldBy, Held, LiveAt

LEMMA ArriveOwners ==
    ASSUME Inv, NEW r \in Requests, NEW n \in Notes, NEW c \in GasCosts, Arrive(r, n, c)
    PROVE  Owners'
<1> USE ServiceAssumption
<1>1. pc[r] = "new" /\ r \notin LegacyRequests
  BY DEF Arrive, Goto, Inv, LegacyIssued
<1>2. \A s \in Requests : s # r => pc'[s] = pc[s] /\ note'[s] = note[s] /\ cost'[s] = cost[s]
  BY DEF Arrive, Goto, Inv, TypeOK
<1>3. pc'[r] = "pricing"
  BY DEF Arrive, Goto, Inv, TypeOK
<1>4. UNCHANGED <<now, up, store, file, since>>
  BY DEF Arrive, process
<1>5. store \in Stores /\ file \in Stores
  BY FileFacts DEF Inv, TypeOK
<1>6. StoreOwned'
  <2> SUFFICES ASSUME NEW m \in Notes, Held(store, m)
               PROVE  LET s == store[m].token IN
                      /\ note'[s] = m
                      /\ store[m] = EntryOf(s, store[m].status)'
                      /\ store[m].status = "pending" => pc'[s] \in Holding
                      /\ store[m].status = "signed" => pc'[s] \in Granted
    BY <1>4 DEF StoreOwned, Held, EntryOf, validUntil
  <2> DEFINE s == store[m].token
  <2>1. s \in Requests /\ store[m].status \in {"pending", "signed"}
    BY <1>5, EntryFacts
  <2>2. s # r
    BY <1>1, <2>1 DEF Inv, StoreOwned, Checking, Holding, Granted
  <2> QED
    BY <1>2, <1>4, <2>1, <2>2 DEF Inv, StoreOwned, EntryOf, validUntil
<1>7. FileOwned'
  <2> SUFFICES ASSUME NEW m \in Notes, Held(file, m)
               PROVE  LET s == file[m].token IN
                      /\ note'[s] = m
                      /\ file[m] = EntryOf(s, "signed")'
                      /\ pc'[s] \in Granted
    BY <1>4 DEF FileOwned, Held, EntryOf, validUntil
  <2> DEFINE s == file[m].token
  <2>1. s \in Requests
    BY <1>5, EntryFacts
  <2>2. s # r
    BY <1>1 DEF Inv, FileOwned, Granted
  <2> QED
    BY <1>2, <1>4, <2>1, <2>2 DEF Inv, FileOwned, EntryOf, validUntil
<1>8. GrantRecorded'
  BY <1>2, <1>3, <1>4 DEF Inv, GrantRecorded, HeldBy, Held, validUntil, Granted
<1>9. DownIsEmpty' /\ LegacyIssued'
  BY <1>1, <1>2, <1>4 DEF Inv, DownIsEmpty, LegacyIssued, Arrive
<1> QED
  BY <1>6, <1>7, <1>8, <1>9 DEF Owners

\* A step of the running process that only drops entries from memory, none of
\* them an unexpired grant, and no request whose pending entry remains.
LEMMA DropOwners ==
    ASSUME Inv, up, store' \in Stores,
           UNCHANGED <<now, up, file, note, cost, since>>,
           \A n \in Notes : Held(store, n)' =>
               /\ Held(store, n) /\ store'[n] = store[n]
               /\ store[n].status = "pending" => pc'[store[n].token] \in Holding,
           \A s \in Requests : pc[s] \in Granted /\ validUntil(s) >= now =>
               HeldBy(store, note[s], s)',
           \A s \in Requests : /\ pc'[s] \in Granted <=> pc[s] \in Granted
                               /\ pc[s] = "issued" => pc'[s] = "issued"
    PROVE  Owners'
<1> USE ServiceAssumption
<1>1. store \in Stores /\ file \in Stores
  BY FileFacts DEF Inv, TypeOK
<1>2. StoreOwned'
  <2> SUFFICES ASSUME NEW n \in Notes, Held(store, n)'
               PROVE  LET s == store[n].token IN
                      /\ note[s] = n
                      /\ store[n] = EntryOf(s, store[n].status)
                      /\ store[n].status = "pending" => pc'[s] \in Holding
                      /\ store[n].status = "signed" => pc'[s] \in Granted
    BY DEF StoreOwned, Held, EntryOf, validUntil
  <2>1. Held(store, n) /\ store[n].token \in Requests
    BY <1>1, EntryFacts
  <2> QED
    BY <2>1 DEF Inv, StoreOwned
<1>3. FileOwned'
  BY <1>1, EntryFacts DEF Inv, FileOwned, Held, EntryOf, validUntil
<1>4. GrantRecorded'
  BY DEF Inv, GrantRecorded, HeldBy, Held, validUntil
<1>5. DownIsEmpty' /\ LegacyIssued'
  BY DEF Inv, DownIsEmpty, LegacyIssued
<1> QED
  BY <1>2, <1>3, <1>4, <1>5 DEF Owners

\* A prune keeps every unexpired grant in memory.
LEMMA PruneKeepsGrants ==
    ASSUME Inv, up, NEW s \in Requests, pc[s] \in Granted, validUntil(s) >= now
    PROVE  HeldBy(Prune(store, now), note[s], s)
BY GrantLive, PruneKeeps DEF HeldBy, Held

LEMMA StatusOwners ==
    ASSUME Inv, Status
    PROVE  Owners'
<1>1. store' = Prune(store, now) /\ store' \in Stores /\ up
  BY PruneTyped DEF Status, Inv, TypeOK
<1>2. UNCHANGED <<now, up, file, pc, note, cost, since>>
  BY DEF Status, process, local
<1>3. \A n \in Notes : Held(store, n)' =>
         /\ Held(store, n) /\ store'[n] = store[n]
         /\ store[n].status = "pending" => pc'[store[n].token] \in Holding
  BY <1>1, <1>2, PruneKeeps DEF Inv, StoreOwned, Held
<1>4. \A s \in Requests : pc[s] \in Granted /\ validUntil(s) >= now =>
         HeldBy(store, note[s], s)'
  BY <1>1, <1>2, PruneKeepsGrants DEF HeldBy, Held
<1> QED
  BY <1>1, <1>2, <1>3, <1>4, DropOwners

LEMMA RefuseHeldNoteOwners ==
    ASSUME Inv, NEW r \in Requests, RefuseHeldNote(r)
    PROVE  Owners'
<1>1. up
  BY DEF RefuseHeldNote, Goto, Inv, DownIsEmpty, Running
<1>2. store' = Prune(store, now) /\ store' \in Stores
  BY PruneTyped DEF RefuseHeldNote, Inv, TypeOK
<1>3. UNCHANGED <<now, up, file, note, cost, since>>
  BY DEF RefuseHeldNote, process
<1>4. pc[r] = "pricing" /\ pc' = [pc EXCEPT ![r] = "refused"]
  BY DEF RefuseHeldNote, Goto
<1>5. \A s \in Requests : /\ pc'[s] \in Granted <=> pc[s] \in Granted
                          /\ pc[s] \in Holding => pc'[s] \in Holding
                          /\ pc[s] = "issued" => pc'[s] = "issued"
  BY <1>4 DEF Inv, TypeOK, Granted, Checking, Holding
<1>6. \A n \in Notes : Held(store, n)' =>
         /\ Held(store, n) /\ store'[n] = store[n]
         /\ store[n].status = "pending" => pc'[store[n].token] \in Holding
  <2> SUFFICES ASSUME NEW n \in Notes, Held(store, n)'
               PROVE  /\ Held(store, n) /\ store'[n] = store[n]
                      /\ store[n].status = "pending" => pc'[store[n].token] \in Holding
    OBVIOUS
  <2>1. Held(store, n) /\ store'[n] = store[n]
    BY <1>2, PruneKeeps DEF Held
  <2>2. store[n].token \in Requests
    BY <2>1, EntryFacts DEF Inv, TypeOK
  <2> QED
    BY <1>5, <2>1, <2>2 DEF Inv, StoreOwned
<1>7. \A s \in Requests : pc[s] \in Granted /\ validUntil(s) >= now =>
         HeldBy(store, note[s], s)'
  BY <1>1, <1>2, <1>3, PruneKeepsGrants DEF HeldBy, Held
<1> QED
  BY <1>1, <1>2, <1>3, <1>5, <1>6, <1>7, DropOwners

LEMMA RefuseOwners ==
    ASSUME Inv, NEW r \in Requests, pc[r] \in Checking, Refuse(r)
    PROVE  Owners'
<1> USE ServiceAssumption
<1>1. up /\ note[r] \in Notes
  BY DEF Inv, DownIsEmpty, Running, RequestNotes, Checking
<1>2. store' = ReleaseEntry(store, note[r], r) /\ store' \in Stores
  BY <1>1, ReleaseTyped DEF Refuse, Inv, TypeOK
<1>3. UNCHANGED <<now, up, file, note, cost, since>>
  BY DEF Refuse, process
<1>4. \A s \in Requests : /\ pc'[s] \in Granted <=> pc[s] \in Granted
                          /\ pc[s] \in Holding /\ s # r => pc'[s] \in Holding
                          /\ pc[s] = "issued" => pc'[s] = "issued"
  BY DEF Refuse, Inv, TypeOK, Granted, Checking, Holding
<1>5. \A n \in Notes : Held(store, n)' =>
         /\ Held(store, n) /\ store'[n] = store[n]
         /\ store[n].status = "pending" => pc'[store[n].token] \in Holding
  <2> SUFFICES ASSUME NEW n \in Notes, Held(store, n)'
               PROVE  /\ Held(store, n) /\ store'[n] = store[n]
                      /\ store[n].status = "pending" => pc'[store[n].token] \in Holding
    OBVIOUS
  <2>1. Held(store, n) /\ store'[n] = store[n]
    BY <1>1, <1>2 DEF Held, ReleaseEntry, Inv, TypeOK, Stores
  <2>2. store[n].token \in Requests
    BY <2>1, EntryFacts DEF Inv, TypeOK
  <2>3. store[n].status = "pending" => store[n].token # r
    <3> SUFFICES ASSUME store[n].status = "pending", store[n].token = r PROVE FALSE
      OBVIOUS
    <3>1. note[r] = n
      BY <2>1 DEF Inv, StoreOwned
    <3>2. store'[n] = NoEntry
      BY <1>2, <2>1, <3>1 DEF ReleaseEntry, HeldBy, Held, Inv, TypeOK, Stores
    <3> QED
      BY <3>2 DEF Held
  <2> QED
    BY <1>4, <2>1, <2>2, <2>3 DEF Inv, StoreOwned
<1>6. \A s \in Requests : pc[s] \in Granted /\ validUntil(s) >= now =>
         HeldBy(store, note[s], s)'
  <2> SUFFICES ASSUME NEW s \in Requests, pc[s] \in Granted, validUntil(s) >= now
               PROVE  HeldBy(store, note[s], s)'
    OBVIOUS
  <2>1. HeldBy(store, note[s], s) /\ note[s] \in Notes
    BY <1>1, GrantLive
  <2>2. s # r
    BY DEF Checking, Holding, Granted
  <2> QED
    BY <1>1, <1>2, <1>3, <2>1, <2>2 DEF ReleaseEntry, HeldBy, Held, Inv, TypeOK, Stores
<1> QED
  BY <1>1, <1>2, <1>3, <1>4, <1>5, <1>6, DropOwners

LEMMA ReserveNoteOwners ==
    ASSUME Inv, NEW r \in Requests, ReserveNote(r)
    PROVE  Owners'
<1> USE ServiceAssumption
<1> DEFINE n == note[r]
           kept == Prune(store, now)
<1>1. pc[r] = "pricing" /\ pc' = [pc EXCEPT ![r] = "delegation"]
  BY DEF ReserveNote, Goto
<1>2. up /\ n \in Notes /\ r \notin LegacyRequests
  BY <1>1 DEF Inv, DownIsEmpty, Running, RequestNotes, LegacyIssued
<1>3. UNCHANGED <<now, up, file, note, cost>> /\ since' = [since EXCEPT ![r] = now]
  BY DEF ReserveNote, process
<1>4. kept \in Stores /\ store \in Stores /\ file \in Stores /\ ~Held(kept, n)
  BY PruneTyped, FileFacts DEF Inv, TypeOK, ReserveNote
<1>5. store' = [kept EXCEPT ![n] = EntryOf(r, "pending")']
  BY <1>2, <1>3 DEF ReserveNote, ReserveEntry, EntryOf, validUntil, Inv, TypeOK
<1>6. /\ \A s \in Requests : s # r => pc'[s] = pc[s] /\ since'[s] = since[s]
      /\ pc'[r] = "delegation"
  BY <1>1, <1>3 DEF Inv, TypeOK
<1>7. StoreOwned'
  <2> SUFFICES ASSUME NEW m \in Notes, Held(store', m)
               PROVE  (/\ note[store[m].token] = m
                       /\ store[m] = EntryOf(store[m].token, store[m].status)
                       /\ store[m].status = "pending" => pc[store[m].token] \in Holding
                       /\ store[m].status = "signed" => pc[store[m].token] \in Granted)'
    BY DEF StoreOwned, Held
  <2>1. CASE m = n
    <3>1. store'[m] = EntryOf(r, "pending")'
      BY <1>2, <1>4, <1>5, <2>1 DEF Stores
    <3>2. store'[m].token = r /\ store'[m].status = "pending"
      BY <3>1 DEF EntryOf
    <3>3. store'[m] = EntryOf(store[m].token, store[m].status)'
      BY <3>1, <3>2 DEF EntryOf, validUntil
    <3> QED
      BY <1>3, <1>6, <2>1, <3>2, <3>3 DEF Checking, Holding
  <2>2. CASE m # n
    <3>1. store'[m] = kept[m]
      BY <1>2, <1>4, <1>5, <2>2 DEF Stores
    <3>2. store'[m] = store[m] /\ Held(store, m)
      BY <3>1, PruneKeeps DEF Held
    <3>3. store[m].token \in Requests /\ store[m].token # r
      BY <1>1, <1>4, <3>2, EntryFacts DEF Inv, StoreOwned, Checking, Holding, Granted
    <3>4. store'[m] = EntryOf(store[m].token, store[m].status)'
      BY <1>3, <1>6, <3>2, <3>3 DEF Inv, StoreOwned, EntryOf, validUntil
    <3> QED
      BY <1>3, <1>6, <3>2, <3>3, <3>4 DEF Inv, StoreOwned
  <2> QED
    BY <2>1, <2>2
<1>8. FileOwned'
  <2> SUFFICES ASSUME NEW m \in Notes, Held(file, m)
               PROVE  LET s == file[m].token IN
                      /\ note[s] = m
                      /\ file[m] = EntryOf(s, "signed")'
                      /\ pc'[s] \in Granted
    BY <1>3 DEF FileOwned, Held, EntryOf, validUntil
  <2>1. file[m].token \in Requests /\ file[m].token # r
    BY <1>1, <1>4, EntryFacts DEF Inv, FileOwned, Granted
  <2> QED
    BY <1>3, <1>6, <2>1 DEF Inv, FileOwned, EntryOf, validUntil
<1>9. GrantRecorded'
  <2> SUFFICES ASSUME NEW s \in Requests, pc'[s] \in Granted, validUntil(s)' >= now
               PROVE  HeldBy(file, note[s], s) /\ HeldBy(store', note[s], s)
    BY <1>3 DEF GrantRecorded, HeldBy, Held
  <2>1. s # r
    BY <1>6 DEF Granted
  <2>2. pc[s] \in Granted /\ validUntil(s) >= now
    BY <1>6, <2>1 DEF validUntil
  <2>3. HeldBy(file, note[s], s) /\ HeldBy(kept, note[s], s) /\ note[s] \in Notes
    BY <1>2, <2>2, GrantLive, PruneKeepsGrants
  <2>4. note[s] # n
    BY <1>4, <2>3 DEF HeldBy
  <2> QED
    BY <1>2, <1>4, <1>5, <2>3, <2>4 DEF HeldBy, Held, Stores
<1>10. DownIsEmpty' /\ LegacyIssued'
  BY <1>2, <1>3, <1>6 DEF Inv, DownIsEmpty, LegacyIssued
<1> QED
  BY <1>7, <1>8, <1>9, <1>10 DEF Owners

LEMMA CommitOwners ==
    ASSUME Inv, NEW r \in Requests, Commit(r)
    PROVE  Owners'
<1> USE ServiceAssumption
<1> DEFINE n == note[r]
<1>1. pc[r] = "signing" /\ pc' = [pc EXCEPT ![r] = "replying"] /\ HeldBy(store, n, r)
  BY DEF Commit, Goto
<1>2. up /\ n \in Notes
  BY <1>1 DEF Inv, DownIsEmpty, Running, Checking, RequestNotes
<1>3. UNCHANGED <<now, up, note, cost, since>>
  BY DEF Commit, process
<1>4. store \in Stores
  BY DEF Inv, TypeOK
<1>5. SignedBy(store[n]) = EntryOf(r, "signed")
  <2>1. store[n] = EntryOf(r, store[n].status)
    BY <1>1, <1>2 DEF HeldBy, Inv, StoreOwned
  <2> QED
    BY <2>1 DEF SignedBy, EntryOf
<1>6. store' = [store EXCEPT ![n] = EntryOf(r, "signed")]
  BY <1>5 DEF Commit, CommitEntry
<1>7. file' = [SignedEntries(store) EXCEPT ![n] = EntryOf(r, "signed")]
  BY <1>5 DEF Commit, PersistSigned
<1>8. /\ \A s \in Requests : s # r => pc'[s] = pc[s]
      /\ pc'[r] \in Granted
  BY <1>1 DEF Inv, TypeOK, Granted
<1>9. EntryOf(r, "signed").token = r /\ EntryOf(r, "signed").status = "signed"
  BY DEF EntryOf
<1>10. EntryOf(r, "signed") # NoEntry
  <2>1. store[n] \in Entries
    BY <1>1, <1>2, <1>4, EntryFacts DEF HeldBy
  <2> QED
    BY <1>5, <2>1, SignedByTyped, NoEntryAssumption
<1>11. StoreOwned'
  <2> SUFFICES ASSUME NEW m \in Notes, Held(store', m)
               PROVE  LET s == store'[m].token IN
                      /\ note[s] = m
                      /\ store'[m] = EntryOf(s, store'[m].status)
                      /\ store'[m].status = "pending" => pc'[s] \in Holding
                      /\ store'[m].status = "signed" => pc'[s] \in Granted
    BY <1>3 DEF StoreOwned, Held, EntryOf, validUntil
  <2>1. CASE m = n
    BY <1>2, <1>4, <1>6, <1>8, <1>9, <2>1 DEF Stores
  <2>2. CASE m # n
    <3>1. store'[m] = store[m] /\ Held(store, m)
      BY <1>2, <1>4, <1>6, <2>2 DEF Stores, Held
    <3>2. store[m].token \in Requests /\ store[m].token # r
      BY <1>4, <2>2, <3>1, EntryFacts DEF Inv, StoreOwned
    <3> QED
      BY <1>8, <3>1, <3>2 DEF Inv, StoreOwned
  <2> QED
    BY <2>1, <2>2
<1>12. \A m \in Notes : m # n => file'[m] = SignedEntries(store)[m]
  BY <1>7 DEF SignedEntries
<1>13. file'[n] = EntryOf(r, "signed")
  BY <1>2, <1>7 DEF SignedEntries
<1>14. FileOwned'
  <2> SUFFICES ASSUME NEW m \in Notes, Held(file', m)
               PROVE  LET s == file'[m].token IN
                      /\ note[s] = m
                      /\ file'[m] = EntryOf(s, "signed")
                      /\ pc'[s] \in Granted
    BY <1>3 DEF FileOwned, Held, EntryOf, validUntil
  <2>1. CASE m = n
    BY <1>8, <1>9, <1>13, <2>1
  <2>2. CASE m # n
    <3>1. file'[m] = store[m] /\ Held(store, m) /\ store[m].status = "signed"
      BY <1>12, <2>2 DEF SignedEntries, Held
    <3>2. store[m].token \in Requests /\ store[m].token # r
      BY <1>4, <2>2, <3>1, EntryFacts DEF Inv, StoreOwned
    <3> QED
      BY <1>8, <3>1, <3>2 DEF Inv, StoreOwned
  <2> QED
    BY <2>1, <2>2
<1>15. GrantRecorded'
  <2> SUFFICES ASSUME NEW s \in Requests, pc'[s] \in Granted, validUntil(s) >= now
               PROVE  HeldBy(file', note[s], s) /\ HeldBy(store', note[s], s)
    BY <1>3 DEF GrantRecorded, HeldBy, Held, validUntil
  <2>1. CASE s = r
    BY <1>2, <1>4, <1>6, <1>9, <1>10, <1>13, <2>1 DEF HeldBy, Held, Stores
  <2>2. CASE s # r
    <3>1. pc[s] \in Granted
      BY <1>8, <2>2
    <3>2. HeldBy(store, note[s], s) /\ note[s] \in Notes
      BY <1>2, <3>1, GrantLive
    <3>3. note[s] # n
      BY <1>1, <2>2, <3>2 DEF HeldBy
    <3>4. store[note[s]].status = "signed"
      BY <1>4, <3>1, <3>2, EntryFacts DEF HeldBy, Inv, StoreOwned, Checking, Holding, Granted
    <3>5. file'[note[s]] = store[note[s]]
      BY <1>12, <3>2, <3>3, <3>4 DEF SignedEntries, HeldBy
    <3> QED
      BY <1>2, <1>4, <1>6, <3>2, <3>3, <3>5 DEF HeldBy, Held, Stores
  <2> QED
    BY <2>1, <2>2
<1>16. DownIsEmpty' /\ LegacyIssued'
  BY <1>1, <1>2, <1>3, <1>8 DEF Inv, DownIsEmpty, LegacyIssued
<1> QED
  BY <1>11, <1>14, <1>15, <1>16 DEF Owners

LEMMA CrashOwners ==
    ASSUME Inv, Crash
    PROVE  Owners'
<1> USE ServiceAssumption
<1>1. store' = EmptyStore /\ ~up' /\ UNCHANGED <<now, file, note, cost, since>>
  BY DEF Crash
<1>2. \A n \in Notes : ~Held(store', n)
  BY <1>1 DEF EmptyStore, Held
<1>3. \A s \in Requests : /\ pc'[s] \in Granted <=> pc[s] \in Granted
                          /\ pc'[s] \notin Running
                          /\ pc[s] = "issued" => pc'[s] = "issued"
  BY DEF Crash, Inv, TypeOK, Running, Granted, Checking, Holding, Ended
<1>4. StoreOwned'
  BY <1>2 DEF StoreOwned, Held
<1>5. FileOwned'
  BY <1>1, <1>3, FileFacts, EntryFacts DEF Inv, TypeOK, FileOwned, Held, EntryOf, validUntil
<1>6. GrantRecorded'
  BY <1>1, <1>3 DEF Inv, GrantRecorded, HeldBy, Held, validUntil
<1>7. DownIsEmpty' /\ LegacyIssued'
  BY <1>1, <1>3 DEF Inv, DownIsEmpty, LegacyIssued, EmptyStore
<1> QED
  BY <1>4, <1>5, <1>6, <1>7 DEF Owners

\* The constructor drops expired entries and keeps the others as they are.
LEMMA LoadKeeps ==
    ASSUME NEW f \in Files, NEW t, NEW n \in Notes
    PROVE  /\ LiveAt(f[n], t) => Load(f, t)[n] = f[n]
           /\ Held(Load(f, t), n) => Load(f, t)[n] = f[n] /\ Held(f, n)
<1>1. SignedEntries(f)[n] = f[n]
  BY FileFacts DEF SignedEntries, Held
<1> QED
  BY <1>1, PruneKeeps DEF Load, Held

LEMMA StartOwners ==
    ASSUME Inv, Start
    PROVE  Owners'
<1> USE ServiceAssumption
<1>1. /\ store' = Load(file, now) /\ file' = Load(file, now) /\ up'
      /\ UNCHANGED <<now, pc, note, cost, since>>
  BY DEF Start, local
<1>2. file \in Files
  BY DEF Inv, TypeOK
<1>3. \A n \in Notes : Held(Load(file, now), n) =>
         /\ Load(file, now)[n] = file[n] /\ Held(file, n)
         /\ file[n].status = "signed"
  BY <1>2, LoadKeeps, FileFacts
<1>4. StoreOwned' /\ FileOwned'
  BY <1>1, <1>3 DEF Inv, FileOwned, StoreOwned, Held, EntryOf, validUntil
<1>5. GrantRecorded'
  <2> SUFFICES ASSUME NEW s \in Requests, pc[s] \in Granted, validUntil(s) >= now
               PROVE  HeldBy(Load(file, now), note[s], s)
    BY <1>1 DEF GrantRecorded, HeldBy, Held, validUntil
  <2>1. note[s] \in Notes /\ HeldBy(file, note[s], s) /\ LiveAt(file[note[s]], now)
    BY GrantLive
  <2> QED
    BY <1>2, <2>1, LoadKeeps DEF HeldBy, Held
<1>6. DownIsEmpty' /\ LegacyIssued'
  BY <1>1 DEF Inv, DownIsEmpty, LegacyIssued
<1> QED
  BY <1>4, <1>5, <1>6 DEF Owners

LEMMA HandleOwners ==
    ASSUME Inv, NEW r \in Requests, Handle(r)
    PROVE  Owners'
<1>1. CASE RefuseFee(r)
  BY <1>1, QuietOwners DEF RefuseFee, Goto, process
<1>2. CASE ReserveNote(r)
  BY <1>2, ReserveNoteOwners
<1>3. CASE RefuseHeldNote(r)
  BY <1>3, RefuseHeldNoteOwners
<1>4. CASE CheckFails(r) \/ RefuseBudget(r)
  BY <1>4, RefuseOwners DEF CheckFails, RefuseBudget, Checking
<1>5. CASE ResolveSenderImplementation(r)
  BY <1>5, QuietOwners DEF ResolveSenderImplementation, Goto, process, Checking, Holding
<1>6. CASE ReadDeposit(r)
  BY <1>6, QuietOwners DEF ReadDeposit, Goto, process, Checking, Holding
<1>7. CASE AssertDepositCovers(r)
  BY <1>7, QuietOwners DEF AssertDepositCovers, Goto, process, Checking, Holding
<1>8. CASE AssertRegistrationCurrent(r)
  BY <1>8, QuietOwners DEF AssertRegistrationCurrent, Goto, process, Checking, Holding
<1>9. CASE AssertWithdrawSimulates(r)
  BY <1>9, QuietOwners DEF AssertWithdrawSimulates, Goto, process, Checking, Holding
<1>10. CASE AssertBundlerSimulates(r)
  BY <1>10, QuietOwners DEF AssertBundlerSimulates, Goto, process, Checking, Holding
<1>13. CASE HashFails(r)
  BY <1>13, QuietOwners DEF HashFails, Goto, process, Checking, Holding
<1>11. CASE Commit(r)
  BY <1>11, CommitOwners
<1>12. CASE Reply(r)
  BY <1>12, QuietOwners DEF Reply, Goto, process
<1> QED
  BY <1>1, <1>2, <1>3, <1>4, <1>5, <1>6, <1>7, <1>8, <1>9, <1>10, <1>11, <1>12, <1>13 DEF Handle

LEMMA NextOwners == Inv /\ [Next]_vars => Owners'
<1> SUFFICES ASSUME Inv, [Next]_vars PROVE Owners'
  OBVIOUS
<1>1. now \in Nat /\ now >= now
  BY DEF Inv, TypeOK
<1>2. ASSUME NEW r \in Requests, NEW n \in Notes, NEW c \in GasCosts, Arrive(r, n, c)
      PROVE  Owners'
  BY <1>2, ArriveOwners
<1>3. ASSUME NEW r \in Requests, Handle(r)
      PROVE  Owners'
  BY <1>3, HandleOwners
<1>4. CASE Status
  BY <1>4, StatusOwners
<1>5. CASE Crash
  BY <1>5, CrashOwners
<1>6. CASE Start
  BY <1>6, StartOwners
<1>7. CASE Tick
  BY <1>1, <1>7, OutsideOwners DEF Tick, process, local
<1>8. ASSUME NEW r \in Requests, NEW c \in GasCosts, Land(r, c)
      PROVE  Owners'
  BY <1>1, <1>8, OutsideOwners DEF Land, process, local
<1>9. ASSUME NEW c \in GasCosts, TopUp(c)
      PROVE  Owners'
  BY <1>1, <1>9, OutsideOwners DEF TopUp, process, local
<1>10. ASSUME NEW n \in Notes, SpendElsewhere(n)
       PROVE  Owners'
  BY <1>1, <1>10, OutsideOwners DEF SpendElsewhere, process, local
<1>11. CASE MoveRegistration
  BY <1>1, <1>11, OutsideOwners DEF MoveRegistration, process, local
<1>12. CASE UNCHANGED vars
  BY <1>1, <1>12, OutsideOwners DEF vars, process, local
<1> QED
  BY <1>2, <1>3, <1>4, <1>5, <1>6, <1>7, <1>8, <1>9, <1>10, <1>11, <1>12 DEF Next

\* The inductive invariant holds in every reachable state.
THEOREM InvHolds == Spec => []Inv
<1>1. Init => Inv
  BY InitTypes, InitOwners DEF Inv, Owners
<1>2. Inv /\ [Next]_vars => Inv'
  BY NextTypes, NextOwners DEF Inv, Owners
<1> QED
  BY <1>1, <1>2, PTL DEF Spec

-----------------------------------------------------------------------------
(* What follows from the invariant.                                         *)

\* Record before issuing: a signature that is out and unexpired is on disk under
\* its own token, in every interleaving of requests, crashes and restarts.
THEOREM SignaturesRecorded == Spec => []LiveSignatureOnDisk
<1>1. Inv => LiveSignatureOnDisk
  BY DEF Inv, GrantRecorded, LiveSignatureOnDisk, Granted
<1> QED
  BY <1>1, InvHolds, PTL

\* One live signature per note, as long as no block's timestamp trails the
\* relayer's clock.
THEOREM OneSignaturePerNote ==
    ASSUME ClockLag = 0
    PROVE  Spec => []OneLiveSignaturePerNote
<1>1. Inv => OneLiveSignaturePerNote
  <2> SUFFICES ASSUME Inv, NEW r \in Requests, NEW s \in Requests,
                      pc[r] = "issued", validUntil(r) + ClockLag >= now,
                      pc[s] = "issued", validUntil(s) + ClockLag >= now,
                      note[r] = note[s]
               PROVE  r = s
    BY DEF OneLiveSignaturePerNote
  <2>1. validUntil(r) \in Nat /\ validUntil(s) \in Nat
    BY ServiceAssumption DEF validUntil, Inv, TypeOK
  <2>2. HeldBy(file, note[r], r) /\ HeldBy(file, note[s], s)
    BY <2>1 DEF Inv, TypeOK, GrantRecorded, Granted
  <2> QED
    BY <2>2 DEF HeldBy
<1> QED
  BY <1>1, InvHolds, PTL

\* A live record is only ever rewritten as it was.
LEMMA CommitKeepsRecords ==
    ASSUME Inv, NEW r \in Requests, Commit(r), NEW n \in Notes, LiveAt(file[n], now)
    PROVE  file'[n] = file[n]
<1> USE ServiceAssumption
<1> DEFINE s == file[n].token
<1>1. Held(file, n) /\ file[n].validUntil >= now
  BY DEF LiveAt, Held
<1>2. s \in Requests /\ pc[s] \in Granted /\ note[s] = n /\ file[n] = EntryOf(s, "signed")
  BY <1>1, FileFacts, EntryFacts DEF Inv, TypeOK, FileOwned
<1>3. pc[r] = "signing" /\ up /\ HeldBy(store, note[r], r) /\ note[r] \in Notes
  BY DEF Commit, Goto, Inv, DownIsEmpty, RequestNotes, Running, Checking
<1>4. file[n].validUntil = validUntil(s)
  BY <1>2 DEF EntryOf
<1>5. HeldBy(store, n, s)
  BY <1>1, <1>2, <1>3, <1>4, GrantLive
<1>6. store[n].status = "signed" /\ store[n] = EntryOf(s, store[n].status)
  BY <1>2, <1>5, EntryFacts DEF HeldBy, Inv, TypeOK, StoreOwned, Checking, Holding, Granted
<1>7. n # note[r]
  BY <1>2, <1>3, <1>5 DEF HeldBy, Granted
<1>8. file'[n] = store[n]
  BY <1>5, <1>6, <1>7 DEF Commit, PersistSigned, SignedEntries, HeldBy
<1> QED
  BY <1>2, <1>6, <1>8

\* The file only changes when a signature is recorded and when the process starts.
LEMMA FileChanges ==
    ASSUME [Next]_vars
    PROVE  \/ \E r \in Requests : Commit(r)
           \/ Start
           \/ UNCHANGED file
BY DEF Next, vars, Arrive, Handle, RefuseFee, ReserveNote, RefuseHeldNote, CheckFails,
       RefuseBudget, Refuse, ResolveSenderImplementation, ReadDeposit, AssertDepositCovers,
       AssertRegistrationCurrent, AssertWithdrawSimulates, AssertBundlerSimulates, HashFails, Reply,
       Status, Crash, Tick, Land, TopUp, SpendElsewhere, MoveRegistration

\* The durable record of a signature is neither dropped nor overwritten while the
\* signature is valid.
THEOREM RecordsKept == Spec => LiveRecordKept
<1>1. Inv /\ [Next]_vars => (\A n \in Notes : LiveAt(file[n], now') => file'[n] = file[n])
  <2> SUFFICES ASSUME Inv, [Next]_vars, NEW n \in Notes, LiveAt(file[n], now')
               PROVE  file'[n] = file[n]
    OBVIOUS
  <2>1. ASSUME NEW r \in Requests, Commit(r)
        PROVE  file'[n] = file[n]
    BY <2>1, CommitKeepsRecords DEF Commit
  <2>2. CASE Start
    BY <2>2, LoadKeeps DEF Start, Inv, TypeOK
  <2> QED
    BY <2>1, <2>2, FileChanges
<1> QED
  BY <1>1, InvHolds, PTL DEF Spec, LiveRecordKept

-----------------------------------------------------------------------------
(* The service implements SponsorshipLedger, as long as no block's          *)
(* timestamp trails the relayer's clock.                                    *)

\* The ledger's variables, as the service has them.
Grants == {GrantOf(r) : r \in {q \in Requests : pc[q] \in Granted}}
Landed == {r \in Requests : outcome[r] # "none"}

\* The ledger does not see a step that grants nothing and lands nothing.
LEMMA Unseen ==
    ASSUME \A q \in Requests : pc'[q] \in Granted <=> pc[q] \in Granted,
           \A q \in Requests : pc[q] \in Granted => note'[q] = note[q] /\ since'[q] = since[q],
           UNCHANGED <<now, outcome>>
    PROVE  UNCHANGED <<now, Grants, Landed>>
<1>1. \A q \in Requests : pc[q] \in Granted => GrantOf(q)' = GrantOf(q)
  BY DEF GrantOf, validUntil
<1>2. Grants' = Grants
  BY <1>1 DEF Grants
<1> QED
  BY <1>2 DEF Landed

\* A commit grants the note, whose last grant has expired.
LEMMA CommitGrants ==
    ASSUME Inv, NEW r \in Requests, Commit(r)
    PROVE  Ledger!Grant
<1> USE ServiceAssumption
<1> DEFINE g == GrantOf(r)
<1>1. /\ pc[r] = "signing" /\ pc' = [pc EXCEPT ![r] = "replying"]
      /\ HeldBy(store, note[r], r) /\ UNCHANGED <<now, outcome, note, since>>
  BY DEF Commit, Goto, chain
<1>2. up /\ note[r] \in Notes
  BY <1>1 DEF Inv, DownIsEmpty, RequestNotes, Running, Checking
<1>3. \A q \in Requests : /\ q # r => pc'[q] = pc[q]
                          /\ GrantOf(q)' = GrantOf(q)
      /\ pc'[r] \in Granted /\ pc[r] \notin Granted
  BY <1>1 DEF Inv, TypeOK, Granted, GrantOf, validUntil
<1>4. Grants' = Grants \cup {g}
  <2>1. {q \in Requests : pc'[q] \in Granted} = {q \in Requests : pc[q] \in Granted} \cup {r}
    BY <1>3
  <2> QED
    BY <1>3, <2>1 DEF Grants
<1>5. \A h \in Grants : h.note = note[r] => h.until < now
  <2> SUFFICES ASSUME NEW q \in Requests, pc[q] \in Granted, note[q] = note[r]
               PROVE  validUntil(q) < now
    BY DEF Grants, GrantOf
  <2>1. validUntil(q) \in Nat /\ now \in Nat
    BY DEF Inv, TypeOK, validUntil
  <2>2. q # r
    BY <1>3
  <2>3. CASE validUntil(q) >= now
    <3>1. HeldBy(store, note[q], q)
      BY <1>2, <2>3, GrantLive
    <3> QED
      BY <1>1, <2>2, <3>1 DEF HeldBy
  <2> QED
    BY <2>1, <2>3
<1>6. \A h \in Grants : h.request # r
  <2>1. pc[r] \notin Granted
    BY <1>3
  <2>2. \A q \in Requests : pc[q] \in Granted => GrantOf(q).request # r
    BY <2>1 DEF GrantOf
  <2> QED
    BY <2>2 DEF Grants
<1>7. g.note = note[r] /\ g.request = r
  BY DEF GrantOf
<1>8. Landed' = Landed
  BY <1>1 DEF Landed
<1>9. \E x \in Grants' : /\ \A h \in Grants : h.note = x.note => h.until < now
                         /\ \A h \in Grants : h.request # x.request
                         /\ Grants' = Grants \cup {x}
                         /\ UNCHANGED <<now, Landed>>
  <2> HIDE DEF g
  <2> WITNESS g \in Grants'
  <2> QED
    BY <1>1, <1>4, <1>5, <1>6, <1>7, <1>8
<1> QED
  BY <1>9 DEF Ledger!Grant, Ledger!ExpiredFor, Grants, Landed

\* An operation that lands uses a grant that has not expired.
LEMMA LandUses ==
    ASSUME ClockLag = 0, Inv, NEW r \in Requests, NEW c \in GasCosts, Land(r, c)
    PROVE  Ledger!Use
<1>1. /\ pc[r] = "issued" /\ validUntil(r) + ClockLag >= now /\ outcome[r] = "none"
      /\ UNCHANGED <<now, pc, note, since>>
  BY DEF Land, Live, local
<1>2. validUntil(r) >= now
  BY <1>1, ServiceAssumption DEF Inv, TypeOK, validUntil
<1>3. GrantOf(r) \in Grants
  BY <1>1 DEF Grants, Granted
<1>4. GrantOf(r).until >= now /\ GrantOf(r).request = r
  BY <1>2 DEF GrantOf
<1>5. r \notin Landed /\ Landed' = Landed \cup {r}
  BY <1>1 DEF Landed, Land, Inv, TypeOK
<1>6. Grants' = Grants
  BY <1>1 DEF Grants, GrantOf, validUntil
<1> QED
  BY <1>1, <1>3, <1>4, <1>5, <1>6 DEF Ledger!Use, Grants, Landed

\* The service starts as a ledger does.
LEMMA InitLedger == Init => Ledger!Init
<1> SUFFICES ASSUME Init PROVE Ledger!Init
  OBVIOUS
<1>1. \A q \in Requests : pc[q] \in Granted => q \in LegacyRequests
  BY DEF Init, Granted
<1>2. \A q, s \in Requests : q \in LegacyRequests /\ s \in LegacyRequests /\ note[q] = note[s] => q = s
  BY DEF Init
<1>3. \A g, h \in Grants : g.note = h.note \/ g.request = h.request => g = h
  BY <1>1, <1>2 DEF Grants, GrantOf
<1>4. Landed = {} /\ now = 0
  BY DEF Landed, Init
<1> QED
  BY <1>3, <1>4 DEF Ledger!Init, Grants, Landed

LEMMA HandleLedger ==
    ASSUME Inv, NEW r \in Requests, Handle(r)
    PROVE  Ledger!Grant \/ UNCHANGED <<now, Grants, Landed>>
<1> USE DEF Granted, Checking
<1>1. CASE Commit(r)
  BY <1>1, CommitGrants
<1>2. ASSUME NEW p, NEW q, pc[r] = p, pc' = [pc EXCEPT ![r] = q],
             p \in Granted <=> q \in Granted,
             UNCHANGED <<now, outcome, note>>,
             p \notin Granted => \A s \in Requests : s # r => since'[s] = since[s],
             p \in Granted => since' = since
      PROVE  UNCHANGED <<now, Grants, Landed>>
  <2>1. \A s \in Requests : s # r => pc'[s] = pc[s]
    BY <1>2 DEF Inv, TypeOK
  <2>2. pc'[r] = q
    BY <1>2 DEF Inv, TypeOK
  <2> QED
    BY <1>2, <2>1, <2>2, Unseen
<1>3. CASE RefuseFee(r)
  BY <1>2, <1>3 DEF RefuseFee, Goto, chain
<1>4. CASE ReserveNote(r)
  <2>1. \A s \in Requests : s # r => since'[s] = since[s]
    BY <1>4 DEF ReserveNote, Inv, TypeOK
  <2> QED
    BY <1>2, <1>4, <2>1 DEF ReserveNote, Goto, chain
<1>5. CASE RefuseHeldNote(r)
  BY <1>2, <1>5 DEF RefuseHeldNote, Goto, chain
<1>6. CASE CheckFails(r) \/ RefuseBudget(r)
  <2>1. pc[r] \notin Granted /\ pc' = [pc EXCEPT ![r] = "refused"]
        /\ UNCHANGED <<now, outcome, note, since>>
    BY <1>6 DEF CheckFails, RefuseBudget, Refuse, chain
  <2> QED
    BY <1>2, <2>1
<1>7. CASE ResolveSenderImplementation(r)
  BY <1>2, <1>7 DEF ResolveSenderImplementation, Goto, chain
<1>8. CASE ReadDeposit(r)
  BY <1>2, <1>8 DEF ReadDeposit, Goto, chain
<1>9. CASE AssertDepositCovers(r)
  BY <1>2, <1>9 DEF AssertDepositCovers, Goto, chain
<1>10. CASE AssertRegistrationCurrent(r)
  BY <1>2, <1>10 DEF AssertRegistrationCurrent, Goto, chain
<1>11. CASE AssertWithdrawSimulates(r)
  BY <1>2, <1>11 DEF AssertWithdrawSimulates, Goto, chain
<1>12. CASE AssertBundlerSimulates(r)
  BY <1>2, <1>12 DEF AssertBundlerSimulates, Goto, chain
<1>14. CASE HashFails(r)
  BY <1>2, <1>14 DEF HashFails, Goto, chain
<1>13. CASE Reply(r)
  BY <1>2, <1>13 DEF Reply, Goto, chain
<1> QED
  BY <1>1, <1>3, <1>4, <1>5, <1>6, <1>7, <1>8, <1>9, <1>10, <1>11, <1>12, <1>13, <1>14 DEF Handle

\* Every step of the service is a step of the ledger, or none.
LEMMA NextLedger ==
    ASSUME ClockLag = 0, Inv, [Next]_vars
    PROVE  [Ledger!Next]_<<now, Grants, Landed>>
<1> USE DEF Ledger!Next
<1>1. ASSUME NEW r \in Requests, NEW n \in Notes, NEW c \in GasCosts, Arrive(r, n, c)
      PROVE  UNCHANGED <<now, Grants, Landed>>
  <2>1. pc[r] = "new" /\ pc' = [pc EXCEPT ![r] = "pricing"] /\ note' = [note EXCEPT ![r] = n]
        /\ UNCHANGED <<now, outcome, since>>
    BY <1>1 DEF Arrive, Goto, chain
  <2>2. \A q \in Requests : /\ q # r => pc'[q] = pc[q] /\ note'[q] = note[q]
                            /\ pc'[q] \in Granted <=> pc[q] \in Granted
    BY <2>1 DEF Inv, TypeOK, Granted
  <2> QED
    BY <2>1, <2>2, Unseen DEF Granted
<1>2. ASSUME NEW r \in Requests, Handle(r)
      PROVE  Ledger!Grant \/ UNCHANGED <<now, Grants, Landed>>
  BY <1>2, HandleLedger
<1>3. CASE Status
  BY <1>3, Unseen DEF Status, local, chain
<1>4. CASE Crash
  <2>1. \A q \in Requests : pc'[q] \in Granted <=> pc[q] \in Granted
    BY <1>4 DEF Crash, Inv, TypeOK, Running, Granted, Checking, Ended
  <2> QED
    BY <1>4, <2>1, Unseen DEF Crash, chain
<1>5. CASE Start
  BY <1>5, Unseen DEF Start, local, chain
<1>6. CASE Tick
  <2>1. Grants' = Grants /\ Landed' = Landed
    BY <1>6 DEF Tick, local, chain, Grants, GrantOf, validUntil, Landed
  <2> QED
    BY <1>6, <2>1 DEF Tick, Ledger!Tick, Grants, Landed
<1>7. ASSUME NEW r \in Requests, NEW c \in GasCosts, Land(r, c)
      PROVE  Ledger!Use
  BY <1>7, LandUses
<1>8. ASSUME NEW c \in GasCosts, TopUp(c)
      PROVE  UNCHANGED <<now, Grants, Landed>>
  BY <1>8, Unseen DEF TopUp, local
<1>9. ASSUME NEW n \in Notes, SpendElsewhere(n)
      PROVE  UNCHANGED <<now, Grants, Landed>>
  BY <1>9, Unseen DEF SpendElsewhere, local
<1>10. CASE MoveRegistration
  BY <1>10, Unseen DEF MoveRegistration, local
<1>11. CASE UNCHANGED vars
  BY <1>11, Unseen DEF vars, local, chain
<1> QED
  BY <1>1, <1>2, <1>3, <1>4, <1>5, <1>6, <1>7, <1>8, <1>9, <1>10, <1>11 DEF Next

\* The service implements the ledger of grants: in every interleaving, with any
\* crashes, a note is granted again only after its last grant has expired, and
\* each grant is used at most once, before it expires.
THEOREM ServiceImplementsLedger ==
    ASSUME ClockLag = 0
    PROVE  Spec => ImplementsLedger
<1>1. Init => Ledger!Init
  BY InitLedger
<1>2. Inv /\ [Next]_vars => [Ledger!Next]_(Ledger!ledger)
  BY NextLedger DEF Ledger!ledger, Grants, Landed
<1> QED
  BY <1>1, <1>2, InvHolds, PTL DEF Spec, ImplementsLedger, Ledger!Spec

-----------------------------------------------------------------------------
(* Which steps move a request.                                              *)

\* The deposit has been found to cover the request, which is not signed yet.
ClearedSteps == {"registry", "withdraw", "bundler", "signing"}

\* How a step may move request s.
Moves(s) ==
    /\ pc[s] \notin {"new", "pricing"} => UNCHANGED <<note[s], cost[s], since[s]>>
    /\ since'[s] = since[s] \/ since'[s] = now
    /\ pc'[s] = "new" => pc[s] = "new"
    /\ pc[s] = "new" => pc'[s] = "new" \/ \E n \in Notes, c \in GasCosts : Arrive(s, n, c)
    /\ pc'[s] = "budget" => (pc[s] = "budget" /\ seen'[s] = seen[s]) \/ ReadDeposit(s)
    /\ pc'[s] \in ClearedSteps => pc[s] \in ClearedSteps \/ AssertDepositCovers(s)
    /\ pc'[s] = "signing" => pc[s] = "signing" \/ AssertBundlerSimulates(s)
    /\ pc'[s] \in {"replying", "issued"} => pc[s] \in {"replying", "issued"} \/ Commit(s)
    /\ pc'[s] \in Granted => pc[s] \in Granted \/ Commit(s)
    /\ pc[s] = "issued" => pc'[s] = "issued"

\* A handler moves its own request, along the steps of sign.
LEMMA HandleMoves ==
    ASSUME TypeOK, NEW r \in Requests, Handle(r), NEW s \in Requests
    PROVE  Moves(s)
<1> USE DEF Moves, ClearedSteps, Granted, Checking, TypeOK
<1>1. ASSUME s # r, NEW p, pc' = [pc EXCEPT ![r] = p],
             UNCHANGED <<note, cost>>,
             since' = since \/ since' = [since EXCEPT ![r] = now],
             seen' = seen \/ \E x : seen' = [seen EXCEPT ![r] = x]
      PROVE  Moves(s)
  <2>1. pc'[s] = pc[s] /\ since'[s] = since[s] /\ seen'[s] = seen[s]
    BY <1>1
  <2> QED
    BY <1>1, <2>1
<1>2. CASE s # r
  BY <1>1, <1>2 DEF Handle, RefuseFee, ReserveNote, RefuseHeldNote, CheckFails, RefuseBudget,
     Refuse, ResolveSenderImplementation, ReadDeposit, AssertDepositCovers,
     AssertRegistrationCurrent, AssertWithdrawSimulates, AssertBundlerSimulates, HashFails,
     Commit, Reply, Goto
<1>3. CASE s = r
  BY <1>3 DEF Handle, RefuseFee, ReserveNote, RefuseHeldNote, CheckFails, RefuseBudget,
     Refuse, ResolveSenderImplementation, ReadDeposit, AssertDepositCovers,
     AssertRegistrationCurrent, AssertWithdrawSimulates, AssertBundlerSimulates, HashFails,
     Commit, Reply, Goto
<1> QED
  BY <1>2, <1>3

\* Outside the handlers, requests arrive and die.
LEMMA NextMoves ==
    ASSUME TypeOK, [Next]_vars, NEW s \in Requests
    PROVE  Moves(s)
<1>1. ASSUME NEW r \in Requests, NEW n \in Notes, NEW c \in GasCosts, Arrive(r, n, c)
      PROVE  Moves(s)
  BY <1>1 DEF Arrive, Goto, Moves, ClearedSteps, Granted, TypeOK
<1>2. ASSUME NEW r \in Requests, Handle(r)
      PROVE  Moves(s)
  BY <1>2, HandleMoves
<1>3. CASE Crash
  BY <1>3 DEF Crash, Moves, ClearedSteps, Granted, Running, Checking, TypeOK
<1>4. CASE UNCHANGED local
  BY <1>4 DEF local, Moves, ClearedSteps, Granted, TypeOK
<1> QED
  BY <1>1, <1>2, <1>3, <1>4
  DEF Next, vars, Status, Start, Tick, Land, TopUp, SpendElsewhere, MoveRegistration

\* What the chain does in a step.
LEMMA ChainMoves ==
    ASSUME TypeOK, [Next]_vars
    PROVE  /\ now' \in Nat /\ now' >= now
           /\ now' = now \/ Tick
           /\ \/ \E r \in Requests, c \in GasCosts : Land(r, c)
              \/ /\ deposit' >= deposit
                 /\ outcome' = outcome
                 /\ \A n \in Notes : spentBy'[n] \in {spentBy[n], Elsewhere}
<1> USE ServiceAssumption DEF TypeOK
<1>1. CASE Tick
  BY <1>1 DEF Tick, chain
<1>2. ASSUME NEW c \in GasCosts, TopUp(c)
      PROVE  now' = now /\ outcome' = outcome /\ spentBy' = spentBy /\ deposit' >= deposit
  BY <1>2 DEF TopUp
<1>3. ASSUME NEW n \in Notes, SpendElsewhere(n)
      PROVE  now' = now /\ outcome' = outcome /\ deposit' = deposit
             /\ \A m \in Notes : spentBy'[m] \in {spentBy[m], Elsewhere}
  BY <1>3 DEF SpendElsewhere
<1>4. CASE MoveRegistration
  BY <1>4 DEF MoveRegistration
<1>5. CASE UNCHANGED <<now, chain>>
  BY <1>5 DEF chain
<1>6. ASSUME NEW r \in Requests, Handle(r)
      PROVE  UNCHANGED <<now, chain>>
  BY <1>6 DEF Handle, RefuseFee, ReserveNote, RefuseHeldNote, CheckFails, RefuseBudget,
     Refuse, ResolveSenderImplementation, ReadDeposit, AssertDepositCovers,
     AssertRegistrationCurrent, AssertWithdrawSimulates, AssertBundlerSimulates, HashFails,
     Commit, Reply
<1>7. ASSUME NEW r \in Requests, NEW c \in GasCosts, Land(r, c)
      PROVE  now' = now
  BY <1>7 DEF Land
<1> QED
  BY <1>1, <1>2, <1>3, <1>4, <1>5, <1>6, <1>7
  DEF Next, vars, Arrive, Status, Crash, Start

\* No step but its own reservation gives a request an entry it did not hold.
LEMMA HeldBefore ==
    ASSUME Inv, [Next]_vars, NEW s \in Requests, pc[s] \in Checking,
           HeldBy(store', note[s], s)
    PROVE  HeldBy(store, note[s], s)
<1> USE DEF HeldBy, Held
<1>1. up /\ note[s] \in Notes /\ store \in Stores /\ now \in Nat
  BY DEF Inv, DownIsEmpty, RequestNotes, TypeOK, Running, Checking
<1>3. CASE UNCHANGED store
  BY <1>3
<1>4. CASE store' = Prune(store, now)
  BY <1>1, <1>4, PruneKeeps
<1>5. ASSUME NEW r \in Requests, ReserveNote(r)
      PROVE  HeldBy(store, note[s], s)
  <2>1. pc[r] = "pricing" /\ note[r] \in Notes /\ r # s
    BY <1>5 DEF ReserveNote, Goto, Inv, RequestNotes, Checking
  <2>2. Prune(store, now) \in Stores
    BY <1>1, PruneTyped
  <2>3. store' = [Prune(store, now) EXCEPT ![note[r]] =
                     [validUntil |-> now + SignatureTtlSec, status |-> "pending",
                      token |-> r, maxGasCostWei |-> cost[r]]]
    BY <1>5 DEF ReserveNote, ReserveEntry
  <2>4. CASE note[r] = note[s]
    BY <1>1, <2>1, <2>2, <2>3, <2>4 DEF Stores
  <2>5. CASE note[r] # note[s]
    BY <1>1, <2>1, <2>2, <2>3, <2>5, PruneKeeps DEF Stores
  <2> QED
    BY <2>4, <2>5
<1>6. ASSUME NEW r \in Requests, Refuse(r)
      PROVE  HeldBy(store, note[s], s)
  BY <1>1, <1>6, NoEntryAssumption DEF Refuse, ReleaseEntry, Stores
<1>7. ASSUME NEW r \in Requests, Commit(r)
      PROVE  HeldBy(store, note[s], s)
  <2>1. /\ store' = [store EXCEPT ![note[r]] = SignedBy(store[note[r]])]
        /\ store[note[r]] # NoEntry /\ store[note[r]].token = r
    BY <1>7 DEF Commit, CommitEntry
  <2>2. CASE note[r] = note[s]
    <3>1. store[note[s]] \in Entries
      BY <1>1, <2>1, <2>2 DEF Stores
    <3>2. SignedBy(store[note[s]]).token = store[note[s]].token
      BY <3>1 DEF SignedBy, Entries
    <3> QED
      BY <1>1, <2>1, <2>2, <3>2 DEF Stores
  <2>3. CASE note[r] # note[s]
    BY <1>1, <2>1, <2>3 DEF Stores
  <2> QED
    BY <2>2, <2>3
<1>8. CASE Crash
  BY <1>1, <1>8 DEF Crash, EmptyStore
<1>9. ~Start
  BY <1>1 DEF Start
<1> QED
  BY <1>3, <1>4, <1>5, <1>6, <1>7, <1>8, <1>9
  DEF Next, vars, Arrive, Handle, RefuseFee, RefuseHeldNote, CheckFails,
      RefuseBudget, ResolveSenderImplementation, ReadDeposit, AssertDepositCovers,
      AssertRegistrationCurrent, AssertWithdrawSimulates, AssertBundlerSimulates, HashFails,
      Reply, Status, Tick, Land, TopUp, SpendElsewhere, MoveRegistration

-----------------------------------------------------------------------------
(* No note is paid for twice.  A live entry keeps a second request for the  *)
(* note out, so a note that a sponsored operation spent has no other live   *)
(* grant, and no request about to be signed.                                *)

\* A note spent through the relayer was spent by the request that landed for it.
SpentRecorded ==
    /\ \A n \in Notes : spentBy[n] \in Requests =>
          note[spentBy[n]] = n /\ outcome[spentBy[n]] = "withdrawn"
    /\ \A r \in Requests : outcome[r] # "none" => pc[r] = "issued"

\* The note is not spent by a sponsored operation while a grant for it may still land.
GrantsUnspent ==
    \A r \in Requests :
        \/ pc[r] = "signing" /\ HeldBy(store, note[r], r)
        \/ pc[r] \in Granted /\ validUntil(r) >= now /\ outcome[r] = "none"
        => spentBy[note[r]] \notin Requests

PaidOnce == SpentRecorded /\ GrantsUnspent /\ NeverPaysTwiceForNote

\* A landing spends the note of a live grant, the only one there is for the note.
LEMMA LandPaidOnce ==
    ASSUME ClockLag = 0, Inv, PaidOnce, NEW r \in Requests, NEW c \in GasCosts, Land(r, c)
    PROVE  PaidOnce'
<1> USE ServiceAssumption DEF PaidOnce
<1>1. /\ pc[r] = "issued" /\ outcome[r] = "none" /\ validUntil(r) >= now
      /\ UNCHANGED <<now, up, store, file, pc, note, since>>
      /\ note[r] \in Notes
  <2>1. validUntil(r) \in Nat /\ now \in Nat
    BY DEF Inv, TypeOK, validUntil
  <2> QED
    BY <2>1 DEF Land, Live, process, local, Inv, RequestNotes
<1>2. spentBy[note[r]] \in {None, Elsewhere}
  BY <1>1 DEF GrantsUnspent, Granted, Inv, TypeOK
<1>3. /\ outcome'[r] \in {"notRegistered", "noteSpent", "withdrawn"}
      /\ \A s \in Requests : s # r => outcome'[s] = outcome[s]
      /\ outcome'[r] = "noteSpent" => spentBy[note[r]] # None
      /\ outcome'[r] = "withdrawn" =>
            /\ spentBy[note[r]] = None
            /\ spentBy' = [spentBy EXCEPT ![note[r]] = r]
      /\ outcome'[r] # "withdrawn" => spentBy' = spentBy
  BY DEF Land, Inv, TypeOK
<1>4. SpentRecorded'
  <2>1. \A n \in Notes : spentBy'[n] \in Requests =>
           \/ n = note[r] /\ spentBy'[n] = r /\ outcome'[r] = "withdrawn"
           \/ spentBy'[n] = spentBy[n]
    BY <1>1, <1>3 DEF Inv, TypeOK
  <2>2. \A n \in Notes : spentBy[n] \in Requests => spentBy[n] # r
    BY <1>1 DEF SpentRecorded
  <2> QED
    BY <1>1, <1>3, <2>1, <2>2 DEF SpentRecorded
<1>5. GrantsUnspent'
  <2> SUFFICES ASSUME NEW s \in Requests,
                      \/ pc[s] = "signing" /\ HeldBy(store, note[s], s)
                      \/ pc[s] \in Granted /\ validUntil(s) >= now /\ outcome'[s] = "none"
               PROVE  spentBy'[note[s]] \notin Requests
    BY <1>1 DEF GrantsUnspent, HeldBy, Held, validUntil
  <2>1. s # r /\ outcome'[s] = outcome[s] /\ note[s] \in Notes
    BY <1>1, <1>3 DEF Inv, RequestNotes, Granted
  <2>2. spentBy[note[s]] \notin Requests
    BY <2>1 DEF GrantsUnspent
  <2>3. note[s] # note[r]
    <3>1. CASE pc[s] = "signing" /\ HeldBy(store, note[s], s)
      <4>1. up
        BY <3>1 DEF Inv, DownIsEmpty, Running, Checking
      <4>2. HeldBy(store, note[r], r)
        BY <1>1, <4>1 DEF Inv, GrantRecorded, Granted
      <4> QED
        BY <2>1, <3>1, <4>2 DEF HeldBy
    <3>2. CASE pc[s] \in Granted /\ validUntil(s) >= now
      <4>1. HeldBy(file, note[s], s) /\ HeldBy(file, note[r], r)
        BY <1>1, <3>2 DEF Inv, GrantRecorded, Granted
      <4> QED
        BY <2>1, <4>1 DEF HeldBy
    <3> QED
      BY <3>1, <3>2
  <2> QED
    BY <1>1, <1>3, <2>1, <2>2, <2>3 DEF Inv, TypeOK
<1>6. NeverPaysTwiceForNote'
  <2> SUFFICES ASSUME NEW s \in Requests, outcome'[s] = "noteSpent"
               PROVE  spentBy'[note[s]] = Elsewhere
    BY <1>1 DEF NeverPaysTwiceForNote
  <2>1. spentBy[note[s]] = Elsewhere
    BY <1>2, <1>3 DEF NeverPaysTwiceForNote
  <2>2. outcome[s] # "none" \/ s = r
    BY <1>3
  <2>3. note[s] \in Notes
    BY <1>1, <2>2 DEF SpentRecorded, Inv, RequestNotes
  <2> QED
    BY <1>3, <2>1, <2>3 DEF Inv, TypeOK
<1> QED
  BY <1>4, <1>5, <1>6

LEMMA NextPaidOnce ==
    ASSUME ClockLag = 0, Inv, PaidOnce, [Next]_vars
    PROVE  PaidOnce'
<1> USE ServiceAssumption DEF PaidOnce
<1>1. CASE \E r \in Requests, c \in GasCosts : Land(r, c)
  BY <1>1, LandPaidOnce
<1>2. CASE ~\E r \in Requests, c \in GasCosts : Land(r, c)
  <2>1. /\ now' \in Nat /\ now \in Nat /\ now' >= now
        /\ outcome' = outcome
        /\ \A n \in Notes : spentBy'[n] \in {spentBy[n], Elsewhere}
    BY <1>2, ChainMoves DEF Inv, TypeOK
  <2>2. \A s \in Requests : Moves(s)
    BY NextMoves DEF Inv
  <2>3. SpentRecorded'
    <3>1. \A s \in Requests : outcome[s] # "none" => pc'[s] = "issued" /\ note'[s] = note[s]
      BY <2>2 DEF SpentRecorded, Moves
    <3>2. \A n \in Notes : spentBy'[n] \in Requests => spentBy'[n] = spentBy[n]
      BY <2>1
    <3> QED
      BY <2>1, <3>1, <3>2 DEF SpentRecorded
  <2>4. GrantsUnspent'
    <3> SUFFICES ASSUME NEW s \in Requests,
                        \/ pc'[s] = "signing" /\ HeldBy(store', note'[s], s)
                        \/ pc'[s] \in Granted /\ validUntil(s)' >= now' /\ outcome[s] = "none"
                 PROVE  spentBy'[note'[s]] \notin Requests
      BY <2>1 DEF GrantsUnspent, HeldBy, Held
    <3>1. /\ pc[s] \notin {"new", "pricing"} => note'[s] = note[s] /\ validUntil(s)' = validUntil(s)
          /\ pc'[s] = "signing" => pc[s] = "signing" \/ AssertBundlerSimulates(s)
          /\ pc'[s] \in Granted => pc[s] \in Granted \/ Commit(s)
      BY <2>2 DEF Moves, validUntil
    <3>2. CASE AssertBundlerSimulates(s)
      <4>1. note'[s] = note[s] /\ spentBy[note[s]] = None /\ spentBy' = spentBy
        BY <3>2 DEF AssertBundlerSimulates, WithdrawWouldSucceed, chain
      <4> QED
        BY <4>1
    <3>3. CASE Commit(s)
      <4>1. pc[s] = "signing" /\ HeldBy(store, note[s], s) /\ UNCHANGED <<note, spentBy>>
        BY <3>3 DEF Commit, Goto, chain
      <4> QED
        BY <4>1 DEF GrantsUnspent
    <3>4. CASE pc[s] = "signing" /\ pc'[s] = "signing"
      <4>1. note[s] \in Notes /\ note'[s] = note[s] /\ pc[s] \in Checking
        BY <3>1, <3>4 DEF Inv, RequestNotes, Checking
      <4>2. HeldBy(store', note[s], s)
        BY <3>4, <4>1 DEF Granted
      <4>3. HeldBy(store, note[s], s)
        BY <4>1, <4>2, HeldBefore
      <4> QED
        BY <2>1, <3>4, <4>1, <4>3 DEF GrantsUnspent
    <3>5. CASE pc[s] \in Granted /\ pc'[s] \in Granted
      <4>1. note[s] \in Notes /\ note'[s] = note[s] /\ validUntil(s)' = validUntil(s)
            /\ validUntil(s) \in Nat
        BY <3>1, <3>5 DEF Inv, RequestNotes, TypeOK, Granted, validUntil
      <4>2. validUntil(s) >= now /\ outcome[s] = "none"
        BY <2>1, <3>5, <4>1 DEF Granted
      <4> QED
        BY <2>1, <3>5, <4>1, <4>2 DEF GrantsUnspent
    <3> QED
      BY <3>1, <3>2, <3>3, <3>4, <3>5
  <2>5. NeverPaysTwiceForNote'
    <3>1. \A s \in Requests : outcome[s] = "noteSpent" => note'[s] = note[s] /\ note[s] \in Notes
      BY <2>2 DEF SpentRecorded, Moves, Inv, RequestNotes
    <3> QED
      BY <2>1, <3>1 DEF NeverPaysTwiceForNote
  <2> QED
    BY <2>3, <2>4, <2>5
<1> QED
  BY <1>1, <1>2

\* The paymaster never pays for an operation whose note a sponsored operation
\* had already spent, as long as no block's timestamp trails the relayer's clock.
THEOREM NeverPaysTwice ==
    ASSUME ClockLag = 0
    PROVE  Spec => []NeverPaysTwiceForNote
<1>1. Init => PaidOnce
  <2> SUFFICES ASSUME Init PROVE PaidOnce
    OBVIOUS
  <2>1. RequestNotes /\ \A r \in Requests : outcome[r] = "none"
    BY InitTypes DEF Init
  <2>2. \A n \in Notes : spentBy[n] = None
    BY DEF Init
  <2>3. None \notin Requests
    BY ServiceAssumption
  <2> QED
    BY <2>1, <2>2, <2>3
    DEF PaidOnce, SpentRecorded, GrantsUnspent, NeverPaysTwiceForNote, RequestNotes, Granted
<1>2. Inv /\ PaidOnce /\ [Next]_vars => PaidOnce'
  BY NextPaidOnce
<1>3. PaidOnce => NeverPaysTwiceForNote
  BY DEF PaidOnce
<1> QED
  BY <1>1, <1>2, <1>3, InvHolds, PTL DEF Spec

-----------------------------------------------------------------------------
(* Every live signature is covered.  The budget compares an earlier answer  *)
(* of the node with the store as it is now; the strengthening says what the *)
(* deposit can have lost in between, and extends the promise to the         *)
(* requests the budget has let through and not signed yet.                  *)

Arrived == {r \in Requests : pc[r] # "new"}

SinceInPast == \A r \in Requests : since[r] <= now

\* Let through by the budget, not yet recorded, and still the owner of its note.
Cleared == {r \in Requests : /\ pc[r] \in ClearedSteps
                             /\ validUntil(r) >= now
                             /\ HeldBy(store, note[r], r)}

\* Landed, but still in the store, where the budget counts it.
LandedLive == {r \in Requests : /\ pc[r] = "issued"
                                /\ validUntil(r) >= now
                                /\ outcome[r] # "none"}

\* What the node answered is gone from the deposit only by landings still counted.
DepositAsSeen ==
    \A r \in Requests :
        pc[r] = "budget" => seen[r] <= deposit + SumFunctionOnSet(cost, LandedLive)

Covered(S) == S \ LegacyRequests # {} => deposit >= MinDepositWei + SumFunctionOnSet(cost, S)

BudgetInv ==
    /\ IsFiniteSet(Arrived)
    /\ SinceInPast
    /\ DepositAsSeen
    /\ Covered(Owed \cup Cleared)

\* The sets the sums range over are finite.
LEMMA FiniteSums ==
    ASSUME TypeOK, IsFiniteSet(Arrived), NEW S \in SUBSET Arrived
    PROVE  /\ IsFiniteSet(S)
           /\ \A r \in S : r \in Requests /\ cost[r] \in Nat
           /\ SumFunctionOnSet(cost, S) \in Nat
<1>1. IsFiniteSet(S)
  BY FS_Subset
<1>2. \A r \in S : r \in Requests /\ cost[r] \in Nat
  BY DEF Arrived, TypeOK
<1> QED
  BY <1>1, <1>2, SumType

LEMMA SetsArrived ==
    /\ Owed \subseteq Arrived
    /\ Cleared \subseteq Arrived
    /\ LandedLive \subseteq Arrived
BY DEF Owed, Cleared, LandedLive, Arrived, ClearedSteps

LEMMA NextArrived ==
    ASSUME TypeOK, [Next]_vars, IsFiniteSet(Arrived)
    PROVE  IsFiniteSet(Arrived')
<1>1. \A s \in Requests : Moves(s)
  BY NextMoves
<1>2. ASSUME NEW r \in Requests, NEW n \in Notes, NEW c \in GasCosts, Arrive(r, n, c)
      PROVE  IsFiniteSet(Arrived')
  <2>1. Arrived' = Arrived \cup {r}
    BY <1>2 DEF Arrived, Arrive, Goto, TypeOK
  <2> QED
    BY <2>1, FS_AddElement
<1>3. ASSUME ~ \E r \in Requests, n \in Notes, c \in GasCosts : Arrive(r, n, c)
      PROVE  IsFiniteSet(Arrived')
  <2>1. Arrived' \subseteq Arrived
    BY <1>1, <1>3 DEF Arrived, Moves
  <2> QED
    BY <2>1, FS_Subset
<1> QED
  BY <1>2, <1>3

\* The answer is used within the second: no landing leaves the count meanwhile.
LEMMA NextDepositAsSeen ==
    ASSUME ClockLag = 0, ~SlowDepositReads, Inv, BudgetInv, [Next]_vars,
           IsFiniteSet(Arrived'), TypeOK'
    PROVE  DepositAsSeen'
<1> USE ServiceAssumption
<1> SUFFICES ASSUME NEW s \in Requests, pc'[s] = "budget"
             PROVE  seen'[s] <= deposit' + SumFunctionOnSet(cost, LandedLive)'
  BY DEF DepositAsSeen
<1>1. \A r \in Requests : Moves(r)
  BY NextMoves DEF Inv
<1>2. /\ SumFunctionOnSet(cost, LandedLive) \in Nat
      /\ IsFiniteSet(LandedLive) /\ \A r \in LandedLive : r \in Requests /\ cost[r] \in Nat
  BY SetsArrived, FiniteSums DEF BudgetInv, Inv
<1>3. /\ IsFiniteSet(LandedLive') /\ \A r \in LandedLive' : cost'[r] \in Nat
      /\ SumFunctionOnSet(cost, LandedLive)' \in Nat
  <2>1. LandedLive' \subseteq Arrived'
    BY DEF LandedLive, Arrived
  <2>2. IsFiniteSet(LandedLive') /\ \A r \in LandedLive' : cost'[r] \in Nat
    BY <2>1, FS_Subset DEF Arrived, TypeOK
  <2> QED
    BY <2>2, SumType
<1>4. /\ deposit \in Nat /\ deposit' \in Nat /\ now \in Nat /\ seen[s] \in Nat
      /\ \A r \in Requests : validUntil(r) \in Nat
  BY DEF Inv, TypeOK, validUntil
<1>5. CASE ReadDeposit(s)
  <2>1. seen'[s] = deposit /\ deposit' = deposit
    BY <1>5 DEF ReadDeposit, chain, Inv, TypeOK
  <2> QED
    BY <1>3, <1>4, <2>1
<1>6. CASE pc[s] = "budget" /\ seen'[s] = seen[s]
  <2>1. ~Tick
    BY <1>6 DEF Tick
  <2>2. now' = now
    BY <2>1, ChainMoves DEF Inv
  <2>3. seen[s] <= deposit + SumFunctionOnSet(cost, LandedLive)
    BY <1>6 DEF BudgetInv, DepositAsSeen
  <2>4. \A r \in Requests : pc[r] = "issued" =>
           pc'[r] = "issued" /\ cost'[r] = cost[r] /\ validUntil(r)' = validUntil(r)
    BY <1>1 DEF Moves, validUntil
  <2>5. ASSUME NEW r \in Requests, NEW c \in GasCosts, Land(r, c)
        PROVE  seen'[s] <= deposit' + SumFunctionOnSet(cost, LandedLive)'
    <3>1. /\ r \notin LandedLive /\ c <= cost[r] /\ c \in Nat /\ cost[r] \in Nat
          /\ deposit' = deposit - c /\ cost' = cost
      BY <2>5 DEF Land, Live, LandedLive, local, Inv, TypeOK
    <3>2. pc[r] = "issued" /\ validUntil(r) >= now
      BY <1>4, <2>5 DEF Land, Live
    <3>3. outcome'[r] # "none" /\ \A q \in Requests : q # r => outcome'[q] = outcome[q]
      BY <2>5 DEF Land, Inv, TypeOK
    <3>4. LandedLive' = LandedLive \cup {r}
      <4>1. \A q \in Requests : pc'[q] = pc[q] /\ validUntil(q)' = validUntil(q)
        BY <2>5 DEF Land, local, validUntil
      <4> QED
        BY <2>2, <3>2, <3>3, <4>1 DEF LandedLive
    <3>5. SumFunctionOnSet(cost, LandedLive \cup {r})
             = cost[r] + SumFunctionOnSet(cost, LandedLive)
      BY <1>2, <3>1, SumAdd
    <3> QED
      BY <1>2, <1>4, <1>6, <2>3, <3>1, <3>4, <3>5
  <2>6. CASE deposit' >= deposit /\ outcome' = outcome
    <3>1. LandedLive \subseteq LandedLive'
      BY <2>2, <2>4, <2>6 DEF LandedLive
    <3>2. SumFunctionOnSet(cost', LandedLive) = SumFunctionOnSet(cost, LandedLive)
      <4>1. \A r \in LandedLive : cost'[r] = cost[r]
        BY <2>4 DEF LandedLive
      <4> QED
        BY <1>2, <4>1, SumSame
    <3>3. SumFunctionOnSet(cost', LandedLive) <= SumFunctionOnSet(cost', LandedLive')
      BY <1>3, <3>1, SumSubset
    <3> QED
      BY <1>2, <1>3, <1>4, <1>6, <2>3, <2>6, <3>2, <3>3
  <2> QED
    BY <2>5, <2>6, ChainMoves DEF Inv
<1> QED
  BY <1>1, <1>5, <1>6 DEF Moves

\* What the store still holds at time t is finite: each entry is of another request.
LEMMA OutstandingFinite ==
    ASSUME Inv, IsFiniteSet(Arrived), NEW t
    PROVE  IsFiniteSet(Outstanding(store, t))
<1> DEFINE O == Outstanding(store, t)
           owner == [n \in O |-> store[n].token]
<1>1. \A n \in O : /\ n \in Notes /\ Held(store, n)
                   /\ store[n].token \in Arrived /\ note[store[n].token] = n
  <2> TAKE n \in O
  <2>1. n \in Notes /\ Held(store, n)
    BY DEF Outstanding, LiveAt, Held
  <2>2. store[n].token \in Requests /\ store[n].status \in {"pending", "signed"}
    BY <2>1, EntryFacts DEF Inv, TypeOK
  <2> QED
    BY <2>1, <2>2 DEF Inv, StoreOwned, Arrived, Holding, Checking, Granted
<1>2. owner \in Injection(O, Arrived)
  <2>1. owner \in [O -> Arrived]
    BY <1>1
  <2>2. \A m, n \in O : owner[m] = owner[n] => m = n
    BY <1>1
  <2> HIDE DEF O, owner
  <2> QED
    BY <2>1, <2>2 DEF Injection, IsInjective
<1> HIDE DEF O, owner
<1>3. IsFiniteSet(O)
  BY <1>2, FS_Injection
<1> QED
  BY <1>3 DEF O

\* A request that holds its note and has not expired is counted by the budget, at its
\* own cost, if all costs are known.
LEMMA CountedByBudget ==
    ASSUME Inv, NEW t \in Nat, t <= now, CostsKnown(store, t),
           NEW s \in Requests, pc[s] # "new", HeldBy(store, note[s], s), validUntil(s) >= now
    PROVE  /\ note[s] \in Outstanding(store, t)
           /\ store[note[s]].maxGasCostWei = cost[s]
           /\ s \notin LegacyRequests
<1>1. note[s] \in Notes
  BY DEF Inv, RequestNotes
<1>2. store[note[s]] = EntryOf(s, store[note[s]].status)
  BY <1>1 DEF HeldBy, Inv, StoreOwned
<1>3. /\ store[note[s]].validUntil = validUntil(s)
      /\ store[note[s]].maxGasCostWei = IF s \in LegacyRequests THEN UnknownCost ELSE cost[s]
  BY <1>2 DEF EntryOf
<1>4. validUntil(s) >= t
  BY ServiceAssumption DEF Inv, TypeOK, validUntil
<1>5. note[s] \in Outstanding(store, t)
  BY <1>1, <1>3, <1>4 DEF Outstanding, LiveAt, HeldBy, Held
<1> QED
  BY <1>3, <1>5 DEF CostsKnown

\* The request the budget lets through, those let through before, the live signatures and
\* the landed ones are each counted once; so what is left covers all but the landed.
LEMMA BudgetCovers ==
    ASSUME ClockLag = 0, Inv, BudgetInv, NEW r \in Requests, AssertDepositCovers(r),
           NEW S \in SUBSET Arrived,
           \A s \in S : /\ HeldBy(store, note[s], s) /\ validUntil(s) >= now
                        /\ s \notin LandedLive
    PROVE  deposit >= MinDepositWei + SumFunctionOnSet(cost, S)
<1> USE ServiceAssumption
<1> DEFINE t == since[r]
           O == Outstanding(store, t)
           costs == [n \in O |-> IF store[n].maxGasCostWei = UnknownCost
                                 THEN 0 ELSE store[n].maxGasCostWei]
           P == S \cup LandedLive
<1>1. /\ pc[r] = "budget" /\ CostsKnown(store, t)
      /\ seen[r] >= CommittedGasCost(store, t) + MinDepositWei
  BY DEF AssertDepositCovers, DepositCovers, Goto
<1>2. t \in Nat /\ t <= now /\ up /\ deposit \in Nat /\ seen[r] \in Nat
  BY <1>1 DEF Inv, TypeOK, BudgetInv, SinceInPast, DownIsEmpty, Running, Checking
<1>3. P \subseteq Arrived /\ LandedLive \subseteq Arrived
  BY SetsArrived
<1>4. \A s \in P : /\ s \in Requests /\ pc[s] # "new"
                   /\ HeldBy(store, note[s], s) /\ validUntil(s) >= now
  BY <1>2, GrantLive DEF LandedLive, Granted, Arrived
<1>5. \A s \in P : /\ note[s] \in O /\ store[note[s]].maxGasCostWei = cost[s]
  BY <1>1, <1>2, <1>4, CountedByBudget
<1>6. IsFiniteSet(O) /\ \A n \in O : costs[n] \in Nat
  <2>1. IsFiniteSet(O)
    BY OutstandingFinite DEF BudgetInv
  <2>2. \A n \in O : n \in Notes /\ store[n] # NoEntry
    BY DEF Outstanding, LiveAt
  <2>3. \A n \in O : store[n].maxGasCostWei \in Nat \cup {UnknownCost}
    BY <2>2 DEF Inv, TypeOK, Stores, Entries, Costs
  <2> QED
    BY <2>1, <2>3
<1>7. /\ IsFiniteSet(P) /\ \A s \in P : cost[s] \in Nat
      /\ IsFiniteSet(S) /\ IsFiniteSet(LandedLive)
      /\ SumFunctionOnSet(cost, S) \in Nat /\ SumFunctionOnSet(cost, LandedLive) \in Nat
  BY <1>3, FiniteSums DEF BudgetInv, Inv
<1>8. SumFunctionOnSet(cost, P) <= SumFunctionOnSet(costs, O)
  <2>1. \A s \in P : note[s] \in O /\ cost[s] <= costs[note[s]]
    BY <1>5, <1>7, UnknownCostAssumption
  <2>2. \A s, q \in P : note[s] = note[q] => s = q
    BY <1>4 DEF HeldBy
  <2> HIDE DEF P, O, costs
  <2> QED
    BY <1>6, <1>7, <2>1, <2>2, SumInjection
<1>9. SumFunctionOnSet(cost, P) = SumFunctionOnSet(cost, S) + SumFunctionOnSet(cost, LandedLive)
  <2>1. S \cap LandedLive = {}
    OBVIOUS
  <2> QED
    BY <1>7, <2>1, SumUnion
<1>10. seen[r] >= SumFunctionOnSet(costs, O) + MinDepositWei
  BY <1>1 DEF CommittedGasCost
<1>11. SumFunctionOnSet(costs, O) \in Nat
  BY <1>6, SumType
<1>12. seen[r] <= deposit + SumFunctionOnSet(cost, LandedLive)
  BY <1>1 DEF BudgetInv, DepositAsSeen
<1> HIDE DEF costs, O, P, t
<1> QED
  BY <1>2, <1>7, <1>8, <1>9, <1>10, <1>11, <1>12

\* Without a request let through, the covered ones only get fewer.
LEMMA CoveredBefore ==
    ASSUME ClockLag = 0, Inv, [Next]_vars,
           ~ \E r \in Requests : AssertDepositCovers(r),
           NEW s \in Owed' \cup Cleared'
    PROVE  /\ s \in Owed \cup Cleared
           /\ cost'[s] = cost[s]
           /\ outcome'[s] = "none" \/ pc[s] # "issued"
<1> USE ServiceAssumption
<1>1. s \in Requests /\ Moves(s)
  BY NextMoves DEF Inv, Owed, Cleared
<1>2. now \in Nat /\ now' \in Nat /\ now' >= now /\ validUntil(s) \in Nat /\ validUntil(s)' \in Nat
  BY <1>1, ChainMoves DEF Inv, TypeOK, validUntil, Moves
<1>3. outcome'[s] = "none" => outcome[s] = "none"
  <2>1. ASSUME NEW r \in Requests, NEW c \in GasCosts, Land(r, c)
        PROVE  outcome'[s] = outcome[s] \/ outcome'[s] # "none"
    BY <1>1, <2>1 DEF Land, Inv, TypeOK
  <2> QED
    BY <2>1, ChainMoves DEF Inv
<1>4. CASE s \in Owed'
  <2>1. /\ pc'[s] \in {"replying", "issued"} /\ validUntil(s)' >= now' /\ outcome[s] = "none"
        /\ outcome'[s] = "none"
    BY <1>2, <1>3, <1>4 DEF Owed, validUntil, Inv, TypeOK
  <2>2. CASE Commit(s)
    <3>1. /\ pc[s] = "signing" /\ HeldBy(store, note[s], s)
          /\ cost' = cost /\ validUntil(s)' = validUntil(s)
      BY <2>2 DEF Commit, Goto, validUntil
    <3> QED
      BY <1>1, <1>2, <2>1, <3>1 DEF Cleared, ClearedSteps
  <2>3. CASE pc[s] \in {"replying", "issued"}
    <3>1. validUntil(s)' = validUntil(s) /\ cost'[s] = cost[s]
      BY <1>1, <2>3 DEF Moves, validUntil
    <3> QED
      BY <1>1, <1>2, <2>1, <2>3, <3>1 DEF Owed
  <2> QED
    BY <1>1, <2>1, <2>2, <2>3 DEF Moves
<1>5. CASE s \in Cleared'
  <2>1. pc[s] \in ClearedSteps
    BY <1>1, <1>5 DEF Cleared, Moves
  <2>2. note'[s] = note[s] /\ cost'[s] = cost[s] /\ validUntil(s)' = validUntil(s)
    BY <1>1, <2>1 DEF Moves, validUntil, ClearedSteps
  <2>3. validUntil(s)' >= now' /\ HeldBy(store', note'[s], s)
    BY <1>5 DEF Cleared, HeldBy, Held
  <2>4. HeldBy(store, note[s], s)
    <3>1. HeldBy(store', note[s], s) /\ pc[s] \in Checking
      BY <2>1, <2>2, <2>3 DEF ClearedSteps, Checking
    <3> QED
      BY <1>1, <3>1, HeldBefore
  <2> QED
    BY <1>1, <1>2, <2>1, <2>2, <2>3, <2>4 DEF Cleared, ClearedSteps
<1> QED
  BY <1>4, <1>5

LEMMA NextCovered ==
    ASSUME ClockLag = 0, Inv, BudgetInv, [Next]_vars, TypeOK', IsFiniteSet(Arrived')
    PROVE  Covered(Owed \cup Cleared)'
<1> USE ServiceAssumption
<1> DEFINE S == Owed \cup Cleared
<1>1. /\ S \subseteq Arrived /\ IsFiniteSet(S)
      /\ \A s \in S : s \in Requests /\ cost[s] \in Nat
      /\ deposit \in Nat /\ deposit' \in Nat
  BY SetsArrived, FiniteSums DEF BudgetInv, Inv, TypeOK
<1>2. ASSUME NEW r \in Requests, AssertDepositCovers(r)
      PROVE  Covered(Owed \cup Cleared)'
  <2>1. /\ pc[r] = "budget" /\ pc' = [pc EXCEPT ![r] = "registry"]
        /\ UNCHANGED <<now, up, store, note, cost, since, outcome, deposit>>
    BY <1>2 DEF AssertDepositCovers, Goto, process, chain
  <2>2. up
    BY <2>1 DEF Inv, DownIsEmpty, Running, Checking
  <2>3. \A s \in Requests : s # r => pc'[s] = pc[s]
    BY <2>1 DEF Inv, TypeOK
  <2>4. pc'[r] = "registry"
    BY <2>1 DEF Inv, TypeOK
  <2>5. now \in Nat /\ \A s \in Requests : validUntil(s) \in Nat /\ validUntil(s)' = validUntil(s)
    BY <2>1 DEF Inv, TypeOK, validUntil
  <2>6. \A s \in Owed' : /\ s \in Owed /\ s # r /\ validUntil(s) >= now
                         /\ HeldBy(store, note[s], s) /\ s \notin LandedLive /\ s \in Arrived
    <3> TAKE s \in Owed'
    <3>1. s \in Requests /\ s # r /\ s \in Owed /\ validUntil(s) >= now
      BY <2>1, <2>3, <2>4, <2>5 DEF Owed
    <3>2. HeldBy(store, note[s], s)
      BY <2>2, <3>1, GrantLive DEF Owed, Granted
    <3> QED
      BY <3>1, <3>2 DEF Owed, LandedLive, Arrived
  <2>7. \A s \in Cleared' : /\ validUntil(s) >= now /\ HeldBy(store, note[s], s)
                            /\ s \notin LandedLive /\ s \in Arrived
    <3> TAKE s \in Cleared'
    <3>1. s \in Requests /\ validUntil(s) >= now /\ HeldBy(store, note[s], s)
      BY <2>1, <2>5 DEF Cleared, HeldBy, Held
    <3>2. pc[s] \in ClearedSteps \cup {"budget"}
      BY <2>1, <2>3 DEF Cleared
    <3> QED
      BY <3>1, <3>2 DEF ClearedSteps, LandedLive, Arrived
  <2>8. Owed' \cup Cleared' \in SUBSET Arrived
    BY <2>6, <2>7
  <2>9. deposit >= MinDepositWei + SumFunctionOnSet(cost, Owed' \cup Cleared')
    <3> DEFINE T == Owed' \cup Cleared'
    <3>1. \A s \in T : /\ HeldBy(store, note[s], s) /\ validUntil(s) >= now
                       /\ s \notin LandedLive
      BY <2>6, <2>7
    <3>2. T \in SUBSET Arrived
      BY <2>8
    <3> HIDE DEF T
    <3>3. deposit >= MinDepositWei + SumFunctionOnSet(cost, T)
      BY <1>2, <3>1, <3>2, BudgetCovers
    <3> QED
      BY <3>3 DEF T
  <2> QED
    BY <2>1, <2>9 DEF Covered
<1>3. ASSUME ~ \E r \in Requests : AssertDepositCovers(r)
      PROVE  Covered(Owed \cup Cleared)'
  <2> DEFINE T == Owed' \cup Cleared'
  <2>1. \A s \in T : s \in S /\ cost'[s] = cost[s]
    BY <1>3, CoveredBefore
  <2> SUFFICES ASSUME T \ LegacyRequests # {}
               PROVE  deposit' >= MinDepositWei + SumFunctionOnSet(cost', T)
    BY DEF Covered
  <2>2. deposit >= MinDepositWei + SumFunctionOnSet(cost, S)
    BY <2>1 DEF BudgetInv, Covered
  <2>3. T \in SUBSET S /\ IsFiniteSet(T) /\ SumFunctionOnSet(cost, T) \in Nat
        /\ SumFunctionOnSet(cost, S) \in Nat
        /\ SumFunctionOnSet(cost, T) <= SumFunctionOnSet(cost, S)
    <3>1. T \in SUBSET S
      BY <2>1
    <3>2. IsFiniteSet(T)
      BY <1>1, <3>1, FS_Subset
    <3> HIDE DEF T, S
    <3> QED
      BY <1>1, <3>1, <3>2, SumSubset
  <2>4. SumFunctionOnSet(cost', T) = SumFunctionOnSet(cost, T)
    <3>1. \A s \in T : cost[s] \in Nat /\ cost'[s] = cost[s]
      BY <1>1, <2>1
    <3> HIDE DEF T, S
    <3> QED
      BY <2>3, <3>1, SumSame
  <2>5. ASSUME NEW r \in Requests, NEW c \in GasCosts, Land(r, c)
        PROVE  deposit' >= MinDepositWei + SumFunctionOnSet(cost', T)
    <3>1. /\ deposit' = deposit - c /\ c <= cost[r] /\ c \in Nat
          /\ pc[r] = "issued" /\ outcome'[r] # "none"
      BY <2>5 DEF Land, Live, Inv, TypeOK
    <3>2. r \in S
      BY <2>5 DEF Land, Live, Owed
    <3>3. r \notin T
      BY <1>3, <3>1, CoveredBefore
    <3> HIDE DEF T, S
    <3>4. SumFunctionOnSet(cost, S) = cost[r] + SumFunctionOnSet(cost, S \ {r})
          /\ SumFunctionOnSet(cost, S \ {r}) \in Nat
      BY <1>1, <3>2, SumRemove
    <3>5. SumFunctionOnSet(cost, T) <= SumFunctionOnSet(cost, S \ {r})
      <4>1. T \in SUBSET (S \ {r}) /\ IsFiniteSet(S \ {r})
        BY <1>1, <2>3, <3>3, FS_Subset
      <4> QED
        BY <1>1, <4>1, SumSubset
    <3>6. cost[r] \in Nat
      BY <1>1, <3>2
    <3> QED
      BY <1>1, <2>2, <2>3, <2>4, <3>1, <3>4, <3>5, <3>6
  <2>6. CASE deposit' >= deposit
    <3> HIDE DEF T, S
    <3> QED
      BY <1>1, <2>2, <2>3, <2>4, <2>6
  <2> QED
    BY <2>5, <2>6, ChainMoves DEF Inv
<1> QED
  BY <1>2, <1>3

LEMMA InitBudget == Init => BudgetInv
<1> SUFFICES ASSUME Init PROVE BudgetInv
  OBVIOUS
<1> USE ServiceAssumption
<1>1. IsFiniteSet(Arrived)
  <2>1. Arrived \subseteq LegacyRequests
    BY DEF Init, Arrived
  <2> QED
    BY <2>1, FS_Subset
<1>2. SinceInPast
  BY DEF Init, SinceInPast
<1>3. DepositAsSeen /\ Covered(Owed \cup Cleared)
  <2>1. \A r \in Requests : /\ r \in LegacyRequests => pc[r] = "issued"
                            /\ r \notin LegacyRequests => pc[r] = "new"
    BY DEF Init
  <2> QED
    BY <2>1 DEF DepositAsSeen, Covered, Owed, Cleared, ClearedSteps
<1> QED
  BY <1>1, <1>2, <1>3 DEF BudgetInv

LEMMA NextBudget ==
    ASSUME ClockLag = 0, ~SlowDepositReads, Inv, BudgetInv, [Next]_vars
    PROVE  BudgetInv'
<1>1. TypeOK'
  BY NextTypes DEF Inv
<1>2. IsFiniteSet(Arrived')
  BY NextArrived DEF Inv, BudgetInv
<1>3. SinceInPast'
  <2> SUFFICES ASSUME NEW s \in Requests
               PROVE  since'[s] <= now'
    BY DEF SinceInPast
  <2>1. since[s] <= now /\ since[s] \in Nat /\ now \in Nat
    BY DEF BudgetInv, SinceInPast, Inv, TypeOK
  <2>2. since'[s] \in {since[s], now}
    BY NextMoves DEF Moves, Inv
  <2>3. now' \in Nat /\ now' >= now
    BY ChainMoves DEF Inv
  <2> QED
    BY <2>1, <2>2, <2>3
<1>4. DepositAsSeen' /\ Covered(Owed \cup Cleared)'
  BY <1>1, <1>2, NextDepositAsSeen, NextCovered
<1> QED
  BY <1>2, <1>3, <1>4 DEF BudgetInv

\* The deposit budget: while a signature of this release is live, the deposit covers
\* every live signature at its full cost and keeps its reserve - as long as no block's
\* timestamp trails the relayer's clock and the node's answer is used within the second.
THEOREM EveryLiveSignatureCovered ==
    ASSUME ClockLag = 0, ~SlowDepositReads
    PROVE  Spec => []LiveSignaturesCovered
<1>1. Init => BudgetInv
  BY InitBudget
<1>2. Inv /\ BudgetInv /\ [Next]_vars => BudgetInv'
  BY NextBudget
<1>3. Inv /\ BudgetInv => LiveSignaturesCovered
  <2> SUFFICES ASSUME Inv, BudgetInv, Owed \ LegacyRequests # {}
               PROVE  deposit >= MinDepositWei + SumFunctionOnSet(cost, Owed)
    BY DEF LiveSignaturesCovered
  <2> DEFINE S == Owed \cup Cleared
  <2>1. deposit >= MinDepositWei + SumFunctionOnSet(cost, S)
    BY DEF BudgetInv, Covered
  <2>2. S \subseteq Arrived /\ Owed \in SUBSET S
    BY SetsArrived
  <2> HIDE DEF S
  <2>3. IsFiniteSet(S) /\ \A s \in S : cost[s] \in Nat
    BY <2>2, FiniteSums DEF BudgetInv, Inv
  <2>4. /\ SumFunctionOnSet(cost, Owed) <= SumFunctionOnSet(cost, S)
        /\ SumFunctionOnSet(cost, Owed) \in Nat /\ SumFunctionOnSet(cost, S) \in Nat
    BY <2>2, <2>3, SumSubset
  <2>5. deposit \in Nat /\ MinDepositWei \in Int
    BY ServiceAssumption DEF Inv, TypeOK
  <2> QED
    BY <2>1, <2>4, <2>5
<1> QED
  BY <1>1, <1>2, <1>3, InvHolds, PTL DEF Spec

=============================================================================
