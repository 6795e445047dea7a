-------------------------- MODULE SponsorshipLedger --------------------------
(***************************************************************************)
(* What the sponsorship store promises, without the store (the contract    *)
(* written above SponsorshipStore in service.ts): grants of paymaster      *)
(* signatures, each for one note until some time, are only ever added; a   *)
(* note is granted again only when its last grant has expired; a grant is  *)
(* used at most once and before it expires.  Requests, refusals, files and *)
(* crashes do not exist at this level.                                     *)
(***************************************************************************)
EXTENDS Naturals

VARIABLES
    now,
    grants,   \* set of [note, request, until]
    used      \* requests whose operation landed

ledger == <<now, grants, used>>

ExpiredFor(n) == \A g \in grants : g.note = n => g.until < now

Init ==
    /\ now = 0
    /\ \A g, h \in grants : g.note = h.note \/ g.request = h.request => g = h
    /\ used = {}

Grant ==
    \E g \in grants' :
        /\ ExpiredFor(g.note)
        /\ \A h \in grants : h.request # g.request
        /\ grants' = grants \cup {g}
        /\ UNCHANGED <<now, used>>

Use ==
    \E g \in grants :
        /\ g.until >= now
        /\ g.request \notin used
        /\ used' = used \cup {g.request}
        /\ UNCHANGED <<now, grants>>

Tick == now' = now + 1 /\ UNCHANGED <<grants, used>>

Next == Grant \/ Use \/ Tick

Spec == Init /\ [][Next]_ledger

=============================================================================
