------------------------------- MODULE NotePool -------------------------------
(***************************************************************************)
(* What a pool promises, without tree, hashes and roots (what Tornado.sol  *)
(* says of deposit and withdraw): notes are put in, each once, and stay    *)
(* in; a note that is in takes one denomination out, which is there; no    *)
(* other note of the same nullifier takes another.  Which roots a proof    *)
(* may be made for does not exist at this level.                           *)
(***************************************************************************)
EXTENDS Integers

CONSTANTS Commitments, nullifierOf, Denomination

VARIABLES
    deposited,    \* the notes put in
    spent,        \* the nullifiers taken out
    holdings

notes == <<deposited, spent, holdings>>

Init == deposited = {} /\ spent = {} /\ holdings = 0

Deposit(c) ==
    /\ c \notin deposited
    /\ deposited' = deposited \cup {c}
    /\ holdings' = holdings + Denomination
    /\ UNCHANGED spent

Withdraw(c) ==
    /\ nullifierOf[c] \notin spent
    /\ spent' = spent \cup {nullifierOf[c]}
    /\ holdings >= Denomination
    /\ holdings' = holdings - Denomination
    /\ UNCHANGED deposited

Next ==
    \/ \E c \in Commitments : Deposit(c)
    \/ \E c \in deposited : Withdraw(c)

Spec == Init /\ [][Next]_notes

=============================================================================
