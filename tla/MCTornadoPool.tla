---------------------------- MODULE MCTornadoPool ----------------------------
EXTENDS TornadoPool, TLC

CONSTANTS c1, c2, c3, c4

\* c1 and c2 were made with the same nullifier.
SharedNullifier == [c \in Commitments |-> IF c = c2 THEN c1 ELSE c]

=============================================================================
