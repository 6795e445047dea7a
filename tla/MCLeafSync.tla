----------------------------- MODULE MCLeafSync -----------------------------
EXTENDS LeafSync, TLC

\* Either everything is in order, or nothing need be.
BestAndWorst == {[lagging |-> FALSE, legacy |-> FALSE], [lagging |-> TRUE, legacy |-> TRUE]}

\* Good nodes, and a file of an earlier release.
OldFile == {[lagging |-> FALSE, legacy |-> TRUE]}

\* A run differs from another only by what it has done.
Symmetry == Permutations(Runs)

=============================================================================
