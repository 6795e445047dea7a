-------------------------- MODULE MCRelayerService --------------------------
(* Instances of RelayerService for TLC. *)
EXTENDS RelayerService, TLC

\* Requests that start alike, and notes, are interchangeable.
Symmetry == Permutations(Requests \ LegacyRequests) \cup Permutations(Notes)

=============================================================================
