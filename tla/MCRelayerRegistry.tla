-------------------------- MODULE MCRelayerRegistry --------------------------
EXTENDS RelayerRegistry, TLC

\* Accounts, and routers, are told apart by nothing but the state.
Symmetry == Permutations(Accounts) \cup Permutations(Routers)

=============================================================================
