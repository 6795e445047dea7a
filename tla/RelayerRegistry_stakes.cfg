\* Two relayers and a third account that works for either, address(0), and TORN for two
\* stakes.  The only name is the empty one: no registration shows in an ensHash, and what a
\* relayer named otherwise may do, one with this name may.
CONSTANTS
    Accounts = {a1, a2, a3}
    NoAddress = NoAddress
    Names = {e0}
    NoName = e0
    Pools = {p1}
    Routers = {r1}
    Fees = {1}
    Stakes = {1}
    Limits = {0}
    MaxTorn = 1
    MaxPaidIn = 2
    MaxTime = 2
SYMMETRY Symmetry
SPECIFICATION Spec
INVARIANTS
    TypeOK
    WorkersResolve
    StakeAccounted
PROPERTIES
    MastersStay
    StakeBurnedForOwner
