\* Two daemons that may start at once; three tokens: the owner's and two starts of the connectors,
\* or one that is created. One sealed request that may arrive many times, and one interruption.
SPECIFICATION Spec
CONSTANTS
    Tokens = {t1, t2, t3}
    Daemons = {d1, d2}
    RequireAuth = TRUE
    Window = 1
    MaxTime = 3
    MaxSealed = 1
    MaxFaults = 1
SYMMETRY Symmetries
CHECK_DEADLOCK FALSE
INVARIANTS
    ConnectorsInv
    ReplaysAreBounded
PROPERTIES
    BootstrapHandsOutOne
