\* Two agents and a sweep race for one task.
SPECIFICATION Spec
CONSTANTS
    Agents = {a1, a2}
    Tasks = {t1}
    Nobody = Nobody
    Leases = {0, 1}
    DefaultLease = 2
    Postings <- OpenAndImported
    MaxTime = 4
    Horizon = 100
    MaxFaults = 1
SYMMETRY AgentSymmetry
INVARIANTS
    LeaseInv
PROPERTIES
    LiveLeaseKept
    FinishedStays
    ImplementsBoard
