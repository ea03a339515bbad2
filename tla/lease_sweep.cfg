\* One agent, two tasks: a sweep that has several rows to reopen and announce.
SPECIFICATION FairSpec
CONSTANTS
    Agents = {a1}
    Tasks = {t1, t2}
    Nobody = Nobody
    Leases = {0}
    DefaultLease = 1
    Postings <- OpenAndImported
    MaxTime = 3
    Horizon = 100
    MaxFaults = 1
PROPERTIES
    ReopenedIsAnnounced
    CrashedClaimEnds
