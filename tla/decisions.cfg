\* Four posts, updates, forum messages and restarts in all, two of them updates and
\* one a restart at the most; polls of up to two, sorted either way.
SPECIFICATION FairDecisions
CONSTANTS
    Ids = {"d1"}
    Options = {"o1"}
    Typed = {"o1"}
    Tapped = {"o1"}
    Limit = 2
    MaxTraffic = 4
    MaxUpdates = 2
    MaxRestarts = 1
CHECK_DEADLOCK FALSE
INVARIANTS
    RelayedInv
    NonePassedOver
PROPERTIES
    DiscordInOrder
    EveryUpdateIsHandled
