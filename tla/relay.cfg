\* Two links, either of which may drop or carry another key, and one remote client, which
\* is a request or a stream.
SPECIFICATION FairSpec
CONSTANTS
    MaxLinks = 2
    Requests = {r1}
    Streams = {s1}
    Parties = {{r1}, {s1}}
    MaxData = 1
CHECK_DEADLOCK FALSE
INVARIANTS
    LinkInv
    OfflineMeansNotExecuted
PROPERTIES
    CleanupSparesNewerLink
    OrphanBridgeStops
    ReplacedLinkCloses
