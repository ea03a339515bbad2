\* One connection and four messages, for a queue of two and a socket that holds one: the
\* queue overflows, the client leaves, and is slow or quick.
SPECIFICATION FairSpec
CONSTANTS
    c1 = c1
    c2 = c2
    news = news
    audit = audit
    Conns = {c2}
    Topics = {news, audit}
    Pattern <- Patterns
    Scopes <- TokenScopes
    Capacity = 2
    WireCapacity = 1
    MaxMessages = 4
CHECK_DEADLOCK FALSE
INVARIANTS
    SubscriptionInv
    DeliveredInOrder
    DeliveredWithoutGap
    SenderSleepsOnEmpty
PROPERTIES
    QueuedIsDelivered
    ClosedIsReleased
