\* Four decisions in front of a queue of two that the worker empties at once.
SPECIFICATION FairSpec
CONSTANTS
    Messages = {d1, d2, d3, d4}
    Decisions = {d1, d2, d3, d4}
    Queryable = {d1}
    Perishable = {}
    Capacity = 2
    BatchSize = 2
    Attempts = 1
    MaxFaults = 1
CHECK_DEADLOCK FALSE
PROPERTIES
    BlockedPublishReturns
    QueuedIsSettled
