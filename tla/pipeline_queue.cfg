\* Four decisions and a perishable event in front of a queue of two: every step of the
\* handlers, the workers and the purge, with failures.
SPECIFICATION Spec
CONSTANTS
    Messages = {d1, d2, d3, d4, e1}
    Decisions = {d1, d2, d3, d4}
    Queryable = {e1}
    Perishable = {e1}
    Capacity = 2
    BatchSize = 2
    Attempts = 2
    MaxFaults = 2
SYMMETRY DecisionSymmetry
CHECK_DEADLOCK FALSE
INVARIANTS
    PipelineInv
    NoStrandedPublisher
    WriterSleepsOnEmpty
    PersistedInOrder
