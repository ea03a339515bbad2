\* Two sessions, two publishers, two levels, a second of two ticks and two messages:
\* two records of the limits map fall into one second.
SPECIFICATION Spec
CONSTANTS
    Sessions = {s1, s2}
    Publishers = {p1, p2}
    MaxLevel = 1
    Second = 2
    Rate = 2
    Durations = {1, 2}
    MaxTime = 2
SYMMETRY Symmetry
INVARIANTS
    TraceInv
    RateIsBounded
