\* Three tasks: one asks, one waits, one is cut off.  A second of two ticks
\* leaves a wait that is shorter than a second.
CONSTANTS
    Callers = {c1, c2, c3}
    NoCaller = NoCaller
    Places = {p}
    Second = 2
    Ttl = 2

SPECIFICATION Spec

INVARIANTS
    TypeOK
    OneAtATime

PROPERTIES
    PacedAfterAnswer
    EveryoneServed
