\* Two requests that share the breakers of one service of each phase, of the
\* two with the most ways to end.  A breaker opens at the first failure, so that
\* every request may meet it closed, open and half-open.
CONSTANTS
    Threshold = 1
    CooldownSec = 1
    Requests = {r1, r2}
    Phase1 = {"mission"}
    Phase2 = {"describer"}

SPECIFICATION Spec

INVARIANTS
    TypeOK
    GapsExplained
    EndsClean

PROPERTIES
    ImplementsSafeCall
    RequestsEnd
