\* Symmetry is left out: the run checks a liveness property.
CONSTANTS
    Threshold = 5
    CooldownSec = 30
    Callers = {c1, c2, c3, c4}

SPECIFICATION Spec

INVARIANTS
    TypeOK
    Coherent
    ArmedByStreak
    OvershootBound

PROPERTY CooldownEnds
