\* The breakers' own threshold and cooldown.
CONSTANTS
    Threshold = 5
    CooldownSec = 30
    Requests = {r1}
    Phase1 = {}
    Phase2 = {"describer", "context"}

SPECIFICATION Spec

INVARIANT ContextFailuresOpen
