\* A probe less often than the longest backoff.
CONSTANTS
    Callers = {c1, c2}
    NoCaller = NoCaller
    Prober = c1
    ProbePeriod = 5
    Ops = {"save", "ping"}
    BackoffBase = 1
    BackoffMax = 4
    MaxCounted = 3

SPECIFICATION PSpec

PROPERTY Reconnects
