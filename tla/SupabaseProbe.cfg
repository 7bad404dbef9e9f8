\* A probe more often than the longest backoff, as 10 s against 60 s.
CONSTANTS
    Callers = {c1, c2}
    NoCaller = NoCaller
    Prober = c1
    ProbePeriod = 2
    Ops = {"save", "ping"}
    BackoffBase = 1
    BackoffMax = 4
    MaxCounted = 3

SPECIFICATION PSpec

PROPERTY Reconnects
