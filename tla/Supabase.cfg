\* Three tasks: one creates, one waits, one fails on the client before.
\* The handlers of get and delete are those of list.
CONSTANTS
    Callers = {c1, c2, c3}
    NoCaller = NoCaller
    Ops = {"save", "ping", "list"}
    BackoffBase = 1
    BackoffMax = 3
    MaxCounted = 3

SPECIFICATION Spec

INVARIANTS
    TypeOK
    OneCreation
    HealthyMeansNoFailures

PROPERTIES
    NoHerd
    WaitersProceed
