\* Two tasks, one key: one reads an expired row while the other replaces it.
\* A release brings a second migration.
CONSTANTS
    Callers = {c1, c2}
    Keys = {k}
    Values = {v1, v2}
    NoRow = NoRow
    Ttl = 1
    LastVersion = 2

SPECIFICATION Spec

INVARIANTS
    TypeOK
    RecordedIsApplied
    ServesMigrated

PROPERTIES
    HonestHits
    Settles
