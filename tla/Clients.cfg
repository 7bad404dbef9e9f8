\* Two tasks that authenticate, of which one waits while the other fetches,
\* and one download; three clients are as many as there can be.
CONSTANTS
    Verifiers = {v1, v2}
    NoVerifier = NoVerifier
    Ttl = 2
    MaxRotations = 1
    Downloads = {d1}
    MaxRedirects = 1
    MaxBytes = 2

SPECIFICATION Spec

INVARIANTS
    TypeOK
    SharedClient
    KeysRecent

PROPERTIES
    FetchOnlyWhenStale
    EveryoneEnds
