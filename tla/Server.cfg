\* An ordinary request, a probe and two batches of up to two items: requests
\* end in any order around the drain, a probe clears the event again, and one
\* batch is cut off in the middle while another is still being authenticated.
CONSTANTS
    Users = {u}
    Probes = {p}
    Batches = {b1, b2}
    MaxItems = 2
    MaxPolls = 2
    BatchConcurrency = 3

SPECIFICATION Spec

INVARIANTS
    TypeOK
    CountersExact
    CleanDrain
    DrainedBatchesStayIdle
    RepliesAddUp

PROPERTIES
    NoItemAfterSigterm
    ShutdownCompletes

\* A stopped process takes no further step.
CHECK_DEADLOCK FALSE
