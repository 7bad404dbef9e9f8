--------------------------- MODULE SupabaseProofs ---------------------------
(***************************************************************************)
(* The safety of the shared client for any set of tasks, any operations    *)
(* and any backoff.                                                        *)
(***************************************************************************)
EXTENDS Supabase, FiniteSetTheorems, SequenceTheorems, TLAPS

\* The parts of the type invariant that the properties rest on; the queue
\* only decides who goes on, not what happens to the client.
CoreType ==
    /\ client \in BOOLEAN
    /\ failures \in 0..MaxCounted
    /\ owner \in Callers \cup {NoCaller}
    /\ pc \in [Callers -> PCs]

IInv == CoreType /\ OneCreation /\ HealthyMeansNoFailures

\* A handler that leaves the globals alone or resets the client.
LEMMA ResetOrKeep ==
    ASSUME CoreType, HealthyMeansNoFailures,
           Keep \/ \E n \in {1, 2} : ResetTimes(n)
    PROVE  /\ client' \in BOOLEAN /\ failures' \in 0..MaxCounted
           /\ HealthyMeansNoFailures'
           /\ client' => client
  <1>1. CASE Keep
    BY <1>1 DEF Keep, globals, CoreType, HealthyMeansNoFailures
  <1>2. CASE \E n \in {1, 2} : ResetTimes(n)
    <2>1. client' = FALSE  BY <1>2 DEF ResetTimes
    <2>2. failures' \in 0..MaxCounted
      BY <1>2, BackoffAssumption DEF ResetTimes, CoreType
    <2> QED  BY <2>1, <2>2 DEF HealthyMeansNoFailures
  <1> QED  BY <1>1, <1>2

LEMMA HandleIsResetOrKeep ==
    ASSUME NEW o, NEW e, Handle(o, e)
    PROVE  Keep \/ \E n \in {1, 2} : ResetTimes(n)
  BY DEF Handle

\* A task that neither creates nor begins to, while the lock stays with its
\* owner and the client is kept or dropped.
LEMMA Bystander ==
    ASSUME IInv, NEW c \in Callers, NEW p \in PCs \ {"creating"},
           pc[c] # "creating", pc' = [pc EXCEPT ![c] = p], owner' = owner,
           Keep \/ \E n \in {1, 2} : ResetTimes(n)
    PROVE  IInv'
  <1>1. /\ client' \in BOOLEAN /\ failures' \in 0..MaxCounted
        /\ HealthyMeansNoFailures'
        /\ client' => client
    BY ResetOrKeep DEF IInv
  <1>2. CoreType'  BY <1>1 DEF IInv, CoreType
  <1>3. OneCreation'  BY <1>1 DEF IInv, CoreType, OneCreation
  <1> QED  BY <1>1, <1>2, <1>3 DEF IInv

\* A task that holds the lock, or has just been given it, leaves it.
LEMMA Unlocks ==
    ASSUME IInv, NEW c \in Callers, NEW p \in PCs \ {"creating"},
           pc' = [pc EXCEPT ![c] = p], owner \in {NoCaller, c}, owner' = NoCaller,
           client' \in BOOLEAN, failures' \in 0..MaxCounted, HealthyMeansNoFailures'
    PROVE  IInv'
  <1>1. CoreType'  BY DEF IInv, CoreType
  <1>2. OneCreation'
    BY NoCallerAssumption DEF IInv, CoreType, OneCreation
  <1> QED  BY <1>1, <1>2 DEF IInv

\* get_client from the moment the lock is free for c.
LEMMA LockedBodyIInv ==
    ASSUME IInv, NEW c \in Callers, NEW o, owner = NoCaller, LockedBody(c, o)
    PROVE  IInv'
  <1>1. CASE /\ client /\ Keep /\ owner' = NoCaller
             /\ Performs(c, o, "querying")
    BY <1>1, Unlocks, ResetOrKeep DEF IInv, Performs, PCs
  <1>2. CASE /\ Handle(o, "connection") /\ owner' = NoCaller
             /\ Performs(c, o, "idle")
    BY <1>2, Unlocks, ResetOrKeep, HandleIsResetOrKeep DEF IInv, Performs, PCs
  <1>3. CASE /\ ~client /\ Keep /\ owner' = c
             /\ Performs(c, o, "creating")
    <2>1. pc' = [pc EXCEPT ![c] = "creating"] /\ client' = client /\ failures' = failures
      BY <1>3 DEF Performs, Keep, globals
    <2>2. CoreType'  BY <1>3, <2>1 DEF IInv, CoreType, PCs
    <2>3. OneCreation'
      BY <1>3, <2>1, NoCallerAssumption DEF IInv, CoreType, OneCreation
    <2> QED  BY <2>1, <2>2, <2>3 DEF IInv, HealthyMeansNoFailures
  <1> QED  BY <1>1, <1>2, <1>3 DEF LockedBody

LEMMA StartIInv ==
    ASSUME IInv, NEW c \in Callers, NEW o \in Ops, Start(c, o)
    PROVE  IInv'
  <1>1. CASE client /\ Keep /\ Performs(c, o, "querying") /\ UNCHANGED lock
    BY <1>1, Bystander DEF Performs, PCs, Start, lock
  <1>2. CASE Keep /\ Performs(c, o, "waiting") /\ UNCHANGED owner
    BY <1>2, Bystander DEF Performs, PCs, Start
  <1>3. CASE owner = NoCaller /\ LockedBody(c, o)
    BY <1>3, LockedBodyIInv
  <1> QED  BY <1>1, <1>2, <1>3 DEF Start

LEMMA CreateIInv ==
    ASSUME IInv, NEW c \in Callers, Create(c)
    PROVE  IInv'
  <1>1. owner = c  BY DEF IInv, OneCreation, Create
  <1>2. client' \in BOOLEAN /\ failures' \in 0..MaxCounted /\ HealthyMeansNoFailures'
    BY BackoffAssumption DEF Create, HealthyMeansNoFailures
  <1> QED  BY <1>1, <1>2, Unlocks DEF Create, Performs, PCs

LEMMA CreateFailsIInv ==
    ASSUME IInv, NEW c \in Callers, CreateFails(c)
    PROVE  IInv'
  <1>1. owner = c  BY DEF IInv, OneCreation, CreateFails
  <1>2. \E n \in {1, 2} : ResetTimes(n)  BY DEF CreateFails
  <1>3. client' \in BOOLEAN /\ failures' \in 0..MaxCounted /\ HealthyMeansNoFailures'
    BY <1>2, ResetOrKeep DEF IInv
  <1> QED  BY <1>1, <1>3, Unlocks DEF CreateFails, Performs, PCs

LEMMA CancelIInv ==
    ASSUME IInv, NEW c \in Callers, Cancel(c)
    PROVE  IInv'
  <1>1. CASE owner = c
    <2>1. client' \in BOOLEAN /\ failures' \in 0..MaxCounted /\ HealthyMeansNoFailures'
      BY ResetOrKeep DEF IInv, Cancel
    <2> QED  BY <1>1, <2>1, Unlocks DEF Cancel, Performs, PCs
  <1>2. CASE owner # c
    <2>1. pc[c] # "creating"  BY <1>2 DEF IInv, OneCreation
    <2> QED  BY <1>2, <2>1, Bystander DEF Cancel, Performs, PCs
  <1> QED  BY <1>1, <1>2

LEMMA InitIInv == Init => IInv
  <1> SUFFICES ASSUME Init PROVE IInv  OBVIOUS
  <1>1. client \in BOOLEAN  BY DEF Init
  <1>2. failures \in 0..MaxCounted /\ owner \in Callers \cup {NoCaller}
        /\ pc \in [Callers -> PCs]
    BY BackoffAssumption DEF Init, PCs
  <1>3. OneCreation /\ HealthyMeansNoFailures
    BY NoCallerAssumption DEF Init, OneCreation, HealthyMeansNoFailures
  <1> QED  BY <1>1, <1>2, <1>3 DEF IInv, CoreType

LEMMA NextIInv == IInv /\ [Next]_vars => IInv'
  <1> SUFFICES ASSUME IInv, [Next]_vars PROVE IInv'  OBVIOUS
  <1>1. CASE \E c \in Callers, o \in Ops : Start(c, o)  BY <1>1, StartIInv
  <1>2. CASE \E c \in Callers : Acquire(c)
    BY <1>2, LockedBodyIInv DEF Acquire
  <1>3. CASE \E c \in Callers : Create(c)  BY <1>3, CreateIInv
  <1>4. CASE \E c \in Callers : CreateFails(c)  BY <1>4, CreateFailsIInv
  <1>5. CASE \E c \in Callers : QueryReturns(c)
    BY <1>5, Bystander DEF QueryReturns, Performs, PCs, lock
  <1>6. CASE \E c \in Callers : QueryFails(c)
    BY <1>6, Bystander, HandleIsResetOrKeep DEF QueryFails, Performs, PCs, lock
  <1>7. CASE \E c \in Callers : Cancel(c)  BY <1>7, CancelIInv
  <1>8. CASE UNCHANGED <<client, failures, owner, pc>>
    BY <1>8 DEF IInv, CoreType, OneCreation, HealthyMeansNoFailures
  <1>9. CASE Tick \/ UNCHANGED vars
    BY <1>8, <1>9 DEF Tick, lock, vars, globals
  <1> QED  BY <1>1, <1>2, <1>3, <1>4, <1>5, <1>6, <1>7, <1>9 DEF Next

\* The inductive invariant holds in every state of every execution.
THEOREM Invariance == Spec => []IInv
  BY InitIInv, NextIInv, PTL DEF Spec

\* However many tasks ask for it at once, the client is created by one of
\* them at a time and never over a client that is set.
THEOREM CreatedOnce == Spec => []OneCreation
  <1>1. IInv => OneCreation  BY DEF IInv
  <1> QED  BY <1>1, Invariance, PTL

\* get_client and _reset_client keep the client and the failure count apart.
THEOREM HealthyClient == Spec => []HealthyMeansNoFailures
  <1>1. IInv => HealthyMeansNoFailures  BY DEF IInv
  <1> QED  BY <1>1, Invariance, PTL
-----------------------------------------------------------------------------
(* No herd.  The last reset is never older than the last failed creation,  *)
(* so that the backoff which a creation has waited for counts from the      *)
(* latter too; and a count of zero means that a creation has succeeded      *)
(* since, which had waited itself.                                         *)

Waited == calm >= Backoff(1)

HerdInv ==
    /\ age \in 0..BackoffMax /\ calm \in 0..BackoffMax
    /\ age <= calm
    /\ failures = 0 => Waited
    /\ \A c \in Callers : pc[c] = "creating" => Waited

\* Powers of two are natural and grow with the exponent: there are as many
\* subsets of 1..n as 2^n says, and those of 1..m are among them.
LEMMA Powers ==
    ASSUME NEW n \in Nat, NEW m \in 0..n
    PROVE  2^n \in Nat /\ 2^m \in Nat /\ 2^m <= 2^n
  <1>1. \A k \in Nat : /\ IsFiniteSet(SUBSET (1..k))
                       /\ Cardinality(SUBSET (1..k)) = 2^k
    <2> SUFFICES ASSUME NEW k \in Nat
                 PROVE  /\ IsFiniteSet(SUBSET (1..k))
                        /\ Cardinality(SUBSET (1..k)) = 2^k
      OBVIOUS
    <2>1. IsFiniteSet(1..k) /\ Cardinality(1..k) = k  BY FS_Interval
    <2> QED  BY <2>1, FS_SUBSET
  <1>2. SUBSET (1..m) \in SUBSET SUBSET (1..n)  OBVIOUS
  <1>3. Cardinality(SUBSET (1..m)) <= Cardinality(SUBSET (1..n))
    BY <1>1, <1>2, FS_Subset
  <1>4. \A k \in Nat : 2^k \in Nat  BY <1>1, FS_CardinalityType
  <1>5. m \in Nat  OBVIOUS
  <1>6. Cardinality(SUBSET (1..m)) = 2^m /\ Cardinality(SUBSET (1..n)) = 2^n
    BY <1>1, <1>5
  <1>7. 2^m <= 2^n  BY <1>3, <1>6
  <1> QED  BY <1>4, <1>5, <1>7

\* More failures in a row are never forgiven sooner.
LEMMA BackoffGrows ==
    ASSUME NEW n \in Nat \ {0}, NEW m \in 1..n
    PROVE  /\ Backoff(n) \in 0..BackoffMax
           /\ Backoff(m) \in 0..BackoffMax
           /\ Backoff(n) >= Backoff(m)
  <1> DEFINE p == 2^(n - 1)
             q == 2^(m - 1)
  <1>1. p \in Nat /\ q \in Nat /\ p >= q
    <2>1. n - 1 \in Nat /\ m - 1 \in 0..n - 1  OBVIOUS
    <2> QED  BY <2>1, Powers
  <1>2. \A a, b, k \in Nat : a >= b => k * a >= k * b /\ k * a \in Nat /\ k * b \in Nat
    OBVIOUS
  <1>3. /\ BackoffBase * p >= BackoffBase * q
        /\ BackoffBase * p \in Nat /\ BackoffBase * q \in Nat
    BY <1>1, <1>2, BackoffAssumption
  <1>4. /\ Backoff(n) = IF BackoffBase * p < BackoffMax THEN BackoffBase * p ELSE BackoffMax
        /\ Backoff(m) = IF BackoffBase * q < BackoffMax THEN BackoffBase * q ELSE BackoffMax
    BY DEF Backoff
  <1> HIDE DEF p, q
  <1> QED  BY <1>3, <1>4, BackoffAssumption

\* Counting failures beyond MaxCounted would change no backoff: the bound of
\* the model loses no behaviour of _consecutive_failures, which has none.
THEOREM CountingSaturates ==
    ASSUME NEW n \in Nat, n >= MaxCounted
    PROVE  Backoff(n) = BackoffMax /\ Backoff(MaxCounted) = BackoffMax
  <1>1. MaxCounted \in Nat \ {0} /\ n \in Nat \ {0} /\ MaxCounted \in 1..n
    BY BackoffAssumption
  <1>2. MaxCounted - 1 \in Nat  BY <1>1
  <1>3. 2^(MaxCounted - 1) \in Nat  BY <1>2, Powers
  <1>4. BackoffBase * 2^(MaxCounted - 1) \in Nat
    <2>1. \A a, b \in Nat : a * b \in Nat  OBVIOUS
    <2> QED  BY <1>3, <2>1, BackoffAssumption
  <1>5. Backoff(MaxCounted) = BackoffMax
    BY <1>4, MaxCountedAssumption, BackoffAssumption DEF Backoff
  <1>6. Backoff(n) \in 0..BackoffMax /\ Backoff(n) >= Backoff(MaxCounted)
    BY <1>1, BackoffGrows
  <1> QED  BY <1>5, <1>6, BackoffAssumption

\* The backoff of the first failure is the shortest one.
LEMMA BackoffAtLeastFirst ==
    ASSUME NEW n \in 1..MaxCounted
    PROVE  /\ Backoff(n) \in 0..BackoffMax
           /\ Backoff(1) \in 0..BackoffMax
           /\ Backoff(n) >= Backoff(1)
  <1>1. n \in Nat \ {0} /\ 1 \in 1..n  BY BackoffAssumption
  <1> QED  BY <1>1, BackoffGrows

LEMMA InitHerdInv == Init => HerdInv
  <1>1. 1 \in 1..MaxCounted  BY BackoffAssumption
  <1> QED  BY <1>1, BackoffAtLeastFirst, BackoffAssumption DEF Init, HerdInv, Waited

\* Who may create a client has waited since a creation failed.
LEMMA OutOfBackoff ==
    ASSUME IInv, HerdInv, ~InBackoff
    PROVE  Waited
  <1>1. CASE failures = 0  BY <1>1 DEF HerdInv
  <1>2. CASE failures # 0
    <2>1. failures \in 1..MaxCounted  BY <1>2 DEF IInv, CoreType
    <2>2. age >= Backoff(failures)
      BY <2>1, BackoffAtLeastFirst, <1>2 DEF InBackoff, HerdInv
    <2> QED  BY <2>1, <2>2, BackoffAtLeastFirst DEF HerdInv, Waited
  <1> QED  BY <1>1, <1>2

\* Whatever keeps the globals or resets the client, starting no creation.
LEMMA QuietHerdInv ==
    ASSUME IInv, HerdInv, Keep \/ (\E n \in {1, 2} : ResetTimes(n)), UNCHANGED calm,
           \A c \in Callers : pc'[c] = "creating" => pc[c] = "creating" \/ Waited
    PROVE  HerdInv'
  <1>1. CASE Keep
    BY <1>1 DEF HerdInv, Waited, Keep, globals
  <1>2. CASE \E n \in {1, 2} : ResetTimes(n)
    <2>1. age' = 0  BY <1>2 DEF ResetTimes
    <2>2. failures' # 0
      BY <1>2, BackoffAssumption DEF ResetTimes, IInv, CoreType
    <2> QED  BY <2>1, <2>2, BackoffAssumption DEF HerdInv, Waited
  <1> QED  BY <1>1, <1>2

LEMMA LockedBodyHerdInv ==
    ASSUME IInv, HerdInv, NEW c \in Callers, NEW o, LockedBody(c, o), UNCHANGED calm
    PROVE  HerdInv'
  <1>1. Keep \/ \E n \in {1, 2} : ResetTimes(n)
    BY HandleIsResetOrKeep DEF LockedBody
  <1>2. ASSUME NEW d \in Callers, pc'[d] = "creating"
        PROVE  pc[d] = "creating" \/ Waited
    BY <1>2, OutOfBackoff DEF LockedBody, Performs, IInv, CoreType
  <1> QED  BY <1>1, <1>2, QuietHerdInv

LEMMA CreateFailsHerdInv ==
    ASSUME IInv, HerdInv, NEW c \in Callers, CreateFails(c)
    PROVE  HerdInv'
  <1>1. age' = 0 /\ calm' = 0  BY DEF CreateFails, ResetTimes
  <1>2. failures' # 0
    <2>1. PICK n \in {1, 2} : ResetTimes(n)  BY DEF CreateFails
    <2> QED  BY <2>1, BackoffAssumption DEF ResetTimes, IInv, CoreType
  <1>3. \A d \in Callers : pc'[d] # "creating"
    BY NoCallerAssumption DEF CreateFails, Performs, IInv, CoreType, OneCreation
  <1> QED  BY <1>1, <1>2, <1>3, BackoffAssumption DEF HerdInv

LEMMA NextHerdInv == IInv /\ HerdInv /\ [Next]_vars => HerdInv'
  <1> SUFFICES ASSUME IInv, HerdInv, [Next]_vars PROVE HerdInv'  OBVIOUS
  <1>1. ASSUME NEW c \in Callers, NEW o \in Ops, Start(c, o) PROVE HerdInv'
    <2>1. CASE LockedBody(c, o)
      BY <1>1, <2>1, LockedBodyHerdInv DEF Start
    <2>2. CASE Keep /\ \E p \in {"querying", "waiting"} : Performs(c, o, p)
      BY <1>1, <2>2, QuietHerdInv DEF Start, Performs, IInv, CoreType
    <2> QED  BY <1>1, <2>1, <2>2 DEF Start
  <1>2. ASSUME NEW c \in Callers, Acquire(c) PROVE HerdInv'
    BY <1>2, LockedBodyHerdInv DEF Acquire
  <1>3. ASSUME NEW c \in Callers, Create(c) PROVE HerdInv'
    BY <1>3 DEF Create, Performs, HerdInv, Waited, IInv, CoreType
  <1>4. ASSUME NEW c \in Callers, CreateFails(c) PROVE HerdInv'
    BY <1>4, CreateFailsHerdInv
  <1>5. ASSUME NEW c \in Callers, QueryReturns(c) \/ QueryFails(c) \/ Cancel(c)
        PROVE  HerdInv'
    <2>1. Keep \/ \E n \in {1, 2} : ResetTimes(n)
      BY <1>5, HandleIsResetOrKeep DEF QueryReturns, QueryFails, Cancel
    <2>2. ASSUME NEW d \in Callers, pc'[d] = "creating" PROVE pc[d] = "creating"
      BY <1>5, <2>2 DEF QueryReturns, QueryFails, Cancel, Performs, IInv, CoreType
    <2>3. UNCHANGED calm  BY <1>5 DEF QueryReturns, QueryFails, Cancel
    <2> QED  BY <2>1, <2>2, <2>3, QuietHerdInv
  <1>6. CASE Tick
    <2>1. Backoff(1) \in 0..BackoffMax
      <3>1. 1 \in 1..MaxCounted  BY BackoffAssumption
      <3> QED  BY <3>1, BackoffAtLeastFirst
    <2> QED  BY <1>6, <2>1, BackoffAssumption DEF Tick, Later, HerdInv, Waited
  <1>7. CASE UNCHANGED vars
    BY <1>7 DEF vars, globals, HerdInv, Waited
  <1> QED  BY <1>1, <1>2, <1>3, <1>4, <1>5, <1>6, <1>7 DEF Next

LEMMA HerdInvariance == Spec => [](IInv /\ HerdInv)
  BY InitIInv, NextIInv, InitHerdInv, NextHerdInv, PTL DEF Spec

\* After a failed creation nobody starts one before the base backoff is over.
THEOREM NoHerdFollows == Spec => NoHerd
  <1>1. ASSUME IInv, HerdInv, [Next]_vars,
               NEW c \in Callers, pc[c] # "creating", pc'[c] = "creating"
        PROVE  calm >= Backoff(1)
    <2>1. ASSUME NEW d \in Callers, NEW o, LockedBody(d, o) PROVE Waited
      BY <1>1, <2>1, OutOfBackoff DEF LockedBody, Performs, IInv, CoreType
    <2>2. ASSUME NEW d \in Callers, NEW o \in Ops, Start(d, o) PROVE Waited
      BY <1>1, <2>1, <2>2 DEF Start, Performs, IInv, CoreType
    <2>3. ASSUME NEW d \in Callers, Acquire(d) PROVE Waited
      BY <2>1, <2>3 DEF Acquire
    <2>4. ASSUME NEW d \in Callers,
                 Create(d) \/ CreateFails(d) \/ QueryReturns(d) \/ QueryFails(d) \/ Cancel(d)
          PROVE  FALSE
      BY <1>1, <2>4
         DEF Create, CreateFails, QueryReturns, QueryFails, Cancel, Performs, IInv, CoreType
    <2>5. CASE Tick \/ UNCHANGED vars  BY <1>1, <2>5 DEF Tick, vars
    <2> QED  BY <1>1, <2>2, <2>3, <2>4, <2>5 DEF Next, Waited
  <1>2. IInv /\ HerdInv /\ [Next]_vars =>
            [\A c \in Callers : pc[c] # "creating" /\ pc'[c] = "creating" =>
                 calm >= Backoff(1)]_vars
    BY <1>1
  <1> QED  BY <1>2, HerdInvariance, PTL DEF Spec, NoHerd
-----------------------------------------------------------------------------
(* The type invariant: what the queue holds and what each task performs.   *)

TaskType ==
    /\ queue \in Seq(Callers)
    /\ op \in [Callers -> Ops \cup {"none"}]
    /\ \A c \in Callers : op[c] = "none" <=> pc[c] = "idle"

LEMMA PerformsTaskType ==
    ASSUME IInv, TaskType, NEW c \in Callers, NEW o \in Ops, NEW p \in PCs,
           Performs(c, o, p), queue' \in Seq(Callers)
    PROVE  TaskType'
  BY OpsAssumption DEF TaskType, Performs, IInv, CoreType, PCs

LEMMA LockedBodyTaskType ==
    ASSUME IInv, TaskType, NEW c \in Callers, NEW o \in Ops, LockedBody(c, o),
           queue' \in Seq(Callers)
    PROVE  TaskType'
  <1>1. \E p \in PCs : Performs(c, o, p)  BY DEF LockedBody, PCs
  <1> QED  BY <1>1, PerformsTaskType

LEMMA WithoutType ==
    ASSUME NEW q \in Seq(Callers), NEW c
    PROVE  Without(q, c) \in Seq(Callers)
  BY DEF Without, Position, RemoveAt

LEMMA NextTaskType == IInv /\ TaskType /\ [Next]_vars => TaskType'
  <1> SUFFICES ASSUME IInv, TaskType, [Next]_vars PROVE TaskType'  OBVIOUS
  <1>1. ASSUME NEW c \in Callers, pc[c] # "idle" PROVE op[c] \in Ops
    BY <1>1 DEF TaskType
  <1>2. ASSUME NEW c \in Callers, NEW o \in Ops, Start(c, o) PROVE TaskType'
    <2>1. queue' \in Seq(Callers)
      <3>1. Append(queue, c) \in Seq(Callers)  BY DEF TaskType
      <3> QED  BY <1>2, <3>1 DEF Start, TaskType, lock
    <2>2. CASE LockedBody(c, o)  BY <2>1, <2>2, LockedBodyTaskType
    <2>3. CASE \E p \in {"querying", "waiting"} : Performs(c, o, p)
      BY <2>1, <2>3, PerformsTaskType DEF PCs
    <2> QED  BY <1>2, <2>2, <2>3 DEF Start
  <1>3. ASSUME NEW c \in Callers, Acquire(c) PROVE TaskType'
    <2>1. Tail(queue) \in Seq(Callers)  BY <1>3 DEF Acquire, TaskType
    <2> QED  BY <1>1, <1>3, <2>1, LockedBodyTaskType DEF Acquire
  <1>4. ASSUME NEW c \in Callers, Create(c) \/ CreateFails(c) PROVE TaskType'
    <2>1. pc[c] # "idle" /\ queue' = queue  BY <1>4 DEF Create, CreateFails
    <2>2. \E p \in PCs : Performs(c, op[c], p)  BY <1>4 DEF Create, CreateFails, PCs
    <2> QED  BY <1>1, <2>1, <2>2, PerformsTaskType DEF TaskType
  <1>5. ASSUME NEW c \in Callers, QueryReturns(c) \/ QueryFails(c) PROVE TaskType'
    <2>1. pc[c] # "idle" /\ queue' = queue /\ Performs(c, op[c], "idle")
      BY <1>5 DEF QueryReturns, QueryFails, lock
    <2> QED  BY <1>1, <2>1, PerformsTaskType DEF TaskType, PCs
  <1>6. ASSUME NEW c \in Callers, Cancel(c) PROVE TaskType'
    <2>1. pc[c] # "idle" /\ queue' \in Seq(Callers) /\ Performs(c, op[c], "idle")
      BY <1>6, WithoutType DEF Cancel, TaskType
    <2> QED  BY <1>1, <2>1, PerformsTaskType DEF PCs
  <1>7. CASE Tick \/ UNCHANGED vars
    BY <1>7 DEF Tick, vars, lock, TaskType
  <1> QED  BY <1>2, <1>3, <1>4, <1>5, <1>6, <1>7 DEF Next

\* The client, its times, the lock and the tasks are typed for any tasks,
\* operations and backoff.
THEOREM TypeCorrect == Spec => []TypeOK
  <1>1. Init => TaskType  BY OpsAssumption DEF Init, TaskType
  <1>2. IInv /\ HerdInv /\ TaskType => TypeOK
    BY DEF IInv, CoreType, HerdInv, TaskType, TypeOK
  <1> QED  BY <1>1, <1>2, NextTaskType, HerdInvariance, PTL DEF Spec
-----------------------------------------------------------------------------
(* The line behind the lock: what it becomes when a task joins it, leaves   *)
(* it, or is served.                                                       *)

\* A line that c joins at its end.
LEMMA AppendLine ==
    ASSUME NEW q \in Seq(Callers), NEW S, InLine(q, S), NEW c \in Callers, c \notin S
    PROVE  /\ InLine(Append(q, c), S \cup {c})
           /\ Before(Append(q, c)) = Before(q) \cup (S \X {c})
  <1> DEFINE r == Append(q, c)
             n == Len(q)
  <1>1. /\ n \in Nat /\ DOMAIN q = 1..n /\ DOMAIN r = 1..n + 1
        /\ \A i \in 1..n : r[i] = q[i] /\ i \in 1..n + 1 /\ i < n + 1
        /\ r[n + 1] = c /\ n + 1 \in 1..n + 1
        /\ \A i, j \in 1..n + 1 : i < j => i \in 1..n /\ (j # n + 1 => j \in 1..n)
    OBVIOUS
  <1> HIDE DEF r, n
  <1>2. InLine(r, S \cup {c})  BY <1>1 DEF InLine
  <1>3. Before(r) \subseteq Before(q) \cup (S \X {c})  BY <1>1 DEF Before, InLine
  <1>4. Before(q) \cup (S \X {c}) \subseteq Before(r)  BY <1>1 DEF Before, InLine
  <1> QED  BY <1>2, <1>3, <1>4 DEF r

\* The line q without the one at position k: those behind it move up.
MovedUp(q, k) == [i \in 1..Len(q) - 1 |-> IF i < k THEN q[i] ELSE q[i + 1]]

LEMMA MovedUpType ==
    ASSUME NEW q \in Seq(Callers), NEW k \in DOMAIN q
    PROVE  MovedUp(q, k) \in Seq(Callers) /\ Len(MovedUp(q, k)) = Len(q) - 1
  <1>1. \A i \in 1..Len(q) - 1 : (IF i < k THEN q[i] ELSE q[i + 1]) \in Callers  OBVIOUS
  <1> QED  BY <1>1 DEF MovedUp

LEMMA MovedUpLine ==
    ASSUME NEW q \in Seq(Callers), NEW S, InLine(q, S), NEW k \in DOMAIN q
    PROVE  /\ InLine(MovedUp(q, k), S \ {q[k]})
           /\ Before(MovedUp(q, k)) = {p \in Before(q) : p[1] # q[k] /\ p[2] # q[k]}
  <1> DEFINE r == MovedUp(q, k)
             n == Len(q)
             up(i) == IF i < k THEN i ELSE i + 1
             down(i) == IF i < k THEN i ELSE i - 1
  <1>1. /\ DOMAIN q = 1..n /\ DOMAIN r = 1..n - 1 /\ k \in 1..n
        /\ \A i, j \in 1..n : q[i] = q[j] => i = j
        /\ \A i \in 1..n - 1 : up(i) \in 1..n /\ up(i) # k /\ r[i] = q[up(i)]
        /\ \A i \in 1..n : i # k => down(i) \in 1..n - 1 /\ r[down(i)] = q[i]
        /\ \A i, j \in 1..n - 1 : (i < j => up(i) < up(j)) /\ (up(i) = up(j) => i = j)
        /\ \A i, j \in 1..n : i # k /\ j # k /\ i < j => down(i) < down(j)
    BY DEF MovedUp, InLine
  <1> HIDE DEF r, n, up, down
  <1>2. S \ {q[k]} = {r[i] : i \in 1..n - 1}
    BY <1>1 DEF InLine
  <1>3. InLine(r, S \ {q[k]})  BY <1>1, <1>2 DEF InLine
  <1>4. Before(r) \subseteq {p \in Before(q) : p[1] # q[k] /\ p[2] # q[k]}
    BY <1>1 DEF Before
  <1>5. {p \in Before(q) : p[1] # q[k] /\ p[2] # q[k]} \subseteq Before(r)
    BY <1>1 DEF Before
  <1> QED  BY <1>3, <1>4, <1>5 DEF r
\* c leaves the line wherever it stands.
LEMMA WithoutLine ==
    ASSUME NEW q \in Seq(Callers), NEW S, InLine(q, S), NEW c
    PROVE  /\ InLine(Without(q, c), S \ {c})
           /\ Before(Without(q, c)) = {p \in Before(q) : p[1] # c /\ p[2] # c}
  <1>1. CASE c \in S
    <2>1. PICK k \in DOMAIN q : k = Position(q, c) /\ q[k] = c
      BY <1>1 DEF InLine, Position
    <2>2. Without(q, c) = SubSeq(q, 1, k - 1) \o SubSeq(q, k + 1, Len(q))
      BY <2>1 DEF Without, RemoveAt
    <2>3. Without(q, c) = MovedUp(q, k)
      <3> DEFINE a == SubSeq(q, 1, k - 1)
                 b == SubSeq(q, k + 1, Len(q))
      <3>1. /\ a \in Seq(Callers) /\ Len(a) = k - 1
            /\ b \in Seq(Callers) /\ Len(b) = Len(q) - k
            /\ \A i \in 1..k - 1 : a[i] = q[i]
            /\ \A i \in 1..Len(q) - k : b[i] = q[k + i]
        OBVIOUS
      <3> HIDE DEF a, b
      <3>2. /\ a \o b \in Seq(Callers) /\ Len(a \o b) = Len(q) - 1
            /\ \A i \in 1..Len(q) - 1 : (a \o b)[i] = MovedUp(q, k)[i]
        BY <3>1 DEF MovedUp
      <3>3. a \o b = MovedUp(q, k)  BY <3>2, MovedUpType, SeqEqual
      <3> QED  BY <2>2, <3>3 DEF a, b
    <2> QED  BY <2>1, <2>3, MovedUpLine
  <1>2. CASE c \notin S
    <2>1. Without(q, c) = q  BY <1>2 DEF InLine, Without
    <2>2. \A p \in Before(q) : p[1] # c /\ p[2] # c  BY <1>2 DEF InLine, Before
    <2> QED  BY <1>2, <2>1, <2>2 DEF InLine
  <1> QED  BY <1>1, <1>2

\* The first one leaves: nobody was before it.
LEMMA TailLine ==
    ASSUME NEW q \in Seq(Callers), NEW S, InLine(q, S), q # <<>>
    PROVE  /\ InLine(Tail(q), S \ {Head(q)})
           /\ Before(Tail(q)) = {p \in Before(q) : p[1] # Head(q) /\ p[2] # Head(q)}
           /\ Head(q) \in S /\ \A d \in S : <<d, Head(q)>> \notin Before(q)
  <1>1. 1 \in DOMAIN q /\ Head(q) = q[1]  OBVIOUS
  <1>2. Tail(q) = MovedUp(q, 1)
    <2>1. /\ Tail(q) \in Seq(Callers) /\ Len(Tail(q)) = Len(q) - 1
          /\ \A i \in 1..Len(q) - 1 : Tail(q)[i] = MovedUp(q, 1)[i]
      BY DEF MovedUp
    <2> QED  BY <1>1, <2>1, MovedUpType, SeqEqual
  <1>3. \A d \in S : <<d, q[1]>> \notin Before(q)  BY <1>1 DEF Before, InLine
  <1>4. /\ InLine(MovedUp(q, 1), S \ {q[1]})
        /\ Before(MovedUp(q, 1)) = {p \in Before(q) : p[1] # q[1] /\ p[2] # q[1]}
    BY <1>1, MovedUpLine
  <1>5. q[1] \in S  BY <1>1 DEF InLine
  <1> QED  BY <1>1, <1>2, <1>3, <1>4, <1>5
-----------------------------------------------------------------------------
(* The lock is fair: queue, owner and the places where the tasks stand       *)
(* implement FairLock.                                                     *)

Waiting == {c \in Callers : pc[c] = "waiting"}

Fair == INSTANCE FairLock WITH Tasks <- Callers, NoTask <- NoCaller, holder <- owner,
                               waiting <- Waiting, before <- Before(queue)

\* The line consists of the tasks that wait, each once: an operation that was
\* cancelled leaves no entry behind that would be woken in vain, and none
\* waits without an entry.
LineExact == InLine(queue, Waiting)

FairStep == LineExact' /\ [Fair!Next]_(Fair!lockVars)

LEMMA MovesTo ==
    ASSUME IInv, NEW c \in Callers, NEW o, NEW p, Performs(c, o, p)
    PROVE  Waiting' = IF p = "waiting" THEN Waiting \cup {c} ELSE Waiting \ {c}
  BY DEF IInv, CoreType, Waiting, Performs

\* Whatever keeps the lock and the waiting tasks.
LEMMA KeepsLine ==
    ASSUME LineExact, Waiting' = Waiting, UNCHANGED <<owner, queue>>
    PROVE  FairStep
  BY DEF FairStep, LineExact, Fair!lockVars

\* The lock is let go.
LEMMA UnlockStep ==
    ASSUME LineExact, Waiting' = Waiting, UNCHANGED queue, owner \in Callers, owner' = NoCaller
    PROVE  FairStep
  <1>1. LineExact' /\ Before(queue)' = Before(queue)  BY DEF LineExact
  <1>2. Fair!Unlock  BY <1>1, NoCallerAssumption DEF Fair!Unlock
  <1> QED  BY <1>1, <1>2 DEF FairStep, Fair!Next

\* A task that gets the lock leaves it in the same step, or holds it from then on.
LEMMA LockedBodyLine ==
    ASSUME IInv, NEW c \in Callers, NEW o, LockedBody(c, o)
    PROVE  /\ Waiting' = Waiting \ {c}
           /\ owner' \in {NoCaller, c}
  <1>1. \E p \in {"querying", "idle", "creating"} : Performs(c, o, p)  BY DEF LockedBody
  <1>2. owner' \in {NoCaller, c}  BY DEF LockedBody
  <1> QED  BY <1>1, <1>2, MovesTo

LEMMA StartStep ==
    ASSUME IInv, TaskType, LineExact, NEW c \in Callers, NEW o \in Ops, Start(c, o)
    PROVE  FairStep
  <1>1. c \notin Waiting  BY DEF Start, Waiting
  <1>2. CASE client /\ Performs(c, o, "querying") /\ UNCHANGED lock
    <2>1. Waiting' = Waiting  BY <1>1, <1>2, MovesTo
    <2> QED  BY <1>2, <2>1, KeepsLine DEF lock
  <1>3. CASE /\ owner # NoCaller \/ queue # <<>>
             /\ Performs(c, o, "waiting") /\ queue' = Append(queue, c) /\ UNCHANGED owner
    <2>1. Waiting' = Waiting \cup {c}  BY <1>3, MovesTo
    <2>2. /\ InLine(Append(queue, c), Waiting \cup {c})
          /\ Before(Append(queue, c)) = Before(queue) \cup (Waiting \X {c})
      <3>1. queue \in Seq(Callers) /\ InLine(queue, Waiting)  BY DEF TaskType, LineExact
      <3> QED  BY <1>1, <3>1, AppendLine
    <2>3. LineExact' /\ Before(queue)' = Before(queue) \cup (Waiting \X {c})
      BY <1>3, <2>1, <2>2 DEF LineExact
    <2>4. queue # <<>> => Waiting # {}  BY TailLine DEF TaskType, LineExact
    <2>5. Fair!LineUp(c)  BY <1>1, <1>3, <2>1, <2>3, <2>4 DEF Fair!LineUp
    <2> QED  BY <2>3, <2>5 DEF FairStep, Fair!Next
  <1>4. CASE owner = NoCaller /\ queue = <<>> /\ LockedBody(c, o) /\ UNCHANGED queue
    <2>1. Waiting = {}  BY <1>4 DEF LineExact, InLine
    <2>2. Waiting' = Waiting /\ owner' \in {NoCaller, c}
      BY <1>4, <2>1, LockedBodyLine
    <2>3. LineExact' /\ Before(queue)' = Before(queue)  BY <1>4, <2>2 DEF LineExact
    <2>4. CASE owner' = c
      <3>1. Fair!TakeFree(c)  BY <1>4, <2>1, <2>2, <2>3, <2>4 DEF Fair!TakeFree
      <3> QED  BY <2>3, <3>1 DEF FairStep, Fair!Next
    <2>5. CASE owner' = NoCaller  BY <1>4, <2>2, <2>5, KeepsLine
    <2> QED  BY <2>2, <2>4, <2>5
  <1> QED  BY <1>2, <1>3, <1>4 DEF Start

LEMMA AcquireStep ==
    ASSUME IInv, TaskType, LineExact, NEW c \in Callers, Acquire(c)
    PROVE  FairStep
  <1>1. /\ owner = NoCaller /\ queue # <<>> /\ Head(queue) = c /\ queue' = Tail(queue)
        /\ LockedBody(c, op[c])
    BY DEF Acquire
  <1>2. /\ InLine(Tail(queue), Waiting \ {c})
        /\ Before(Tail(queue)) = {p \in Before(queue) : p[1] # c /\ p[2] # c}
        /\ c \in Waiting /\ \A d \in Waiting : <<d, c>> \notin Before(queue)
    BY <1>1, TailLine DEF TaskType, LineExact
  <1>3. Waiting' = Waiting \ {c} /\ owner' \in {NoCaller, c}
    BY <1>1, LockedBodyLine
  <1>4. LineExact' /\ Before(queue)' = {p \in Before(queue) : p[1] # c /\ p[2] # c}
    BY <1>1, <1>2, <1>3 DEF LineExact
  <1>5. CASE owner' = c
    <2>1. Fair!TakeTurn(c)
      BY <1>1, <1>2, <1>3, <1>4, <1>5 DEF Fair!TakeTurn, Fair!Leaves
    <2> QED  BY <1>4, <2>1 DEF FairStep, Fair!Next
  <1>6. CASE owner' = NoCaller
    <2>1. Fair!StopWaiting(c)
      BY <1>1, <1>2, <1>3, <1>4, <1>6 DEF Fair!StopWaiting, Fair!Leaves
    <2> QED  BY <1>4, <2>1 DEF FairStep, Fair!Next
  <1> QED  BY <1>3, <1>5, <1>6

LEMMA CancelStep ==
    ASSUME IInv, TaskType, LineExact, NEW c \in Callers, Cancel(c)
    PROVE  FairStep
  <1>1. /\ InLine(Without(queue, c), Waiting \ {c})
        /\ Before(Without(queue, c)) = {p \in Before(queue) : p[1] # c /\ p[2] # c}
    BY WithoutLine DEF TaskType, LineExact
  <1>2. Performs(c, op[c], "idle") /\ queue' = Without(queue, c)  BY DEF Cancel
  <1>3. Waiting' = Waiting \ {c}  BY <1>2, MovesTo
  <1>4. CASE pc[c] = "waiting"
    <2>1. c \in Waiting /\ owner' = owner
      BY <1>4 DEF Waiting, Cancel, IInv, OneCreation
    <2>2. LineExact' /\ Before(queue)' = {p \in Before(queue) : p[1] # c /\ p[2] # c}
      BY <1>1, <1>2, <1>3 DEF LineExact
    <2>3. Fair!StopWaiting(c)
      BY <1>3, <2>1, <2>2 DEF Fair!StopWaiting, Fair!Leaves
    <2> QED  BY <2>2, <2>3 DEF FairStep, Fair!Next
  <1>5. CASE pc[c] # "waiting"
    <2>1. Waiting' = Waiting  BY <1>3, <1>5 DEF Waiting
    <2>2. queue' = queue  BY <1>2, <1>5 DEF LineExact, InLine, Waiting, Without
    <2>3. owner = c => owner' = NoCaller  BY DEF Cancel
    <2>4. owner # c => owner' = owner  BY DEF Cancel
    <2> QED  BY <2>1, <2>2, <2>3, <2>4, UnlockStep, KeepsLine
  <1> QED  BY <1>4, <1>5

LEMMA NextFairStep == IInv /\ TaskType /\ LineExact /\ [Next]_vars => FairStep
  <1> SUFFICES ASSUME IInv, TaskType, LineExact, [Next]_vars PROVE FairStep  OBVIOUS
  <1>1. ASSUME NEW c \in Callers, Create(c) \/ CreateFails(c) PROVE FairStep
    <2>1. \E p \in {"idle", "querying"} : Performs(c, op[c], p)
      BY <1>1 DEF Create, CreateFails
    <2>2. pc[c] = "creating" /\ owner = c /\ owner' = NoCaller /\ UNCHANGED queue
      BY <1>1 DEF Create, CreateFails, IInv, OneCreation
    <2>3. Waiting' = Waiting \ {c}  BY <2>1, MovesTo
    <2>4. Waiting' = Waiting  BY <2>2, <2>3 DEF Waiting
    <2> QED  BY <2>2, <2>4, UnlockStep
  <1>2. ASSUME NEW c \in Callers, QueryReturns(c) \/ QueryFails(c) PROVE FairStep
    <2>1. pc[c] = "querying" /\ Performs(c, op[c], "idle") /\ UNCHANGED <<owner, queue>>
      BY <1>2 DEF QueryReturns, QueryFails, lock
    <2>2. Waiting' = Waiting \ {c}  BY <2>1, MovesTo
    <2>3. Waiting' = Waiting  BY <2>1, <2>2 DEF Waiting
    <2> QED  BY <2>1, <2>3, KeepsLine
  <1>3. CASE \E c \in Callers, o \in Ops : Start(c, o)  BY <1>3, StartStep
  <1>4. CASE \E c \in Callers : Acquire(c)  BY <1>4, AcquireStep
  <1>5. CASE \E c \in Callers : Cancel(c)  BY <1>5, CancelStep
  <1>6. CASE Tick \/ UNCHANGED vars
    <2>1. UNCHANGED <<pc, owner, queue>>  BY <1>6 DEF Tick, vars, lock
    <2> QED  BY <2>1, KeepsLine DEF Waiting
  <1> QED  BY <1>1, <1>2, <1>3, <1>4, <1>5, <1>6 DEF Next

LEMMA InitFair == Init => TaskType /\ LineExact /\ Fair!Init
  BY OpsAssumption DEF Init, TaskType, LineExact, InLine, Waiting, Before, Fair!Init

LEMMA LineInvariance == Spec => [](IInv /\ TaskType /\ LineExact)
  BY InitIInv, NextIInv, NextTaskType, InitFair, NextFairStep, PTL DEF Spec, FairStep

\* Exactly the waiting operations stand in the line for the client, each once:
\* whatever becomes of the one that holds the lock, no waiter is forgotten.
THEOREM LineIsExact == Spec => []LineExact
  BY LineInvariance, PTL

\* The lock around the client's creation is served in the order in which the
\* operations came: one that finds the client or the backoff when its turn
\* comes lets the lock go in the same step, and one that is cancelled leaves
\* the others in their order.
THEOREM LockIsFair == Spec => Fair!Spec
  <1>1. IInv /\ TaskType /\ LineExact /\ [Next]_vars => [Fair!Next]_(Fair!lockVars)
    BY NextFairStep DEF FairStep
  <1>2. Init => Fair!Init  BY InitFair
  <1> QED  BY <1>1, <1>2, LineInvariance, PTL DEF Spec, Fair!Spec
=============================================================================
