------------------------------ MODULE Supabase ------------------------------
(***************************************************************************)
(* The shared database client of app/db/supabase.py: concurrent operations *)
(* obtain it through get_client, which creates it once under a lock and    *)
(* refuses to for a while after failures, and drop it with _reset_client   *)
(* when an operation fails.                                                *)
(*                                                                         *)
(* An action is the code of one task between two suspension points, which  *)
(* are the lock, acreate_client and the execution of a query.  The service *)
(* itself is external: each of these may succeed, fail in the ways the     *)
(* except clauses tell apart, or be cancelled.                             *)
(***************************************************************************)
EXTENDS WaitQueue

CONSTANTS Callers,       \* tasks that use the database
          NoCaller,
          Ops,           \* the operations they perform
          BackoffBase,   \* supabase_reconnect_backoff_base
          BackoffMax,    \* supabase_reconnect_backoff_max
          MaxCounted     \* bound of the failure count, see below

ASSUME NoCallerAssumption == NoCaller \notin Callers
ASSUME OpsAssumption == Ops \subseteq {"save", "ping", "list", "get", "delete"}
ASSUME BackoffAssumption ==
    /\ BackoffBase \in Nat \ {0} /\ BackoffMax \in Nat \ {0}
    /\ MaxCounted \in Nat \ {0}
\* Counting further would not change the backoff any more, and nothing else
\* depends on the count: the bound loses no behaviour.
ASSUME MaxCountedAssumption == BackoffBase * 2^(MaxCounted - 1) >= BackoffMax

VARIABLES client,        \* whether _client is set
          failures,      \* _consecutive_failures, counted up to MaxCounted
          age,           \* time since _last_failure_time, up to BackoffMax
          owner,         \* the task in the body of "async with _get_lock()"
          queue,         \* the tasks waiting for that lock, in their order
          pc,            \* where each task stands
          op,            \* the operation it performs, if any
          calm           \* history: time since a creation failed, up to BackoffMax

globals == <<client, failures, age>>
lock == <<owner, queue>>
vars == <<globals, lock, pc, op, calm>>

PCs == {"idle", "waiting", "creating", "querying"}

\* What an await can raise, as far as the except clauses tell it apart.
Errors == {"timeout", "connection", "other"}

Init ==
    /\ client = FALSE /\ failures = 0 /\ age = BackoffMax
    /\ owner = NoCaller /\ queue = <<>>
    /\ pc = [c \in Callers |-> "idle"]
    /\ op = [c \in Callers |-> "none"]
    /\ calm = BackoffMax

Backoff(n) ==
    IF BackoffBase * 2^(n - 1) < BackoffMax THEN BackoffBase * 2^(n - 1) ELSE BackoffMax

InBackoff == failures > 0 /\ age < Backoff(failures)
-----------------------------------------------------------------------------
(* What a step does to the globals, and where it leaves its task *)

Keep == UNCHANGED globals

\* Fault: only the client is dropped.
ResetTimesUncounted(n) == client' = FALSE /\ UNCHANGED <<failures, age>>

\* _reset_client, n times without a suspension in between.
ResetTimes(n) ==
    /\ client' = FALSE
    /\ failures' = IF failures + n < MaxCounted THEN failures + n ELSE MaxCounted
    /\ age' = 0

\* Fault: no handler lets ConnectionError through.
HandlerResetsAlways(o, e) == ~(e = "timeout" /\ o \in {"save", "ping"})

\* Whether the operation's handler calls _reset_client for error e: a timeout
\* is a case of its own only for save and ping, and of the others only ping
\* has no "except ConnectionError: raise".
HandlerResets(o, e) ==
    \/ e = "other"
    \/ e = "connection" /\ o = "ping"
    \/ e = "timeout" /\ o \notin {"save", "ping"}

Handle(o, e) == IF HandlerResets(o, e) THEN ResetTimes(1) ELSE Keep

\* Task c performs operation o, up to the given place.
Performs(c, o, place) ==
    /\ pc' = [pc EXCEPT ![c] = place]
    /\ op' = [op EXCEPT ![c] = IF place = "idle" THEN "none" ELSE o]
-----------------------------------------------------------------------------
(* get_client *)

\* Fault: the client is not looked at again under the lock.
LockedBodyUnchecked(c, o) ==
    \/ /\ InBackoff /\ Handle(o, "connection") /\ owner' = NoCaller
       /\ Performs(c, o, "idle")
    \/ /\ ~InBackoff /\ Keep /\ owner' = c
       /\ Performs(c, o, "creating")

\* With the lock: another task has created the client in the meantime, or it
\* is too early and ConnectionError is raised, or a client is created.
LockedBody(c, o) ==
    \/ /\ client /\ Keep /\ owner' = NoCaller
       /\ Performs(c, o, "querying")
    \/ /\ ~client /\ InBackoff /\ Handle(o, "connection") /\ owner' = NoCaller
       /\ Performs(c, o, "idle")
    \/ /\ ~client /\ ~InBackoff /\ Keep /\ owner' = c
       /\ Performs(c, o, "creating")

\* An operation begins.  A lock that is free but has been promised to a
\* waiter is not taken by a newcomer.
Start(c, o) ==
    /\ pc[c] = "idle"
    /\ \/ /\ client /\ Keep
          /\ Performs(c, o, "querying")
          /\ UNCHANGED lock
       \/ /\ ~client /\ (owner # NoCaller \/ queue # <<>>) /\ Keep
          /\ Performs(c, o, "waiting")
          /\ queue' = Append(queue, c)
          /\ UNCHANGED owner
       \/ /\ ~client /\ owner = NoCaller /\ queue = <<>>
          /\ LockedBody(c, o)
          /\ UNCHANGED queue
    /\ UNCHANGED calm

\* The first waiter resumes with the lock.
Acquire(c) ==
    /\ pc[c] = "waiting"
    /\ owner = NoCaller /\ queue # <<>> /\ Head(queue) = c
    /\ queue' = Tail(queue)
    /\ LockedBody(c, op[c])
    /\ UNCHANGED calm

\* Faults: a success keeps the count, or forgives one failure only.
CreateKeepsCount(c) ==
    /\ pc[c] = "creating" /\ Performs(c, op[c], "querying")
    /\ client' = TRUE /\ owner' = NoCaller
    /\ UNCHANGED <<failures, age, queue, calm>>
CreateForgivesOne(c) ==
    /\ pc[c] = "creating" /\ Performs(c, op[c], "querying")
    /\ client' = TRUE /\ failures' = failures - 1 /\ owner' = NoCaller
    /\ UNCHANGED <<age, queue, calm>>

Create(c) ==
    /\ pc[c] = "creating" /\ Performs(c, op[c], "querying")
    /\ client' = TRUE /\ failures' = 0 /\ owner' = NoCaller
    /\ UNCHANGED <<age, queue, calm>>

\* Fault: the lock is not released on an error.
CreateFailsLocked(c) ==
    /\ pc[c] = "creating" /\ Performs(c, op[c], "idle")
    /\ ResetTimes(1)
    /\ calm' = 0
    /\ UNCHANGED lock

\* get_client resets and raises again, and the handler of the operation
\* resets once more unless it lets the error through.
CreateFails(c) ==
    /\ pc[c] = "creating" /\ Performs(c, op[c], "idle")
    /\ \E e \in Errors : ResetTimes(IF HandlerResets(op[c], e) THEN 2 ELSE 1)
    /\ owner' = NoCaller
    /\ calm' = 0
    /\ UNCHANGED queue
-----------------------------------------------------------------------------
(* Queries, cancellation and time *)

QueryReturns(c) ==
    /\ pc[c] = "querying" /\ Performs(c, op[c], "idle")
    /\ Keep
    /\ UNCHANGED <<lock, calm>>

\* The handlers reset whatever client is set now, even if the query ran on
\* a predecessor of it.
QueryFails(c) ==
    /\ pc[c] = "querying" /\ Performs(c, op[c], "idle")
    /\ \E e \in Errors : Handle(op[c], e)
    /\ UNCHANGED <<lock, calm>>

\* The health check's or the request's timeout, or a disconnected client:
\* CancelledError passes every handler and leaves the lock.
Cancel(c) ==
    /\ pc[c] # "idle" /\ Performs(c, op[c], "idle")
    /\ Keep
    /\ owner' = IF owner = c THEN NoCaller ELSE owner
    /\ queue' = Without(queue, c)
    /\ UNCHANGED calm

Later(t) == IF t < BackoffMax THEN t + 1 ELSE t

Tick ==
    /\ age' = Later(age) /\ calm' = Later(calm)
    /\ UNCHANGED <<client, failures, lock, pc, op>>

Next ==
    \/ \E c \in Callers, o \in Ops : Start(c, o)
    \/ \E c \in Callers : \/ Acquire(c) \/ Create(c) \/ CreateFails(c)
                          \/ QueryReturns(c) \/ QueryFails(c) \/ Cancel(c)
    \/ Tick

\* The event loop resumes a task whose wait is over, and the creation of a
\* client comes to an end, one way or another.
Fairness ==
    \A c \in Callers : WF_vars(Acquire(c)) /\ WF_vars(Create(c) \/ CreateFails(c))

Spec == Init /\ [][Next]_vars /\ Fairness
-----------------------------------------------------------------------------
TypeOK ==
    /\ client \in BOOLEAN
    /\ failures \in 0..MaxCounted
    /\ age \in 0..BackoffMax
    /\ owner \in Callers \cup {NoCaller}
    /\ queue \in Seq(Callers)
    /\ pc \in [Callers -> PCs]
    /\ op \in [Callers -> Ops \cup {"none"}]
    /\ \A c \in Callers : op[c] = "none" <=> pc[c] = "idle"
    /\ calm \in 0..BackoffMax

\* At most one task is creating a client, it holds the lock, and nobody sets
\* _client meanwhile: a client in use is never overwritten by a second one.
\* The lock is held across a suspension by nobody else.
OneCreation ==
    \A c \in Callers : /\ pc[c] = "creating" <=> owner = c
                       /\ pc[c] = "creating" => ~client

\* A client that is set has no failures on its account, whatever stale
\* operations report while it is being created and afterwards.
HealthyMeansNoFailures == client => failures = 0

\* No herd after a failure: whatever the number of tasks that were waiting or
\* arrive later, none starts a creation before the base backoff has passed
\* since a creation failed, not even after a success and a reset in between.
NoHerd ==
    [][\A c \in Callers : pc[c] # "creating" /\ pc'[c] = "creating" =>
           calm >= Backoff(1)]_vars

\* The lock is handed on: no task waits for it forever, through failures,
\* cancellations and refusals of the tasks ahead of it.
WaitersProceed == \A c \in Callers : pc[c] = "waiting" ~> pc[c] # "waiting"
=============================================================================
