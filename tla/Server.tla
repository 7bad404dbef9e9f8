------------------------------- MODULE Server -------------------------------
(***************************************************************************)
(* The life of the server process: requests counted in and out by          *)
(* shutdown_middleware, the batch loop of describe_batch, SIGTERM, and the *)
(* shutdown half of lifespan (app/main.py, app/api/routes.py).             *)
(*                                                                         *)
(* An action is the code between two suspension points of one task.        *)
(* _in_flight_lock is never held across one, so taking it never suspends.  *)
(* When the ASGI server leaves the yield of lifespan is external: at any   *)
(* time, with or without a SIGTERM, while requests are still running or    *)
(* arriving.                                                               *)
(***************************************************************************)
EXTENDS Integers, Sequences, FiniteSets

CONSTANTS Users,         \* requests to ordinary endpoints, one at a time each
          Probes,        \* requests to the paths in _SYSTEM_PATHS
          Batches,       \* requests to /describe/batch
          MaxItems,      \* MAX_BATCH_SIZE
          BatchConcurrency, \* permits of the semaphore of one batch
          MaxPolls       \* shutdown_batch_timeout / cache_cleanup_poll_interval

ASSUME RequestsAssumption ==
    /\ IsFiniteSet(Users) /\ IsFiniteSet(Probes) /\ IsFiniteSet(Batches)
    /\ Users \cap Probes = {} /\ Users \cap Batches = {} /\ Probes \cap Batches = {}
ASSUME BoundsAssumption ==
    MaxItems \in Nat \ {0} /\ MaxPolls \in Nat \ {0} /\ BatchConcurrency \in Nat \ {0}

Requests == Users \cup Probes \cup Batches

VARIABLES shuttingDown,  \* _shutting_down
          inFlight,      \* _in_flight
          drainEvent,    \* whether _drain_event is set
          activeBatches, \* the gauge active_batch_jobs
          phase,         \* where lifespan stands
          polls,         \* elapsed / poll_interval of the batch drain
          waiter,        \* where the task of wait_for(_drain_event.wait()) stands
          batchesDrained,\* "all_batch_jobs_drained" was logged
          drained,       \* "all_requests_drained" was logged
          cleanup,       \* where the task of _cache_cleanup_loop stands
          pc,            \* where each request stands
          permits,       \* free permits of each batch's semaphore
          total,         \* len(body.items) of each batch
          results,       \* the results of each batch so far
          reply          \* the counts in the response of each batch

serverVars == <<shuttingDown, phase, polls, batchesDrained, drained, cleanup>>
counterVars == <<inFlight, drainEvent, waiter>>
batchVars == <<activeBatches, permits, total, results, reply>>
vars == <<serverVars, counterVars, batchVars, pc>>

Phases == {"serving", "batch_drain", "event_drain", "cancel_cleanup",
           "close_cache", "close_client", "stopped"}

\* "waiting" is also what a refused request goes back to; a batch passes
\* from "admitted" (authentication and validation) through "item" to
\* "responding".
PCs == {"waiting", "admitted", "item", "responding"}

\* An item ends with a result or with an error; the text of an error may
\* happen to contain the word the interrupted items are recognised by.
ItemOutcomes == {"ok", "error", "error_interrupted_in_text"}
Outcomes == ItemOutcomes \cup {"interrupted"}

NoReply == [total |-> 0, succeeded |-> 0, failed |-> 0, interrupted |-> 0]

Init ==
    /\ shuttingDown = FALSE
    /\ inFlight = 0
    /\ drainEvent = TRUE
    /\ activeBatches = 0
    /\ phase = "serving"
    /\ polls = 0
    /\ waiter = "none"
    /\ batchesDrained = FALSE
    /\ drained = FALSE
    /\ cleanup = "asleep"
    /\ pc = [r \in Requests |-> "waiting"]
    /\ permits = [b \in Batches |-> BatchConcurrency]
    /\ total = [b \in Batches |-> 1]
    /\ results = [b \in Batches |-> <<>>]
    /\ reply = [b \in Batches |-> NoReply]

Running == phase # "stopped"
-----------------------------------------------------------------------------
(* shutdown_middleware *)

\* 503 before anything is counted.
Refuse(r) ==
    /\ Running
    /\ pc[r] = "waiting"
    /\ shuttingDown /\ r \notin Probes
    /\ UNCHANGED vars

Admit(r) ==
    /\ Running
    /\ pc[r] = "waiting"
    /\ shuttingDown => r \in Probes
    /\ inFlight' = inFlight + 1
    /\ drainEvent' = FALSE
    /\ pc' = [pc EXCEPT ![r] = "admitted"]
    /\ IF r \in Batches
       THEN \E n \in 1..MaxItems : total' = [total EXCEPT ![r] = n]
       ELSE UNCHANGED total
    /\ UNCHANGED <<serverVars, waiter, activeBatches, permits, results, reply>>

\* Fault: the event is set by every request that leaves.
SetsEventAlways(n) == TRUE

\* Whether the event is set once n requests are left.
SetsEvent(n) == n = 0

\* The finally of the middleware: the handler has returned, failed or been
\* cancelled.  Setting the event resumes the drain even if it is cleared
\* again before the drain runs.  What was local to the handler is gone.
Leave(r) ==
    /\ Running
    /\ pc[r] \in {"admitted", "responding"}
    /\ inFlight' = inFlight - 1
    /\ drainEvent' = (drainEvent \/ SetsEvent(inFlight'))
    /\ waiter' = IF waiter = "waiting" /\ SetsEvent(inFlight') THEN "woken" ELSE waiter
    /\ pc' = [pc EXCEPT ![r] = "waiting"]
    /\ IF r \in Batches
       THEN /\ permits' = [permits EXCEPT ![r] = BatchConcurrency]
            /\ total' = [total EXCEPT ![r] = 1]
            /\ results' = [results EXCEPT ![r] = <<>>]
            /\ reply' = [reply EXCEPT ![r] = NoReply]
       ELSE UNCHANGED <<permits, total, results, reply>>
    /\ UNCHANGED <<serverVars, activeBatches>>
-----------------------------------------------------------------------------
(* describe_batch *)

Count(res, S) == Cardinality({i \in DOMAIN res : res[i] \in S})

\* Fault: the interrupted items are counted as failed as well.
ReplyCountsTwice(n, res) ==
    LET succeeded == Count(res, {"ok"})
    IN  [total |-> n, succeeded |-> succeeded, failed |-> n - succeeded,
         interrupted |-> Count(res, {"interrupted", "error_interrupted_in_text"})]

\* The counts of the response: an item is interrupted if its error contains
\* that word, and failed if it is neither succeeded nor interrupted.
Reply(n, res) ==
    LET succeeded == Count(res, {"ok"})
        interrupted == Count(res, {"interrupted", "error_interrupted_in_text"})
    IN  [total |-> n, succeeded |-> succeeded, interrupted |-> interrupted,
         failed |-> n - succeeded - interrupted]

\* Fault: one item too many is marked.
InterruptOneMore(n, res) ==
    [i \in 1..(n + 1) |-> IF i <= Len(res) THEN res[i] ELSE "interrupted"]

\* The remaining items are marked as interrupted.
Interrupt(n, res) == [i \in 1..n |-> IF i <= Len(res) THEN res[i] ELSE "interrupted"]

\* Faults: the flag is never looked at, or only before the first item.
GoesOnAlways(n, res) == Len(res) < n
GoesOnOnceStarted(n, res) == Len(res) < n /\ (res = <<>> => ~shuttingDown)

\* Whether the loop starts one more item.
GoesOn(n, res) == Len(res) < n /\ ~shuttingDown

\* From the head of the loop, with the results res, to the next suspension:
\* the next item is started, or the loop ends and the response is made up.
\* An item that fails validation does not suspend at all; here it ends in a
\* step of its own, which only adds interleavings.  free permits are left to
\* the item: the loop awaits each one, so that _limited never waits for one.
LoopFrom(b, n, res, active, free) ==
    IF GoesOn(n, res)
    THEN /\ pc' = [pc EXCEPT ![b] = "item"]
         /\ results' = [results EXCEPT ![b] = res]
         /\ activeBatches' = active
         /\ permits' = [permits EXCEPT ![b] = free - 1]
         /\ UNCHANGED reply
    ELSE LET final == Interrupt(n, res)
         IN  /\ pc' = [pc EXCEPT ![b] = "responding"]
             /\ results' = [results EXCEPT ![b] = final]
             /\ activeBatches' = active - 1
             /\ permits' = [permits EXCEPT ![b] = free]
             /\ reply' = [reply EXCEPT ![b] = Reply(n, final)]

\* The request is authenticated and valid: the job is counted and begins.
StartBatch(b) ==
    /\ Running
    /\ pc[b] = "admitted"
    /\ LoopFrom(b, total[b], <<>>, activeBatches + 1, permits[b])
    /\ UNCHANGED <<serverVars, counterVars, total>>

EndItem(b) ==
    /\ Running
    /\ pc[b] = "item"
    /\ \E o \in ItemOutcomes :
          LoopFrom(b, total[b], Append(results[b], o), activeBatches, permits[b] + 1)
    /\ UNCHANGED <<serverVars, counterVars, total>>

\* Fault: the job of a failed batch is not counted out.
AbortBatchUncounted(b) ==
    /\ Running
    /\ pc[b] = "item"
    /\ pc' = [pc EXCEPT ![b] = "responding"]
    /\ permits' = [permits EXCEPT ![b] = @ + 1]
    /\ UNCHANGED <<serverVars, counterVars, activeBatches, total, results, reply>>

\* Cancelled, or an exception that no except clause of _process_one names:
\* the finally counts the job out and there is no response.
AbortBatch(b) ==
    /\ Running
    /\ pc[b] = "item"
    /\ activeBatches' = activeBatches - 1
    /\ pc' = [pc EXCEPT ![b] = "responding"]
    /\ permits' = [permits EXCEPT ![b] = @ + 1]
    /\ UNCHANGED <<serverVars, counterVars, total, results, reply>>
-----------------------------------------------------------------------------
(* lifespan and _cache_cleanup_loop *)

Sigterm ==
    /\ Running
    /\ shuttingDown' = TRUE
    /\ UNCHANGED <<phase, polls, batchesDrained, drained, cleanup, counterVars, batchVars, pc>>

\* From the test of the polling loop, after n polls, to the next suspension.
DrainFrom(n) ==
    /\ polls' = n
    /\ IF activeBatches > 0 /\ n < MaxPolls
       THEN /\ phase' = "batch_drain"
            /\ UNCHANGED <<batchesDrained, waiter>>
       ELSE /\ phase' = "event_drain"
            /\ batchesDrained' = (activeBatches = 0)
            /\ waiter' = "starting"

\* The ASGI server resumes lifespan after its yield.
StopServing ==
    /\ phase = "serving"
    /\ IF shuttingDown
       THEN DrainFrom(0)
       ELSE phase' = "cancel_cleanup" /\ UNCHANGED <<polls, batchesDrained, waiter>>
    /\ UNCHANGED <<shuttingDown, drained, cleanup, inFlight, drainEvent, batchVars, pc>>

PollWake ==
    /\ phase = "batch_drain"
    /\ DrainFrom(polls + 1)
    /\ UNCHANGED <<shuttingDown, drained, cleanup, inFlight, drainEvent, batchVars, pc>>

\* wait_for runs the wait in a task of its own, which now looks at the event.
StartWait ==
    /\ phase = "event_drain"
    /\ waiter = "starting"
    /\ waiter' = IF drainEvent THEN "woken" ELSE "waiting"
    /\ UNCHANGED <<serverVars, inFlight, drainEvent, batchVars, pc>>

DrainWake ==
    /\ phase = "event_drain"
    /\ waiter = "woken"
    /\ phase' = "cancel_cleanup"
    /\ drained' = TRUE
    /\ waiter' = "none"
    /\ UNCHANGED <<shuttingDown, polls, batchesDrained, cleanup, inFlight, drainEvent,
                   batchVars, pc>>

\* Fault: the wait has no timeout.
DrainTimeoutNever ==
    /\ phase = "event_drain"
    /\ waiter = "woken"
    /\ phase' = "cancel_cleanup"
    /\ waiter' = "none"
    /\ UNCHANGED <<shuttingDown, polls, batchesDrained, drained, cleanup, inFlight,
                   drainEvent, batchVars, pc>>

\* shutdown_timeout has passed; it may race with the event.
DrainTimeout ==
    /\ phase = "event_drain"
    /\ phase' = "cancel_cleanup"
    /\ waiter' = "none"
    /\ UNCHANGED <<shuttingDown, polls, batchesDrained, drained, cleanup, inFlight,
                   drainEvent, batchVars, pc>>

\* The loop's sleep is over and the deletion starts; it ends, or fails and is
\* logged, and the loop sleeps again.  Once cancelled it does neither.
CleanupStep ==
    /\ phase \in {"serving", "batch_drain", "event_drain"}
    /\ cleanup' = IF cleanup = "asleep" THEN "cleaning" ELSE "asleep"
    /\ UNCHANGED <<shuttingDown, phase, polls, batchesDrained, drained, counterVars,
                   batchVars, pc>>

\* The cancellation reaches the cleanup task at whatever it awaits.
CleanupCancelled ==
    /\ phase = "cancel_cleanup"
    /\ cleanup # "cancelled"
    /\ cleanup' = "cancelled"
    /\ UNCHANGED <<shuttingDown, phase, polls, batchesDrained, drained, counterVars,
                   batchVars, pc>>

\* After the cleanup task, the cache is closed, then the HTTP client.
Close ==
    /\ \/ phase = "cancel_cleanup" /\ cleanup = "cancelled" /\ phase' = "close_cache"
       \/ phase = "close_cache" /\ phase' = "close_client"
       \/ phase = "close_client" /\ phase' = "stopped"
    /\ UNCHANGED <<shuttingDown, polls, batchesDrained, drained, cleanup, counterVars,
                   batchVars, pc>>

Next ==
    \/ \E r \in Requests : Refuse(r) \/ Admit(r) \/ Leave(r)
    \/ \E b \in Batches : StartBatch(b) \/ EndItem(b) \/ AbortBatch(b)
    \/ Sigterm
    \/ StopServing \/ PollWake \/ StartWait \/ DrainWake \/ DrainTimeout
    \/ CleanupStep \/ CleanupCancelled
    \/ Close

\* Sleeps and timeouts end, and a cancellation is delivered; nothing is
\* promised about requests, which may hang, nor about StopServing.
Fairness ==
    /\ WF_vars(PollWake) /\ WF_vars(StartWait) /\ WF_vars(DrainTimeout)
    /\ WF_vars(CleanupCancelled) /\ WF_vars(Close)

Spec == Init /\ [][Next]_vars /\ Fairness
-----------------------------------------------------------------------------
LifespanType ==
    /\ shuttingDown \in BOOLEAN /\ batchesDrained \in BOOLEAN /\ drained \in BOOLEAN
    /\ phase \in Phases
    /\ polls \in 0..MaxPolls
    /\ waiter \in {"none", "starting", "waiting", "woken"}
    /\ cleanup \in {"asleep", "cleaning", "cancelled"}

RequestType ==
    /\ inFlight \in Nat /\ drainEvent \in BOOLEAN /\ activeBatches \in Nat
    /\ pc \in [Requests -> PCs]
    /\ \A r \in Requests \ Batches : pc[r] \in {"waiting", "admitted"}

BatchType ==
    /\ permits \in [Batches -> 0..BatchConcurrency]
    /\ total \in [Batches -> 1..MaxItems]
    /\ results \in [Batches -> Seq(Outcomes)]
    /\ \A b \in Batches : Len(results[b]) <= total[b]
    /\ reply \in [Batches -> [total : Nat, succeeded : Nat, failed : Nat, interrupted : Nat]]

TypeOK == LifespanType /\ RequestType /\ BatchType

InFlight == {r \in Requests : pc[r] # "waiting"}
RunningJobs == {b \in Batches : pc[b] = "item"}

\* The counters that shutdown decides on are exact through every admission,
\* failure, cancellation and abort, and the event says what the counter says.
CountersExact ==
    /\ inFlight = Cardinality(InFlight)
    /\ drainEvent <=> inFlight = 0
    /\ activeBatches = Cardinality(RunningJobs)

\* Once "all_requests_drained" is logged, no ordinary or batch request is in
\* flight: the cache and the HTTP client are closed under nobody but the
\* probes.  The event may have been cleared again by a probe in between.
CleanDrain == drained => \A r \in InFlight : r \in Probes

\* Once "all_batch_jobs_drained" is logged no batch processes an item any
\* more, not even one that was admitted before the SIGTERM and was still
\* being authenticated when the jobs were counted.
DrainedBatchesStayIdle == batchesDrained => RunningJobs = {}

\* A response accounts for every item: there is one result for each, the
\* three counts add up to their number, and the interrupted items are the
\* last ones and only there if the server is shutting down.
RepliesAddUp ==
    \A b \in Batches : reply[b].total > 0 =>
        /\ Len(results[b]) = total[b] /\ reply[b].total = total[b]
        /\ reply[b].succeeded + reply[b].failed + reply[b].interrupted = total[b]
        /\ \A i \in 1..Len(results[b]) : results[b][i] = "interrupted" =>
               /\ shuttingDown
               /\ \A j \in i..Len(results[b]) : results[b][j] = "interrupted"

\* After a SIGTERM a batch finishes at most the item it is at.
NoItemAfterSigterm ==
    [][shuttingDown => \A b \in Batches : pc'[b] = "item" =>
           pc[b] = "item" /\ results'[b] = results[b]]_vars

\* Once lifespan has left its yield the process stops, even if every request
\* hangs and whatever the cleanup task was doing.
ShutdownCompletes == phase # "serving" ~> phase = "stopped"
=============================================================================
