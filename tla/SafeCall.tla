------------------------------ MODULE SafeCall ------------------------------
(***************************************************************************)
(* Concurrent requests that reach one external service through _safe_call  *)
(* (app/services/composer.py) and the circuit breaker they share.  A call  *)
(* suspends between is_open and record_*, so any number of the other       *)
(* callers, of the status endpoints and of the clock's ticks happen in     *)
(* between: an outcome is recorded on a breaker that may have opened,      *)
(* expired or been reset since the call was let through.                   *)
(***************************************************************************)
EXTENDS CircuitBreaker, FiniteSets

CONSTANT Callers         \* requests that call the service concurrently

ASSUME CallersAssumption == IsFiniteSet(Callers)

VARIABLES breaker,       \* the service's entry of _breakers
          pc,            \* "idle", or "calling" while it awaits the service
          streak         \* history: failures recorded since the last success,
                         \* counted up to Threshold

vars == <<breaker, pc, streak>>

InFlight == {c \in Callers : pc[c] = "calling"}

Init ==
    /\ breaker = NewBreaker
    /\ pc = [c \in Callers |-> "idle"]
    /\ streak = 0

\* The breaker is open: a warning and no call.
Skip(c) ==
    /\ pc[c] = "idle"
    /\ IsOpen(breaker)
    /\ breaker' = AfterIsOpen(breaker)
    /\ UNCHANGED <<pc, streak>>

\* The breaker lets the call through; the caller now awaits the service.
Enter(c) ==
    /\ pc[c] = "idle"
    /\ ~IsOpen(breaker)
    /\ breaker' = AfterIsOpen(breaker)
    /\ pc' = [pc EXCEPT ![c] = "calling"]
    /\ UNCHANGED streak

Succeed(c) ==
    /\ pc[c] = "calling"
    /\ breaker' = AfterSuccess(breaker)
    /\ pc' = [pc EXCEPT ![c] = "idle"]
    /\ streak' = 0

Fail(c) ==
    /\ pc[c] = "calling"
    /\ breaker' = AfterFailure(breaker)
    /\ pc' = [pc EXCEPT ![c] = "idle"]
    /\ streak' = IF streak < Threshold THEN streak + 1 ELSE streak

\* CancelledError is no Exception: a cancelled call records nothing.
Cancel(c) ==
    /\ pc[c] = "calling"
    /\ pc' = [pc EXCEPT ![c] = "idle"]
    /\ UNCHANGED <<breaker, streak>>

\* get_breaker_statuses, from the health and circuits endpoints.
GetStatus ==
    /\ breaker' = AfterIsOpen(breaker)
    /\ UNCHANGED <<pc, streak>>

Tick ==
    /\ breaker' = Elapse(breaker)
    /\ UNCHANGED <<pc, streak>>

Next ==
    \/ \E c \in Callers : Skip(c) \/ Enter(c) \/ Succeed(c) \/ Fail(c) \/ Cancel(c)
    \/ GetStatus
    \/ Tick

\* Time passes; nothing else is promised, neither callers nor answers.
Spec == Init /\ [][Next]_vars /\ WF_vars(Tick)
-----------------------------------------------------------------------------
TypeOK ==
    /\ breaker \in BreakerType
    /\ pc \in [Callers -> {"idle", "calling"}]
    /\ streak \in 0..Threshold

\* The deadline and the count are two views of one state and the exported
\* gauge is a third: whatever the interleaving of late outcomes, expiry and
\* status queries, the breaker is armed exactly when the count has reached
\* the threshold and exactly when the gauge reports "open".
Coherent ==
    /\ Armed(breaker) <=> breaker.failures >= Threshold
    /\ Armed(breaker) <=> breaker.gauge = "open"

\* A breaker is armed only on Threshold consecutive failures: no success was
\* recorded among the last Threshold outcomes.
ArmedByStreak == Armed(breaker) => streak >= Threshold

\* Calls already in flight when the breaker opens may still fail and count:
\* past the threshold, a failure and with it a re-armed cooldown is paid for
\* by a call that was let through before.  An opening is therefore extended
\* at most Cardinality(Callers) - 1 times.
OvershootBound ==
    breaker.failures + Cardinality(InFlight) <= Threshold - 1 + Cardinality(Callers)

\* An open breaker lets calls through again, whatever late failures do to
\* its deadline.
CooldownEnds == IsOpen(breaker) ~> ~IsOpen(breaker)
=============================================================================
