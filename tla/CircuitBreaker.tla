--------------------------- MODULE CircuitBreaker ---------------------------
(***************************************************************************)
(* The circuit breaker of app/utils/circuit_breaker.py as operators on a   *)
(* record.  Its methods never suspend while they hold their lock, so each  *)
(* one is a single atomic step of whoever calls it.                        *)
(*                                                                         *)
(* _open_until is kept as the time still to run, left = _open_until - now, *)
(* so that the clock needs no bound: Disarmed stands for _open_until = 0.0 *)
(* and 0 for a deadline that has been reached or passed.  The code only    *)
(* ever asks whether now < _open_until, which is 0 < left.                 *)
(***************************************************************************)
EXTENDS Integers

CONSTANTS Threshold,     \* failure_threshold, 5 for every breaker of the code
          CooldownSec    \* cooldown_sec, 30 for every breaker of the code

ASSUME ThresholdAssumption == Threshold \in Nat \ {0}
ASSUME CooldownAssumption == CooldownSec \in Nat \ {0}

Disarmed == -1

\* circuit_breaker_state is a labelled gauge: no sample before the first set.
Gauges == {"unset", "closed", "open", "half_open"}

BreakerType == [failures : Nat, left : Disarmed..CooldownSec, gauge : Gauges]

NewBreaker == [failures |-> 0, left |-> Disarmed, gauge |-> "unset"]

Armed(b) == b.left # Disarmed

\* Faults of is_open, for the mutation runs: it lets calls through a unit too
\* early, or stays open for as long as a deadline is set.
IsOpenEarly(b) == b.left > 1
IsOpenWhileArmed(b) == Armed(b)

\* What is_open returns.
IsOpen(b) == b.left > 0

\* Fault: the half-open reset forgets the count.
AfterIsOpenKeepsCount(b) ==
    IF b.left = 0 THEN [b EXCEPT !.left = Disarmed, !.gauge = "half_open"] ELSE b

\* What is_open, and so get_status, leaves behind: an expired deadline
\* is cleared and the count starts over (half-open).
AfterIsOpen(b) ==
    IF b.left = 0
    THEN [failures |-> 0, left |-> Disarmed, gauge |-> "half_open"]
    ELSE b

AfterFailure(b) ==
    IF b.failures + 1 >= Threshold
    THEN [failures |-> b.failures + 1, left |-> CooldownSec, gauge |-> "open"]
    ELSE [b EXCEPT !.failures = @ + 1]

\* Faults: a success forgives one failure only, or keeps the count.
AfterSuccessForgivesOne(b) ==
    [failures |-> b.failures - 1, left |-> Disarmed, gauge |-> "closed"]
AfterSuccessKeepsCount(b) == [b EXCEPT !.left = Disarmed, !.gauge = "closed"]

AfterSuccess(b) == [failures |-> 0, left |-> Disarmed, gauge |-> "closed"]

\* One unit of time passes.
Elapse(b) == [b EXCEPT !.left = IF @ > 0 THEN @ - 1 ELSE @]
=============================================================================
