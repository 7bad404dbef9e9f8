--------------------------- MODULE SafeCallProofs ---------------------------
(***************************************************************************)
(* The safety of SafeCall for every threshold, cooldown and finite set of  *)
(* callers.                                                                *)
(***************************************************************************)
EXTENDS SafeCall, TLAPS, FiniteSetTheorems

\* What the operators of the breaker return is again a breaker.
LEMMA BreakerOperators ==
    ASSUME NEW b \in BreakerType
    PROVE  /\ AfterIsOpen(b) \in BreakerType
           /\ AfterFailure(b) \in BreakerType
           /\ AfterSuccess(b) \in BreakerType
           /\ Elapse(b) \in BreakerType
  BY ThresholdAssumption, CooldownAssumption
     DEF BreakerType, Gauges, Disarmed, AfterIsOpen, AfterFailure, AfterSuccess, Elapse

LEMMA NewBreakerType == NewBreaker \in BreakerType
  BY CooldownAssumption DEF NewBreaker, BreakerType, Gauges, Disarmed

\* As long as the count is below the threshold it never exceeds the streak;
\* from the threshold on the streak has reached the threshold as well.
StreakBacksCount ==
    /\ breaker.failures <= Threshold => breaker.failures <= streak
    /\ breaker.failures >= Threshold => streak >= Threshold

IInv == TypeOK /\ Coherent /\ StreakBacksCount /\ OvershootBound

\* The calls in flight are finitely many, at most one for each caller.
LEMMA InFlightFinite ==
    /\ IsFiniteSet(InFlight)
    /\ Cardinality(InFlight) \in Nat
    /\ Cardinality(Callers) \in Nat
    /\ Cardinality(InFlight) <= Cardinality(Callers)
  BY CallersAssumption, FS_Subset, FS_CardinalityType DEF InFlight

\* A caller whose call ends leaves the set of calls in flight.
LEMMA InFlightLeave ==
    ASSUME NEW c \in Callers, pc \in [Callers -> {"idle", "calling"}],
           pc[c] = "calling", pc' = [pc EXCEPT ![c] = "idle"]
    PROVE  Cardinality(InFlight)' = Cardinality(InFlight) - 1
  <1>1. InFlight' = InFlight \ {c}  BY DEF InFlight
  <1>2. c \in InFlight  BY DEF InFlight
  <1> QED  BY <1>1, <1>2, InFlightFinite, FS_RemoveElement

LEMMA InitIInv == Init => IInv
  <1> SUFFICES ASSUME Init PROVE IInv  OBVIOUS
  <1>1. InFlight = {}  BY DEF Init, InFlight
  <1>2. Cardinality(InFlight) = 0  BY <1>1, FS_EmptySet
  <1>3. TypeOK /\ Coherent /\ StreakBacksCount
    BY ThresholdAssumption, CooldownAssumption
       DEF Init, TypeOK, Coherent, StreakBacksCount, NewBreaker, BreakerType,
           Gauges, Disarmed, Armed
  <1>4. OvershootBound
    BY <1>2, ThresholdAssumption, InFlightFinite DEF Init, OvershootBound, NewBreaker
  <1> QED  BY <1>3, <1>4 DEF IInv

\* A step that only queries the breaker.
LEMMA QueryIInv ==
    ASSUME IInv, breaker' = AfterIsOpen(breaker), UNCHANGED <<pc, streak>>
    PROVE  IInv'
  <1>1. TypeOK'  BY BreakerOperators DEF IInv, TypeOK
  <1>2. Coherent' /\ StreakBacksCount'
    BY ThresholdAssumption
       DEF IInv, TypeOK, BreakerType, Coherent, StreakBacksCount, AfterIsOpen, Armed, Disarmed
  <1>3. InFlight' = InFlight  BY DEF InFlight
  <1>4. OvershootBound'
    BY <1>3, InFlightFinite, ThresholdAssumption
       DEF IInv, TypeOK, BreakerType, OvershootBound, AfterIsOpen
  <1> QED  BY <1>1, <1>2, <1>4 DEF IInv

\* A call that is let through.  Its breaker is disarmed, or has just been
\* reset, and a disarmed breaker's count is below the threshold: the bound
\* holds whatever the number of calls in flight.
LEMMA EnterIInv ==
    ASSUME IInv, NEW c \in Callers, Enter(c)
    PROVE  IInv'
  <1>1. TypeOK'  BY BreakerOperators DEF IInv, TypeOK, Enter
  <1>2. Coherent' /\ StreakBacksCount'
    BY ThresholdAssumption
       DEF IInv, TypeOK, BreakerType, Coherent, StreakBacksCount, AfterIsOpen, Armed,
           Disarmed, Enter
  <1>3. breaker'.failures <= Threshold - 1 /\ breaker'.failures \in Nat
    BY ThresholdAssumption
       DEF IInv, TypeOK, BreakerType, Coherent, AfterIsOpen, IsOpen, Armed, Disarmed, Enter
  <1>4. InFlight' \subseteq Callers  BY DEF InFlight
  <1>5. Cardinality(InFlight') <= Cardinality(Callers) /\ Cardinality(InFlight') \in Nat
    BY <1>4, CallersAssumption, FS_Subset, FS_CardinalityType
  <1>6. OvershootBound'
    BY <1>3, <1>5, ThresholdAssumption, InFlightFinite DEF OvershootBound
  <1> QED  BY <1>1, <1>2, <1>6 DEF IInv

LEMMA SucceedIInv ==
    ASSUME IInv, NEW c \in Callers, Succeed(c)
    PROVE  IInv'
  <1>1. TypeOK'
    BY BreakerOperators, ThresholdAssumption DEF IInv, TypeOK, Succeed
  <1>2. Coherent' /\ StreakBacksCount'
    BY ThresholdAssumption
       DEF Coherent, StreakBacksCount, AfterSuccess, Armed, Disarmed, Succeed
  <1>3. Cardinality(InFlight)' = Cardinality(InFlight) - 1
    BY InFlightLeave DEF IInv, TypeOK, Succeed
  <1>4. OvershootBound'
    BY <1>3, InFlightFinite, ThresholdAssumption
       DEF IInv, TypeOK, BreakerType, OvershootBound, AfterSuccess, Succeed
  <1> QED  BY <1>1, <1>2, <1>4 DEF IInv

LEMMA FailIInv ==
    ASSUME IInv, NEW c \in Callers, Fail(c)
    PROVE  IInv'
  <1>1. TypeOK'
    BY BreakerOperators, ThresholdAssumption DEF IInv, TypeOK, Fail
  <1>2. Coherent' /\ StreakBacksCount'
    BY ThresholdAssumption, CooldownAssumption
       DEF IInv, TypeOK, BreakerType, Coherent, StreakBacksCount, AfterFailure, Armed,
           Disarmed, Fail
  <1>3. Cardinality(InFlight)' = Cardinality(InFlight) - 1
    BY InFlightLeave DEF IInv, TypeOK, Fail
  <1>4. breaker'.failures = breaker.failures + 1
    BY DEF IInv, TypeOK, BreakerType, AfterFailure, Fail
  <1>5. OvershootBound'
    BY <1>3, <1>4, InFlightFinite, ThresholdAssumption
       DEF IInv, TypeOK, BreakerType, OvershootBound
  <1> QED  BY <1>1, <1>2, <1>5 DEF IInv

LEMMA CancelIInv ==
    ASSUME IInv, NEW c \in Callers, Cancel(c)
    PROVE  IInv'
  <1>1. TypeOK' /\ Coherent' /\ StreakBacksCount'
    BY DEF IInv, TypeOK, Coherent, StreakBacksCount, Cancel
  <1>2. Cardinality(InFlight)' = Cardinality(InFlight) - 1
    BY InFlightLeave DEF IInv, TypeOK, Cancel
  <1>3. OvershootBound'
    BY <1>2, InFlightFinite, ThresholdAssumption
       DEF IInv, TypeOK, BreakerType, OvershootBound, Cancel
  <1> QED  BY <1>1, <1>3 DEF IInv

LEMMA TickIInv == ASSUME IInv, Tick PROVE IInv'
  <1>1. TypeOK'  BY BreakerOperators DEF IInv, TypeOK, Tick
  <1>2. Coherent' /\ StreakBacksCount'
    BY DEF IInv, TypeOK, BreakerType, Coherent, StreakBacksCount, Elapse, Armed,
           Disarmed, Tick
  <1>3. InFlight' = InFlight /\ breaker'.failures = breaker.failures
    BY DEF IInv, TypeOK, BreakerType, InFlight, Elapse, Tick
  <1>4. OvershootBound'  BY <1>3 DEF IInv, OvershootBound
  <1> QED  BY <1>1, <1>2, <1>4 DEF IInv

LEMMA NextIInv == IInv /\ [Next]_vars => IInv'
  <1> SUFFICES ASSUME IInv, [Next]_vars PROVE IInv'  OBVIOUS
  <1>1. CASE \E c \in Callers : Skip(c)  BY <1>1, QueryIInv DEF Skip
  <1>2. CASE \E c \in Callers : Enter(c)  BY <1>2, EnterIInv
  <1>3. CASE \E c \in Callers : Succeed(c)  BY <1>3, SucceedIInv
  <1>4. CASE \E c \in Callers : Fail(c)  BY <1>4, FailIInv
  <1>5. CASE \E c \in Callers : Cancel(c)  BY <1>5, CancelIInv
  <1>6. CASE GetStatus  BY <1>6, QueryIInv DEF GetStatus
  <1>7. CASE Tick  BY <1>7, TickIInv
  <1>8. CASE UNCHANGED vars
    BY <1>8 DEF vars, IInv, TypeOK, Coherent, StreakBacksCount, OvershootBound, InFlight
  <1> QED  BY <1>1, <1>2, <1>3, <1>4, <1>5, <1>6, <1>7, <1>8 DEF Next

\* The inductive invariant holds in every state of every execution.
THEOREM Invariance == Spec => []IInv
  BY InitIInv, NextIInv, PTL DEF Spec

\* The state keeps its type: the count is a natural number and the deadline
\* never lies further ahead than the cooldown.
THEOREM TypeCorrect == Spec => []TypeOK
  <1>1. IInv => TypeOK  BY DEF IInv
  <1> QED  BY <1>1, Invariance, PTL

\* Count, deadline and gauge of _breakers never contradict each other,
\* whatever the number of concurrent requests.
THEOREM BreakerCoherent == Spec => []Coherent
  <1>1. IInv => Coherent  BY DEF IInv
  <1> QED  BY <1>1, Invariance, PTL

\* The breaker never opens on failures that a success has separated.
THEOREM OpensOnConsecutiveFailures == Spec => []ArmedByStreak
  <1>1. IInv => ArmedByStreak
    BY DEF IInv, TypeOK, BreakerType, Coherent, StreakBacksCount, ArmedByStreak
  <1> QED  BY <1>1, Invariance, PTL

\* record_failure runs past the threshold at most once for each other call
\* that was in flight when the breaker opened.
THEOREM OvershootBounded == Spec => []OvershootBound
  <1>1. IInv => OvershootBound  BY DEF IInv
  <1> QED  BY <1>1, Invariance, PTL
-----------------------------------------------------------------------------
(* An opening runs down.  A late failure sets the deadline anew, but is paid *)
(* for by a call that was let through before the breaker opened.             *)

\* How much longer the breaker can stay open at most.
Budget == breaker.left + CooldownSec * Cardinality(InFlight)

RunsDown ==
    IsOpen(breaker') =>
        IF IsOpen(breaker)
        THEN Budget' < Budget
        ELSE Budget' <= CooldownSec * Cardinality(Callers)

\* An opening begins with at most a cooldown for every caller before it, and
\* whatever changes while it lasts, time that passes, a late failure or a
\* cancelled call, leaves less: no service is shut off for longer than that.
OpeningRunsDown == [][RunsDown]_vars

\* One cooldown less for one call less.
LEMMA OneLess ==
    ASSUME NEW n \in Nat \ {0}
    PROVE  CooldownSec * (n - 1) = CooldownSec * n - CooldownSec /\ CooldownSec * n \in Nat
  BY CooldownAssumption

LEMMA NextRunsDown == IInv /\ [Next]_vars => [RunsDown]_vars
  <1> SUFFICES ASSUME IInv, Next, ~UNCHANGED vars, IsOpen(breaker') PROVE RunsDown
    BY DEF RunsDown
  <1> DEFINE n == Cardinality(InFlight)
  <1>1. n \in Nat /\ breaker \in BreakerType /\ n <= Cardinality(Callers)
        /\ Cardinality(Callers) \in Nat
    BY InFlightFinite DEF IInv, TypeOK
  <1>2. \A c \in Callers : pc[c] = "calling" => n > 0
    <2> SUFFICES ASSUME NEW c \in Callers, pc[c] = "calling" PROVE n # 0  BY <1>1
    <2>1. c \in InFlight  BY DEF InFlight
    <2> QED  BY <2>1, InFlightFinite, FS_EmptySet
  <1>3. ASSUME NEW c \in Callers, Skip(c) PROVE FALSE
    <2>1. breaker' = breaker  BY <1>3 DEF Skip, AfterIsOpen, IsOpen
    <2> QED  BY <1>3, <2>1 DEF Skip, vars
  <1>4. CASE GetStatus
    <2>1. breaker' = breaker  BY <1>4 DEF GetStatus, AfterIsOpen, IsOpen, Disarmed
    <2> QED  BY <1>4, <2>1 DEF GetStatus, vars
  <1>5. ASSUME NEW c \in Callers, Enter(c) PROVE FALSE
    BY <1>1, <1>5 DEF Enter, AfterIsOpen, IsOpen, Disarmed, BreakerType
  <1>6. ASSUME NEW c \in Callers, Succeed(c) PROVE FALSE
    BY <1>6 DEF Succeed, AfterSuccess, IsOpen, Disarmed
  <1>7. ASSUME NEW c \in Callers, Fail(c) PROVE RunsDown
    <2>1. Cardinality(InFlight)' = n - 1 /\ n > 0
      <3>1. pc[c] = "calling" /\ pc' = [pc EXCEPT ![c] = "idle"]  BY <1>7 DEF Fail
      <3> QED  BY <1>2, <3>1, InFlightLeave DEF IInv, TypeOK
    <2>2. breaker'.left = CooldownSec
      BY <1>1, <1>7, ThresholdAssumption, CooldownAssumption
         DEF Fail, AfterFailure, IsOpen, IInv, Coherent, Armed, Disarmed, BreakerType
    <2>3. CooldownSec * (n - 1) = CooldownSec * n - CooldownSec /\ CooldownSec * n \in Nat
      BY <1>1, <2>1, OneLess
    <2>4. Budget' = CooldownSec * n
      BY <2>1, <2>2, <2>3, CooldownAssumption DEF Budget
    <2>5. IsOpen(breaker) => Budget' < Budget
      BY <1>1, <2>3, <2>4 DEF Budget, IsOpen, BreakerType
    <2>6. \A k, m \in Nat : m <= k => CooldownSec * m <= CooldownSec * k
      BY CooldownAssumption
    <2>7. Budget' <= CooldownSec * Cardinality(Callers)  BY <1>1, <2>4, <2>6
    <2> QED  BY <2>5, <2>7 DEF RunsDown
  <1>8. ASSUME NEW c \in Callers, Cancel(c) PROVE RunsDown
    <2>1. /\ Cardinality(InFlight)' = n - 1 /\ n > 0 /\ breaker' = breaker
      BY <1>2, <1>8, InFlightLeave DEF Cancel, IInv, TypeOK
    <2>2. CooldownSec * (n - 1) = CooldownSec * n - CooldownSec /\ CooldownSec * n \in Nat
      BY <1>1, <2>1, OneLess
    <2>3. Budget' < Budget
      BY <1>1, <2>1, <2>2, CooldownAssumption DEF Budget, BreakerType, Disarmed
    <2> QED  BY <2>1, <2>3 DEF RunsDown
  <1>9. CASE Tick
    <2>1. IsOpen(breaker) /\ breaker'.left = breaker.left - 1
      BY <1>1, <1>9 DEF Tick, Elapse, IsOpen, BreakerType
    <2>2. Cardinality(InFlight)' = n  BY <1>9 DEF Tick, InFlight
    <2>3. CooldownSec * n \in Nat  BY <1>1, CooldownAssumption
    <2> QED
      BY <1>1, <2>1, <2>2, <2>3, CooldownAssumption DEF RunsDown, Budget, BreakerType, Disarmed
  <1> QED  BY <1>3, <1>4, <1>5, <1>6, <1>7, <1>8, <1>9 DEF Next

\* Why an open breaker lets calls through again, for any number of callers:
\* late failures extend an opening by a bounded time only.
THEOREM OpeningsEnd == Spec => OpeningRunsDown
  <1>1. IInv /\ [Next]_vars => [RunsDown]_vars  BY NextRunsDown
  <1> QED  BY <1>1, Invariance, PTL DEF Spec, OpeningRunsDown
=============================================================================
