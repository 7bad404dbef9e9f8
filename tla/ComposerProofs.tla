--------------------------- MODULE ComposerProofs ---------------------------
(***************************************************************************)
(* The safety of Composer, and that it implements SafeCall for each        *)
(* service, for every threshold, cooldown and choice of services and for   *)
(* every finite set of requests.                                           *)
(***************************************************************************)
EXTENDS Composer, FiniteSetTheorems, TLAPS

\* What the operators of the breaker return is again a breaker.
LEMMA BreakerOperators ==
    ASSUME NEW b \in BreakerType
    PROVE  /\ AfterIsOpen(b) \in BreakerType
           /\ AfterFailure(b) \in BreakerType
           /\ AfterSuccess(b) \in BreakerType
           /\ Elapse(b) \in BreakerType
  BY ThresholdAssumption, CooldownAssumption
     DEF BreakerType, Gauges, Disarmed, AfterIsOpen, AfterFailure, AfterSuccess, Elapse

LEMMA NewBreakerType == NewBreaker \in BreakerType
  BY CooldownAssumption DEF NewBreaker, BreakerType, Gauges, Disarmed

\* What is in the list of warnings of q, at any time.
WarningsExact(q) ==
    /\ \A s \in Services : warned[q][s] = IF call[q][s] = "gap" THEN 1 ELSE 0
    /\ warned[q]["supabase"] = IF saved[q] = "false" THEN 1 ELSE 0

\* Where the tasks of q stand at each of its stages.
CallsAtStage(q) ==
    /\ stage[q] = "idle" => \A s \in Services : call[q][s] \notin {"starting", "calling"}
    /\ stage[q] = "phase1" => \A s \in Services : s \notin Phase1 => call[q][s] = "none"
    /\ stage[q] \in {"phase2", "saving"} => Settled(q, Phase1)
    /\ stage[q] = "saving" => Settled(q, Phase2) /\ call[q]["describer"] = "value"

\* What q has to show for itself at each of its stages.
AccountAtStage(q) ==
    /\ stage[q] # "idle" => reply[q] = "none" /\ saved[q] = "null"
    /\ counted[q] = IF stage[q] = "saving" \/ reply[q] # "none" THEN 1 ELSE 0
    /\ saved[q] # "null" => reply[q] = "response" /\ call[q]["describer"] = "value"
    /\ reply[q] = "response" => Settled(q, Services)

RequestInv(q) == WarningsExact(q) /\ CallsAtStage(q) /\ AccountAtStage(q)

IInv == TypeOK /\ \A q \in Requests : RequestInv(q)

\* The services and the database go by different names.
LEMMA ServiceNames ==
    /\ "supabase" \notin Services
    /\ "describer" \in Services
    /\ Services \subseteq Modules /\ "supabase" \in Modules
    /\ Phase1 \subseteq Services /\ Phase2 \subseteq Services
    /\ Phase1 \cap Phase2 = {}
    /\ Services = Phase1 \cup Phase2
  BY ServicesAssumption DEF Services, Modules

\* A step of r is none of the other requests' business.
OnlyOf(r) ==
    \A q \in Requests \ {r} :
        /\ stage'[q] = stage[q] /\ call'[q] = call[q] /\ warned'[q] = warned[q]
        /\ saved'[q] = saved[q] /\ counted'[q] = counted[q] /\ reply'[q] = reply[q]

LEMMA StepOfOne ==
    ASSUME IInv, NEW r \in Requests, OnlyOf(r), TypeOK', RequestInv(r)'
    PROVE  IInv'
  <1>1. ASSUME NEW q \in Requests \ {r} PROVE RequestInv(q)'
    BY DEF IInv, OnlyOf, RequestInv, WarningsExact, CallsAtStage, AccountAtStage, Settled
  <1> QED  BY <1>1 DEF IInv

LEMMA InitIInv == Init => IInv
  <1> SUFFICES ASSUME Init PROVE IInv  OBVIOUS
  <1>1. TypeOK
    BY NewBreakerType, ThresholdAssumption DEF Init, TypeOK, Stages, Calls, Results
  <1>2. ASSUME NEW q \in Requests PROVE RequestInv(q)
    BY ServiceNames
       DEF Init, RequestInv, WarningsExact, CallsAtStage, AccountAtStage, Settled, Results
  <1> QED  BY <1>1, <1>2 DEF IInv

\* A task that has not ended belongs to a request in one of the two phases,
\* and to a service it has not warned of.
LEMMA TaskOfPhase ==
    ASSUME IInv, NEW r \in Requests, NEW s \in Services, call[r][s] \in {"starting", "calling"}
    PROVE  /\ stage[r] \in {"phase1", "phase2"}
           /\ stage[r] = "phase1" => s \in Phase1
           /\ stage[r] = "phase2" => s \notin Phase1
           /\ warned[r][s] = 0 /\ counted[r] = 0
           /\ reply[r] = "none" /\ saved[r] = "null"
  <1>1. TypeOK /\ RequestInv(r)  BY DEF IInv
  <1>2. stage[r] \in {"idle", "phase1", "phase2", "saving"}  BY <1>1 DEF TypeOK, Stages
  <1>3. stage[r] \notin {"idle", "saving"}
    BY <1>1, ServiceNames DEF RequestInv, CallsAtStage, Settled, Results
  <1>4. /\ stage[r] = "phase1" => s \in Phase1
        /\ stage[r] = "phase2" => s \notin Phase1
    BY <1>1, ServiceNames DEF RequestInv, CallsAtStage, Settled, Results
  <1>5. warned[r][s] = 0  BY <1>1 DEF RequestInv, WarningsExact
  <1>6. reply[r] = "none" /\ saved[r] = "null" /\ counted[r] = 0
    BY <1>1, <1>2, <1>3 DEF RequestInv, AccountAtStage
  <1> QED  BY <1>2, <1>3, <1>4, <1>5, <1>6

\* The task of one service moves on to c, with w warnings in the list.
Moves(r, s, c, w) ==
    /\ call[r][s] \in {"starting", "calling"}
    /\ c \in Calls \ {"none", "starting"}
    /\ call' = [call EXCEPT ![r][s] = c]
    /\ w = IF c = "gap" THEN 1 ELSE 0
    /\ warned' = [warned EXCEPT ![r][s] = w]
    /\ UNCHANGED <<stage, saved, counted, reply>>

LEMMA TaskStep ==
    ASSUME IInv, NEW r \in Requests, NEW s \in Services, NEW c, NEW w, Moves(r, s, c, w),
           breakers' \in [Services -> BreakerType],
           lost' \in [Services -> 0..Threshold],
           streak' \in [Services -> 0..Threshold]
    PROVE  IInv'
  <1> USE DEF Moves
  <1>1. TypeOK /\ RequestInv(r)  BY DEF IInv
  <1>2. /\ call'[r] = [call[r] EXCEPT ![s] = c]
        /\ warned'[r] = [warned[r] EXCEPT ![s] = w]
    BY <1>1 DEF TypeOK
  <1>3. /\ call'[r][s] = c
        /\ \A t \in Services \ {s} : call'[r][t] = call[r][t]
        /\ warned'[r][s] = w
        /\ \A m \in Modules \ {s} : warned'[r][m] = warned[r][m]
    BY <1>1, <1>2, ServiceNames DEF TypeOK
  <1>4. call'[r] \in [Services -> Calls] /\ warned'[r] \in [Modules -> 0..1]
    BY <1>1, <1>2, ServiceNames DEF TypeOK
  <1>5. TypeOK'
    <2>1. call' = [call EXCEPT ![r] = call'[r]]  BY <1>1, <1>2 DEF TypeOK
    <2>2. warned' = [warned EXCEPT ![r] = warned'[r]]  BY <1>1, <1>2 DEF TypeOK
    <2>3. call' \in [Requests -> [Services -> Calls]]  BY <1>1, <1>4, <2>1 DEF TypeOK
    <2>4. warned' \in [Requests -> [Modules -> 0..1]]  BY <1>1, <1>4, <2>2 DEF TypeOK
    <2> QED  BY <1>1, <2>3, <2>4 DEF TypeOK
  <1>6. WarningsExact(r)'
    BY <1>1, <1>3, ServiceNames DEF RequestInv, WarningsExact
  <1>7. CallsAtStage(r)'
    BY <1>1, <1>3, TaskOfPhase, ServiceNames
       DEF RequestInv, CallsAtStage, Settled, Results, Calls
  <1>8. AccountAtStage(r)'
    BY <1>1, TaskOfPhase DEF RequestInv, AccountAtStage
  <1>9. OnlyOf(r)  BY <1>1 DEF OnlyOf, TypeOK
  <1> QED  BY <1>5, <1>6, <1>7, <1>8, <1>9, StepOfOne DEF RequestInv

LEMMA StartCallIInv ==
    ASSUME IInv, NEW r \in Requests, NEW s \in Services, StartCall(r, s)
    PROVE  IInv'
  <1>1. breakers' \in [Services -> BreakerType] /\ lost' \in [Services -> 0..Threshold]
    BY BreakerOperators, ThresholdAssumption DEF IInv, TypeOK, StartCall, Look
  <1>2. streak' \in [Services -> 0..Threshold]
    BY DEF IInv, TypeOK, StartCall, Look
  <1>3. warned[r][s] = 0 /\ warned = [warned EXCEPT ![r][s] = 0]
    BY TaskOfPhase DEF IInv, TypeOK, StartCall
  <1>4. CASE call' = [call EXCEPT ![r][s] = "gap"] /\ Warn(r, s)
    <2>1. warned' = [warned EXCEPT ![r][s] = 1]
      BY <1>3, <1>4, ServiceNames DEF Warn, IInv, TypeOK
    <2>2. Moves(r, s, "gap", 1)  BY <1>4, <2>1 DEF Moves, StartCall, Calls, Results
    <2> QED  BY <1>1, <1>2, <2>2, TaskStep
  <1>5. CASE call' = [call EXCEPT ![r][s] = "calling"] /\ UNCHANGED warned
    <2>1. warned' = [warned EXCEPT ![r][s] = 0]  BY <1>3, <1>5
    <2>2. Moves(r, s, "calling", 0)  BY <1>5, <2>1 DEF Moves, StartCall, Calls, Results
    <2> QED  BY <1>1, <1>2, <2>2, TaskStep
  <1> QED  BY <1>4, <1>5 DEF StartCall

LEMMA EndCallIInv ==
    ASSUME IInv, NEW r \in Requests, NEW s \in Services, EndCall(r, s)
    PROVE  IInv'
  <1>1. PICK e \in Endings(s) :
          /\ call' = [call EXCEPT ![r][s] = e[1]]
          /\ Contact(s, e[2])
          /\ \/ /\ e[1] = "gap"
                /\ breakers' = [breakers EXCEPT ![s] = AfterFailure(@)]
                /\ streak' = [streak EXCEPT ![s] = UpTo(@)]
                /\ Warn(r, s)
             \/ /\ e[1] # "gap"
                /\ breakers' = [breakers EXCEPT ![s] = AfterSuccess(@)]
                /\ streak' = [streak EXCEPT ![s] = 0]
                /\ UNCHANGED warned
    BY DEF EndCall
  <1>2. e[1] \in Results  BY DEF Endings, OnFailure, MissionEndings, DescriberEndings, Results
  <1>3. lost' \in [Services -> 0..Threshold]
    BY <1>1, ThresholdAssumption DEF IInv, TypeOK, Contact, UpTo
  <1>4. breakers' \in [Services -> BreakerType] /\ streak' \in [Services -> 0..Threshold]
    <2>1. breakers[s] \in BreakerType /\ streak[s] \in 0..Threshold  BY DEF IInv, TypeOK
    <2>2. AfterFailure(breakers[s]) \in BreakerType /\ AfterSuccess(breakers[s]) \in BreakerType
      BY <2>1, BreakerOperators
    <2>3. UpTo(streak[s]) \in 0..Threshold /\ 0 \in 0..Threshold
      BY <2>1, ThresholdAssumption DEF UpTo
    <2> QED  BY <1>1, <2>2, <2>3 DEF IInv, TypeOK
  <1>5. warned[r][s] = 0 /\ warned = [warned EXCEPT ![r][s] = 0]
    BY TaskOfPhase DEF IInv, TypeOK, EndCall
  <1>6. CASE e[1] = "gap" /\ Warn(r, s)
    <2>1. warned' = [warned EXCEPT ![r][s] = 1]
      BY <1>5, <1>6, ServiceNames DEF Warn, IInv, TypeOK
    <2>2. Moves(r, s, e[1], 1)
      BY <1>1, <1>2, <1>6, <2>1 DEF Moves, EndCall, Calls, Results
    <2> QED  BY <1>3, <1>4, <2>2, TaskStep
  <1>7. CASE e[1] # "gap" /\ UNCHANGED warned
    <2>1. warned' = [warned EXCEPT ![r][s] = 0]  BY <1>5, <1>7
    <2>2. Moves(r, s, e[1], 0)
      BY <1>1, <1>2, <1>7, <2>1 DEF Moves, EndCall, Calls, Results
    <2> QED  BY <1>3, <1>4, <2>2, TaskStep
  <1> QED  BY <1>1, <1>6, <1>7

LEMMA BeginIInv ==
    ASSUME IInv, NEW r \in Requests, Begin(r)
    PROVE  IInv'
  <1>1. TypeOK'
    BY DEF IInv, TypeOK, Begin, breakerVars, Stages, Calls
  <1>2. RequestInv(r)'
    BY ServiceNames
       DEF IInv, TypeOK, Begin, RequestInv, WarningsExact, CallsAtStage, AccountAtStage,
           Settled, Results
  <1>3. OnlyOf(r)  BY DEF IInv, TypeOK, OnlyOf, Begin
  <1> QED  BY <1>1, <1>2, <1>3, StepOfOne

LEMMA SecondPhaseIInv ==
    ASSUME IInv, NEW r \in Requests, SecondPhase(r)
    PROVE  IInv'
  <1>1. TypeOK'
    BY DEF IInv, TypeOK, SecondPhase, breakerVars, Stages, Calls
  <1>2. RequestInv(r)'
    BY ServiceNames
       DEF IInv, TypeOK, SecondPhase, RequestInv, WarningsExact, CallsAtStage,
           AccountAtStage, Settled, Results
  <1>3. OnlyOf(r)  BY DEF IInv, TypeOK, OnlyOf, SecondPhase
  <1> QED  BY <1>1, <1>2, <1>3, StepOfOne

LEMMA ComposedIInv ==
    ASSUME IInv, NEW r \in Requests, Composed(r)
    PROVE  IInv'
  <1>1. Settled(r, Services) /\ counted[r] = 0 /\ reply[r] = "none" /\ saved[r] = "null"
    BY ServiceNames DEF IInv, RequestInv, CallsAtStage, AccountAtStage, Composed, Settled
  <1>2. TypeOK /\ RequestInv(r)  BY DEF IInv
  <1>3. /\ counted'[r] = 1 /\ counted' \in [Requests -> 0..1]
        /\ call' = call /\ warned' = warned /\ saved' = saved
        /\ \/ stage'[r] = "saving" /\ reply' = reply /\ call[r]["describer"] = "value"
           \/ stage'[r] = "idle" /\ reply'[r] = "response"
    BY <1>1, <1>2 DEF TypeOK, Composed
  <1>4. /\ stage' \in [Requests -> Stages]
        /\ reply' \in [Requests -> {"none", "response", "error", "cancelled"}]
    BY <1>2 DEF TypeOK, Composed, Stages
  <1>5. TypeOK'
    BY <1>2, <1>3, <1>4 DEF TypeOK, Composed, breakerVars
  <1>6. RequestInv(r)'
    BY <1>1, <1>2, <1>3, ServiceNames
       DEF RequestInv, WarningsExact, CallsAtStage, AccountAtStage, Settled, Results
  <1>7. OnlyOf(r)  BY <1>2 DEF TypeOK, OnlyOf, Composed
  <1> QED  BY <1>5, <1>6, <1>7, StepOfOne

LEMMA SaveIInv ==
    ASSUME IInv, NEW r \in Requests, Save(r)
    PROVE  IInv'
  <1>1. TypeOK /\ RequestInv(r)  BY DEF IInv
  <1>2. /\ Settled(r, Services) /\ call[r]["describer"] = "value"
        /\ warned[r]["supabase"] = 0 /\ counted[r] = 1 /\ saved[r] = "null"
    BY <1>1, ServiceNames
       DEF RequestInv, WarningsExact, CallsAtStage, AccountAtStage, Save, Settled
  <1>3. /\ stage'[r] = "idle" /\ stage' \in [Requests -> Stages]
        /\ call' = call /\ counted' = counted /\ UNCHANGED breakerVars
    BY <1>1 DEF TypeOK, Save, Stages
  <1>4. /\ saved' \in [Requests -> {"null", "true", "false"}]
        /\ reply' \in [Requests -> {"none", "response", "error", "cancelled"}]
    BY <1>1 DEF TypeOK, Save
  <1>5. \/ saved'[r] = "true" /\ reply'[r] = "response" /\ warned' = warned
        \/ /\ saved'[r] = "false" /\ reply'[r] = "response"
           /\ warned' = [warned EXCEPT ![r]["supabase"] = @ + 1]
        \/ saved' = saved /\ reply'[r] = "error" /\ warned' = warned
    BY <1>1 DEF TypeOK, Save, Warn
  <1>6. /\ warned' \in [Requests -> [Modules -> 0..1]]
        /\ \A s \in Services : warned'[r][s] = warned[r][s]
        /\ warned'[r]["supabase"] = IF saved'[r] = "false" THEN 1 ELSE 0
    <2>1. CASE warned' = warned /\ saved'[r] # "false"
      BY <1>1, <1>2, <2>1 DEF TypeOK
    <2>2. CASE saved'[r] = "false" /\ warned' = [warned EXCEPT ![r]["supabase"] = @ + 1]
      <3>1. [warned[r] EXCEPT !["supabase"] = 1] \in [Modules -> 0..1]
        BY <1>1, ServiceNames DEF TypeOK
      <3>2. warned' = [warned EXCEPT ![r] = [warned[r] EXCEPT !["supabase"] = 1]]
        BY <1>1, <1>2, <2>2, ServiceNames DEF TypeOK
      <3>3. warned' \in [Requests -> [Modules -> 0..1]]
        BY <1>1, <3>1, <3>2 DEF TypeOK
      <3>4. warned'[r] = [warned[r] EXCEPT !["supabase"] = 1]
        BY <1>1, <3>2 DEF TypeOK
      <3> QED  BY <1>1, <2>2, <3>3, <3>4, ServiceNames DEF TypeOK
    <2> QED  BY <1>2, <1>5, <2>1, <2>2
  <1>7. TypeOK'
    BY <1>1, <1>3, <1>4, <1>6 DEF TypeOK, breakerVars
  <1>8. RequestInv(r)'
    BY <1>1, <1>2, <1>3, <1>5, <1>6, ServiceNames
       DEF RequestInv, WarningsExact, CallsAtStage, AccountAtStage, Settled, Results
  <1>9. OnlyOf(r)  BY <1>1 DEF TypeOK, OnlyOf, Save, Warn
  <1> QED  BY <1>7, <1>8, <1>9, StepOfOne

LEMMA CancelIInv ==
    ASSUME IInv, NEW r \in Requests, Cancel(r)
    PROVE  IInv'
  <1>1. TypeOK'
    BY DEF IInv, RequestInv, AccountAtStage, TypeOK, Cancel, breakerVars, Stages, Calls, Results
  <1>2. RequestInv(r)'
    BY ServiceNames
       DEF IInv, TypeOK, Cancel, RequestInv, WarningsExact, CallsAtStage, AccountAtStage,
           Settled, Results, Stages
  <1>3. OnlyOf(r)  BY DEF IInv, TypeOK, OnlyOf, Cancel
  <1> QED  BY <1>1, <1>2, <1>3, StepOfOne

\* Steps that no request takes part in.
LEMMA BreakersIInv ==
    ASSUME IInv, GetStatuses \/ Tick \/ UNCHANGED vars
    PROVE  IInv'
  <1>1. UNCHANGED requestVars /\ streak' = streak
    BY DEF GetStatuses, Tick, vars, breakerVars
  <1>2. breakers' \in [Services -> BreakerType] /\ lost' \in [Services -> 0..Threshold]
    BY BreakerOperators, ThresholdAssumption
       DEF IInv, TypeOK, GetStatuses, Tick, vars, breakerVars
  <1>3. TypeOK'
    BY <1>1, <1>2 DEF IInv, TypeOK, requestVars
  <1>4. ASSUME NEW q \in Requests PROVE RequestInv(q)'
    BY <1>1
       DEF IInv, RequestInv, WarningsExact, CallsAtStage, AccountAtStage, Settled, requestVars
  <1> QED  BY <1>3, <1>4 DEF IInv

LEMMA NextIInv == IInv /\ [Next]_vars => IInv'
  <1> SUFFICES ASSUME IInv, [Next]_vars PROVE IInv'  OBVIOUS
  <1>1. ASSUME NEW r \in Requests, NEW s \in Services, StartCall(r, s) PROVE IInv'
    BY <1>1, StartCallIInv
  <1>2. ASSUME NEW r \in Requests, NEW s \in Services, EndCall(r, s) PROVE IInv'
    BY <1>2, EndCallIInv
  <1>3. ASSUME NEW r \in Requests, Begin(r) PROVE IInv'  BY <1>3, BeginIInv
  <1>4. ASSUME NEW r \in Requests, SecondPhase(r) PROVE IInv'  BY <1>4, SecondPhaseIInv
  <1>5. ASSUME NEW r \in Requests, Composed(r) PROVE IInv'  BY <1>5, ComposedIInv
  <1>6. ASSUME NEW r \in Requests, Save(r) PROVE IInv'  BY <1>6, SaveIInv
  <1>7. ASSUME NEW r \in Requests, Cancel(r) PROVE IInv'  BY <1>7, CancelIInv
  <1>8. CASE GetStatuses \/ Tick \/ UNCHANGED vars  BY <1>8, BreakersIInv
  <1> QED  BY <1>1, <1>2, <1>3, <1>4, <1>5, <1>6, <1>7, <1>8 DEF Next

\* The inductive invariant holds in every state of every execution.
THEOREM Invariance == Spec => []IInv
  BY InitIInv, NextIInv, PTL DEF Spec

\* The state of the requests and of the breakers is typed: in particular no
\* list of warnings names a module twice and no request is counted twice.
THEOREM TypeCorrect == Spec => []TypeOK
  BY Invariance, PTL DEF IInv

\* A response explains every gap it has, and explains nothing else.
THEOREM EveryGapExplained == Spec => []GapsExplained
  <1>1. IInv => GapsExplained
    BY ServiceNames
       DEF IInv, RequestInv, WarningsExact, AccountAtStage, GapsExplained, Settled
  <1> QED  BY <1>1, Invariance, PTL

\* A request that is over has been counted once and left no task behind.
THEOREM EveryEndClean == Spec => []EndsClean
  <1>1. IInv => EndsClean
    BY DEF IInv, TypeOK, RequestInv, CallsAtStage, AccountAtStage, EndsClean
  <1> QED  BY <1>1, Invariance, PTL

-----------------------------------------------------------------------------
\* The operators of the breaker are the same seen through SafeCall.
LEMMA SameBreaker ==
    ASSUME NEW s \in Services, NEW b
    PROVE  /\ Guarded(s)!IsOpen(b) = IsOpen(b)
           /\ Guarded(s)!AfterIsOpen(b) = AfterIsOpen(b)
           /\ Guarded(s)!AfterFailure(b) = AfterFailure(b)
           /\ Guarded(s)!AfterSuccess(b) = AfterSuccess(b)
           /\ Guarded(s)!Elapse(b) = Elapse(b)
  BY DEF Guarded!IsOpen, IsOpen, Guarded!AfterIsOpen, AfterIsOpen, Guarded!AfterFailure,
         AfterFailure, Guarded!AfterSuccess, AfterSuccess, Guarded!Elapse, Elapse,
         Guarded!Disarmed, Disarmed

\* The pc of SafeCall, for service s.
Pc(s) == [r \in Requests |-> IF call[r][s] = "calling" THEN "calling" ELSE "idle"]

\* A task's step to x, seen as a step of that pc.
Sets(r, t, x) == call' = [call EXCEPT ![r][t] = x]

LEMMA PcOfTask ==
    ASSUME TypeOK, NEW r \in Requests, NEW t \in Services, NEW x, Sets(r, t, x),
           NEW s \in Services
    PROVE  Pc(s)' = IF t = s
                    THEN [Pc(s) EXCEPT ![r] = IF x = "calling" THEN "calling" ELSE "idle"]
                    ELSE Pc(s)
  <1>1. \A q \in Requests : call'[q][s] = IF q = r /\ t = s THEN x ELSE call[q][s]
    BY DEF TypeOK, Sets
  <1>2. CASE t = s  BY <1>1, <1>2 DEF Pc
  <1>3. CASE t # s  BY <1>1, <1>3 DEF Pc
  <1> QED  BY <1>2, <1>3

LEMMA StartCallMapped ==
    ASSUME IInv, NEW r \in Requests, NEW t \in Services, StartCall(r, t), NEW s \in Services
    PROVE  [Guarded(s)!Next]_(Guarded(s)!vars)
  <1>1. TypeOK  BY DEF IInv
  <1>2. CASE t = s
    <2>1. /\ breakers'[s] = AfterIsOpen(breakers[s]) /\ streak'[s] = streak[s]
          /\ Pc(s)[r] = "idle"
      BY <1>1, <1>2 DEF StartCall, Look, TypeOK, Pc
    <2>2. CASE IsOpen(breakers[s]) /\ call' = [call EXCEPT ![r][t] = "gap"]
      <3>1. Pc(s)' = Pc(s)  BY <1>1, <1>2, <2>2 DEF Pc, TypeOK, StartCall
      <3>2. Guarded(s)!Skip(r)  BY <2>1, <2>2, <3>1, SameBreaker DEF Guarded!Skip, Pc
      <3> QED  BY <3>2 DEF Guarded!Next
    <2>3. CASE ~IsOpen(breakers[s]) /\ call' = [call EXCEPT ![r][t] = "calling"]
      <3>1. Pc(s)' = [Pc(s) EXCEPT ![r] = "calling"]  BY <1>1, <1>2, <2>3 DEF Pc, TypeOK
      <3>2. Guarded(s)!Enter(r)  BY <2>1, <2>3, <3>1, SameBreaker DEF Guarded!Enter, Pc
      <3> QED  BY <3>2 DEF Guarded!Next
    <2> QED  BY <1>2, <2>2, <2>3 DEF StartCall
  <1>3. CASE t # s
    <2>1. breakers'[s] = breakers[s] /\ streak'[s] = streak[s]
      BY <1>1, <1>3 DEF StartCall, Look, TypeOK
    <2>2. Sets(r, t, "gap") \/ Sets(r, t, "calling")  BY DEF StartCall, Sets
    <2>3. Pc(s)' = Pc(s)  BY <1>1, <1>3, <2>2, PcOfTask
    <2> QED  BY <2>1, <2>3 DEF Guarded!vars, Pc
  <1> QED  BY <1>2, <1>3

LEMMA EndCallMapped ==
    ASSUME IInv, NEW r \in Requests, NEW t \in Services, EndCall(r, t), NEW s \in Services
    PROVE  [Guarded(s)!Next]_(Guarded(s)!vars)
  <1>1. TypeOK  BY DEF IInv
  <1>2. PICK e \in Endings(t) :
            /\ call' = [call EXCEPT ![r][t] = e[1]]
            /\ \/ /\ breakers' = [breakers EXCEPT ![t] = AfterFailure(@)]
                  /\ streak' = [streak EXCEPT ![t] = UpTo(@)]
               \/ /\ breakers' = [breakers EXCEPT ![t] = AfterSuccess(@)]
                  /\ streak' = [streak EXCEPT ![t] = 0]
    BY DEF EndCall
  <1>5. Sets(r, t, e[1]) /\ e[1] # "calling"
    BY <1>2 DEF Sets, Endings, OnFailure, MissionEndings, DescriberEndings
  <1>3. CASE t = s
    <2>1. Pc(s)[r] = "calling" /\ Pc(s)' = [Pc(s) EXCEPT ![r] = "idle"]
      <3>1. Pc(s)[r] = "calling"  BY <1>3 DEF EndCall, Pc
      <3>2. Pc(s)' = [Pc(s) EXCEPT ![r] = IF e[1] = "calling" THEN "calling" ELSE "idle"]
        BY <1>1, <1>5, <1>3, PcOfTask
      <3> QED  BY <1>5, <3>1, <3>2
    <2>2. CASE breakers'[s] = AfterFailure(breakers[s]) /\ streak'[s] = UpTo(streak[s])
      <3>1. Guarded(s)!Fail(r)  BY <2>1, <2>2, SameBreaker DEF Guarded!Fail, Pc, UpTo
      <3> QED  BY <3>1 DEF Guarded!Next
    <2>3. CASE breakers'[s] = AfterSuccess(breakers[s]) /\ streak'[s] = 0
      <3>1. Guarded(s)!Succeed(r)  BY <2>1, <2>3, SameBreaker DEF Guarded!Succeed, Pc
      <3> QED  BY <3>1 DEF Guarded!Next
    <2> QED  BY <1>1, <1>2, <1>3, <2>2, <2>3 DEF TypeOK
  <1>4. CASE t # s
    <2>1. breakers'[s] = breakers[s] /\ streak'[s] = streak[s]
      BY <1>1, <1>2, <1>4 DEF TypeOK
    <2>2. Pc(s)' = Pc(s)  BY <1>1, <1>5, <1>4, PcOfTask
    <2> QED  BY <2>1, <2>2 DEF Guarded!vars, Pc
  <1> QED  BY <1>3, <1>4

\* A cancelled request's call of s, if it is under way, is a cancelled call.
LEMMA CancelMapped ==
    ASSUME IInv, NEW r \in Requests, Cancel(r), NEW s \in Services
    PROVE  [Guarded(s)!Next]_(Guarded(s)!vars)
  <1>1. TypeOK /\ breakers' = breakers /\ streak' = streak
    BY DEF IInv, Cancel, breakerVars
  <1>2. CASE call[r][s] = "calling"
    <2>1. Pc(s)[r] = "calling" /\ Pc(s)' = [Pc(s) EXCEPT ![r] = "idle"]
      BY <1>1, <1>2 DEF Cancel, TypeOK, Pc, Results
    <2>2. Guarded(s)!Cancel(r)  BY <1>1, <2>1 DEF Guarded!Cancel, Pc
    <2> QED  BY <2>2 DEF Guarded!Next
  <1>3. CASE call[r][s] # "calling"
    <2>1. Pc(s)' = Pc(s)  BY <1>1, <1>3 DEF Cancel, TypeOK, Pc, Results
    <2> QED  BY <1>1, <2>1 DEF Guarded!vars, Pc
  <1> QED  BY <1>2, <1>3

\* The other steps of a request leave the breakers and the calls alone.
LEMMA RequestMapped ==
    ASSUME IInv, NEW r \in Requests,
           Begin(r) \/ SecondPhase(r) \/ Composed(r) \/ Save(r),
           NEW s \in Services
    PROVE  [Guarded(s)!Next]_(Guarded(s)!vars)
  <1>1. TypeOK /\ RequestInv(r) /\ breakers' = breakers /\ streak' = streak
    BY DEF IInv, Begin, SecondPhase, Composed, Save, breakerVars
  <1>2. \A q \in Requests : call'[q][s] = "calling" <=> call[q][s] = "calling"
    <2>1. CASE Begin(r)
      BY <1>1, <2>1 DEF Begin, TypeOK, RequestInv, CallsAtStage
    <2>2. CASE SecondPhase(r)
      BY <1>1, <2>2, ServiceNames DEF SecondPhase, TypeOK, RequestInv, CallsAtStage
    <2>3. CASE Composed(r) \/ Save(r)
      BY <2>3 DEF Composed, Save
    <2> QED  BY <2>1, <2>2, <2>3
  <1>3. Pc(s)' = Pc(s)  BY <1>2 DEF Pc
  <1> QED  BY <1>1, <1>3 DEF Guarded!vars, Pc

LEMMA BreakersMapped ==
    ASSUME IInv, GetStatuses \/ Tick \/ UNCHANGED vars, NEW s \in Services
    PROVE  [Guarded(s)!Next]_(Guarded(s)!vars)
  <1>1. call' = call /\ streak' = streak
    BY DEF GetStatuses, Tick, vars, breakerVars, requestVars
  <1>2. CASE GetStatuses
    <2>1. Guarded(s)!GetStatus
      BY <1>1, <1>2, SameBreaker DEF GetStatuses, Guarded!GetStatus
    <2> QED  BY <2>1 DEF Guarded!Next
  <1>3. CASE Tick
    <2>1. Guarded(s)!Tick
      BY <1>1, <1>3, SameBreaker DEF Tick, Guarded!Tick
    <2> QED  BY <2>1 DEF Guarded!Next
  <1>4. CASE UNCHANGED vars
    BY <1>1, <1>4 DEF vars, breakerVars, Guarded!vars
  <1> QED  BY <1>2, <1>3, <1>4

LEMMA InitMapped == Init => \A s \in Services : Guarded(s)!Init
  BY DEF Init, Guarded!Init, Guarded!NewBreaker, NewBreaker, Guarded!Disarmed, Disarmed

LEMMA NextMapped ==
    ASSUME IInv, [Next]_vars, NEW s \in Services
    PROVE  [Guarded(s)!Next]_(Guarded(s)!vars)
  <1>1. ASSUME NEW r \in Requests, NEW t \in Services, StartCall(r, t)
        PROVE  [Guarded(s)!Next]_(Guarded(s)!vars)
    BY <1>1, StartCallMapped
  <1>2. ASSUME NEW r \in Requests, NEW t \in Services, EndCall(r, t)
        PROVE  [Guarded(s)!Next]_(Guarded(s)!vars)
    BY <1>2, EndCallMapped
  <1>3. ASSUME NEW r \in Requests, Cancel(r)
        PROVE  [Guarded(s)!Next]_(Guarded(s)!vars)
    BY <1>3, CancelMapped
  <1>4. ASSUME NEW r \in Requests, Begin(r) \/ SecondPhase(r) \/ Composed(r) \/ Save(r)
        PROVE  [Guarded(s)!Next]_(Guarded(s)!vars)
    BY <1>4, RequestMapped
  <1>5. CASE GetStatuses \/ Tick \/ UNCHANGED vars
    BY <1>5, BreakersMapped
  <1> QED  BY <1>1, <1>2, <1>3, <1>4, <1>5 DEF Next

\* For each service, what the requests do to its breaker is what the callers
\* of SafeCall do: the safety proved of one breaker holds of each of them.
THEOREM Implementation == Spec => ImplementsSafeCall
  <1>1. IInv /\ [Next]_vars =>
            [\A s \in Services : [Guarded(s)!Next]_(Guarded(s)!vars)]_vars
    BY NextMapped
  <1> QED  BY <1>1, InitMapped, Invariance, PTL DEF Spec, ImplementsSafeCall
-----------------------------------------------------------------------------
(* A request runs down: every step of its own brings it closer to its end,   *)
(* and no other request nor any breaker sends it back.                       *)

Starting(c) == {s \in Services : c[s] = "starting"}
Calling(c) == {s \in Services : c[s] = "calling"}

StagesLeft(at) ==
    CASE at = "phase1" -> 3 + 2 * Cardinality(Phase2)
      [] at = "phase2" -> 2
      [] at = "saving" -> 1
      [] OTHER -> 0

\* The steps that a request takes at most, from its stage and its tasks: a
\* task that is to start takes two, and so will those of the second phase.
Left(at, c) == StagesLeft(at) + 2 * Cardinality(Starting(c)) + Cardinality(Calling(c))

RunsDownOf(r) ==
    /\ stage[r] = "idle" => Left(stage'[r], call'[r]) \in 0..3 + 2 * Cardinality(Services)
    /\ stage[r] # "idle" =>
           \/ stage'[r] = stage[r] /\ call'[r] = call[r]
           \/ /\ Left(stage'[r], call'[r]) < Left(stage[r], call[r])
              /\ Left(stage'[r], call'[r]) >= 0

RunsDown == \A r \in Requests : RunsDownOf(r)

\* From its beginning a request takes at most two steps for each service and
\* three of its own, whatever the services and the other requests do.
RequestsRunDown == [][RunsDown]_vars

LEMMA ServicesFinite ==
    /\ IsFiniteSet(Phase1) /\ IsFiniteSet(Phase2)
    /\ Cardinality(Phase1) \in Nat /\ Cardinality(Phase2) \in Nat
    /\ Cardinality(Services) = Cardinality(Phase1) + Cardinality(Phase2)
    /\ IsFiniteSet(Services)
  <1> DEFINE P == {"geocoder", "landcover", "mission"}
             Q == {"describer", "context"}
  <1>1. IsFiniteSet(P) /\ IsFiniteSet(Q)
    <2>1. P = ((({} \cup {"geocoder"}) \cup {"landcover"}) \cup {"mission"})
          /\ Q = (({} \cup {"describer"}) \cup {"context"})
      OBVIOUS
    <2>2. IsFiniteSet({})  BY FS_EmptySet
    <2> HIDE DEF P, Q
    <2> QED  BY <2>1, <2>2, FS_AddElement
  <1>2. Phase1 \subseteq P /\ Phase2 \subseteq Q  BY ServicesAssumption
  <1> HIDE DEF P, Q
  <1>3. IsFiniteSet(Phase1) /\ IsFiniteSet(Phase2)  BY <1>1, <1>2, FS_Subset
  <1>4. Phase1 \cap Phase2 = {} /\ Services = Phase1 \cup Phase2  BY ServiceNames
  <1>5. Cardinality(Phase1) \in Nat /\ Cardinality(Phase2) \in Nat
    BY <1>3, FS_CardinalityType
  <1>6. Cardinality(Phase1 \cap Phase2) = 0  BY <1>4, FS_EmptySet
  <1>7. /\ IsFiniteSet(Services)
        /\ Cardinality(Services) =
              Cardinality(Phase1) + Cardinality(Phase2) - Cardinality(Phase1 \cap Phase2)
    BY <1>3, <1>4, FS_Union
  <1> QED  BY <1>3, <1>5, <1>6, <1>7

LEMMA TasksFinite ==
    ASSUME NEW c
    PROVE  /\ IsFiniteSet(Starting(c)) /\ IsFiniteSet(Calling(c))
           /\ Cardinality(Starting(c)) \in Nat /\ Cardinality(Calling(c)) \in Nat
  <1>1. Starting(c) \subseteq Services /\ Calling(c) \subseteq Services
    BY DEF Starting, Calling
  <1> QED  BY <1>1, ServicesFinite, FS_Subset, FS_CardinalityType

LEMMA NoTasks ==
    ASSUME NEW c, \A s \in Services : c[s] \notin {"starting", "calling"}
    PROVE  Cardinality(Starting(c)) = 0 /\ Cardinality(Calling(c)) = 0
  <1>1. Starting(c) = {} /\ Calling(c) = {}  BY DEF Starting, Calling
  <1> QED  BY <1>1, FS_EmptySet

\* A step to a later stage that starts no task.
LEMMA LaterStage ==
    ASSUME NEW at \in Stages, NEW to \in Stages, NEW c, NEW d,
           \/ at \in {"phase2", "saving"} /\ to = "idle"
           \/ at = "phase1" /\ to = "idle"
           \/ at = "phase2" /\ to = "saving",
           Starting(d) \subseteq Starting(c), Calling(d) \subseteq Calling(c)
    PROVE  Left(to, d) < Left(at, c) /\ Left(to, d) >= 0
  <1>1. StagesLeft(to) \in Nat /\ StagesLeft(at) \in Nat /\ StagesLeft(to) < StagesLeft(at)
    BY ServicesFinite DEF StagesLeft
  <1>2. /\ Cardinality(Starting(d)) <= Cardinality(Starting(c))
        /\ Cardinality(Calling(d)) <= Cardinality(Calling(c))
    BY TasksFinite, FS_Subset
  <1>3. /\ Cardinality(Starting(c)) \in Nat /\ Cardinality(Calling(c)) \in Nat
        /\ Cardinality(Starting(d)) \in Nat /\ Cardinality(Calling(d)) \in Nat
    BY TasksFinite
  <1> QED  BY <1>1, <1>2, <1>3 DEF Left

\* A task starts, is turned away or ends.
LEMMA TaskRunsDown ==
    ASSUME NEW at \in Stages, NEW c \in [Services -> Calls], NEW s \in Services,
           NEW d, NEW e \in Calls, d = [c EXCEPT ![s] = e],
           \/ c[s] = "starting" /\ e \in {"calling", "gap"}
           \/ c[s] = "calling" /\ e \in Results
    PROVE  Left(at, d) < Left(at, c) /\ Left(at, d) >= 0
  <1>1. StagesLeft(at) \in Nat  BY ServicesFinite DEF StagesLeft
  <1>2. /\ IsFiniteSet(Starting(c)) /\ IsFiniteSet(Calling(c))
        /\ Cardinality(Starting(c)) \in Nat /\ Cardinality(Calling(c)) \in Nat
        /\ Cardinality(Starting(d)) \in Nat /\ Cardinality(Calling(d)) \in Nat
    BY TasksFinite
  <1>3. CASE c[s] = "starting" /\ e = "calling"
    <2>1. /\ Starting(d) = Starting(c) \ {s} /\ s \in Starting(c)
          /\ Calling(d) = Calling(c) \cup {s} /\ s \notin Calling(c)
      BY <1>3 DEF Starting, Calling
    <2>2. Cardinality(Starting(d)) = Cardinality(Starting(c)) - 1
      BY <1>2, <2>1, FS_RemoveElement
    <2>3. Cardinality(Calling(d)) = Cardinality(Calling(c)) + 1
      BY <1>2, <2>1, FS_AddElement
    <2> QED  BY <1>1, <1>2, <2>2, <2>3 DEF Left
  <1>4. CASE c[s] = "starting" /\ e = "gap"
    <2>1. /\ Starting(d) = Starting(c) \ {s} /\ s \in Starting(c)
          /\ Calling(d) = Calling(c)
      BY <1>4 DEF Starting, Calling
    <2>2. Cardinality(Starting(d)) = Cardinality(Starting(c)) - 1
      BY <1>2, <2>1, FS_RemoveElement
    <2> QED  BY <1>1, <1>2, <2>1, <2>2 DEF Left
  <1>5. CASE c[s] = "calling" /\ e \in Results
    <2>1. /\ Calling(d) = Calling(c) \ {s} /\ s \in Calling(c)
          /\ Starting(d) = Starting(c)
      BY <1>5 DEF Starting, Calling, Results
    <2>2. Cardinality(Calling(d)) = Cardinality(Calling(c)) - 1
      BY <1>2, <2>1, FS_RemoveElement
    <2> QED  BY <1>1, <1>2, <2>1, <2>2 DEF Left
  <1> QED  BY <1>3, <1>4, <1>5

\* A step of r takes the other requests no closer and no further.
LEMMA OthersStay ==
    ASSUME IInv, NEW q \in Requests, stage'[q] = stage[q], call'[q] = call[q]
    PROVE  RunsDownOf(q)
  <1>1. CASE stage[q] = "idle"
    <2>1. Left(stage[q], call[q]) = 0
      <3>1. \A s \in Services : call[q][s] \notin {"starting", "calling"}
        BY <1>1 DEF IInv, RequestInv, CallsAtStage
      <3>2. StagesLeft(stage[q]) = 0  BY <1>1 DEF StagesLeft
      <3> QED  BY <3>1, <3>2, NoTasks DEF Left
    <2> QED  BY <1>1, <2>1, ServicesFinite DEF RunsDownOf
  <1>2. CASE stage[q] # "idle"  BY <1>2 DEF RunsDownOf
  <1> QED  BY <1>1, <1>2

LEMMA BeginRunsDown ==
    ASSUME IInv, NEW r \in Requests, Begin(r)
    PROVE  RunsDownOf(r)
  <1> DEFINE c == [s \in Services |-> IF s \in Phase1 THEN "starting" ELSE "none"]
  <1>1. stage[r] = "idle" /\ stage'[r] = "phase1" /\ call'[r] = c
    BY DEF IInv, TypeOK, Begin
  <1>2. Starting(c) = Phase1 /\ Calling(c) = {}
    BY ServiceNames DEF Starting, Calling
  <1>3. Left("phase1", c) = 3 + 2 * Cardinality(Phase2) + 2 * Cardinality(Phase1)
    BY <1>2, ServicesFinite, FS_EmptySet DEF Left, StagesLeft
  <1> HIDE DEF c
  <1> QED  BY <1>1, <1>3, ServicesFinite DEF RunsDownOf

LEMMA SecondPhaseRunsDown ==
    ASSUME IInv, NEW r \in Requests, SecondPhase(r)
    PROVE  RunsDownOf(r)
  <1> DEFINE c == call[r]
             d == [s \in Services |-> IF s \in Phase2 THEN "starting" ELSE c[s]]
  <1>1. stage[r] = "phase1" /\ stage'[r] = "phase2" /\ call'[r] = d
    BY DEF IInv, TypeOK, SecondPhase
  <1>2. \A s \in Phase1 : c[s] \in Results  BY DEF SecondPhase, Settled
  <1>3. Starting(d) = Phase2 /\ Calling(d) = {}
    BY <1>2, ServiceNames DEF Starting, Calling, Results
  <1> HIDE DEF d
  <1>4. Left("phase2", d) = 2 + 2 * Cardinality(Phase2)
    BY <1>3, ServicesFinite, FS_EmptySet DEF Left, StagesLeft
  <1>5. Left("phase1", c) >= 3 + 2 * Cardinality(Phase2)
    BY ServicesFinite, TasksFinite DEF Left, StagesLeft
  <1>6. Left("phase1", c) \in Int
    BY ServicesFinite, TasksFinite DEF Left, StagesLeft
  <1> QED  BY <1>1, <1>4, <1>5, <1>6, ServicesFinite DEF RunsDownOf

LEMMA NextRunsDown == IInv /\ [Next]_vars => RunsDown
  <1> SUFFICES ASSUME IInv, [Next]_vars, NEW q \in Requests PROVE RunsDownOf(q)
    BY DEF RunsDown
  <1> USE DEF RunsDownOf
  <1>1. /\ stage \in [Requests -> Stages] /\ call \in [Requests -> [Services -> Calls]]
        /\ stage[q] \in Stages /\ call[q] \in [Services -> Calls]
    BY DEF IInv, TypeOK
  <1>2. ASSUME NEW r \in Requests, OnlyOf(r), RunsDownOf(r) PROVE RunsDownOf(q)
    BY <1>2, OthersStay DEF OnlyOf
  <1>3. ASSUME NEW r \in Requests, NEW s \in Services, StartCall(r, s) \/ EndCall(r, s)
        PROVE  RunsDownOf(q)
    <2>1. CASE r # q  BY <1>1, <1>3, <2>1, OthersStay DEF StartCall, EndCall
    <2>2. CASE r = q
      <3>1. PICK e \in Calls :
                /\ stage' = stage /\ call'[q] = [call[q] EXCEPT ![s] = e]
                /\ \/ call[q][s] = "starting" /\ e \in {"calling", "gap"}
                   \/ call[q][s] = "calling" /\ e \in Results
        <4>1. CASE StartCall(q, s)
          <5>1. PICK e \in {"calling", "gap"} : call' = [call EXCEPT ![q][s] = e]
            BY <4>1 DEF StartCall
          <5>2. stage' = stage /\ call[q][s] = "starting"  BY <4>1 DEF StartCall
          <5>3. call'[q] = [call[q] EXCEPT ![s] = e]  BY <1>1, <5>1
          <5> QED  BY <5>1, <5>2, <5>3 DEF Calls, Results
        <4>2. CASE EndCall(q, s)
          <5>1. PICK e \in Endings(s) : call' = [call EXCEPT ![q][s] = e[1]]
            BY <4>2 DEF EndCall
          <5>2. stage' = stage /\ call[q][s] = "calling"  BY <4>2 DEF EndCall
          <5>3. e[1] \in Results
            BY <5>1 DEF Endings, OnFailure, MissionEndings, DescriberEndings, Results
          <5>4. call'[q] = [call[q] EXCEPT ![s] = e[1]]  BY <1>1, <5>1
          <5> QED  BY <5>2, <5>3, <5>4 DEF Calls
        <4> QED  BY <1>3, <2>2, <4>1, <4>2
      <3>2. stage[q] # "idle"
        BY <3>1 DEF IInv, RequestInv, CallsAtStage
      <3> QED  BY <1>1, <3>1, <3>2, TaskRunsDown
    <2> QED  BY <2>1, <2>2
  <1>4. ASSUME NEW r \in Requests, Begin(r) PROVE RunsDownOf(q)
    BY <1>1, <1>4, BeginRunsDown, OthersStay DEF Begin
  <1>5. ASSUME NEW r \in Requests, SecondPhase(r) PROVE RunsDownOf(q)
    BY <1>1, <1>5, SecondPhaseRunsDown, OthersStay DEF SecondPhase
  <1>6. ASSUME NEW r \in Requests, Composed(r) \/ Save(r) PROVE RunsDownOf(q)
    <2>1. CASE r # q  BY <1>1, <1>6, <2>1, OthersStay DEF Composed, Save
    <2>2. CASE r = q
      <3>1. /\ call' = call /\ stage'[q] \in Stages
            /\ \/ stage[q] \in {"phase2", "saving"} /\ stage'[q] = "idle"
               \/ stage[q] = "phase2" /\ stage'[q] = "saving"
        BY <1>1, <1>6, <2>2 DEF Composed, Save, Stages
      <3> QED  BY <1>1, <3>1, LaterStage
    <2> QED  BY <2>1, <2>2
  <1>7. ASSUME NEW r \in Requests, Cancel(r) PROVE RunsDownOf(q)
    <2>1. CASE r # q  BY <1>1, <1>7, <2>1, OthersStay DEF Cancel
    <2>2. CASE r = q
      <3>1. /\ stage[q] # "idle" /\ stage'[q] = "idle"
            /\ call'[q] = [s \in Services |->
                               IF call[q][s] \in Results THEN call[q][s] ELSE "none"]
        BY <1>1, <1>7, <2>2 DEF Cancel
      <3>2. /\ Starting(call'[q]) \subseteq Starting(call[q])
            /\ Calling(call'[q]) \subseteq Calling(call[q])
        BY <3>1 DEF Starting, Calling
      <3>3. stage[q] \in {"phase1", "phase2", "saving"} /\ "idle" \in Stages
        BY <1>1, <3>1 DEF Stages
      <3> QED  BY <1>1, <3>1, <3>2, <3>3, LaterStage
    <2> QED  BY <2>1, <2>2
  <1>8. CASE GetStatuses \/ Tick \/ UNCHANGED vars
    BY <1>8, OthersStay DEF GetStatuses, Tick, vars, requestVars
  <1> QED  BY <1>3, <1>4, <1>5, <1>6, <1>7, <1>8 DEF Next

\* Why a request ends, for any number of requests and whichever services they
\* call: no request and no breaker can hold another one up.
THEOREM RequestsComeToAnEnd == Spec => RequestsRunDown
  <1>1. IInv /\ [Next]_vars => [RunsDown]_vars  BY NextRunsDown
  <1> QED  BY <1>1, Invariance, PTL DEF Spec, RequestsRunDown
-----------------------------------------------------------------------------
(* What SafeCallProofs proves of one breaker holds of the breaker of any     *)
(* service among the others.                                               *)

CONSTANT Service         \* any of Services

One ==
    INSTANCE SafeCallProofs WITH
        Callers <- Requests,
        breaker <- breakers[Service],
        pc <- [r \in Requests |-> IF call[r][Service] = "calling" THEN "calling" ELSE "idle"],
        streak <- streak[Service]

LEMMA OneInit == ASSUME Service \in Services, Init PROVE One!IInv
  <1>1. Guarded(Service)!Init  BY InitMapped
  <1>2. One!Init
    BY <1>1 DEF Guarded!Init, One!Init, Guarded!NewBreaker, One!NewBreaker,
                Guarded!Disarmed, One!Disarmed
  <1>3. One!IsFiniteSet(Requests)  BY RequestsAssumption DEF One!IsFiniteSet, IsFiniteSet
  <1> QED  BY <1>2, <1>3, One!InitIInv, ThresholdAssumption, CooldownAssumption

LEMMA OneNext ==
    ASSUME Service \in Services, IInv, [Next]_vars
    PROVE  [One!Next]_(One!vars)
  <1>1. [Guarded(Service)!Next]_(Guarded(Service)!vars)  BY NextMapped
  <1>2. Guarded(Service)!vars = One!vars /\ Guarded(Service)!vars' = One!vars'
    BY DEF Guarded!vars, One!vars
  <1>3. Guarded(Service)!Next => One!Next
    BY DEF Guarded!Next, One!Next, Guarded!Skip, One!Skip, Guarded!Enter, One!Enter,
           Guarded!Succeed, One!Succeed, Guarded!Fail, One!Fail, Guarded!Cancel, One!Cancel,
           Guarded!GetStatus, One!GetStatus, Guarded!Tick, One!Tick,
           Guarded!IsOpen, One!IsOpen, Guarded!AfterIsOpen, One!AfterIsOpen,
           Guarded!AfterFailure, One!AfterFailure, Guarded!AfterSuccess, One!AfterSuccess,
           Guarded!Elapse, One!Elapse, Guarded!Disarmed, One!Disarmed
  <1> QED  BY <1>1, <1>2, <1>3

LEMMA OneIInv ==
    ASSUME Service \in Services, IInv, [Next]_vars, One!IInv
    PROVE  One!IInv' /\ [One!RunsDown]_(One!vars)
  <1>1. One!IsFiniteSet(Requests)  BY RequestsAssumption DEF One!IsFiniteSet, IsFiniteSet
  <1>2. [One!Next]_(One!vars)  BY OneNext
  <1>3. One!IInv'  BY <1>1, <1>2, One!NextIInv, ThresholdAssumption, CooldownAssumption
  <1>4. [One!RunsDown]_(One!vars)
    BY <1>1, <1>2, One!NextRunsDown, ThresholdAssumption, CooldownAssumption
  <1> QED  BY <1>3, <1>4

\* Among requests that work at all services at once, are cancelled and begin
\* anew, the breaker of every service is coherent, opens only on consecutive
\* failures, and overshoots its threshold by the other requests at most.
THEOREM EveryBreakerSafe ==
    ASSUME Service \in Services
    PROVE  Spec => [](One!Coherent /\ One!ArmedByStreak /\ One!OvershootBound)
  <1>1. Init => One!IInv  BY OneInit
  <1>2. IInv /\ One!IInv /\ [Next]_vars => One!IInv'  BY OneIInv
  <1>3. One!IInv => One!Coherent /\ One!ArmedByStreak /\ One!OvershootBound
    BY DEF One!IInv, One!TypeOK, One!BreakerType, One!Coherent, One!StreakBacksCount,
           One!ArmedByStreak
  <1> QED  BY <1>1, <1>2, <1>3, Invariance, PTL DEF Spec

\* No service is shut off for longer than a cooldown for every request, however
\* late the failures of the calls that were let through before come in.
THEOREM EveryOpeningEnds ==
    ASSUME Service \in Services
    PROVE  Spec => One!OpeningRunsDown
  <1>1. Init => One!IInv  BY OneInit
  <1>2. IInv /\ One!IInv /\ [Next]_vars => One!IInv' /\ [One!RunsDown]_(One!vars)
    BY OneIInv
  <1> QED  BY <1>1, <1>2, Invariance, PTL DEF Spec, One!OpeningRunsDown
=============================================================================
