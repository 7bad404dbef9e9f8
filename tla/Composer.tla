------------------------------ MODULE Composer ------------------------------
(***************************************************************************)
(* Concurrent requests through _describe_and_save (app/api/routes.py) and  *)
(* compose_description (app/services/composer.py): the services of the     *)
(* first phase side by side, then those of the second, then the database.  *)
(* Every service has one breaker, shared by all requests.                  *)
(*                                                                         *)
(* An action is the code of one task between two suspension points.  A     *)
(* service call is a task of its own, made by create_task: it starts some  *)
(* time after that, and looks at its breaker only then.                    *)
(***************************************************************************)
EXTENDS CircuitBreaker, FiniteSets

CONSTANTS Requests,      \* concurrent requests
          Phase1,        \* services called first, of those of the code:
                         \* "geocoder", "landcover", "mission"
          Phase2         \* services called then: "describer", "context"

ASSUME RequestsAssumption == IsFiniteSet(Requests)
ASSUME ServicesAssumption ==
    /\ Phase1 \subseteq {"geocoder", "landcover", "mission"}
    /\ Phase2 \subseteq {"describer", "context"} /\ "describer" \in Phase2

Services == Phase1 \cup Phase2
Modules == Services \cup {"supabase"}

VARIABLES breakers,      \* _breakers
          stage,         \* where each request stands
          call,          \* each request's task for each service, or its result
          warned,        \* how many warnings of each module are in the reply
          saved,         \* result.saved
          counted,       \* increments of description_requests_total
          reply,         \* how the request ended
          streak,        \* history: of SafeCall, for each service
          lost           \* history: failures of the service itself since it was
                         \* reached or its breaker began anew, up to Threshold

breakerVars == <<breakers, streak, lost>>
requestVars == <<stage, call, warned, saved, counted, reply>>
vars == <<breakerVars, requestVars>>

Stages == {"idle", "phase1", "phase2", "saving"}
Results == {"value", "null", "empty", "gap"}
Calls == {"none", "starting", "calling"} \cup Results

\* research_context makes a value of every error of its search.
OnFailure(s) == IF s = "context" THEN "value" ELSE "gap"

\* mission has nothing to ask without a stac_id, and ignores an answer that
\* is no JSON.
MissionEndings == {<<"null", "unused">>, <<"null", "reached">>}

\* The describer rejects some thumbnails before it asks the model, whose
\* answer may be empty, then or from the cache.
DescriberEndings == {<<"gap", "unused">>, <<"empty", "unused">>, <<"empty", "reached">>}

\* How a call that was let through ends: what _safe_call returns or, as a
\* "gap", what it catches, and what became of the service itself.  A value may
\* come from the cache; an answer may have the wrong shape.
Endings(s) ==
    {<<"value", "unused">>, <<"value", "reached">>, <<"gap", "reached">>,
     <<OnFailure(s), "failed">>}
    \cup (IF s = "mission" THEN MissionEndings ELSE {})
    \cup (IF s = "describer" THEN DescriberEndings ELSE {})

Init ==
    /\ breakers = [s \in Services |-> NewBreaker]
    /\ streak = [s \in Services |-> 0]
    /\ lost = [s \in Services |-> 0]
    /\ stage = [r \in Requests |-> "idle"]
    /\ call = [r \in Requests |-> [s \in Services |-> "none"]]
    /\ warned = [r \in Requests |-> [m \in Modules |-> 0]]
    /\ saved = [r \in Requests |-> "null"]
    /\ counted = [r \in Requests |-> 0]
    /\ reply = [r \in Requests |-> "none"]

\* Fault: gather waits until every service has delivered.
SettledByValue(r, S) == \A s \in S : call[r][s] = "value"

\* gather: every task has ended, whatever it returned.
Settled(r, S) == \A s \in S : call[r][s] \in Results

Warn(r, m) == warned' = [warned EXCEPT ![r][m] = @ + 1]

UpTo(n) == IF n < Threshold THEN n + 1 ELSE n
-----------------------------------------------------------------------------
(* _safe_call, as a task of request r *)

\* The count of the service's own failures begins anew with the breaker.
Look(s) ==
    /\ breakers' = [breakers EXCEPT ![s] = AfterIsOpen(@)]
    /\ lost' = [lost EXCEPT ![s] = IF breakers[s].left = 0 THEN 0 ELSE @]
    /\ UNCHANGED streak

\* Faults: no warning for a call that is skipped; the success is recorded
\* before the service has answered.
StartCallSilently(r, s) ==
    /\ call[r][s] = "starting"
    /\ Look(s)
    /\ call' = [call EXCEPT ![r][s] = IF IsOpen(breakers[s]) THEN "gap" ELSE "calling"]
    /\ UNCHANGED <<stage, warned, saved, counted, reply>>
StartCallRecords(r, s) ==
    /\ call[r][s] = "starting" /\ ~IsOpen(breakers[s])
    /\ breakers' = [breakers EXCEPT ![s] = AfterSuccess(@)]
    /\ call' = [call EXCEPT ![r][s] = "calling"]
    /\ UNCHANGED <<streak, lost, stage, warned, saved, counted, reply>>

StartCall(r, s) ==
    /\ call[r][s] = "starting"
    /\ Look(s)
    /\ \/ /\ IsOpen(breakers[s])
          /\ call' = [call EXCEPT ![r][s] = "gap"]
          /\ Warn(r, s)
       \/ /\ ~IsOpen(breakers[s])
          /\ call' = [call EXCEPT ![r][s] = "calling"]
          /\ UNCHANGED warned
    /\ UNCHANGED <<stage, saved, counted, reply>>

Contact(s, c) ==
    lost' = [lost EXCEPT ![s] =
                 CASE c = "reached" -> 0 [] c = "failed" -> UpTo(@) [] OTHER -> @]

EndCall(r, s) ==
    /\ call[r][s] = "calling"
    /\ \E e \in Endings(s) :
          /\ call' = [call EXCEPT ![r][s] = e[1]]
          /\ Contact(s, e[2])
          /\ \/ /\ e[1] = "gap"
                /\ breakers' = [breakers EXCEPT ![s] = AfterFailure(@)]
                /\ streak' = [streak EXCEPT ![s] = UpTo(@)]
                /\ Warn(r, s)
             \/ /\ e[1] # "gap"
                /\ breakers' = [breakers EXCEPT ![s] = AfterSuccess(@)]
                /\ streak' = [streak EXCEPT ![s] = 0]
                /\ UNCHANGED warned
    /\ UNCHANGED <<stage, saved, counted, reply>>
-----------------------------------------------------------------------------
(* compose_description and _describe_and_save *)

Begin(r) ==
    /\ stage[r] = "idle"
    /\ stage' = [stage EXCEPT ![r] = "phase1"]
    /\ call' = [call EXCEPT ![r] = [s \in Services |->
                    IF s \in Phase1 THEN "starting" ELSE "none"]]
    /\ warned' = [warned EXCEPT ![r] = [m \in Modules |-> 0]]
    /\ saved' = [saved EXCEPT ![r] = "null"]
    /\ counted' = [counted EXCEPT ![r] = 0]
    /\ reply' = [reply EXCEPT ![r] = "none"]
    /\ UNCHANGED breakerVars

SecondPhase(r) ==
    /\ stage[r] = "phase1"
    /\ Settled(r, Phase1)
    /\ stage' = [stage EXCEPT ![r] = "phase2"]
    /\ call' = [call EXCEPT ![r] = [s \in Services |->
                    IF s \in Phase2 THEN "starting" ELSE call[r][s]]]
    /\ UNCHANGED <<breakerVars, warned, saved, counted, reply>>

\* The response is made and counted.  It is saved if the request names an
\* image and there is a description that is not empty.
Composed(r) ==
    /\ stage[r] = "phase2"
    /\ Settled(r, Phase2)
    /\ counted' = [counted EXCEPT ![r] = @ + 1]
    /\ \/ /\ call[r]["describer"] = "value"
          /\ stage' = [stage EXCEPT ![r] = "saving"]
          /\ UNCHANGED reply
       \/ /\ stage' = [stage EXCEPT ![r] = "idle"]
          /\ reply' = [reply EXCEPT ![r] = "response"]
    /\ UNCHANGED <<breakerVars, call, warned, saved>>

\* save_description returns, or the ConnectionError of get_client passes
\* through and takes the response with it.
Save(r) ==
    /\ stage[r] = "saving"
    /\ stage' = [stage EXCEPT ![r] = "idle"]
    /\ \/ /\ saved' = [saved EXCEPT ![r] = "true"]
          /\ reply' = [reply EXCEPT ![r] = "response"]
          /\ UNCHANGED warned
       \/ /\ saved' = [saved EXCEPT ![r] = "false"]
          /\ reply' = [reply EXCEPT ![r] = "response"]
          /\ Warn(r, "supabase")
       \/ /\ reply' = [reply EXCEPT ![r] = "error"]
          /\ UNCHANGED <<warned, saved>>
    /\ UNCHANGED <<breakerVars, call, counted>>

\* Faults: the request is counted wherever it is; its tasks go on.
CancelCounts(r) ==
    /\ stage[r] # "idle"
    /\ stage' = [stage EXCEPT ![r] = "idle"]
    /\ call' = [call EXCEPT ![r] = [s \in Services |-> "none"]]
    /\ counted' = [counted EXCEPT ![r] = @ + 1]
    /\ reply' = [reply EXCEPT ![r] = "cancelled"]
    /\ UNCHANGED <<breakerVars, warned, saved>>
CancelLeavesCalls(r) ==
    /\ stage[r] # "idle"
    /\ stage' = [stage EXCEPT ![r] = "idle"]
    /\ counted' = [counted EXCEPT ![r] = IF stage[r] = "saving" THEN @ ELSE @ + 1]
    /\ reply' = [reply EXCEPT ![r] = "cancelled"]
    /\ UNCHANGED <<breakerVars, call, warned, saved>>

\* The request's timeout or a disconnected client, at whatever it awaits:
\* gather passes the cancellation on to its tasks, none of which catches it.
Cancel(r) ==
    /\ stage[r] # "idle"
    /\ stage' = [stage EXCEPT ![r] = "idle"]
    /\ call' = [call EXCEPT ![r] = [s \in Services |->
                    IF call[r][s] \in Results THEN call[r][s] ELSE "none"]]
    /\ counted' = [counted EXCEPT ![r] = IF stage[r] = "saving" THEN @ ELSE @ + 1]
    /\ reply' = [reply EXCEPT ![r] = "cancelled"]
    /\ UNCHANGED <<breakerVars, warned, saved>>
-----------------------------------------------------------------------------
GetStatuses ==
    /\ breakers' = [s \in Services |-> AfterIsOpen(breakers[s])]
    /\ lost' = [s \in Services |-> IF breakers[s].left = 0 THEN 0 ELSE lost[s]]
    /\ UNCHANGED <<streak, requestVars>>

Tick ==
    /\ breakers' = [s \in Services |-> Elapse(breakers[s])]
    /\ UNCHANGED <<streak, lost, requestVars>>

Next ==
    \/ \E r \in Requests :
          \/ Begin(r) \/ SecondPhase(r) \/ Composed(r) \/ Save(r) \/ Cancel(r)
          \/ \E s \in Services : StartCall(r, s) \/ EndCall(r, s)
    \/ GetStatuses
    \/ Tick

\* Tasks run, and every await comes to its end: the HTTP services have timeouts
\* and a bounded number of attempts.  That the client libraries of the model
\* and of the database come back as well is assumed of them.
Fairness ==
    /\ WF_vars(Tick)
    /\ \A r \in Requests :
          /\ WF_vars(SecondPhase(r)) /\ WF_vars(Composed(r)) /\ WF_vars(Save(r))
          /\ \A s \in Services : WF_vars(StartCall(r, s)) /\ WF_vars(EndCall(r, s))

Spec == Init /\ [][Next]_vars /\ Fairness
-----------------------------------------------------------------------------
TypeOK ==
    /\ breakers \in [Services -> BreakerType]
    /\ streak \in [Services -> 0..Threshold]
    /\ lost \in [Services -> 0..Threshold]
    /\ stage \in [Requests -> Stages]
    /\ call \in [Requests -> [Services -> Calls]]
    /\ warned \in [Requests -> [Modules -> 0..1]]
    /\ saved \in [Requests -> {"null", "true", "false"}]
    /\ counted \in [Requests -> 0..1]
    /\ reply \in [Requests -> {"none", "response", "error", "cancelled"}]

\* What a response lacks it explains, and what it warns of it lacks: a service
\* without a result has exactly one warning, and so has a description that
\* could not be saved, in whatever order the tasks that share the list ended.
GapsExplained ==
    \A r \in Requests : reply[r] = "response" =>
        /\ \A s \in Services : /\ call[r][s] \in Results
                               /\ warned[r][s] = IF call[r][s] = "gap" THEN 1 ELSE 0
        /\ warned[r]["supabase"] = IF saved[r] = "false" THEN 1 ELSE 0
        /\ saved[r] # "null" => call[r]["describer"] = "value"

\* However a request ends, and wherever it was when it was cancelled, it has
\* been counted once and none of its tasks outlives it to touch a breaker.
EndsClean ==
    \A r \in Requests : stage[r] = "idle" =>
        /\ counted[r] = IF reply[r] = "none" THEN 0 ELSE 1
        /\ \A s \in Services : call[r][s] \notin {"starting", "calling"}

\* A request comes to its end, whatever its services and the other requests
\* do and whatever the state of the breakers.
RequestsEnd == \A r \in Requests : stage[r] # "idle" ~> stage[r] = "idle"

\* For each service, this is SafeCall: the requests are its callers, so all
\* that is checked and proved there of one breaker holds of every breaker here.
Guarded(s) ==
    INSTANCE SafeCall WITH
        Callers <- Requests,
        breaker <- breakers[s],
        pc <- [r \in Requests |-> IF call[r][s] = "calling" THEN "calling" ELSE "idle"],
        streak <- streak[s]

ImplementsSafeCall ==
    /\ \A s \in Services : Guarded(s)!Init
    /\ [][\A s \in Services : [Guarded(s)!Next]_(Guarded(s)!vars)]_vars

\* The breakers are documented as one per external service that opens after so
\* many failures: once the search service has failed Threshold times without
\* having been reached in between, its breaker is open or has begun anew.
ContextFailuresOpen ==
    "context" \in Services /\ lost["context"] >= Threshold => Armed(breakers["context"])
=============================================================================
