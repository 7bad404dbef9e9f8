---------------------------- MODULE SupabaseProbe ----------------------------
(***************************************************************************)
(* Supabase under a readiness probe.  The probe (routes.readiness, health)  *)
(* calls ping at a fixed period, the other tasks save and read; the         *)
(* database goes down and comes back at any time, and fails exactly the     *)
(* operations that end while it is down.                                    *)
(***************************************************************************)
EXTENDS Supabase

CONSTANTS Prober,        \* the task of the readiness probe
          ProbePeriod    \* readinessProbe.periodSeconds

ASSUME ProbeAssumption == Prober \in Callers /\ ProbePeriod \in Nat \ {0}

VARIABLES up,            \* whether the database can be reached
          sinceProbe     \* time since the probe was last started

probeVars == <<vars, up, sinceProbe>>

PInit == Init /\ up = TRUE /\ sinceProbe = 0

Probe ==
    /\ sinceProbe = ProbePeriod
    /\ Start(Prober, "ping")
    /\ sinceProbe' = 0 /\ UNCHANGED up

Work(c, o) ==
    /\ c # Prober /\ o # "ping"
    /\ Start(c, o)
    /\ UNCHANGED <<up, sinceProbe>>

Wake(c) == Acquire(c) /\ UNCHANGED <<up, sinceProbe>>

Answer(c) ==
    /\ up
    /\ Create(c) \/ QueryReturns(c)
    /\ UNCHANGED <<up, sinceProbe>>

NoAnswer(c) ==
    /\ ~up
    /\ CreateFails(c) \/ QueryFails(c)
    /\ UNCHANGED <<up, sinceProbe>>

\* The probe is never late: no time passes once it is due.
Time ==
    /\ sinceProbe < ProbePeriod
    /\ Tick
    /\ sinceProbe' = sinceProbe + 1 /\ UNCHANGED up

GoesDownOrUp == up' = ~up /\ UNCHANGED <<vars, sinceProbe>>

PNext ==
    \/ Probe
    \/ \E c \in Callers, o \in Ops : Work(c, o)
    \/ \E c \in Callers : Wake(c) \/ Answer(c) \/ NoAnswer(c)
    \/ Time
    \/ GoesDownOrUp

\* Time passes, the probe is made, work keeps coming, and every step of a
\* task that can be taken is taken.
PFairness ==
    /\ WF_probeVars(Probe) /\ WF_probeVars(Time)
    /\ \A c \in Callers :
          /\ WF_probeVars(Wake(c)) /\ WF_probeVars(Answer(c)) /\ WF_probeVars(NoAnswer(c))
          /\ WF_probeVars(\E o \in Ops : Work(c, o))

PSpec == PInit /\ [][PNext]_probeVars /\ PFairness

\* After a reset get_client creates a new client: once the database can be
\* reached for good, a client comes back.
Reconnects == <>[]up => []<>client
=============================================================================
