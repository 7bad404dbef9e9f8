------------------------------ MODULE FairLock ------------------------------
(***************************************************************************)
(* What the tasks behind an asyncio.Lock rely on: it has one holder, nobody *)
(* who comes later is served earlier, and whoever stops waiting does not    *)
(* disturb the others.  There is no queue here, only the relation of who     *)
(* came before whom; the components that keep a queue implement this.       *)
(***************************************************************************)
CONSTANTS Tasks, NoTask

VARIABLES holder,        \* the task that holds the lock, or NoTask
          waiting,       \* the set of those that wait for it
          before         \* the pairs of waiting tasks of which one came first

lockVars == <<holder, waiting, before>>

Init == holder = NoTask /\ waiting = {} /\ before = {}

Leaves(c) ==
    /\ waiting' = waiting \ {c}
    /\ before' = {p \in before : p[1] # c /\ p[2] # c}

\* A newcomer takes the lock only if nobody holds it or waits for it.
TakeFree(c) ==
    /\ holder = NoTask /\ waiting = {}
    /\ holder' = c
    /\ UNCHANGED <<waiting, before>>

LineUp(c) ==
    /\ c \notin waiting /\ (holder # NoTask \/ waiting # {})
    /\ waiting' = waiting \cup {c}
    /\ before' = before \cup (waiting \X {c})
    /\ UNCHANGED holder

\* It is the turn of the one that nobody came before.
TakeTurn(c) ==
    /\ holder = NoTask /\ c \in waiting
    /\ \A d \in waiting : <<d, c>> \notin before
    /\ Leaves(c)
    /\ holder' = c

\* The wait is cancelled; or it is over and the task needs the lock no more
\* than for the step in which it gets it.
StopWaiting(c) == c \in waiting /\ Leaves(c) /\ UNCHANGED holder

Unlock ==
    /\ holder # NoTask /\ holder' = NoTask
    /\ UNCHANGED <<waiting, before>>

Next ==
    \/ \E c \in Tasks : TakeFree(c) \/ LineUp(c) \/ TakeTurn(c) \/ StopWaiting(c)
    \/ Unlock

Spec == Init /\ [][Next]_lockVars
=============================================================================
