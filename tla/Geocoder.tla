------------------------------ MODULE Geocoder ------------------------------
(***************************************************************************)
(* Concurrent requests for locations (app/modules/geocoder.py): a look in  *)
(* the cache (app/cache/store.py), a lock behind which Nominatim is asked  *)
(* at most once a second, up to three attempts (app/utils/retry.py), and   *)
(* the answer into the cache.                                              *)
(*                                                                         *)
(* An action is the code of one task between two suspension points; what   *)
(* the database's thread does counts to the step that resumes its task     *)
(* or, where another task may run in between, is a step of its own.        *)
(* Nominatim is external: it answers, fails in a way that is tried again   *)
(* or in one that is not.                                                  *)
(***************************************************************************)
EXTENDS WaitQueue

CONSTANTS Callers,       \* tasks that ask for a location
          NoCaller,
          Places,        \* rounded coordinates, the keys of the cache
          Second,        \* ticks in a second
          Ttl            \* ticks that an answer stays in the cache

ASSUME NoCallerAssumption == NoCaller \notin Callers
ASSUME TimesAssumption == Second \in Nat \ {0} /\ Ttl \in Nat \ {0}

MaxAttempts == 3

VARIABLES row,           \* the cache: time a place's row has left, 0 once it
                         \* has expired, Absent without a row
          sinceAnswer,   \* time since _last_request_time, up to Second
          owner,         \* the task that holds _lock
          queue,         \* the tasks that wait for it, in their order
          pc,            \* where each task stands
          place,         \* the place it asks for
          delay,         \* what is left of its sleep
          attempt        \* the attempts it has made

lock == <<owner, queue>>
taskVars == <<pc, place, delay, attempt>>
vars == <<row, lock, sinceAnswer, taskVars>>

PCs == {"idle", "expired", "missed", "waiting", "sleeping", "fetching", "storing"}
Absent == -1

Init ==
    /\ row = [p \in Places |-> Absent]
    /\ sinceAnswer = Second
    /\ owner = NoCaller /\ queue = <<>>
    /\ pc = [c \in Callers |-> "idle"]
    /\ place \in [Callers -> Places]
    /\ delay = [c \in Callers |-> 0]
    /\ attempt = [c \in Callers |-> 0]

GoTo(c, where) == pc' = [pc EXCEPT ![c] = where]
-----------------------------------------------------------------------------
(* CacheStore.get *)

\* The row is read; a hit is the answer.
LookUp(c, p) ==
    /\ pc[c] = "idle"
    /\ place' = [place EXCEPT ![c] = p]
    /\ GoTo(c, CASE row[p] > 0 -> "idle" [] row[p] = 0 -> "expired" [] OTHER -> "missed")
    /\ UNCHANGED <<row, lock, sinceAnswer, delay, attempt>>

\* A database error is a miss.
LookUpFails(c, p) ==
    /\ pc[c] = "idle"
    /\ place' = [place EXCEPT ![c] = p]
    /\ GoTo(c, "missed")
    /\ UNCHANGED <<row, lock, sinceAnswer, delay, attempt>>

\* An expired row is deleted by its key, whatever is there now; or that fails.
DeleteExpired(c) ==
    /\ pc[c] = "expired"
    /\ row' \in {row, [row EXCEPT ![place[c]] = Absent]}
    /\ GoTo(c, "missed")
    /\ UNCHANGED <<lock, sinceAnswer, place, delay, attempt>>

\* cleanup_expired, from the cleanup task of the server.
CleanUp ==
    /\ row' = [p \in Places |-> IF row[p] = 0 THEN Absent ELSE row[p]]
    /\ UNCHANGED <<lock, sinceAnswer, taskVars>>
-----------------------------------------------------------------------------
(* The lock and the rate *)

\* Fault: the wait is a tick short.
WaitShort(s) == IF s < Second - 1 THEN Second - 1 - s ELSE 0

\* How long to wait, s after the last answer.
Wait(s) == IF s < Second THEN Second - s ELSE 0

Fetching(c) ==
    /\ GoTo(c, "fetching")
    /\ attempt' = [attempt EXCEPT ![c] = @ + 1]

\* Under the lock: sleep for what is left of the second, or ask at once.
Paced(c) ==
    /\ owner' = c
    /\ \/ /\ Wait(sinceAnswer) > 0
          /\ delay' = [delay EXCEPT ![c] = Wait(sinceAnswer)]
          /\ GoTo(c, "sleeping")
          /\ UNCHANGED attempt
       \/ /\ Wait(sinceAnswer) = 0
          /\ Fetching(c)
          /\ UNCHANGED delay
    /\ UNCHANGED <<row, sinceAnswer, place>>

\* Fault: a task that misses does not line up behind the others.
TakeLockUnasked(c) == pc[c] = "missed" /\ Paced(c) /\ UNCHANGED queue

TakeLock(c) ==
    /\ pc[c] = "missed"
    /\ \/ /\ owner = NoCaller /\ queue = <<>>
          /\ Paced(c)
          /\ UNCHANGED queue
       \/ /\ owner # NoCaller \/ queue # <<>>
          /\ GoTo(c, "waiting")
          /\ queue' = Append(queue, c)
          /\ UNCHANGED <<row, owner, sinceAnswer, place, delay, attempt>>

\* The first waiter resumes with the lock.
Acquire(c) ==
    /\ pc[c] = "waiting"
    /\ owner = NoCaller /\ queue # <<>> /\ Head(queue) = c
    /\ queue' = Tail(queue)
    /\ Paced(c)

\* The sleep before the first request or between two attempts is over.
WakeUp(c) ==
    /\ pc[c] = "sleeping" /\ delay[c] = 0
    /\ Fetching(c)
    /\ UNCHANGED <<row, lock, sinceAnswer, place, delay>>
-----------------------------------------------------------------------------
(* Answers *)

Release(c) ==
    /\ owner' = NoCaller
    /\ attempt' = [attempt EXCEPT ![c] = 0]

\* The answer is kept unless it is no JSON.
Answer(c) ==
    /\ pc[c] = "fetching"
    /\ sinceAnswer' = 0
    /\ Release(c)
    /\ pc' \in {[pc EXCEPT ![c] = "storing"], [pc EXCEPT ![c] = "idle"]}
    /\ UNCHANGED <<row, queue, place, delay>>

\* wait_exponential: 1 s after the first attempt, 2 s after the second.
RetryDelay(n) == IF n = 1 THEN Second ELSE 2 * Second

\* Fault: there is no end of attempts.
RetryForever(c) ==
    /\ pc[c] = "fetching"
    /\ GoTo(c, "sleeping")
    /\ delay' = [delay EXCEPT ![c] = RetryDelay(attempt[c])]
    /\ UNCHANGED <<row, lock, sinceAnswer, place, attempt>>

\* A transient failure: a new attempt after a sleep, with the lock held.
Retry(c) ==
    /\ pc[c] = "fetching" /\ attempt[c] < MaxAttempts
    /\ GoTo(c, "sleeping")
    /\ delay' = [delay EXCEPT ![c] = RetryDelay(attempt[c])]
    /\ UNCHANGED <<row, lock, sinceAnswer, place, attempt>>

\* Fault: the lock is kept when an attempt fails for good.
GiveUpLocked(c) ==
    /\ pc[c] = "fetching"
    /\ GoTo(c, "idle")
    /\ attempt' = [attempt EXCEPT ![c] = 0]
    /\ UNCHANGED <<row, lock, sinceAnswer, place, delay>>

\* The last attempt, or an error that is not transient: the exception leaves
\* the lock, and _last_request_time stays what it was.
GiveUp(c) ==
    /\ pc[c] = "fetching"
    /\ GoTo(c, "idle")
    /\ Release(c)
    /\ UNCHANGED <<row, queue, sinceAnswer, place, delay>>

\* CacheStore.set, which logs its errors.
Store(c) ==
    /\ pc[c] = "storing"
    /\ row' \in {row, [row EXCEPT ![place[c]] = Ttl]}
    /\ GoTo(c, "idle")
    /\ UNCHANGED <<lock, sinceAnswer, place, delay, attempt>>

\* The request's timeout or a disconnected client, at whatever it awaits.
Cancel(c) ==
    /\ pc[c] # "idle"
    /\ GoTo(c, "idle")
    /\ owner' = IF owner = c THEN NoCaller ELSE owner
    /\ queue' = Without(queue, c)
    /\ delay' = [delay EXCEPT ![c] = 0]
    /\ attempt' = [attempt EXCEPT ![c] = 0]
    /\ UNCHANGED <<row, sinceAnswer, place>>

Less(t) == IF t > 0 THEN t - 1 ELSE t
More(t) == IF t < Second THEN t + 1 ELSE t

\* A tick passes.
Tick ==
    /\ row' = [p \in Places |-> Less(row[p])]
    /\ delay' = [c \in Callers |-> Less(delay[c])]
    /\ sinceAnswer' = More(sinceAnswer)
    /\ UNCHANGED <<lock, pc, place, attempt>>

Next ==
    \/ \E c \in Callers, p \in Places : LookUp(c, p) \/ LookUpFails(c, p)
    \/ \E c \in Callers :
          \/ DeleteExpired(c) \/ TakeLock(c) \/ Acquire(c) \/ WakeUp(c)
          \/ Answer(c) \/ Retry(c) \/ GiveUp(c) \/ Store(c) \/ Cancel(c)
    \/ CleanUp
    \/ Tick

\* Time passes, tasks run, sleeps end, and a request to Nominatim has a
\* timeout: each attempt ends one way or another.
Fairness ==
    /\ WF_vars(Tick)
    /\ \A c \in Callers :
          /\ WF_vars(DeleteExpired(c)) /\ WF_vars(TakeLock(c)) /\ WF_vars(Acquire(c))
          /\ WF_vars(WakeUp(c)) /\ WF_vars(Answer(c) \/ Retry(c) \/ GiveUp(c))
          /\ WF_vars(Store(c))

Spec == Init /\ [][Next]_vars /\ Fairness
-----------------------------------------------------------------------------
TypeOK ==
    /\ row \in [Places -> {Absent} \cup 0..Ttl]
    /\ sinceAnswer \in 0..Second
    /\ owner \in Callers \cup {NoCaller}
    /\ queue \in Seq(Callers)
    /\ pc \in [Callers -> PCs]
    /\ place \in [Callers -> Places]
    /\ delay \in [Callers -> 0..2 * Second]
    /\ attempt \in [Callers -> 0..MaxAttempts]

\* One request to Nominatim at a time: whoever asks it, or sleeps before it
\* does, holds the lock, and nobody else does, through retries, failures and
\* cancellations.
OneAtATime == \A c \in Callers : pc[c] \in {"sleeping", "fetching"} <=> owner = c

\* After an answer Nominatim is left alone for a second, whoever asks next.
PacedAfterAnswer ==
    [][sinceAnswer < Second => \A c \in Callers : pc'[c] = "fetching" => pc[c] = "fetching"]_vars

\* Whoever asks for a location gets an answer or an error: nobody waits for
\* the lock forever, whatever becomes of those ahead of him.
EveryoneServed == \A c \in Callers : pc[c] # "idle" ~> pc[c] = "idle"
=============================================================================
