--------------------------- MODULE GeocoderProofs ---------------------------
(***************************************************************************)
(* That Nominatim is asked by one task at a time and left alone for a      *)
(* second after an answer, for every set of tasks and places, every length *)
(* of a second and every time to live.                                     *)
(***************************************************************************)
EXTENDS Geocoder, SequenceTheorems, TLAPS

Typing ==
    /\ sinceAnswer \in 0..Second
    /\ owner \in Callers \cup {NoCaller}
    /\ pc \in [Callers -> PCs]
    /\ delay \in [Callers -> Nat]

\* A sleeper has at least what is left of the second before it.
SleepsLongEnough == \A c \in Callers : pc[c] = "sleeping" => delay[c] + sinceAnswer >= Second

IInv == Typing /\ OneAtATime /\ SleepsLongEnough

LEMMA InitIInv == Init => IInv
  BY TimesAssumption, NoCallerAssumption
     DEF Init, IInv, Typing, OneAtATime, SleepsLongEnough, PCs

\* Under the lock: a task that was neither sleeping nor fetching now is.
LEMMA PacedIInv ==
    ASSUME IInv, NEW c \in Callers, owner = NoCaller, Paced(c)
    PROVE  IInv'
  <1>1. \A d \in Callers : pc[d] \notin {"sleeping", "fetching"}
    BY NoCallerAssumption DEF IInv, OneAtATime
  <1>2. Typing' /\ OneAtATime'
    BY <1>1, TimesAssumption, NoCallerAssumption
       DEF IInv, Typing, OneAtATime, Paced, Fetching, GoTo, PCs, Wait
  <1>3. SleepsLongEnough'
    BY <1>1, TimesAssumption
       DEF IInv, Typing, SleepsLongEnough, Paced, Fetching, GoTo, Wait
  <1> QED  BY <1>2, <1>3 DEF IInv

\* Steps of a task in front of the lock or behind it.
LEMMA UnlockedIInv ==
    ASSUME IInv, NEW c \in Callers,
           pc[c] \notin {"sleeping", "fetching"},
           NEW where \in PCs \ {"sleeping", "fetching"}, GoTo(c, where),
           UNCHANGED <<owner, sinceAnswer, delay>>
    PROVE  IInv'
  BY DEF IInv, Typing, OneAtATime, SleepsLongEnough, GoTo, PCs

\* A task that holds the lock lets it go.
LEMMA ReleaseIInv ==
    ASSUME IInv, NEW c \in Callers, pc[c] = "fetching", owner' = NoCaller,
           NEW where \in {"idle", "storing"}, GoTo(c, where),
           sinceAnswer' \in {0, sinceAnswer}, UNCHANGED delay
    PROVE  IInv'
  <1>1. \A d \in Callers \ {c} : pc[d] \notin {"sleeping", "fetching"}
    BY DEF IInv, OneAtATime
  <1> QED
    BY <1>1, NoCallerAssumption, TimesAssumption
       DEF IInv, Typing, OneAtATime, SleepsLongEnough, GoTo, PCs

LEMMA CancelIInv ==
    ASSUME IInv, NEW c \in Callers, Cancel(c)
    PROVE  IInv'
  <1>1. Typing'  BY DEF IInv, Typing, Cancel, GoTo, PCs
  <1>2. OneAtATime'
    BY NoCallerAssumption DEF IInv, Typing, OneAtATime, Cancel, GoTo, PCs
  <1>3. SleepsLongEnough'
    BY DEF IInv, Typing, SleepsLongEnough, Cancel, GoTo
  <1> QED  BY <1>1, <1>2, <1>3 DEF IInv

LEMMA TickIInv ==
    ASSUME IInv, Tick
    PROVE  IInv'
  <1>1. Typing' /\ OneAtATime'
    BY TimesAssumption DEF IInv, Typing, OneAtATime, Tick, lock, Less, More
  <1>2. SleepsLongEnough'
    BY TimesAssumption DEF IInv, Typing, SleepsLongEnough, Tick, Less, More
  <1> QED  BY <1>1, <1>2 DEF IInv

LEMMA NextIInv == IInv /\ [Next]_vars => IInv'
  <1> SUFFICES ASSUME IInv, [Next]_vars PROVE IInv'  OBVIOUS
  <1>1. ASSUME NEW c \in Callers, NEW p \in Places, LookUp(c, p) \/ LookUpFails(c, p)
        PROVE  IInv'
    <2>1. UNCHANGED <<owner, sinceAnswer, delay>> /\ pc[c] = "idle"
      BY <1>1 DEF LookUp, LookUpFails, lock
    <2>2. GoTo(c, "idle") \/ GoTo(c, "expired") \/ GoTo(c, "missed")
      BY <1>1 DEF LookUp, LookUpFails, GoTo
    <2> QED  BY <2>1, <2>2, UnlockedIInv DEF PCs
  <1>2. ASSUME NEW c \in Callers, DeleteExpired(c) PROVE IInv'
    BY <1>2, UnlockedIInv DEF DeleteExpired, lock, PCs
  <1>3. ASSUME NEW c \in Callers, TakeLock(c) PROVE IInv'
    <2>1. CASE owner = NoCaller /\ Paced(c)  BY <2>1, PacedIInv
    <2>2. CASE GoTo(c, "waiting") /\ UNCHANGED <<owner, sinceAnswer, delay>>
      BY <1>3, <2>2, UnlockedIInv DEF TakeLock, PCs
    <2> QED  BY <1>3, <2>1, <2>2 DEF TakeLock
  <1>4. ASSUME NEW c \in Callers, Acquire(c) PROVE IInv'
    BY <1>4, PacedIInv DEF Acquire
  <1>5. ASSUME NEW c \in Callers, WakeUp(c) PROVE IInv'
    BY <1>5
       DEF IInv, Typing, OneAtATime, SleepsLongEnough, WakeUp, Fetching, GoTo, lock, PCs
  <1>6. ASSUME NEW c \in Callers, Answer(c) PROVE IInv'
    <2>1. GoTo(c, "storing") \/ GoTo(c, "idle")  BY <1>6 DEF Answer, GoTo
    <2> QED  BY <1>6, <2>1, ReleaseIInv DEF Answer, Release
  <1>7. ASSUME NEW c \in Callers, Retry(c) PROVE IInv'
    <2>1. RetryDelay(attempt[c]) \in Nat /\ RetryDelay(attempt[c]) >= Second
      BY TimesAssumption DEF RetryDelay
    <2>2. Typing' /\ OneAtATime'
      BY <1>7, <2>1 DEF IInv, Typing, OneAtATime, Retry, GoTo, lock, PCs
    <2>3. SleepsLongEnough'
      BY <1>7, <2>1, TimesAssumption DEF IInv, Typing, SleepsLongEnough, Retry, GoTo
    <2> QED  BY <2>2, <2>3 DEF IInv
  <1>8. ASSUME NEW c \in Callers, GiveUp(c) PROVE IInv'
    BY <1>8, ReleaseIInv DEF GiveUp, Release
  <1>9. ASSUME NEW c \in Callers, Store(c) PROVE IInv'
    BY <1>9, UnlockedIInv DEF Store, lock, PCs
  <1>10. ASSUME NEW c \in Callers, Cancel(c) PROVE IInv'  BY <1>10, CancelIInv
  <1>11. CASE Tick  BY <1>11, TickIInv
  <1>12. CASE CleanUp \/ UNCHANGED vars
    BY <1>12
       DEF IInv, Typing, OneAtATime, SleepsLongEnough, CleanUp, vars, lock, taskVars
  <1> QED
    BY <1>1, <1>2, <1>3, <1>4, <1>5, <1>6, <1>7, <1>8, <1>9, <1>10, <1>11, <1>12 DEF Next

\* The inductive invariant holds in every state of every execution.
THEOREM Invariance == Spec => []IInv
  BY InitIInv, NextIInv, PTL DEF Spec

\* Whoever sleeps before a request or makes it holds the lock, alone.
THEOREM AskedOneAtATime == Spec => []OneAtATime
  BY Invariance, PTL DEF IInv

\* No request is made within a second of an answer.
THEOREM AnswersArePaced == Spec => PacedAfterAnswer
  <1>1. ASSUME IInv, [Next]_vars, sinceAnswer < Second, NEW c \in Callers, pc'[c] = "fetching"
        PROVE  pc[c] = "fetching"
    <2> SUFFICES ASSUME pc[c] # "fetching" PROVE FALSE  OBVIOUS
    <2>1. Wait(sinceAnswer) > 0  BY <1>1, TimesAssumption DEF IInv, Typing, Wait
    <2>2. ASSUME NEW d \in Callers, Paced(d) PROVE FALSE
      BY <1>1, <2>1, <2>2 DEF Paced, GoTo, IInv, Typing
    <2>3. ASSUME NEW d \in Callers, WakeUp(d) PROVE FALSE
      BY <1>1, <2>3, TimesAssumption
         DEF IInv, Typing, SleepsLongEnough, WakeUp, Fetching, GoTo
    <2>4. ASSUME NEW d \in Callers,
                 \/ \E p \in Places : LookUp(d, p) \/ LookUpFails(d, p)
                 \/ DeleteExpired(d) \/ Answer(d) \/ Retry(d) \/ GiveUp(d) \/ Store(d)
                 \/ Cancel(d)
          PROVE  FALSE
      BY <1>1, <2>4
         DEF IInv, Typing, LookUp, LookUpFails, DeleteExpired, Answer, Retry, GiveUp, Store,
             Cancel, GoTo
    <2>5. ASSUME NEW d \in Callers, TakeLock(d) \/ Acquire(d) PROVE FALSE
      BY <1>1, <2>2, <2>5 DEF TakeLock, Acquire, GoTo, IInv, Typing
    <2>6. CASE CleanUp \/ Tick \/ UNCHANGED vars
      BY <1>1, <2>6 DEF CleanUp, Tick, vars, taskVars
    <2> QED  BY <1>1, <2>3, <2>4, <2>5, <2>6 DEF Next
  <1>2. IInv /\ [Next]_vars =>
            [sinceAnswer < Second =>
                \A c \in Callers : pc'[c] = "fetching" => pc[c] = "fetching"]_vars
    BY <1>1
  <1> QED  BY <1>2, Invariance, PTL DEF Spec, PacedAfterAnswer
-----------------------------------------------------------------------------
(* The type invariant.  That no task makes more attempts than it may needs  *)
(* to know that one which sleeps has an attempt left; that one which asks   *)
(* has made an attempt and has no sleep left is needed below.              *)

AttemptsLeft ==
    \A c \in Callers : /\ pc[c] = "sleeping" => attempt[c] < MaxAttempts
                       /\ pc[c] = "fetching" => attempt[c] > 0
                       /\ pc[c] # "sleeping" => delay[c] = 0
                       /\ pc[c] \notin {"sleeping", "fetching"} => attempt[c] = 0

TypeInv == TypeOK /\ AttemptsLeft

LEMMA InitTypeInv == Init => TypeInv
  BY TimesAssumption DEF Init, TypeInv, TypeOK, AttemptsLeft, PCs, MaxAttempts, Absent

LEMMA WithoutType ==
    ASSUME NEW q \in Seq(Callers), NEW c
    PROVE  Without(q, c) \in Seq(Callers)
  BY DEF Without, Position, RemoveAt

\* Under the lock: a task that has made no attempt yet.
LEMMA PacedTypeInv ==
    ASSUME TypeInv, NEW c \in Callers, Paced(c), attempt[c] = 0, delay[c] = 0,
           queue' \in Seq(Callers)
    PROVE  TypeInv'
  <1>1. Wait(sinceAnswer) \in 0..2 * Second
    BY TimesAssumption DEF TypeInv, TypeOK, Wait
  <1>2. CASE /\ delay' = [delay EXCEPT ![c] = Wait(sinceAnswer)]
             /\ GoTo(c, "sleeping")
             /\ UNCHANGED attempt
    <2>1. TypeOK'
      BY <1>1, <1>2 DEF TypeInv, TypeOK, Paced, GoTo, PCs
    <2>2. AttemptsLeft'
      BY <1>2 DEF TypeInv, TypeOK, AttemptsLeft, GoTo, MaxAttempts
    <2> QED  BY <2>1, <2>2 DEF TypeInv
  <1>3. CASE Fetching(c) /\ UNCHANGED delay
    <2>1. TypeOK'
      BY <1>3, TimesAssumption
         DEF TypeInv, TypeOK, Paced, Fetching, GoTo, PCs, MaxAttempts
    <2>2. AttemptsLeft'
      BY <1>3 DEF TypeInv, TypeOK, AttemptsLeft, Fetching, GoTo, MaxAttempts
    <2> QED  BY <2>1, <2>2 DEF TypeInv
  <1> QED  BY <1>2, <1>3 DEF Paced

LEMMA LookUpTypeInv ==
    ASSUME TypeInv, NEW c \in Callers, NEW p \in Places, LookUp(c, p) \/ LookUpFails(c, p)
    PROVE  TypeInv'
  <1>1. \E where \in {"idle", "expired", "missed"} : GoTo(c, where)
    BY DEF LookUp, LookUpFails, GoTo
  <1> QED
    BY <1>1
       DEF TypeInv, TypeOK, AttemptsLeft, LookUp, LookUpFails, GoTo, lock, PCs

\* The steps behind the lock, and those that end a task.
LEMMA EndTypeInv ==
    ASSUME TypeInv, NEW c \in Callers,
           Answer(c) \/ GiveUp(c) \/ Store(c) \/ DeleteExpired(c) \/ Cancel(c)
    PROVE  TypeInv'
  <1>1. CASE Answer(c) \/ GiveUp(c)
    <2>1. /\ pc' \in [Callers -> PCs] /\ sinceAnswer' \in 0..Second
          /\ attempt' = [attempt EXCEPT ![c] = 0] /\ owner' = NoCaller
          /\ UNCHANGED <<row, queue, place, delay>>
      <3>1. CASE Answer(c)
        <4>1. pc' = [pc EXCEPT ![c] = "storing"] \/ pc' = [pc EXCEPT ![c] = "idle"]
          BY <3>1 DEF Answer
        <4>2. pc' \in [Callers -> PCs]  BY <4>1 DEF TypeInv, TypeOK, PCs
        <4> QED  BY <3>1, <4>2, TimesAssumption DEF Answer, Release
      <3>2. CASE GiveUp(c)
        BY <3>2, TimesAssumption DEF TypeInv, TypeOK, GiveUp, Release, GoTo, PCs
      <3> QED  BY <1>1, <3>1, <3>2
    <2>2. pc[c] = "fetching" /\ pc'[c] \in {"idle", "storing"} /\ \A d \in Callers \ {c} : pc'[d] = pc[d]
      BY <1>1 DEF TypeInv, TypeOK, Answer, GiveUp, GoTo
    <2>3. TypeOK'  BY <2>1 DEF TypeInv, TypeOK, MaxAttempts
    <2>4. AttemptsLeft'  BY <2>1, <2>2 DEF TypeInv, TypeOK, AttemptsLeft, MaxAttempts
    <2> QED  BY <2>3, <2>4 DEF TypeInv
  <1>2. CASE Store(c) \/ DeleteExpired(c)
    <2>1. row' \in [Places -> {Absent} \cup 0..Ttl]
      <3>1. \/ row' = row
            \/ row' = [row EXCEPT ![place[c]] = Absent]
            \/ row' = [row EXCEPT ![place[c]] = Ttl]
        BY <1>2 DEF Store, DeleteExpired
      <3>2. place[c] \in Places /\ row \in [Places -> {Absent} \cup 0..Ttl]
        BY DEF TypeInv, TypeOK
      <3>3. Ttl \in {Absent} \cup 0..Ttl  BY TimesAssumption
      <3> QED  BY <3>1, <3>2, <3>3
    <2>2. TypeOK'
      BY <1>2, <2>1 DEF TypeInv, TypeOK, Store, DeleteExpired, GoTo, lock, PCs
    <2>3. AttemptsLeft'
      BY <1>2 DEF TypeInv, TypeOK, AttemptsLeft, Store, DeleteExpired, GoTo
    <2> QED  BY <2>2, <2>3 DEF TypeInv
  <1>3. CASE Cancel(c)
    <2>1. queue' \in Seq(Callers)  BY <1>3, WithoutType DEF TypeInv, TypeOK, Cancel
    <2>2. TypeOK'
      BY <1>3, <2>1, TimesAssumption DEF TypeInv, TypeOK, Cancel, GoTo, PCs, MaxAttempts
    <2>3. AttemptsLeft'
      BY <1>3 DEF TypeInv, TypeOK, AttemptsLeft, Cancel, GoTo, MaxAttempts
    <2> QED  BY <2>2, <2>3 DEF TypeInv
  <1> QED  BY <1>1, <1>2, <1>3

LEMMA NextTypeInv == TypeInv /\ [Next]_vars => TypeInv'
  <1> SUFFICES ASSUME TypeInv, [Next]_vars PROVE TypeInv'  OBVIOUS
  <1>1. CASE \E c \in Callers, p \in Places : LookUp(c, p) \/ LookUpFails(c, p)
    BY <1>1, LookUpTypeInv
  <1>2. ASSUME NEW c \in Callers, TakeLock(c) PROVE TypeInv'
    <2>1. CASE Paced(c) /\ UNCHANGED queue
      BY <1>2, <2>1, PacedTypeInv DEF TakeLock, TypeInv, TypeOK, AttemptsLeft
    <2>2. CASE GoTo(c, "waiting") /\ queue' = Append(queue, c)
               /\ UNCHANGED <<row, owner, sinceAnswer, place, delay, attempt>>
      BY <1>2, <2>2
         DEF TakeLock, TypeInv, TypeOK, AttemptsLeft, GoTo, PCs
    <2> QED  BY <1>2, <2>1, <2>2 DEF TakeLock
  <1>3. ASSUME NEW c \in Callers, Acquire(c) PROVE TypeInv'
    <2>1. Tail(queue) \in Seq(Callers)  BY <1>3 DEF Acquire, TypeInv, TypeOK
    <2> QED  BY <1>3, <2>1, PacedTypeInv DEF Acquire, TypeInv, AttemptsLeft
  <1>4. ASSUME NEW c \in Callers, WakeUp(c) PROVE TypeInv'
    <2>1. /\ pc' = [pc EXCEPT ![c] = "fetching"] /\ attempt' = [attempt EXCEPT ![c] = @ + 1]
          /\ attempt[c] \in 0..MaxAttempts - 1 /\ delay[c] = 0
          /\ UNCHANGED <<row, owner, queue, sinceAnswer, place, delay>>
      BY <1>4 DEF WakeUp, Fetching, GoTo, lock, TypeInv, TypeOK, AttemptsLeft, MaxAttempts
    <2>2. TypeOK'  BY <2>1 DEF TypeInv, TypeOK, PCs, MaxAttempts
    <2>3. AttemptsLeft'  BY <2>1 DEF TypeInv, TypeOK, AttemptsLeft, PCs, MaxAttempts
    <2> QED  BY <2>2, <2>3 DEF TypeInv
  <1>5. ASSUME NEW c \in Callers, Retry(c) PROVE TypeInv'
    <2>1. RetryDelay(attempt[c]) \in 0..2 * Second  BY TimesAssumption DEF RetryDelay
    <2> QED
      BY <1>5, <2>1, TimesAssumption
         DEF TypeInv, TypeOK, AttemptsLeft, Retry, GoTo, lock, PCs, MaxAttempts
  <1>6. CASE \E c \in Callers :
                Answer(c) \/ GiveUp(c) \/ Store(c) \/ DeleteExpired(c) \/ Cancel(c)
    BY <1>6, EndTypeInv
  <1>7. CASE CleanUp
    BY <1>7
       DEF TypeInv, TypeOK, AttemptsLeft, CleanUp, lock, taskVars, Absent
  <1>8. CASE Tick
    BY <1>8, TimesAssumption
       DEF TypeInv, TypeOK, AttemptsLeft, Tick, lock, Less, More, Absent
  <1>9. CASE UNCHANGED vars
    BY <1>9 DEF TypeInv, TypeOK, AttemptsLeft, vars, lock, taskVars
  <1> QED
    BY <1>1, <1>2, <1>3, <1>4, <1>5, <1>6, <1>7, <1>8, <1>9 DEF Next

\* Tasks, rows, sleeps and attempts keep their bounds, for any tasks and
\* places: no request is tried more than MaxAttempts times.
THEOREM TypeCorrect == Spec => []TypeOK
  <1>1. TypeInv => TypeOK  BY DEF TypeInv
  <1> QED  BY <1>1, InitTypeInv, NextTypeInv, PTL DEF Spec
-----------------------------------------------------------------------------
(* The line behind the lock: what it becomes when a task joins it, leaves   *)
(* it, or is served.                                                       *)

\* A line that c joins at its end.
LEMMA AppendLine ==
    ASSUME NEW q \in Seq(Callers), NEW S, InLine(q, S), NEW c \in Callers, c \notin S
    PROVE  /\ InLine(Append(q, c), S \cup {c})
           /\ Before(Append(q, c)) = Before(q) \cup (S \X {c})
  <1> DEFINE r == Append(q, c)
             n == Len(q)
  <1>1. /\ n \in Nat /\ DOMAIN q = 1..n /\ DOMAIN r = 1..n + 1
        /\ \A i \in 1..n : r[i] = q[i] /\ i \in 1..n + 1 /\ i < n + 1
        /\ r[n + 1] = c /\ n + 1 \in 1..n + 1
        /\ \A i, j \in 1..n + 1 : i < j => i \in 1..n /\ (j # n + 1 => j \in 1..n)
    OBVIOUS
  <1> HIDE DEF r, n
  <1>2. InLine(r, S \cup {c})  BY <1>1 DEF InLine
  <1>3. Before(r) \subseteq Before(q) \cup (S \X {c})  BY <1>1 DEF Before, InLine
  <1>4. Before(q) \cup (S \X {c}) \subseteq Before(r)  BY <1>1 DEF Before, InLine
  <1> QED  BY <1>2, <1>3, <1>4 DEF r

\* The line q without the one at position k: those behind it move up.
MovedUp(q, k) == [i \in 1..Len(q) - 1 |-> IF i < k THEN q[i] ELSE q[i + 1]]

LEMMA MovedUpType ==
    ASSUME NEW q \in Seq(Callers), NEW k \in DOMAIN q
    PROVE  MovedUp(q, k) \in Seq(Callers) /\ Len(MovedUp(q, k)) = Len(q) - 1
  <1>1. \A i \in 1..Len(q) - 1 : (IF i < k THEN q[i] ELSE q[i + 1]) \in Callers  OBVIOUS
  <1> QED  BY <1>1 DEF MovedUp

LEMMA MovedUpLine ==
    ASSUME NEW q \in Seq(Callers), NEW S, InLine(q, S), NEW k \in DOMAIN q
    PROVE  /\ InLine(MovedUp(q, k), S \ {q[k]})
           /\ Before(MovedUp(q, k)) = {p \in Before(q) : p[1] # q[k] /\ p[2] # q[k]}
  <1> DEFINE r == MovedUp(q, k)
             n == Len(q)
             up(i) == IF i < k THEN i ELSE i + 1
             down(i) == IF i < k THEN i ELSE i - 1
  <1>1. /\ DOMAIN q = 1..n /\ DOMAIN r = 1..n - 1 /\ k \in 1..n
        /\ \A i, j \in 1..n : q[i] = q[j] => i = j
        /\ \A i \in 1..n - 1 : up(i) \in 1..n /\ up(i) # k /\ r[i] = q[up(i)]
        /\ \A i \in 1..n : i # k => down(i) \in 1..n - 1 /\ r[down(i)] = q[i]
        /\ \A i, j \in 1..n - 1 : (i < j => up(i) < up(j)) /\ (up(i) = up(j) => i = j)
        /\ \A i, j \in 1..n : i # k /\ j # k /\ i < j => down(i) < down(j)
    BY DEF MovedUp, InLine
  <1> HIDE DEF r, n, up, down
  <1>2. S \ {q[k]} = {r[i] : i \in 1..n - 1}
    BY <1>1 DEF InLine
  <1>3. InLine(r, S \ {q[k]})  BY <1>1, <1>2 DEF InLine
  <1>4. Before(r) \subseteq {p \in Before(q) : p[1] # q[k] /\ p[2] # q[k]}
    BY <1>1 DEF Before
  <1>5. {p \in Before(q) : p[1] # q[k] /\ p[2] # q[k]} \subseteq Before(r)
    BY <1>1 DEF Before
  <1> QED  BY <1>3, <1>4, <1>5 DEF r
\* c leaves the line wherever it stands.
LEMMA WithoutLine ==
    ASSUME NEW q \in Seq(Callers), NEW S, InLine(q, S), NEW c
    PROVE  /\ InLine(Without(q, c), S \ {c})
           /\ Before(Without(q, c)) = {p \in Before(q) : p[1] # c /\ p[2] # c}
  <1>1. CASE c \in S
    <2>1. PICK k \in DOMAIN q : k = Position(q, c) /\ q[k] = c
      BY <1>1 DEF InLine, Position
    <2>2. Without(q, c) = SubSeq(q, 1, k - 1) \o SubSeq(q, k + 1, Len(q))
      BY <2>1 DEF Without, RemoveAt
    <2>3. Without(q, c) = MovedUp(q, k)
      <3> DEFINE a == SubSeq(q, 1, k - 1)
                 b == SubSeq(q, k + 1, Len(q))
      <3>1. /\ a \in Seq(Callers) /\ Len(a) = k - 1
            /\ b \in Seq(Callers) /\ Len(b) = Len(q) - k
            /\ \A i \in 1..k - 1 : a[i] = q[i]
            /\ \A i \in 1..Len(q) - k : b[i] = q[k + i]
        OBVIOUS
      <3> HIDE DEF a, b
      <3>2. /\ a \o b \in Seq(Callers) /\ Len(a \o b) = Len(q) - 1
            /\ \A i \in 1..Len(q) - 1 : (a \o b)[i] = MovedUp(q, k)[i]
        BY <3>1 DEF MovedUp
      <3>3. a \o b = MovedUp(q, k)  BY <3>2, MovedUpType, SeqEqual
      <3> QED  BY <2>2, <3>3 DEF a, b
    <2> QED  BY <2>1, <2>3, MovedUpLine
  <1>2. CASE c \notin S
    <2>1. Without(q, c) = q  BY <1>2 DEF InLine, Without
    <2>2. \A p \in Before(q) : p[1] # c /\ p[2] # c  BY <1>2 DEF InLine, Before
    <2> QED  BY <1>2, <2>1, <2>2 DEF InLine
  <1> QED  BY <1>1, <1>2

\* The first one leaves: nobody was before it.
LEMMA TailLine ==
    ASSUME NEW q \in Seq(Callers), NEW S, InLine(q, S), q # <<>>
    PROVE  /\ InLine(Tail(q), S \ {Head(q)})
           /\ Before(Tail(q)) = {p \in Before(q) : p[1] # Head(q) /\ p[2] # Head(q)}
           /\ Head(q) \in S /\ \A d \in S : <<d, Head(q)>> \notin Before(q)
  <1>1. 1 \in DOMAIN q /\ Head(q) = q[1]  OBVIOUS
  <1>2. Tail(q) = MovedUp(q, 1)
    <2>1. /\ Tail(q) \in Seq(Callers) /\ Len(Tail(q)) = Len(q) - 1
          /\ \A i \in 1..Len(q) - 1 : Tail(q)[i] = MovedUp(q, 1)[i]
      BY DEF MovedUp
    <2> QED  BY <1>1, <2>1, MovedUpType, SeqEqual
  <1>3. \A d \in S : <<d, q[1]>> \notin Before(q)  BY <1>1 DEF Before, InLine
  <1>4. /\ InLine(MovedUp(q, 1), S \ {q[1]})
        /\ Before(MovedUp(q, 1)) = {p \in Before(q) : p[1] # q[1] /\ p[2] # q[1]}
    BY <1>1, MovedUpLine
  <1>5. q[1] \in S  BY <1>1 DEF InLine
  <1> QED  BY <1>1, <1>2, <1>3, <1>4, <1>5
-----------------------------------------------------------------------------
(* The lock is fair: queue, owner and the places where the tasks stand       *)
(* implement FairLock.                                                     *)

Waiting == {c \in Callers : pc[c] = "waiting"}

Fair == INSTANCE FairLock WITH Tasks <- Callers, NoTask <- NoCaller, holder <- owner,
                               waiting <- Waiting, before <- Before(queue)

\* The line consists of the tasks that wait, each once: a task that has given
\* up leaves no entry behind that would be woken in vain, and none waits
\* without an entry.
LineExact == InLine(queue, Waiting)

FairStep == LineExact' /\ [Fair!Next]_(Fair!lockVars)

LEMMA MovesTo ==
    ASSUME TypeInv, NEW c \in Callers, NEW p, pc' = [pc EXCEPT ![c] = p]
    PROVE  Waiting' = IF p = "waiting" THEN Waiting \cup {c} ELSE Waiting \ {c}
  BY DEF TypeInv, TypeOK, Waiting

\* Whatever keeps the lock and the waiting tasks.
LEMMA KeepsLine ==
    ASSUME LineExact, Waiting' = Waiting, UNCHANGED <<owner, queue>>
    PROVE  FairStep
  BY DEF FairStep, LineExact, Fair!lockVars

\* The lock is let go.
LEMMA UnlockStep ==
    ASSUME LineExact, Waiting' = Waiting, UNCHANGED queue, owner \in Callers, owner' = NoCaller
    PROVE  FairStep
  <1>1. LineExact' /\ Before(queue)' = Before(queue)  BY DEF LineExact
  <1>2. Fair!Unlock  BY <1>1, NoCallerAssumption DEF Fair!Unlock
  <1> QED  BY <1>1, <1>2 DEF FairStep, Fair!Next

LEMMA TakeLockStep ==
    ASSUME TypeInv, LineExact, NEW c \in Callers, TakeLock(c)
    PROVE  FairStep
  <1>1. CASE owner = NoCaller /\ queue = <<>> /\ Paced(c) /\ UNCHANGED queue
    <2>1. Waiting = {}  BY <1>1 DEF LineExact, InLine
    <2>2. \E p \in {"sleeping", "fetching"} : pc' = [pc EXCEPT ![c] = p]
      BY <1>1 DEF Paced, Fetching, GoTo
    <2>3. Waiting' = Waiting  BY <2>1, <2>2, MovesTo
    <2>4. LineExact' /\ Before(queue)' = Before(queue)
      BY <1>1, <2>3 DEF LineExact
    <2>5. Fair!TakeFree(c)  BY <1>1, <2>1, <2>3, <2>4 DEF Fair!TakeFree, Paced
    <2> QED  BY <2>4, <2>5 DEF FairStep, Fair!Next
  <1>2. CASE /\ owner # NoCaller \/ queue # <<>>
             /\ GoTo(c, "waiting") /\ queue' = Append(queue, c) /\ UNCHANGED owner
    <2>1. c \notin Waiting  BY DEF TakeLock, Waiting
    <2>2. Waiting' = Waiting \cup {c}  BY <1>2, MovesTo DEF GoTo
    <2>3. /\ InLine(Append(queue, c), Waiting \cup {c})
          /\ Before(Append(queue, c)) = Before(queue) \cup (Waiting \X {c})
      BY <2>1, AppendLine DEF TypeInv, TypeOK, LineExact
    <2>4. LineExact' /\ Before(queue)' = Before(queue) \cup (Waiting \X {c})
      BY <1>2, <2>2, <2>3 DEF LineExact
    <2>5. queue # <<>> => Waiting # {}  BY TailLine DEF TypeInv, TypeOK, LineExact
    <2>6. Fair!LineUp(c)  BY <1>2, <2>1, <2>2, <2>4, <2>5 DEF Fair!LineUp
    <2> QED  BY <2>4, <2>6 DEF FairStep, Fair!Next
  <1> QED  BY <1>1, <1>2 DEF TakeLock

LEMMA AcquireStep ==
    ASSUME TypeInv, LineExact, NEW c \in Callers, Acquire(c)
    PROVE  FairStep
  <1>1. owner = NoCaller /\ queue # <<>> /\ Head(queue) = c /\ queue' = Tail(queue) /\ Paced(c)
    BY DEF Acquire
  <1>2. /\ InLine(Tail(queue), Waiting \ {c})
        /\ Before(Tail(queue)) = {p \in Before(queue) : p[1] # c /\ p[2] # c}
        /\ c \in Waiting /\ \A d \in Waiting : <<d, c>> \notin Before(queue)
    BY <1>1, TailLine DEF TypeInv, TypeOK, LineExact
  <1>3. \E p \in {"sleeping", "fetching"} : pc' = [pc EXCEPT ![c] = p]
    BY <1>1 DEF Paced, Fetching, GoTo
  <1>4. Waiting' = Waiting \ {c}  BY <1>3, MovesTo
  <1>5. LineExact' /\ Before(queue)' = {p \in Before(queue) : p[1] # c /\ p[2] # c}
    BY <1>1, <1>2, <1>4 DEF LineExact
  <1>6. Fair!TakeTurn(c)
    BY <1>1, <1>2, <1>4, <1>5 DEF Fair!TakeTurn, Fair!Leaves, Paced
  <1> QED  BY <1>5, <1>6 DEF FairStep, Fair!Next

LEMMA CancelStep ==
    ASSUME IInv, TypeInv, LineExact, NEW c \in Callers, Cancel(c)
    PROVE  FairStep
  <1>1. /\ InLine(Without(queue, c), Waiting \ {c})
        /\ Before(Without(queue, c)) = {p \in Before(queue) : p[1] # c /\ p[2] # c}
    BY WithoutLine DEF TypeInv, TypeOK, LineExact
  <1>2. pc' = [pc EXCEPT ![c] = "idle"] /\ queue' = Without(queue, c)
    BY DEF Cancel, GoTo
  <1>3. Waiting' = Waiting \ {c}  BY <1>2 DEF TypeInv, TypeOK, Waiting
  <1>4. CASE pc[c] = "waiting"
    <2>1. c \in Waiting /\ owner' = owner
      BY <1>4 DEF Waiting, Cancel, IInv, OneAtATime
    <2>2. LineExact' /\ Before(queue)' = {p \in Before(queue) : p[1] # c /\ p[2] # c}
      BY <1>1, <1>2, <1>3 DEF LineExact
    <2>3. Fair!StopWaiting(c)
      BY <1>3, <2>1, <2>2 DEF Fair!StopWaiting, Fair!Leaves
    <2> QED  BY <2>2, <2>3 DEF FairStep, Fair!Next
  <1>5. CASE pc[c] # "waiting"
    <2>1. Waiting' = Waiting  BY <1>3, <1>5 DEF Waiting
    <2>2. queue' = queue  BY <1>2, <1>5 DEF LineExact, InLine, Waiting, Without
    <2>3. owner = c => owner' = NoCaller  BY DEF Cancel
    <2>4. owner # c => owner' = owner  BY DEF Cancel
    <2> QED  BY <2>1, <2>2, <2>3, <2>4, UnlockStep, KeepsLine
  <1> QED  BY <1>4, <1>5

LEMMA NextFairStep == IInv /\ TypeInv /\ LineExact /\ [Next]_vars => FairStep
  <1> SUFFICES ASSUME IInv, TypeInv, LineExact, [Next]_vars PROVE FairStep  OBVIOUS
  <1>1. ASSUME NEW c \in Callers, NEW p \in PCs \ {"waiting"}, pc' = [pc EXCEPT ![c] = p],
               pc[c] # "waiting"
        PROVE  Waiting' = Waiting
    BY <1>1, MovesTo DEF Waiting
  <1>2. ASSUME NEW c \in Callers, NEW p \in Places, LookUp(c, p) \/ LookUpFails(c, p)
        PROVE  FairStep
    <2>1. \E w \in PCs \ {"waiting"} : pc' = [pc EXCEPT ![c] = w]
      BY <1>2 DEF LookUp, LookUpFails, GoTo, PCs
    <2>2. pc[c] # "waiting" /\ UNCHANGED <<owner, queue>>
      BY <1>2 DEF LookUp, LookUpFails, lock
    <2> QED  BY <1>1, <2>1, <2>2, KeepsLine
  <1>3. ASSUME NEW c \in Callers, DeleteExpired(c) \/ WakeUp(c) \/ Retry(c) \/ Store(c)
        PROVE  FairStep
    <2>1. \E w \in PCs \ {"waiting"} : pc' = [pc EXCEPT ![c] = w]
      BY <1>3 DEF DeleteExpired, WakeUp, Fetching, Retry, Store, GoTo, PCs
    <2>2. pc[c] # "waiting" /\ UNCHANGED <<owner, queue>>
      BY <1>3 DEF DeleteExpired, WakeUp, Retry, Store, lock
    <2> QED  BY <1>1, <2>1, <2>2, KeepsLine
  <1>4. ASSUME NEW c \in Callers, Answer(c) \/ GiveUp(c) PROVE FairStep
    <2>1. \E w \in PCs \ {"waiting"} : pc' = [pc EXCEPT ![c] = w]
      BY <1>4 DEF Answer, GiveUp, GoTo, PCs
    <2>2. pc[c] = "fetching" /\ owner' = NoCaller /\ UNCHANGED queue
      BY <1>4 DEF Answer, GiveUp, Release
    <2>3. owner \in Callers  BY <2>2 DEF IInv, OneAtATime
    <2> QED  BY <1>1, <2>1, <2>2, <2>3, UnlockStep
  <1>5. CASE \E c \in Callers : TakeLock(c)  BY <1>5, TakeLockStep
  <1>6. CASE \E c \in Callers : Acquire(c)  BY <1>6, AcquireStep
  <1>7. CASE \E c \in Callers : Cancel(c)  BY <1>7, CancelStep
  <1>8. CASE CleanUp \/ Tick \/ UNCHANGED vars
    <2>1. UNCHANGED <<pc, owner, queue>>  BY <1>8 DEF CleanUp, Tick, vars, lock, taskVars
    <2> QED  BY <2>1, KeepsLine DEF Waiting
  <1> QED  BY <1>2, <1>3, <1>4, <1>5, <1>6, <1>7, <1>8 DEF Next

LEMMA InitFair == Init => LineExact /\ Fair!Init
  BY DEF Init, LineExact, InLine, Waiting, Before, Fair!Init

LEMMA LineInvariance == Spec => [](IInv /\ TypeInv /\ LineExact)
  BY InitIInv, NextIInv, InitTypeInv, NextTypeInv, InitFair, NextFairStep, PTL
     DEF Spec, FairStep

\* Exactly the waiting tasks stand in the line, each once.  So a free lock is
\* always the next waiter's to take: whoever holds it may fail or be cancelled
\* at any moment, and no waiter is forgotten.
THEOREM LineIsExact == Spec => []LineExact
  BY LineInvariance, PTL

\* The lock around the requests to Nominatim is served in the order in which
\* the tasks came, whoever of them is cancelled.
THEOREM LockIsFair == Spec => Fair!Spec
  <1>1. IInv /\ TypeInv /\ LineExact /\ [Next]_vars => [Fair!Next]_(Fair!lockVars)
    BY NextFairStep DEF FairStep
  <1>2. Init => Fair!Init  BY InitFair
  <1> QED  BY <1>1, <1>2, LineInvariance, PTL DEF Spec, Fair!Spec
-----------------------------------------------------------------------------
(* Nobody keeps the lock for many steps.                                   *)

\* The pauses that may still come after the n-th attempt.
Pauses(n) == CASE n = 1 -> 3 * Second [] n = 2 -> 2 * Second [] OTHER -> 0

\* How many steps of its own the holder may take at most before it lets the lock
\* go: where it stands, its delay and its attempts.  The ticks of its sleeps
\* count, those that pass during a fetch do not.
Left(where, d, n) ==
    CASE where = "sleeping" -> d + Pauses(n + 1) + 2 * (MaxAttempts - n)
      [] where = "fetching" -> Pauses(n) + 2 * (MaxAttempts - n) + 1
      [] OTHER -> 0

Remaining(c) == Left(pc[c], delay[c], attempt[c])

Holds == Second + Pauses(1) + 2 * MaxAttempts

HoldStep(c) ==
    owner' = c =>
        /\ Remaining(c)' \in Nat
        /\ owner # c => Remaining(c)' <= Holds
        /\ owner = c => Remaining(c)' <= Remaining(c)
        /\ owner = c /\ (pc'[c] # pc[c] \/ delay'[c] # delay[c]) =>
               Remaining(c)' < Remaining(c)

\* Whoever gets the lock may take Holds steps with it: each of them, a tick of
\* its sleep, its end, an attempt that fails, leaves at least one step less,
\* and nothing that others do leaves it more.
HoldRunsDown == [][\A c \in Callers : HoldStep(c)]_vars

LEMMA LeftType ==
    ASSUME NEW where, NEW d \in Nat, NEW n \in 0..MaxAttempts
    PROVE  Left(where, d, n) \in Nat
  <1>1. Pauses(n + 1) \in Nat /\ Pauses(n) \in Nat  BY TimesAssumption DEF Pauses, MaxAttempts
  <1> QED  BY <1>1 DEF Left, MaxAttempts

LEMMA RemainingType ==
    ASSUME TypeInv, NEW c \in Callers
    PROVE  Remaining(c) \in Nat
  <1>1. attempt[c] \in 0..MaxAttempts /\ delay[c] \in Nat
    BY TimesAssumption DEF TypeInv, TypeOK
  <1> QED  BY <1>1, LeftType DEF Remaining

LEMMA RemainingNext ==
    ASSUME TypeInv, [Next]_vars, NEW c \in Callers
    PROVE  Remaining(c)' \in Nat
  <1>1. TypeInv'  BY NextTypeInv
  <1>2. attempt'[c] \in 0..MaxAttempts /\ delay'[c] \in Nat
    BY <1>1, TimesAssumption DEF TypeInv, TypeOK
  <1> QED  BY <1>2, LeftType DEF Remaining

LEMMA NextHoldStep ==
    ASSUME IInv, TypeInv, [Next]_vars, NEW c \in Callers, owner' = c
    PROVE  /\ owner # c => Remaining(c)' <= Holds
           /\ owner = c => Remaining(c)' <= Remaining(c)
           /\ owner = c /\ (pc'[c] # pc[c] \/ delay'[c] # delay[c]) =>
                  Remaining(c)' < Remaining(c)
  <1>0. /\ c # NoCaller /\ Second \in Nat \ {0}
        /\ pc[c] \in PCs /\ delay[c] \in 0..2 * Second /\ attempt[c] \in 0..3
        /\ pc \in [Callers -> PCs] /\ delay \in [Callers -> 0..2 * Second]
        /\ attempt \in [Callers -> 0..3]
        /\ pc[c] \in {"sleeping", "fetching"} <=> owner = c
    BY NoCallerAssumption, TimesAssumption
       DEF TypeInv, TypeOK, MaxAttempts, IInv, OneAtATime
  <1>1. ASSUME NEW d \in Callers, d # c,
               \/ \E p \in Places : LookUp(d, p) \/ LookUpFails(d, p)
               \/ DeleteExpired(d) \/ TakeLock(d) \/ Acquire(d) \/ WakeUp(d)
               \/ Answer(d) \/ Retry(d) \/ GiveUp(d) \/ Store(d) \/ Cancel(d)
        PROVE  /\ owner = c
               /\ pc'[c] = pc[c] /\ delay'[c] = delay[c] /\ attempt'[c] = attempt[c]
    <2>1. owner = c
      BY <1>0, <1>1
         DEF LookUp, LookUpFails, DeleteExpired, TakeLock, Acquire, Paced, WakeUp, Answer,
             Retry, GiveUp, Release, Store, Cancel, lock
    <2>2. pc'[c] = pc[c]
      BY <1>0, <1>1
         DEF LookUp, LookUpFails, DeleteExpired, TakeLock, Acquire, Paced, WakeUp, Fetching,
             Answer, Retry, GiveUp, Store, Cancel, GoTo
    <2>3. delay'[c] = delay[c] /\ attempt'[c] = attempt[c]
      BY <1>0, <1>1
         DEF LookUp, LookUpFails, DeleteExpired, TakeLock, Acquire, Paced, WakeUp, Fetching,
             Answer, Retry, GiveUp, Release, Store, Cancel
    <2> QED  BY <2>1, <2>2, <2>3
  <1>2. ASSUME pc'[c] = pc[c], delay'[c] = delay[c], attempt'[c] = attempt[c], owner = c
        PROVE  Remaining(c)' = Remaining(c)
    BY <1>2 DEF Remaining
  <1>3. ASSUME Paced(c), owner = NoCaller PROVE Remaining(c)' <= Holds /\ owner # c
    <2>1. attempt[c] = 0 /\ Wait(sinceAnswer) \in 0..Second
      BY <1>0, <1>3 DEF TypeInv, TypeOK, AttemptsLeft, Wait
    <2>2. \/ pc'[c] = "sleeping" /\ delay'[c] \in 0..Second /\ attempt'[c] = 0
          \/ pc'[c] = "fetching" /\ attempt'[c] = 1
      BY <1>0, <1>3, <2>1 DEF Paced, Fetching, GoTo
    <2> QED  BY <1>0, <1>3, <2>2 DEF Remaining, Left, Holds, Pauses, MaxAttempts
  <1>4. ASSUME WakeUp(c) PROVE owner = c /\ Remaining(c)' < Remaining(c)
    <2>1. /\ pc[c] = "sleeping" /\ delay[c] = 0 /\ attempt[c] \in 0..2 /\ owner = c
          /\ pc'[c] = "fetching" /\ attempt'[c] = attempt[c] + 1
      BY <1>0, <1>4 DEF WakeUp, Fetching, GoTo, TypeInv, AttemptsLeft, MaxAttempts
    <2>2. Pauses(attempt[c] + 1) \in Nat  BY <1>0, <2>1 DEF Pauses
    <2> QED  BY <2>1, <2>2 DEF Remaining, Left, MaxAttempts
  <1>5. ASSUME Retry(c) PROVE owner = c /\ Remaining(c)' < Remaining(c)
    <2>1. /\ pc[c] = "fetching" /\ attempt[c] \in 1..2 /\ owner = c
          /\ pc'[c] = "sleeping" /\ delay'[c] = RetryDelay(attempt[c]) /\ attempt'[c] = attempt[c]
      BY <1>0, <1>5 DEF Retry, GoTo, TypeInv, AttemptsLeft, MaxAttempts
    <2> QED  BY <1>0, <2>1 DEF Remaining, Left, Pauses, RetryDelay, MaxAttempts
  <1>6. CASE Tick
    <2>1. /\ owner = c /\ pc'[c] = pc[c] /\ attempt'[c] = attempt[c]
          /\ delay'[c] = delay[c] \/ (delay[c] > 0 /\ delay'[c] = delay[c] - 1)
      BY <1>0, <1>6 DEF Tick, lock, Less
    <2>2. CASE delay'[c] = delay[c]  BY <1>0, <1>2, <2>1, <2>2, RemainingType
    <2>3. CASE delay'[c] = delay[c] - 1 /\ pc[c] = "sleeping"
      <3>1. Pauses(attempt[c] + 1) \in Nat  BY <1>0 DEF Pauses
      <3> QED  BY <1>0, <2>1, <2>3, <3>1 DEF Remaining, Left, MaxAttempts
    <2>4. CASE delay[c] > 0 /\ pc[c] = "fetching"
      BY <1>0, <2>4 DEF TypeInv, AttemptsLeft
    <2> QED  BY <1>0, <2>1, <2>2, <2>3, <2>4
  <1>7. CASE CleanUp \/ UNCHANGED vars
    <2>1. owner = c /\ UNCHANGED <<pc, delay, attempt>>
      BY <1>7 DEF CleanUp, vars, lock, taskVars
    <2> QED  BY <1>2, <2>1, RemainingType
  <1>8. ASSUME TakeLock(c) \/ Acquire(c) PROVE Remaining(c)' <= Holds /\ owner # c
    BY <1>0, <1>3, <1>8 DEF TakeLock, Acquire
  <1>9. ASSUME \/ \E p \in Places : LookUp(c, p) \/ LookUpFails(c, p)
               \/ DeleteExpired(c) \/ Answer(c) \/ GiveUp(c) \/ Store(c) \/ Cancel(c)
        PROVE  FALSE
    BY <1>0, <1>9
       DEF LookUp, LookUpFails, DeleteExpired, Answer, GiveUp, Release, Store, Cancel, lock
  <1>10. CASE \E d \in Callers : d # c /\
               (\/ \E p \in Places : LookUp(d, p) \/ LookUpFails(d, p)
                \/ DeleteExpired(d) \/ TakeLock(d) \/ Acquire(d) \/ WakeUp(d)
                \/ Answer(d) \/ Retry(d) \/ GiveUp(d) \/ Store(d) \/ Cancel(d))
    <2>1. owner = c /\ pc'[c] = pc[c] /\ delay'[c] = delay[c] /\ attempt'[c] = attempt[c]
      BY <1>1, <1>10
    <2> QED  BY <1>2, <2>1, RemainingType
  <1>11. CASE \E p \in Places : LookUp(c, p) \/ LookUpFails(c, p)  BY <1>9, <1>11
  <1>12. CASE WakeUp(c) \/ Retry(c)  BY <1>4, <1>5, <1>12, RemainingType, RemainingNext
  <1>13. CASE DeleteExpired(c) \/ Answer(c) \/ GiveUp(c) \/ Store(c) \/ Cancel(c)
    BY <1>9, <1>13
  <1>14. CASE TakeLock(c) \/ Acquire(c)  BY <1>8, <1>14
  <1> QED
    BY <1>6, <1>7, <1>10, <1>11, <1>12, <1>13, <1>14 DEF Next

\* Whoever has the lock lets it go after three attempts and the pauses between
\* them at most.  How long a fetch takes is not bounded here; that it ends is
\* fairness, with which every task behind the lock is served in the end.
THEOREM LockIsHeldBriefly == Spec => HoldRunsDown
  <1>1. ASSUME IInv, TypeInv, [Next]_vars, NEW c \in Callers PROVE HoldStep(c)
    <2>1. Remaining(c)' \in Nat  BY <1>1, RemainingNext
    <2> QED  BY <1>1, <2>1, NextHoldStep DEF HoldStep
  <1>2. Spec => [](IInv /\ TypeInv)
    BY InitIInv, NextIInv, InitTypeInv, NextTypeInv, PTL DEF Spec
  <1>3. IInv /\ TypeInv /\ [Next]_vars => [\A c \in Callers : HoldStep(c)]_vars
    BY <1>1
  <1> QED  BY <1>2, <1>3, PTL DEF Spec, HoldRunsDown
=============================================================================
