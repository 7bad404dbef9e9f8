-------------------------------- MODULE Cache --------------------------------
(***************************************************************************)
(* The cache of app/cache: tasks that share one SQLite connection, the     *)
(* cleanup task of the server, and the migrations at every start, with     *)
(* crashes in between.                                                     *)
(*                                                                         *)
(* The first INSERT or DELETE opens a transaction on the connection, into  *)
(* which everybody's changes go until anybody commits; nothing in the code *)
(* rolls it back.  The connection's thread executes what tasks hand it in  *)
(* that order, also for a task that has been cancelled since: a statement  *)
(* is executed by the step that awaits it.                                 *)
(***************************************************************************)
EXTENDS Integers

CONSTANTS Callers,       \* tasks that read and write the cache
          Keys,
          Values,
          NoRow,
          Ttl,           \* ticks that a value with a time to live is kept
          LastVersion    \* migrations 1, 2, ... that any release brings

ASSUME NoRowAssumption == NoRow \notin [value : Values, left : Int]
ASSUME BoundsAssumption == Ttl \in Nat /\ LastVersion \in Nat \ {0}

VARIABLES disk,          \* what has been committed
          conn,          \* what the connection sees
          phase,         \* where CacheStore.init stands
          known,         \* how many migrations the running release has
          pc,            \* where each task stands
          key,           \* the key it is about
          fetched,       \* the row it has read
          cleaner,       \* where cleanup_expired stands
          life           \* history: for how long a value put under a key may
                         \* still be served

taskVars == <<pc, key, fetched>>
vars == <<disk, conn, phase, known, taskVars, cleaner, life>>

\* expires_at as the time left: the code takes a row as valid in the very
\* moment of its end, and expires_at IS NULL as no end at all.
Expired == -1
Forever == Ttl + 1
Lives == Expired..Forever

Rows == [value : Values, left : Lives]
Versions == 1..LastVersion

\* rows of the table cache; versions whose script has been run; versions
\* with a row in schema_version.
Databases == [rows : [Keys -> Rows \cup {NoRow}],
              schema : SUBSET Versions, recorded : SUBSET Versions]

Phases == {"down", "migrating", "scripted", "recorded", "serving"}
PCs == {"idle", "reading", "writing"}

Empty == [rows |-> [k \in Keys |-> NoRow], schema |-> {}, recorded |-> {}]

Init ==
    /\ disk = Empty /\ conn = Empty
    /\ phase = "down" /\ known = 1
    /\ pc = [c \in Callers |-> "idle"]
    /\ key \in [Callers -> Keys]
    /\ fetched = [c \in Callers |-> NoRow]
    /\ cleaner = "asleep"
    /\ life = [k \in Keys |-> [v \in Values |-> Expired]]

CommitSucceeds == disk' = conn /\ UNCHANGED conn

\* A failed statement or COMMIT leaves the transaction open, or SQLite has
\* rolled it back.
Fails == conn' \in {conn, disk} /\ UNCHANGED disk
-----------------------------------------------------------------------------
(* CacheStore.init and run_migrations *)

serviceVars == <<known, taskVars, cleaner, life>>

\* The process starts, perhaps as a newer release.
Connect ==
    /\ phase = "down"
    /\ known' \in known..LastVersion
    /\ phase' = "migrating"
    /\ UNCHANGED <<disk, conn, taskVars, cleaner, life>>

\* Fault: the last migration is left out.
PendingButLast == 1..(known - 1) \ conn.recorded

Pending == 1..known \ conn.recorded

\* Migrations run in the order of their numbers.
NextUp(v) == v \in Pending /\ \A w \in Pending : v <= w

\* Every statement of executescript takes effect on disk at once.
RunScript ==
    /\ phase = "migrating"
    /\ \E v \in Versions :
          /\ NextUp(v)
          /\ disk' = [disk EXCEPT !.schema = @ \cup {v}]
          /\ conn' = [conn EXCEPT !.schema = @ \cup {v}]
    /\ phase' = "scripted"
    /\ UNCHANGED serviceVars

\* Fault: one migration's version is recorded for all that are pending.
RecordAll ==
    /\ phase = "scripted"
    /\ conn' = [conn EXCEPT !.recorded = @ \cup Pending]
    /\ phase' = "recorded"
    /\ UNCHANGED <<disk, serviceVars>>

Record ==
    /\ phase = "scripted"
    /\ \E v \in Versions :
          NextUp(v) /\ conn' = [conn EXCEPT !.recorded = @ \cup {v}]
    /\ phase' = "recorded"
    /\ UNCHANGED <<disk, serviceVars>>

CommitVersion ==
    /\ phase = "recorded"
    /\ CommitSucceeds
    /\ phase' = "migrating"
    /\ UNCHANGED serviceVars

Ready ==
    /\ phase = "migrating" /\ Pending = {}
    /\ phase' = "serving"
    /\ UNCHANGED <<disk, conn, serviceVars>>

\* The process is killed, a migration fails, or the connection is closed at
\* shutdown: what has not been committed is gone.
Stop ==
    /\ phase # "down"
    /\ phase' = "down"
    /\ conn' = disk
    /\ pc' = [c \in Callers |-> "idle"]
    /\ fetched' = [c \in Callers |-> NoRow]
    /\ cleaner' = "asleep"
    /\ UNCHANGED <<disk, known, key, life>>
-----------------------------------------------------------------------------
(* CacheStore.get *)

Goes(c, where) == pc' = [pc EXCEPT ![c] = where]
Serving(c, where) == phase = "serving" /\ pc[c] = where

\* The SELECT; if it fails get returns None, which changes nothing.
Get(c, k) ==
    /\ Serving(c, "idle")
    /\ Goes(c, "reading")
    /\ key' = [key EXCEPT ![c] = k]
    /\ fetched' = [fetched EXCEPT ![c] = conn.rows[k]]
    /\ UNCHANGED <<disk, conn, phase, known, cleaner, life>>

\* Fault: expires_at is not looked at.
OutdatedNever(row) == FALSE

\* Whether a row has expired by now, the moment its reader goes on.
Outdated(row) == row.left = Expired

Forget(c) == fetched' = [fetched EXCEPT ![c] = NoRow]

Miss(c) ==
    /\ Serving(c, "reading") /\ fetched[c] = NoRow
    /\ Goes(c, "idle")
    /\ UNCHANGED <<disk, conn, phase, known, key, fetched, cleaner, life>>

Hit(c) ==
    /\ Serving(c, "reading") /\ fetched[c] # NoRow /\ ~Outdated(fetched[c])
    /\ Goes(c, "idle") /\ Forget(c)
    /\ UNCHANGED <<disk, conn, phase, known, key, cleaner, life>>

\* The row is deleted by its key, whatever is there by now.
DeleteExpired(c) ==
    /\ Serving(c, "reading") /\ fetched[c] # NoRow /\ Outdated(fetched[c])
    /\ Forget(c)
    /\ \/ conn' = [conn EXCEPT !.rows[key[c]] = NoRow] /\ UNCHANGED disk /\ Goes(c, "writing")
       \/ Fails /\ Goes(c, "idle")
    /\ UNCHANGED <<phase, known, key, cleaner, life>>
-----------------------------------------------------------------------------
(* CacheStore.set and cleanup_expired *)

\* Fault: seconds are taken for days.
LifetimesInDays == {Ttl * 86400, Forever}

\* With and without a time to live.
Lifetimes == {Ttl, Forever}

Set(c, k, v) ==
    /\ Serving(c, "idle")
    /\ key' = [key EXCEPT ![c] = k]
    /\ \/ \E t \in Lifetimes :
             /\ conn' = [conn EXCEPT !.rows[k] = [value |-> v, left |-> t]]
             /\ life' = [life EXCEPT ![k][v] = IF @ < t THEN t ELSE @]
             /\ Goes(c, "writing")
             /\ UNCHANGED disk
       \/ Fails /\ UNCHANGED <<pc, life>>
    /\ UNCHANGED <<phase, known, fetched, cleaner>>

\* The commit after the DELETE of get or the INSERT of set.
Commit(c) ==
    /\ Serving(c, "writing")
    /\ CommitSucceeds \/ Fails
    /\ Goes(c, "idle")
    /\ UNCHANGED <<phase, known, key, fetched, cleaner, life>>

\* The request's timeout or a disconnected client.  Between statement and
\* COMMIT it leaves the transaction to whoever commits next.
Cancel(c) ==
    /\ pc[c] # "idle"
    /\ Goes(c, "idle") /\ Forget(c)
    /\ UNCHANGED <<disk, conn, phase, known, key, cleaner, life>>

CleanUp ==
    /\ phase = "serving" /\ cleaner = "asleep"
    /\ conn' = [conn EXCEPT !.rows =
                   [k \in Keys |-> IF @[k] # NoRow /\ Outdated(@[k]) THEN NoRow ELSE @[k]]]
    /\ cleaner' = "writing"
    /\ UNCHANGED <<disk, phase, known, taskVars, life>>

\* Fault: the cleanup does not commit.
CleanUpCommitMissing ==
    /\ phase = "serving" /\ cleaner = "writing"
    /\ cleaner' = "asleep"
    /\ UNCHANGED <<disk, conn, phase, known, taskVars, life>>

CleanUpCommit ==
    /\ phase = "serving" /\ cleaner = "writing"
    /\ CommitSucceeds
    /\ cleaner' = "asleep"
    /\ UNCHANGED <<phase, known, taskVars, life>>

\* Its DELETE or its COMMIT fails, which is logged.
CleanUpFails ==
    /\ phase = "serving"
    /\ Fails
    /\ cleaner' = "asleep"
    /\ UNCHANGED <<phase, known, taskVars, life>>
-----------------------------------------------------------------------------
Older(t) == IF t \in 0..Ttl THEN t - 1 ELSE t
OlderRow(row) == IF row = NoRow THEN NoRow ELSE [row EXCEPT !.left = Older(@)]
OlderRows(rows) == [k \in Keys |-> OlderRow(rows[k])]

Tick ==
    /\ disk' = [disk EXCEPT !.rows = OlderRows(@)]
    /\ conn' = [conn EXCEPT !.rows = OlderRows(@)]
    /\ fetched' = [c \in Callers |-> OlderRow(fetched[c])]
    /\ life' = [k \in Keys |-> [v \in Values |-> Older(life[k][v])]]
    /\ UNCHANGED <<phase, known, pc, key, cleaner>>

Next ==
    \/ Connect \/ RunScript \/ Record \/ CommitVersion \/ Ready \/ Stop
    \/ \E c \in Callers :
          \/ \E k \in Keys : Get(c, k) \/ \E v \in Values : Set(c, k, v)
          \/ Miss(c) \/ Hit(c) \/ DeleteExpired(c) \/ Commit(c) \/ Cancel(c)
    \/ CleanUp \/ CleanUpCommit \/ CleanUpFails
    \/ Tick

\* A start-up that has come to its COMMIT goes on, and the cleanup task's
\* statements do not fail every time.  Nothing is promised about the tasks.
Fairness == WF_vars(CommitVersion) /\ SF_vars(CleanUp) /\ SF_vars(CleanUpCommit)

Spec == Init /\ [][Next]_vars /\ Fairness
-----------------------------------------------------------------------------
TypeOK ==
    /\ disk \in Databases /\ conn \in Databases
    /\ phase \in Phases /\ known \in Versions
    /\ pc \in [Callers -> PCs] /\ key \in [Callers -> Keys]
    /\ fetched \in [Callers -> Rows \cup {NoRow}]
    /\ cleaner \in {"asleep", "writing"}
    /\ life \in [Keys -> [Values -> Lives]]

\* Wherever a start-up was killed, a version is recorded only after its script
\* has been run and after all versions before it.
RecordedIsApplied ==
    \A v \in disk.recorded : v \in disk.schema /\ 1..v \subseteq disk.recorded

\* A process serves only on a schema to which, on disk, every migration of
\* its release has been applied.
ServesMigrated == phase = "serving" => 1..known \subseteq disk.schema \cap disk.recorded

\* A value that is served was put under that key and its time has not run out,
\* although its row was read earlier, may have been replaced, deleted or rolled
\* back since, and may have come back with a restart.
HonestHits == [][\A c \in Callers : Hit(c) => life[key[c]][fetched[c].value] # Expired]_vars

\* A transaction that was left open by a cancelled task or a failed commit
\* does not stay open forever: the cleanup task's commit ends it at the latest.
Settles == conn # disk ~> conn = disk
=============================================================================
