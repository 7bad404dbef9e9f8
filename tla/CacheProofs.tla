----------------------------- MODULE CacheProofs -----------------------------
(***************************************************************************)
(* The safety of Cache for all tasks, keys and values, every time to live  *)
(* and any number of migrations, with crashes anywhere.                    *)
(***************************************************************************)
EXTENDS Cache, FiniteSetTheorems, TLAPS

\* Versions recorded in db have been run, and all before them are recorded.
InOrder(db) ==
    \A v \in db.recorded : v \in db.schema /\ \A w \in Versions : w <= v => w \in db.recorded

\* What the connection sees of the schema is what is on disk, except for the
\* version that is recorded and not yet committed.
SchemaInv ==
    /\ conn.schema = disk.schema
    /\ disk.recorded \subseteq conn.recorded
    /\ phase # "recorded" => conn.recorded = disk.recorded
    /\ InOrder(disk) /\ InOrder(conn)
    /\ phase = "scripted" => \A v \in Versions : NextUp(v) => v \in conn.schema
    /\ phase = "serving" => Pending = {}

\* A row of key k has no longer to live than its value may be served.
Lasting(row, k) == row # NoRow => row.left <= life[k][row.value]

\* That holds of every copy of a row: on disk, in the open transaction and in
\* the hands of its readers.
LifeInv ==
    /\ \A k \in Keys : Lasting(disk.rows[k], k) /\ Lasting(conn.rows[k], k)
    /\ \A c \in Callers : Lasting(fetched[c], key[c])
    /\ \A c \in Callers : pc[c] # "reading" => fetched[c] = NoRow

IInv == TypeOK /\ SchemaInv /\ LifeInv

LEMMA InitIInv == Init => IInv
  <1> SUFFICES ASSUME Init PROVE IInv  OBVIOUS
  <1>1. Empty \in Databases  BY DEF Empty, Databases
  <1>2. 1 \in Versions  BY BoundsAssumption DEF Versions
  <1>3. TypeOK
    BY <1>1, <1>2, BoundsAssumption DEF Init, TypeOK, Phases, PCs, Lives, Expired, Forever
  <1>4. SchemaInv  BY DEF Init, SchemaInv, InOrder, Empty
  <1>5. LifeInv  BY DEF Init, LifeInv, Lasting, Empty
  <1> QED  BY <1>3, <1>4, <1>5 DEF IInv

\* Commits and failures move whole databases, so that whatever holds of both
\* of them still does; the schema of both is the same outside of a start-up.
LEMMA Moved ==
    ASSUME IInv, phase # "recorded", CommitSucceeds \/ Fails,
           UNCHANGED <<phase, known, key, life>>,
           pc' \in [Callers -> PCs], fetched' \in [Callers -> Rows \cup {NoRow}],
           cleaner' \in {"asleep", "writing"},
           \A c \in Callers : fetched'[c] \in {fetched[c], NoRow},
           \A c \in Callers : pc'[c] # "reading" => fetched'[c] = NoRow
    PROVE  IInv'
  <1>1. disk' \in {disk, conn} /\ conn' \in {disk, conn}  BY DEF CommitSucceeds, Fails
  <1>2. TypeOK'  BY <1>1 DEF IInv, TypeOK
  <1>3. SchemaInv'
    BY <1>1 DEF IInv, SchemaInv, InOrder, NextUp, Pending
  <1>4. LifeInv'  BY <1>1 DEF IInv, LifeInv, Lasting
  <1> QED  BY <1>2, <1>3, <1>4 DEF IInv

\* A statement changes rows of the connection and leaves the schema alone.
LEMMA RowsChanged ==
    ASSUME IInv, phase = "serving", NEW rows \in [Keys -> Rows \cup {NoRow}],
           conn' = [conn EXCEPT !.rows = rows],
           UNCHANGED <<disk, phase, known>>
    PROVE  SchemaInv' /\ conn' \in Databases /\ conn'.rows = rows
  <1>1. conn \in Databases  BY DEF IInv, TypeOK
  <1>2. /\ conn'.schema = conn.schema /\ conn'.recorded = conn.recorded
        /\ conn'.rows = rows /\ conn' \in Databases
    BY <1>1 DEF Databases
  <1> QED  BY <1>2 DEF IInv, SchemaInv, InOrder, NextUp, Pending

LEMMA StartUpIInv ==
    ASSUME IInv, Connect \/ RunScript \/ Record \/ CommitVersion \/ Ready PROVE IInv'
  <1>0. conn \in Databases /\ disk \in Databases /\ known \in Versions
    BY DEF IInv, TypeOK
  <1>1. CASE Connect
    <2>1. known' \in Versions
      BY <1>0, <1>1, BoundsAssumption DEF Connect, Versions
    <2>2. TypeOK'  BY <1>1, <2>1 DEF IInv, TypeOK, Connect, Phases, taskVars
    <2>3. SchemaInv'  BY <1>1 DEF IInv, SchemaInv, Connect, InOrder
    <2>4. LifeInv'  BY <1>1 DEF IInv, LifeInv, Lasting, Connect, taskVars
    <2> QED  BY <2>2, <2>3, <2>4 DEF IInv
  <1>2. CASE RunScript
    <2>1. PICK v \in Versions :
            /\ NextUp(v)
            /\ disk' = [disk EXCEPT !.schema = @ \cup {v}]
            /\ conn' = [conn EXCEPT !.schema = @ \cup {v}]
      BY <1>2 DEF RunScript
    <2>2. /\ disk' \in Databases /\ conn' \in Databases
          /\ disk'.rows = disk.rows /\ conn'.rows = conn.rows
          /\ disk'.recorded = disk.recorded /\ conn'.recorded = conn.recorded
          /\ disk'.schema = disk.schema \cup {v} /\ conn'.schema = conn.schema \cup {v}
      BY <1>0, <2>1 DEF Databases
    <2>3. TypeOK'
      BY <1>2, <2>2 DEF IInv, TypeOK, RunScript, serviceVars, taskVars, Phases
    <2>4. \A w \in Versions : NextUp(w)' => w = v
      BY <1>2, <2>1, <2>2, <1>0
         DEF NextUp, Pending, RunScript, serviceVars, Versions
    <2>5. SchemaInv'
      BY <1>2, <2>2, <2>4 DEF IInv, SchemaInv, InOrder, RunScript
    <2>6. LifeInv'
      BY <1>2, <2>2 DEF IInv, LifeInv, Lasting, RunScript, serviceVars, taskVars
    <2> QED  BY <2>3, <2>5, <2>6 DEF IInv
  <1>3. CASE Record
    <2>1. PICK v \in Versions :
            NextUp(v) /\ conn' = [conn EXCEPT !.recorded = @ \cup {v}]
      BY <1>3 DEF Record
    <2>2. /\ conn' \in Databases /\ conn'.rows = conn.rows /\ conn'.schema = conn.schema
          /\ conn'.recorded = conn.recorded \cup {v}
      BY <1>0, <2>1 DEF Databases
    <2>3. TypeOK'
      BY <1>3, <2>2 DEF IInv, TypeOK, Record, serviceVars, taskVars, Phases
    <2>4. v \in conn.schema  BY <1>3, <2>1 DEF IInv, SchemaInv, Record
    <2>5. \A w \in Versions : w <= v => w \in conn.recorded \cup {v}
      BY <2>1, <1>0 DEF NextUp, Pending, Versions
    <2>6. InOrder(conn)'  BY <2>2, <2>4, <2>5 DEF IInv, SchemaInv, InOrder
    <2>7. SchemaInv'  BY <1>3, <2>2, <2>6 DEF IInv, SchemaInv, Record, InOrder
    <2>8. LifeInv'
      BY <1>3, <2>2 DEF IInv, LifeInv, Lasting, Record, serviceVars, taskVars
    <2> QED  BY <2>3, <2>7, <2>8 DEF IInv
  <1>4. CASE CommitVersion
    <2>1. TypeOK'
      BY <1>4 DEF IInv, TypeOK, CommitVersion, CommitSucceeds, serviceVars, taskVars, Phases
    <2>2. SchemaInv'
      BY <1>4 DEF IInv, SchemaInv, InOrder, CommitVersion, CommitSucceeds
    <2>3. LifeInv'
      BY <1>4 DEF IInv, LifeInv, Lasting, CommitVersion, CommitSucceeds, serviceVars, taskVars
    <2> QED  BY <2>1, <2>2, <2>3 DEF IInv
  <1>5. CASE Ready
    <2>1. TypeOK'  BY <1>5 DEF IInv, TypeOK, Ready, serviceVars, taskVars, Phases
    <2>2. SchemaInv'
      BY <1>5 DEF IInv, SchemaInv, InOrder, Ready, Pending, serviceVars
    <2>3. LifeInv'  BY <1>5 DEF IInv, LifeInv, Lasting, Ready, serviceVars, taskVars
    <2> QED  BY <2>1, <2>2, <2>3 DEF IInv
  <1> QED  BY <1>1, <1>2, <1>3, <1>4, <1>5

LEMMA StopIInv == ASSUME IInv, Stop PROVE IInv'
  <1>1. TypeOK'  BY DEF IInv, TypeOK, Stop, Phases, PCs
  <1>2. SchemaInv'  BY DEF IInv, SchemaInv, InOrder, Stop
  <1>3. LifeInv'  BY DEF IInv, LifeInv, Lasting, Stop
  <1> QED  BY <1>1, <1>2, <1>3 DEF IInv

LEMMA GetIInv ==
    ASSUME IInv, NEW c \in Callers, NEW k \in Keys, Get(c, k) PROVE IInv'
  <1>1. conn.rows[k] \in Rows \cup {NoRow}  BY DEF IInv, TypeOK, Databases
  <1>2. TypeOK'  BY <1>1 DEF IInv, TypeOK, Get, Goes, PCs
  <1>3. SchemaInv'  BY DEF IInv, SchemaInv, InOrder, Get, NextUp, Pending
  <1>4. ASSUME NEW d \in Callers
        PROVE  /\ Lasting(fetched[d], key[d])'
               /\ pc'[d] # "reading" => fetched'[d] = NoRow
    <2>1. CASE d = c  BY <2>1 DEF IInv, TypeOK, LifeInv, Lasting, Get, Goes
    <2>2. CASE d # c  BY <2>2 DEF IInv, TypeOK, LifeInv, Lasting, Get, Goes
    <2> QED  BY <2>1, <2>2
  <1>5. LifeInv'  BY <1>4 DEF IInv, LifeInv, Lasting, Get
  <1> QED  BY <1>2, <1>3, <1>5 DEF IInv

\* A task that ends, with whatever it has read.
LEMMA EndIInv ==
    ASSUME IInv, NEW c \in Callers, Miss(c) \/ Hit(c) \/ Cancel(c) PROVE IInv'
  <1>1. /\ pc' = [pc EXCEPT ![c] = "idle"]
        /\ \/ fetched' = [fetched EXCEPT ![c] = NoRow]
           \/ fetched' = fetched /\ fetched[c] = NoRow
        /\ UNCHANGED <<disk, conn, phase, known, key, cleaner, life>>
    BY DEF Miss, Hit, Cancel, Goes, Forget
  <1>2. TypeOK'  BY <1>1 DEF IInv, TypeOK, PCs
  <1>3. SchemaInv'  BY <1>1 DEF IInv, SchemaInv, InOrder, NextUp, Pending
  <1>4. LifeInv'  BY <1>1 DEF IInv, TypeOK, LifeInv, Lasting
  <1> QED  BY <1>2, <1>3, <1>4 DEF IInv

LEMMA DeleteExpiredIInv ==
    ASSUME IInv, NEW c \in Callers, DeleteExpired(c) PROVE IInv'
  <1>0. /\ pc' \in [Callers -> PCs] /\ fetched' \in [Callers -> Rows \cup {NoRow}]
        /\ \A d \in Callers : fetched'[d] \in {fetched[d], NoRow}
        /\ \A d \in Callers : pc'[d] # "reading" => fetched'[d] = NoRow
    BY DEF IInv, TypeOK, LifeInv, DeleteExpired, Goes, Forget, PCs
  <1>1. CASE Fails
    BY <1>0, <1>1, Moved DEF DeleteExpired, Serving, IInv, TypeOK
  <1>2. CASE UNCHANGED disk /\ conn' = [conn EXCEPT !.rows[key[c]] = NoRow]
    <2> DEFINE rows == [conn.rows EXCEPT ![key[c]] = NoRow]
    <2>1. rows \in [Keys -> Rows \cup {NoRow}]  BY DEF IInv, TypeOK, Databases
    <2>2. conn' = [conn EXCEPT !.rows = rows]  BY <1>2
    <2>3. SchemaInv' /\ conn' \in Databases /\ conn'.rows = rows
      <3> HIDE DEF rows
      <3> QED  BY <1>2, <2>1, <2>2, RowsChanged DEF DeleteExpired, Serving
    <2>4. TypeOK'  BY <1>0, <1>2, <2>3 DEF IInv, TypeOK, DeleteExpired
    <2>5. \A j \in Keys : conn'.rows[j] \in {conn.rows[j], NoRow}
      BY <2>3 DEF IInv, TypeOK, Databases
    <2>6. LifeInv'
      BY <1>0, <1>2, <2>5 DEF IInv, LifeInv, Lasting, DeleteExpired
    <2> QED  BY <2>3, <2>4, <2>6 DEF IInv
  <1> QED  BY <1>1, <1>2 DEF DeleteExpired

LEMMA SetIInv ==
    ASSUME IInv, NEW c \in Callers, NEW k \in Keys, NEW v \in Values, Set(c, k, v) PROVE IInv'
  <1>0. key' \in [Callers -> Keys] /\ pc' \in [Callers -> PCs]
    BY DEF IInv, TypeOK, Set, Goes, PCs
  <1>1. fetched[c] = NoRow  BY DEF IInv, LifeInv, Set, Serving
  <1>2. \A d \in Callers : d # c => key'[d] = key[d]  BY DEF IInv, TypeOK, Set
  <1>3. CASE Fails /\ UNCHANGED <<pc, life>>
    <2>1. disk' = disk /\ conn' \in {conn, disk}  BY <1>3 DEF Fails
    <2>2. TypeOK'  BY <1>0, <1>3, <2>1 DEF IInv, TypeOK, Set
    <2>3. SchemaInv'
      BY <1>3, <2>1 DEF IInv, SchemaInv, InOrder, NextUp, Pending, Set, Serving
    <2>4. LifeInv'  BY <1>1, <1>2, <1>3, <2>1 DEF IInv, LifeInv, Lasting, Set
    <2> QED  BY <2>2, <2>3, <2>4 DEF IInv
  <1>4. ASSUME NEW t \in Lifetimes,
               conn' = [conn EXCEPT !.rows[k] = [value |-> v, left |-> t]],
               life' = [life EXCEPT ![k][v] = IF @ < t THEN t ELSE @],
               Goes(c, "writing"), UNCHANGED disk
        PROVE  IInv'
    <2> DEFINE row == [value |-> v, left |-> t]
               rows == [conn.rows EXCEPT ![k] = row]
    <2>1. t \in Lives
      BY BoundsAssumption DEF Lifetimes, Lives, Expired, Forever
    <2>2. row \in Rows  BY <2>1 DEF Rows
    <2>3. rows \in [Keys -> Rows \cup {NoRow}]
      <3> HIDE DEF row
      <3> QED  BY <2>2 DEF IInv, TypeOK, Databases
    <2>4. conn' = [conn EXCEPT !.rows = rows]  BY <1>4
    <2>5. SchemaInv' /\ conn' \in Databases /\ conn'.rows = rows
      <3> HIDE DEF rows
      <3> QED  BY <1>4, <2>3, <2>4, RowsChanged DEF Set, Serving
    <2>6. life' \in [Keys -> [Values -> Lives]]
      BY <1>4, <2>1 DEF IInv, TypeOK
    <2>7. TypeOK'  BY <1>0, <1>4, <2>5, <2>6 DEF IInv, TypeOK, Set
    <2>8. \A j \in Keys, w \in Values : life[j][w] <= life'[j][w]
      BY <1>4, <2>1 DEF IInv, TypeOK, Lives, Expired, Forever
    <2>9. life'[k][v] >= t
      BY <1>4, <2>1 DEF IInv, TypeOK, Lives, Expired, Forever
    <2>10. ASSUME NEW r \in Rows \cup {NoRow}, NEW j \in Keys, Lasting(r, j)
           PROVE  Lasting(r, j)'
      BY <2>6, <2>8, <2>10, BoundsAssumption
         DEF IInv, TypeOK, Lasting, Rows, Lives, Expired, Forever
    <2>11. ASSUME NEW j \in Keys
           PROVE  Lasting(disk.rows[j], j)' /\ Lasting(conn.rows[j], j)'
      <3>1. disk.rows[j] \in Rows \cup {NoRow} /\ conn.rows[j] \in Rows \cup {NoRow}
        BY DEF IInv, TypeOK, Databases
      <3>2. Lasting(disk.rows[j], j)'
        <4>1. Lasting(disk.rows[j], j)  BY DEF IInv, LifeInv
        <4> QED  BY <1>4, <3>1, <4>1, <2>10 DEF Lasting
      <3>3. CASE j = k
        <4>1. conn'.rows[j] = row
          <5> HIDE DEF row
          <5> QED  BY <2>5, <3>3 DEF IInv, TypeOK, Databases
        <4> QED  BY <3>2, <3>3, <4>1, <2>9 DEF Lasting
      <3>4. CASE j # k
        <4>1. conn'.rows[j] = conn.rows[j]
          <5> HIDE DEF row
          <5> QED  BY <2>5, <3>4 DEF IInv, TypeOK, Databases
        <4>2. Lasting(conn.rows[j], j)  BY DEF IInv, LifeInv
        <4> QED  BY <3>1, <3>2, <4>1, <4>2, <2>10 DEF Lasting
      <3> QED  BY <3>3, <3>4
    <2>12. ASSUME NEW d \in Callers
           PROVE  /\ Lasting(fetched[d], key[d])'
                  /\ pc'[d] # "reading" => fetched'[d] = NoRow
      <3>1. fetched' = fetched  BY DEF Set
      <3>2. CASE d = c  BY <1>1, <3>1, <3>2 DEF Lasting
      <3>3. CASE d # c
        <4>1. fetched[d] \in Rows \cup {NoRow} /\ key[d] \in Keys  BY DEF IInv, TypeOK
        <4>2. Lasting(fetched[d], key[d])  BY DEF IInv, LifeInv
        <4>3. Lasting(fetched[d], key[d])'
          BY <1>2, <3>1, <3>3, <4>1, <4>2, <2>10 DEF Lasting
        <4>4. pc'[d] = pc[d]  BY <1>4, <3>3 DEF Goes, IInv, TypeOK
        <4> QED  BY <3>1, <4>3, <4>4 DEF IInv, LifeInv
      <3> QED  BY <3>2, <3>3
    <2>13. LifeInv'  BY <2>11, <2>12 DEF LifeInv
    <2> QED  BY <2>5, <2>7, <2>13 DEF IInv
  <1> QED  BY <1>3, <1>4 DEF Set

LEMMA CommitIInv == ASSUME IInv, NEW c \in Callers, Commit(c) PROVE IInv'
  BY Moved DEF IInv, TypeOK, LifeInv, Commit, Serving, Goes, PCs

LEMMA CleanUpIInv ==
    ASSUME IInv, CleanUp \/ CleanUpCommit \/ CleanUpFails PROVE IInv'
  <1>1. CASE CleanUpCommit \/ CleanUpFails
    BY <1>1, Moved DEF CleanUpCommit, CleanUpFails, IInv, TypeOK, LifeInv, taskVars
  <1>2. CASE CleanUp
    <2> DEFINE rows == [k \in Keys |->
                  IF conn.rows[k] # NoRow /\ Outdated(conn.rows[k]) THEN NoRow ELSE conn.rows[k]]
    <2>1. rows \in [Keys -> Rows \cup {NoRow}]  BY DEF IInv, TypeOK, Databases
    <2>2. conn' = [conn EXCEPT !.rows = rows]  BY <1>2 DEF CleanUp
    <2>3. SchemaInv' /\ conn' \in Databases /\ conn'.rows = rows
      <3> HIDE DEF rows
      <3> QED  BY <1>2, <2>1, <2>2, RowsChanged DEF CleanUp
    <2>4. TypeOK'  BY <1>2, <2>3 DEF IInv, TypeOK, CleanUp, taskVars
    <2>5. \A j \in Keys : conn'.rows[j] \in {conn.rows[j], NoRow}  BY <2>3
    <2>6. LifeInv'  BY <1>2, <2>5 DEF IInv, LifeInv, Lasting, CleanUp, taskVars
    <2> QED  BY <2>3, <2>4, <2>6 DEF IInv
  <1> QED  BY <1>1, <1>2

\* Time takes the same from a row as from the history of its value.
LEMMA Ageing ==
    ASSUME NEW l \in Lives, NEW m \in Lives, l <= m
    PROVE  Older(l) \in Lives /\ Older(l) <= Older(m)
  BY BoundsAssumption DEF Older, Lives, Expired, Forever

LEMMA TickIInv == ASSUME IInv, Tick PROVE IInv'
  <1>0. disk \in Databases /\ conn \in Databases  BY DEF IInv, TypeOK
  <1>1. ASSUME NEW r \in Rows \cup {NoRow} PROVE OlderRow(r) \in Rows \cup {NoRow}
    <2>1. CASE r = NoRow  BY <2>1 DEF OlderRow
    <2>2. CASE r # NoRow
      <3>1. r \in Rows /\ r.left \in Lives /\ r.left <= r.left
        BY <2>2, BoundsAssumption DEF Rows, Lives, Expired, Forever
      <3>2. Older(r.left) \in Lives  BY <3>1, Ageing
      <3> QED  BY <2>2, <3>1, <3>2 DEF OlderRow, Rows
    <2> QED  BY <2>1, <2>2
  <1>2. OlderRows(disk.rows) \in [Keys -> Rows \cup {NoRow}]
        /\ OlderRows(conn.rows) \in [Keys -> Rows \cup {NoRow}]
    BY <1>0, <1>1 DEF OlderRows, Databases
  <1>3. /\ disk' \in Databases /\ conn' \in Databases
        /\ disk'.rows = OlderRows(disk.rows) /\ conn'.rows = OlderRows(conn.rows)
        /\ disk'.schema = disk.schema /\ conn'.schema = conn.schema
        /\ disk'.recorded = disk.recorded /\ conn'.recorded = conn.recorded
    <2> DEFINE dr == OlderRows(disk.rows)
               cr == OlderRows(conn.rows)
    <2>1. disk' = [disk EXCEPT !.rows = dr] /\ conn' = [conn EXCEPT !.rows = cr]
      BY DEF Tick
    <2>2. dr \in [Keys -> Rows \cup {NoRow}] /\ cr \in [Keys -> Rows \cup {NoRow}]
      BY <1>2
    <2> HIDE DEF dr, cr
    <2>3. /\ disk' \in Databases /\ conn' \in Databases /\ disk'.rows = dr /\ conn'.rows = cr
          /\ disk'.schema = disk.schema /\ conn'.schema = conn.schema
          /\ disk'.recorded = disk.recorded /\ conn'.recorded = conn.recorded
      BY <1>0, <2>1, <2>2 DEF Databases
    <2> QED  BY <2>3 DEF dr, cr
  <1>4. life' \in [Keys -> [Values -> Lives]]
    <2>1. \A k \in Keys, v \in Values : Older(life[k][v]) \in Lives
      <3> TAKE k \in Keys, v \in Values
      <3>1. life[k][v] \in Lives /\ life[k][v] <= life[k][v]
        BY BoundsAssumption DEF IInv, TypeOK, Lives, Expired, Forever
      <3> QED  BY <3>1, Ageing
    <2> QED  BY <2>1 DEF Tick
  <1>5. fetched' \in [Callers -> Rows \cup {NoRow}]
    BY <1>1 DEF IInv, TypeOK, Tick
  <1>6. TypeOK'  BY <1>3, <1>4, <1>5 DEF IInv, TypeOK, Tick
  <1>7. SchemaInv'
    BY <1>3 DEF IInv, SchemaInv, InOrder, NextUp, Pending, Tick
  <1>8. ASSUME NEW r \in Rows \cup {NoRow}, NEW j \in Keys, Lasting(r, j)
        PROVE  OlderRow(r) # NoRow => OlderRow(r).left <= life'[j][OlderRow(r).value]
    <2>1. CASE r = NoRow  BY <2>1 DEF OlderRow
    <2>2. CASE r # NoRow
      <3>1. r \in Rows /\ r.left \in Lives /\ r.value \in Values  BY <2>2 DEF Rows
      <3>2. life[j][r.value] \in Lives  BY <3>1 DEF IInv, TypeOK
      <3>3. Older(r.left) <= Older(life[j][r.value])
        BY <1>8, <2>2, <3>1, <3>2, Ageing DEF Lasting
      <3>4. OlderRow(r).left = Older(r.left) /\ OlderRow(r).value = r.value
        BY <2>2, <3>1 DEF OlderRow, Rows
      <3>5. life'[j][r.value] = Older(life[j][r.value])  BY <3>1 DEF Tick
      <3> QED  BY <3>3, <3>4, <3>5
    <2> QED  BY <2>1, <2>2
  <1>9. ASSUME NEW j \in Keys
        PROVE  Lasting(disk.rows[j], j)' /\ Lasting(conn.rows[j], j)'
    <2>1. disk.rows[j] \in Rows \cup {NoRow} /\ conn.rows[j] \in Rows \cup {NoRow}
      BY <1>0 DEF Databases
    <2>2. Lasting(disk.rows[j], j) /\ Lasting(conn.rows[j], j)  BY DEF IInv, LifeInv
    <2>3. disk'.rows[j] = OlderRow(disk.rows[j]) /\ conn'.rows[j] = OlderRow(conn.rows[j])
      BY <1>3 DEF OlderRows
    <2> QED  BY <1>8, <2>1, <2>2, <2>3 DEF Lasting
  <1>10. ASSUME NEW c \in Callers
         PROVE  /\ Lasting(fetched[c], key[c])'
                /\ pc'[c] # "reading" => fetched'[c] = NoRow
    <2>1. fetched[c] \in Rows \cup {NoRow} /\ key[c] \in Keys  BY DEF IInv, TypeOK
    <2>2. Lasting(fetched[c], key[c])  BY DEF IInv, LifeInv
    <2>3. fetched'[c] = OlderRow(fetched[c]) /\ key'[c] = key[c] /\ pc' = pc  BY DEF Tick
    <2>4. Lasting(fetched[c], key[c])'  BY <1>8, <2>1, <2>2, <2>3 DEF Lasting
    <2>5. pc[c] # "reading" => fetched'[c] = NoRow
      BY <2>3 DEF IInv, LifeInv, OlderRow
    <2> QED  BY <2>3, <2>4, <2>5
  <1>11. LifeInv'  BY <1>9, <1>10 DEF LifeInv
  <1> QED  BY <1>6, <1>7, <1>11 DEF IInv

LEMMA NextIInv == IInv /\ [Next]_vars => IInv'
  <1> SUFFICES ASSUME IInv, [Next]_vars PROVE IInv'  OBVIOUS
  <1>1. CASE Connect \/ RunScript \/ Record \/ CommitVersion \/ Ready  BY <1>1, StartUpIInv
  <1>2. CASE Stop  BY <1>2, StopIInv
  <1>3. ASSUME NEW c \in Callers, NEW k \in Keys, Get(c, k) \/ \E v \in Values : Set(c, k, v)
        PROVE  IInv'
    BY <1>3, GetIInv, SetIInv
  <1>4. ASSUME NEW c \in Callers, Miss(c) \/ Hit(c) \/ Cancel(c) PROVE IInv'
    BY <1>4, EndIInv
  <1>5. ASSUME NEW c \in Callers, DeleteExpired(c) \/ Commit(c) PROVE IInv'
    BY <1>5, DeleteExpiredIInv, CommitIInv
  <1>6. CASE CleanUp \/ CleanUpCommit \/ CleanUpFails  BY <1>6, CleanUpIInv
  <1>7. CASE Tick  BY <1>7, TickIInv
  <1>8. CASE UNCHANGED vars
    BY <1>8 DEF vars, taskVars, IInv, TypeOK, SchemaInv, InOrder, NextUp, Pending, LifeInv,
                Lasting
  <1> QED  BY <1>1, <1>2, <1>3, <1>4, <1>5, <1>6, <1>7, <1>8 DEF Next

\* The invariant holds in every reachable state, whatever is killed or fails.
THEOREM Invariance == Spec => []IInv
  <1> QED  BY InitIInv, NextIInv, PTL DEF Spec

\* The state of the database and of its users is typed, after any crash.
THEOREM TypeCorrect == Spec => []TypeOK
  <1>1. IInv => TypeOK  BY DEF IInv
  <1> QED  BY <1>1, Invariance, PTL

\* A version that run_migrations has recorded on disk has been applied, in order.
THEOREM RecordsAreTrue == Spec => []RecordedIsApplied
  <1>1. ASSUME IInv PROVE RecordedIsApplied
    <2> SUFFICES ASSUME NEW v \in disk.recorded
                 PROVE  v \in disk.schema /\ 1..v \subseteq disk.recorded
      BY DEF RecordedIsApplied
    <2>1. v \in Versions  BY <1>1 DEF IInv, TypeOK, Databases
    <2> QED  BY <1>1, <2>1, BoundsAssumption DEF IInv, SchemaInv, InOrder, Versions
  <1> QED  BY <1>1, Invariance, PTL

\* CacheStore.init returns only once every migration has been applied.
THEOREM ServedWhenMigrated == Spec => []ServesMigrated
  <1>1. ASSUME IInv PROVE ServesMigrated
    BY <1>1 DEF IInv, SchemaInv, InOrder, Pending, ServesMigrated
  <1> QED  BY <1>1, Invariance, PTL

\* get never returns what was not put there or has expired.
THEOREM HitsAreHonest == Spec => HonestHits
  <1>1. ASSUME IInv, NEW c \in Callers, Hit(c)
        PROVE  life[key[c]][fetched[c].value] # Expired
    <2>1. fetched[c] \in Rows /\ fetched[c].left # Expired
      BY <1>1 DEF IInv, TypeOK, Hit, Outdated
    <2>2. fetched[c].left \in Lives /\ fetched[c].value \in Values  BY <2>1 DEF Rows
    <2>3. fetched[c].left <= life[key[c]][fetched[c].value]
      BY <1>1 DEF IInv, LifeInv, Lasting, Hit
    <2>4. life[key[c]][fetched[c].value] \in Lives  BY <1>1, <2>2 DEF IInv, TypeOK
    <2> QED  BY <2>1, <2>2, <2>3, <2>4, BoundsAssumption DEF Lives, Expired, Forever
  <1>2. IInv /\ [Next]_vars =>
            [\A c \in Callers : Hit(c) => life[key[c]][fetched[c].value] # Expired]_vars
    BY <1>1
  <1> QED  BY <1>2, Invariance, PTL DEF Spec, HonestHits
-----------------------------------------------------------------------------
(* The start-up runs down, and what it has done is never undone.             *)

SchemaKept ==
    disk.schema \subseteq disk'.schema /\ disk.recorded \subseteq disk'.recorded

\* No crash, no rollback and no commit of anybody's transaction takes a
\* migration off the disk again, and none forgets that it has been applied.
MigrationsKept == [][SchemaKept]_vars

StartUp == {"migrating", "scripted", "recorded"}

\* The migrations of a release up to version n that are still to be recorded.
Todo(n, recorded) == 1..n \ recorded

\* The statements that a start-up takes at most from where it stands: three
\* for every migration, and the end of the loop.
Left(at, todo) ==
    CASE at = "migrating" -> 3 * Cardinality(todo) + 1
      [] at = "scripted" -> 3 * Cardinality(todo)
      [] at = "recorded" -> 3 * Cardinality(todo) + 2
      [] OTHER -> 0

RunsDown ==
    /\ phase = "down" /\ phase' # "down" =>
           phase' = "migrating"
           /\ Left(phase', Todo(known', conn'.recorded)) \in 1..3 * LastVersion + 1
    /\ phase \in StartUp /\ phase' # "down" =>
           \/ phase' = phase /\ Todo(known', conn'.recorded) = Todo(known, conn.recorded)
           \/ /\ phase' \in StartUp \cup {"serving"}
              /\ Left(phase', Todo(known', conn'.recorded)) \in Nat
              /\ Left(phase', Todo(known', conn'.recorded))
                     < Left(phase, Todo(known, conn.recorded))
    /\ phase = "serving" => phase' \in {"serving", "down"}

\* A start-up that is not killed comes to its end: every migration is run and
\* recorded once, and nothing else that goes on adds to them.
StartUpRunsDown == [][RunsDown]_vars

LEMMA TodoFinite ==
    ASSUME NEW n \in Versions, NEW recorded
    PROVE  /\ IsFiniteSet(Todo(n, recorded))
           /\ Cardinality(Todo(n, recorded)) \in 0..LastVersion
  <1>1. n \in Nat /\ n <= LastVersion /\ LastVersion \in Nat
    BY BoundsAssumption DEF Versions
  <1>2. IsFiniteSet(1..n) /\ Cardinality(1..n) = n  BY <1>1, FS_Interval
  <1>3. Todo(n, recorded) \subseteq 1..n  BY DEF Todo
  <1>4. /\ IsFiniteSet(Todo(n, recorded))
        /\ Cardinality(Todo(n, recorded)) <= Cardinality(1..n)
    BY <1>2, <1>3, FS_Subset
  <1>5. Cardinality(Todo(n, recorded)) \in Nat  BY <1>4, FS_CardinalityType
  <1> QED  BY <1>1, <1>2, <1>4, <1>5

\* Whoever changes rows, commits or rolls back leaves the schema alone.
LEMMA TasksLeaveSchema ==
    ASSUME IInv, phase = "serving", NEW rows,
           \/ conn' = [conn EXCEPT !.rows = rows] /\ UNCHANGED disk
           \/ CommitSucceeds \/ Fails \/ UNCHANGED <<disk, conn>>
    PROVE  /\ conn'.schema = conn.schema /\ conn'.recorded = conn.recorded
           /\ disk'.schema = disk.schema /\ disk'.recorded = disk.recorded
  BY DEF IInv, TypeOK, SchemaInv, Databases, CommitSucceeds, Fails

\* The steps outside of a start-up.
LEMMA OtherSteps ==
    ASSUME IInv, [Next]_vars,
           ~(Connect \/ RunScript \/ Record \/ CommitVersion \/ Ready \/ Stop)
    PROVE  /\ UNCHANGED <<phase, known>>
           /\ conn'.recorded = conn.recorded
           /\ disk'.schema = disk.schema /\ disk'.recorded = disk.recorded
  <1>0. conn \in Databases /\ disk \in Databases  BY DEF IInv, TypeOK
  <1>1. ASSUME NEW c \in Callers, NEW k \in Keys, Get(c, k) \/ \E v \in Values : Set(c, k, v)
        PROVE  /\ UNCHANGED <<phase, known>>
               /\ conn'.recorded = conn.recorded
               /\ disk'.schema = disk.schema /\ disk'.recorded = disk.recorded
    <2>1. CASE Get(c, k)  BY <2>1 DEF Get
    <2>2. ASSUME NEW v \in Values, Set(c, k, v)
          PROVE  /\ UNCHANGED <<phase, known>>
                 /\ conn'.recorded = conn.recorded
                 /\ disk'.schema = disk.schema /\ disk'.recorded = disk.recorded
      <3>1. UNCHANGED <<phase, known>> /\ phase = "serving"  BY <2>2 DEF Set, Serving
      <3>2. CASE \E rows : conn' = [conn EXCEPT !.rows = rows] /\ UNCHANGED disk
        BY <3>1, <3>2, TasksLeaveSchema
      <3>3. CASE Fails  BY <3>1, <3>3, TasksLeaveSchema
      <3>4. ASSUME NEW t, conn' = [conn EXCEPT !.rows[k] = [value |-> v, left |-> t]],
                   UNCHANGED disk
            PROVE  \E rows : conn' = [conn EXCEPT !.rows = rows] /\ UNCHANGED disk
        <4> WITNESS [conn.rows EXCEPT ![k] = [value |-> v, left |-> t]]
        <4> QED  BY <1>0, <3>4 DEF Databases
      <3> QED  BY <2>2, <3>1, <3>2, <3>3, <3>4 DEF Set
    <2> QED  BY <1>1, <2>1, <2>2
  <1>2. ASSUME NEW c \in Callers, Miss(c) \/ Hit(c) \/ Cancel(c)
        PROVE  UNCHANGED <<phase, known, conn, disk>>
    BY <1>2 DEF Miss, Hit, Cancel
  <1>3. ASSUME NEW c \in Callers, DeleteExpired(c)
        PROVE  /\ UNCHANGED <<phase, known>>
               /\ conn'.recorded = conn.recorded
               /\ disk'.schema = disk.schema /\ disk'.recorded = disk.recorded
    <2>1. UNCHANGED <<phase, known>> /\ phase = "serving"
      BY <1>3 DEF DeleteExpired, Serving
    <2>2. CASE Fails  BY <2>1, <2>2, TasksLeaveSchema
    <2>3. CASE conn' = [conn EXCEPT !.rows[key[c]] = NoRow] /\ UNCHANGED disk
      BY <1>0, <2>1, <2>3 DEF Databases
    <2> QED  BY <1>3, <2>1, <2>2, <2>3 DEF DeleteExpired
  <1>4. ASSUME \/ CleanUpCommit \/ CleanUpFails \/ \E c \in Callers : Commit(c)
        PROVE  /\ UNCHANGED <<phase, known>>
               /\ conn'.recorded = conn.recorded
               /\ disk'.schema = disk.schema /\ disk'.recorded = disk.recorded
    <2>1. UNCHANGED <<phase, known>> /\ phase = "serving" /\ (CommitSucceeds \/ Fails)
      BY <1>4 DEF CleanUpCommit, CleanUpFails, Commit, Serving
    <2> QED  BY <2>1, TasksLeaveSchema
  <1>5. ASSUME CleanUp \/ Tick
        PROVE  /\ UNCHANGED <<phase, known>>
               /\ conn'.recorded = conn.recorded
               /\ disk'.schema = disk.schema /\ disk'.recorded = disk.recorded
    BY <1>0, <1>5 DEF CleanUp, Tick, Databases
  <1>6. CASE UNCHANGED vars  BY <1>6 DEF vars
  <1> QED  BY <1>1, <1>2, <1>3, <1>4, <1>5, <1>6 DEF Next

LEMMA NextKeepsSchema == IInv /\ [Next]_vars => SchemaKept
  <1> SUFFICES ASSUME IInv, [Next]_vars PROVE SchemaKept  OBVIOUS
  <1>0. conn \in Databases /\ disk \in Databases  BY DEF IInv, TypeOK
  <1>1. CASE CommitVersion
    BY <1>1 DEF IInv, SchemaInv, CommitVersion, CommitSucceeds, SchemaKept
  <1>2. CASE RunScript
    BY <1>0, <1>2 DEF RunScript, Databases, SchemaKept
  <1>3. CASE Connect \/ Record \/ Ready \/ Stop
    BY <1>3 DEF Connect, Record, Ready, Stop, SchemaKept
  <1>4. CASE ~(Connect \/ RunScript \/ Record \/ CommitVersion \/ Ready \/ Stop)
    BY <1>4, OtherSteps DEF SchemaKept
  <1> QED  BY <1>1, <1>2, <1>3, <1>4

LEMMA NextRunsDown == IInv /\ [Next]_vars => RunsDown
  <1> SUFFICES ASSUME IInv, [Next]_vars PROVE RunsDown  OBVIOUS
  <1> DEFINE todo == Todo(known, conn.recorded)
  <1>1. /\ conn \in Databases /\ disk \in Databases /\ known \in Versions
        /\ phase \in Phases /\ LastVersion \in Nat
    BY BoundsAssumption DEF IInv, TypeOK
  <1>2. /\ IsFiniteSet(todo) /\ Cardinality(todo) \in Nat /\ todo = Pending
    BY <1>1, TodoFinite DEF Todo, Pending
  <1>3. CASE Connect
    <2>1. phase = "down" /\ phase' = "migrating"  BY <1>3 DEF Connect
    <2>2. known' \in Versions
      BY <1>1, <1>3 DEF Connect, Versions
    <2>3. PICK n \in Versions, recorded \in SUBSET Versions :
              n = known' /\ recorded = conn'.recorded
      BY <1>1, <1>3, <2>2 DEF Connect, Databases
    <2>4. Cardinality(Todo(n, recorded)) \in 0..LastVersion  BY TodoFinite
    <2>5. Left("migrating", Todo(n, recorded)) \in 1..3 * LastVersion + 1
      BY <1>1, <2>4 DEF Left
    <2> QED  BY <2>1, <2>3, <2>5 DEF RunsDown, StartUp
  <1>4. CASE RunScript
    <2>1. phase = "migrating" /\ phase' = "scripted"  BY <1>4 DEF RunScript
    <2>2. Todo(known', conn'.recorded) = todo
      BY <1>1, <1>4 DEF RunScript, serviceVars, Databases
    <2>3. /\ Left("scripted", todo) \in Nat
          /\ Left("scripted", todo) < Left("migrating", todo)
      BY <1>2 DEF Left
    <2> QED  BY <2>1, <2>2, <2>3 DEF RunsDown, StartUp
  <1>5. CASE Record
    <2>1. phase = "scripted" /\ phase' = "recorded"  BY <1>5 DEF Record
    <2>2. PICK v \in todo : Todo(known', conn'.recorded) = todo \ {v}
      <3>1. PICK v \in Versions : NextUp(v) /\ conn' = [conn EXCEPT !.recorded = @ \cup {v}]
        BY <1>5 DEF Record
      <3>2. v \in todo /\ conn'.recorded = conn.recorded \cup {v} /\ known' = known
        BY <1>1, <1>2, <1>5, <3>1 DEF NextUp, Record, serviceVars, Databases
      <3> QED  BY <3>2 DEF Todo
    <2> HIDE DEF todo
    <2>3. Cardinality(todo \ {v}) = Cardinality(todo) - 1
      BY <1>2, FS_RemoveElement
    <2>4. Cardinality(todo \ {v}) \in Nat
      BY <1>2, FS_RemoveElement, FS_CardinalityType
    <2>5. /\ Left("recorded", todo \ {v}) \in Nat
          /\ Left("recorded", todo \ {v}) < Left("scripted", todo)
      BY <1>2, <2>3, <2>4 DEF Left
    <2> QED  BY <2>1, <2>2, <2>5 DEF RunsDown, StartUp, todo
  <1>6. CASE CommitVersion
    <2>1. phase = "recorded" /\ phase' = "migrating"  BY <1>6 DEF CommitVersion
    <2>2. Todo(known', conn'.recorded) = todo
      BY <1>6 DEF CommitVersion, CommitSucceeds, serviceVars
    <2>3. /\ Left("migrating", todo) \in Nat
          /\ Left("migrating", todo) < Left("recorded", todo)
      BY <1>2 DEF Left
    <2> QED  BY <2>1, <2>2, <2>3 DEF RunsDown, StartUp
  <1>7. CASE Ready
    <2>1. phase = "migrating" /\ phase' = "serving"  BY <1>7 DEF Ready
    <2>2. Todo(known', conn'.recorded) = todo  BY <1>7 DEF Ready, serviceVars
    <2>3. /\ Left("serving", todo) \in Nat
          /\ Left("serving", todo) < Left("migrating", todo)
      BY <1>2 DEF Left
    <2> QED  BY <2>1, <2>2, <2>3 DEF RunsDown, StartUp
  <1>8. CASE Stop  BY <1>8 DEF Stop, RunsDown
  <1>9. CASE ~(Connect \/ RunScript \/ Record \/ CommitVersion \/ Ready \/ Stop)
    <2>1. phase' = phase /\ Todo(known', conn'.recorded) = todo  BY <1>9, OtherSteps
    <2> QED  BY <2>1 DEF RunsDown
  <1> QED  BY <1>3, <1>4, <1>5, <1>6, <1>7, <1>8, <1>9

\* What a release has applied, every later start of any release finds applied.
THEOREM NoMigrationIsLost == Spec => MigrationsKept
  <1>1. IInv /\ [Next]_vars => [SchemaKept]_vars  BY NextKeepsSchema
  <1> QED  BY <1>1, Invariance, PTL DEF Spec, MigrationsKept

\* CacheStore.init ends, for any number of migrations and wherever the starts
\* before it were killed.
THEOREM StartUpEnds == Spec => StartUpRunsDown
  <1>1. IInv /\ [Next]_vars => [RunsDown]_vars  BY NextRunsDown
  <1> QED  BY <1>1, Invariance, PTL DEF Spec, StartUpRunsDown
=============================================================================
