-------------------------- MODULE DescriptionsProofs --------------------------
(***************************************************************************)
(* The safety of Descriptions for all finite sets of requests and any texts. *)
(***************************************************************************)
EXTENDS Descriptions, TLAPS, FiniteSetTheorems

\* Deletions that have been executed and have found the row.
Removals == {x \in Deleters : statement[x] = "executed" /\ result[x] # NoText}

Present == IF row = NoText THEN 0 ELSE 1

\* Each removal, and the row that is there, has a save of its own, whether its
\* request was told or not.
CountInv == Cardinality(Removals) + Present <= Cardinality(Saves)

\* What a request has at each of its stages.
RequestInv(r) ==
    /\ stage[r] \notin {"querying", "done"} => statement[r] = "none"
    /\ stage[r] # "done" => reply[r] = "none"
    /\ stage[r] \in {"idle", "asking"} => text[r] = NoText
    /\ stage[r] = "caching" => text[r] # NoText
    /\ r \in Describers /\ (stage[r] = "connecting" \/ statement[r] # "none") =>
          text[r] \in Texts
    /\ r \in Deleters /\ reply[r] = "deleted" => r \in Removals

\* A request that has a description to save, or has come further.
Kept(s) ==
    \/ stage[s] = "composing" /\ text[s] \in Texts
    \/ stage[s] \in {"connecting", "querying"}
    \/ reply[s] \in {"error", "unsaved", "saved"}

CacheInv == \A s \in Describers : Kept(s) => cacheFailed \/ cached # NoText

IInv == TypeOK /\ CountInv /\ CacheInv /\ \A r \in Requests : RequestInv(r)

LEMMA SetsFinite ==
    /\ IsFiniteSet(Removals) /\ IsFiniteSet(Saves) /\ IsFiniteSet(Told)
    /\ Cardinality(Removals) \in Nat /\ Cardinality(Saves) \in Nat
    /\ Cardinality(Told) \in Nat
  BY RequestsAssumption, FS_Subset, FS_CardinalityType DEF Removals, Saves, Told

LEMMA InitIInv == Init => IInv
  <1> SUFFICES ASSUME Init PROVE IInv  OBVIOUS
  <1>1. TypeOK
    <2>1. attempt \in [Requests -> 0..MaxAttempts - 1]  BY DEF Init, MaxAttempts
    <2> QED  BY <2>1 DEF Init, TypeOK, Stages, Replies
  <1>2. Removals = {} /\ Saves = {}  BY DEF Init, Removals, Saves, Requests
  <1>3. CountInv  BY <1>2, FS_EmptySet DEF Init, CountInv, Present
  <1>4. CacheInv  BY DEF Init, CacheInv, Kept, Requests
  <1>5. \A r \in Requests : RequestInv(r)  BY DEF Init, RequestInv
  <1> QED  BY <1>1, <1>3, <1>4, <1>5 DEF IInv

\* A step in which no statement is executed counts for nothing.
LEMMA CountKept ==
    ASSUME CountInv, row' = row, Removals' = Removals, Saves' = Saves
    PROVE  CountInv'
  BY DEF CountInv, Present

\* A step of one request leaves the others what they have.
LEMMA OthersKept ==
    ASSUME IInv, NEW r \in Requests, UNCHANGED queryVars,
           stage' \in [Requests -> Stages], \A q \in Requests \ {r} : stage'[q] = stage[q],
           text' \in [Requests -> Texts \cup {Empty, NoText}],
           \A q \in Requests \ {r} : text'[q] = text[q],
           reply' \in [Requests -> Replies], \A q \in Requests \ {r} : reply'[q] = reply[q]
    PROVE  /\ \A q \in Requests \ {r} : RequestInv(q)'
           /\ Removals' = Removals /\ Saves' = Saves
  BY DEF IInv, RequestInv, queryVars, Removals, Saves

\* Nor does it make the cache forget.
LEMMA CacheKept ==
    ASSUME IInv, NEW r \in Requests,
           \A q \in Requests \ {r} :
              stage'[q] = stage[q] /\ text'[q] = text[q] /\ reply'[q] = reply[q],
           cacheFailed => cacheFailed', cached # NoText => cached' # NoText,
           r \in Describers => (Kept(r)' => Kept(r) \/ cacheFailed' \/ cached' # NoText)
    PROVE  CacheInv'
  BY DEF IInv, CacheInv, Kept, Requests
-----------------------------------------------------------------------------
LEMMA DescribingKeeps ==
    ASSUME IInv, NEW r \in Requests,
           LookUp(r) \/ Describe(r) \/ AskAgain(r) \/ Undescribed(r) \/ Store(r) \/ Composed(r)
    PROVE  IInv'
  <1>1. TypeOK'
    <2>1. CASE LookUp(r)
      BY <2>1 DEF IInv, TypeOK, LookUp, GoTo, Stages, queryVars
    <2>2. CASE Describe(r) \/ AskAgain(r) \/ Undescribed(r)
      BY <2>2
         DEF IInv, TypeOK, Describe, AskAgain, Undescribed, GoTo, Stages, queryVars, dataVars,
             MaxAttempts
    <2>3. CASE Store(r)
      BY <2>3 DEF IInv, TypeOK, Store, GoTo, Stages, queryVars
    <2>4. CASE Composed(r)
      BY <2>4 DEF IInv, TypeOK, Composed, Done, GoTo, Stages, Replies, queryVars, dataVars
    <2> QED  BY <2>1, <2>2, <2>3, <2>4
  <1>2. /\ UNCHANGED <<queryVars, row>>
        /\ \A q \in Requests \ {r} :
              stage'[q] = stage[q] /\ text'[q] = text[q] /\ reply'[q] = reply[q]
    BY DEF IInv, TypeOK, LookUp, Describe, AskAgain, Undescribed, Store, Composed, Done, GoTo,
           dataVars
  <1>3. RequestInv(r)'
    <2>1. RequestInv(r)  BY DEF IInv
    <2>2. CASE LookUp(r)
      BY <2>1, <2>2, <1>2, TextsAssumption
         DEF IInv, TypeOK, RequestInv, LookUp, GoTo, queryVars, Removals
    <2>3. CASE Describe(r) \/ AskAgain(r) \/ Undescribed(r)
      BY <2>1, <2>3, <1>2, TextsAssumption
         DEF IInv, TypeOK, RequestInv, Describe, AskAgain, Undescribed, GoTo, queryVars,
             Removals
    <2>4. CASE Store(r)
      BY <2>1, <2>4, <1>2 DEF IInv, TypeOK, RequestInv, Store, GoTo, queryVars, Removals
    <2>5. CASE Composed(r)
      BY <2>1, <2>5, <1>2
         DEF IInv, TypeOK, RequestInv, Composed, Done, GoTo, queryVars, Removals
    <2> QED  BY <2>2, <2>3, <2>4, <2>5
  <1>4. CacheInv'
    <2>1. cacheFailed => cacheFailed'
      BY DEF LookUp, Describe, AskAgain, Undescribed, Store, Composed, dataVars, IInv, TypeOK
    <2>2. cached # NoText => cached' # NoText
      BY DEF LookUp, Describe, AskAgain, Undescribed, Store, Composed, dataVars, IInv,
             RequestInv
    <2>3. Kept(r)' => Kept(r) \/ cacheFailed' \/ cached' # NoText
      <3>1. RequestInv(r)  BY DEF IInv
      <3>2. CASE LookUp(r)
        BY <3>1, <3>2 DEF IInv, TypeOK, RequestInv, LookUp, GoTo, Kept
      <3>3. CASE Describe(r) \/ AskAgain(r) \/ Undescribed(r)
        BY <3>1, <3>3, TextsAssumption
           DEF IInv, TypeOK, RequestInv, Describe, AskAgain, Undescribed, GoTo, Kept
      <3>4. CASE Store(r)
        BY <3>1, <3>4 DEF IInv, TypeOK, RequestInv, Store, GoTo, Kept
      <3>5. CASE Composed(r)
        BY <3>1, <3>5 DEF IInv, TypeOK, RequestInv, Composed, Done, GoTo, Kept
      <3> QED  BY <3>2, <3>3, <3>4, <3>5
    <2> QED  BY <1>2, <2>1, <2>2, <2>3, CacheKept
  <1>5. (\A q \in Requests \ {r} : RequestInv(q)') /\ Removals' = Removals /\ Saves' = Saves
    BY <1>1, <1>2, OthersKept DEF TypeOK
  <1>6. CountInv'  BY <1>2, <1>5, CountKept DEF IInv
  <1> QED  BY <1>1, <1>3, <1>4, <1>5, <1>6 DEF IInv

LEMMA QueryingKeeps ==
    ASSUME IInv, NEW r \in Requests, Ask(r) \/ Answer(r) \/ QueryFails(r) \/ Cancel(r)
    PROVE  IInv'
  <1>1. \A o : ReplyTo(r, o) \in Replies /\ (ReplyTo(r, o) = "deleted" => o = "row")
    BY RequestsAssumption
       DEF ReplyTo, SaveReply, GetReply, ListReply, DeleteReply, Replies, Requests
  <1>0. \/ Ask(r)
        \/ \E how \in Replies :
              /\ Done(r, how) /\ UNCHANGED <<dataVars, text, queryVars>>
              /\ attempt' \in {attempt, [attempt EXCEPT ![r] = 0]}
              /\ how = "deleted" => statement[r] = "executed" /\ result[r] # NoText
    <2>1. CASE Answer(r)
      <3>1. /\ statement[r] = "executed"
            /\ Done(r, ReplyTo(r, IF result[r] = NoText THEN "no row" ELSE "row"))
            /\ UNCHANGED <<dataVars, text, attempt, queryVars>>
        BY <2>1 DEF Answer
      <3> QED  BY <1>1, <3>1
    <2>2. CASE QueryFails(r)
      <3>1. Done(r, ReplyTo(r, "failed")) /\ UNCHANGED <<dataVars, text, attempt, queryVars>>
        BY <2>2 DEF QueryFails
      <3> QED  BY <1>1, <3>1
    <2>3. CASE Cancel(r)
      BY <2>3 DEF Cancel, Replies
    <2> QED  BY <2>1, <2>2, <2>3
  <1>2. TypeOK'
    <2>1. CASE Ask(r)
      BY <2>1 DEF IInv, TypeOK, Ask, GoTo, Stages, queryVars, dataVars
    <2>2. CASE ~Ask(r)
      <3>1. PICK how \in Replies :
              /\ Done(r, how) /\ UNCHANGED <<dataVars, text, queryVars>>
              /\ attempt' \in {attempt, [attempt EXCEPT ![r] = 0]}
        BY <1>0, <2>2
      <3>2. attempt' \in [Requests -> 0..MaxAttempts - 1]
        BY <3>1 DEF IInv, TypeOK, MaxAttempts
      <3> QED
        BY <3>1, <3>2 DEF IInv, TypeOK, Done, GoTo, Stages, queryVars, dataVars
    <2> QED  BY <2>1, <2>2
  <1>3. /\ UNCHANGED <<queryVars, dataVars, text>>
        /\ \A q \in Requests \ {r} : stage'[q] = stage[q] /\ reply'[q] = reply[q]
    BY DEF IInv, TypeOK, Ask, Answer, QueryFails, Cancel, Done, GoTo
  <1>4. RequestInv(r)'
    <2>1. RequestInv(r)  BY DEF IInv
    <2>2. CASE Ask(r)
      BY <2>1, <2>2, <1>3
         DEF IInv, TypeOK, RequestInv, Ask, GoTo, queryVars, Removals
    <2>3. CASE Answer(r) \/ QueryFails(r) \/ Cancel(r)
      <3>1. /\ stage'[r] = "done"
            /\ reply'[r] = "deleted" => statement[r] = "executed" /\ result[r] # NoText
        <4>1. ~Ask(r)  BY <2>3 DEF Ask, Answer, QueryFails, Cancel
        <4> QED  BY <1>0, <4>1 DEF IInv, TypeOK, Done, GoTo
      <3> QED  BY <2>1, <1>3, <3>1 DEF RequestInv, queryVars, Removals
    <2> QED  BY <2>2, <2>3
  <1>5. CacheInv'
    <2>1. r \in Describers => (Kept(r)' => Kept(r))
      <3>1. RequestInv(r)  BY DEF IInv
      <3>2. CASE Ask(r)  BY <3>2 DEF Ask
      <3>3. CASE Answer(r) \/ QueryFails(r)
        BY <3>3 DEF Answer, QueryFails, Kept
      <3>4. CASE Cancel(r)
        BY <3>4, <1>3 DEF IInv, TypeOK, Cancel, Done, GoTo, Kept
      <3> QED  BY <3>2, <3>3, <3>4
    <2> QED  BY <1>3, <2>1, CacheKept DEF dataVars
  <1>6. (\A q \in Requests \ {r} : RequestInv(q)') /\ Removals' = Removals /\ Saves' = Saves
    BY <1>2, <1>3, OthersKept DEF TypeOK
  <1>7. CountInv'  BY <1>3, <1>6, CountKept DEF IInv, dataVars
  <1> QED  BY <1>2, <1>4, <1>5, <1>6, <1>7 DEF IInv

LEMMA ConnectKeeps ==
    ASSUME IInv, NEW r \in Requests, Connect(r)
    PROVE  IInv'
  <1>1. \A o \in {"refused", "failed"} :
           ReplyTo(r, o) \in Replies /\ ReplyTo(r, o) # "deleted"
    BY RequestsAssumption
       DEF ReplyTo, SaveReply, GetReply, ListReply, DeleteReply, Replies, Requests
  <1>2. TypeOK'
    BY <1>1 DEF IInv, TypeOK, Connect, Done, GoTo, Stages, queryVars, dataVars
  <1>3. /\ UNCHANGED <<dataVars, text, result>>
        /\ \A q \in Requests \ {r} :
              stage'[q] = stage[q] /\ reply'[q] = reply[q] /\ statement'[q] = statement[q]
    BY DEF IInv, TypeOK, Connect, Done, GoTo
  <1>4. /\ stage[r] = "connecting" /\ statement[r] = "none" /\ reply[r] = "none"
        /\ r \in Describers => text[r] \in Texts
    BY DEF IInv, RequestInv, Connect
  <1>5. /\ statement'[r] \in {"none", "sent"} /\ stage'[r] \in {"querying", "done"}
        /\ stage'[r] = "querying" => reply'[r] = "none"
        /\ reply'[r] # "deleted"
    BY <1>1, <1>4 DEF IInv, TypeOK, Connect, Done, GoTo
  <1>6. Removals' = Removals /\ Saves' = Saves
    BY <1>3, <1>4, <1>5 DEF Removals, Saves, Requests
  <1>7. \A q \in Requests : RequestInv(q)'
    <2>1. RequestInv(r)'  BY <1>3, <1>4, <1>5, TextsAssumption DEF RequestInv
    <2>2. ASSUME NEW q \in Requests \ {r} PROVE RequestInv(q)'
      BY <1>3, <1>6 DEF IInv, RequestInv
    <2> QED  BY <2>1, <2>2
  <1>8. CacheInv'
    BY <1>3, <1>4, CacheKept DEF Kept, dataVars
  <1>9. CountInv'  BY <1>3, <1>6, CountKept DEF IInv, dataVars
  <1> QED  BY <1>2, <1>7, <1>8, <1>9 DEF IInv
-----------------------------------------------------------------------------
LEMMA ExecutionKeeps ==
    ASSUME IInv, NEW r \in Requests, Upsert(r) \/ Select(r) \/ Delete(r)
    PROVE  IInv'
  <1>1. /\ statement[r] = "sent" /\ statement' = [statement EXCEPT ![r] = "executed"]
        /\ result' = [result EXCEPT ![r] = row]
        /\ UNCHANGED <<cached, cacheFailed, stage, text, attempt, reply>>
    BY DEF Upsert, Select, Delete, Execute
  <1>2. stage[r] \in {"querying", "done"} /\ (r \in Describers => text[r] \in Texts)
    BY <1>1 DEF IInv, RequestInv, TypeOK
  <1>3. TypeOK'
    BY <1>1, <1>2 DEF IInv, TypeOK, Upsert, Select, Delete, Execute
  <1>4. \A q \in Requests : RequestInv(q)'
    <2>1. RequestInv(r)'
      BY <1>1, <1>2 DEF IInv, TypeOK, RequestInv, Removals
    <2>2. ASSUME NEW q \in Requests \ {r} PROVE RequestInv(q)'
      <3>1. statement'[q] = statement[q] /\ result'[q] = result[q]
        BY <1>1 DEF IInv, TypeOK
      <3> QED  BY <1>1, <3>1 DEF IInv, RequestInv, Removals
    <2> QED  BY <2>1, <2>2
  <1>5. CacheInv'  BY <1>1 DEF IInv, CacheInv, Kept
  <1>6. r \notin Removals /\ r \notin Saves  BY <1>1 DEF Removals, Saves
  <1>7. \A q \in Requests \ {r} : statement'[q] = statement[q] /\ result'[q] = result[q]
    BY <1>1 DEF IInv, TypeOK
  <1>8. statement'[r] = "executed" /\ result'[r] = row  BY <1>1 DEF IInv, TypeOK
  <1>9. CountInv'
    <2>1. CASE Upsert(r)
      <3>1. r \in Describers /\ r \notin Deleters
        BY <2>1, RequestsAssumption DEF Upsert
      <3>2. Saves' = Saves \cup {r}  BY <1>7, <1>8, <3>1 DEF Saves, Requests
      <3>3. Removals' = Removals  BY <1>7, <3>1 DEF Removals, Requests
      <3>4. Cardinality(Saves)' = Cardinality(Saves) + 1
        BY <1>6, <3>2, SetsFinite, FS_AddElement
      <3> QED  BY <3>3, <3>4, SetsFinite DEF IInv, CountInv, Present
    <2>2. CASE Select(r)
      <3>1. r \notin Describers /\ r \notin Deleters /\ row' = row
        BY <2>2, RequestsAssumption DEF Select, Execute
      <3>2. Saves' = Saves /\ Removals' = Removals
        BY <1>7, <3>1 DEF Saves, Removals, Requests
      <3> QED  BY <3>1, <3>2, CountKept DEF IInv
    <2>3. CASE Delete(r)
      <3>1. r \in Deleters /\ r \notin Describers /\ row' = NoText
        BY <2>3, RequestsAssumption DEF Delete, Execute
      <3>2. Saves' = Saves  BY <1>7, <3>1 DEF Saves, Requests
      <3>3. Removals' = IF row = NoText THEN Removals ELSE Removals \cup {r}
        BY <1>6, <1>7, <1>8, <3>1 DEF Removals, Requests
      <3>4. Cardinality(Removals)' = Cardinality(Removals) + Present
        <4>1. CASE row = NoText  BY <3>3, <4>1, SetsFinite DEF Present
        <4>2. CASE row # NoText
          <5>1. Removals' = Removals \cup {r} /\ Present = 1  BY <3>3, <4>2 DEF Present
          <5> QED  BY <1>6, <5>1, SetsFinite, FS_AddElement
        <4> QED  BY <4>1, <4>2
      <3>5. Present' = 0  BY <3>1 DEF Present
      <3> QED  BY <3>2, <3>4, <3>5, SetsFinite DEF IInv, CountInv, Present
    <2> QED  BY <2>1, <2>2, <2>3
  <1> QED  BY <1>3, <1>4, <1>5, <1>9 DEF IInv

LEMMA NextIInv == IInv /\ [Next]_vars => IInv'
  <1> SUFFICES ASSUME IInv, [Next]_vars PROVE IInv'  OBVIOUS
  <1>1. CASE UNCHANGED vars
    BY <1>1
       DEF vars, dataVars, queryVars, IInv, TypeOK, CountInv, Removals, Present, Saves, CacheInv,
           Kept, RequestInv
  <1>2. CASE Next
    BY <1>2, DescribingKeeps, QueryingKeeps, ConnectKeeps, ExecutionKeeps DEF Next
  <1> QED  BY <1>1, <1>2

LEMMA AlwaysIInv == Spec => []IInv
  BY InitIInv, NextIInv, PTL DEF Spec
-----------------------------------------------------------------------------
\* The texts, the row and the requests are typed for any requests: the model is
\* never called more often than MaxAttempts times.
THEOREM TypeCorrect == Spec => []TypeOK
  <1>1. IInv => TypeOK  BY DEF IInv
  <1> QED  BY <1>1, AlwaysIInv, PTL

\* A deletion is confirmed once for each save, for any number of requests that
\* save and delete, and whenever the database executes what they sent.
THEOREM DeletionsPaid == Spec => []DeletedOnce
  <1>1. ASSUME IInv PROVE DeletedOnce
    <2>1. Told \in SUBSET Removals
      BY <1>1 DEF IInv, RequestInv, Told, Requests
    <2>2. Cardinality(Told) <= Cardinality(Removals)
      BY <2>1, SetsFinite, FS_Subset
    <2> QED
      BY <1>1, <2>2, SetsFinite DEF IInv, CountInv, Present, DeletedOnce
  <1> QED  BY <1>1, AlwaysIInv, PTL

\* No request pays the model for what another one has come to save, as long as
\* the cache works, for any number of requests.
THEOREM RetryIsServed == Spec => RetryFromCache
  <1> DEFINE A == \A r \in Describers : stage[r] = "idle" /\ stage'[r] = "asking" =>
                      \/ cacheFailed'
                      \/ \A s \in Describers :
                            /\ stage[s] \notin {"connecting", "querying"}
                            /\ reply[s] \notin {"error", "unsaved", "saved"}
  <1>1. ASSUME IInv, [Next]_vars PROVE [A]_vars
    <2> SUFFICES ASSUME Next, NEW r \in Describers,
                        stage[r] = "idle", stage'[r] = "asking", ~cacheFailed',
                        NEW s \in Describers
                 PROVE  /\ stage[s] \notin {"connecting", "querying"}
                        /\ reply[s] \notin {"error", "unsaved", "saved"}
      BY <1>1
    <2>1. PICK q \in Requests : LookUp(q)
      BY <1>1
         DEF Next, Describe, AskAgain, Undescribed, Store, Composed, Ask, Connect, Answer,
             QueryFails, Cancel, Upsert, Select, Delete, Execute, Done, GoTo, IInv, TypeOK,
             Requests
    <2>2. r = q
      BY <2>1, <1>1 DEF LookUp, GoTo, IInv, TypeOK, Requests
    <2>3. cached = NoText /\ ~cacheFailed
      BY <1>1, <2>1, <2>2 DEF LookUp, GoTo, IInv, TypeOK, Requests
    <2> QED  BY <1>1, <2>3 DEF IInv, CacheInv, Kept
  <1> QED  BY <1>1, AlwaysIInv, PTL DEF Spec, RetryFromCache
-----------------------------------------------------------------------------
(* A request runs down, and what has become of its statement is final.       *)

\* The steps that a request takes at most, from its stage and the number n of
\* its calls of the model that have failed.
Left(at, n) ==
    CASE at = "idle" -> MaxAttempts + 5
      [] at = "asking" -> MaxAttempts - n + 4
      [] at = "caching" -> 4
      [] at = "composing" -> 3
      [] at = "connecting" -> 2
      [] at = "querying" -> 1
      [] OTHER -> 0

Advances(r) ==
    \/ stage'[r] = stage[r] /\ attempt'[r] = attempt[r]
    \/ Left(stage'[r], attempt'[r]) \in 0..Left(stage[r], attempt[r]) - 1

StatementAdvances(r) ==
    \/ statement'[r] = statement[r] /\ result'[r] = result[r]
    \/ statement[r] = "none" /\ statement'[r] = "sent" /\ result'[r] = result[r]
    \/ statement[r] = "sent" /\ statement'[r] = "executed"

AnswerStays(r) == reply[r] # "none" => reply'[r] = reply[r]

RunsDown(r) == Advances(r) /\ StatementAdvances(r) /\ AnswerStays(r)

\* A request calls the model three times at most and comes to its one answer
\* without a loop; its statement is sent once and executed once, also after the
\* request has given it up.
RequestsRunDown == [][\A r \in Requests : RunsDown(r)]_vars

\* A step of r is none of the other requests' business.
OnlyOf(r) ==
    \A q \in Requests \ {r} :
        /\ stage'[q] = stage[q] /\ attempt'[q] = attempt[q]
        /\ statement'[q] = statement[q] /\ result'[q] = result[q] /\ reply'[q] = reply[q]

LEMMA OthersStay ==
    ASSUME IInv, [Next]_vars, NEW r \in Requests,
           OnlyOf(r), RunsDown(r)
    PROVE  \A q \in Requests : RunsDown(q)
  BY DEF OnlyOf, RunsDown, Advances, StatementAdvances, AnswerStays

\* The ways forward.
LEMMA Later ==
    ASSUME NEW at \in Stages, NEW n \in 0..2, NEW to \in Stages, NEW m,
           \/ at = "idle" /\ to = "asking" /\ m = n
           \/ at = "asking" /\ to = "asking" /\ m = n + 1 /\ m \in 0..2
           \/ at \in {"idle", "asking"} /\ to \in Stages \ {"idle", "asking"}
           \/ at = "caching" /\ to \in Stages \ {"idle", "asking", "caching"}
           \/ at = "composing" /\ to \in {"connecting", "done"}
           \/ at = "connecting" /\ to \in {"querying", "done"}
           \/ at = "querying" /\ to = "done"
    PROVE  Left(to, m) \in 0..Left(at, n) - 1
  <1>1. CASE at = "idle" /\ to = "asking" /\ m = n
    <2>1. Left(at, n) = 8 /\ Left(to, m) = 7 - n  BY <1>1 DEF Left, MaxAttempts
    <2> QED  BY <2>1
  <1>2. CASE at = "asking" /\ to = "asking" /\ m = n + 1 /\ m \in 0..2
    <2>1. Left(at, n) = 7 - n /\ Left(to, m) = 7 - m  BY <1>2 DEF Left, MaxAttempts
    <2> QED  BY <1>2, <2>1
  <1>3. CASE at \in {"idle", "asking"} /\ to \in Stages \ {"idle", "asking"}
    <2>1. Left(at, n) \in 5..8 /\ Left(to, m) \in 0..4
      BY <1>3 DEF Left, MaxAttempts, Stages
    <2> QED  BY <2>1
  <1>4. CASE at = "caching" /\ to \in Stages \ {"idle", "asking", "caching"}
    <2>1. Left(at, n) = 4 /\ Left(to, m) \in 0..3  BY <1>4 DEF Left, Stages
    <2> QED  BY <2>1
  <1>5. CASE at = "composing" /\ to \in {"connecting", "done"}
    <2>1. Left(at, n) = 3 /\ Left(to, m) \in 0..2  BY <1>5 DEF Left
    <2> QED  BY <2>1
  <1>6. CASE at = "connecting" /\ to \in {"querying", "done"}
    <2>1. Left(at, n) = 2 /\ Left(to, m) \in 0..1  BY <1>6 DEF Left
    <2> QED  BY <2>1
  <1>7. CASE at = "querying" /\ to = "done"
    <2>1. Left(at, n) = 1 /\ Left(to, m) = 0  BY <1>7 DEF Left
    <2> QED  BY <2>1
  <1> QED  BY <1>1, <1>2, <1>3, <1>4, <1>5, <1>6, <1>7

LEMMA NextRunsDown ==
    ASSUME IInv, [Next]_vars
    PROVE  \A r \in Requests : RunsDown(r)
  <1>0. /\ stage \in [Requests -> Stages] /\ attempt \in [Requests -> 0..2]
        /\ statement \in [Requests -> {"none", "sent", "executed"}]
        /\ result \in [Requests -> Texts \cup {NoText}]
        /\ reply \in [Requests -> Replies]
    BY DEF IInv, TypeOK, MaxAttempts
  <1>1. ASSUME NEW r \in Requests,
               \/ LookUp(r) \/ Describe(r) \/ AskAgain(r) \/ Undescribed(r)
               \/ Store(r) \/ Composed(r)
        PROVE  OnlyOf(r) /\ RunsDown(r)
    <2>1. OnlyOf(r)
      BY <1>0, <1>1
         DEF OnlyOf, LookUp, Describe, AskAgain, Undescribed, Store, Composed, GoTo, Done, queryVars
    <2>2. reply[r] = "none" /\ statement' = statement /\ result' = result
      BY <1>1 DEF IInv, RequestInv, LookUp, Describe, AskAgain, Undescribed, Store, Composed,
                  queryVars
    <2>3. Advances(r)
      <3>1. CASE LookUp(r)
        <4>1. stage[r] = "idle" /\ stage'[r] \in {"composing", "asking"}
              /\ attempt'[r] = attempt[r]
          BY <1>0, <3>1 DEF LookUp, GoTo
        <4> QED  BY <1>0, <4>1, Later DEF Advances, Stages
      <3>2. CASE Describe(r)
        <4>1. stage[r] = "asking" /\ stage'[r] = "caching"
          BY <1>0, <3>2 DEF Describe, GoTo
        <4> QED  BY <1>0, <4>1, Later DEF Advances, Stages
      <3>3. CASE AskAgain(r)
        <4>1. stage[r] = "asking" /\ stage'[r] = "asking" /\ attempt'[r] = attempt[r] + 1
              /\ attempt[r] + 1 \in 0..2
          BY <1>0, <3>3 DEF AskAgain, MaxAttempts
        <4> QED  BY <1>0, <4>1, Later DEF Advances, Stages
      <3>4. CASE Undescribed(r) \/ Store(r)
        <4>1. stage[r] \in {"idle", "asking", "caching"} /\ stage'[r] = "composing"
          BY <1>0, <3>4 DEF Undescribed, Store, GoTo
        <4> QED  BY <1>0, <4>1, Later DEF Advances, Stages
      <3>5. CASE Composed(r)
        <4>1. stage[r] = "composing" /\ stage'[r] \in {"connecting", "done"}
          BY <1>0, <3>5 DEF Composed, GoTo, Done
        <4> QED  BY <1>0, <4>1, Later DEF Advances, Stages
      <3> QED  BY <1>1, <3>1, <3>2, <3>3, <3>4, <3>5
    <2> QED  BY <2>1, <2>2, <2>3 DEF RunsDown, StatementAdvances, AnswerStays
  <1>2. ASSUME NEW r \in Requests,
               Ask(r) \/ Connect(r) \/ Answer(r) \/ QueryFails(r) \/ Cancel(r)
        PROVE  OnlyOf(r) /\ RunsDown(r)
    <2>1. OnlyOf(r)
      BY <1>0, <1>2 DEF OnlyOf, Ask, Connect, Answer, QueryFails, Cancel, GoTo, Done, queryVars
    <2>2. reply[r] = "none"
      BY <1>2 DEF IInv, RequestInv, Ask, Connect, Answer, QueryFails, Cancel
    <2>3. StatementAdvances(r)
      BY <1>0, <1>2
         DEF StatementAdvances, IInv, RequestInv, Ask, Connect, Answer, QueryFails, Cancel,
             queryVars
    <2>4. Advances(r)
      <3>1. CASE Ask(r)
        <4>1. stage[r] = "idle" /\ stage'[r] = "connecting"  BY <1>0, <3>1 DEF Ask, GoTo
        <4> QED  BY <1>0, <4>1, Later DEF Advances, Stages
      <3>2. CASE Connect(r)
        <4>1. stage[r] = "connecting" /\ stage'[r] \in {"querying", "done"}
          BY <1>0, <3>2 DEF Connect, GoTo, Done
        <4> QED  BY <1>0, <4>1, Later DEF Advances, Stages
      <3>3. CASE Answer(r) \/ QueryFails(r) \/ Cancel(r)
        <4>1. stage[r] \in Stages \ {"idle", "done"} /\ stage'[r] = "done"
          BY <1>0, <3>3 DEF Answer, QueryFails, Cancel, GoTo, Done
        <4> QED  BY <1>0, <4>1, Later DEF Advances, Stages
      <3> QED  BY <1>2, <3>1, <3>2, <3>3
    <2> QED  BY <2>1, <2>2, <2>3, <2>4 DEF RunsDown, AnswerStays
  <1>3. ASSUME NEW r \in Requests, Upsert(r) \/ Select(r) \/ Delete(r)
        PROVE  OnlyOf(r) /\ RunsDown(r)
    <2>1. PICK becomes : Execute(r, becomes)  BY <1>3 DEF Upsert, Select, Delete
    <2> QED  BY <1>0, <2>1 DEF OnlyOf, RunsDown, Execute, Advances, StatementAdvances, AnswerStays
  <1>4. CASE UNCHANGED vars
    BY <1>4 DEF vars, queryVars, RunsDown, Advances, StatementAdvances, AnswerStays
  <1>5. CASE Next
    <2>1. PICK r \in Requests :
              \/ LookUp(r) \/ Describe(r) \/ AskAgain(r) \/ Undescribed(r)
              \/ Store(r) \/ Composed(r)
              \/ Ask(r) \/ Connect(r) \/ Answer(r) \/ QueryFails(r) \/ Cancel(r)
              \/ Upsert(r) \/ Select(r) \/ Delete(r)
      BY <1>5 DEF Next
    <2>2. OnlyOf(r) /\ RunsDown(r)
      BY <1>1, <1>2, <1>3, <2>1
    <2> QED  BY <2>2, OthersStay
  <1> QED  BY <1>4, <1>5

\* For any number of requests, whatever fails and however late the database
\* executes what it was sent.
THEOREM RequestsComeToAnEnd == Spec => RequestsRunDown
  <1>1. IInv /\ [Next]_vars => [\A r \in Requests : RunsDown(r)]_vars  BY NextRunsDown
  <1> QED  BY <1>1, AlwaysIInv, PTL DEF Spec, RequestsRunDown
=============================================================================
