----------------------------- MODULE Descriptions -----------------------------
(***************************************************************************)
(* What becomes of one image's description: requests that describe it, with *)
(* a cog_image_id, and requests that get, list or delete what is saved.     *)
(* The describer keeps the text in the cache (app/modules/describer.py), and *)
(* _describe_and_save the row in the database (app/db/supabase.py), which    *)
(* may execute a statement long after the program has given it up.          *)
(*                                                                         *)
(* The cache's own steps are in Cache, the rest of a request in Composer,    *)
(* the client in Supabase; here each of them does it or fails.               *)
(***************************************************************************)
EXTENDS Integers, FiniteSets

CONSTANTS Describers, Getters, Listers, Deleters,   \* the requests
          Texts,         \* descriptions that the model may give
          Empty,         \* the empty description
          NoText         \* none

Requests == Describers \cup Getters \cup Listers \cup Deleters

ASSUME RequestsAssumption ==
    /\ IsFiniteSet(Describers) /\ IsFiniteSet(Deleters)
    /\ Describers \cap (Getters \cup Listers \cup Deleters) = {}
    /\ Deleters \cap (Getters \cup Listers) = {} /\ Getters \cap Listers = {}
ASSUME TextsAssumption == Empty \notin Texts /\ NoText \notin Texts \cup {Empty}

VARIABLES cached,        \* the text under "describe:<id>", or NoText
          row,           \* the description in the image's row, or NoText
          stage,         \* where each request stands
          text,          \* the description that a request has got
          attempt,       \* its calls of the model that have failed, while it asks
          statement,     \* what has become of its statement
          result,        \* the row that the statement found
          reply,         \* what it was answered
          cacheFailed    \* history: the cache has failed to read or to write

dataVars == <<cached, row, cacheFailed>>
queryVars == <<statement, result>>
vars == <<dataVars, stage, text, attempt, queryVars, reply>>

MaxAttempts == 3

Init ==
    /\ cached = NoText /\ row = NoText /\ cacheFailed = FALSE
    /\ stage = [r \in Requests |-> "idle"]
    /\ text = [r \in Requests |-> NoText]
    /\ attempt = [r \in Requests |-> 0]
    /\ statement = [r \in Requests |-> "none"]
    /\ result = [r \in Requests |-> NoText]
    /\ reply = [r \in Requests |-> "none"]

GoTo(r, s) == stage' = [stage EXCEPT ![r] = s]

Done(r, how) == GoTo(r, "done") /\ reply' = [reply EXCEPT ![r] = how]
-----------------------------------------------------------------------------
(* The answers of the endpoints to what comes of the operation on the        *)
(* database: a ConnectionError ("refused"), any other error or a timeout     *)
(* ("failed"), or the execution, with a row or without one.                  *)

GetReply(o) ==
    IF o = "refused" THEN "error" ELSE IF o = "row" THEN "found" ELSE "missing"

ListReply(o) ==
    IF o = "refused" THEN "error" ELSE IF o = "row" THEN "found" ELSE "empty"

\* Fault: any end of the statement is taken for a deletion.
DeleteReplyBlindly(o) == IF o \in {"refused", "failed"} THEN "error" ELSE "deleted"

DeleteReply(o) ==
    IF o = "refused" THEN "error" ELSE IF o = "row" THEN "deleted" ELSE "missing"

SaveReply(o) ==
    IF o = "refused" THEN "error" ELSE IF o = "failed" THEN "unsaved" ELSE "saved"

ReplyTo(r, o) ==
    CASE r \in Describers -> SaveReply(o)
      [] r \in Getters    -> GetReply(o)
      [] r \in Listers    -> ListReply(o)
      [] r \in Deleters   -> DeleteReply(o)
-----------------------------------------------------------------------------
\* describe_image up to the model, by a task behind the describer's breaker:
\* any object in the cache is a hit, the one of an empty text too.
LookUp(r) ==
    /\ stage[r] = "idle" /\ r \in Describers
    /\ \/ /\ cached # NoText
          /\ text' = [text EXCEPT ![r] = cached] /\ GoTo(r, "composing")
          /\ UNCHANGED cacheFailed
       \/ cached = NoText /\ GoTo(r, "asking") /\ UNCHANGED <<text, cacheFailed>>
       \/ cacheFailed' = TRUE /\ GoTo(r, "asking") /\ UNCHANGED text
    /\ UNCHANGED <<cached, row, attempt, queryVars, reply>>

\* The model answers; or fails in a way that is tried again;
Describe(r) ==
    /\ stage[r] = "asking"
    /\ \E t \in Texts \cup {Empty} : text' = [text EXCEPT ![r] = t]
    /\ GoTo(r, "caching")
    /\ attempt' = [attempt EXCEPT ![r] = 0]
    /\ UNCHANGED <<dataVars, queryVars, reply>>

\* Fault: the last attempt is followed by another.
AskAgainAlways(r) ==
    /\ stage[r] = "asking" /\ attempt[r] < MaxAttempts + 1
    /\ attempt' = [attempt EXCEPT ![r] = @ + 1]
    /\ UNCHANGED <<dataVars, stage, text, queryVars, reply>>

AskAgain(r) ==
    /\ stage[r] = "asking" /\ attempt[r] + 1 < MaxAttempts
    /\ attempt' = [attempt EXCEPT ![r] = @ + 1]
    /\ UNCHANGED <<dataVars, stage, text, queryVars, reply>>

\* or for good, as an unusable thumbnail does and, sooner, an open breaker.
Undescribed(r) ==
    /\ r \in Describers /\ stage[r] \in {"idle", "asking"}
    /\ GoTo(r, "composing")
    /\ attempt' = [attempt EXCEPT ![r] = 0]
    /\ UNCHANGED <<dataVars, text, queryVars, reply>>

\* Fault: the write is not awaited and never runs.
StoreUnawaited(r) ==
    /\ stage[r] = "caching" /\ GoTo(r, "composing")
    /\ UNCHANGED <<dataVars, text, attempt, queryVars, reply>>

\* The text is kept for good, unless the cache fails, which goes unnoticed.
Store(r) ==
    /\ stage[r] = "caching" /\ GoTo(r, "composing")
    /\ cached' \in {cached, text[r]}
    /\ cacheFailed' = (cacheFailed \/ cached' # text[r])
    /\ UNCHANGED <<row, text, attempt, queryVars, reply>>

\* The response is composed; one with a description is saved.
Composed(r) ==
    /\ stage[r] = "composing"
    /\ IF text[r] \in Texts
       THEN GoTo(r, "connecting") /\ UNCHANGED reply
       ELSE Done(r, "undescribed")
    /\ UNCHANGED <<dataVars, text, attempt, queryVars>>
-----------------------------------------------------------------------------
\* A request to get, list or delete.
Ask(r) ==
    /\ stage[r] = "idle" /\ r \notin Describers
    /\ GoTo(r, "connecting")
    /\ UNCHANGED <<dataVars, text, attempt, queryVars, reply>>

\* get_client gives the client, to which the statement is sent, or refuses
\* during its backoff, or fails.
Connect(r) ==
    /\ stage[r] = "connecting"
    /\ \/ /\ GoTo(r, "querying")
          /\ statement' = [statement EXCEPT ![r] = "sent"] /\ UNCHANGED reply
       \/ \E o \in {"refused", "failed"} : Done(r, ReplyTo(r, o)) /\ UNCHANGED statement
    /\ UNCHANGED <<dataVars, text, attempt, result>>

\* The database executes a statement that it was sent, whoever still waits.
Execute(r, becomes) ==
    /\ statement[r] = "sent"
    /\ statement' = [statement EXCEPT ![r] = "executed"]
    /\ result' = [result EXCEPT ![r] = row]
    /\ row' = becomes
    /\ UNCHANGED <<cached, cacheFailed, stage, text, attempt, reply>>

Upsert(r) == r \in Describers /\ Execute(r, text[r])
Select(r) == r \in Getters \cup Listers /\ Execute(r, row)
Delete(r) == r \in Deleters /\ Execute(r, NoText)

Answer(r) ==
    /\ stage[r] = "querying" /\ statement[r] = "executed"
    /\ Done(r, ReplyTo(r, IF result[r] = NoText THEN "no row" ELSE "row"))
    /\ UNCHANGED <<dataVars, text, attempt, queryVars>>

\* An error, or the timeout of a save, from which the database knows nothing.
QueryFails(r) ==
    /\ stage[r] = "querying"
    /\ Done(r, ReplyTo(r, "failed"))
    /\ UNCHANGED <<dataVars, text, attempt, queryVars>>

\* The request's timeout, or a disconnected client.
Cancel(r) ==
    /\ stage[r] \notin {"idle", "done"}
    /\ Done(r, "cancelled")
    /\ attempt' = [attempt EXCEPT ![r] = 0]
    /\ UNCHANGED <<dataVars, text, queryVars>>

Next ==
    \E r \in Requests :
       \/ LookUp(r) \/ Describe(r) \/ AskAgain(r) \/ Undescribed(r)
       \/ Store(r) \/ Composed(r)
       \/ Ask(r) \/ Connect(r) \/ Answer(r) \/ QueryFails(r) \/ Cancel(r)
       \/ Upsert(r) \/ Select(r) \/ Delete(r)

Spec == Init /\ [][Next]_vars
-----------------------------------------------------------------------------
Stages == {"idle", "asking", "caching", "composing", "connecting", "querying", "done"}

Replies == {"none", "error", "found", "missing", "empty", "deleted", "unsaved", "saved",
            "undescribed", "cancelled"}

TypeOK ==
    /\ cached \in Texts \cup {Empty, NoText} /\ row \in Texts \cup {NoText}
    /\ cacheFailed \in BOOLEAN
    /\ stage \in [Requests -> Stages]
    /\ text \in [Requests -> Texts \cup {Empty, NoText}]
    /\ attempt \in [Requests -> 0..MaxAttempts - 1]
    /\ statement \in [Requests -> {"none", "sent", "executed"}]
    /\ result \in [Requests -> Texts \cup {NoText}]
    /\ reply \in [Requests -> Replies]

\* Requests that have been told that the description is deleted.
Told == {d \in Deleters : reply[d] = "deleted"}

Saves == {s \in Describers : statement[s] = "executed"}

\* A 204 is given once for a row: each needs a save of its own, and so does a
\* row that is there, whatever timed out and was executed late, and however
\* many requests delete the same description at the same time.
DeletedOnce ==
    Cardinality(Told) + (IF row = NoText THEN 0 ELSE 1) <= Cardinality(Saves)

\* What has been paid for is not lost with the save: once a request has come
\* to its save, however that ended, a request that starts later does not ask
\* the model again, as long as the cache works.
RetryFromCache ==
    [][\A r \in Describers : stage[r] = "idle" /\ stage'[r] = "asking" =>
           \/ cacheFailed'
           \/ \A s \in Describers :
                 /\ stage[s] \notin {"connecting", "querying"}
                 /\ reply[s] \notin {"error", "unsaved", "saved"}]_vars

\* The 404 that get and delete document: there is no description of the image,
\* at the time of the query or at that of the reply.
MissingMeansAbsent ==
    [][\A r \in Requests : reply[r] # "missing" /\ reply'[r] = "missing" =>
           row = NoText \/ (statement[r] = "executed" /\ result[r] = NoText)]_vars
=============================================================================
