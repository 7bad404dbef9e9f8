-------------------------------- MODULE Auth --------------------------------
(***************************************************************************)
(* The cached key set of app/auth.py: tasks that authenticate a bearer      *)
(* token get it from the cache while it is younger than its time to live,   *)
(* and otherwise fetch it, one at a time, under a lock held across the      *)
(* fetch.  The provider is external: it changes its keys, and answers with  *)
(* those it had at some moment of the fetch, with an empty set, or fails.   *)
(*                                                                         *)
(* A task that presents an API key, or finds a fresh key set, suspends       *)
(* nowhere and changes nothing; it has no action.                          *)
(***************************************************************************)
EXTENDS HttpClient, WaitQueue

CONSTANTS Verifiers,     \* tasks that authenticate
          NoVerifier,
          Ttl,           \* jwks_ttl_seconds
          MaxRotations   \* bound: how often the provider changes its keys

ASSUME VerifiersAssumption == NoVerifier \notin Verifiers
ASSUME TtlAssumption == Ttl \in Nat \ {0} /\ MaxRotations \in Nat

VARIABLES published,     \* the version of the keys that the provider has now
          since,         \* time since each version was published, up to Ttl
          keys,          \* _jwks_cache: a version, or NoKeys for None and {}
          age,           \* time since _jwks_cache_ts, up to Ttl
          begun,         \* time since the fetching task read the clock, up to Ttl
          base,          \* history: the version published at that moment
          owner,         \* the task that holds _jwks_lock, across its fetch
          queue,         \* the tasks that wait for it
          auth,          \* where each task stands
          uses           \* the client that the owner fetches with

fetchVars == <<begun, base, uses>>
providerVars == <<published, since>>
authVars == <<providerVars, keys, age, fetchVars, owner, queue, auth>>

NoKeys == -1

InitAuth ==
    /\ published = 0 /\ since = [v \in 0..MaxRotations |-> Ttl]
    /\ keys = NoKeys /\ age = Ttl
    /\ begun = 0 /\ base = 0 /\ uses = NoClient
    /\ owner = NoVerifier /\ queue = <<>>
    /\ auth = [c \in Verifiers |-> "idle"]

\* A look at the cache finds a key set that may be used.
Fresh == keys # NoKeys /\ age < Ttl

Becomes(c, state) == auth' = [auth EXCEPT ![c] = state]
-----------------------------------------------------------------------------
\* Faults: the cache is not looked at again under the lock; the time of the
\* fetch is its end.
UnderLockUnchecked(c) ==
    /\ owner' = c /\ Becomes(c, "fetching")
    /\ \E k \in 1..made + 1 : GetClient(k) /\ uses' = k
    /\ begun' = 0 /\ base' = published
FetchedLate(c) ==
    /\ auth[c] = "fetching" /\ Becomes(c, "idle")
    /\ keys' \in base..published /\ age' = 0
    /\ owner' = NoVerifier
    /\ UNCHANGED <<providerVars, fetchVars, queue, clientVars>>

\* The body of "async with _jwks_lock" up to its end or its await: another
\* task has fetched the keys in the meantime, or this one does.
UnderLock(c) ==
    \/ /\ Fresh
       /\ owner' = NoVerifier /\ Becomes(c, "idle")
       /\ UNCHANGED <<fetchVars, clientVars>>
    \/ /\ ~Fresh
       /\ owner' = c /\ Becomes(c, "fetching")
       /\ \E k \in 1..made + 1 : GetClient(k) /\ uses' = k
       /\ begun' = 0 /\ base' = published

\* authenticate with a bearer token, when the cached keys will not do.
Authenticate(c) ==
    /\ auth[c] = "idle" /\ ~Fresh
    /\ \/ /\ owner = NoVerifier /\ queue = <<>>
          /\ UnderLock(c)
          /\ UNCHANGED queue
       \/ /\ owner # NoVerifier \/ queue # <<>>
          /\ Becomes(c, "waiting")
          /\ queue' = Append(queue, c)
          /\ UNCHANGED <<owner, fetchVars, clientVars>>
    /\ UNCHANGED <<providerVars, keys, age>>

\* The first waiter resumes with the lock.
TakeTurn(c) ==
    /\ auth[c] = "waiting"
    /\ owner = NoVerifier /\ queue # <<>> /\ Head(queue) = c
    /\ queue' = Tail(queue)
    /\ UnderLock(c)
    /\ UNCHANGED <<providerVars, keys, age>>

\* The answer is kept, as old as the clock reading before the fetch, and
\* used.  An empty object is kept too, but is no key set to the next look.
Fetched(c) ==
    /\ auth[c] = "fetching" /\ Becomes(c, "idle")
    /\ keys' \in base..published \cup {NoKeys}
    /\ age' = begun
    /\ owner' = NoVerifier
    /\ UNCHANGED <<providerVars, fetchVars, queue, clientVars>>

\* No answer, an error status, or no JSON: the exception leaves the lock.
FetchFails(c) ==
    /\ auth[c] = "fetching" /\ Becomes(c, "idle")
    /\ owner' = NoVerifier
    /\ UNCHANGED <<providerVars, keys, age, fetchVars, queue, clientVars>>

\* The client of the API disconnects.
Disconnect(c) ==
    /\ auth[c] # "idle" /\ Becomes(c, "idle")
    /\ owner' = IF owner = c THEN NoVerifier ELSE owner
    /\ queue' = Without(queue, c)
    /\ UNCHANGED <<providerVars, keys, age, fetchVars, clientVars>>

\* The provider publishes new keys.
Rotate ==
    /\ published < MaxRotations
    /\ published' = published + 1
    /\ since' = [since EXCEPT ![published'] = 0]
    /\ UNCHANGED <<keys, age, fetchVars, owner, queue, auth, clientVars>>

Older(t) == IF t < Ttl THEN t + 1 ELSE t

Tick ==
    /\ since' = [v \in 0..MaxRotations |-> Older(since[v])]
    /\ age' = Older(age) /\ begun' = Older(begun)
    /\ UNCHANGED <<published, keys, base, uses, owner, queue, auth, clientVars>>

AuthNext ==
    \/ \E c \in Verifiers :
          \/ Authenticate(c) \/ TakeTurn(c) \/ Fetched(c) \/ FetchFails(c) \/ Disconnect(c)
    \/ Rotate
    \/ Tick
=============================================================================
