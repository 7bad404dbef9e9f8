------------------------------- MODULE Clients -------------------------------
(***************************************************************************)
(* The shared HTTP client with two kinds of users that need more than one   *)
(* step with it, the authentication's fetch of keys and the download of an  *)
(* image, and with lifespan closing it at shutdown, when requests that have *)
(* outlived the drain may still be running.                                *)
(***************************************************************************)
EXTENDS Auth, Download

vars == <<clientVars, authVars, downloadVars>>

Init == InitClient /\ InitAuth /\ InitDownload

Close == BeginClose \/ EndClose

Next ==
    \/ AuthNext /\ UNCHANGED downloadVars
    \/ DownloadNext /\ UNCHANGED authVars
    \/ Close /\ UNCHANGED <<authVars, downloadVars>>

\* A task is resumed when its turn has come, and what it awaits of another
\* server ends, as the client's timeouts see to.
Fairness ==
    /\ \A c \in Verifiers :
          /\ WF_vars(TakeTurn(c) /\ UNCHANGED downloadVars)
          /\ WF_vars((Fetched(c) \/ FetchFails(c)) /\ UNCHANGED downloadVars)
    /\ \A d \in Downloads : WF_vars(Proceed(d) /\ UNCHANGED authVars)

Spec == Init /\ [][Next]_vars /\ Fairness
-----------------------------------------------------------------------------
\* The client that a download or the fetch of keys is under way with.
InUse == {via[d] : d \in {e \in Downloads : leg[e] \in {"response", "body"}}}
         \cup (IF owner = NoVerifier THEN {} ELSE {uses})

TypeOK ==
    /\ made \in 0..3 /\ client \in 0..made /\ open \subseteq 1..made
    /\ closing \in {"no", "awaiting", "done"}
    /\ published \in 0..MaxRotations /\ since \in [0..MaxRotations -> 0..Ttl]
    /\ keys \in 0..published \cup {NoKeys} /\ age \in 0..Ttl
    /\ begun \in 0..Ttl /\ base \in 0..published /\ uses \in 0..made
    /\ owner \in Verifiers \cup {NoVerifier} /\ queue \in Seq(Verifiers)
    /\ auth \in [Verifiers -> {"idle", "waiting", "fetching"}]
    /\ leg \in [Downloads -> Legs] /\ via \in [Downloads -> 0..made]
    /\ hop \in [Downloads -> 0..MaxRedirects]
    /\ size \in [Downloads -> 0..MaxBytes]
    /\ attempt \in [Downloads -> 0..MaxAttempts]

\* The client is shared: until it is closed at shutdown there is only one, and
\* whatever is under way goes through it, open; and the race of close_client,
\* which awaits without the lock, with get_client leaks one client at most.
SharedClient ==
    /\ closing = "no" => open \subseteq {client} /\ InUse \subseteq open
    /\ closing = "awaiting" => open \subseteq {client}
    /\ \A k, l \in open \ {client} : k = l

\* Keys that the cache serves were still the provider's within the time to
\* live: however long a fetch took, and whenever the keys changed, a set that
\* has been replaced is used no longer than that.
KeysRecent == Fresh => keys = published \/ since[keys + 1] < Ttl

\* The keys are fetched once for all: no task begins a fetch, or is left with
\* one of its own after waiting, while a set is cached that may be used.
FetchOnlyWhenStale ==
    [][\A c \in Verifiers : auth[c] # "fetching" /\ auth'[c] = "fetching" =>
           ~Fresh /\ \A e \in Verifiers : auth[e] # "fetching"]_vars

\* Every authentication and every download ends: through failures and
\* cancellations of those ahead in line, redirects without end, bodies without
\* end, and a client that is closed underneath.
EveryoneEnds ==
    /\ \A c \in Verifiers : auth[c] # "idle" ~> auth[c] = "idle"
    /\ \A d \in Downloads : leg[d] # "none" ~> leg[d] = "none"
=============================================================================
