----------------------------- MODULE HttpClient -----------------------------
(***************************************************************************)
(* The HTTP client that all modules share (app/http_client.py).  Nobody     *)
(* suspends under its lock, which is therefore never found taken: the whole *)
(* of get_client belongs to its caller's step.  close_client suspends once, *)
(* between closing the client, which shows at once, and forgetting it.      *)
(***************************************************************************)
EXTENDS Integers

VARIABLES made,      \* how many clients have been created; they are numbered
          client,    \* the number of _client, or NoClient for None
          open,      \* the clients that are not closed
          closing    \* how far the shutdown has come with close_client

clientVars == <<made, client, open, closing>>

NoClient == 0

InitClient == made = 0 /\ client = NoClient /\ open = {} /\ closing = "no"

\* Fault: "global _client" is missing, every caller makes a client of its own.
GetClientLocally(k) ==
    /\ k = made + 1 /\ made' = k /\ open' = open \cup {k}
    /\ UNCHANGED <<client, closing>>

\* get_client returns client k: the present one, unless it is None or closed.
GetClient(k) ==
    /\ \/ /\ client \in open /\ k = client
          /\ UNCHANGED <<made, client, open>>
       \/ /\ client \notin open /\ k = made + 1
          /\ made' = k /\ client' = k /\ open' = open \cup {k}
    /\ UNCHANGED closing

\* close_client up to its await, and from there; lifespan calls it once.
BeginClose ==
    /\ closing = "no"
    /\ closing' = IF client \in open THEN "awaiting" ELSE "done"
    /\ open' = open \ {client}
    /\ UNCHANGED <<made, client>>

EndClose ==
    /\ closing = "awaiting" /\ closing' = "done"
    /\ client' = NoClient
    /\ UNCHANGED <<made, open>>
=============================================================================
