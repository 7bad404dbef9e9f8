------------------------------ MODULE Download ------------------------------
(***************************************************************************)
(* The download of a thumbnail (_download_image of app/modules/describer.py *)
(* under retry_http of app/utils/retry.py): redirects are followed by hand, *)
(* each on the client that the attempt began with, the body is read chunk   *)
(* by chunk, and a transient failure is tried again from the start.         *)
(* The servers asked are external; whether a target is acceptable, and how  *)
(* an error is classified, is a choice.                                    *)
(***************************************************************************)
EXTENDS HttpClient

CONSTANTS Downloads,     \* tasks that download an image
          MaxRedirects,  \* max_image_redirects
          MaxBytes       \* max_image_download_bytes

ASSUME LimitsAssumption == MaxRedirects \in Nat \ {0} /\ MaxBytes \in Nat \ {0}

MaxAttempts == 3

VARIABLES leg,           \* what each download awaits
          via,           \* the client its attempt goes through
          hop,           \* the redirects followed in this attempt
          size,          \* the bytes read in this attempt
          attempt        \* the attempts made

downloadVars == <<leg, via, hop, size, attempt>>

Legs == {"none", "response", "body", "pause"}

InitDownload ==
    /\ leg = [d \in Downloads |-> "none"]
    /\ via = [d \in Downloads |-> NoClient]
    /\ hop = [d \in Downloads |-> 0]
    /\ size = [d \in Downloads |-> 0]
    /\ attempt = [d \in Downloads |-> 0]

\* Attempt n of d begins: the request goes out to the first URL.
Attempt(d, n) ==
    /\ \E k \in 1..made + 1 : GetClient(k) /\ via' = [via EXCEPT ![d] = k]
    /\ leg' = [leg EXCEPT ![d] = "response"]
    /\ attempt' = [attempt EXCEPT ![d] = n]
    /\ UNCHANGED <<hop, size>>

\* The attempt is over; the next state of d is given.
Leave(d, state, n) ==
    /\ leg' = [leg EXCEPT ![d] = state]
    /\ via' = [via EXCEPT ![d] = NoClient]
    /\ hop' = [hop EXCEPT ![d] = 0]
    /\ size' = [size EXCEPT ![d] = 0]
    /\ attempt' = [attempt EXCEPT ![d] = n]
    /\ UNCHANGED clientVars

\* The image, a ValueError, or an error that is not tried again.
Finish(d) == Leave(d, "none", 0)
-----------------------------------------------------------------------------
Begin(d) == leg[d] = "none" /\ Attempt(d, 1)

\* Fault: the limit of redirects is off by one.
RedirectedOneMore(d) ==
    /\ leg[d] = "response"
    /\ \/ /\ hop[d] <= MaxRedirects /\ via[d] \in open
          /\ hop' = [hop EXCEPT ![d] = @ + 1]
          /\ UNCHANGED <<leg, via, size, attempt, clientVars>>
       \/ Finish(d)

\* A redirect to an acceptable target is followed, on the same client, unless
\* there have been too many; a client that has been closed refuses to send.
Redirected(d) ==
    /\ leg[d] = "response"
    /\ \/ /\ hop[d] < MaxRedirects /\ via[d] \in open
          /\ hop' = [hop EXCEPT ![d] = @ + 1]
          /\ UNCHANGED <<leg, via, size, attempt, clientVars>>
       \/ Finish(d)

\* A status of success and no content-length above the limit, or that.
Responded(d) ==
    /\ leg[d] = "response"
    /\ \/ /\ leg' = [leg EXCEPT ![d] = "body"]
          /\ UNCHANGED <<via, hop, size, attempt, clientVars>>
       \/ Finish(d)

\* The next chunk of the body, of n bytes.
Chunk(d) ==
    /\ leg[d] = "body"
    /\ \E n \in 1..MaxBytes + 1 :
          IF size[d] + n > MaxBytes
          THEN Finish(d)
          ELSE /\ size' = [size EXCEPT ![d] = @ + n]
               /\ UNCHANGED <<leg, via, hop, attempt, clientVars>>

Complete(d) == leg[d] = "body" /\ Finish(d)

\* Fault: there is no end of attempts.
FailsForever(d) == leg[d] \in {"response", "body"} /\ Leave(d, "pause", 1)

Fails(d) ==
    /\ leg[d] \in {"response", "body"}
    /\ \/ attempt[d] < MaxAttempts /\ Leave(d, "pause", attempt[d])
       \/ Finish(d)

\* The pause before the next attempt is over.
TryAgain(d) == leg[d] = "pause" /\ Attempt(d, attempt[d] + 1)

\* The request's timeout, or a disconnected client.
CancelDownload(d) == leg[d] # "none" /\ Finish(d)

\* What ends what the download awaits.
Proceed(d) ==
    Redirected(d) \/ Responded(d) \/ Chunk(d) \/ Complete(d) \/ Fails(d) \/ TryAgain(d)

DownloadNext == \E d \in Downloads : Begin(d) \/ Proceed(d) \/ CancelDownload(d)
=============================================================================
