---------------------------- MODULE ClientsProofs ----------------------------
(***************************************************************************)
(* The safety of Clients for all verifiers and downloads, every time to     *)
(* live, any number of rotations, and any limits of a download.             *)
(***************************************************************************)
EXTENDS Clients, SequenceTheorems, TLAPS

\* Which clients there are.  They are numbered in their order: the first one is
\* closed at shutdown, the second is made while it is being closed, or after
\* that like the third.
ClientInv ==
    /\ made \in 0..3 /\ client \in 0..made /\ open \subseteq 1..made
    /\ closing \in {"no", "awaiting", "done"}
    /\ closing = "no" => made <= 1 /\ client = made /\ open = 1..made
    /\ closing = "awaiting" => made \in 1..2 /\ client = made /\ open = 2..made
    /\ closing = "done" =>
          \/ client = NoClient /\ made <= 2 /\ open \subseteq 2..made
          \/ client = made /\ client \in open /\ open \ {client} \subseteq {2}

\* What the downloads have, and that it is open as long as nothing is closed.
DownloadInv ==
    /\ leg \in [Downloads -> Legs] /\ via \in [Downloads -> 0..made]
    /\ hop \in [Downloads -> 0..MaxRedirects]
    /\ size \in [Downloads -> 0..MaxBytes]
    /\ attempt \in [Downloads -> 0..MaxAttempts]
    /\ \A d \in Downloads : leg[d] = "pause" => attempt[d] < MaxAttempts
    /\ closing = "no" =>
          \A d \in Downloads : leg[d] \in {"response", "body"} => via[d] \in open

\* Who fetches holds the lock, with a client of which the same is true.
LockInv ==
    /\ uses \in 0..made
    /\ owner \in Verifiers \cup {NoVerifier} /\ queue \in Seq(Verifiers)
    /\ auth \in [Verifiers -> {"idle", "waiting", "fetching"}]
    /\ \A c \in Verifiers : auth[c] = "fetching" <=> owner = c
    /\ closing = "no" => owner = NoVerifier \/ uses \in open

\* A version that was replaced was so before any later one.  The cached keys
\* were the provider's as long ago as they are old, and those that a fetch can
\* bring as long ago as it began: a fetch hands its own age on to the keys.
KeysInv ==
    /\ published \in 0..MaxRotations /\ since \in [0..MaxRotations -> 0..Ttl]
    /\ keys \in 0..published \cup {NoKeys} /\ age \in 0..Ttl
    /\ begun \in 0..Ttl /\ base \in 0..published
    /\ \A v, w \in 1..published : v <= w => since[w] <= since[v]
    /\ keys # NoKeys => keys = published \/ since[keys + 1] <= age
    /\ base = published \/ since[base + 1] <= begun

IInv == ClientInv /\ DownloadInv /\ LockInv /\ KeysInv

LEMMA WithoutType ==
    ASSUME NEW q \in Seq(Verifiers), NEW c \in Verifiers
    PROVE  Without(q, c) \in Seq(Verifiers)
  BY DEF Without, Position, RemoveAt
-----------------------------------------------------------------------------
LEMMA InitIInv == Init => IInv
  <1> SUFFICES ASSUME Init PROVE IInv  OBVIOUS
  <1>1. ClientInv  BY DEF Init, InitClient, ClientInv, NoClient
  <1>2. DownloadInv
    BY LimitsAssumption
       DEF Init, InitClient, InitDownload, DownloadInv, Legs, NoClient, MaxAttempts
  <1>3. LockInv
    BY VerifiersAssumption DEF Init, InitClient, InitAuth, LockInv, NoClient
  <1>4. KeysInv  BY TtlAssumption DEF Init, InitAuth, KeysInv, NoKeys
  <1> QED  BY <1>1, <1>2, <1>3, <1>4 DEF IInv

\* What get_client does to the clients, and what it returns.
LEMMA GetClientStep ==
    ASSUME ClientInv, NEW k \in 1..made + 1, GetClient(k)
    PROVE  /\ ClientInv'
           /\ k \in open' /\ k \in 0..made'
           /\ made <= made' /\ open \subseteq open' /\ closing' = closing
  <1>1. CASE client \in open /\ k = client /\ UNCHANGED <<made, client, open, closing>>
    BY <1>1 DEF ClientInv, NoClient
  <1>2. CASE /\ client \notin open /\ k = made + 1
             /\ made' = k /\ client' = k /\ open' = open \cup {k} /\ UNCHANGED closing
    <2>1. CASE closing = "no"
      BY <1>2, <2>1 DEF ClientInv, NoClient
    <2>2. CASE closing = "awaiting"
      BY <1>2, <2>2 DEF ClientInv, NoClient
    <2>3. CASE closing = "done"
      <3>1. client = NoClient /\ made <= 2 /\ open \subseteq 2..made
        BY <1>2, <2>3 DEF ClientInv
      <3>2. open' \ {client'} \subseteq {2}  BY <1>2, <3>1 DEF ClientInv
      <3>3. made' \in 0..3 /\ client' \in 0..made' /\ open' \subseteq 1..made'
        BY <1>2, <3>1 DEF ClientInv
      <3> QED  BY <1>2, <2>3, <3>2, <3>3 DEF ClientInv
    <2> QED  BY <1>2, <2>1, <2>2, <2>3 DEF ClientInv
  <1> QED  BY <1>1, <1>2 DEF GetClient

\* Other components keep what they have of the clients, whoever gets one.
LEMMA OthersKeep ==
    ASSUME made \in Nat, made' \in Nat, made <= made', open \subseteq open', closing' = closing
    PROVE  /\ DownloadInv /\ UNCHANGED downloadVars => DownloadInv'
           /\ LockInv /\ UNCHANGED <<uses, owner, queue, auth>> => LockInv'
  <1>1. 0..made \subseteq 0..made'  OBVIOUS
  <1>2. DownloadInv /\ UNCHANGED downloadVars => DownloadInv'
    BY <1>1 DEF DownloadInv, downloadVars
  <1>3. LockInv /\ UNCHANGED <<uses, owner, queue, auth>> => LockInv'
    BY <1>1 DEF LockInv
  <1> QED  BY <1>2, <1>3
-----------------------------------------------------------------------------
LEMMA AttemptKeeps ==
    ASSUME ClientInv, DownloadInv, NEW d \in Downloads, NEW n \in 1..MaxAttempts, Attempt(d, n)
    PROVE  ClientInv' /\ DownloadInv'
           /\ made <= made' /\ open \subseteq open' /\ closing' = closing
  <1>1. PICK k \in 1..made + 1 : GetClient(k) /\ via' = [via EXCEPT ![d] = k]
    BY DEF Attempt
  <1>2. /\ ClientInv' /\ k \in open' /\ k \in 0..made'
        /\ made <= made' /\ open \subseteq open' /\ closing' = closing
    BY <1>1, GetClientStep
  <1>3. via' \in [Downloads -> 0..made']
    <2>1. 0..made \subseteq 0..made'  BY <1>2 DEF ClientInv
    <2> QED  BY <1>1, <1>2, <2>1 DEF DownloadInv
  <1>4. /\ leg' \in [Downloads -> Legs] /\ attempt' \in [Downloads -> 0..MaxAttempts]
        /\ \A e \in Downloads : leg'[e] = "pause" => attempt'[e] < MaxAttempts
    BY DEF Attempt, DownloadInv, Legs, MaxAttempts
  <1>5. closing' = "no" =>
          \A e \in Downloads : leg'[e] \in {"response", "body"} => via'[e] \in open'
    BY <1>1, <1>2 DEF Attempt, DownloadInv
  <1> QED  BY <1>2, <1>3, <1>4, <1>5 DEF DownloadInv, Attempt

LEMMA LeaveKeeps ==
    ASSUME DownloadInv, ClientInv, NEW d \in Downloads, NEW n \in 0..MaxAttempts,
           NEW where \in {"none", "pause"}, where = "pause" => n < MaxAttempts,
           Leave(d, where, n)
    PROVE  DownloadInv'
  BY LimitsAssumption
     DEF Leave, DownloadInv, ClientInv, Legs, clientVars, MaxAttempts, NoClient

LEMMA DownloadKeeps ==
    ASSUME IInv, DownloadNext, UNCHANGED authVars
    PROVE  IInv'
  <1>1. PICK d \in Downloads : Begin(d) \/ Proceed(d) \/ CancelDownload(d)
    BY DEF DownloadNext
  <1>2. KeysInv'  BY DEF IInv, KeysInv, authVars, providerVars, fetchVars
  <1>3. UNCHANGED <<uses, owner, queue, auth>>  BY DEF authVars, fetchVars
  <1>4. SUFFICES ClientInv' /\ DownloadInv'
                 /\ made <= made' /\ open \subseteq open' /\ closing' = closing
    BY <1>2, <1>3, <1>4, OthersKeep DEF IInv, ClientInv
  <1>5. CASE Begin(d) \/ TryAgain(d)
    <2>1. \E n \in 1..MaxAttempts : Attempt(d, n)
      BY <1>5 DEF Begin, TryAgain, IInv, DownloadInv, MaxAttempts
    <2> QED  BY <2>1, AttemptKeeps DEF IInv
  <1>6. ASSUME UNCHANGED clientVars, DownloadInv'
        PROVE  ClientInv' /\ DownloadInv'
               /\ made <= made' /\ open \subseteq open' /\ closing' = closing
    BY <1>6 DEF IInv, ClientInv, clientVars
  <1>7. CASE Finish(d)
    <2>1. DownloadInv'  BY <1>7, LeaveKeeps DEF Finish, IInv, MaxAttempts
    <2> QED  BY <1>6, <1>7, <2>1 DEF Finish, Leave
  <1>8. CASE Fails(d)
    <2>1. CASE attempt[d] < MaxAttempts /\ Leave(d, "pause", attempt[d])
      BY <1>6, <2>1, LeaveKeeps DEF IInv, DownloadInv, Leave, MaxAttempts
    <2> QED  BY <1>7, <1>8, <2>1 DEF Fails
  <1>9. CASE Redirected(d)
    <2>1. CASE /\ hop[d] < MaxRedirects /\ hop' = [hop EXCEPT ![d] = @ + 1]
               /\ UNCHANGED <<leg, via, size, attempt, clientVars>>
      <3>1. DownloadInv'
        BY <2>1, LimitsAssumption DEF IInv, DownloadInv, clientVars
      <3> QED  BY <1>6, <2>1, <3>1
    <2> QED  BY <1>7, <1>9, <2>1 DEF Redirected
  <1>10. CASE Responded(d)
    <2>1. CASE /\ leg[d] = "response" /\ leg' = [leg EXCEPT ![d] = "body"]
               /\ UNCHANGED <<via, hop, size, attempt, clientVars>>
      <3>1. DownloadInv'
        BY <2>1 DEF IInv, DownloadInv, Legs, clientVars
      <3> QED  BY <1>6, <2>1, <3>1
    <2> QED  BY <1>7, <1>10, <2>1 DEF Responded
  <1>11. CASE Chunk(d)
    <2>1. PICK n \in 1..MaxBytes + 1 :
             \/ Finish(d)
             \/ /\ size[d] + n <= MaxBytes /\ size' = [size EXCEPT ![d] = @ + n]
                /\ UNCHANGED <<leg, via, hop, attempt, clientVars>>
      BY <1>11, LimitsAssumption DEF Chunk, IInv, DownloadInv
    <2>2. CASE /\ size[d] + n <= MaxBytes /\ size' = [size EXCEPT ![d] = @ + n]
               /\ UNCHANGED <<leg, via, hop, attempt, clientVars>>
      <3>1. DownloadInv'
        BY <2>2, LimitsAssumption DEF IInv, DownloadInv, clientVars
      <3> QED  BY <1>6, <2>2, <3>1
    <2> QED  BY <1>7, <2>1, <2>2
  <1> QED
    BY <1>1, <1>5, <1>7, <1>8, <1>9, <1>10, <1>11 DEF Proceed, Complete, CancelDownload
-----------------------------------------------------------------------------
LEMMA UnderLockKeeps ==
    ASSUME IInv, NEW c \in Verifiers, owner = NoVerifier, UnderLock(c),
           queue' \in Seq(Verifiers), UNCHANGED <<providerVars, keys, age, downloadVars>>
    PROVE  IInv'
  <1>1. CASE owner' = NoVerifier /\ Becomes(c, "idle") /\ UNCHANGED <<fetchVars, clientVars>>
    <2>1. ClientInv'  BY <1>1 DEF IInv, ClientInv, clientVars
    <2>2. DownloadInv'  BY <1>1 DEF IInv, DownloadInv, clientVars, downloadVars
    <2>3. LockInv'
      BY <1>1, VerifiersAssumption DEF IInv, LockInv, Becomes, fetchVars, clientVars
    <2>4. KeysInv'  BY <1>1 DEF IInv, KeysInv, fetchVars, providerVars
    <2> QED  BY <2>1, <2>2, <2>3, <2>4 DEF IInv
  <1>2. CASE /\ owner' = c /\ Becomes(c, "fetching")
             /\ \E k \in 1..made + 1 : GetClient(k) /\ uses' = k
             /\ begun' = 0 /\ base' = published
    <2>1. PICK k \in 1..made + 1 : GetClient(k) /\ uses' = k  BY <1>2
    <2>2. /\ ClientInv' /\ k \in open' /\ k \in 0..made'
          /\ made <= made' /\ open \subseteq open' /\ closing' = closing
      BY <2>1, GetClientStep DEF IInv
    <2>3. DownloadInv'  BY <2>2, OthersKeep DEF IInv, ClientInv
    <2>4. LockInv'
      BY <1>2, <2>1, <2>2, VerifiersAssumption DEF IInv, LockInv, Becomes
    <2>5. KeysInv'  BY <1>2, TtlAssumption DEF IInv, KeysInv, providerVars
    <2> QED  BY <2>2, <2>3, <2>4, <2>5 DEF IInv
  <1> QED  BY <1>1, <1>2 DEF UnderLock

\* Steps that leave the clients alone touch the line or the keys.
LEMMA ClientsKept ==
    ASSUME IInv, UNCHANGED <<clientVars, downloadVars>>
    PROVE  ClientInv' /\ DownloadInv'
  BY DEF IInv, ClientInv, DownloadInv, clientVars, downloadVars

LEMMA VerifierKeeps ==
    ASSUME IInv, NEW c \in Verifiers, UNCHANGED downloadVars,
           Authenticate(c) \/ TakeTurn(c) \/ Fetched(c) \/ FetchFails(c) \/ Disconnect(c)
    PROVE  IInv'
  <1>1. CASE Authenticate(c)
    <2>1. CASE owner = NoVerifier /\ UnderLock(c) /\ UNCHANGED queue
      <3>1. UNCHANGED <<providerVars, keys, age>>  BY <1>1 DEF Authenticate
      <3>2. queue' \in Seq(Verifiers)  BY <2>1 DEF IInv, LockInv
      <3> QED  BY <2>1, <3>1, <3>2, UnderLockKeeps DEF providerVars
    <2>2. CASE /\ Becomes(c, "waiting") /\ queue' = Append(queue, c)
               /\ UNCHANGED <<owner, fetchVars, clientVars>>
      <3>1. LockInv'
        BY <1>1, <2>2 DEF Authenticate, IInv, LockInv, Becomes, fetchVars, clientVars
      <3>2. KeysInv'
        BY <1>1, <2>2 DEF Authenticate, IInv, KeysInv, fetchVars, providerVars
      <3> QED  BY <2>2, <3>1, <3>2, ClientsKept DEF IInv
    <2> QED  BY <1>1, <2>1, <2>2 DEF Authenticate
  <1>2. CASE TakeTurn(c)
    <2>1. /\ owner = NoVerifier /\ UnderLock(c) /\ queue' = Tail(queue) /\ queue # <<>>
          /\ UNCHANGED <<providerVars, keys, age>>
      BY <1>2 DEF TakeTurn
    <2>2. queue' \in Seq(Verifiers)  BY <2>1 DEF IInv, LockInv
    <2> QED  BY <2>1, <2>2, UnderLockKeeps DEF providerVars
  <1>3. CASE Fetched(c)
    <2>1. LockInv'
      BY <1>3, VerifiersAssumption
         DEF Fetched, IInv, LockInv, Becomes, fetchVars, clientVars
    <2>2. UNCHANGED <<published, since, begun, base>> /\ age' = begun
      BY <1>3 DEF Fetched, fetchVars, providerVars
    <2>3. keys' \in 0..published \cup {NoKeys} /\ (keys' # NoKeys => keys' \in base..published)
      BY <1>3 DEF Fetched, IInv, KeysInv
    <2>4. ASSUME NEW v \in base..published
          PROVE  v = published \/ since[v + 1] <= begun
      <3> SUFFICES ASSUME v # published PROVE since[v + 1] <= begun  OBVIOUS
      <3>1. base + 1 \in 1..published /\ v + 1 \in 1..published /\ base + 1 <= v + 1
        BY TtlAssumption DEF IInv, KeysInv
      <3>2. since[v + 1] <= since[base + 1]  BY <3>1 DEF IInv, KeysInv
      <3>3. since[base + 1] <= begun  BY <3>1 DEF IInv, KeysInv
      <3>4. since[v + 1] \in Nat /\ since[base + 1] \in Nat /\ begun \in Nat
        BY <3>1, TtlAssumption DEF IInv, KeysInv
      <3> QED  BY <3>2, <3>3, <3>4
    <2>5. KeysInv'  BY <2>2, <2>3, <2>4 DEF IInv, KeysInv
    <2> QED  BY <1>3, <2>1, <2>5, ClientsKept DEF IInv, Fetched
  <1>4. CASE FetchFails(c)
    <2>1. LockInv'
      BY <1>4, VerifiersAssumption
         DEF FetchFails, IInv, LockInv, Becomes, fetchVars, clientVars
    <2>2. KeysInv'  BY <1>4 DEF FetchFails, IInv, KeysInv, fetchVars, providerVars
    <2> QED  BY <1>4, <2>1, <2>2, ClientsKept DEF IInv, FetchFails
  <1>5. CASE Disconnect(c)
    <2>1. queue' \in Seq(Verifiers)
      BY <1>5, WithoutType DEF Disconnect, IInv, LockInv
    <2>2. LockInv'
      BY <1>5, <2>1, VerifiersAssumption
         DEF Disconnect, IInv, LockInv, Becomes, fetchVars, clientVars
    <2>3. KeysInv'  BY <1>5 DEF Disconnect, IInv, KeysInv, fetchVars, providerVars
    <2> QED  BY <1>5, <2>2, <2>3, ClientsKept DEF IInv, Disconnect
  <1> QED  BY <1>1, <1>2, <1>3, <1>4, <1>5

LEMMA TimeKeeps ==
    ASSUME IInv, Rotate \/ Tick, UNCHANGED downloadVars
    PROVE  IInv'
  <1>1. UNCHANGED <<uses, owner, queue, auth, clientVars>>
    BY DEF Rotate, Tick, fetchVars
  <1>2. LockInv'  BY <1>1 DEF IInv, LockInv, clientVars
  <1>3. CASE Rotate
    <2>1. /\ published' = published + 1 /\ published' \in 0..MaxRotations
          /\ since' = [since EXCEPT ![published + 1] = 0]
          /\ UNCHANGED <<keys, age, begun, base>>
      BY <1>3, TtlAssumption DEF Rotate, IInv, KeysInv, fetchVars
    <2>2. since' \in [0..MaxRotations -> 0..Ttl]
      BY <2>1, TtlAssumption DEF IInv, KeysInv
    <2>3. since'[published + 1] = 0 /\ \A v \in 1..published : since'[v] = since[v]
      BY <2>1, TtlAssumption DEF IInv, KeysInv
    <2>4. \A v, w \in 1..published' : v <= w => since'[w] <= since'[v]
      <3> SUFFICES ASSUME NEW v \in 1..published', NEW w \in 1..published', v <= w
                   PROVE  since'[w] <= since'[v]
        OBVIOUS
      <3>1. CASE w = published + 1
        BY <2>1, <2>2, <2>3, <3>1, TtlAssumption
      <3>2. CASE w \in 1..published
        <4>1. v \in 1..published  BY <3>2 DEF IInv, KeysInv
        <4> QED  BY <2>3, <3>2, <4>1 DEF IInv, KeysInv
      <3> QED  BY <2>1, <3>1, <3>2 DEF IInv, KeysInv
    <2>5. ASSUME NEW v \in 0..published, NEW t \in 0..Ttl, v = published \/ since[v + 1] <= t
          PROVE  since'[v + 1] <= t
      <3>1. CASE v = published  BY <2>3, <2>5, <3>1
      <3>2. CASE v # published
        <4>1. v + 1 \in 1..published  BY <3>2 DEF IInv, KeysInv
        <4> QED  BY <2>3, <2>5, <3>2, <4>1
      <3> QED  BY <3>1, <3>2
    <2>6. keys' \in 0..published' \cup {NoKeys} /\ base' \in 0..published'
      BY <2>1 DEF IInv, KeysInv
    <2>7. keys' # NoKeys => since'[keys' + 1] <= age'
      BY <2>1, <2>5 DEF IInv, KeysInv
    <2>8. since'[base' + 1] <= begun'  BY <2>1, <2>5 DEF IInv, KeysInv
    <2>9. KeysInv'  BY <2>1, <2>2, <2>4, <2>6, <2>7, <2>8 DEF IInv, KeysInv
    <2> QED  BY <1>1, <1>2, <2>9, ClientsKept DEF IInv
  <1>4. CASE Tick
    <2>1. \A s, t \in 0..Ttl : Older(s) \in 0..Ttl /\ (s <= t => Older(s) <= Older(t))
      BY TtlAssumption DEF Older
    <2>2. /\ UNCHANGED <<published, keys, base>>
          /\ age' = Older(age) /\ begun' = Older(begun)
          /\ since' = [v \in 0..MaxRotations |-> Older(since[v])]
      BY <1>4 DEF Tick
    <2>3. since' \in [0..MaxRotations -> 0..Ttl] /\ age' \in 0..Ttl /\ begun' \in 0..Ttl
      BY <2>1, <2>2 DEF IInv, KeysInv
    <2>4. \A v \in 1..published :
             v \in 0..MaxRotations /\ since[v] \in 0..Ttl /\ since'[v] = Older(since[v])
      BY <2>2, TtlAssumption DEF IInv, KeysInv
    <2>5. \A v, w \in 1..published : v <= w => since'[w] <= since'[v]
      BY <2>1, <2>4 DEF IInv, KeysInv
    <2>6. keys # NoKeys /\ keys # published => since'[keys + 1] <= age'
      <3> SUFFICES ASSUME keys # NoKeys, keys # published PROVE since'[keys + 1] <= age'
        OBVIOUS
      <3>1. keys + 1 \in 1..published  BY DEF IInv, KeysInv
      <3>2. since[keys + 1] <= age /\ age \in 0..Ttl  BY DEF IInv, KeysInv
      <3> QED  BY <2>1, <2>2, <2>4, <3>1, <3>2
    <2>7. base # published => since'[base + 1] <= begun'
      <3> SUFFICES ASSUME base # published PROVE since'[base + 1] <= begun'
        OBVIOUS
      <3>1. base + 1 \in 1..published  BY DEF IInv, KeysInv
      <3>2. since[base + 1] <= begun /\ begun \in 0..Ttl  BY DEF IInv, KeysInv
      <3> QED  BY <2>1, <2>2, <2>4, <3>1, <3>2
    <2>8. KeysInv'  BY <2>2, <2>3, <2>5, <2>6, <2>7 DEF IInv, KeysInv
    <2> QED  BY <1>1, <1>2, <2>8, ClientsKept DEF IInv
  <1> QED  BY <1>3, <1>4

LEMMA CloseKeeps ==
    ASSUME IInv, Close, UNCHANGED <<authVars, downloadVars>>
    PROVE  IInv'
  <1>1. ClientInv'
    <2>1. CASE BeginClose
      <3>1. client \in open <=> made = 1  BY <2>1 DEF BeginClose, IInv, ClientInv
      <3> QED  BY <2>1, <3>1 DEF BeginClose, IInv, ClientInv, NoClient
    <2>2. CASE EndClose  BY <2>2 DEF EndClose, IInv, ClientInv, NoClient
    <2> QED  BY <2>1, <2>2 DEF Close
  <1>2. closing' # "no" /\ made' = made  BY DEF Close, BeginClose, EndClose
  <1>3. DownloadInv'  BY <1>2 DEF IInv, DownloadInv, downloadVars
  <1>4. LockInv'  BY <1>2 DEF IInv, LockInv, authVars, fetchVars
  <1>5. KeysInv'  BY DEF IInv, KeysInv, authVars, fetchVars, providerVars
  <1> QED  BY <1>1, <1>3, <1>4, <1>5 DEF IInv

LEMMA NextIInv == IInv /\ [Next]_vars => IInv'
  <1> SUFFICES ASSUME IInv, [Next]_vars PROVE IInv'  OBVIOUS
  <1>1. CASE AuthNext /\ UNCHANGED downloadVars
    BY <1>1, VerifierKeeps, TimeKeeps DEF AuthNext
  <1>2. CASE DownloadNext /\ UNCHANGED authVars  BY <1>2, DownloadKeeps
  <1>3. CASE Close /\ UNCHANGED <<authVars, downloadVars>>  BY <1>3, CloseKeeps
  <1>4. CASE UNCHANGED vars
    BY <1>4
       DEF vars, clientVars, authVars, fetchVars, providerVars, downloadVars, IInv,
           ClientInv, DownloadInv, LockInv, KeysInv
  <1> QED  BY <1>1, <1>2, <1>3, <1>4 DEF Next

LEMMA AlwaysIInv == Spec => []IInv
  BY InitIInv, NextIInv, PTL DEF Spec
-----------------------------------------------------------------------------
\* There are never more than three clients, redirects, bytes and attempts keep
\* their limits, and the rest keeps its type, for any tasks.
THEOREM TypeCorrect == Spec => []TypeOK
  <1>1. IInv => TypeOK
    BY DEF IInv, ClientInv, DownloadInv, LockInv, KeysInv, TypeOK
  <1> QED  BY <1>1, AlwaysIInv, PTL

\* All requests share one open client until the shutdown, which leaks at most
\* one, for any number of downloads and verifiers.
THEOREM ClientIsShared == Spec => []SharedClient
  <1>1. ASSUME IInv PROVE SharedClient
    <2>1. closing = "no" => InUse \subseteq open
      BY <1>1 DEF IInv, DownloadInv, LockInv, InUse
    <2>2. closing = "no" => open \subseteq {client}  BY <1>1 DEF IInv, ClientInv
    <2>3. closing = "awaiting" => open \subseteq {client}  BY <1>1 DEF IInv, ClientInv
    <2>4. \A k, l \in open \ {client} : k = l  BY <1>1 DEF IInv, ClientInv, NoClient
    <2> QED  BY <2>1, <2>2, <2>3, <2>4 DEF SharedClient
  <1> QED  BY <1>1, AlwaysIInv, PTL

\* Keys that the cache serves were the provider's within the time to live, for
\* every time to live and any rotations.
THEOREM KeysAreRecent == Spec => []KeysRecent
  <1>1. ASSUME IInv PROVE KeysRecent
    <2> SUFFICES ASSUME Fresh, keys # published PROVE since[keys + 1] < Ttl
      BY DEF KeysRecent
    <2>1. keys + 1 \in 0..MaxRotations
      BY <1>1, TtlAssumption DEF Fresh, IInv, KeysInv
    <2>2. since[keys + 1] \in 0..Ttl /\ age \in 0..Ttl /\ since[keys + 1] <= age /\ age < Ttl
      BY <1>1, <2>1 DEF Fresh, IInv, KeysInv
    <2> QED  BY <2>2, TtlAssumption
  <1> QED  BY <1>1, AlwaysIInv, PTL

\* The keys are fetched by one task at a time, and only when the cached ones
\* will not do, for any number of tasks.
THEOREM KeysFetchedOnce == Spec => FetchOnlyWhenStale
  <1> DEFINE A == \A c \in Verifiers : auth[c] # "fetching" /\ auth'[c] = "fetching" =>
                      ~Fresh /\ \A e \in Verifiers : auth[e] # "fetching"
  <1>1. ASSUME IInv, [Next]_vars PROVE [A]_vars
    <2> SUFFICES ASSUME Next, NEW c \in Verifiers,
                        auth[c] # "fetching", auth'[c] = "fetching"
                 PROVE  ~Fresh /\ \A e \in Verifiers : auth[e] # "fetching"
      BY <1>1
    <2>1. PICK e \in Verifiers : Authenticate(e) \/ TakeTurn(e)
      BY <1>1
         DEF Next, AuthNext, Fetched, FetchFails, Disconnect, Rotate, Tick, Becomes, Close,
             authVars, IInv, LockInv
    <2>2. owner = NoVerifier /\ ~Fresh
      BY <1>1, <2>1
         DEF Authenticate, TakeTurn, UnderLock, Becomes, IInv, LockInv
    <2>3. \A d \in Verifiers : auth[d] # "fetching"
      BY <1>1, <2>2, VerifiersAssumption DEF IInv, LockInv
    <2> QED  BY <2>2, <2>3
  <1> QED  BY <1>1, AlwaysIInv, PTL DEF Spec, FetchOnlyWhenStale
-----------------------------------------------------------------------------
(* The line behind the lock: what it becomes when a task joins it, leaves   *)
(* it, or is served.                                                       *)

\* A line that c joins at its end.
LEMMA AppendLine ==
    ASSUME NEW q \in Seq(Verifiers), NEW S, InLine(q, S), NEW c \in Verifiers, c \notin S
    PROVE  /\ InLine(Append(q, c), S \cup {c})
           /\ Before(Append(q, c)) = Before(q) \cup (S \X {c})
  <1> DEFINE r == Append(q, c)
             n == Len(q)
  <1>1. /\ n \in Nat /\ DOMAIN q = 1..n /\ DOMAIN r = 1..n + 1
        /\ \A i \in 1..n : r[i] = q[i] /\ i \in 1..n + 1 /\ i < n + 1
        /\ r[n + 1] = c /\ n + 1 \in 1..n + 1
        /\ \A i, j \in 1..n + 1 : i < j => i \in 1..n /\ (j # n + 1 => j \in 1..n)
    OBVIOUS
  <1> HIDE DEF r, n
  <1>2. InLine(r, S \cup {c})  BY <1>1 DEF InLine
  <1>3. Before(r) \subseteq Before(q) \cup (S \X {c})  BY <1>1 DEF Before, InLine
  <1>4. Before(q) \cup (S \X {c}) \subseteq Before(r)  BY <1>1 DEF Before, InLine
  <1> QED  BY <1>2, <1>3, <1>4 DEF r

\* The line q without the one at position k: those behind it move up.
MovedUp(q, k) == [i \in 1..Len(q) - 1 |-> IF i < k THEN q[i] ELSE q[i + 1]]

LEMMA MovedUpType ==
    ASSUME NEW q \in Seq(Verifiers), NEW k \in DOMAIN q
    PROVE  MovedUp(q, k) \in Seq(Verifiers) /\ Len(MovedUp(q, k)) = Len(q) - 1
  <1>1. \A i \in 1..Len(q) - 1 : (IF i < k THEN q[i] ELSE q[i + 1]) \in Verifiers  OBVIOUS
  <1> QED  BY <1>1 DEF MovedUp

LEMMA MovedUpLine ==
    ASSUME NEW q \in Seq(Verifiers), NEW S, InLine(q, S), NEW k \in DOMAIN q
    PROVE  /\ InLine(MovedUp(q, k), S \ {q[k]})
           /\ Before(MovedUp(q, k)) = {p \in Before(q) : p[1] # q[k] /\ p[2] # q[k]}
  <1> DEFINE r == MovedUp(q, k)
             n == Len(q)
             up(i) == IF i < k THEN i ELSE i + 1
             down(i) == IF i < k THEN i ELSE i - 1
  <1>1. /\ DOMAIN q = 1..n /\ DOMAIN r = 1..n - 1 /\ k \in 1..n
        /\ \A i, j \in 1..n : q[i] = q[j] => i = j
        /\ \A i \in 1..n - 1 : up(i) \in 1..n /\ up(i) # k /\ r[i] = q[up(i)]
        /\ \A i \in 1..n : i # k => down(i) \in 1..n - 1 /\ r[down(i)] = q[i]
        /\ \A i, j \in 1..n - 1 : (i < j => up(i) < up(j)) /\ (up(i) = up(j) => i = j)
        /\ \A i, j \in 1..n : i # k /\ j # k /\ i < j => down(i) < down(j)
    BY DEF MovedUp, InLine
  <1> HIDE DEF r, n, up, down
  <1>2. S \ {q[k]} = {r[i] : i \in 1..n - 1}
    BY <1>1 DEF InLine
  <1>3. InLine(r, S \ {q[k]})  BY <1>1, <1>2 DEF InLine
  <1>4. Before(r) \subseteq {p \in Before(q) : p[1] # q[k] /\ p[2] # q[k]}
    BY <1>1 DEF Before
  <1>5. {p \in Before(q) : p[1] # q[k] /\ p[2] # q[k]} \subseteq Before(r)
    BY <1>1 DEF Before
  <1> QED  BY <1>3, <1>4, <1>5 DEF r
\* c leaves the line wherever it stands.
LEMMA WithoutLine ==
    ASSUME NEW q \in Seq(Verifiers), NEW S, InLine(q, S), NEW c
    PROVE  /\ InLine(Without(q, c), S \ {c})
           /\ Before(Without(q, c)) = {p \in Before(q) : p[1] # c /\ p[2] # c}
  <1>1. CASE c \in S
    <2>1. PICK k \in DOMAIN q : k = Position(q, c) /\ q[k] = c
      BY <1>1 DEF InLine, Position
    <2>2. Without(q, c) = SubSeq(q, 1, k - 1) \o SubSeq(q, k + 1, Len(q))
      BY <2>1 DEF Without, RemoveAt
    <2>3. Without(q, c) = MovedUp(q, k)
      <3> DEFINE a == SubSeq(q, 1, k - 1)
                 b == SubSeq(q, k + 1, Len(q))
      <3>1. /\ a \in Seq(Verifiers) /\ Len(a) = k - 1
            /\ b \in Seq(Verifiers) /\ Len(b) = Len(q) - k
            /\ \A i \in 1..k - 1 : a[i] = q[i]
            /\ \A i \in 1..Len(q) - k : b[i] = q[k + i]
        OBVIOUS
      <3> HIDE DEF a, b
      <3>2. /\ a \o b \in Seq(Verifiers) /\ Len(a \o b) = Len(q) - 1
            /\ \A i \in 1..Len(q) - 1 : (a \o b)[i] = MovedUp(q, k)[i]
        BY <3>1 DEF MovedUp
      <3>3. a \o b = MovedUp(q, k)  BY <3>2, MovedUpType, SeqEqual
      <3> QED  BY <2>2, <3>3 DEF a, b
    <2> QED  BY <2>1, <2>3, MovedUpLine
  <1>2. CASE c \notin S
    <2>1. Without(q, c) = q  BY <1>2 DEF InLine, Without
    <2>2. \A p \in Before(q) : p[1] # c /\ p[2] # c  BY <1>2 DEF InLine, Before
    <2> QED  BY <1>2, <2>1, <2>2 DEF InLine
  <1> QED  BY <1>1, <1>2

\* The first one leaves: nobody was before it.
LEMMA TailLine ==
    ASSUME NEW q \in Seq(Verifiers), NEW S, InLine(q, S), q # <<>>
    PROVE  /\ InLine(Tail(q), S \ {Head(q)})
           /\ Before(Tail(q)) = {p \in Before(q) : p[1] # Head(q) /\ p[2] # Head(q)}
           /\ Head(q) \in S /\ \A d \in S : <<d, Head(q)>> \notin Before(q)
  <1>1. 1 \in DOMAIN q /\ Head(q) = q[1]  OBVIOUS
  <1>2. Tail(q) = MovedUp(q, 1)
    <2>1. /\ Tail(q) \in Seq(Verifiers) /\ Len(Tail(q)) = Len(q) - 1
          /\ \A i \in 1..Len(q) - 1 : Tail(q)[i] = MovedUp(q, 1)[i]
      BY DEF MovedUp
    <2> QED  BY <1>1, <2>1, MovedUpType, SeqEqual
  <1>3. \A d \in S : <<d, q[1]>> \notin Before(q)  BY <1>1 DEF Before, InLine
  <1>4. /\ InLine(MovedUp(q, 1), S \ {q[1]})
        /\ Before(MovedUp(q, 1)) = {p \in Before(q) : p[1] # q[1] /\ p[2] # q[1]}
    BY <1>1, MovedUpLine
  <1>5. q[1] \in S  BY <1>1 DEF InLine
  <1> QED  BY <1>1, <1>2, <1>3, <1>4, <1>5
-----------------------------------------------------------------------------
(* The lock around the fetch of the keys is fair: queue, owner and the places *)
(* where the verifiers stand implement FairLock.                           *)

Waiting == {c \in Verifiers : auth[c] = "waiting"}

Fair == INSTANCE FairLock WITH Tasks <- Verifiers, NoTask <- NoVerifier, holder <- owner,
                               waiting <- Waiting, before <- Before(queue)

\* The line consists of the verifiers that wait, each once: a request that was
\* cut off leaves no entry behind that would be woken in vain, and none waits
\* without an entry.
LineExact == InLine(queue, Waiting)

FairStep == LineExact' /\ [Fair!Next]_(Fair!lockVars)

LEMMA MovesTo ==
    ASSUME IInv, NEW c \in Verifiers, NEW p, Becomes(c, p)
    PROVE  Waiting' = IF p = "waiting" THEN Waiting \cup {c} ELSE Waiting \ {c}
  BY DEF IInv, LockInv, Waiting, Becomes

\* Whatever keeps the lock and the waiting verifiers.
LEMMA KeepsLine ==
    ASSUME LineExact, Waiting' = Waiting, UNCHANGED <<owner, queue>>
    PROVE  FairStep
  BY DEF FairStep, LineExact, Fair!lockVars

\* The lock is let go.
LEMMA UnlockStep ==
    ASSUME LineExact, Waiting' = Waiting, UNCHANGED queue,
           owner \in Verifiers, owner' = NoVerifier
    PROVE  FairStep
  <1>1. LineExact' /\ Before(queue)' = Before(queue)  BY DEF LineExact
  <1>2. Fair!Unlock  BY <1>1, VerifiersAssumption DEF Fair!Unlock
  <1> QED  BY <1>1, <1>2 DEF FairStep, Fair!Next

\* A verifier that gets the lock leaves it in the same step, or fetches.
LEMMA UnderLockLine ==
    ASSUME IInv, NEW c \in Verifiers, UnderLock(c)
    PROVE  /\ Waiting' = Waiting \ {c}
           /\ owner' \in {NoVerifier, c}
  <1>1. \E p \in {"idle", "fetching"} : Becomes(c, p)  BY DEF UnderLock
  <1>2. owner' \in {NoVerifier, c}  BY DEF UnderLock
  <1> QED  BY <1>1, <1>2, MovesTo

LEMMA AuthenticateStep ==
    ASSUME IInv, LineExact, NEW c \in Verifiers, Authenticate(c)
    PROVE  FairStep
  <1>1. c \notin Waiting  BY DEF Authenticate, Waiting
  <1>2. queue \in Seq(Verifiers) /\ InLine(queue, Waiting)
    BY DEF IInv, LockInv, LineExact
  <1>3. CASE /\ owner # NoVerifier \/ queue # <<>>
             /\ Becomes(c, "waiting") /\ queue' = Append(queue, c) /\ UNCHANGED owner
    <2>1. Waiting' = Waiting \cup {c}  BY <1>3, MovesTo
    <2>2. /\ InLine(Append(queue, c), Waiting \cup {c})
          /\ Before(Append(queue, c)) = Before(queue) \cup (Waiting \X {c})
      BY <1>1, <1>2, AppendLine
    <2>3. LineExact' /\ Before(queue)' = Before(queue) \cup (Waiting \X {c})
      BY <1>3, <2>1, <2>2 DEF LineExact
    <2>4. queue # <<>> => Waiting # {}  BY <1>2, TailLine
    <2>5. Fair!LineUp(c)  BY <1>1, <1>3, <2>1, <2>3, <2>4 DEF Fair!LineUp
    <2> QED  BY <2>3, <2>5 DEF FairStep, Fair!Next
  <1>4. CASE owner = NoVerifier /\ queue = <<>> /\ UnderLock(c) /\ UNCHANGED queue
    <2>1. Waiting = {}  BY <1>4 DEF LineExact, InLine
    <2>2. Waiting' = Waiting /\ owner' \in {NoVerifier, c}
      BY <1>4, <2>1, UnderLockLine
    <2>3. LineExact' /\ Before(queue)' = Before(queue)  BY <1>4, <2>2 DEF LineExact
    <2>4. CASE owner' = c
      <3>1. Fair!TakeFree(c)  BY <1>4, <2>1, <2>2, <2>3, <2>4 DEF Fair!TakeFree
      <3> QED  BY <2>3, <3>1 DEF FairStep, Fair!Next
    <2>5. CASE owner' = NoVerifier  BY <1>4, <2>2, <2>5, KeepsLine
    <2> QED  BY <2>2, <2>4, <2>5
  <1> QED  BY <1>3, <1>4 DEF Authenticate

LEMMA TakeTurnStep ==
    ASSUME IInv, LineExact, NEW c \in Verifiers, TakeTurn(c)
    PROVE  FairStep
  <1>1. /\ owner = NoVerifier /\ queue # <<>> /\ Head(queue) = c /\ queue' = Tail(queue)
        /\ UnderLock(c)
    BY DEF TakeTurn
  <1>2. /\ InLine(Tail(queue), Waiting \ {c})
        /\ Before(Tail(queue)) = {p \in Before(queue) : p[1] # c /\ p[2] # c}
        /\ c \in Waiting /\ \A d \in Waiting : <<d, c>> \notin Before(queue)
    BY <1>1, TailLine DEF IInv, LockInv, LineExact
  <1>3. Waiting' = Waiting \ {c} /\ owner' \in {NoVerifier, c}
    BY <1>1, UnderLockLine
  <1>4. LineExact' /\ Before(queue)' = {p \in Before(queue) : p[1] # c /\ p[2] # c}
    BY <1>1, <1>2, <1>3 DEF LineExact
  <1>5. CASE owner' = c
    <2>1. Fair!TakeTurn(c)
      BY <1>1, <1>2, <1>3, <1>4, <1>5 DEF Fair!TakeTurn, Fair!Leaves
    <2> QED  BY <1>4, <2>1 DEF FairStep, Fair!Next
  <1>6. CASE owner' = NoVerifier
    <2>1. Fair!StopWaiting(c)
      BY <1>1, <1>2, <1>3, <1>4, <1>6 DEF Fair!StopWaiting, Fair!Leaves
    <2> QED  BY <1>4, <2>1 DEF FairStep, Fair!Next
  <1> QED  BY <1>3, <1>5, <1>6

LEMMA DisconnectStep ==
    ASSUME IInv, LineExact, NEW c \in Verifiers, Disconnect(c)
    PROVE  FairStep
  <1>1. /\ InLine(Without(queue, c), Waiting \ {c})
        /\ Before(Without(queue, c)) = {p \in Before(queue) : p[1] # c /\ p[2] # c}
    BY WithoutLine DEF IInv, LockInv, LineExact
  <1>2. Becomes(c, "idle") /\ queue' = Without(queue, c)  BY DEF Disconnect
  <1>3. Waiting' = Waiting \ {c}  BY <1>2, MovesTo
  <1>4. CASE auth[c] = "waiting"
    <2>1. c \in Waiting /\ owner' = owner
      BY <1>4 DEF Waiting, Disconnect, IInv, LockInv
    <2>2. LineExact' /\ Before(queue)' = {p \in Before(queue) : p[1] # c /\ p[2] # c}
      BY <1>1, <1>2, <1>3 DEF LineExact
    <2>3. Fair!StopWaiting(c)
      BY <1>3, <2>1, <2>2 DEF Fair!StopWaiting, Fair!Leaves
    <2> QED  BY <2>2, <2>3 DEF FairStep, Fair!Next
  <1>5. CASE auth[c] # "waiting"
    <2>1. Waiting' = Waiting  BY <1>3, <1>5 DEF Waiting
    <2>2. queue' = queue  BY <1>2, <1>5 DEF LineExact, InLine, Waiting, Without
    <2>3. owner = c => owner' = NoVerifier  BY DEF Disconnect
    <2>4. owner # c => owner' = owner  BY DEF Disconnect
    <2> QED  BY <2>1, <2>2, <2>3, <2>4, UnlockStep, KeepsLine
  <1> QED  BY <1>4, <1>5

LEMMA NextFairStep == IInv /\ LineExact /\ [Next]_vars => FairStep
  <1> SUFFICES ASSUME IInv, LineExact, [Next]_vars PROVE FairStep  OBVIOUS
  <1>1. ASSUME NEW c \in Verifiers, Fetched(c) \/ FetchFails(c) PROVE FairStep
    <2>1. /\ auth[c] = "fetching" /\ owner = c /\ owner' = NoVerifier /\ UNCHANGED queue
          /\ Becomes(c, "idle")
      BY <1>1 DEF Fetched, FetchFails, IInv, LockInv
    <2>2. Waiting' = Waiting \ {c}  BY <2>1, MovesTo
    <2>3. Waiting' = Waiting  BY <2>1, <2>2 DEF Waiting
    <2> QED  BY <2>1, <2>3, UnlockStep
  <1>2. CASE \E c \in Verifiers : Authenticate(c)  BY <1>2, AuthenticateStep
  <1>3. CASE \E c \in Verifiers : TakeTurn(c)  BY <1>3, TakeTurnStep
  <1>4. CASE \E c \in Verifiers : Disconnect(c)  BY <1>4, DisconnectStep
  <1>5. CASE Rotate \/ Tick \/ UNCHANGED authVars
    <2>1. UNCHANGED <<auth, owner, queue>>  BY <1>5 DEF Rotate, Tick, authVars
    <2> QED  BY <2>1, KeepsLine DEF Waiting
  <1> QED  BY <1>1, <1>2, <1>3, <1>4, <1>5 DEF Next, AuthNext, vars

LEMMA InitFair == Init => LineExact /\ Fair!Init
  BY DEF Init, InitAuth, LineExact, InLine, Waiting, Before, Fair!Init

LEMMA LineInvariance == Spec => [](IInv /\ LineExact)
  BY InitIInv, NextIInv, InitFair, NextFairStep, PTL DEF Spec, FairStep

\* Exactly the waiting verifiers stand in the line for the keys, each once:
\* whatever becomes of the one that fetches, no waiter is forgotten.
THEOREM LineIsExact == Spec => []LineExact
  BY LineInvariance, PTL

\* The lock around the fetch of the keys is served in the order in which the
\* verifiers came; one that finds the keys fetched when its turn comes lets it
\* go in the same step.
THEOREM LockIsFair == Spec => Fair!Spec
  <1>1. IInv /\ LineExact /\ [Next]_vars => [Fair!Next]_(Fair!lockVars)
    BY NextFairStep DEF FairStep
  <1>2. Init => Fair!Init  BY InitFair
  <1> QED  BY <1>1, <1>2, LineInvariance, PTL DEF Spec, Fair!Spec
-----------------------------------------------------------------------------
(* A download runs down: through redirects, chunks, failures and new         *)
(* attempts it comes closer to its end with every step of its own.           *)

\* An attempt begins from nothing, and its body does.
FreshStart ==
    /\ \A d \in Downloads : leg[d] \in {"none", "pause"} => hop[d] = 0
    /\ \A d \in Downloads : leg[d] # "body" => size[d] = 0

\* More than the steps of one attempt: redirects, the response, the chunks of
\* the body, its end, and the pause that may follow.
AttemptLength == MaxRedirects + MaxBytes + 3

\* What a download has before it at most: where it stands, the redirects, the
\* bytes and the attempts it has made.
Left(where, h, b, n) ==
    CASE where = "response" ->
             (MaxAttempts - n) * AttemptLength + (MaxRedirects - h) + MaxBytes + 2
      [] where = "body" -> (MaxAttempts - n) * AttemptLength + (MaxBytes - b) + 1
      [] where = "pause" -> (MaxAttempts - n) * AttemptLength
      [] OTHER -> 0

Remaining(d) == Left(leg[d], hop[d], size[d], attempt[d])

Unmoved(d) ==
    /\ leg'[d] = leg[d] /\ hop'[d] = hop[d]
    /\ size'[d] = size[d] /\ attempt'[d] = attempt[d]

RunsDown(d) ==
    /\ leg[d] = "none" => Remaining(d)' < MaxAttempts * AttemptLength
    /\ leg[d] # "none" => Unmoved(d) \/ Remaining(d)' < Remaining(d)

\* A download that has begun moves only towards its end: what it has before it
\* is a number that each of its steps makes smaller and that no step of another
\* task changes, so that fewer than three whole attempts of redirects and
\* bytes end it.
DownloadsRunDown ==
    [][\A d \in Downloads : RunsDown(d) /\ Remaining(d)' \in Nat]_vars

\* As many attempts as are left, in steps.
LEMMA AttemptsLength ==
    /\ AttemptLength \in Nat
    /\ \A n \in 0..MaxAttempts : (MaxAttempts - n) * AttemptLength \in Nat
    /\ \A n \in 0..MaxAttempts - 1 :
          (MaxAttempts - n) * AttemptLength = (MaxAttempts - (n + 1)) * AttemptLength + AttemptLength
  <1>1. AttemptLength \in Nat  BY LimitsAssumption DEF AttemptLength
  <1>2. \A n \in 0..3 : n = 0 \/ n = 1 \/ n = 2 \/ n = 3  OBVIOUS
  <1>3. \A k \in Nat : 3 * k \in Nat /\ 2 * k \in Nat /\ 1 * k = k /\ 0 * k = 0
                       /\ 3 * k = 2 * k + k /\ 2 * k = k + k
    OBVIOUS
  <1>4. (3 - 0) = 3 /\ (3 - 1) = 2 /\ (3 - 2) = 1 /\ (3 - 3) = 0  OBVIOUS
  <1>5. \A n \in 0..3 : (3 - n) * AttemptLength \in Nat  BY <1>1, <1>2, <1>3, <1>4
  <1>6. \A n \in 0..2 : (3 - n) * AttemptLength = (3 - (n + 1)) * AttemptLength + AttemptLength
    BY <1>1, <1>3
  <1> QED  BY <1>1, <1>5, <1>6 DEF MaxAttempts

LEMMA LeftType ==
    ASSUME NEW where, NEW h \in 0..MaxRedirects, NEW b \in 0..MaxBytes, NEW n \in 0..MaxAttempts
    PROVE  /\ Left(where, h, b, n) \in Nat
           /\ where \in {"response", "body"} => Left(where, h, b, n) > Left("pause", 0, 0, n)
           /\ where = "pause" /\ n < MaxAttempts => Left(where, h, b, n) > 0
  <1> DEFINE rest == (MaxAttempts - n) * AttemptLength
  <1>1. rest \in Nat  BY AttemptsLength
  <1>2. n < MaxAttempts => rest >= AttemptLength
    <2> SUFFICES ASSUME n < MaxAttempts PROVE rest >= AttemptLength  OBVIOUS
    <2>1. n \in 0..MaxAttempts - 1 /\ n + 1 \in 0..MaxAttempts  BY DEF MaxAttempts
    <2>2. (MaxAttempts - (n + 1)) * AttemptLength \in Nat
          /\ rest = (MaxAttempts - (n + 1)) * AttemptLength + AttemptLength
      BY <2>1, AttemptsLength
    <2> QED  BY <2>2, AttemptsLength
  <1>3. Left("pause", 0, 0, n) = rest  BY DEF Left
  <1>4. /\ where = "response" => Left(where, h, b, n) = rest + (MaxRedirects - h) + MaxBytes + 2
        /\ where = "body" => Left(where, h, b, n) = rest + (MaxBytes - b) + 1
        /\ where = "pause" => Left(where, h, b, n) = rest
        /\ where \notin {"response", "body", "pause"} => Left(where, h, b, n) = 0
    BY DEF Left
  <1>5. AttemptLength > 0 /\ MaxRedirects \in Nat /\ MaxBytes \in Nat
    BY LimitsAssumption DEF AttemptLength
  <1> HIDE DEF rest
  <1> QED  BY <1>1, <1>2, <1>3, <1>4, <1>5, AttemptsLength

LEMMA InitFreshStart == Init => FreshStart
  BY DEF Init, InitDownload, FreshStart

LEMMA NextFreshStart == IInv /\ FreshStart /\ [Next]_vars => FreshStart'
  <1> SUFFICES ASSUME IInv, FreshStart, [Next]_vars PROVE FreshStart'  OBVIOUS
  <1>1. CASE UNCHANGED downloadVars  BY <1>1 DEF FreshStart, downloadVars
  <1>2. ASSUME NEW d \in Downloads, Begin(d) \/ Proceed(d) \/ CancelDownload(d)
        PROVE  FreshStart'
    <2>1. CASE Finish(d) \/ \E n \in 0..MaxAttempts : Leave(d, "pause", n)
      BY <2>1 DEF Finish, Leave, IInv, DownloadInv, FreshStart
    <2>2. CASE Begin(d) \/ TryAgain(d)
      BY <2>2 DEF Begin, TryAgain, Attempt, IInv, DownloadInv, FreshStart
    <2>3. CASE leg[d] = "response" /\ hop' = [hop EXCEPT ![d] = @ + 1] /\ UNCHANGED <<leg, size>>
      BY <2>3 DEF IInv, DownloadInv, FreshStart
    <2>4. CASE leg[d] = "response" /\ leg' = [leg EXCEPT ![d] = "body"] /\ UNCHANGED <<hop, size>>
      BY <2>4 DEF IInv, DownloadInv, FreshStart
    <2>5. CASE /\ leg[d] = "body" /\ UNCHANGED <<leg, hop>>
               /\ \E n \in 1..MaxBytes + 1 : size' = [size EXCEPT ![d] = @ + n]
      BY <2>5 DEF IInv, DownloadInv, FreshStart
    <2>6. attempt[d] \in 0..MaxAttempts  BY DEF IInv, DownloadInv
    <2> QED
      BY <1>2, <2>1, <2>2, <2>3, <2>4, <2>5, <2>6
         DEF Proceed, CancelDownload, Redirected, Responded, Chunk, Complete, Fails
  <1> QED  BY <1>1, <1>2 DEF Next, DownloadNext, vars

\* What the steps of d itself do.
LEMMA DownloadRunsDown ==
    ASSUME IInv, FreshStart, NEW d \in Downloads,
           Begin(d) \/ Proceed(d) \/ CancelDownload(d)
    PROVE  RunsDown(d)
  <1> DEFINE h == hop[d]
             b == size[d]
             n == attempt[d]
  <1>1. /\ h \in 0..MaxRedirects /\ b \in 0..MaxBytes /\ n \in 0..MaxAttempts
        /\ leg[d] \in Legs /\ (leg[d] = "pause" => n < MaxAttempts)
        /\ MaxRedirects \in Nat /\ MaxBytes \in Nat
    BY LimitsAssumption DEF IInv, DownloadInv
  <1>2. ASSUME NEW m \in 0..MaxAttempts - 1
        PROVE  Left("response", 0, 0, m + 1) < Left("pause", 0, 0, m)
    <2>1. /\ (MaxAttempts - m) * AttemptLength
                = (MaxAttempts - (m + 1)) * AttemptLength + AttemptLength
          /\ (MaxAttempts - (m + 1)) * AttemptLength \in Nat
      <3>1. m + 1 \in 0..MaxAttempts  BY DEF MaxAttempts
      <3> QED  BY <3>1, AttemptsLength
    <2>2. /\ Left("response", 0, 0, m + 1)
                = (MaxAttempts - (m + 1)) * AttemptLength + (MaxRedirects - 0) + MaxBytes + 2
          /\ Left("pause", 0, 0, m) = (MaxAttempts - m) * AttemptLength
      BY DEF Left
    <2>3. AttemptLength = MaxRedirects + MaxBytes + 3  BY DEF AttemptLength
    <2> QED  BY <1>1, <2>1, <2>2, <2>3
  <1>3. ASSUME Begin(d) PROVE RunsDown(d)
    <2>1. /\ leg[d] = "none" /\ leg'[d] = "response" /\ hop'[d] = 0 /\ size'[d] = 0
          /\ attempt'[d] = 1
      BY <1>3 DEF Begin, Attempt, IInv, DownloadInv, FreshStart
    <2>2. Left("response", 0, 0, 0 + 1) < Left("pause", 0, 0, 0)
      BY <1>2 DEF MaxAttempts
    <2>3. Left("pause", 0, 0, 0) = MaxAttempts * AttemptLength  BY DEF Left, MaxAttempts
    <2> QED  BY <2>1, <2>2, <2>3 DEF RunsDown, Remaining
  <1>4. ASSUME TryAgain(d) PROVE RunsDown(d)
    <2>1. /\ leg[d] = "pause" /\ h = 0 /\ b = 0 /\ n \in 0..MaxAttempts - 1
          /\ leg'[d] = "response" /\ hop'[d] = 0 /\ size'[d] = 0 /\ attempt'[d] = n + 1
      BY <1>1, <1>4 DEF TryAgain, Attempt, IInv, DownloadInv, FreshStart, MaxAttempts
    <2> QED  BY <1>2, <2>1 DEF RunsDown, Remaining
  <1>5. ASSUME Finish(d), leg[d] # "none" PROVE RunsDown(d)
    <2>1. leg'[d] = "none"  BY <1>5 DEF Finish, Leave, IInv, DownloadInv
    <2>2. Remaining(d)' = 0  BY <2>1 DEF Remaining, Left
    <2>3. Remaining(d) > 0
      <3>1. Left("pause", 0, 0, n) \in Nat  BY <1>1, LeftType, LimitsAssumption
      <3>2. /\ Remaining(d) \in Nat
            /\ leg[d] \in {"response", "body"} => Remaining(d) > Left("pause", 0, 0, n)
            /\ leg[d] = "pause" => Remaining(d) > 0
        BY <1>1, LeftType DEF Remaining
      <3> QED  BY <1>1, <1>5, <3>1, <3>2 DEF Legs
    <2> QED  BY <1>5, <2>2, <2>3 DEF RunsDown
  <1>6. ASSUME Leave(d, "pause", n), leg[d] \in {"response", "body"} PROVE RunsDown(d)
    <2>1. leg'[d] = "pause" /\ hop'[d] = 0 /\ size'[d] = 0 /\ attempt'[d] = n
      BY <1>6 DEF Leave, IInv, DownloadInv
    <2>2. Remaining(d) > Left("pause", 0, 0, n)  BY <1>1, <1>6, LeftType DEF Remaining
    <2> QED  BY <1>6, <2>1, <2>2 DEF RunsDown, Remaining
  <1>7. (MaxAttempts - n) * AttemptLength \in Nat  BY <1>1, AttemptsLength
  <1>8. ASSUME leg[d] = "response", h < MaxRedirects, hop' = [hop EXCEPT ![d] = @ + 1],
               UNCHANGED <<leg, size, attempt>>
        PROVE  RunsDown(d)
    <2>1. hop'[d] = h + 1  BY <1>8 DEF IInv, DownloadInv
    <2> QED  BY <1>1, <1>7, <1>8, <2>1 DEF RunsDown, Remaining, Left
  <1>9. ASSUME leg[d] = "response", leg' = [leg EXCEPT ![d] = "body"],
               UNCHANGED <<hop, size, attempt>>
        PROVE  RunsDown(d)
    <2>1. leg'[d] = "body" /\ b = 0  BY <1>9 DEF IInv, DownloadInv, FreshStart
    <2> QED  BY <1>1, <1>7, <1>9, <2>1 DEF RunsDown, Remaining, Left
  <1>10. ASSUME leg[d] = "body", UNCHANGED <<leg, hop, attempt>>,
                NEW k \in 1..MaxBytes + 1, size' = [size EXCEPT ![d] = @ + k]
         PROVE  RunsDown(d)
    <2>1. size'[d] = b + k  BY <1>10 DEF IInv, DownloadInv
    <2> QED  BY <1>1, <1>7, <1>10, <2>1 DEF RunsDown, Remaining, Left
  <1>11. CASE Redirected(d)  BY <1>5, <1>8, <1>11 DEF Redirected
  <1>12. CASE Responded(d)  BY <1>5, <1>9, <1>12 DEF Responded
  <1>13. CASE Chunk(d)  BY <1>5, <1>10, <1>13 DEF Chunk
  <1>14. CASE Complete(d) \/ CancelDownload(d)
    BY <1>5, <1>14 DEF Complete, CancelDownload
  <1>15. CASE Fails(d)  BY <1>5, <1>6, <1>15 DEF Fails
  <1> QED
    BY <1>3, <1>4, <1>11, <1>12, <1>13, <1>14, <1>15 DEF Proceed

LEMMA OthersUnmoved ==
    ASSUME IInv, NEW d \in Downloads, NEW e \in Downloads, e # d,
           Begin(e) \/ Proceed(e) \/ CancelDownload(e)
    PROVE  Unmoved(d)
  <1>1. CASE Finish(e) \/ \E n : Leave(e, "pause", n)
    BY <1>1 DEF Finish, Leave, Unmoved, IInv, DownloadInv
  <1>2. CASE \E n : Attempt(e, n)
    BY <1>2 DEF Attempt, Unmoved, IInv, DownloadInv
  <1>3. CASE \/ hop' = [hop EXCEPT ![e] = @ + 1] /\ UNCHANGED <<leg, size, attempt>>
             \/ leg' = [leg EXCEPT ![e] = "body"] /\ UNCHANGED <<hop, size, attempt>>
             \/ /\ \E n \in 1..MaxBytes + 1 : size' = [size EXCEPT ![e] = @ + n]
                /\ UNCHANGED <<leg, hop, attempt>>
    BY <1>3 DEF Unmoved, IInv, DownloadInv
  <1> QED
    BY <1>1, <1>2, <1>3
       DEF Begin, TryAgain, Proceed, CancelDownload, Redirected, Responded, Chunk,
           Complete, Fails

LEMMA NextRunsDown == IInv /\ FreshStart /\ [Next]_vars => \A d \in Downloads : RunsDown(d)
  <1> SUFFICES ASSUME IInv, FreshStart, [Next]_vars, NEW d \in Downloads PROVE RunsDown(d)
    OBVIOUS
  <1>1. ASSUME Unmoved(d) PROVE RunsDown(d)
    <2>1. CASE leg[d] = "none"
      <3>1. Remaining(d)' = 0  BY <1>1, <2>1 DEF Unmoved, Remaining, Left
      <3>2. MaxAttempts * AttemptLength > 0
        BY LimitsAssumption DEF AttemptLength, MaxAttempts
      <3> QED  BY <2>1, <3>1, <3>2 DEF RunsDown
    <2>2. CASE leg[d] # "none"  BY <1>1, <2>2 DEF RunsDown
    <2> QED  BY <2>1, <2>2
  <1>2. CASE UNCHANGED downloadVars  BY <1>1, <1>2 DEF Unmoved, downloadVars
  <1>3. CASE DownloadNext  BY <1>1, <1>3, DownloadRunsDown, OthersUnmoved DEF DownloadNext
  <1> QED  BY <1>2, <1>3 DEF Next, vars

\* Why every download ends once the servers answer or time out: it has finitely
\* many steps before it, whatever redirects and bodies the servers send.
THEOREM DownloadsComeToAnEnd == Spec => DownloadsRunDown
  <1>1. ASSUME IInv, FreshStart, [Next]_vars, NEW d \in Downloads
        PROVE  RunsDown(d) /\ Remaining(d)' \in Nat
    <2>1. IInv'  BY <1>1, NextIInv
    <2>2. /\ hop'[d] \in 0..MaxRedirects /\ size'[d] \in 0..MaxBytes
          /\ attempt'[d] \in 0..MaxAttempts
      BY <2>1 DEF IInv, DownloadInv
    <2>3. Remaining(d)' \in Nat  BY <2>2, LeftType DEF Remaining
    <2> QED  BY <1>1, <2>3, NextRunsDown
  <1>2. IInv /\ FreshStart /\ [Next]_vars =>
            [\A d \in Downloads : RunsDown(d) /\ Remaining(d)' \in Nat]_vars
    BY <1>1
  <1>3. Spec => [](IInv /\ FreshStart)
    BY InitIInv, NextIInv, InitFreshStart, NextFreshStart, PTL DEF Spec
  <1> QED  BY <1>2, <1>3, PTL DEF Spec, DownloadsRunDown
=============================================================================
