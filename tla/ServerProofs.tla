---------------------------- MODULE ServerProofs ----------------------------
(***************************************************************************)
(* The safety of Server for all finite sets of requests and all bounds.    *)
(***************************************************************************)
EXTENDS Server, FiniteSetTheorems, SequenceTheorems, TLAPS

\* What lifespan knows while it drains.  A wake-up that is on its way counts
\* like one that has been noticed: at the moment it was sent nothing was in
\* flight and since then only probes have been admitted.
DrainInv ==
    /\ phase \in {"batch_drain", "event_drain"} => shuttingDown
    /\ phase = "batch_drain" => polls < MaxPolls
    /\ waiter # "none" => phase = "event_drain"
    /\ batchesDrained => shuttingDown /\ RunningJobs = {}
    /\ drained \/ waiter = "woken" =>
           shuttingDown /\ \A r \in InFlight : r \in Probes

Accounted(b) ==
    /\ Len(results[b]) = total[b] /\ reply[b].total = total[b]
    /\ reply[b].succeeded + reply[b].failed + reply[b].interrupted = total[b]
    /\ \A i \in 1..Len(results[b]) : results[b][i] = "interrupted" =>
           /\ shuttingDown
           /\ \A j \in i..Len(results[b]) : results[b][j] = "interrupted"

\* A batch at work has items left and none that is interrupted; it has a
\* response only once its loop has ended.
BatchInv(b) ==
    /\ permits[b] = IF pc[b] = "item" THEN BatchConcurrency - 1 ELSE BatchConcurrency
    /\ pc[b] = "item" =>
           Len(results[b]) < total[b] /\ results[b] \in Seq(ItemOutcomes)
    /\ pc[b] \in {"waiting", "admitted"} => Len(results[b]) = 0
    /\ pc[b] # "responding" => reply[b] = NoReply
    /\ reply[b].total > 0 => Accounted(b)

BatchesInv == \A b \in Batches : BatchInv(b)

IInv == TypeOK /\ CountersExact /\ DrainInv /\ BatchesInv
-----------------------------------------------------------------------------
(* Sets of requests *)

LEMMA SetsFinite ==
    /\ IsFiniteSet(Requests)
    /\ IsFiniteSet(InFlight) /\ IsFiniteSet(RunningJobs)
    /\ Cardinality(InFlight) \in Nat /\ Cardinality(RunningJobs) \in Nat
  <1>1. IsFiniteSet(Requests)
    BY RequestsAssumption, FS_Union DEF Requests
  <1>2. InFlight \subseteq Requests /\ RunningJobs \subseteq Batches
    BY DEF InFlight, RunningJobs
  <1> QED  BY <1>1, <1>2, RequestsAssumption, FS_Subset, FS_CardinalityType

\* A request changes its place and nobody else does: what happens to the
\* two sets the counters count.
LEMMA Moves ==
    ASSUME NEW r \in Requests, NEW p \in PCs, pc \in [Requests -> PCs],
           pc' = [pc EXCEPT ![r] = p]
    PROVE  /\ pc[r] = "waiting" /\ p # "waiting" =>
                  Cardinality(InFlight)' = Cardinality(InFlight) + 1
           /\ pc[r] # "waiting" /\ p = "waiting" =>
                  Cardinality(InFlight)' = Cardinality(InFlight) - 1
           /\ (pc[r] = "waiting" <=> p = "waiting") => InFlight' = InFlight
           /\ r \in Batches /\ pc[r] # "item" /\ p = "item" =>
                  Cardinality(RunningJobs)' = Cardinality(RunningJobs) + 1
           /\ r \in Batches /\ pc[r] = "item" /\ p # "item" =>
                  Cardinality(RunningJobs)' = Cardinality(RunningJobs) - 1
           /\ (pc[r] = "item" <=> p = "item") => RunningJobs' = RunningJobs
  <1>1. ASSUME pc[r] = "waiting", p # "waiting"
        PROVE  Cardinality(InFlight)' = Cardinality(InFlight) + 1
    <2>1. InFlight' = InFlight \cup {r} /\ r \notin InFlight  BY <1>1 DEF InFlight
    <2> QED  BY <2>1, SetsFinite, FS_AddElement
  <1>2. ASSUME pc[r] # "waiting", p = "waiting"
        PROVE  Cardinality(InFlight)' = Cardinality(InFlight) - 1
    <2>1. InFlight' = InFlight \ {r} /\ r \in InFlight  BY <1>2 DEF InFlight
    <2> QED  BY <2>1, SetsFinite, FS_RemoveElement
  <1>3. ASSUME pc[r] = "waiting" <=> p = "waiting"
        PROVE  InFlight' = InFlight
    BY <1>3 DEF InFlight
  <1>4. ASSUME r \in Batches, pc[r] # "item", p = "item"
        PROVE  Cardinality(RunningJobs)' = Cardinality(RunningJobs) + 1
    <2>1. RunningJobs' = RunningJobs \cup {r} /\ r \notin RunningJobs
      BY <1>4 DEF RunningJobs, Requests
    <2> QED  BY <2>1, SetsFinite, FS_AddElement
  <1>5. ASSUME r \in Batches, pc[r] = "item", p # "item"
        PROVE  Cardinality(RunningJobs)' = Cardinality(RunningJobs) - 1
    <2>1. RunningJobs' = RunningJobs \ {r} /\ r \in RunningJobs
      BY <1>5 DEF RunningJobs, Requests
    <2> QED  BY <2>1, SetsFinite, FS_RemoveElement
  <1>6. ASSUME pc[r] = "item" <=> p = "item"
        PROVE  RunningJobs' = RunningJobs
    BY <1>6 DEF RunningJobs, Requests
  <1> QED  BY <1>1, <1>2, <1>3, <1>4, <1>5, <1>6

\* An exact counter is zero only if there is nothing to count.
LEMMA ZeroMeansNone ==
    /\ Cardinality(InFlight) = 0 => InFlight = {}
    /\ Cardinality(RunningJobs) = 0 => RunningJobs = {}
  BY SetsFinite, FS_EmptySet
-----------------------------------------------------------------------------
(* The results and the counts of a batch *)

LEMMA CountBounds ==
    ASSUME NEW res \in Seq(Outcomes), NEW S, NEW T, S \cap T = {}
    PROVE  /\ Count(res, S) \in Nat /\ Count(res, T) \in Nat
           /\ Count(res, S) + Count(res, T) <= Len(res)
  <1> DEFINE A == {i \in DOMAIN res : res[i] \in S}
             B == {i \in DOMAIN res : res[i] \in T}
  <1>1. /\ DOMAIN res = 1..Len(res) /\ Len(res) \in Nat
        /\ IsFiniteSet(1..Len(res)) /\ Cardinality(1..Len(res)) = Len(res)
    BY LenProperties, FS_Interval
  <1>2. A \subseteq 1..Len(res) /\ B \subseteq 1..Len(res) /\ A \cap B = {}
    BY <1>1
  <1>3. IsFiniteSet(A) /\ IsFiniteSet(B) /\ Cardinality(A) \in Nat /\ Cardinality(B) \in Nat
    BY <1>1, <1>2, FS_Subset, FS_CardinalityType
  <1>4. Cardinality(A \cup B) = Cardinality(A) + Cardinality(B)
    <2>1. Cardinality(A \cap B) = 0  BY <1>2, FS_EmptySet
    <2>2. Cardinality(A \cup B) = Cardinality(A) + Cardinality(B) - Cardinality(A \cap B)
      BY <1>3, FS_Union
    <2> QED  BY <1>3, <2>1, <2>2
  <1>5. Cardinality(A \cup B) <= Len(res)
    <2>1. A \cup B \in SUBSET (1..Len(res))  BY <1>2
    <2> QED  BY <2>1, <1>1, FS_Subset
  <1>6. Count(res, S) = Cardinality(A) /\ Count(res, T) = Cardinality(B)  BY DEF Count
  <1> HIDE DEF A, B
  <1> QED  BY <1>3, <1>4, <1>5, <1>6

\* The counts of a response are natural numbers and add up.
LEMMA ReplyAddsUp ==
    ASSUME NEW n \in Nat, NEW res \in Seq(Outcomes), Len(res) = n
    PROVE  /\ Reply(n, res) \in
                  [total : Nat, succeeded : Nat, failed : Nat, interrupted : Nat]
           /\ Reply(n, res).total = n
           /\ Reply(n, res).succeeded + Reply(n, res).failed + Reply(n, res).interrupted = n
  <1> DEFINE S == {"ok"}
             T == {"interrupted", "error_interrupted_in_text"}
  <1>1. /\ Count(res, S) \in Nat /\ Count(res, T) \in Nat
        /\ Count(res, S) + Count(res, T) <= Len(res)
    <2>1. S \cap T = {}  OBVIOUS
    <2> QED  BY <2>1, CountBounds
  <1>2. Reply(n, res) = [total |-> n, succeeded |-> Count(res, S),
                         interrupted |-> Count(res, T),
                         failed |-> n - Count(res, S) - Count(res, T)]
    BY DEF Reply
  <1> HIDE DEF S, T
  <1> QED  BY <1>1, <1>2

\* Filling up with interrupted items gives one result for each item: first
\* those of the items that were processed, then only interrupted ones.
LEMMA InterruptFills ==
    ASSUME NEW n \in Nat, NEW res \in Seq(ItemOutcomes), Len(res) <= n
    PROVE  /\ Interrupt(n, res) \in Seq(Outcomes)
           /\ Len(Interrupt(n, res)) = n
           /\ \A i \in 1..n : Interrupt(n, res)[i] = "interrupted" <=> Len(res) < i
  <1>1. /\ Len(res) \in Nat
        /\ \A i \in 1..Len(res) : res[i] \in ItemOutcomes
    BY LenProperties, ElementOfSeq
  <1>2. \A i \in 1..n : Interrupt(n, res)[i] =
                            IF i <= Len(res) THEN res[i] ELSE "interrupted"
    BY DEF Interrupt
  <1>3. Interrupt(n, res) \in [1..n -> Outcomes]
    BY <1>1 DEF Interrupt, Outcomes
  <1>4. Interrupt(n, res) \in Seq(Outcomes) /\ Len(Interrupt(n, res)) = n
    BY <1>3
  <1>5. \A o \in ItemOutcomes : o # "interrupted"  BY DEF ItemOutcomes
  <1> QED  BY <1>1, <1>2, <1>4, <1>5
-----------------------------------------------------------------------------
(* The steps of a batch *)

\* Only batch b's entries change: every other batch is as it was.
LEMMA OtherBatches ==
    ASSUME TypeOK, BatchesInv, NEW b \in Batches, NEW c \in Batches \ {b},
           shuttingDown => shuttingDown',
           pc'[c] = pc[c], permits'[c] = permits[c], total'[c] = total[c],
           results'[c] = results[c], reply'[c] = reply[c]
    PROVE  BatchInv(c)'
  BY DEF TypeOK, LifespanType, BatchesInv, BatchInv, Accounted

\* From the head of the loop, with all permits free and no interrupted item
\* among the results, the next suspension finds the batch in order again.
LEMMA LoopBatch ==
    ASSUME TypeOK, BatchesInv, NEW b \in Batches, NEW active \in Nat,
           pc[b] \in {"admitted", "item"},
           NEW res \in Seq(ItemOutcomes), Len(res) <= total[b],
           LoopFrom(b, total[b], res, active, BatchConcurrency),
           UNCHANGED <<serverVars, counterVars, total>>
    PROVE  BatchType' /\ BatchesInv'
  <1>1. /\ total[b] \in Nat /\ b \in Requests /\ shuttingDown' = shuttingDown
        /\ total' = total
    BY BoundsAssumption DEF TypeOK, BatchType, Requests, serverVars
  <1>2. res \in Seq(Outcomes) /\ Len(res) \in Nat
    <2>1. ItemOutcomes \subseteq Outcomes  BY DEF Outcomes
    <2> QED  BY <2>1, LenProperties, SeqMonotonic
  <1>3. reply[b] = NoReply
    BY DEF BatchesInv, BatchInv
  <1>4. CASE GoesOn(total[b], res)
    <2>1. /\ pc' = [pc EXCEPT ![b] = "item"]
          /\ results' = [results EXCEPT ![b] = res]
          /\ permits' = [permits EXCEPT ![b] = BatchConcurrency - 1]
          /\ reply' = reply
      BY <1>4 DEF LoopFrom
    <2>2. Len(res) < total[b]  BY <1>4 DEF GoesOn
    <2>3. BatchType'
      BY <1>1, <1>2, <2>1, <2>2, BoundsAssumption DEF TypeOK, BatchType
    <2>4. BatchInv(b)'
      <3>1. /\ pc'[b] = "item" /\ results'[b] = res
            /\ permits'[b] = BatchConcurrency - 1 /\ reply'[b] = NoReply
        BY <1>1, <1>3, <2>1 DEF TypeOK, BatchType, RequestType
      <3> QED  BY <1>1, <2>2, <3>1 DEF BatchInv, NoReply
    <2>5. \A c \in Batches \ {b} : BatchInv(c)'
      BY <1>1, <2>1, OtherBatches DEF TypeOK, BatchType, RequestType, Requests
    <2> QED  BY <2>3, <2>4, <2>5 DEF BatchesInv
  <1>5. CASE ~GoesOn(total[b], res)
    <2> DEFINE final == Interrupt(total[b], res)
    <2>1. /\ pc' = [pc EXCEPT ![b] = "responding"]
          /\ results' = [results EXCEPT ![b] = final]
          /\ permits' = [permits EXCEPT ![b] = BatchConcurrency]
          /\ reply' = [reply EXCEPT ![b] = Reply(total[b], final)]
      BY <1>5 DEF LoopFrom
    <2>2. /\ final \in Seq(Outcomes) /\ Len(final) = total[b]
          /\ \A i \in 1..total[b] : final[i] = "interrupted" <=> Len(res) < i
      BY <1>1, InterruptFills
    <2>3. /\ Reply(total[b], final) \in
                 [total : Nat, succeeded : Nat, failed : Nat, interrupted : Nat]
          /\ Reply(total[b], final).total = total[b]
          /\ Reply(total[b], final).succeeded + Reply(total[b], final).failed
                 + Reply(total[b], final).interrupted = total[b]
      BY <1>1, <2>2, ReplyAddsUp
    <2> HIDE DEF final
    <2>4. BatchType'
      <3>1. total'[b] = total[b]  BY <1>1
      <3>2. permits' \in [Batches -> 0..BatchConcurrency]
        BY <2>1, BoundsAssumption DEF TypeOK, BatchType
      <3>3. /\ results' \in [Batches -> Seq(Outcomes)]
            /\ \A c \in Batches : Len(results'[c]) <= total'[c]
        BY <1>1, <2>1, <2>2 DEF TypeOK, BatchType
      <3>4. reply' \in [Batches -> [total : Nat, succeeded : Nat, failed : Nat,
                                    interrupted : Nat]]
        BY <2>1, <2>3 DEF TypeOK, BatchType
      <3> QED  BY <1>1, <3>2, <3>3, <3>4 DEF TypeOK, BatchType
    <2>5. BatchInv(b)'
      <3>1. /\ pc'[b] = "responding" /\ results'[b] = final
            /\ permits'[b] = BatchConcurrency /\ reply'[b] = Reply(total[b], final)
        BY <1>1, <2>1 DEF TypeOK, BatchType, RequestType
      <3>2. Len(res) < total[b] => shuttingDown
        BY <1>5 DEF GoesOn
      <3>3. \A i \in 1..Len(final) : final[i] = "interrupted" =>
                /\ shuttingDown
                /\ \A j \in i..Len(final) : final[j] = "interrupted"
        BY <1>1, <1>2, <2>2, <3>2
      <3>4. Accounted(b)'
        BY <1>1, <2>2, <2>3, <3>1, <3>3 DEF Accounted
      <3> QED  BY <3>1, <3>4 DEF BatchInv
    <2>6. \A c \in Batches \ {b} : BatchInv(c)'
      BY <1>1, <2>1, OtherBatches DEF TypeOK, BatchType, RequestType, Requests
    <2> QED  BY <2>4, <2>5, <2>6 DEF BatchesInv
  <1> QED  BY <1>4, <1>5

\* The loop counts its job out exactly when it stops being a job.
LEMMA LoopCounters ==
    ASSUME TypeOK, CountersExact, NEW b \in Batches, NEW active \in Nat, NEW res, NEW free,
           \/ pc[b] = "admitted" /\ active = activeBatches + 1
           \/ pc[b] = "item" /\ active = activeBatches,
           LoopFrom(b, total[b], res, active, free),
           UNCHANGED <<serverVars, counterVars, total>>
    PROVE  /\ RequestType' /\ CountersExact' /\ InFlight' = InFlight
           /\ RunningJobs' \subseteq RunningJobs \/ ~shuttingDown
  <1>1. b \in Requests /\ pc \in [Requests -> PCs] /\ activeBatches \in Nat
    BY DEF TypeOK, RequestType, Requests
  <1>2. inFlight' = inFlight /\ drainEvent' = drainEvent
    BY DEF counterVars
  <1>3. CASE GoesOn(total[b], res)
    <2>1. pc' = [pc EXCEPT ![b] = "item"] /\ activeBatches' = active
      BY <1>3 DEF LoopFrom
    <2>2. InFlight' = InFlight
      BY <1>1, <2>1, Moves DEF PCs
    <2>3. activeBatches' = Cardinality(RunningJobs)'
      BY <1>1, <2>1, Moves DEF PCs, CountersExact
    <2>4. ~shuttingDown  BY <1>3 DEF GoesOn
    <2>5. RequestType'
      BY <1>1, <1>2, <2>1 DEF TypeOK, RequestType, PCs
    <2> QED  BY <1>2, <2>2, <2>3, <2>4, <2>5 DEF CountersExact
  <1>4. CASE ~GoesOn(total[b], res)
    <2>1. pc' = [pc EXCEPT ![b] = "responding"] /\ activeBatches' = active - 1
      BY <1>4 DEF LoopFrom
    <2>2. InFlight' = InFlight
      BY <1>1, <2>1, Moves DEF PCs
    <2>3. activeBatches' = Cardinality(RunningJobs)'
      <3>1. CASE pc[b] = "admitted"
        <4>1. RunningJobs' = RunningJobs
          BY <1>1, <2>1, <3>1, Moves DEF PCs
        <4> QED  BY <1>1, <2>1, <3>1, <4>1 DEF CountersExact
      <3>2. CASE pc[b] = "item"
        <4>1. Cardinality(RunningJobs)' = Cardinality(RunningJobs) - 1
          BY <1>1, <2>1, <3>2, Moves DEF PCs
        <4> QED  BY <1>1, <2>1, <3>2, <4>1 DEF CountersExact
      <3> QED  BY <3>1, <3>2
    <2>4. RunningJobs' \subseteq RunningJobs
      BY <1>1, <2>1 DEF RunningJobs, Requests
    <2>5. active - 1 \in Nat
      <3>1. CASE pc[b] = "admitted"  BY <3>1, <1>1
      <3>2. CASE pc[b] = "item"
        <4>1. RunningJobs # {}  BY <3>2 DEF RunningJobs
        <4>2. activeBatches # 0  BY <4>1, ZeroMeansNone DEF CountersExact
        <4> QED  BY <3>2, <4>2, <1>1
      <3> QED  BY <3>1, <3>2
    <2>6. RequestType'
      BY <1>1, <1>2, <2>1, <2>5 DEF TypeOK, RequestType, PCs
    <2> QED  BY <1>2, <2>2, <2>3, <2>4, <2>6 DEF CountersExact
  <1> QED  BY <1>3, <1>4

\* Nothing that lifespan relies on is disturbed by a step of a request that
\* keeps InFlight, or takes requests out of it, and starts no job after a
\* SIGTERM.
LEMMA DrainStable ==
    ASSUME TypeOK, DrainInv, UNCHANGED <<serverVars, waiter>>,
           InFlight' \subseteq InFlight,
           RunningJobs' \subseteq RunningJobs \/ ~shuttingDown
    PROVE  DrainInv' /\ LifespanType'
  BY DEF DrainInv, TypeOK, LifespanType, serverVars

LEMMA StartBatchIInv ==
    ASSUME IInv, NEW b \in Batches, StartBatch(b)
    PROVE  IInv'
  <1>1. /\ pc[b] = "admitted" /\ permits[b] = BatchConcurrency
        /\ LoopFrom(b, total[b], <<>>, activeBatches + 1, BatchConcurrency)
        /\ UNCHANGED <<serverVars, counterVars, total>>
    BY DEF IInv, BatchesInv, BatchInv, StartBatch
  <1>2. activeBatches + 1 \in Nat /\ total[b] \in Nat
    BY BoundsAssumption DEF IInv, TypeOK, RequestType, BatchType
  <1>3. <<>> \in Seq(ItemOutcomes) /\ Len(<<>>) <= total[b]
    BY <1>2, EmptySeq
  <1>4. BatchType' /\ BatchesInv'
    BY <1>1, <1>2, <1>3, LoopBatch DEF IInv
  <1>5. /\ RequestType' /\ CountersExact' /\ InFlight' = InFlight
        /\ RunningJobs' \subseteq RunningJobs \/ ~shuttingDown
    BY <1>1, <1>2, LoopCounters DEF IInv
  <1>6. DrainInv' /\ LifespanType'
    BY <1>1, <1>5, DrainStable DEF IInv, counterVars
  <1> QED  BY <1>4, <1>5, <1>6 DEF IInv, TypeOK

LEMMA EndItemIInv ==
    ASSUME IInv, NEW b \in Batches, EndItem(b)
    PROVE  IInv'
  <1>1. PICK o \in ItemOutcomes :
            LoopFrom(b, total[b], Append(results[b], o), activeBatches, permits[b] + 1)
    BY DEF EndItem
  <1>2. /\ pc[b] = "item" /\ permits[b] + 1 = BatchConcurrency
        /\ results[b] \in Seq(ItemOutcomes) /\ Len(results[b]) < total[b]
        /\ UNCHANGED <<serverVars, counterVars, total>>
    BY BoundsAssumption DEF IInv, BatchesInv, BatchInv, EndItem
  <1>3. activeBatches \in Nat /\ total[b] \in Nat
    BY BoundsAssumption DEF IInv, TypeOK, RequestType, BatchType
  <1> DEFINE res == Append(results[b], o)
  <1>4. res \in Seq(ItemOutcomes) /\ Len(res) <= total[b]
    BY <1>2, <1>3
  <1> HIDE DEF res
  <1>5. LoopFrom(b, total[b], res, activeBatches, BatchConcurrency)
    BY <1>1, <1>2 DEF res
  <1>6. BatchType' /\ BatchesInv'
    BY <1>2, <1>3, <1>4, <1>5, LoopBatch DEF IInv
  <1>7. /\ RequestType' /\ CountersExact' /\ InFlight' = InFlight
        /\ RunningJobs' \subseteq RunningJobs \/ ~shuttingDown
    BY <1>2, <1>3, <1>5, LoopCounters DEF IInv
  <1>8. DrainInv' /\ LifespanType'
    BY <1>2, <1>7, DrainStable DEF IInv, counterVars
  <1> QED  BY <1>6, <1>7, <1>8 DEF IInv, TypeOK

LEMMA AbortBatchIInv ==
    ASSUME IInv, NEW b \in Batches, AbortBatch(b)
    PROVE  IInv'
  <1>1. b \in Requests /\ pc \in [Requests -> PCs] /\ activeBatches \in Nat
    BY DEF IInv, TypeOK, RequestType, Requests
  <1>2. /\ pc[b] = "item" /\ pc' = [pc EXCEPT ![b] = "responding"]
        /\ activeBatches' = activeBatches - 1
        /\ permits' = [permits EXCEPT ![b] = permits[b] + 1]
        /\ UNCHANGED <<serverVars, counterVars, total, results, reply>>
    BY DEF AbortBatch
  <1>3. InFlight' = InFlight
    BY <1>1, <1>2, Moves DEF PCs
  <1>4. activeBatches' = Cardinality(RunningJobs)' /\ RunningJobs' \subseteq RunningJobs
    <2>1. Cardinality(RunningJobs)' = Cardinality(RunningJobs) - 1
      BY <1>1, <1>2, Moves DEF PCs
    <2> QED  BY <1>1, <1>2, <2>1 DEF IInv, CountersExact, RunningJobs, Requests
  <1>5. activeBatches' \in Nat
    <2>1. RunningJobs # {}  BY <1>2 DEF RunningJobs
    <2> QED  BY <1>1, <1>2, <2>1, ZeroMeansNone DEF IInv, CountersExact
  <1>6. RequestType' /\ CountersExact'
    BY <1>1, <1>2, <1>3, <1>4, <1>5
       DEF IInv, TypeOK, RequestType, CountersExact, PCs, counterVars
  <1>7. DrainInv' /\ LifespanType'
    BY <1>2, <1>3, <1>4, DrainStable DEF IInv, counterVars
  <1>8. permits[b] + 1 = BatchConcurrency /\ reply[b] = NoReply
    BY <1>2, BoundsAssumption DEF IInv, BatchesInv, BatchInv
  <1>9. BatchType'
    BY <1>2, <1>8, BoundsAssumption DEF IInv, TypeOK, BatchType
  <1>10. BatchInv(b)'
    BY <1>1, <1>2, <1>8 DEF IInv, TypeOK, BatchType, BatchInv, NoReply
  <1>11. \A c \in Batches \ {b} : BatchInv(c)'
    BY <1>1, <1>2, OtherBatches DEF IInv, TypeOK, BatchType, Requests, serverVars
  <1> QED  BY <1>6, <1>7, <1>9, <1>10, <1>11 DEF IInv, TypeOK, BatchesInv
-----------------------------------------------------------------------------
(* Admission and departure *)

LEMMA AdmitIInv ==
    ASSUME IInv, NEW r \in Requests, Admit(r)
    PROVE  IInv'
  <1>1. /\ pc \in [Requests -> PCs] /\ inFlight \in Nat /\ r \in Requests
        /\ pc[r] = "waiting" /\ pc' = [pc EXCEPT ![r] = "admitted"]
        /\ shuttingDown => r \in Probes
        /\ inFlight' = inFlight + 1 /\ drainEvent' = FALSE
        /\ UNCHANGED <<serverVars, waiter, activeBatches, permits, results, reply>>
    BY DEF IInv, TypeOK, RequestType, Admit
  <1>2. InFlight' = InFlight \cup {r}  BY <1>1 DEF InFlight, PCs
  <1>3. RunningJobs' = RunningJobs  BY <1>1, Moves DEF PCs
  <1>4. inFlight' = Cardinality(InFlight)'
    BY <1>1, Moves DEF PCs, IInv, CountersExact
  <1>5. RequestType' /\ CountersExact'
    <2>1. RequestType'
      <3>1. drainEvent' \in BOOLEAN  BY <1>1
      <3>2. inFlight' \in Nat /\ activeBatches' \in Nat
        BY <1>1 DEF IInv, TypeOK, RequestType
      <3>3. /\ pc' \in [Requests -> PCs]
            /\ \A q \in Requests \ Batches : pc'[q] \in {"waiting", "admitted"}
        BY <1>1 DEF IInv, TypeOK, RequestType, PCs
      <3> QED  BY <3>1, <3>2, <3>3 DEF RequestType
    <2>2. drainEvent' <=> inFlight' = 0  BY <1>1
    <2>3. activeBatches' = Cardinality(RunningJobs)'
      BY <1>1, <1>3 DEF IInv, CountersExact
    <2> QED  BY <1>4, <2>1, <2>2, <2>3 DEF CountersExact
  <1>6. DrainInv' /\ LifespanType'
    BY <1>1, <1>2, <1>3 DEF IInv, TypeOK, LifespanType, DrainInv, serverVars
  <1>7. BatchType' /\ BatchesInv'
    <2>1. CASE r \in Batches
      <3>1. PICK n \in 1..MaxItems : total' = [total EXCEPT ![r] = n]
        BY <2>1 DEF Admit
      <3>2. reply[r] = NoReply /\ permits[r] = BatchConcurrency
        BY <1>1, <2>1 DEF IInv, BatchesInv, BatchInv
      <3>3. Len(results[r]) = 0
        BY <1>1, <2>1 DEF IInv, BatchesInv, BatchInv
      <3>4. BatchType'
        <4>1. permits' = permits /\ results' = results /\ reply' = reply
          BY <1>1
        <4>2. total' \in [Batches -> 1..MaxItems]
          BY <3>1 DEF IInv, TypeOK, BatchType
        <4>3. \A c \in Batches : Len(results'[c]) <= total'[c]
          BY <2>1, <3>1, <3>3, <4>1, <4>2 DEF IInv, TypeOK, BatchType
        <4> QED  BY <4>1, <4>2, <4>3 DEF IInv, TypeOK, BatchType
      <3>5. BatchInv(r)'
        <4>1. /\ pc'[r] = "admitted" /\ permits'[r] = permits[r]
              /\ results'[r] = results[r] /\ reply'[r] = reply[r]
          BY <1>1
        <4> QED  BY <3>2, <3>3, <4>1 DEF BatchInv, NoReply
      <3>6. \A c \in Batches \ {r} : BatchInv(c)'
        BY <1>1, <2>1, <3>1, OtherBatches DEF IInv, TypeOK, BatchType, Requests, serverVars
      <3> QED  BY <3>4, <3>5, <3>6 DEF BatchesInv
    <2>2. CASE r \notin Batches
      <3>1. total' = total  BY <2>2 DEF Admit
      <3>2. \A c \in Batches : pc'[c] = pc[c]  BY <1>1, <2>2 DEF Requests
      <3> QED
        BY <1>1, <3>1, <3>2
           DEF IInv, TypeOK, BatchType, BatchesInv, BatchInv, Accounted, serverVars
    <2> QED  BY <2>1, <2>2
  <1> QED  BY <1>5, <1>6, <1>7 DEF IInv, TypeOK

\* When the event is set, nothing is in flight any more.
LEMMA LeaveIInv ==
    ASSUME IInv, NEW r \in Requests, Leave(r)
    PROVE  IInv'
  <1>1. /\ pc \in [Requests -> PCs] /\ inFlight \in Nat
        /\ pc[r] \in {"admitted", "responding"} /\ pc' = [pc EXCEPT ![r] = "waiting"]
        /\ inFlight' = inFlight - 1
        /\ drainEvent' = (drainEvent \/ inFlight' = 0)
        /\ waiter' = IF waiter = "waiting" /\ inFlight' = 0 THEN "woken" ELSE waiter
        /\ UNCHANGED <<serverVars, activeBatches>>
    BY DEF IInv, TypeOK, RequestType, Leave, SetsEvent
  <1>2. InFlight' = InFlight \ {r} /\ r \in InFlight  BY <1>1 DEF InFlight, PCs
  <1>3. RunningJobs' = RunningJobs  BY <1>1, Moves DEF PCs
  <1>4. inFlight' = Cardinality(InFlight)'
    BY <1>1, Moves DEF PCs, IInv, CountersExact
  <1>5. inFlight' \in Nat /\ (inFlight' = 0 => InFlight' = {}) /\ inFlight # 0
    <2>1. inFlight # 0  BY <1>2, ZeroMeansNone DEF IInv, CountersExact
    <2>2. IsFiniteSet(InFlight')  BY <1>2, SetsFinite, FS_RemoveElement
    <2> QED  BY <1>1, <1>4, <2>1, <2>2, FS_EmptySet
  <1>6. RequestType' /\ CountersExact'
    <2>1. RequestType'
      BY <1>1, <1>5 DEF IInv, TypeOK, RequestType, PCs
    <2>2. drainEvent' <=> inFlight' = 0
      BY <1>1, <1>5 DEF IInv, CountersExact
    <2>3. activeBatches' = Cardinality(RunningJobs)'
      BY <1>1, <1>3 DEF IInv, CountersExact
    <2> QED  BY <1>4, <2>1, <2>2, <2>3 DEF CountersExact
  <1>7. DrainInv' /\ LifespanType'
    <2>1. CASE waiter = "waiting" /\ inFlight' = 0
      BY <1>1, <1>2, <1>3, <1>5, <2>1
         DEF IInv, TypeOK, LifespanType, DrainInv, serverVars, Phases
    <2>2. CASE ~(waiter = "waiting" /\ inFlight' = 0)
      BY <1>1, <1>2, <1>3, <2>2, DrainStable DEF IInv
    <2> QED  BY <2>1, <2>2
  <1>8. BatchType' /\ BatchesInv'
    <2>1. CASE r \in Batches
      <3>1. /\ permits' = [permits EXCEPT ![r] = BatchConcurrency]
            /\ total' = [total EXCEPT ![r] = 1]
            /\ results' = [results EXCEPT ![r] = <<>>]
            /\ reply' = [reply EXCEPT ![r] = NoReply]
        BY <2>1 DEF Leave
      <3>2. <<>> \in Seq(Outcomes) /\ Len(<<>>) = 0  BY EmptySeq
      <3>3. NoReply \in [total : Nat, succeeded : Nat, failed : Nat, interrupted : Nat]
        BY DEF NoReply
      <3>4. BatchType'
        <4>1. /\ permits' \in [Batches -> 0..BatchConcurrency]
              /\ total' \in [Batches -> 1..MaxItems]
          <5>1. BatchConcurrency \in 0..BatchConcurrency /\ 1 \in 1..MaxItems
            BY BoundsAssumption
          <5>2. permits \in [Batches -> 0..BatchConcurrency]
            BY DEF IInv, TypeOK, BatchType
          <5>3. total \in [Batches -> 1..MaxItems]
            BY DEF IInv, TypeOK, BatchType
          <5> QED  BY <3>1, <5>1, <5>2, <5>3
        <4>2. /\ results' \in [Batches -> Seq(Outcomes)]
              /\ \A c \in Batches : Len(results'[c]) <= total'[c]
          BY <2>1, <3>1, <3>2 DEF IInv, TypeOK, BatchType
        <4>3. reply' \in [Batches -> [total : Nat, succeeded : Nat, failed : Nat,
                                      interrupted : Nat]]
          BY <3>1, <3>3 DEF IInv, TypeOK, BatchType
        <4> QED  BY <4>1, <4>2, <4>3 DEF BatchType
      <3>5. BatchInv(r)'
        BY <1>1, <2>1, <3>1, <3>2 DEF IInv, TypeOK, BatchType, BatchInv, NoReply
      <3>6. \A c \in Batches \ {r} : BatchInv(c)'
        BY <1>1, <2>1, <3>1, OtherBatches DEF IInv, TypeOK, BatchType, Requests, serverVars
      <3> QED  BY <3>4, <3>5, <3>6 DEF BatchesInv
    <2>2. CASE r \notin Batches
      <3>1. UNCHANGED <<permits, total, results, reply>>  BY <2>2 DEF Leave
      <3>2. \A c \in Batches : pc'[c] = pc[c]  BY <1>1, <2>2 DEF Requests
      <3> QED
        BY <1>1, <3>1, <3>2
           DEF IInv, TypeOK, BatchType, BatchesInv, BatchInv, Accounted, serverVars
    <2> QED  BY <2>1, <2>2
  <1> QED  BY <1>6, <1>7, <1>8 DEF IInv, TypeOK
-----------------------------------------------------------------------------
(* SIGTERM and the steps of lifespan *)

\* What such a step leaves alone, and what follows from that.
LEMMA RequestsUntouched ==
    ASSUME IInv, UNCHANGED <<inFlight, drainEvent, batchVars, pc>>,
           shuttingDown => shuttingDown'
    PROVE  /\ RequestType' /\ BatchType' /\ CountersExact' /\ BatchesInv'
           /\ InFlight' = InFlight /\ RunningJobs' = RunningJobs
  <1>1. InFlight' = InFlight /\ RunningJobs' = RunningJobs
    BY DEF InFlight, RunningJobs
  <1>2. RequestType' /\ BatchType'
    BY DEF IInv, TypeOK, RequestType, BatchType, batchVars
  <1>3. CountersExact'
    BY <1>1 DEF IInv, CountersExact, batchVars
  <1>4. BatchesInv'
    BY DEF IInv, BatchesInv, BatchInv, Accounted, batchVars
  <1> QED  BY <1>1, <1>2, <1>3, <1>4

LEMMA SigtermIInv == ASSUME IInv, Sigterm PROVE IInv'
  <1>1. /\ RequestType' /\ BatchType' /\ CountersExact' /\ BatchesInv'
        /\ InFlight' = InFlight /\ RunningJobs' = RunningJobs
    BY RequestsUntouched DEF Sigterm, counterVars
  <1>2. LifespanType' /\ DrainInv'
    BY <1>1 DEF IInv, TypeOK, LifespanType, DrainInv, Sigterm, counterVars
  <1> QED  BY <1>1, <1>2 DEF IInv, TypeOK

\* The jobs are counted, and the count is exact.
LEMMA DrainFromIInv ==
    ASSUME IInv, NEW n \in 0..MaxPolls, DrainFrom(n), shuttingDown, waiter = "none",
           UNCHANGED <<shuttingDown, drained, cleanup, inFlight, drainEvent, batchVars, pc>>
    PROVE  IInv'
  <1>1. /\ RequestType' /\ BatchType' /\ CountersExact' /\ BatchesInv'
        /\ InFlight' = InFlight /\ RunningJobs' = RunningJobs
    BY RequestsUntouched
  <1>2. activeBatches \in Nat /\ (activeBatches = 0 => RunningJobs = {})
    BY ZeroMeansNone DEF IInv, TypeOK, RequestType, CountersExact
  <1>3. LifespanType'
    BY DEF IInv, TypeOK, LifespanType, DrainFrom, Phases
  <1>4. DrainInv'
    BY <1>1, <1>2, BoundsAssumption DEF IInv, DrainInv, DrainFrom
  <1> QED  BY <1>1, <1>3, <1>4 DEF IInv, TypeOK

LEMMA LifespanIInv ==
    ASSUME IInv,
           StopServing \/ PollWake \/ StartWait \/ DrainWake \/ DrainTimeout
           \/ CleanupStep \/ CleanupCancelled \/ Close
    PROVE  IInv'
  <1>1. CASE StopServing /\ shuttingDown
    <2>1. waiter = "none" /\ phase = "serving"  BY <1>1 DEF IInv, DrainInv, StopServing
    <2>2. 0 \in 0..MaxPolls  BY BoundsAssumption
    <2> QED  BY <1>1, <2>1, <2>2, DrainFromIInv DEF StopServing
  <1>2. CASE PollWake
    <2>1. waiter = "none" /\ phase = "batch_drain"  BY <1>2 DEF IInv, DrainInv, PollWake
    <2>2. shuttingDown  BY <2>1 DEF IInv, DrainInv
    <2>3. polls + 1 \in 0..MaxPolls
      BY <2>1, BoundsAssumption DEF IInv, DrainInv, TypeOK, LifespanType
    <2> QED  BY <1>2, <2>1, <2>2, <2>3, DrainFromIInv DEF PollWake
  <1>3. ASSUME UNCHANGED <<shuttingDown, inFlight, drainEvent, batchVars, pc>>,
               LifespanType', DrainInv'
        PROVE  IInv'
    BY <1>3, RequestsUntouched DEF IInv, TypeOK
  <1>4. CASE StopServing /\ ~shuttingDown
    <2>1. LifespanType' /\ DrainInv'
      BY <1>4, RequestsUntouched
         DEF IInv, TypeOK, LifespanType, DrainInv, StopServing, Phases
    <2> QED  BY <1>3, <1>4, <2>1 DEF StopServing
  <1>5. CASE StartWait
    <2>1. drainEvent => InFlight = {}
      BY ZeroMeansNone DEF IInv, CountersExact
    <2>2. LifespanType'
      BY <1>5 DEF IInv, TypeOK, LifespanType, StartWait, serverVars
    <2>3. DrainInv'
      BY <1>5, <2>1, RequestsUntouched DEF IInv, DrainInv, StartWait, serverVars
    <2> QED  BY <1>3, <1>5, <2>2, <2>3 DEF StartWait, serverVars
  <1>6. CASE DrainWake
    <2>1. LifespanType' /\ DrainInv'
      BY <1>6, RequestsUntouched
         DEF IInv, TypeOK, LifespanType, DrainInv, DrainWake, Phases
    <2> QED  BY <1>3, <1>6, <2>1 DEF DrainWake
  <1>7. CASE DrainTimeout
    <2>1. LifespanType' /\ DrainInv'
      BY <1>7, RequestsUntouched
         DEF IInv, TypeOK, LifespanType, DrainInv, DrainTimeout, Phases
    <2> QED  BY <1>3, <1>7, <2>1 DEF DrainTimeout
  <1>8. CASE CleanupStep \/ CleanupCancelled
    <2>1. LifespanType' /\ DrainInv'
      BY <1>8, RequestsUntouched
         DEF IInv, TypeOK, LifespanType, DrainInv, CleanupStep, CleanupCancelled, counterVars
    <2> QED  BY <1>3, <1>8, <2>1 DEF CleanupStep, CleanupCancelled, counterVars
  <1>9. CASE Close
    <2>1. LifespanType' /\ DrainInv'
      BY <1>9, RequestsUntouched
         DEF IInv, TypeOK, LifespanType, DrainInv, Close, Phases, counterVars
    <2> QED  BY <1>3, <1>9, <2>1 DEF Close, counterVars
  <1> QED  BY <1>1, <1>2, <1>4, <1>5, <1>6, <1>7, <1>8, <1>9
-----------------------------------------------------------------------------
LEMMA InitIInv == Init => IInv
  <1> SUFFICES ASSUME Init PROVE IInv  OBVIOUS
  <1>1. InFlight = {} /\ RunningJobs = {}
    BY DEF Init, InFlight, RunningJobs, Requests
  <1>2. CountersExact  BY <1>1, FS_EmptySet DEF Init, CountersExact
  <1>3. DrainInv  BY DEF Init, DrainInv
  <1>4. LifespanType /\ RequestType
    <2>1. /\ shuttingDown \in BOOLEAN /\ batchesDrained \in BOOLEAN /\ drained \in BOOLEAN
          /\ drainEvent \in BOOLEAN
      BY DEF Init
    <2>2. phase \in Phases /\ polls \in 0..MaxPolls
      BY BoundsAssumption DEF Init, Phases
    <2>3. inFlight \in Nat /\ activeBatches \in Nat  BY DEF Init
    <2>4. /\ pc \in [Requests -> PCs]
          /\ \A r \in Requests \ Batches : pc[r] \in {"waiting", "admitted"}
      BY DEF Init, PCs
    <2> QED  BY <2>1, <2>2, <2>3, <2>4 DEF Init, LifespanType, RequestType
  <1>5. \A b \in Batches : /\ permits[b] = BatchConcurrency /\ total[b] = 1
                          /\ results[b] = <<>> /\ reply[b] = NoReply
                          /\ pc[b] = "waiting"
    BY DEF Init, Requests
  <1>6. <<>> \in Seq(Outcomes) /\ Len(<<>>) = 0  BY EmptySeq
  <1>7. BatchesInv  BY <1>5, <1>6 DEF BatchesInv, BatchInv, NoReply
  <1>8. BatchType
    <2>1. permits \in [Batches -> 0..BatchConcurrency] /\ total \in [Batches -> 1..MaxItems]
      BY BoundsAssumption DEF Init
    <2>2. results \in [Batches -> Seq(Outcomes)]  BY <1>6 DEF Init
    <2>3. \A b \in Batches : Len(results[b]) <= total[b]  BY <1>5, <1>6
    <2>4. reply \in [Batches -> [total : Nat, succeeded : Nat, failed : Nat,
                                 interrupted : Nat]]
      BY DEF Init, NoReply
    <2> QED  BY <2>1, <2>2, <2>3, <2>4 DEF BatchType
  <1> QED  BY <1>2, <1>3, <1>4, <1>7, <1>8 DEF IInv, TypeOK

LEMMA NextIInv == IInv /\ [Next]_vars => IInv'
  <1> SUFFICES ASSUME IInv, [Next]_vars PROVE IInv'  OBVIOUS
  <1>1. CASE \E r \in Requests : Admit(r)  BY <1>1, AdmitIInv
  <1>2. CASE \E r \in Requests : Leave(r)  BY <1>2, LeaveIInv
  <1>3. CASE \E b \in Batches : StartBatch(b)  BY <1>3, StartBatchIInv
  <1>4. CASE \E b \in Batches : EndItem(b)  BY <1>4, EndItemIInv
  <1>5. CASE \E b \in Batches : AbortBatch(b)  BY <1>5, AbortBatchIInv
  <1>6. CASE Sigterm  BY <1>6, SigtermIInv
  <1>7. CASE StopServing \/ PollWake \/ StartWait \/ DrainWake \/ DrainTimeout
             \/ CleanupStep \/ CleanupCancelled \/ Close
    BY <1>7, LifespanIInv
  <1>8. ASSUME UNCHANGED vars PROVE IInv'
    <2>1. UNCHANGED <<shuttingDown, inFlight, drainEvent, batchVars, pc>>
      BY <1>8 DEF vars, serverVars, counterVars
    <2>2. LifespanType' /\ DrainInv'
      BY <1>8, RequestsUntouched
         DEF IInv, TypeOK, LifespanType, DrainInv, vars, serverVars, counterVars
    <2> QED  BY <2>1, <2>2, RequestsUntouched DEF IInv, TypeOK
  <1>9. CASE \E r \in Requests : Refuse(r)  BY <1>8, <1>9 DEF Refuse
  <1> QED  BY <1>1, <1>2, <1>3, <1>4, <1>5, <1>6, <1>7, <1>8, <1>9 DEF Next

\* The inductive invariant holds in every state of every execution.
THEOREM Invariance == Spec => []IInv
  BY InitIInv, NextIInv, PTL DEF Spec

\* The state keeps its type: no counter ever goes below zero, no batch has
\* more results than items.
THEOREM TypeCorrect == Spec => []TypeOK
  <1>1. IInv => TypeOK  BY DEF IInv
  <1> QED  BY <1>1, Invariance, PTL

\* _in_flight and active_batch_jobs are exact for any number of requests,
\* whatever ends them, and _drain_event is set exactly at zero.
THEOREM CountersAreExact == Spec => []CountersExact
  <1>1. IInv => CountersExact  BY DEF IInv
  <1> QED  BY <1>1, Invariance, PTL

\* Resources are closed under nobody but the probes after a drain that was
\* logged as complete.
THEOREM DrainIsClean == Spec => []CleanDrain
  <1>1. IInv => CleanDrain  BY DEF IInv, DrainInv, CleanDrain
  <1> QED  BY <1>1, Invariance, PTL

\* A batch drain that was logged as complete stays complete.
THEOREM DrainedBatchesIdle == Spec => []DrainedBatchesStayIdle
  <1>1. IInv => DrainedBatchesStayIdle  BY DEF IInv, DrainInv, DrainedBatchesStayIdle
  <1> QED  BY <1>1, Invariance, PTL

\* Every batch response accounts for every item, for any batch size.
THEOREM EveryReplyAddsUp == Spec => []RepliesAddUp
  <1>1. IInv => RepliesAddUp
    BY DEF IInv, BatchesInv, BatchInv, Accounted, RepliesAddUp
  <1> QED  BY <1>1, Invariance, PTL

\* After a SIGTERM no step of any task starts one more item of any batch.
THEOREM NoItemStarts == Spec => NoItemAfterSigterm
  <1> DEFINE Stays == shuttingDown => \A b \in Batches : pc'[b] = "item" =>
                          pc[b] = "item" /\ results'[b] = results[b]
  <1>1. IInv /\ [Next]_vars => Stays
    <2> SUFFICES ASSUME IInv, [Next]_vars, shuttingDown, NEW b \in Batches,
                        pc'[b] = "item"
                 PROVE  pc[b] = "item" /\ results'[b] = results[b]
      OBVIOUS
    <2>1. pc \in [Requests -> PCs] /\ results \in [Batches -> Seq(Outcomes)]
          /\ b \in Requests
      BY DEF IInv, TypeOK, RequestType, BatchType, Requests
    <2>2. ASSUME NEW r \in Requests, NEW p \in PCs \ {"item"},
                 pc' = [pc EXCEPT ![r] = p]
          PROVE  r # b /\ pc[b] = "item"
      BY <2>1, <2>2
    <2>3. CASE \E r \in Requests : Admit(r)
      BY <2>1, <2>2, <2>3 DEF Admit, PCs
    <2>4. CASE \E r \in Requests : Leave(r)
      <3>1. PICK r \in Requests : Leave(r)  BY <2>4
      <3>2. r # b /\ pc[b] = "item"  BY <2>2, <3>1 DEF Leave, PCs
      <3>3. results'[b] = results[b]  BY <2>1, <3>1, <3>2 DEF Leave
      <3> QED  BY <3>2, <3>3
    <2>5. ASSUME NEW c \in Batches, NEW res, NEW active, NEW free,
                 LoopFrom(c, total[c], res, active, free)
          PROVE  pc[b] = "item" /\ results'[b] = results[b]
      <3>1. /\ pc' = [pc EXCEPT ![c] = "responding"]
            /\ results' = [results EXCEPT ![c] = Interrupt(total[c], res)]
        BY <2>5 DEF LoopFrom, GoesOn
      <3>2. c # b /\ pc[b] = "item"  BY <2>1, <3>1
      <3> QED  BY <2>1, <3>1, <3>2
    <2>6. CASE \E c \in Batches : StartBatch(c)  BY <2>5, <2>6 DEF StartBatch
    <2>7. CASE \E c \in Batches : EndItem(c)  BY <2>5, <2>7 DEF EndItem
    <2>8. CASE \E c \in Batches : AbortBatch(c)
      BY <2>1, <2>8 DEF AbortBatch
    <2>9. ASSUME UNCHANGED <<pc, results>>
          PROVE  pc[b] = "item" /\ results'[b] = results[b]
      BY <2>9
    <2>10. CASE \/ \E r \in Requests : Refuse(r)
                \/ Sigterm \/ StopServing \/ PollWake \/ StartWait \/ DrainWake
                \/ DrainTimeout \/ CleanupStep \/ CleanupCancelled \/ Close
                \/ UNCHANGED vars
      BY <2>9, <2>10
         DEF Refuse, Sigterm, StopServing, PollWake, StartWait, DrainWake, DrainTimeout,
             CleanupStep, CleanupCancelled, Close, vars, batchVars
    <2> QED  BY <2>3, <2>4, <2>6, <2>7, <2>8, <2>10 DEF Next
  <1> QED  BY <1>1, Invariance, PTL DEF Spec, NoItemAfterSigterm
-----------------------------------------------------------------------------
(* The shutdown runs down: lifespan comes closer to its end with every step  *)
(* of its own, and no request sends it back or adds to what it has to do.    *)

\* The steps that lifespan still takes at most after its yield.
Left ==
    CASE phase = "batch_drain" -> MaxPolls - polls + 7
      [] phase = "event_drain" /\ waiter = "starting" -> 7
      [] phase = "event_drain" /\ waiter = "waiting" -> 6
      [] phase = "event_drain" /\ waiter \in {"woken", "none"} -> 5
      [] phase = "cancel_cleanup" -> IF cleanup = "cancelled" THEN 3 ELSE 4
      [] phase = "close_cache" -> 2
      [] phase = "close_client" -> 1
      [] OTHER -> 0

RunsDown ==
    /\ phase = "serving" /\ phase' # "serving" => Left' \in 1..MaxPolls + 7
    /\ phase # "serving" =>
           /\ phase' # "serving" /\ Left' \in Nat
           /\ \/ Left' < Left
              \/ Left' = Left /\ UNCHANGED <<phase, polls, waiter>>

\* Once lifespan has left its yield, the polls, the wait, the cancellation and
\* the closing are passed through in one direction: requests that arrive,
\* leave, hang or abort meanwhile may wake the wait up, and nothing more.
ShutdownRunsDown == [][RunsDown]_vars

LEMMA LeftType ==
    ASSUME LifespanType
    PROVE  Left \in Nat
  BY BoundsAssumption DEF LifespanType, Left, Phases

\* Steps that leave lifespan where it is.
LEMMA Stays ==
    ASSUME LifespanType, UNCHANGED <<phase, polls, waiter>>,
           phase = "cancel_cleanup" => UNCHANGED cleanup
    PROVE  RunsDown
  <1>1. Left' = Left  BY DEF Left
  <1> QED  BY <1>1, LeftType DEF RunsDown

LEMMA DrainFromRunsDown ==
    ASSUME NEW n \in 0..MaxPolls, DrainFrom(n)
    PROVE  phase' # "serving" /\ Left' \in 1..MaxPolls - n + 7
  <1>1. MaxPolls \in Nat \ {0}  BY BoundsAssumption
  <1>2. \/ phase' = "batch_drain" /\ polls' = n
        \/ phase' = "event_drain" /\ waiter' = "starting"
    BY DEF DrainFrom
  <1> QED  BY <1>1, <1>2 DEF Left

\* Steps of lifespan after its yield, other than the polls.
LEMMA StepRunsDown ==
    ASSUME phase # "serving", phase' # "serving", Left \in Nat, Left' \in Nat, Left' < Left
    PROVE  RunsDown
  BY DEF RunsDown

LEMMA WaitRunsDown ==
    ASSUME LifespanType, phase = "event_drain", UNCHANGED polls,
           \/ phase' = "cancel_cleanup"
           \/ /\ phase' = phase
              /\ \/ waiter = "starting" /\ waiter' \in {"waiting", "woken"}
                 \/ waiter = "waiting" /\ waiter' = "woken"
    PROVE  RunsDown
  <1>1. CASE phase' = "cancel_cleanup"
    <2>1. Left' \in {3, 4}  BY <1>1 DEF Left
    <2>2. Left \in 5..7  BY DEF LifespanType, Left
    <2> QED  BY <1>1, <2>1, <2>2, StepRunsDown
  <1>2. CASE phase' = phase /\ waiter = "starting" /\ waiter' \in {"waiting", "woken"}
    <2>1. Left = 7 /\ Left' \in {5, 6}  BY <1>2 DEF Left
    <2> QED  BY <1>2, <2>1, StepRunsDown
  <1>3. CASE phase' = phase /\ waiter = "waiting" /\ waiter' = "woken"
    <2>1. Left = 6 /\ Left' = 5  BY <1>3 DEF Left
    <2> QED  BY <1>3, <2>1, StepRunsDown
  <1> QED  BY <1>1, <1>2, <1>3

LEMMA NextRunsDown == IInv /\ [Next]_vars => RunsDown
  <1> SUFFICES ASSUME IInv, [Next]_vars PROVE RunsDown  OBVIOUS
  <1>1. LifespanType /\ MaxPolls \in Nat \ {0}  BY BoundsAssumption DEF IInv, TypeOK
  <1>2. ASSUME NEW r \in Requests, Refuse(r) \/ Admit(r) PROVE RunsDown
    BY <1>1, <1>2, Stays DEF Refuse, Admit, serverVars, vars, counterVars
  <1>3. ASSUME NEW r \in Requests, Leave(r) PROVE RunsDown
    <2>1. UNCHANGED <<phase, polls, cleanup>>  BY <1>3 DEF Leave, serverVars
    <2>2. CASE waiter' = waiter  BY <1>1, <2>1, <2>2, Stays
    <2>3. CASE waiter = "waiting" /\ waiter' = "woken"
      <3>1. phase = "event_drain"  BY <2>3 DEF IInv, DrainInv
      <3> QED  BY <1>1, <2>1, <2>3, <3>1, WaitRunsDown
    <2> QED  BY <1>3, <2>2, <2>3 DEF Leave
  <1>4. ASSUME NEW b \in Batches, StartBatch(b) \/ EndItem(b) \/ AbortBatch(b) PROVE RunsDown
    BY <1>1, <1>4, Stays DEF StartBatch, EndItem, AbortBatch, serverVars, counterVars
  <1>5. CASE StopServing
    <2>1. CASE shuttingDown /\ DrainFrom(0)
      BY <1>1, <1>5, <2>1, DrainFromRunsDown DEF StopServing, RunsDown
    <2>2. CASE phase' = "cancel_cleanup"
      BY <1>1, <1>5, <2>2 DEF StopServing, RunsDown, Left
    <2> QED  BY <1>5, <2>1, <2>2 DEF StopServing
  <1>6. CASE PollWake
    <2>1. phase = "batch_drain" /\ polls \in 0..MaxPolls - 1 /\ DrainFrom(polls + 1)
      BY <1>1, <1>6 DEF PollWake, IInv, DrainInv, LifespanType
    <2>2. phase' # "serving" /\ Left' \in 1..MaxPolls - (polls + 1) + 7
      <3>1. polls + 1 \in 0..MaxPolls  BY <1>1, <2>1
      <3> QED  BY <2>1, <3>1, DrainFromRunsDown
    <2>3. Left = MaxPolls - polls + 7  BY <2>1 DEF Left
    <2>4. Left \in Nat /\ Left' \in Nat /\ Left' < Left  BY <1>1, <2>1, <2>2, <2>3
    <2>5. phase # "serving"  BY <2>1
    <2> QED  BY <2>2, <2>4, <2>5, StepRunsDown
  <1>7. CASE StartWait
    BY <1>1, <1>7, WaitRunsDown DEF StartWait, serverVars
  <1>8. CASE DrainWake \/ DrainTimeout
    BY <1>1, <1>8, WaitRunsDown DEF DrainWake, DrainTimeout
  <1>9. CASE Sigterm \/ CleanupStep \/ UNCHANGED vars
    BY <1>1, <1>9, Stays DEF Sigterm, CleanupStep, vars, serverVars, counterVars
  <1>10. CASE CleanupCancelled
    <2>1. Left = 4 /\ Left' = 3 /\ phase # "serving" /\ phase' # "serving"
      BY <1>10 DEF CleanupCancelled, Left
    <2> QED  BY <2>1, StepRunsDown
  <1>11. CASE Close
    <2>1. phase # "serving" /\ phase' # "serving" /\ cleanup' = cleanup
      BY <1>11 DEF Close
    <2>2. \/ Left = 3 /\ Left' = 2
          \/ Left = 2 /\ Left' = 1
          \/ Left = 1 /\ Left' = 0
      BY <1>11 DEF Close, Left
    <2> QED  BY <2>1, <2>2, StepRunsDown
  <1> QED  BY <1>2, <1>3, <1>4, <1>5, <1>6, <1>7, <1>8, <1>9, <1>10, <1>11 DEF Next

\* Why a shutdown completes whatever the requests do, for any number of them
\* and any number of polls.
THEOREM ShutdownEnds == Spec => ShutdownRunsDown
  <1>1. IInv /\ [Next]_vars => [RunsDown]_vars  BY NextRunsDown
  <1> QED  BY <1>1, Invariance, PTL DEF Spec, ShutdownRunsDown
=============================================================================
