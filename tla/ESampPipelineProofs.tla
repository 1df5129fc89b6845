------------------------- MODULE ESampPipelineProofs -------------------------
(***************************************************************************)
(* Proofs about the training pipeline, for every number of slots, every    *)
(* set of stream modes and every bound.  TypeCorrect needs no assumption,  *)
(* the others that the pipeline has room for every batch (PipelineFits).   *)
(***************************************************************************)
EXTENDS ESampPipelineOrder, SequenceTheorems, TLAPS


\* Recording an event, at the end of a stream or after more operations, gives an event.
LEMMA RecordedType ==
  ASSUME TypeOK, NEW s \in Streams, NEW k \in Nat
  PROVE  Recorded(s, k) \in EventType
  BY DEF Recorded, EventType, TypeOK

\* Enqueueing operations keeps every log a sequence of operations no shorter than
\* what its stream has run.
LEMMA EnqueueType ==
  ASSUME TypeOK, NEW s \in Streams, NEW ops \in Seq(OpType), Enqueue(s, ops)
  PROVE  /\ log' \in [Streams -> Seq(OpType)]
         /\ \A t \in Streams : done[t] <= Len(log'[t])
<1>1. log[s] \o ops \in Seq(OpType) /\ Len(log[s] \o ops) = Len(log[s]) + Len(ops)
  BY DEF TypeOK
<1>2. Len(ops) \in Nat /\ \A t \in Streams : Len(log[t]) \in Nat /\ done[t] \in Nat /\ done[t] <= Len(log[t])
  BY DEF TypeOK
<1>3. log' = [log EXCEPT ![s] = log[s] \o ops]
  BY DEF Enqueue
<1>4. log' \in [Streams -> Seq(OpType)]
  BY <1>1, <1>3 DEF TypeOK
<1>5. ASSUME NEW t \in Streams PROVE done[t] <= Len(log'[t])
  <2>1. CASE t = s
    BY <1>1, <1>2, <1>3, <2>1 DEF TypeOK
  <2>2. CASE t # s
    BY <1>2, <1>3, <2>2 DEF TypeOK
  <2> QED BY <2>1, <2>2
<1> QED BY <1>4, <1>5

\* The operations the host enqueues are operations.
LEMMA OpsType ==
  ASSUME TypeOK
  PROVE  /\ ForwardStream \in Streams
         /\ \A e \in EventType : WaitFor(e) \in OpType
         /\ \A k \in {"tap", "lease_src", "lease_tgt", "copy_src", "copy_tgt"},
              slot \in SlotIds, n \in Steps : Kernel(k, slot, n) \in OpType
         /\ \A slot \in SlotIds, n \in Steps : TrainKernel(slot, n) \in OpType
         /\ \A name \in EventNames, slot \in SlotIds : event[<<name, slot>>] \in EventType
  BY DEF TypeOK, ForwardStream, Streams, WaitFor, Kernel, TrainKernel, OpType, EventType

\* The stream handles that _ensure_adaptation_streams leaves are side streams or none.
LEMMA EnsuredStreamsType ==
  ASSUME TypeOK
  PROVE  /\ EnsuredForward \in Side \cup {NoStream}
         /\ EnsuredTrain \in Side \cup {NoStream}
<1>1. \A s \in Side \cup {NoStream} : FreshStream({s}) \in Side
  BY DEF FreshStream, Side, NoStream
<1>2. FreshStream({}) \in Side
  BY DEF FreshStream, Side
<1>3. mode \in {"dual", "single", "serial"}
  BY ModesAssumption DEF TypeOK
<1>4. EnsuredForward \in Side \cup {NoStream}
  BY <1>1, <1>2, <1>3 DEF EnsuredForward, TypeOK
<1>5. EnsuredTrain \in Side \cup {NoStream}
  BY <1>1, <1>4 DEF EnsuredTrain, TypeOK
<1> QED BY <1>4, <1>5
-----------------------------------------------------------------------------
\* The initial state has the types.
LEMMA InitTypeOK == Init => TypeOK
<1> SUFFICES ASSUME Init PROVE TypeOK
  OBVIOUS
<1>1. event \in [EventNames \X SlotIds -> EventType]
  BY DEF Init, NeverRecorded, EventType, Streams
<1>2. log \in [Streams -> Seq(OpType)] /\ done \in [Streams -> Nat] /\ \A s \in Streams : done[s] <= Len(log[s])
  BY DEF Init
<1>3. nextSlot \in SlotIds
  BY SlotsAssumption DEF Init, SlotIds
<1>4. src \in [SlotIds -> Steps] /\ tgt \in [SlotIds -> Steps] /\ tap \in Steps
  BY BoundsAssumption DEF Init, Steps
<1>5. losses \in [0 .. MaxStatsBuffers -> Nat] /\ statsBuffer \in 0 .. MaxStatsBuffers
  BY BoundsAssumption DEF Init
<1> QED
  BY <1>1, <1>2, <1>3, <1>4, <1>5 DEF Init, TypeOK, Steps

\* A step of the host keeps the types.
LEMMA HostTypeOK == TypeOK /\ Host => TypeOK'
<1> SUFFICES ASSUME TypeOK, Host PROVE TypeOK'
  OBVIOUS
<1> USE DEF hostVars, deviceVars
<1>1. CASE ModelForward
  <2>1. step + 1 \in Steps
    BY <1>1, BoundsAssumption DEF ModelForward, TypeOK, Steps
  <2>2. <<Kernel("tap", 0, step + 1)>> \in Seq(OpType) /\ Main \in Streams
    BY <2>1, OpsType, SlotsAssumption DEF SlotIds, Streams
  <2>3. log' \in [Streams -> Seq(OpType)] /\ \A t \in Streams : done[t] <= Len(log'[t])
    BY <1>1, <2>2, EnqueueType DEF ModelForward
  <2> QED BY <1>1, <2>1, <2>3 DEF ModelForward, TypeOK, Steps
<1>2. ASSUME NEW outgrown \in Outgrows, EnsureResources(outgrown) PROVE TypeOK'
  <2>1. statsBuffer' \in 0 .. MaxStatsBuffers
    BY <1>2, BoundsAssumption DEF EnsureResources, TypeOK
  <2>2. event' \in [EventNames \X SlotIds -> EventType]
    BY <1>2 DEF EnsureResources, TypeOK, NeverRecorded, EventType, Streams
  <2>3. nextSlot' \in SlotIds /\ current' \in SlotIds \cup {None} /\ ready' \in SlotIds \cup {None}
    BY <1>2, SlotsAssumption DEF EnsureResources, TypeOK, SlotIds
  <2>4. fwdStream' \in Side \cup {NoStream} /\ trnStream' \in Side \cup {NoStream}
    BY <1>2, EnsuredStreamsType DEF EnsureResources
  <2> QED BY <1>2, <2>1, <2>2, <2>3, <2>4 DEF EnsureResources, TypeOK
<1>3. CASE LaunchStep
  <2>1. nextSlot \in SlotIds /\ SlotAfter(nextSlot) \in SlotIds /\ step \in Steps
    BY SlotsAssumption DEF TypeOK, SlotAfter, SlotIds
  <2>2. StageStepOps(nextSlot) \in Seq(OpType) /\ Main \in Streams
    BY <2>1, OpsType DEF StageStepOps, EventNames, Streams
  <2>3. log' \in [Streams -> Seq(OpType)] /\ \A t \in Streams : done[t] <= Len(log'[t])
    BY <1>3, <2>2, EnqueueType DEF LaunchStep
  <2>4. event' \in [EventNames \X SlotIds -> EventType]
    BY <1>3, <2>1, <2>2, RecordedType DEF LaunchStep, TypeOK, Steps
  <2>5. launched' \in Steps /\ launched' <= step' /\ step' = step
    BY <1>3, <2>1 DEF LaunchStep, Steps
  <2> QED BY <1>3, <2>1, <2>3, <2>4, <2>5 DEF LaunchStep, TypeOK
<1>4. CASE LaunchForward
  <2> DEFINE producer == Recorded(Main, 0)
             ops      == StageSourceOps(nextSlot, producer)
  <2>1. nextSlot \in SlotIds /\ SlotAfter(nextSlot) \in SlotIds /\ step \in Steps
    BY SlotsAssumption DEF TypeOK, SlotAfter, SlotIds
  <2>2. producer \in EventType
    BY RecordedType DEF Streams
  <2>3. ops \in Seq(OpType) /\ ForwardStream \in Streams /\ Len(ops) \in Nat
    BY <2>1, <2>2, OpsType DEF StageSourceOps, EventNames
  <2> HIDE DEF producer, ops
  <2>4. /\ Enqueue(ForwardStream, ops)
        /\ event' = [event EXCEPT ![<<"src_ready", nextSlot>>]  = producer,
                                  ![<<"src_staged", nextSlot>>] = Recorded(ForwardStream, Len(ops))]
    BY <1>4 DEF LaunchForward, producer, ops
  <2>5. log' \in [Streams -> Seq(OpType)] /\ \A t \in Streams : done[t] <= Len(log'[t])
    BY <2>3, <2>4, EnqueueType
  <2>6. event' \in [EventNames \X SlotIds -> EventType]
    BY <2>1, <2>2, <2>3, <2>4, RecordedType DEF TypeOK
  <2>7. launched' \in Steps /\ launched' <= step' /\ step' = step
    BY <1>4, <2>1 DEF LaunchForward, Steps
  <2> QED BY <1>4, <2>1, <2>5, <2>6, <2>7 DEF LaunchForward, TypeOK
<1>5. CASE LaunchTarget
  <2> DEFINE producer == Recorded(Main, 0)
             ops      == StageTargetOps(current, producer)
  <2>1. current \in SlotIds /\ step \in Steps
    BY <1>5 DEF LaunchTarget, TypeOK
  <2>2. producer \in EventType
    BY RecordedType DEF Streams
  <2>3. ops \in Seq(OpType) /\ ForwardStream \in Streams /\ Len(ops) \in Nat
    BY <2>1, <2>2, OpsType DEF StageTargetOps
  <2> HIDE DEF producer, ops
  <2>4. /\ Enqueue(ForwardStream, ops)
        /\ event' = [event EXCEPT ![<<"tgt_ready", current>>] = producer,
                                  ![<<"tgt_done", current>>]  = Recorded(ForwardStream, Len(ops))]
    BY <1>5 DEF LaunchTarget, producer, ops
  <2>5. log' \in [Streams -> Seq(OpType)] /\ \A t \in Streams : done[t] <= Len(log'[t])
    BY <2>3, <2>4, EnqueueType
  <2>6. event' \in [EventNames \X SlotIds -> EventType]
    BY <2>1, <2>2, <2>3, <2>4, RecordedType DEF TypeOK
  <2> QED BY <1>5, <2>1, <2>5, <2>6 DEF LaunchTarget, TypeOK
<1>6. ASSUME NEW outcome \in Outcomes, LaunchDelayedBackward(outcome)
      PROVE  TypeOK'
  <2> DEFINE ops == DrainOps(ready, outcome)
  <2>1. ready \in SlotIds /\ launched \in Steps
    BY <1>6 DEF LaunchDelayedBackward, TypeOK
  <2>2. TrainStream \in Streams
    BY <1>6 DEF LaunchDelayedBackward, TrainStream, TypeOK, Streams
  <2>3. TrainWaits(ready) \in Seq(OpType) /\ <<TrainKernel(ready, launched)>> \in Seq(OpType)
    BY <2>1, OpsType DEF TrainWaits, EventNames
  <2>4. ops \in Seq(OpType) /\ Len(ops) \in Nat
    BY <2>3 DEF DrainOps
  <2> HIDE DEF ops
  <2>5. /\ Enqueue(TrainStream, ops)
        /\ event' = IF outcome = "raises" THEN event
                    ELSE [event EXCEPT ![<<"slot_train_done", ready>>] =
                                         Recorded(TrainStream, Len(ops))]
    BY <1>6 DEF LaunchDelayedBackward, ops
  <2>6. log' \in [Streams -> Seq(OpType)] /\ \A t \in Streams : done[t] <= Len(log'[t])
    BY <2>2, <2>4, <2>5, EnqueueType
  <2>7. event' \in [EventNames \X SlotIds -> EventType]
    BY <2>1, <2>2, <2>4, <2>5, RecordedType DEF TypeOK
  <2> QED BY <1>6, <2>6, <2>7 DEF LaunchDelayedBackward, TypeOK
<1>7. ASSUME NEW b \in BOOLEAN, SetEnabled(b) PROVE TypeOK'
  BY <1>7 DEF SetEnabled, TypeOK
<1>8. ASSUME NEW m \in Modes, NEW b \in BOOLEAN, NEW reshape \in BOOLEAN, Configure(m, b, reshape)
      PROVE  TypeOK'
  BY <1>8 DEF Configure, TypeOK
<1>9. CASE ReadAndResetStats
  BY <1>9, BoundsAssumption DEF ReadAndResetStats, TypeOK
<1> QED
  BY <1>1, <1>2, <1>3, <1>4, <1>5, <1>6, <1>7, <1>8, <1>9 DEF Host

\* A step of the device keeps the types.
LEMMA DeviceTypeOK == ASSUME TypeOK, NEW s \in Streams, Run(s) PROVE TypeOK'
<1> DEFINE op == HeadOf(s)
<1>1. done[s] \in Nat /\ Len(log[s]) \in Nat /\ done[s] + 1 \in 1 .. Len(log[s])
  BY DEF Run, Busy, TypeOK
<1>2. op \in OpType
  BY <1>1 DEF HeadOf, TypeOK
<1>3. done' \in [Streams -> Nat] /\ \A t \in Streams : done'[t] <= Len(log[t])
  BY <1>1 DEF Run, TypeOK
<1>4. op.kind \in {"tap", "lease_src", "lease_tgt", "copy_src", "copy_tgt"} =>
         op.slot \in SlotIds /\ op.step \in Steps
  BY <1>2 DEF OpType
<1>5. op.kind = "train" => op.slot \in SlotIds /\ op.step \in Steps /\ op.stats \in 0 .. MaxStatsBuffers
  BY <1>2 DEF OpType
<1>6. op.kind \in {"lease_src", "lease_tgt", "copy_src", "copy_tgt"} => RowsRead(op) \in Steps
  BY <1>4, BoundsAssumption DEF RowsRead, TypeOK, Steps
<1> HIDE DEF op
<1>7. /\ tap' \in Steps
      /\ src' \in [SlotIds -> Steps]
      /\ tgt' \in [SlotIds -> Steps]
      /\ losses' \in [0 .. MaxStatsBuffers -> Nat]
      /\ trained' \in Seq([job : Steps, src : Steps, tgt : Steps])
  <2>1. CASE op.kind \in {"wait", "tap"}
    BY <1>4, <2>1 DEF Run, TypeOK, op
  <2>3. CASE op.kind \in {"lease_src", "copy_src"}
    BY <1>4, <1>6, <2>3 DEF Run, TypeOK, op
  <2>4. CASE op.kind \in {"lease_tgt", "copy_tgt"}
    BY <1>4, <1>6, <2>4 DEF Run, TypeOK, op
  <2>2. CASE op.kind = "train"
    <3>1. /\ trained' = Append(trained, [job |-> op.step, src |-> src[op.slot], tgt |-> tgt[op.slot]])
          /\ losses' = [losses EXCEPT ![op.stats] = @ + 1]
          /\ UNCHANGED <<tap, src, tgt>>
      BY <2>2 DEF Run, op
    <3>2. [job |-> op.step, src |-> src[op.slot], tgt |-> tgt[op.slot]] \in [job : Steps, src : Steps, tgt : Steps]
      BY <1>5, <2>2 DEF TypeOK
    <3>3. trained' \in Seq([job : Steps, src : Steps, tgt : Steps])
      BY <3>1, <3>2 DEF TypeOK
    <3> QED BY <1>5, <2>2, <3>1, <3>3 DEF TypeOK
  <2> QED BY <2>1, <2>2, <2>3, <2>4 DEF Run, op
<1> QED
  BY <1>3, <1>7 DEF Run, TypeOK, hostVars

\* Every reachable state has the types of TypeOK, and no stream has run more
\* operations than the engine has enqueued on it.
THEOREM TypeCorrect == Spec => []TypeOK
<1>1. TypeOK /\ UNCHANGED vars => TypeOK'
  BY DEF TypeOK, vars
<1>2. TypeOK /\ [Next]_vars => TypeOK'
  BY <1>1, HostTypeOK, DeviceTypeOK DEF Next
<1> QED
  BY InitTypeOK, <1>2, PTL DEF Spec

-----------------------------------------------------------------------------
(***************************************************************************)
(* The order of the streams.  Every call of the host appends to one stream *)
(* (Appended): the lemmas named Appended... say what its operations must   *)
(* satisfy for each part of the invariant, those named ...Keeps show it of *)
(* each call.  The lemmas named Run... do the same for the device.         *)
(***************************************************************************)

\* Logs only grow.
LogsGrow == \A s \in Streams : /\ Len(log[s]) <= Len(log'[s])
                               /\ \A i \in Positions(s) : log'[s][i] = log[s][i]

\* Exactly these operations are appended to one stream.
Appended(x, ops) ==
  /\ Len(ops) \in Nat
  /\ \A s \in Streams : s # x => log'[s] = log[s]
  /\ Len(log'[x]) = Len(log[x]) + Len(ops)
  /\ \A i \in Positions(x) : log'[x][i] = log[x][i]
  /\ \A h \in 1 .. Len(ops) : log'[x][Len(log[x]) + h] = ops[h]

\* Where an operation of the new logs comes from.
OldOrNew(x, ops) ==
  \A s \in Streams : \A i \in 1 .. Len(log'[s]) :
    \/ i \in Positions(s) /\ log'[s][i] = log[s][i]
    \/ s = x /\ \E h \in 1 .. Len(ops) : i = Len(log[x]) + h /\ log'[s][i] = ops[h]

\* What typing gives about lengths and streams.
LEMMA Lengths ==
  ASSUME TypeOK
  PROVE  /\ \A s \in Streams : Len(log[s]) \in Nat /\ done[s] \in 0 .. Len(log[s])
         /\ Main \in Streams /\ Side \subseteq Streams /\ Main \notin Side
         /\ \A s \in Streams : s = Main \/ s \in Side
         /\ NoStream \notin Streams
         /\ \A s \in Streams : \A i \in Positions(s) : log[s][i] \in OpType
  BY DEF TypeOK, Streams, Side, Main, NoStream, Positions

\* Enqueue appends exactly the operations it is given.
LEMMA EnqueueAppends ==
  ASSUME TypeOK, NEW x \in Streams, NEW ops \in Seq(OpType), Enqueue(x, ops)
  PROVE  Appended(x, ops)
<1>1. log[x] \in Seq(OpType) /\ log' = [log EXCEPT ![x] = log[x] \o ops]
  BY DEF TypeOK, Enqueue
<1>2. /\ Len(log[x] \o ops) = Len(log[x]) + Len(ops)
      /\ \A i \in 1 .. Len(log[x]) + Len(ops) :
           (log[x] \o ops)[i] = IF i <= Len(log[x]) THEN log[x][i] ELSE ops[i - Len(log[x])]
  BY <1>1, ConcatProperties
<1>3. log'[x] = log[x] \o ops /\ \A s \in Streams : s # x => log'[s] = log[s]
  BY <1>1 DEF TypeOK
<1>4. Len(log[x]) \in Nat /\ Len(ops) \in Nat
  BY <1>1
<1>5. \A h \in 1 .. Len(ops) : log'[x][Len(log[x]) + h] = ops[h]
  BY <1>2, <1>3, <1>4
<1> QED BY <1>2, <1>3, <1>4, <1>5 DEF Appended, Positions

\* After an append, every operation is an old one in its place or one of the new.
LEMMA AppendedGrows ==
  ASSUME TypeOK, NEW x \in Streams, NEW ops, Appended(x, ops)
  PROVE  LogsGrow /\ OldOrNew(x, ops)
<1>1. Len(log[x]) \in Nat /\ Len(ops) \in Nat
  BY Lengths DEF Appended
<1>2. LogsGrow
  BY <1>1, Lengths DEF Appended, LogsGrow
<1>3. ASSUME NEW s \in Streams, NEW i \in 1 .. Len(log'[s]), ~(i \in Positions(s) /\ log'[s][i] = log[s][i])
      PROVE  s = x /\ \E h \in 1 .. Len(ops) : i = Len(log[x]) + h /\ log'[s][i] = ops[h]
  <2>1. s = x
    BY <1>3 DEF Appended, Positions
  <2>2. i \in 1 .. Len(log[x]) + Len(ops) /\ i \notin 1 .. Len(log[x])
    BY <1>3, <2>1 DEF Appended, Positions
  <2>3. i - Len(log[x]) \in 1 .. Len(ops) /\ i = Len(log[x]) + (i - Len(log[x]))
    BY <1>1, <2>2
  <2> QED BY <2>1, <2>3 DEF Appended
<1> QED BY <1>2, <1>3 DEF OldOrNew

\* Two operations once ordered stay so while logs grow and streams run.
LEMMA OrderedKept ==
  ASSUME TypeOK, LogsGrow, NEW s \in Streams, NEW t \in Streams,
         NEW i \in 1 .. Len(log[s]) + 1, NEW j \in Positions(t), Ordered(log, done, s, i, t, j),
         done'[t] \in Nat, done[t] <= done'[t], NEW k \in Nat, i <= k
  PROVE  Ordered(log', done', s, k, t, j)
<1>1. Len(log[s]) \in Nat /\ done[t] \in Nat /\ i \in Nat /\ j \in Nat
  BY Lengths DEF Positions
<1>2. CASE j <= done[t]
  BY <1>1, <1>2 DEF Ordered
<1>3. CASE s = t /\ j < i
  BY <1>1, <1>3 DEF Ordered
<1>4. CASE \E h \in 1 .. i - 1 : /\ log[s][h].kind = "wait" /\ log[s][h].stream = t /\ j <= log[s][h].at
  <2>1. PICK h \in 1 .. i - 1 : log[s][h].kind = "wait" /\ log[s][h].stream = t /\ j <= log[s][h].at
    BY <1>4
  <2>2. h \in Positions(s) /\ h \in 1 .. k - 1
    BY <1>1 DEF Positions
  <2>3. log'[s][h] = log[s][h]
    BY <2>2 DEF LogsGrow
  <2> QED BY <2>1, <2>2, <2>3 DEF Ordered
<1> QED BY <1>2, <1>3, <1>4 DEF Ordered

\* What is ordered behind an operation is so at every later position too.
LEMMA OrderedLater ==
  ASSUME NEW lg, NEW dn, NEW s, NEW t, NEW i \in Nat, NEW j \in Nat, Ordered(lg, dn, s, i, t, j), NEW k \in Nat, i <= k
  PROVE  Ordered(lg, dn, s, k, t, j)
  BY DEF Ordered

\* An event recorded after a staging stays so while logs grow.
LEMMA StagedKept ==
  ASSUME TypeOK, LogsGrow, NEW K, NEW slot, NEW n, NEW e, e.stream \in Streams, Staged(log, K, slot, n, e)
  PROVE  Staged(log', K, slot, n, e)
<1>1. PICK i \in 1 .. Len(log[e.stream]) :
             /\ log[e.stream][i].kind \in K /\ log[e.stream][i].slot = slot
             /\ log[e.stream][i].step = n /\ i <= e.at
  BY DEF Staged
<1>2. i \in Positions(e.stream)
  BY DEF Positions
<1>3. i \in 1 .. Len(log'[e.stream]) /\ log'[e.stream][i] = log[e.stream][i]
  BY <1>2, Lengths DEF LogsGrow, Positions
<1> QED BY <1>1, <1>3 DEF Staged

\* Where waits are held, what is ordered behind an operation runs after it.
LEMMA OrderedRan ==
  ASSUME TypeOK, WaitsHeld, NEW s \in Streams, NEW t \in Streams,
         NEW i \in Positions(s), NEW j \in Positions(t), Ordered(log, done, s, i, t, j), i <= done[s] + 1
  PROVE  j <= done[t]
<1>1. Len(log[s]) \in Nat /\ done[t] \in Nat /\ done[s] \in 0 .. Len(log[s]) /\ i \in Nat /\ j \in Nat
  BY Lengths DEF Positions
<1>2. CASE s = t /\ j < i
  BY <1>1, <1>2
<1>3. ASSUME NEW h \in 1 .. i - 1, log[s][h].kind = "wait", log[s][h].stream = t, j <= log[s][h].at
      PROVE  j <= done[t]
  <2>1. h \in 1 .. done[s] /\ h \in Positions(s)
    BY <1>1 DEF Positions
  <2>2. log[s][h].at <= done[t]
    BY <2>1, <1>3 DEF WaitsHeld
  <2>3. log[s][h] \in OpType
    BY <2>1, Lengths
  <2>4. log[s][h].at \in Nat
    BY <1>3, <2>3 DEF OpType
  <2> QED BY <1>1, <1>3, <2>2, <2>4
<1> QED BY <1>2, <1>3 DEF Ordered

\* An append keeps OrderInv when each new operation is ordered behind those it must follow,
\* and none of the old must follow it.
LEMMA AppendedOrder ==
  ASSUME TypeOK, OrderInv, UNCHANGED done, NEW x \in Streams, NEW ops, Appended(x, ops),
         \A h \in 1 .. Len(ops) : \A t \in Streams : \A j \in Positions(t) :
            MustFollow(ops[h], t, log[t][j]) => Ordered(log', done', x, Len(log[x]) + h, t, j),
         \A h \in 1 .. Len(ops) : \A s \in Streams : \A i \in Positions(s) :
            ~MustFollow(log[s][i], x, ops[h]),
         \A g, h \in 1 .. Len(ops) : ~MustFollow(ops[g], x, ops[h])
  PROVE  OrderInv'
<1>1. SUFFICES ASSUME NEW s \in Streams, NEW t \in Streams, NEW i \in 1 .. Len(log'[s]), NEW j \in 1 .. Len(log'[t]),
                      MustFollow(log'[s][i], t, log'[t][j])
               PROVE  Ordered(log', done', s, i, t, j)
  BY DEF OrderInv, Positions
<1>2. LogsGrow /\ OldOrNew(x, ops)
  BY AppendedGrows
<1>3. CASE i \in Positions(s) /\ log'[s][i] = log[s][i] /\ j \in Positions(t) /\ log'[t][j] = log[t][j]
  <2>1. Ordered(log, done, s, i, t, j)
    BY <1>1, <1>3 DEF OrderInv, Ordered
  <2>2. i \in 1 .. Len(log[s]) + 1 /\ done'[t] \in Nat /\ done[t] <= done'[t]
    BY <1>3, Lengths DEF Positions
  <2> QED BY <1>2, <1>3, <2>1, <2>2, OrderedKept DEF Positions
<1>4. CASE ~(i \in Positions(s) /\ log'[s][i] = log[s][i]) /\ j \in Positions(t) /\ log'[t][j] = log[t][j]
  <2>1. PICK h \in 1 .. Len(ops) : s = x /\ i = Len(log[x]) + h /\ log'[s][i] = ops[h]
    BY <1>2, <1>4 DEF OldOrNew
  <2> QED BY <1>1, <1>4, <2>1
<1>5. CASE ~(j \in Positions(t) /\ log'[t][j] = log[t][j])
  <2>1. PICK h \in 1 .. Len(ops) : t = x /\ j = Len(log[x]) + h /\ log'[t][j] = ops[h]
    BY <1>2, <1>5 DEF OldOrNew
  <2>2. (i \in Positions(s) /\ log'[s][i] = log[s][i]) \/ \E g \in 1 .. Len(ops) : log'[s][i] = ops[g]
    BY <1>2 DEF OldOrNew
  <2> QED BY <1>1, <2>1, <2>2
<1> QED BY <1>3, <1>4, <1>5

\* The accepted jobs are the steps of the training kernels in the logs.
LEMMA AcceptedJobs ==
  \A n : n \in Accepted <=> \E s \in Streams : \E i \in Positions(s) :
                               log[s][i].kind = "train" /\ log[s][i].step = n
  BY DEF Accepted, TrainOps, Positions

\* An append accepts the jobs it brings and no other.
LEMMA AppendedAccepted ==
  ASSUME TypeOK, NEW x \in Streams, NEW ops \in Seq(OpType), Appended(x, ops),
         log' \in [Streams -> Seq(OpType)]
  PROVE  \A n : n \in Accepted' <=> \/ n \in Accepted
                                    \/ \E h \in 1 .. Len(ops) : ops[h].kind = "train" /\ ops[h].step = n
<1>1. \A n : n \in Accepted' <=> \E s \in Streams : \E i \in 1 .. Len(log'[s]) :
                                   log'[s][i].kind = "train" /\ log'[s][i].step = n
  BY DEF Accepted, TrainOps
<1>2. LogsGrow /\ OldOrNew(x, ops)
  BY AppendedGrows
<1>3. ASSUME NEW n, n \in Accepted' PROVE n \in Accepted \/ \E h \in 1 .. Len(ops) : ops[h].kind = "train" /\ ops[h].step = n
  <2>1. PICK s \in Streams : \E i \in 1 .. Len(log'[s]) : log'[s][i].kind = "train" /\ log'[s][i].step = n
    BY <1>1, <1>3
  <2>2. PICK i \in 1 .. Len(log'[s]) : log'[s][i].kind = "train" /\ log'[s][i].step = n
    BY <2>1
  <2>3. CASE i \in Positions(s) /\ log'[s][i] = log[s][i]
    BY <2>2, <2>3, AcceptedJobs
  <2>4. CASE \E h \in 1 .. Len(ops) : log'[s][i] = ops[h]
    BY <2>2, <2>4
  <2> QED BY <1>2, <2>3, <2>4 DEF OldOrNew
<1>4. ASSUME NEW n, n \in Accepted PROVE n \in Accepted'
  <2>3. PICK s \in Streams : \E i \in Positions(s) : log[s][i].kind = "train" /\ log[s][i].step = n
    BY <1>4, AcceptedJobs
  <2>1. PICK i \in Positions(s) : log[s][i].kind = "train" /\ log[s][i].step = n
    BY <2>3
  <2>2. log'[s][i] = log[s][i] /\ i \in 1 .. Len(log'[s])
    BY <1>2, Lengths DEF LogsGrow, Positions
  <2> QED BY <1>1, <2>1, <2>2
<1>5. ASSUME NEW n, NEW h \in 1 .. Len(ops), ops[h].kind = "train", ops[h].step = n PROVE n \in Accepted'
  <2>1. Len(log[x]) + h \in 1 .. Len(log'[x]) /\ log'[x][Len(log[x]) + h] = ops[h]
    BY Lengths DEF Appended
  <2> QED BY <1>1, <1>5, <2>1
<1> QED BY <1>3, <1>4, <1>5

\* An append keeps kernels unique when its steps are new.
LEMMA AppendedUnique ==
  ASSUME TypeOK, Unique, NEW x \in Streams, NEW ops, Appended(x, ops),
         \A K \in Kinds : \A h \in 1 .. Len(ops) : ops[h].kind \in K =>
            \A t \in Streams : \A j \in Positions(t) :
               log[t][j].kind \in K => log[t][j].step # ops[h].step,
         \A K \in Kinds : \A g, h \in 1 .. Len(ops) : ops[g].kind \in K /\ ops[h].kind \in K => g = h
  PROVE  Unique'
<1>1. SUFFICES ASSUME NEW K \in Kinds, NEW s \in Streams, NEW t \in Streams,
                      NEW i \in 1 .. Len(log'[s]), NEW j \in 1 .. Len(log'[t]),
                      log'[s][i].kind \in K, log'[t][j].kind \in K, log'[s][i].step = log'[t][j].step
               PROVE  s = t /\ i = j
  BY DEF Unique, Positions, Kinds
<1>2. /\ \/ i \in Positions(s) /\ log'[s][i] = log[s][i]
         \/ \E g \in 1 .. Len(ops) : s = x /\ i = Len(log[x]) + g /\ log'[s][i] = ops[g]
      /\ \/ j \in Positions(t) /\ log'[t][j] = log[t][j]
         \/ \E h \in 1 .. Len(ops) : t = x /\ j = Len(log[x]) + h /\ log'[t][j] = ops[h]
  <2>1. OldOrNew(x, ops)
    BY AppendedGrows
  <2>2. \/ i \in Positions(s) /\ log'[s][i] = log[s][i]
        \/ s = x /\ \E g \in 1 .. Len(ops) : i = Len(log[x]) + g /\ log'[s][i] = ops[g]
    BY <2>1 DEF OldOrNew
  <2>3. \/ j \in Positions(t) /\ log'[t][j] = log[t][j]
        \/ t = x /\ \E h \in 1 .. Len(ops) : j = Len(log[x]) + h /\ log'[t][j] = ops[h]
    BY <2>1 DEF OldOrNew
  <2> QED BY Zenon, <2>2, <2>3
<1>3. CASE i \in Positions(s) /\ log'[s][i] = log[s][i] /\ j \in Positions(t) /\ log'[t][j] = log[t][j]
  BY <1>1, <1>3 DEF Unique
<1>4. CASE ~(i \in Positions(s) /\ log'[s][i] = log[s][i]) /\ j \in Positions(t) /\ log'[t][j] = log[t][j]
  <2>1. PICK h \in 1 .. Len(ops) : s = x /\ i = Len(log[x]) + h /\ log'[s][i] = ops[h]
    BY <1>2, <1>4
  <2> QED BY <1>1, <1>4, <2>1
<1>5. CASE i \in Positions(s) /\ log'[s][i] = log[s][i] /\ ~(j \in Positions(t) /\ log'[t][j] = log[t][j])
  <2>1. PICK h \in 1 .. Len(ops) : t = x /\ j = Len(log[x]) + h /\ log'[t][j] = ops[h]
    BY <1>2, <1>5
  <2> QED BY <1>1, <1>5, <2>1
<1>6. CASE ~(i \in Positions(s) /\ log'[s][i] = log[s][i]) /\ ~(j \in Positions(t) /\ log'[t][j] = log[t][j])
  <2>1. PICK g \in 1 .. Len(ops) : s = x /\ i = Len(log[x]) + g /\ log'[s][i] = ops[g]
    BY <1>2, <1>6
  <2>2. PICK h \in 1 .. Len(ops) : t = x /\ j = Len(log[x]) + h /\ log'[t][j] = ops[h]
    BY <1>2, <1>6
  <2> QED BY <1>1, <2>1, <2>2
<1> QED BY <1>3, <1>4, <1>5, <1>6

\* An append leaves what has already run as it was.
LEMMA AppendedFrame ==
  ASSUME TypeOK, OrdInv, LogsGrow, UNCHANGED <<done, tap, src, tgt, trained>>
  PROVE  /\ WaitsHeld'
         /\ BufferInv(SrcKinds, src)'
         /\ BufferInv(TgtKinds, tgt)'
<1>1. \A s \in Streams : \A i \in 1 .. done[s] : i \in Positions(s) /\ log'[s][i] = log[s][i]
  BY Lengths DEF LogsGrow, Positions
<1>2. \A s \in Streams : \A i \in 1 .. done[s] : log[s][i].kind = "wait" => log[s][i].stream \in Streams
  BY <1>1, Lengths DEF OpType
<1>3. WaitsHeld'
  BY <1>1, <1>2 DEF WaitsHeld, OrdInv
<1>4. BufferInv(SrcKinds, src)'
  BY <1>1 DEF BufferInv, OrdInv, SrcKinds
<1>5. BufferInv(TgtKinds, tgt)'
  BY <1>1 DEF BufferInv, OrdInv, TgtKinds
<1> QED BY <1>3, <1>4, <1>5

\* Every new operation waits or stages on the forward stream; no new training.
LEMMA SideGrows ==
  ASSUME TypeOK, SideInv, LogsGrow, UNCHANGED <<fwdStream, trnStream, done>>,
         \A slot \in SlotIds : event'[<<"slot_train_done", slot>>] = event[<<"slot_train_done", slot>>],
         \A s \in Streams : \A i \in 1 .. Len(log'[s]) :
            /\ log'[s][i].kind = "train" => i \in Positions(s) /\ log'[s][i] = log[s][i]
            /\ s \in Side /\ log'[s][i].kind \in StageKinds =>
                  s = fwdStream \/ (i \in Positions(s) /\ log'[s][i] = log[s][i])
  PROVE  SideInv'
<1>0. Side \subseteq Streams /\ Main \in Streams
  BY Lengths
<1>1. \A s \in Side : \A i \in done[s] + 1 .. Len(log[s]) : log[s][i].kind = "train" => log[s][i].slot \in SlotIds
  BY <1>0, Lengths DEF Positions, OpType
<1>2. SUFFICES ASSUME NEW s \in Side, NEW i \in done'[s] + 1 .. Len(log'[s])
               PROVE  /\ log'[s][i].kind \in StageKinds => s = fwdStream'
                      /\ log'[s][i].kind = "train" =>
                           /\ s = trnStream'
                           /\ LET e == event'[<<"slot_train_done", log'[s][i].slot>>] IN e.stream = s /\ i <= e.at
                           /\ \A j \in 1 .. Len(log'[Main]) :
                                log'[Main][j].kind = "train" => log'[Main][j].step < log'[s][i].step
  BY DEF SideInv, Positions
<1>3. done[s] \in Nat /\ s \in Streams /\ Len(log[s]) \in Nat
  BY <1>0, Lengths
<1>4. i \in Nat /\ i >= done[s] + 1
  BY <1>3
<1>5. i \in 1 .. Len(log'[s])
  BY <1>3, <1>4
<1>6. ASSUME log'[s][i].kind \in StageKinds PROVE s = fwdStream
  <2>1. CASE i \in Positions(s) /\ log'[s][i] = log[s][i]
    <3>1. i \in done[s] + 1 .. Len(log[s])
      BY <1>3, <1>4, <2>1 DEF Positions
    <3> QED BY <1>6, <2>1, <3>1 DEF SideInv
  <2> QED BY <1>3, <1>5, <1>6, <2>1
<1>7. ASSUME log'[s][i].kind = "train"
      PROVE  /\ s = trnStream
             /\ event'[<<"slot_train_done", log'[s][i].slot>>].stream = s
             /\ i <= event'[<<"slot_train_done", log'[s][i].slot>>].at
             /\ \A j \in 1 .. Len(log'[Main]) :
                  log'[Main][j].kind = "train" => log'[Main][j].step < log'[s][i].step
  <2>1. i \in Positions(s) /\ log'[s][i] = log[s][i]
    BY <1>3, <1>5, <1>7
  <2>2. i \in done[s] + 1 .. Len(log[s])
    BY <1>3, <1>4, <2>1 DEF Positions
  <2>3. event'[<<"slot_train_done", log[s][i].slot>>] = event[<<"slot_train_done", log[s][i].slot>>]
    BY <1>1, <1>7, <2>1, <2>2
  <2>4. /\ s = trnStream
        /\ event[<<"slot_train_done", log[s][i].slot>>].stream = s
        /\ i <= event[<<"slot_train_done", log[s][i].slot>>].at
        /\ \A j \in Positions(Main) : log[Main][j].kind = "train" => log[Main][j].step < log[s][i].step
    <3>1. log[s][i].kind = "train" /\ s \in Side
      BY <1>7, <2>1
    <3>2. SideInv
      BY DEF SideInv
    <3> QED BY ONLY <2>2, <3>1, <3>2 DEF SideInv
  <2>5. \A j \in 1 .. Len(log'[Main]) : log'[Main][j].kind = "train" => j \in Positions(Main) /\ log'[Main][j] = log[Main][j]
    BY <1>0
  <2> QED BY <2>1, <2>3, <2>4, <2>5
<1> QED BY <1>6, <1>7

\* An append keeps every job staged when the jobs it brings are.
LEMMA AppendedStaged ==
  ASSUME TypeOK, TrainIsStaged, NEW x \in Streams, NEW ops, Appended(x, ops),
         \A h \in 1 .. Len(ops) : ops[h].kind = "train" =>
            \A K \in {SrcKinds, TgtKinds} : \E t \in Streams : \E j \in Positions(t) :
               log[t][j].kind \in K /\ log[t][j].slot = ops[h].slot /\ log[t][j].step = ops[h].step
  PROVE  TrainIsStaged'
<1>1. LogsGrow /\ OldOrNew(x, ops)
  BY AppendedGrows
<1>2. SUFFICES ASSUME NEW s \in Streams, NEW i \in 1 .. Len(log'[s]), log'[s][i].kind = "train",
                      NEW K \in {SrcKinds, TgtKinds}
               PROVE  \E t \in Streams : \E j \in 1 .. Len(log'[t]) :
                        log'[t][j].kind \in K /\ log'[t][j].slot = log'[s][i].slot /\ log'[t][j].step = log'[s][i].step
  BY DEF TrainIsStaged, Positions, SrcKinds, TgtKinds
<1>3. \E t \in Streams : \E j \in Positions(t) :
         log[t][j].kind \in K /\ log[t][j].slot = log'[s][i].slot /\ log[t][j].step = log'[s][i].step
  <2>1. CASE i \in Positions(s) /\ log'[s][i] = log[s][i]
    BY <1>2, <2>1 DEF TrainIsStaged
  <2>2. CASE \E h \in 1 .. Len(ops) : log'[s][i] = ops[h]
    BY <1>2, <2>2
  <2> QED BY <1>1, <2>1, <2>2 DEF OldOrNew
<1>4. \A t \in Streams : \A j \in Positions(t) : j \in 1 .. Len(log'[t]) /\ log'[t][j] = log[t][j]
  BY <1>1, Lengths DEF LogsGrow, Positions
<1> QED BY <1>3, <1>4

\* An append keeps the history when the jobs it brings were never trained.
LEMMA AppendedHistory ==
  ASSUME TypeOK, HistoryInv, NEW x \in Streams, NEW ops \in Seq(OpType), Appended(x, ops),
         log' \in [Streams -> Seq(OpType)], UNCHANGED <<done, trained>>,
         \A h \in 1 .. Len(ops) : ops[h].kind = "train" => ops[h].step \notin TrainedJobs
  PROVE  HistoryInv'
<1>1. LogsGrow /\ OldOrNew(x, ops)
  BY AppendedGrows
<1>2. TrainedJobs' = TrainedJobs
  BY DEF TrainedJobs
<1>3. TrainedJobs' \subseteq Accepted'
  BY <1>2, AppendedAccepted DEF HistoryInv
<1>4. ASSUME NEW s \in Streams, NEW i \in 1 .. Len(log'[s]), log'[s][i].kind = "train"
      PROVE  i <= done'[s] <=> log'[s][i].step \in TrainedJobs'
  <2>1. CASE i \in Positions(s) /\ log'[s][i] = log[s][i]
    BY <1>2, <1>4, <2>1 DEF HistoryInv
  <2>2. CASE ~(i \in Positions(s) /\ log'[s][i] = log[s][i])
    <3>1. PICK h \in 1 .. Len(ops) : s = x /\ i = Len(log[x]) + h /\ log'[s][i] = ops[h]
      BY <1>1, <2>2 DEF OldOrNew
    <3>2. ~(i <= done[s])
      BY <3>1, Lengths
    <3> QED BY <1>2, <1>4, <3>1, <3>2
  <2> QED BY <2>1, <2>2
<1> QED BY <1>3, <1>4 DEF HistoryInv, Positions

\* The forward of a step is ordered behind the copies of the taps it overwrites.
LEMMA ModelForwardKeeps == ASSUME IInv, ModelForward PROVE OrdInv'
<1> DEFINE op == Kernel("tap", 0, step + 1)
           ops == <<op>>
<1>0. TypeOK /\ OrdInv /\ OrderInv /\ WaitsHeld /\ Placed /\ Unique /\ TrainIsStaged /\ HostInv /\ SideInv
      /\ SlotInv /\ TapInv /\ HistoryInv
  BY DEF IInv, OrdInv
<1>1. TypeOK' /\ log' \in [Streams -> Seq(OpType)]
  BY <1>0, HostTypeOK DEF Host, TypeOK
<1>2. op \in OpType /\ op.kind = "tap" /\ op.step = step + 1
  <2>1. step + 1 \in Steps /\ 0 \in SlotIds
    BY <1>0, SlotsAssumption, BoundsAssumption DEF ModelForward, Steps, TypeOK, SlotIds
  <2>2. op \in OpType
    BY <1>0, <2>1, OpsType
  <2> QED BY <2>2 DEF Kernel
<1>u. /\ step' = step + 1 /\ step \in Nat /\ launched \in Nat /\ launched <= step
      /\ UNCHANGED <<hostVars, deviceVars>>
  BY <1>0 DEF ModelForward, TypeOK, Steps
<1> HIDE DEF op
<1>3. ops \in Seq(OpType) /\ Len(ops) = 1 /\ \A h \in 1 .. Len(ops) : ops[h] = op
  BY <1>2
<1>m. Main \in Streams
  BY DEF Streams
<1>4. Appended(Main, ops)
  BY <1>0, <1>3, <1>m, EnqueueAppends DEF ModelForward, op
<1> HIDE DEF ops
<1>5. LogsGrow /\ OldOrNew(Main, ops)
  BY <1>0, <1>4, <1>m, AppendedGrows
<1>6. OrderInv'
  <2>1. ASSUME NEW h \in 1 .. Len(ops), NEW t \in Streams, NEW j \in Positions(t), MustFollow(ops[h], t, log[t][j])
        PROVE  Ordered(log', done', Main, Len(log[Main]) + h, t, j)
    <3>1. log[t][j].kind \in {"tap", "lease_src", "lease_tgt"}
      BY <1>2, <1>3, <2>1 DEF MustFollow, SrcKinds, TgtKinds, StageKinds
    <3>2. t = Main
      BY <1>0, <3>1 DEF Placed
    <3>3. j < Len(log[Main]) + h
      BY <1>0, <1>3, <1>m, <3>2, Lengths DEF Positions
    <3> QED BY <3>2, <3>3 DEF Ordered
  <2>2. ASSUME NEW h \in 1 .. Len(ops), NEW s \in Streams, NEW i \in Positions(s)
        PROVE  ~MustFollow(log[s][i], Main, ops[h])
    <3>1. log[s][i].kind = "tap" => log[s][i].step \in Nat /\ log[s][i].step <= step
      BY <1>0, <1>u DEF Placed
    <3>2. log[s][i].kind \in StageKinds => log[s][i].step \in Nat /\ log[s][i].step <= step
      BY <1>0, <1>u DEF Placed
    <3> QED BY <1>2, <1>3, <1>u, <3>1, <3>2 DEF MustFollow, SrcKinds, TgtKinds, StageKinds
  <2>3. \A g, h \in 1 .. Len(ops) : ~MustFollow(ops[g], Main, ops[h])
    BY <1>2, <1>3, <1>u DEF MustFollow, SrcKinds, TgtKinds, StageKinds
  <2> QED BY <1>0, <1>4, <1>m, <1>u, <2>1, <2>2, <2>3, AppendedOrder DEF deviceVars
<1>7. Unique'
  <2>1. \A K \in Kinds : op.kind \in K => K = {"tap"}
    BY <1>2 DEF Kinds, SrcKinds, TgtKinds
  <2>2. \A t \in Streams : \A j \in Positions(t) : log[t][j].kind = "tap" => log[t][j].step # op.step
    BY <1>0, <1>2, <1>u DEF Placed
  <2> QED BY <1>0, <1>3, <1>4, <1>m, <2>1, <2>2, AppendedUnique
<1>8. TrainIsStaged'
  BY <1>0, <1>2, <1>3, <1>4, <1>m, AppendedStaged
<1>9. HistoryInv'
  BY <1>0, <1>1, <1>2, <1>3, <1>4, <1>m, <1>u, AppendedHistory DEF deviceVars
<1>10. WaitsHeld' /\ BufferInv(SrcKinds, src)' /\ BufferInv(TgtKinds, tgt)'
  BY <1>0, <1>5, <1>u, AppendedFrame DEF deviceVars
<1>11. Placed'
  <2>1. SUFFICES ASSUME NEW s \in Streams, NEW i \in 1 .. Len(log'[s])
                 PROVE  LET o == log'[s][i]
                        IN /\ o.kind = "tap" => s = Main /\ o.step \in 1 .. step + 1
                           /\ o.kind \in {"lease_src", "lease_tgt"} => s = Main /\ ~TwoCalls
                           /\ o.kind \in {"copy_src", "copy_tgt"} => TwoCalls
                           /\ o.kind \in StageKinds \cup {"train"} => o.step \in 1 .. launched
                           /\ o.kind \in TgtKinds /\ current # None => o.step < launched
                           /\ o.kind = "train" /\ (current # None \/ ready # None) => o.step < launched
    BY <1>u DEF Placed, Positions, hostVars, StageKinds, SrcKinds, TgtKinds
  <2>2. CASE i \in Positions(s) /\ log'[s][i] = log[s][i]
    BY <1>0, <1>u, <2>2 DEF Placed
  <2>3. CASE s = Main /\ log'[s][i] = op
    BY <1>2, <1>u, <2>3 DEF StageKinds, SrcKinds, TgtKinds
  <2> QED BY <1>3, <1>5, <2>2, <2>3 DEF OldOrNew
<1>12. \A s \in Side : log'[s] = log[s] /\ done'[s] = done[s]
  BY <1>4, <1>u DEF Appended, Streams, Main, Side, deviceVars
<1>13. HostInv'
  BY <1>0, <1>u, <1>12 DEF HostInv, hostVars
<1>14. SideInv'
  <2>1. \A s \in Streams : \A i \in 1 .. Len(log'[s]) :
           /\ log'[s][i].kind = "train" => i \in Positions(s) /\ log'[s][i] = log[s][i]
           /\ s \in Side => i \in Positions(s) /\ log'[s][i] = log[s][i]
    BY <1>2, <1>3, <1>5, <1>m, <1>12, Lengths DEF OldOrNew, Side, Main
  <2>2. fwdStream' = fwdStream /\ trnStream' = trnStream /\ done' = done /\ event' = event
    BY <1>u DEF hostVars, deviceVars
  <2> QED BY <1>0, <1>5, <2>1, <2>2, SideGrows
<1>15. SlotInv'
  <2>1. \A k \in EventNames \X SlotIds : event[k].stream \in Streams
    BY <1>0 DEF TypeOK, EventType
  <2>2. ready # None => <<"src_staged", ready>> \in EventNames \X SlotIds /\ <<"tgt_done", ready>> \in EventNames \X SlotIds
    BY <1>0 DEF TypeOK, EventNames
  <2>3. current # None => <<"src_staged", current>> \in EventNames \X SlotIds
    BY <1>0 DEF TypeOK, EventNames
  <2>4. ready # None => /\ Staged(log', SrcKinds, ready, launched, event[<<"src_staged", ready>>])
                        /\ Staged(log', TgtKinds, ready, launched, event[<<"tgt_done", ready>>])
    BY <1>0, <1>5, <2>1, <2>2, StagedKept DEF SlotInv
  <2>5. current # None => Staged(log', SrcKinds, current, launched, event[<<"src_staged", current>>])
    BY <1>0, <1>5, <2>1, <2>3, StagedKept DEF SlotInv
  <2>6. ASSUME current # None, NEW s \in Streams, NEW i \in 1 .. Len(log'[s]),
               log'[s][i].kind = "train", log'[s][i].slot = current
        PROVE  Ordered(log', done', ForwardStream, Len(log'[ForwardStream]) + 1, s, i)
    <3>1. i \in Positions(s) /\ log'[s][i] = log[s][i]
      BY <1>2, <1>3, <1>5, <2>6 DEF OldOrNew
    <3>2. Ordered(log, done, ForwardStream, Len(log[ForwardStream]) + 1, s, i)
      BY <1>0, <2>6, <3>1 DEF SlotInv
    <3>3. ForwardStream \in Streams /\ done'[s] \in Nat /\ done[s] <= done'[s]
      BY <1>0, <1>u, OpsType, Lengths DEF deviceVars
    <3>4. Len(log[ForwardStream]) + 1 <= Len(log'[ForwardStream]) + 1 /\ Len(log'[ForwardStream]) + 1 \in Nat
          /\ Len(log[ForwardStream]) \in Nat
      BY <1>0, <1>1, <1>5, <3>3, Lengths DEF LogsGrow
    <3> QED BY SMTT(30), <1>0, <1>5, <3>1, <3>2, <3>3, <3>4, OrderedKept
  <2>7. ForwardStream' = ForwardStream
    BY <1>u DEF ForwardStream, hostVars
  <2> QED BY <1>u, <2>4, <2>5, <2>6, <2>7 DEF SlotInv, hostVars, Positions
<1>16. TapInv'
  <2>1. ASSUME NEW n \in 1 .. step + 1
        PROVE  \E i \in 1 .. Len(log'[Main]) : log'[Main][i].kind = "tap" /\ log'[Main][i].step = n
    <3>1. CASE n \in 1 .. step
      <4>1. PICK i \in Positions(Main) : log[Main][i].kind = "tap" /\ log[Main][i].step = n
        BY <1>0, <3>1 DEF TapInv
      <4> QED BY SMTT(30), <1>0, <1>5, <1>m, <4>1, Lengths DEF LogsGrow, Positions
    <3>2. CASE n = step + 1
      <4>1. Len(log[Main]) + 1 \in 1 .. Len(log'[Main]) /\ log'[Main][Len(log[Main]) + 1] = op
        BY <1>0, <1>3, <1>4, <1>m, Lengths DEF Appended
      <4> QED BY <1>2, <3>2, <4>1
    <3> QED BY <1>u, <3>1, <3>2
  <2>2. ASSUME NEW i \in 1 .. Len(log'[Main]), log'[Main][i].kind = "tap"
        PROVE  i <= done[Main] <=> log'[Main][i].step <= tap
    <3>1. CASE i \in Positions(Main) /\ log'[Main][i] = log[Main][i]
      BY <1>0, <2>2, <3>1 DEF TapInv
    <3>2. CASE i = Len(log[Main]) + 1 /\ log'[Main][i] = op
      <4>1. tap \in Nat /\ tap <= step /\ done[Main] <= Len(log[Main]) /\ done[Main] \in Nat /\ Len(log[Main]) \in Nat
        BY <1>0, <1>m, Lengths DEF TypeOK, Steps, TapInv
      <4> QED BY <1>2, <1>u, <3>2, <4>1
    <3> QED BY <1>3, <1>5, <1>m, <3>1, <3>2 DEF OldOrNew
  <2>3. tap <= step + 1
    BY <1>0, <1>u DEF TapInv, TypeOK, Steps
  <2>4. step' = step + 1 /\ tap' = tap /\ done' = done
    BY <1>u DEF deviceVars
  <2> QED BY <2>1, <2>2, <2>3, <2>4 DEF TapInv, Positions
<1> QED BY <1>6, <1>7, <1>8, <1>9, <1>10, <1>11, <1>13, <1>14, <1>15, <1>16 DEF OrdInv

\* An append without a forward leaves the taps as they were.
LEMMA AppendedTaps ==
  ASSUME TypeOK, TapInv, NEW x \in Streams, NEW ops, Appended(x, ops),
         UNCHANGED <<done, tap, step>>, \A h \in 1 .. Len(ops) : ops[h].kind # "tap"
  PROVE  TapInv'
<1>1. LogsGrow /\ OldOrNew(x, ops) /\ Main \in Streams
  BY AppendedGrows DEF Streams
<1>2. ASSUME NEW n \in 1 .. step
      PROVE  \E i \in 1 .. Len(log'[Main]) : log'[Main][i].kind = "tap" /\ log'[Main][i].step = n
  <2>1. PICK i \in Positions(Main) : log[Main][i].kind = "tap" /\ log[Main][i].step = n
    BY DEF TapInv
  <2> QED BY SMTT(30), <1>1, <2>1, Lengths DEF LogsGrow, Positions
<1>3. ASSUME NEW i \in 1 .. Len(log'[Main]), log'[Main][i].kind = "tap"
      PROVE  i <= done[Main] <=> log'[Main][i].step <= tap
  <2>1. i \in Positions(Main) /\ log'[Main][i] = log[Main][i]
    BY <1>1, <1>3 DEF OldOrNew
  <2> QED BY <1>3, <2>1 DEF TapInv
<1>4. step' = step /\ tap' = tap /\ done' = done /\ tap <= step
  BY DEF TapInv
<1> QED BY <1>2, <1>3, <1>4 DEF TapInv, Positions

\* What an append that is no forward must satisfy to keep the parts of the invariant
\* that do not concern the host.
LEMMA AppendedKeeps ==
  ASSUME IInv, NEW x \in Streams, NEW ops \in Seq(OpType), Enqueue(x, ops), TypeOK',
         UNCHANGED <<step, deviceVars>>,
         \A h \in 1 .. Len(ops) : ops[h].kind # "tap",
         \A h \in 1 .. Len(ops) : \A t \in Streams : \A j \in Positions(t) :
            MustFollow(ops[h], t, log[t][j]) => Ordered(log', done', x, Len(log[x]) + h, t, j),
         \A h \in 1 .. Len(ops) : \A s \in Streams : \A i \in Positions(s) :
            ~MustFollow(log[s][i], x, ops[h]),
         \A g, h \in 1 .. Len(ops) : ~MustFollow(ops[g], x, ops[h]),
         \A K \in Kinds : \A h \in 1 .. Len(ops) : ops[h].kind \in K =>
            \A t \in Streams : \A j \in Positions(t) :
               log[t][j].kind \in K => log[t][j].step # ops[h].step,
         \A K \in Kinds : \A g, h \in 1 .. Len(ops) : ops[g].kind \in K /\ ops[h].kind \in K => g = h,
         \A h \in 1 .. Len(ops) : ops[h].kind = "train" =>
            \A K \in {SrcKinds, TgtKinds} : \E t \in Streams : \E j \in Positions(t) :
               log[t][j].kind \in K /\ log[t][j].slot = ops[h].slot /\ log[t][j].step = ops[h].step,
         \A h \in 1 .. Len(ops) : ops[h].kind = "train" => ops[h].step \notin TrainedJobs
  PROVE  /\ OrderInv' /\ WaitsHeld' /\ Unique' /\ TrainIsStaged' /\ TapInv' /\ HistoryInv'
         /\ BufferInv(SrcKinds, src)' /\ BufferInv(TgtKinds, tgt)'
<1>1. /\ TypeOK /\ OrdInv /\ OrderInv /\ Unique /\ TrainIsStaged /\ TapInv /\ HistoryInv
      /\ log' \in [Streams -> Seq(OpType)]
      /\ step' = step /\ done' = done /\ tap' = tap /\ src' = src /\ tgt' = tgt /\ trained' = trained
  BY DEF IInv, OrdInv, TypeOK, deviceVars
<1>2. Appended(x, ops)
  BY <1>1, EnqueueAppends
<1>3. LogsGrow
  BY <1>1, <1>2, AppendedGrows
<1>4. OrderInv'
  BY <1>1, <1>2, AppendedOrder
<1>5. Unique'
  BY <1>1, <1>2, AppendedUnique
<1>6. TrainIsStaged'
  BY <1>1, <1>2, AppendedStaged
<1>7. HistoryInv'
  BY <1>1, <1>2, AppendedHistory
<1>8. TapInv'
  BY <1>1, <1>2, AppendedTaps
<1>9. WaitsHeld' /\ BufferInv(SrcKinds, src)' /\ BufferInv(TgtKinds, tgt)'
  BY <1>1, <1>3, AppendedFrame
<1> QED BY <1>4, <1>5, <1>6, <1>7, <1>8, <1>9

\* launch_step: both leases stand behind the slot's last training.
LEMMA LaunchStepKeeps == ASSUME IInv, LaunchStep PROVE OrdInv'
<1> DEFINE e   == event[<<"slot_train_done", nextSlot>>]
           wop == WaitFor(e)
           sop == Kernel("lease_src", nextSlot, step)
           top == Kernel("lease_tgt", nextSlot, step)
           ops == <<wop, sop, top>>
<1>0. TypeOK /\ OrdInv /\ OrderInv /\ WaitsHeld /\ Placed /\ Unique /\ TrainIsStaged /\ HostInv /\ SideInv
      /\ SlotInv /\ TapInv /\ HistoryInv
  BY DEF IInv, OrdInv
<1>1. TypeOK'
  BY <1>0, HostTypeOK DEF Host
<1>m. Main \in Streams /\ Side \subseteq Streams /\ Main \notin Side
  BY <1>0, Lengths
<1>2. /\ wop.kind = "wait" /\ wop.stream = e.stream /\ wop.at = e.at
      /\ sop.kind = "lease_src" /\ sop.slot = nextSlot /\ sop.step = step
      /\ top.kind = "lease_tgt" /\ top.slot = nextSlot /\ top.step = step
  BY DEF WaitFor, Kernel
<1>3. wop \in OpType /\ sop \in OpType /\ top \in OpType
  BY <1>0, OpsType DEF TypeOK, EventNames
<1>u. /\ step \in Nat /\ launched \in Nat /\ launched < step /\ nextSlot \in SlotIds
      /\ current = None /\ ready = None /\ ~TwoCalls /\ stale = "none"
      /\ Enqueue(Main, ops)
      /\ step' = step /\ launched' = step /\ ready' = nextSlot /\ current' = None
      /\ mode' = mode /\ stale' = stale /\ fwdStream' = fwdStream /\ trnStream' = trnStream
      /\ event' = [event EXCEPT ![<<"src_staged", nextSlot>>] = Recorded(Main, 3),
                                ![<<"tgt_done", nextSlot>>]   = Recorded(Main, 3)]
      /\ UNCHANGED deviceVars
  BY <1>0 DEF LaunchStep, StageStepOps, Flushed, TypeOK, Steps
<1> HIDE DEF wop, sop, top, e
<1>4. /\ ops \in Seq(OpType) /\ Len(ops) = 3
      /\ ops[1] = wop /\ ops[2] = sop /\ ops[3] = top
      /\ \A h \in 1 .. Len(ops) : h \in {1, 2, 3}
  BY <1>3
<1> HIDE DEF ops
<1>5. Appended(Main, ops)
  BY <1>0, <1>4, <1>m, <1>u, EnqueueAppends
<1>6. LogsGrow /\ OldOrNew(Main, ops)
  BY <1>0, <1>5, <1>m, AppendedGrows
<1>7. \A s \in Side : log'[s] = log[s] /\ done'[s] = done[s]
  BY <1>5, <1>u, <1>m DEF Appended, deviceVars
<1>8. \A s \in Streams : \A i \in Positions(s) :
         /\ log[s][i].kind \in StageKinds \cup {"train"} => log[s][i].step \in Nat /\ log[s][i].step <= launched
         /\ log[s][i].kind = "tap" => s = Main /\ log[s][i].step \in Nat /\ log[s][i].step <= step
         /\ log[s][i].kind \in StageKinds => s = Main
  BY <1>0, <1>u DEF Placed, StageKinds, SrcKinds, TgtKinds
<1>9. ASSUME NEW h \in 1 .. Len(ops), NEW t \in Streams, NEW j \in Positions(t), MustFollow(ops[h], t, log[t][j])
      PROVE  Ordered(log', done', Main, Len(log[Main]) + h, t, j)
  <2>1. Len(log[Main]) \in Nat /\ h \in Nat /\ j \in Nat
    BY <1>0, <1>4, <1>m, Lengths DEF Positions
  <2>2. CASE t = Main
    BY <1>0, <1>m, <2>1, <2>2, Lengths DEF Ordered, Positions
  <2>3. CASE t # Main
    <3>1. h \in {2, 3} /\ log[t][j].kind = "train" /\ log[t][j].slot = nextSlot
      BY <1>2, <1>4, <1>8, <1>9, <2>3 DEF MustFollow, StageKinds, SrcKinds, TgtKinds
    <3>2. t \in Side
      BY <1>0, <2>3, Lengths
    <3>3. CASE j <= done[t]
      BY <1>u, <3>3 DEF Ordered, deviceVars
    <3>4. CASE ~(j <= done[t])
      <4>1. j \in done[t] + 1 .. Len(log[t])
        BY <1>0, <3>4, <2>1, Lengths DEF Positions
      <4>2. e.stream = t /\ j <= e.at
        BY <1>0, <3>1, <3>2, <4>1 DEF SideInv, e
      <4>3. log'[Main][Len(log[Main]) + 1] = wop
        BY <1>4, <1>5 DEF Appended
      <4>4. Len(log[Main]) + 1 \in 1 .. (Len(log[Main]) + h) - 1
        BY <2>1, <3>1
      <4> QED BY <1>2, <4>2, <4>3, <4>4 DEF Ordered
    <3> QED BY <3>3, <3>4
  <2> QED BY <2>2, <2>3
<1>10. ASSUME NEW h \in 1 .. Len(ops), NEW s \in Streams, NEW i \in Positions(s)
       PROVE  ~MustFollow(log[s][i], Main, ops[h])
  BY SMTT(30), <1>2, <1>4, <1>8, <1>u DEF MustFollow, StageKinds, SrcKinds, TgtKinds
<1>11. \A g, h \in 1 .. Len(ops) : ~MustFollow(ops[g], Main, ops[h])
  BY <1>2, <1>4, <1>u DEF MustFollow, StageKinds, SrcKinds, TgtKinds
<1>12. /\ \A h \in 1 .. Len(ops) : ops[h].kind \in {"wait", "lease_src", "lease_tgt"}
       /\ \A h \in 1 .. Len(ops) : ops[h].kind # "wait" => ops[h].step = step
       /\ \A g, h \in 1 .. Len(ops) : ops[g].kind = ops[h].kind => g = h
  BY <1>2, <1>4
<1>13. \A K \in Kinds : K = SrcKinds \/ K = TgtKinds \/ K = {"tap"} \/ K = {"train"}
  BY DEF Kinds
<1>14. ASSUME NEW K \in Kinds, NEW h \in 1 .. Len(ops), ops[h].kind \in K,
              NEW t \in Streams, NEW j \in Positions(t), log[t][j].kind \in K
       PROVE  log[t][j].step # ops[h].step
  <2>1. K = SrcKinds \/ K = TgtKinds
    BY <1>12, <1>13, <1>14
  <2>2. log[t][j].kind \in StageKinds /\ ops[h].kind # "wait"
    BY <1>14, <2>1 DEF StageKinds, SrcKinds, TgtKinds
  <2> QED BY <1>8, <1>12, <1>u, <2>2
<1>15. ASSUME NEW K \in Kinds, NEW g \in 1 .. Len(ops), NEW h \in 1 .. Len(ops), ops[g].kind \in K, ops[h].kind \in K
       PROVE  g = h
  BY <1>12, <1>13, <1>15 DEF SrcKinds, TgtKinds
<1>16. /\ OrderInv' /\ WaitsHeld' /\ Unique' /\ TrainIsStaged' /\ TapInv' /\ HistoryInv'
       /\ BufferInv(SrcKinds, src)' /\ BufferInv(TgtKinds, tgt)'
  BY <1>1, <1>4, <1>m, <1>u, <1>9, <1>10, <1>11, <1>12, <1>14, <1>15, AppendedKeeps
<1>17. Placed'
  <2>1. SUFFICES ASSUME NEW s \in Streams, NEW i \in 1 .. Len(log'[s])
                 PROVE  LET o == log'[s][i]
                        IN /\ o.kind = "tap" => s = Main /\ o.step \in 1 .. step
                           /\ o.kind \in {"lease_src", "lease_tgt"} => s = Main /\ ~TwoCalls
                           /\ o.kind \in {"copy_src", "copy_tgt"} => TwoCalls
                           /\ o.kind \in StageKinds \cup {"train"} => o.step \in 1 .. step
                           /\ o.kind = "train" => o.step < step
    BY <1>u DEF Placed, Positions
  <2>2. CASE i \in Positions(s) /\ log'[s][i] = log[s][i]
    BY <1>0, <1>u, <2>2 DEF Placed
  <2>3. CASE s = Main /\ \E h \in 1 .. Len(ops) : log'[s][i] = ops[h]
    BY <1>12, <1>u, <2>3 DEF StageKinds, SrcKinds, TgtKinds
  <2> QED BY <1>6, <2>2, <2>3 DEF OldOrNew
<1>18. HostInv'
  <2>1. nextSlot # None
    BY <1>u DEF SlotIds, None
  <2> QED BY <1>0, <1>u, <1>7 DEF HostInv
<1>19. SideInv'
  <2>1. \A s \in Streams : \A i \in 1 .. Len(log'[s]) :
           /\ log'[s][i].kind = "train" => i \in Positions(s) /\ log'[s][i] = log[s][i]
           /\ s \in Side => i \in Positions(s) /\ log'[s][i] = log[s][i]
    <3>1. \A s \in Streams : \A i \in 1 .. Len(log'[s]) :
             (i \in Positions(s) /\ log'[s][i] = log[s][i]) \/ (s = Main /\ log'[s][i].kind # "train")
      BY <1>6, <1>12 DEF OldOrNew
    <3> QED BY <3>1, <1>m
  <2>2. \A slot \in SlotIds : event'[<<"slot_train_done", slot>>] = event[<<"slot_train_done", slot>>]
    BY <1>u, <1>0 DEF TypeOK, EventNames
  <2> QED BY <1>0, <1>6, <1>u, <2>1, <2>2, SideGrows DEF deviceVars
<1>20. SlotInv'
  <2>1. /\ event'[<<"src_staged", nextSlot>>] = Recorded(Main, 3)
        /\ event'[<<"tgt_done", nextSlot>>] = Recorded(Main, 3)
    BY <1>0, <1>u DEF TypeOK, EventNames
  <2>2. Recorded(Main, 3).stream = Main /\ Recorded(Main, 3).at = Len(log[Main]) + 3
    BY DEF Recorded
  <2>3. Len(log[Main]) \in Nat /\ Len(log'[Main]) = Len(log[Main]) + 3
    BY <1>0, <1>m, <1>4, <1>5, Lengths DEF Appended
  <2>4. log'[Main][Len(log[Main]) + 2] = sop /\ log'[Main][Len(log[Main]) + 3] = top
    BY <1>4, <1>5 DEF Appended
  <2>5. Staged(log', SrcKinds, nextSlot, step, Recorded(Main, 3))
    BY SMTT(30), <1>2, <2>2, <2>3, <2>4 DEF Staged, SrcKinds
  <2>6. Staged(log', TgtKinds, nextSlot, step, Recorded(Main, 3))
    BY <1>2, <2>2, <2>3, <2>4 DEF Staged, TgtKinds
  <2> QED BY <1>u, <2>1, <2>5, <2>6 DEF SlotInv
<1> QED BY <1>16, <1>17, <1>18, <1>19, <1>20 DEF OrdInv

\* Behind a wait for the main stream, an operation of the forward stream is ordered behind
\* the whole main stream and every staging.
LEMMA ForwardOrdered ==
  ASSUME IInv, stale = "none", UNCHANGED done, NEW ops, Appended(ForwardStream, ops),
         NEW h \in 1 .. Len(ops),
         ForwardStream = Main \/ \E g \in 1 .. h - 1 : ops[g] = WaitFor(Recorded(Main, 0)),
         NEW t \in Streams, NEW j \in Positions(t), t = Main \/ log[t][j].kind \in StageKinds
  PROVE  Ordered(log', done', ForwardStream, Len(log[ForwardStream]) + h, t, j)
<1> DEFINE F == ForwardStream
<1>0. TypeOK /\ HostInv /\ SideInv
  BY DEF IInv, OrdInv
<1>1. F \in Streams /\ Main \in Streams
  BY <1>0, OpsType, Lengths
<1>2. F # Main => F = fwdStream
  BY DEF ForwardStream
<1>3. F = Main => fwdStream = NoStream
  BY <1>0 DEF ForwardStream, TypeOK, Side, Main, NoStream
<1> HIDE DEF F
<1>4. Len(log[F]) \in Nat /\ Len(log[t]) \in Nat /\ h \in Nat /\ j \in Nat /\ Len(ops) \in Nat
  BY <1>0, <1>1, Lengths DEF Positions, Appended, F
<1>5. CASE t = F
  BY <1>4, <1>5 DEF Ordered, Positions, F
<1>6. CASE t = Main /\ F # Main
  <2>1. PICK g \in 1 .. h - 1 : ops[g] = WaitFor(Recorded(Main, 0))
    BY <1>6 DEF F
  <2>2. g \in 1 .. Len(ops) /\ g \in Nat /\ Len(log[F]) + g \in 1 .. (Len(log[F]) + h) - 1
    BY <1>4
  <2>3. log'[F][Len(log[F]) + g] = ops[g]
    BY <2>2 DEF Appended, F
  <2>4. ops[g].kind = "wait" /\ ops[g].stream = Main /\ ops[g].at = Len(log[Main])
    BY <2>1, <1>0, <1>1, Lengths DEF WaitFor, Recorded
  <2>5. j <= ops[g].at
    BY <1>4, <1>6, <2>4 DEF Positions
  <2> QED BY <1>6, <2>2, <2>3, <2>4, <2>5 DEF Ordered, F
<1>7. CASE t # Main /\ t # F
  <2>1. t \in Side /\ t # NoStream
    BY <1>0, <1>7, Lengths
  <2>2. log[t][j].kind \in StageKinds /\ t # fwdStream
    BY <1>2, <1>3, <1>7, <2>1
  <2>3. j <= done[t]
    <3>1. SUFFICES ASSUME ~(j <= done[t]) PROVE FALSE
      OBVIOUS
    <3>2. j \in done[t] + 1 .. Len(log[t])
      BY <1>0, <1>4, <3>1, Lengths DEF Positions
    <3> QED BY <1>0, <2>1, <2>2, <3>2 DEF SideInv
  <2> QED BY <2>3 DEF Ordered
<1> QED BY <1>5, <1>6, <1>7

\* Behind a wait for the slot's done event, an operation is ordered behind the jobs of the slot.
LEMMA EventOrdered ==
  ASSUME IInv, UNCHANGED done, NEW x \in Streams, NEW ops, Appended(x, ops), NEW slot \in SlotIds,
         NEW h \in 1 .. Len(ops), \E g \in 1 .. h - 1 : ops[g] = WaitFor(event[<<"slot_train_done", slot>>]),
         NEW t \in Side, NEW j \in Positions(t), log[t][j].kind = "train", log[t][j].slot = slot
  PROVE  Ordered(log', done', x, Len(log[x]) + h, t, j)
<1>0. TypeOK /\ SideInv
  BY DEF IInv, OrdInv
<1>1. Len(log[x]) \in Nat /\ h \in Nat /\ j \in Nat /\ Len(ops) \in Nat /\ t \in Streams
  BY <1>0, Lengths DEF Positions, Appended
<1>2. CASE j <= done[t]
  BY <1>2 DEF Ordered
<1>3. CASE ~(j <= done[t])
  <2>1. PICK g \in 1 .. h - 1 : ops[g] = WaitFor(event[<<"slot_train_done", slot>>])
    OBVIOUS
  <2>2. g \in 1 .. Len(ops) /\ Len(log[x]) + g \in 1 .. (Len(log[x]) + h) - 1
    BY <1>1
  <2>3. log'[x][Len(log[x]) + g] = ops[g]
    BY <2>2 DEF Appended
  <2>4. j \in done[t] + 1 .. Len(log[t])
    BY <1>0, <1>1, <1>3, Lengths DEF Positions
  <2>5. event[<<"slot_train_done", slot>>].stream = t /\ j <= event[<<"slot_train_done", slot>>].at
    BY <1>0, <2>4 DEF SideInv
  <2>6. log'[x][Len(log[x]) + g].kind = "wait" /\ log'[x][Len(log[x]) + g].stream = t /\ j <= log'[x][Len(log[x]) + g].at
    BY <2>1, <2>3, <2>5 DEF WaitFor
  <2> QED BY <2>2, <2>6 DEF Ordered
<1> QED BY <1>2, <1>3

\* launch_forward: the copy stands behind its producer and the slot's last training.
LEMMA LaunchForwardKeeps == ASSUME IInv, LaunchForward PROVE OrdInv'
<1> DEFINE F        == ForwardStream
           e        == event[<<"slot_train_done", nextSlot>>]
           producer == Recorded(Main, 0)
           kop      == Kernel("copy_src", nextSlot, step)
           ops      == StageSourceOps(nextSlot, producer)
           n        == Len(ops)
<1>0. TypeOK /\ OrdInv /\ OrderInv /\ WaitsHeld /\ Placed /\ Unique /\ TrainIsStaged /\ HostInv /\ SideInv
      /\ SlotInv /\ TapInv /\ HistoryInv
  BY DEF IInv, OrdInv
<1>1. TypeOK'
  BY <1>0, HostTypeOK DEF Host
<1>m. Main \in Streams /\ Side \subseteq Streams /\ Main \notin Side /\ F \in Streams
  BY <1>0, Lengths, OpsType
<1>2. kop.kind = "copy_src" /\ kop.slot = nextSlot /\ kop.step = step
  BY DEF Kernel
<1>3. kop \in OpType /\ WaitFor(e) \in OpType /\ WaitFor(producer) \in OpType
  BY <1>0, <1>m, OpsType, RecordedType DEF TypeOK, EventNames
<1>w. WaitFor(e).kind = "wait" /\ WaitFor(producer).kind = "wait"
  BY DEF WaitFor
<1>4. /\ ops \in Seq(OpType) /\ n \in {2, 3}
      /\ ops[n] = kop
      /\ ops[1] = WaitFor(e)
      /\ F # Main => n = 3 /\ ops[2] = WaitFor(producer)
      /\ \A h \in 1 .. n : ops[h] = kop => h = n
      /\ \A h \in 1 .. n : ops[h].kind = "wait" \/ h = n
  BY <1>2, <1>3, <1>w DEF StageSourceOps
<1>u. /\ step \in Nat /\ launched \in Nat /\ launched < step /\ nextSlot \in SlotIds
      /\ current = None /\ ready = None /\ TwoCalls /\ stale = "none"
      /\ Enqueue(F, ops)
      /\ step' = step /\ launched' = step /\ current' = nextSlot /\ ready' = None
      /\ mode' = mode /\ stale' = stale /\ fwdStream' = fwdStream /\ trnStream' = trnStream
      /\ event' = [event EXCEPT ![<<"src_ready", nextSlot>>]  = producer,
                                ![<<"src_staged", nextSlot>>] = Recorded(F, n)]
      /\ UNCHANGED deviceVars
  BY <1>0 DEF LaunchForward, Flushed, TypeOK, Steps
<1>f. F' = F
  BY <1>u DEF ForwardStream
<1> HIDE DEF kop, ops, producer, e, F, n
<1>5. Appended(F, ops) /\ n = Len(ops)
  BY <1>0, <1>4, <1>m, <1>u, EnqueueAppends DEF n
<1>6. LogsGrow /\ OldOrNew(F, ops)
  BY <1>0, <1>5, <1>m, AppendedGrows
<1>8. \A s \in Streams : \A i \in Positions(s) :
         /\ log[s][i].kind \in StageKinds \cup {"train"} => log[s][i].step \in Nat /\ log[s][i].step <= launched
         /\ log[s][i].kind = "tap" => s = Main /\ log[s][i].step \in Nat /\ log[s][i].step <= step
  BY <1>0, <1>u DEF Placed, StageKinds, SrcKinds, TgtKinds
<1>9. ASSUME NEW t \in Streams, NEW j \in Positions(t),
             \/ t = Main
             \/ log[t][j].kind \in StageKinds
             \/ log[t][j].kind = "train" /\ log[t][j].slot = nextSlot
      PROVE  Ordered(log', done', F, Len(log[F]) + n, t, j)
  <2>1. n \in 1 .. Len(ops) /\ done' = done
    BY <1>4, <1>5, <1>u DEF deviceVars
  <2>2. CASE t = Main \/ log[t][j].kind \in StageKinds
    <3>1. ForwardStream = Main \/ \E g \in 1 .. n - 1 : ops[g] = WaitFor(Recorded(Main, 0))
      BY <1>4 DEF F, producer
    <3> QED BY <1>5, <1>u, <2>1, <2>2, <3>1, ForwardOrdered DEF F
  <2>3. CASE t # Main /\ log[t][j].kind = "train" /\ log[t][j].slot = nextSlot
    <3>1. \E g \in 1 .. n - 1 : ops[g] = WaitFor(event[<<"slot_train_done", nextSlot>>])
      BY <1>4 DEF e
    <3>2. t \in Side
      BY <1>0, <2>3, Lengths
    <3> QED BY <1>5, <1>u, <1>m, <2>1, <2>3, <3>1, <3>2, EventOrdered
  <2> QED BY <1>9, <2>2, <2>3
<1>10. ASSUME NEW h \in 1 .. Len(ops), NEW t \in Streams, NEW j \in Positions(t), MustFollow(ops[h], t, log[t][j])
       PROVE  Ordered(log', done', F, Len(log[F]) + h, t, j)
  <2>1. ops[h].kind # "wait"
    BY <1>10 DEF MustFollow, StageKinds, SrcKinds, TgtKinds
  <2>2. h = n /\ ops[h] = kop
    BY <1>4, <1>5, <2>1
  <2>3. \/ t = Main
        \/ log[t][j].kind \in StageKinds
        \/ log[t][j].kind = "train" /\ log[t][j].slot = nextSlot
    BY <1>2, <1>8, <1>10, <2>2 DEF MustFollow, StageKinds, SrcKinds, TgtKinds
  <2> QED BY <1>9, <2>2, <2>3
<1>11. \A h \in 1 .. Len(ops) : ops[h].kind = "wait" \/ (h = n /\ ops[h] = kop)
  BY <1>4, <1>5
<1>12. ASSUME NEW h \in 1 .. Len(ops), NEW s \in Streams, NEW i \in Positions(s)
       PROVE  ~MustFollow(log[s][i], F, ops[h])
  BY <1>2, <1>8, <1>11, <1>u DEF MustFollow, StageKinds, SrcKinds, TgtKinds
<1>13. \A g, h \in 1 .. Len(ops) : ~MustFollow(ops[g], F, ops[h])
  BY <1>2, <1>11, <1>u DEF MustFollow, StageKinds, SrcKinds, TgtKinds
<1>14. \A K \in Kinds : K = SrcKinds \/ K = TgtKinds \/ K = {"tap"} \/ K = {"train"}
  BY DEF Kinds
<1>15. ASSUME NEW K \in Kinds, NEW h \in 1 .. Len(ops), ops[h].kind \in K
       PROVE  h = n /\ ops[h] = kop /\ K = SrcKinds
  BY <1>2, <1>11, <1>14, <1>15 DEF SrcKinds, TgtKinds
<1>16. \A t \in Streams : \A j \in Positions(t) : log[t][j].kind \in SrcKinds => log[t][j].step # step
  BY <1>8, <1>u DEF StageKinds
<1>17. \A h \in 1 .. Len(ops) : ops[h].kind # "tap" /\ ops[h].kind # "train"
  BY <1>2, <1>11
<1>18. /\ \A K \in Kinds : \A h \in 1 .. Len(ops) : ops[h].kind \in K =>
            \A t \in Streams : \A j \in Positions(t) :
               log[t][j].kind \in K => log[t][j].step # ops[h].step
       /\ \A K \in Kinds : \A g, h \in 1 .. Len(ops) : ops[g].kind \in K /\ ops[h].kind \in K => g = h
  BY <1>2, <1>15, <1>16
<1>19. /\ OrderInv' /\ WaitsHeld' /\ Unique' /\ TrainIsStaged' /\ TapInv' /\ HistoryInv'
       /\ BufferInv(SrcKinds, src)' /\ BufferInv(TgtKinds, tgt)'
  BY <1>1, <1>4, <1>m, <1>u, <1>10, <1>12, <1>13, <1>17, <1>18, AppendedKeeps
<1>20. Placed'
  <2>1. SUFFICES ASSUME NEW s \in Streams, NEW i \in 1 .. Len(log'[s])
                 PROVE  LET o == log'[s][i]
                        IN /\ o.kind = "tap" => s = Main /\ o.step \in 1 .. step
                           /\ o.kind \in {"lease_src", "lease_tgt"} => s = Main /\ ~TwoCalls
                           /\ o.kind \in {"copy_src", "copy_tgt"} => TwoCalls
                           /\ o.kind \in StageKinds \cup {"train"} => o.step \in 1 .. step
                           /\ o.kind \in TgtKinds => o.step < step
                           /\ o.kind = "train" => o.step < step
    BY <1>u DEF Placed, Positions
  <2>2. CASE i \in Positions(s) /\ log'[s][i] = log[s][i]
    BY <1>0, <1>8, <1>u, <2>2 DEF Placed, StageKinds
  <2>3. CASE log'[s][i].kind = "wait" \/ log'[s][i] = kop
    BY <1>2, <1>u, <2>3 DEF StageKinds, SrcKinds, TgtKinds
  <2>4. \/ i \in Positions(s) /\ log'[s][i] = log[s][i]
        \/ \E h \in 1 .. Len(ops) : log'[s][i] = ops[h]
    BY <1>6 DEF OldOrNew
  <2> QED BY <1>11, <2>2, <2>3, <2>4
<1>21. F \in Side => F = fwdStream
  BY <1>m DEF F, ForwardStream
<1>22. \A s \in Side : s # F => log'[s] = log[s] /\ done'[s] = done[s]
  BY <1>5, <1>u, <1>m DEF Appended, deviceVars
<1>23. HostInv'
  <2>1. nextSlot # None
    BY <1>u DEF SlotIds, None
  <2> QED BY <1>0, <1>u, <1>21, <1>22, <2>1 DEF HostInv
<1>24. \A slot \in SlotIds : event'[<<"slot_train_done", slot>>] = event[<<"slot_train_done", slot>>]
  BY <1>u, <1>0 DEF TypeOK, EventNames
<1>25. SideInv'
  <2>1. \A s \in Streams : \A i \in 1 .. Len(log'[s]) : log'[s][i].kind = "train" => i \in Positions(s) /\ log'[s][i] = log[s][i]
    BY <1>6, <1>17 DEF OldOrNew
  <2>2. \A s \in Side : \A i \in 1 .. Len(log'[s]) : s = fwdStream \/ (i \in Positions(s) /\ log'[s][i] = log[s][i])
    BY <1>6, <1>21, <1>m DEF OldOrNew
  <2> QED BY <1>0, <1>6, <1>u, <1>24, <2>1, <2>2, SideGrows DEF deviceVars
<1>26. SlotInv'
  <2>1. event'[<<"src_staged", nextSlot>>] = Recorded(F, n)
    BY <1>0, <1>u DEF TypeOK, EventNames
  <2>2. Recorded(F, n).stream = F /\ Recorded(F, n).at = Len(log[F]) + n
    BY DEF Recorded
  <2>3. Len(log[F]) \in Nat /\ Len(log'[F]) = Len(log[F]) + n
    BY <1>0, <1>m, <1>5, Lengths DEF Appended
  <2>4. log'[F][Len(log[F]) + n] = kop
    BY <1>4, <1>5 DEF Appended
  <2>5. Staged(log', SrcKinds, nextSlot, step, Recorded(F, n))
    BY <1>2, <1>4, <2>2, <2>3, <2>4 DEF Staged, SrcKinds
  <2>6. ASSUME NEW s \in Streams, NEW i \in 1 .. Len(log'[s]), log'[s][i].kind = "train", log'[s][i].slot = nextSlot
        PROVE  Ordered(log', done', F, Len(log'[F]) + 1, s, i)
    <3>1. i \in Positions(s) /\ log'[s][i] = log[s][i]
      BY <1>6, <1>17, <2>6 DEF OldOrNew
    <3>2. Ordered(log', done', F, Len(log[F]) + n, s, i)
      BY <1>9, <2>6, <3>1
    <3> QED BY <1>4, <2>3, <3>1, <3>2, OrderedLater DEF Positions
  <2> QED BY <1>f, <1>u, <2>1, <2>5, <2>6 DEF SlotInv, Positions, F
<1> QED BY <1>19, <1>20, <1>23, <1>25, <1>26 DEF OrdInv

\* launch_target: the copy stands behind its producer; its slot has no job left since
\* launch_forward.
LEMMA LaunchTargetKeeps == ASSUME IInv, LaunchTarget PROVE OrdInv'
<1> DEFINE F        == ForwardStream
           producer == Recorded(Main, 0)
           kop      == Kernel("copy_tgt", current, step)
           ops      == StageTargetOps(current, producer)
           n        == Len(ops)
<1>0. TypeOK /\ OrdInv /\ OrderInv /\ WaitsHeld /\ Placed /\ Unique /\ TrainIsStaged /\ HostInv /\ SideInv
      /\ SlotInv /\ TapInv /\ HistoryInv
  BY DEF IInv, OrdInv
<1>1. TypeOK'
  BY <1>0, HostTypeOK DEF Host
<1>m. Main \in Streams /\ Side \subseteq Streams /\ Main \notin Side /\ F \in Streams
  BY <1>0, Lengths, OpsType
<1>2. kop.kind = "copy_tgt" /\ kop.slot = current /\ kop.step = step
  BY DEF Kernel
<1>c. current \in SlotIds /\ step \in Steps /\ current # None
  BY <1>0 DEF LaunchTarget, TypeOK
<1>3. kop \in OpType /\ WaitFor(producer) \in OpType
  BY <1>0, <1>c, <1>m, OpsType, RecordedType
<1>w. WaitFor(producer).kind = "wait"
  BY DEF WaitFor
<1>4. /\ ops \in Seq(OpType) /\ n \in {1, 2}
      /\ ops[n] = kop
      /\ F # Main => n = 2 /\ ops[1] = WaitFor(producer)
      /\ \A h \in 1 .. n : ops[h].kind = "wait" \/ h = n
  BY <1>2, <1>3, <1>w DEF StageTargetOps
<1>u. /\ step \in Nat /\ launched = step
      /\ ready = None /\ TwoCalls /\ stale = "none"
      /\ Enqueue(F, ops)
      /\ step' = step /\ launched' = launched /\ current' = None /\ ready' = current
      /\ mode' = mode /\ stale' = stale /\ fwdStream' = fwdStream /\ trnStream' = trnStream
      /\ event' = [event EXCEPT ![<<"tgt_ready", current>>] = producer,
                                ![<<"tgt_done", current>>]  = Recorded(F, n)]
      /\ UNCHANGED deviceVars
  BY <1>0 DEF LaunchTarget, TypeOK, Steps, HostInv
<1> HIDE DEF kop, ops, producer, F, n
<1>5. Appended(F, ops) /\ n = Len(ops)
  BY <1>0, <1>4, <1>m, <1>u, EnqueueAppends DEF n
<1>6. LogsGrow /\ OldOrNew(F, ops)
  BY <1>0, <1>5, <1>m, AppendedGrows
<1>8. \A s \in Streams : \A i \in Positions(s) :
         /\ log[s][i].kind \in StageKinds => log[s][i].step \in Nat /\ log[s][i].step <= step
         /\ log[s][i].kind \in TgtKinds \cup {"train"} => log[s][i].step \in Nat /\ log[s][i].step < step
         /\ log[s][i].kind = "tap" => s = Main /\ log[s][i].step \in Nat /\ log[s][i].step <= step
  BY <1>0, <1>u, <1>c DEF Placed, StageKinds, SrcKinds, TgtKinds
<1>9. ASSUME NEW t \in Streams, NEW j \in Positions(t),
             \/ t = Main
             \/ log[t][j].kind \in StageKinds
             \/ log[t][j].kind = "train" /\ log[t][j].slot = current
      PROVE  Ordered(log', done', F, Len(log[F]) + n, t, j)
  <2>1. n \in 1 .. Len(ops) /\ done' = done
    BY <1>4, <1>5, <1>u DEF deviceVars
  <2>2. CASE t = Main \/ log[t][j].kind \in StageKinds
    <3>1. ForwardStream = Main \/ \E g \in 1 .. n - 1 : ops[g] = WaitFor(Recorded(Main, 0))
      BY <1>4 DEF F, producer
    <3> QED BY <1>5, <1>u, <2>1, <2>2, <3>1, ForwardOrdered DEF F
  <2>3. CASE log[t][j].kind = "train" /\ log[t][j].slot = current
    <3>1. Ordered(log, done, F, Len(log[F]) + 1, t, j)
      BY <1>0, <1>c, <2>3 DEF SlotInv, F
    <3>2. Len(log[F]) \in Nat /\ n \in Nat /\ n >= 1 /\ done[t] \in Nat
      BY <1>0, <1>4, <1>m, Lengths
    <3>3. Len(log[F]) + 1 \in 1 .. Len(log[F]) + 1 /\ Len(log[F]) + n \in Nat /\ Len(log[F]) + 1 <= Len(log[F]) + n
      BY <3>2
    <3> QED BY SMTT(30), <1>0, <1>6, <1>m, <2>1, <3>1, <3>2, <3>3, OrderedKept
  <2> QED BY <1>9, <2>2, <2>3
<1>10. ASSUME NEW h \in 1 .. Len(ops), NEW t \in Streams, NEW j \in Positions(t), MustFollow(ops[h], t, log[t][j])
       PROVE  Ordered(log', done', F, Len(log[F]) + h, t, j)
  <2>1. ops[h].kind # "wait"
    BY <1>10 DEF MustFollow, StageKinds, SrcKinds, TgtKinds
  <2>2. h = n /\ ops[h] = kop
    BY <1>4, <1>5, <2>1
  <2>3. \/ t = Main
        \/ log[t][j].kind \in StageKinds
        \/ log[t][j].kind = "train" /\ log[t][j].slot = current
    BY <1>2, <1>8, <1>10, <2>2 DEF MustFollow, StageKinds, SrcKinds, TgtKinds
  <2> QED BY <1>9, <2>2, <2>3
<1>11. \A h \in 1 .. Len(ops) : ops[h].kind = "wait" \/ (h = n /\ ops[h] = kop)
  BY <1>4, <1>5
<1>12. ASSUME NEW h \in 1 .. Len(ops), NEW s \in Streams, NEW i \in Positions(s)
       PROVE  ~MustFollow(log[s][i], F, ops[h])
  BY <1>2, <1>8, <1>11, <1>u DEF MustFollow, StageKinds, SrcKinds, TgtKinds
<1>13. \A g, h \in 1 .. Len(ops) : ~MustFollow(ops[g], F, ops[h])
  BY <1>2, <1>11, <1>u DEF MustFollow, StageKinds, SrcKinds, TgtKinds
<1>14. \A K \in Kinds : K = SrcKinds \/ K = TgtKinds \/ K = {"tap"} \/ K = {"train"}
  BY DEF Kinds
<1>15. ASSUME NEW K \in Kinds, NEW h \in 1 .. Len(ops), ops[h].kind \in K
       PROVE  h = n /\ ops[h] = kop /\ K = TgtKinds
  BY <1>2, <1>11, <1>14, <1>15 DEF SrcKinds, TgtKinds
<1>16. \A t \in Streams : \A j \in Positions(t) : log[t][j].kind \in TgtKinds => log[t][j].step # step
  BY <1>8, <1>u
<1>17. \A h \in 1 .. Len(ops) : ops[h].kind # "tap" /\ ops[h].kind # "train"
  BY <1>2, <1>11
<1>18. /\ \A K \in Kinds : \A h \in 1 .. Len(ops) : ops[h].kind \in K =>
            \A t \in Streams : \A j \in Positions(t) :
               log[t][j].kind \in K => log[t][j].step # ops[h].step
       /\ \A K \in Kinds : \A g, h \in 1 .. Len(ops) : ops[g].kind \in K /\ ops[h].kind \in K => g = h
  BY <1>2, <1>15, <1>16
<1>19. /\ OrderInv' /\ WaitsHeld' /\ Unique' /\ TrainIsStaged' /\ TapInv' /\ HistoryInv'
       /\ BufferInv(SrcKinds, src)' /\ BufferInv(TgtKinds, tgt)'
  BY <1>1, <1>4, <1>m, <1>u, <1>10, <1>12, <1>13, <1>17, <1>18, AppendedKeeps
<1>h. launched > 0
  BY <1>0, <1>c DEF HostInv
<1>20. Placed'
  <2>1. SUFFICES ASSUME NEW s \in Streams, NEW i \in 1 .. Len(log'[s])
                 PROVE  LET o == log'[s][i]
                        IN /\ o.kind = "tap" => s = Main /\ o.step \in 1 .. step
                           /\ o.kind \in {"lease_src", "lease_tgt"} => s = Main /\ ~TwoCalls
                           /\ o.kind \in {"copy_src", "copy_tgt"} => TwoCalls
                           /\ o.kind \in StageKinds \cup {"train"} => o.step \in 1 .. launched
                           /\ o.kind = "train" => o.step < launched
    BY <1>u DEF Placed, Positions
  <2>2. CASE i \in Positions(s) /\ log'[s][i] = log[s][i]
    BY <1>0, <1>8, <1>u, <2>2 DEF Placed
  <2>3. CASE log'[s][i].kind = "wait" \/ log'[s][i] = kop
    BY <1>2, <1>u, <1>h, <2>3 DEF StageKinds, SrcKinds, TgtKinds
  <2>4. \/ i \in Positions(s) /\ log'[s][i] = log[s][i]
        \/ \E h \in 1 .. Len(ops) : log'[s][i] = ops[h]
    BY <1>6 DEF OldOrNew
  <2> QED BY <1>11, <2>2, <2>3, <2>4
<1>21. F \in Side => F = fwdStream
  BY <1>m DEF F, ForwardStream
<1>22. \A s \in Side : s # F => log'[s] = log[s] /\ done'[s] = done[s]
  BY <1>5, <1>u, <1>m DEF Appended, deviceVars
<1>23. HostInv'
  BY <1>0, <1>u, <1>c, <1>21, <1>22 DEF HostInv
<1>24. \A slot \in SlotIds : event'[<<"slot_train_done", slot>>] = event[<<"slot_train_done", slot>>]
  BY <1>u, <1>0 DEF TypeOK, EventNames
<1>25. SideInv'
  <2>1. \A s \in Streams : \A i \in 1 .. Len(log'[s]) : log'[s][i].kind = "train" => i \in Positions(s) /\ log'[s][i] = log[s][i]
    BY <1>6, <1>17 DEF OldOrNew
  <2>2. \A s \in Side : \A i \in 1 .. Len(log'[s]) : s = fwdStream \/ (i \in Positions(s) /\ log'[s][i] = log[s][i])
    BY <1>6, <1>21, <1>m DEF OldOrNew
  <2> QED BY <1>0, <1>6, <1>u, <1>24, <2>1, <2>2, SideGrows DEF deviceVars
<1>26. SlotInv'
  <2>1. /\ event'[<<"tgt_done", current>>] = Recorded(F, n)
        /\ event'[<<"src_staged", current>>] = event[<<"src_staged", current>>]
        /\ event[<<"src_staged", current>>].stream \in Streams
    BY <1>0, <1>c, <1>u DEF TypeOK, EventNames, EventType
  <2>2. Recorded(F, n).stream = F /\ Recorded(F, n).at = Len(log[F]) + n
    BY DEF Recorded
  <2>3. Len(log[F]) \in Nat /\ Len(log'[F]) = Len(log[F]) + n
    BY <1>0, <1>m, <1>5, Lengths DEF Appended
  <2>4. log'[F][Len(log[F]) + n] = kop
    BY <1>4, <1>5 DEF Appended
  <2>5. Staged(log', TgtKinds, current, launched, Recorded(F, n))
    BY <1>2, <1>4, <1>u, <2>2, <2>3, <2>4 DEF Staged, TgtKinds
  <2>6. Staged(log', SrcKinds, current, launched, event[<<"src_staged", current>>])
    BY <1>0, <1>6, <1>c, <2>1, StagedKept DEF SlotInv
  <2> QED BY <1>u, <2>1, <2>5, <2>6 DEF SlotInv
<1> QED BY <1>19, <1>20, <1>23, <1>25, <1>26 DEF OrdInv

\* launch_delayed_backward: the job stands behind both its stagings, whether it is trained,
\* empty or fails.
LEMMA DelayedBackwardKeeps ==
  ASSUME IInv, NEW outcome \in Outcomes, LaunchDelayedBackward(outcome)
  PROVE  OrdInv'
<1> DEFINE X   == TrainStream
           ws  == WaitFor(event[<<"src_staged", ready>>])
           wt  == WaitFor(event[<<"tgt_done", ready>>])
           kop == TrainKernel(ready, launched)
           ops == DrainOps(ready, outcome)
           n   == Len(ops)
<1>0. TypeOK /\ OrdInv /\ OrderInv /\ WaitsHeld /\ Placed /\ Unique /\ TrainIsStaged /\ HostInv /\ SideInv
      /\ SlotInv /\ TapInv /\ HistoryInv
  BY DEF IInv, OrdInv
<1>1. TypeOK'
  BY <1>0, HostTypeOK DEF Host
<1>c. ready \in SlotIds /\ launched \in Steps /\ ready # None /\ current = None /\ stale = "none"
  BY <1>0 DEF LaunchDelayedBackward, TypeOK, HostInv
<1>m. Main \in Streams /\ Side \subseteq Streams /\ Main \notin Side /\ X \in Streams
  BY <1>0, Lengths DEF LaunchDelayedBackward, TrainStream, TypeOK, Streams
<1>2. kop.kind = "train" /\ kop.slot = ready /\ kop.step = launched
  BY DEF TrainKernel
<1>3. kop \in OpType /\ ws \in OpType /\ wt \in OpType
  BY <1>0, <1>c, OpsType DEF EventNames
<1>w. ws.kind = "wait" /\ wt.kind = "wait"
  BY DEF WaitFor
<1>4. /\ ops \in Seq(OpType) /\ n \in {2, 3}
      /\ ops[1] = ws /\ ops[2] = wt
      /\ n = 3 => ops[3] = kop
      /\ \A h \in 1 .. n : ops[h].kind = "wait" \/ (h = 3 /\ n = 3)
  BY <1>2, <1>3, <1>w DEF DrainOps, TrainWaits
<1>u. /\ launched \in Nat /\ launched > 0
      /\ Enqueue(X, ops)
      /\ step' = step /\ launched' = launched /\ current' = None /\ ready' = None
      /\ mode' = mode /\ stale' = stale /\ fwdStream' = fwdStream /\ trnStream' = trnStream
      /\ event' = IF outcome = "raises" THEN event
                  ELSE [event EXCEPT ![<<"slot_train_done", ready>>] = Recorded(X, n)]
      /\ UNCHANGED deviceVars
  BY <1>0, <1>c DEF LaunchDelayedBackward, Steps, HostInv
<1>o. outcome = "raises" => n = 2
  BY DEF DrainOps, TrainWaits
<1>x. X \in Side => X = trnStream
  BY <1>m DEF TrainStream
<1>y. X = Main => trnStream = NoStream
  BY <1>0, <1>c DEF TrainStream, HostInv, TypeOK, Main, NoStream, Side
<1> HIDE DEF kop, ops, ws, wt, X, n
<1>5. Appended(X, ops) /\ n = Len(ops)
  BY <1>0, <1>4, <1>m, <1>u, EnqueueAppends DEF n
<1>6. LogsGrow /\ OldOrNew(X, ops)
  BY <1>0, <1>5, <1>m, AppendedGrows
<1>8. \A s \in Streams : \A i \in Positions(s) :
         /\ log[s][i].kind \in StageKinds => log[s][i].step \in Nat /\ log[s][i].step <= launched
         /\ log[s][i].kind = "train" => log[s][i].step \in Nat /\ log[s][i].step < launched
  BY <1>0, <1>u, <1>c DEF Placed
<1>9. ASSUME NEW K \in {SrcKinds, TgtKinds}
      PROVE  \E t \in Streams : \E j \in Positions(t) :
               /\ log[t][j].kind \in K /\ log[t][j].slot = ready /\ log[t][j].step = launched
               /\ n = 3 => Ordered(log', done', X, Len(log[X]) + n, t, j)
  <2>1. PICK g \in {1, 2}, e \in {event[<<"src_staged", ready>>], event[<<"tgt_done", ready>>]} :
            Staged(log, K, ready, launched, e) /\ ops[g] = WaitFor(e)
    BY <1>0, <1>4, <1>c DEF SlotInv, ws, wt
  <2>2. e.stream \in Streams
    BY <1>0, <1>c DEF TypeOK, EventType, EventNames
  <2>3. PICK j \in Positions(e.stream) : /\ log[e.stream][j].kind \in K /\ log[e.stream][j].slot = ready
                                         /\ log[e.stream][j].step = launched /\ j <= e.at
    BY <2>1 DEF Staged, Positions
  <2>4. ASSUME n = 3 PROVE Ordered(log', done', X, Len(log[X]) + n, e.stream, j)
    <3>1. Len(log[X]) \in Nat
      BY <1>0, <1>m, Lengths
    <3>2. log'[X][Len(log[X]) + g] = WaitFor(e)
      BY <1>5, <2>1, <2>4 DEF Appended
    <3>3. Len(log[X]) + g \in 1 .. (Len(log[X]) + n) - 1
      BY <2>1, <2>4, <3>1
    <3>4. WaitFor(e).kind = "wait" /\ WaitFor(e).stream = e.stream /\ WaitFor(e).at = e.at
      BY DEF WaitFor
    <3> QED BY <2>3, <3>2, <3>3, <3>4 DEF Ordered
  <2> QED BY <2>2, <2>3, <2>4
<1>10. ASSUME NEW h \in 1 .. Len(ops), NEW t \in Streams, NEW j \in Positions(t), MustFollow(ops[h], t, log[t][j])
       PROVE  Ordered(log', done', X, Len(log[X]) + h, t, j)
  <2>1. ops[h].kind # "wait"
    BY <1>10 DEF MustFollow, StageKinds, SrcKinds, TgtKinds
  <2>2. h = n /\ n = 3 /\ ops[h] = kop
    BY <1>4, <1>5, <2>1
  <2>3. log[t][j].kind \in StageKinds /\ log[t][j].step = launched
    BY <1>2, <1>10, <2>2 DEF MustFollow, StageKinds, SrcKinds, TgtKinds
  <2>4. PICK K \in {SrcKinds, TgtKinds} : log[t][j].kind \in K
    BY <2>3 DEF StageKinds
  <2>5. PICK r \in Streams : \E k \in Positions(r) :
               /\ log[r][k].kind \in K /\ log[r][k].slot = ready /\ log[r][k].step = launched
               /\ n = 3 => Ordered(log', done', X, Len(log[X]) + n, r, k)
    BY <1>9, <2>4
  <2>6. PICK k \in Positions(r) :
               /\ log[r][k].kind \in K /\ log[r][k].slot = ready /\ log[r][k].step = launched
               /\ n = 3 => Ordered(log', done', X, Len(log[X]) + n, r, k)
    BY <2>5
  <2>7. t = r /\ j = k
    BY <1>0, <2>3, <2>4, <2>6 DEF Unique, Kinds
  <2> QED BY <2>2, <2>6, <2>7
<1>11. \A h \in 1 .. Len(ops) : ops[h].kind = "wait" \/ (h = 3 /\ n = 3 /\ ops[h] = kop)
  BY <1>4, <1>5
<1>12. ASSUME NEW h \in 1 .. Len(ops), NEW s \in Streams, NEW i \in Positions(s)
       PROVE  ~MustFollow(log[s][i], X, ops[h])
  BY <1>2, <1>8, <1>11, <1>u DEF MustFollow, StageKinds, SrcKinds, TgtKinds
<1>13. \A g, h \in 1 .. Len(ops) : ~MustFollow(ops[g], X, ops[h])
  BY <1>2, <1>11, <1>u DEF MustFollow, StageKinds, SrcKinds, TgtKinds
<1>14. \A K \in Kinds : K = SrcKinds \/ K = TgtKinds \/ K = {"tap"} \/ K = {"train"}
  BY DEF Kinds
<1>15. ASSUME NEW K \in Kinds, NEW h \in 1 .. Len(ops), ops[h].kind \in K
       PROVE  h = 3 /\ ops[h] = kop /\ K = {"train"}
  BY <1>2, <1>11, <1>14, <1>15 DEF SrcKinds, TgtKinds
<1>16. \A t \in Streams : \A j \in Positions(t) : log[t][j].kind \in {"train"} => log[t][j].step # launched
  BY <1>8, <1>u
<1>17. \A h \in 1 .. Len(ops) : ops[h].kind # "tap"
  BY <1>2, <1>11
<1>18. /\ \A K \in Kinds : \A h \in 1 .. Len(ops) : ops[h].kind \in K =>
            \A t \in Streams : \A j \in Positions(t) :
               log[t][j].kind \in K => log[t][j].step # ops[h].step
       /\ \A K \in Kinds : \A g, h \in 1 .. Len(ops) : ops[g].kind \in K /\ ops[h].kind \in K => g = h
  BY <1>2, <1>15, <1>16
<1>s. \A h \in 1 .. Len(ops) : ops[h].kind = "train" =>
         /\ \A K \in {SrcKinds, TgtKinds} : \E t \in Streams : \E j \in Positions(t) :
               log[t][j].kind \in K /\ log[t][j].slot = ops[h].slot /\ log[t][j].step = ops[h].step
  BY <1>2, <1>9, <1>11
<1>t. launched \notin TrainedJobs
  BY <1>0, <1>16, AcceptedJobs DEF HistoryInv
<1>19. /\ OrderInv' /\ WaitsHeld' /\ Unique' /\ TrainIsStaged' /\ TapInv' /\ HistoryInv'
       /\ BufferInv(SrcKinds, src)' /\ BufferInv(TgtKinds, tgt)'
  <2>1. \A h \in 1 .. Len(ops) : ops[h].kind = "train" => ops[h].step \notin TrainedJobs
    BY <1>2, <1>11, <1>t
  <2> QED BY <1>1, <1>4, <1>m, <1>u, <1>10, <1>12, <1>13, <1>17, <1>18, <1>s, <2>1, AppendedKeeps
<1>20. Placed'
  <2>1. SUFFICES ASSUME NEW s \in Streams, NEW i \in 1 .. Len(log'[s])
                 PROVE  LET o == log'[s][i]
                        IN /\ o.kind = "tap" => s = Main /\ o.step \in 1 .. step
                           /\ o.kind \in {"lease_src", "lease_tgt"} => s = Main /\ ~TwoCalls
                           /\ o.kind \in {"copy_src", "copy_tgt"} => TwoCalls
                           /\ o.kind \in StageKinds \cup {"train"} => o.step \in 1 .. launched
    BY <1>u DEF Placed, Positions
  <2>2. CASE i \in Positions(s) /\ log'[s][i] = log[s][i]
    BY <1>0, <1>8, <1>u, <2>2 DEF Placed
  <2>3. CASE log'[s][i].kind = "wait" \/ log'[s][i] = kop
    BY <1>2, <1>u, <2>3 DEF StageKinds, SrcKinds, TgtKinds
  <2>4. \/ i \in Positions(s) /\ log'[s][i] = log[s][i]
        \/ \E h \in 1 .. Len(ops) : log'[s][i] = ops[h]
    BY <1>6 DEF OldOrNew
  <2> QED BY <1>11, <2>2, <2>3, <2>4
<1>22. \A s \in Side : s # X => log'[s] = log[s] /\ done'[s] = done[s]
  BY <1>5, <1>u, <1>m DEF Appended, deviceVars
<1>23. HostInv'
  BY <1>0, <1>u, <1>c, <1>x, <1>22 DEF HostInv
<1>25. SideInv'
  <2>1. SUFFICES ASSUME NEW s \in Side, NEW i \in done'[s] + 1 .. Len(log'[s])
               PROVE  /\ log'[s][i].kind \in StageKinds => s = fwdStream'
                      /\ log'[s][i].kind = "train" =>
                           /\ s = trnStream'
                           /\ LET e == event'[<<"slot_train_done", log'[s][i].slot>>] IN e.stream = s /\ i <= e.at
                           /\ \A j \in 1 .. Len(log'[Main]) :
                                log'[Main][j].kind = "train" => log'[Main][j].step < log'[s][i].step
    BY DEF SideInv, Positions
  <2>2. s \in Streams /\ done'[s] = done[s] /\ done[s] \in Nat /\ Len(log[s]) \in Nat /\ Len(log[X]) \in Nat
    BY <1>0, <1>m, <1>u, Lengths DEF deviceVars
  <2>3. i \in Nat /\ i >= done[s] + 1 /\ i \in 1 .. Len(log'[s])
    BY <2>2
  <2>4. event'[<<"slot_train_done", ready>>] = event[<<"slot_train_done", ready>>]
        \/ event'[<<"slot_train_done", ready>>] = Recorded(X, n)
    BY <1>0, <1>c, <1>u DEF TypeOK, EventNames
  <2>5. \A slot \in SlotIds : slot # ready => event'[<<"slot_train_done", slot>>] = event[<<"slot_train_done", slot>>]
    BY <1>0, <1>c, <1>u DEF TypeOK, EventNames
  <2>6. Recorded(X, n).stream = X /\ Recorded(X, n).at = Len(log[X]) + n
    BY DEF Recorded
  <2>7. CASE i \in Positions(s) /\ log'[s][i] = log[s][i]
    <3>1. i \in done[s] + 1 .. Len(log[s]) /\ i <= Len(log[s])
      BY <2>2, <2>3, <2>7 DEF Positions
    <3>2. log[s][i].kind \in StageKinds => s = fwdStream
      BY <1>0, <3>1 DEF SideInv
    <3>3. ASSUME log[s][i].kind = "train"
          PROVE  /\ s = trnStream
                 /\ event'[<<"slot_train_done", log[s][i].slot>>].stream = s
                 /\ i <= event'[<<"slot_train_done", log[s][i].slot>>].at
                 /\ \A j \in 1 .. Len(log'[Main]) :
                      log'[Main][j].kind = "train" => log'[Main][j].step < log[s][i].step
      <4>1. /\ s = trnStream
            /\ event[<<"slot_train_done", log[s][i].slot>>].stream = s
            /\ i <= event[<<"slot_train_done", log[s][i].slot>>].at
            /\ \A j \in Positions(Main) : log[Main][j].kind = "train" => log[Main][j].step < log[s][i].step
        BY <1>0, <3>1, <3>3 DEF SideInv
      <4>2. X # Main /\ X = s
        <5>1. trnStream # NoStream
          BY <1>0, <1>m, <2>2, <4>1, Lengths
        <5>2. X = Main \/ X \in Side
          BY <1>0, <1>m, Lengths
        <5> QED BY <1>x, <1>y, <4>1, <5>1, <5>2
      <4>3. log[s][i].slot \in SlotIds
        BY <1>0, <2>2, <2>7, <3>3, Lengths DEF OpType
      <4>4. /\ event'[<<"slot_train_done", log[s][i].slot>>].stream = s
            /\ i <= event'[<<"slot_train_done", log[s][i].slot>>].at
        <5>1. i <= Len(log[X]) + n
          BY <1>4, <2>2, <3>1, <4>2
        <5> QED BY <2>4, <2>5, <2>6, <4>1, <4>2, <4>3, <5>1
      <4>5. log'[Main] = log[Main]
        BY <1>5, <1>m, <4>2 DEF Appended
      <4> QED BY <4>1, <4>4, <4>5 DEF Positions
    <3> QED BY <1>u, <2>7, <3>2, <3>3
  <2>8. CASE ~(i \in Positions(s) /\ log'[s][i] = log[s][i])
    <3>1. PICK h \in 1 .. Len(ops) : s = X /\ i = Len(log[X]) + h /\ log'[s][i] = ops[h]
      BY <1>6, <2>2, <2>3, <2>8 DEF OldOrNew
    <3>2. CASE ops[h].kind = "wait"
      BY <3>1, <3>2 DEF StageKinds, SrcKinds, TgtKinds
    <3>3. CASE h = 3 /\ n = 3 /\ ops[h] = kop
      <4>1. s = trnStream /\ X # Main
        BY <1>x, <1>m, <3>1
      <4>2. event'[<<"slot_train_done", ready>>] = Recorded(X, n)
        BY <1>0, <1>c, <1>o, <1>u, <3>3 DEF TypeOK, EventNames
      <4>3. \A j \in 1 .. Len(log'[Main]) : log'[Main][j].kind = "train" => log'[Main][j].step < launched
        BY <1>5, <1>8, <1>m, <4>1 DEF Appended, Positions
      <4> QED BY <1>2, <1>u, <2>6, <3>1, <3>3, <4>1, <4>2, <4>3 DEF StageKinds, SrcKinds, TgtKinds
    <3> QED BY <1>11, <3>2, <3>3
  <2> QED BY <2>7, <2>8
<1>26. SlotInv'
  BY <1>u DEF SlotInv
<1> QED BY <1>19, <1>20, <1>23, <1>25, <1>26 DEF OrdInv

\* Without work enqueued or run, the order is as it was.
LEMMA LogsStill ==
  ASSUME IInv, UNCHANGED <<log, step, deviceVars>>
  PROVE  /\ OrderInv' /\ WaitsHeld' /\ Unique' /\ TrainIsStaged' /\ TapInv' /\ HistoryInv'
         /\ BufferInv(SrcKinds, src)' /\ BufferInv(TgtKinds, tgt)'
<1>1. /\ OrderInv /\ WaitsHeld /\ Unique /\ TrainIsStaged /\ TapInv /\ HistoryInv
      /\ BufferInv(SrcKinds, src) /\ BufferInv(TgtKinds, tgt)
  BY DEF IInv, OrdInv
<1>2. log' = log /\ step' = step /\ done' = done /\ tap' = tap /\ src' = src /\ tgt' = tgt /\ trained' = trained
  BY DEF deviceVars
<1>3. OrderInv' /\ WaitsHeld'
  BY <1>1, <1>2 DEF OrderInv, WaitsHeld, Positions
<1>4. Unique' /\ TrainIsStaged'
  BY <1>1, <1>2 DEF Unique, TrainIsStaged, Positions
<1>5. TapInv'
  BY <1>1, <1>2 DEF TapInv, Positions
<1>6. HistoryInv'
  BY <1>1, <1>2 DEF HistoryInv, Positions, TrainedJobs, Accepted, TrainOps
<1>7. BufferInv(SrcKinds, src)' /\ BufferInv(TgtKinds, tgt)'
  BY <1>1, <1>2 DEF BufferInv
<1> QED BY <1>3, <1>4, <1>5, <1>6, <1>7

\* Neither do calls that leave the handles alone disturb it.
LEMMA HandlesStill ==
  ASSUME IInv, UNCHANGED <<log, step, deviceVars, mode, stale, current, ready, fwdStream, trnStream, event, launched>>
  PROVE  OrdInv'
<1>1. Placed /\ HostInv /\ SideInv /\ SlotInv
  BY DEF IInv, OrdInv
<1>2. /\ log' = log /\ step' = step /\ done' = done /\ mode' = mode /\ stale' = stale /\ current' = current
      /\ ready' = ready /\ fwdStream' = fwdStream /\ trnStream' = trnStream /\ event' = event
      /\ launched' = launched
  BY DEF deviceVars
<1>3. Placed'
  BY <1>1, <1>2 DEF Placed, Positions
<1>4. HostInv'
  BY <1>1, <1>2 DEF HostInv
<1>5. SideInv'
  <2>1. ASSUME NEW s \in Side, NEW i \in done[s] + 1 .. Len(log[s])
        PROVE  /\ log[s][i].kind \in StageKinds => s = fwdStream
               /\ log[s][i].kind = "train" =>
                    /\ s = trnStream
                    /\ event[<<"slot_train_done", log[s][i].slot>>].stream = s
                    /\ i <= event[<<"slot_train_done", log[s][i].slot>>].at
                    /\ \A j \in Positions(Main) :
                         log[Main][j].kind = "train" => log[Main][j].step < log[s][i].step
    BY <1>1 DEF SideInv
  <2>2. ASSUME NEW s \in Side, NEW i \in done'[s] + 1 .. Len(log'[s])
        PROVE  /\ log'[s][i].kind \in StageKinds => s = fwdStream'
               /\ log'[s][i].kind = "train" =>
                    /\ s = trnStream'
                    /\ event'[<<"slot_train_done", log'[s][i].slot>>].stream = s
                    /\ i <= event'[<<"slot_train_done", log'[s][i].slot>>].at
                    /\ \A j \in Positions(Main)' :
                         log'[Main][j].kind = "train" => log'[Main][j].step < log'[s][i].step
    BY <1>2, <2>1 DEF Positions
  <2> QED BY <2>2 DEF SideInv
<1>6. SlotInv'
  BY <1>1, <1>2 DEF SlotInv, ForwardStream, Positions
<1> QED BY <1>3, <1>4, <1>5, <1>6, LogsStill DEF OrdInv

\* After synchronize no side stream has work, those no handle names included.
LEMMA SidesDrained ==
  ASSUME TypeOK, HostInv, Drained(SynchronizedStreams)
  PROVE  \A s \in Side : done[s] = Len(log[s])
  BY Lengths DEF HostInv, Drained, SynchronizedStreams

\* A new configuration drops the step in flight only with the side streams drained.
LEMMA ConfigureKeeps ==
  ASSUME IInv, NEW m \in Modes, NEW b \in BOOLEAN, NEW reshape \in BOOLEAN, Configure(m, b, reshape)
  PROVE  OrdInv'
<1>1. TypeOK /\ Placed /\ HostInv /\ SideInv /\ SlotInv
  BY DEF IInv, OrdInv
<1>2. /\ UNCHANGED <<log, step, done, fwdStream, trnStream, event, launched>>
      /\ current' = None /\ ready' = None /\ stale' # "none"
  BY DEF Configure, deviceVars
<1>3. \A s \in Side : done[s] = Len(log[s])
  BY <1>1, SidesDrained DEF Configure
<1>4. Placed'
  BY <1>1, <1>2 DEF Placed, Positions
<1>5. HostInv'
  BY <1>2, <1>3 DEF HostInv
<1>6. SideInv'
  <2>1. \A s \in Side : \A i \in done'[s] + 1 .. Len(log'[s]) : FALSE
    BY <1>1, <1>2, <1>3, Lengths
  <2> QED BY <2>1 DEF SideInv
<1>7. SlotInv'
  BY <1>2 DEF SlotInv
<1> QED BY <1>4, <1>5, <1>6, <1>7, LogsStill DEF OrdInv, Configure

\* The pipeline has room for every batch: graph_scratch_rows is unset or not below the
\* rows of any batch, so a new pipeline is made only after a configuration.
PipelineFits == Outgrows \subseteq {FALSE}

\* New streams and a new pipeline, whose events are unrecorded, find no work left.
LEMMA EnsureResourcesKeeps ==
  ASSUME PipelineFits, IInv, NEW outgrown \in Outgrows, EnsureResources(outgrown)
  PROVE  OrdInv'
<1>0. outgrown = FALSE
  BY DEF PipelineFits
<1>1. TypeOK /\ Placed /\ HostInv /\ SideInv /\ SlotInv
  BY DEF IInv, OrdInv
<1>2. /\ UNCHANGED <<log, step, done, mode, launched>>
      /\ current' = None /\ ready' = None /\ stale' = "none"
      /\ fwdStream' = EnsuredForward /\ trnStream' = EnsuredTrain
      /\ \A s \in Side : done[s] = Len(log[s])
      /\ mode \in {"dual", "single", "serial"}
  BY <1>0, <1>1, ModesAssumption DEF EnsureResources, deviceVars, HostInv, TypeOK
<1>3. \A s \in Side \cup {NoStream} : FreshStream({s}) \in Side /\ FreshStream({s}) # s
  BY DEF FreshStream, Side, NoStream
<1>4. FreshStream({}) \in Side /\ NoStream \notin Side
  BY DEF FreshStream, Side, NoStream
<1>5. fwdStream \in Side \cup {NoStream} /\ trnStream \in Side \cup {NoStream}
  BY <1>1 DEF TypeOK
<1>6. /\ mode = "serial" => EnsuredForward = NoStream
      /\ mode # "serial" => EnsuredForward \in Side
  BY <1>2, <1>3, <1>4, <1>5 DEF EnsuredForward
<1>7. /\ mode # "dual" => EnsuredTrain = EnsuredForward
      /\ mode = "dual" => EnsuredTrain \in Side /\ EnsuredTrain # EnsuredForward
  BY <1>3, <1>5, <1>6 DEF EnsuredTrain
<1>8. Placed'
  BY <1>1, <1>2 DEF Placed, Positions
<1>9. HostInv'
  BY <1>2, <1>4, <1>6, <1>7 DEF HostInv
<1>10. SideInv'
  <2>1. \A s \in Side : \A i \in done'[s] + 1 .. Len(log'[s]) : FALSE
    BY <1>1, <1>2, Lengths
  <2> QED BY <2>1 DEF SideInv
<1>11. SlotInv'
  BY <1>2 DEF SlotInv
<1> QED BY <1>8, <1>9, <1>10, <1>11, LogsStill DEF OrdInv, EnsureResources

\* No call of the host breaks the order.
LEMMA HostKeeps == PipelineFits /\ IInv /\ Host => OrdInv'
<1>1. ASSUME IInv, NEW b \in BOOLEAN, SetEnabled(b) PROVE OrdInv'
  BY <1>1, HandlesStill DEF SetEnabled
<1>2. ASSUME IInv, ReadAndResetStats PROVE OrdInv'
  BY <1>2, HandlesStill DEF ReadAndResetStats
<1> QED BY <1>1, <1>2, ModelForwardKeeps, EnsureResourcesKeeps, LaunchStepKeeps, LaunchForwardKeeps,
           LaunchTargetKeeps, DelayedBackwardKeeps, ConfigureKeeps DEF Host

-----------------------------------------------------------------------------
\* The operation at the head of a stream runs after all that it must follow.
LEMMA HeadFollows ==
  ASSUME IInv, NEW s \in Streams, Busy(s), NEW t \in Streams, NEW j \in Positions(t),
         MustFollow(HeadOf(s), t, log[t][j])
  PROVE  j <= done[t]
<1>1. TypeOK /\ WaitsHeld /\ OrderInv
  BY DEF IInv, OrdInv
<1>2. done[s] + 1 \in Positions(s) /\ HeadOf(s) = log[s][done[s] + 1] /\ done[s] \in Nat
  BY <1>1, Lengths DEF Busy, HeadOf, Positions
<1>3. Ordered(log, done, s, done[s] + 1, t, j)
  BY <1>1, <1>2 DEF OrderInv, Ordered
<1>4. done[s] + 1 <= done[s] + 1
  BY <1>2
<1> QED BY <1>1, <1>2, <1>3, <1>4, OrderedRan

\* Nothing that must follow the operation at the head of a stream has run.
LEMMA HeadIsFirst ==
  ASSUME IInv, NEW s \in Streams, Busy(s), NEW t \in Streams, NEW j \in Positions(t), j <= done[t],
         MustFollow(log[t][j], s, HeadOf(s))
  PROVE  FALSE
<1>1. TypeOK /\ WaitsHeld /\ OrderInv
  BY DEF IInv, OrdInv
<1>2. done[s] + 1 \in Positions(s) /\ HeadOf(s) = log[s][done[s] + 1] /\ done[s] \in Nat
  BY <1>1, Lengths DEF Busy, HeadOf, Positions
<1>3. Ordered(log, done, t, j, s, done[s] + 1)
  BY <1>1, <1>2 DEF OrderInv
<1>4. j <= done[t] + 1
  BY <1>1, Lengths DEF Positions
<1>5. done[s] + 1 <= done[s]
  BY <1>1, <1>2, <1>3, <1>4, OrderedRan
<1> QED BY <1>2, <1>5

\* What a staging operation copies are the rows of its own step.
LEMMA StagesOwnRows ==
  ASSUME IInv, NEW s \in Streams, Busy(s), HeadOf(s).kind \in StageKinds
  PROVE  RowsRead(HeadOf(s)) = HeadOf(s).step
<1> DEFINE op == HeadOf(s)
<1>1. TypeOK /\ TapInv /\ Placed
  BY DEF IInv, OrdInv
<1>2. done[s] + 1 \in Positions(s) /\ op = log[s][done[s] + 1] /\ Main \in Streams
  BY <1>1, Lengths DEF Busy, HeadOf, Positions
<1>3. /\ op.step \in Nat /\ op.step \in 1 .. step /\ step \in Nat /\ tap \in Nat
      /\ op.kind \in {"lease_src", "lease_tgt"} => s = Main
  <2>1. step \in Nat /\ launched \in Nat /\ launched <= step /\ tap \in Nat
    BY <1>1, BoundsAssumption DEF TypeOK, Steps
  <2>2. /\ log[s][done[s] + 1].step \in 1 .. launched
        /\ log[s][done[s] + 1].kind \in {"lease_src", "lease_tgt"} => s = Main
    BY <1>1, <1>2 DEF Placed
  <2>3. op.step \in 1 .. launched /\ (op.kind \in {"lease_src", "lease_tgt"} => s = Main)
    BY <1>2, <2>2
  <2> HIDE DEF op
  <2> QED BY <2>1, <2>3
<1> HIDE DEF op
<1>4. op.step <= tap
  <2>1. PICK j \in Positions(Main) : log[Main][j].kind = "tap" /\ log[Main][j].step = op.step
    BY <1>1, <1>3 DEF TapInv
  <2>2. MustFollow(op, Main, log[Main][j])
    BY <1>3, <2>1 DEF MustFollow, op
  <2>3. j <= done[Main]
    BY <1>2, <2>2, HeadFollows DEF op
  <2> QED BY <1>1, <2>1, <2>3 DEF TapInv
<1>5. CASE op.kind \in {"lease_src", "lease_tgt"}
  <2>1. SUFFICES ASSUME op.step < tap PROVE FALSE
    BY <1>3, <1>4, <1>5 DEF RowsRead, op
  <2>2. tap \in 1 .. step
    BY <1>1, <1>3, <2>1 DEF TapInv
  <2>3. PICK j \in Positions(Main) : log[Main][j].kind = "tap" /\ log[Main][j].step = tap
    BY <1>1, <2>2 DEF TapInv
  <2>4. j <= done[Main]
    BY <1>1, <1>3, <2>3 DEF TapInv
  <2>5. MustFollow(log[Main][j], s, op)
    BY <1>5, <2>1, <2>3 DEF MustFollow
  <2> QED BY <1>2, <2>4, <2>5, HeadIsFirst DEF op
<1>6. CASE op.kind \notin {"lease_src", "lease_tgt"}
  BY <1>3, <1>4, <1>6 DEF RowsRead, op
<1> QED BY <1>5, <1>6

\* A training job finds the rows of its own step in its slot.
LEMMA TrainsOwnRows ==
  ASSUME IInv, NEW s \in Streams, Busy(s), HeadOf(s).kind = "train",
         NEW K \in {SrcKinds, TgtKinds}, NEW buffer \in [SlotIds -> Steps], BufferInv(K, buffer)
  PROVE  buffer[HeadOf(s).slot] = HeadOf(s).step
<1> DEFINE op == HeadOf(s)
<1>1. TypeOK /\ TrainIsStaged /\ Placed /\ K \subseteq StageKinds
  BY DEF IInv, OrdInv, StageKinds
<1>2. done[s] + 1 \in Positions(s) /\ op = log[s][done[s] + 1]
  BY <1>1, Lengths DEF Busy, HeadOf, Positions
<1>3. op.slot \in SlotIds /\ op.step \in Nat /\ op.step > 0
  <2>1. op \in OpType /\ op.step \in 1 .. launched
    BY <1>1, <1>2, Lengths DEF Placed
  <2> QED BY <2>1 DEF OpType
<1>4. buffer[op.slot] \in Nat
  BY <1>3 DEF Steps
<1> HIDE DEF op
<1>5. op.step <= buffer[op.slot]
  <2>1. PICK t \in Streams : \E j \in Positions(t) :
            log[t][j].kind \in K /\ log[t][j].slot = op.slot /\ log[t][j].step = op.step
    BY <1>1, <1>2 DEF TrainIsStaged, op
  <2>2. PICK j \in Positions(t) : log[t][j].kind \in K /\ log[t][j].slot = op.slot /\ log[t][j].step = op.step
    BY <2>1
  <2>3. MustFollow(op, t, log[t][j])
    BY <1>1, <2>2 DEF MustFollow, op
  <2>4. j <= done[t]
    BY <2>3, HeadFollows DEF op
  <2>5. j \in 1 .. done[t]
    BY <1>1, <2>4, Lengths DEF Positions
  <2> QED BY <2>2, <2>5 DEF BufferInv
<1>6. SUFFICES ASSUME op.step < buffer[op.slot] PROVE FALSE
  BY <1>3, <1>4, <1>5 DEF op
<1>7. PICK t \in Streams : \E j \in 1 .. done[t] :
          log[t][j].kind \in K /\ log[t][j].slot = op.slot /\ log[t][j].step = buffer[op.slot]
  BY <1>3, <1>6 DEF BufferInv
<1>8. PICK j \in 1 .. done[t] :
          log[t][j].kind \in K /\ log[t][j].slot = op.slot /\ log[t][j].step = buffer[op.slot]
  BY <1>7
<1>9. j \in Positions(t) /\ j <= done[t]
  BY <1>1, Lengths DEF Positions
<1>10. MustFollow(log[t][j], s, op)
  BY <1>1, <1>6, <1>8 DEF MustFollow, op
<1> QED BY <1>9, <1>10, HeadIsFirst DEF op

-----------------------------------------------------------------------------
\* What running the head of a stream changes.
LEMMA Ran ==
  ASSUME IInv, NEW s \in Streams, Run(s)
  PROVE  /\ Busy(s) /\ done[s] \in Nat /\ done[s] + 1 \in Positions(s)
         /\ HeadOf(s) = log[s][done[s] + 1] /\ HeadOf(s) \in OpType
         /\ UNCHANGED <<hostVars, log, step>>
         /\ done'[s] = done[s] + 1 /\ \A t \in Streams : t # s => done'[t] = done[t]
         /\ \A t \in Streams : done'[t] \in Nat /\ done[t] <= done'[t]
         /\ \A t \in Streams : \A i \in Positions(t) :
              i <= done'[t] <=> i <= done[t] \/ (t = s /\ i = done[s] + 1)
<1>1. TypeOK /\ Busy(s) /\ done' = [done EXCEPT ![s] = @ + 1] /\ UNCHANGED <<hostVars, log, step>>
  BY DEF IInv, Run
<1>2. done[s] \in Nat /\ done[s] + 1 \in Positions(s) /\ HeadOf(s) = log[s][done[s] + 1]
  BY <1>1, Lengths DEF Busy, HeadOf, Positions
<1>3. HeadOf(s) \in OpType
  BY <1>1, <1>2, Lengths
<1>4. done'[s] = done[s] + 1 /\ \A t \in Streams : t # s => done'[t] = done[t]
  BY <1>1 DEF TypeOK
<1>5. \A t \in Streams : done[t] \in Nat /\ done'[t] \in Nat /\ done[t] <= done'[t]
  BY <1>1, <1>4, Lengths
<1>6. ASSUME NEW t \in Streams, NEW i \in Positions(t)
      PROVE  i <= done'[t] <=> i <= done[t] \/ (t = s /\ i = done[s] + 1)
  BY <1>2, <1>4, <1>5, <1>6 DEF Positions
<1> QED BY <1>1, <1>2, <1>3, <1>4, <1>5, <1>6

\* Running an operation keeps what is ordered ordered.
LEMMA RunOrders ==
  ASSUME IInv, NEW s \in Streams, Run(s)
  PROVE  OrderInv' /\ WaitsHeld' /\ Placed' /\ Unique' /\ TrainIsStaged' /\ HostInv' /\ SideInv' /\ SlotInv'
<1>1. /\ TypeOK /\ OrderInv /\ WaitsHeld /\ Placed /\ Unique /\ TrainIsStaged /\ HostInv /\ SideInv /\ SlotInv
  BY DEF IInv, OrdInv
<1>2. /\ log' = log /\ step' = step /\ LogsGrow
      /\ UNCHANGED <<mode, stale, current, ready, fwdStream, trnStream, event, launched>>
  BY <1>1, Ran, Lengths DEF LogsGrow, hostVars, Positions
<1>3. \A t \in Streams : Len(log[t]) \in Nat /\ done[t] \in 0 .. Len(log[t]) /\ done'[t] \in Nat /\ done[t] <= done'[t]
  BY <1>1, Ran, Lengths
<1>4. OrderInv'
  <2>1. SUFFICES ASSUME NEW u \in Streams, NEW t \in Streams, NEW i \in Positions(u), NEW j \in Positions(t),
                        MustFollow(log[u][i], t, log[t][j])
                 PROVE  Ordered(log', done', u, i, t, j)
    BY <1>2 DEF OrderInv, Positions
  <2>2. Ordered(log, done, u, i, t, j)
    BY <1>1, <2>1 DEF OrderInv, Ordered
  <2>3. i \in 1 .. Len(log[u]) + 1 /\ i \in Nat /\ i <= i
    BY <1>3 DEF Positions
  <2> QED BY <1>1, <1>2, <1>3, <2>2, <2>3, OrderedKept
<1>5. WaitsHeld'
  <2>1. SUFFICES ASSUME NEW t \in Streams, NEW i \in 1 .. done'[t], log[t][i].kind = "wait"
                 PROVE  log[t][i].at <= done'[log[t][i].stream]
    BY <1>2 DEF WaitsHeld
  <2>2. i \in Positions(t)
    <3>1. done'[t] <= Len(log[t])
      BY <1>3, Ran DEF Busy
    <3> QED BY <1>3, <3>1 DEF Positions
  <2>3. log[t][i].stream \in Streams /\ log[t][i].at \in Nat
    <3>1. log[t][i] \in OpType
      BY <1>1, <2>2, Lengths
    <3> QED BY <2>1, <3>1 DEF OpType
  <2>4. log[t][i].at <= done[log[t][i].stream]
    <3>1. CASE i <= done[t]
      BY <1>1, <1>3, <2>1, <3>1 DEF WaitsHeld
    <3>2. CASE t = s /\ i = done[s] + 1
      <4>1. HeadOf(s) = log[t][i]
        BY <3>2, Ran
      <4> QED BY <2>1, <4>1 DEF Run
    <3>3. i <= done'[t]
      BY <1>3
    <3> QED BY <2>2, <3>1, <3>2, <3>3, Ran
  <2> QED BY <1>3, <2>3, <2>4
<1>6. Placed' /\ Unique' /\ TrainIsStaged'
  <2>1. Placed'
    BY <1>1, <1>2 DEF Placed, Positions
  <2>2. Unique'
    BY <1>1, <1>2 DEF Unique, Positions
  <2>3. TrainIsStaged'
    BY <1>1, <1>2 DEF TrainIsStaged, Positions
  <2> QED BY <2>1, <2>2, <2>3
<1>7. HostInv'
  <2>1. \A t \in Side : done[t] = Len(log[t]) => done'[t] = Len(log'[t])
    BY <1>1, <1>2, <1>3, Ran, Lengths DEF Busy
  <2> QED BY <1>1, <1>2, <2>1 DEF HostInv
<1>8. SideInv'
  <2>1. \A t \in Side : \A i \in done'[t] + 1 .. Len(log'[t]) : i \in done[t] + 1 .. Len(log[t])
    BY <1>1, <1>2, <1>3, Lengths
  <2> QED BY <1>1, <1>2, <2>1 DEF SideInv, Positions
<1>9. SlotInv'
  <2>1. ForwardStream \in Streams /\ ForwardStream' = ForwardStream
    BY <1>1, <1>2 DEF TypeOK, ForwardStream, Streams
  <2>2. ASSUME NEW t \in Streams, NEW i \in Positions(t),
               Ordered(log, done, ForwardStream, Len(log[ForwardStream]) + 1, t, i)
        PROVE  Ordered(log', done', ForwardStream, Len(log[ForwardStream]) + 1, t, i)
    <3> DEFINE k == Len(log[ForwardStream]) + 1
    <3>1. k \in Nat /\ k \in 1 .. Len(log[ForwardStream]) + 1 /\ k <= k
      BY <1>3, <2>1
    <3>2. Ordered(log, done, ForwardStream, k, t, i)
      BY <2>2
    <3> HIDE DEF k
    <3>3. Ordered(log', done', ForwardStream, k, t, i)
      BY <1>1, <1>2, <1>3, <2>1, <3>1, <3>2, OrderedKept
    <3> QED BY <3>3 DEF k
  <2> QED BY <1>1, <1>2, <2>1, <2>2 DEF SlotInv, Positions
<1> QED BY <1>4, <1>5, <1>6, <1>7, <1>8, <1>9

\* Running a forward moves the taps one step on.
LEMMA RunTaps == ASSUME IInv, NEW s \in Streams, Run(s) PROVE TapInv'
<1> DEFINE op == HeadOf(s)
<1>1. TypeOK /\ TapInv /\ Placed /\ Unique
  BY DEF IInv, OrdInv
<1>2. log' = log /\ step' = step /\ done[s] + 1 \in Positions(s) /\ op = log[s][done[s] + 1] /\ Main \in Streams
  BY <1>1, Ran, Lengths
<1>3. \A i \in Positions(Main) : i <= done'[Main] <=> i <= done[Main] \/ (Main = s /\ i = done[s] + 1)
  BY <1>2, Ran
<1>4. \A i \in Positions(Main) : log[Main][i].kind = "tap" => log[Main][i].step \in Nat
  BY <1>1, <1>2, Lengths DEF OpType, Steps
<1>5. CASE op.kind = "tap"
  <2>1. s = Main /\ tap' = op.step /\ op.step \in 1 .. step /\ op.step \in Nat /\ done[Main] \in Nat
    <3>1. s = Main /\ op.step \in 1 .. step
      BY <1>1, <1>2, <1>5 DEF Placed
    <3>2. tap' = op.step
      BY <1>5 DEF Run
    <3>3. op.step \in Nat /\ done[Main] \in Nat
      BY <1>2, <1>4, <1>5, <3>1, Ran
    <3> QED BY <3>1, <3>2, <3>3
  <2> HIDE DEF op
  <2>2. ASSUME NEW i \in Positions(Main), log[Main][i].kind = "tap"
        PROVE  i <= done'[Main] <=> log[Main][i].step <= op.step
    <3>1. CASE i <= done[Main]
      <4>1. ~MustFollow(log[Main][i], s, op)
        BY <1>2, <2>1, <3>1, Ran, HeadIsFirst DEF op
      <4>2. log[Main][i].step <= op.step
        BY <1>4, <1>5, <2>1, <2>2, <4>1 DEF MustFollow
      <4> QED BY <1>3, <3>1, <4>2
    <3>2. CASE i = done[s] + 1
      BY <1>2, <1>3, <2>1, <3>2
    <3>3. CASE ~(i <= done[Main]) /\ i # done[s] + 1
      <4>1. ~(i <= done'[Main])
        BY <1>3, <3>3
      <4>2. ~(log[Main][i].step < op.step)
        <5>1. SUFFICES ASSUME log[Main][i].step < op.step PROVE FALSE
          OBVIOUS
        <5>2. MustFollow(op, Main, log[Main][i])
          BY <1>5, <2>2, <5>1 DEF MustFollow
        <5> QED BY <1>2, <3>3, <5>2, Ran, HeadFollows DEF op
      <4>3. log[Main][i].step # op.step
        BY <1>1, <1>2, <1>5, <2>1, <2>2, <3>3 DEF Unique, Kinds, op
      <4> QED BY <1>4, <2>1, <2>2, <4>1, <4>2, <4>3
    <3> QED BY <3>1, <3>2, <3>3
  <2> QED BY <1>1, <1>2, <2>1, <2>2 DEF TapInv, Positions, TypeOK, Steps
<1>6. CASE op.kind # "tap"
  <2>1. tap' = tap
    BY <1>6 DEF Run
  <2>2. \A i \in Positions(Main) : log[Main][i].kind = "tap" => (i <= done'[Main] <=> i <= done[Main])
    BY <1>2, <1>3, <1>6
  <2> QED BY <1>1, <1>2, <2>1, <2>2 DEF TapInv, Positions
<1> QED BY <1>5, <1>6

\* BufferInv with another count of the operations run.
Filled(dn, K, buffer) ==
  /\ \A t \in Streams : \A i \in 1 .. dn[t] :
       log[t][i].kind \in K => log[t][i].step <= buffer[log[t][i].slot]
  /\ \A slot \in SlotIds : buffer[slot] # 0 =>
       \E t \in Streams : \E i \in 1 .. dn[t] :
         log[t][i].kind \in K /\ log[t][i].slot = slot /\ log[t][i].step = buffer[slot]

\* Running a copy leaves in its slot the latest step staged there.
LEMMA RunFills ==
  ASSUME IInv, NEW s \in Streams, Run(s), NEW K \in {SrcKinds, TgtKinds},
         NEW b \in [SlotIds -> Steps], BufferInv(K, b), NEW c \in [SlotIds -> Steps],
         c = IF HeadOf(s).kind \in K THEN [b EXCEPT ![HeadOf(s).slot] = HeadOf(s).step] ELSE b
  PROVE  Filled(done', K, c)
<1> DEFINE op == HeadOf(s)
<1>1. TypeOK /\ K \subseteq StageKinds
  BY DEF IInv, OrdInv, StageKinds
<1>2. done[s] + 1 \in Positions(s) /\ op = log[s][done[s] + 1] /\ Busy(s) /\ op \in OpType
      /\ done[s] \in Nat /\ done'[s] = done[s] + 1
  BY Ran
<1>3. op.kind \in K => op.slot \in SlotIds /\ op.step \in Nat
  BY <1>1, <1>2 DEF OpType, Steps, StageKinds, SrcKinds, TgtKinds
<1>4. ASSUME NEW t \in Streams, NEW i \in 1 .. done'[t]
      PROVE  i \in Positions(t) /\ (i \in 1 .. done[t] \/ (t = s /\ i = done[s] + 1))
  <2>1. i \in Positions(t)
    <3>1. done'[t] <= Len(log[t]) /\ Len(log[t]) \in Nat /\ done'[t] \in Nat
      BY <1>1, Ran, Lengths DEF Busy
    <3> QED BY <3>1 DEF Positions
  <2>2. i <= done'[t] /\ i \in Nat /\ i >= 1
    BY Ran
  <2>3. i <= done[t] \/ (t = s /\ i = done[s] + 1)
    BY <2>1, <2>2, Ran
  <2>4. done[t] \in Nat
    BY <1>1, Lengths
  <2> QED BY <2>1, <2>2, <2>3, <2>4
<1>5. \A t \in Streams : \A i \in 1 .. done[t] : i \in 1 .. done'[t]
  BY <1>1, Ran, Lengths
<1>6. done[s] + 1 \in 1 .. done'[s]
  BY <1>2
<1> HIDE DEF op
<1>7. CASE op.kind \in K
  <2>1. /\ op.slot \in SlotIds /\ c[op.slot] = op.step
        /\ \A slot \in SlotIds : slot # op.slot => c[slot] = b[slot]
    BY <1>3, <1>7 DEF op
  <2>2. ASSUME NEW t \in Streams, NEW i \in 1 .. done'[t], log[t][i].kind \in K
        PROVE  log[t][i].step <= c[log[t][i].slot]
    <3>1. log[t][i].slot \in SlotIds /\ log[t][i].step \in Nat
      <4>1. log[t][i] \in OpType
        BY <1>1, <1>4, Lengths
      <4> QED BY <1>1, <2>2, <4>1 DEF OpType, Steps, StageKinds, SrcKinds, TgtKinds
    <3>2. CASE i \in 1 .. done[t] /\ log[t][i].slot # op.slot
      BY <2>1, <2>2, <3>1, <3>2 DEF BufferInv
    <3>3. CASE i \in 1 .. done[t] /\ log[t][i].slot = op.slot
      <4>1. SUFFICES ASSUME op.step < log[t][i].step PROVE FALSE
        BY <1>3, <1>7, <2>1, <3>1, <3>3
      <4>2. MustFollow(log[t][i], s, op)
        BY <1>7, <2>2, <3>3, <4>1 DEF MustFollow
      <4>3. i \in Positions(t) /\ i <= done[t]
        BY <1>4, <3>3
      <4> QED BY <1>2, <4>2, <4>3, HeadIsFirst DEF op
    <3>4. CASE t = s /\ i = done[s] + 1
      BY <1>2, <1>3, <1>7, <2>1, <3>4 DEF op
    <3> QED BY <1>4, <3>2, <3>3, <3>4
  <2>3. ASSUME NEW slot \in SlotIds, c[slot] # 0
        PROVE  \E t \in Streams : \E i \in 1 .. done'[t] :
                 log[t][i].kind \in K /\ log[t][i].slot = slot /\ log[t][i].step = c[slot]
    <3>1. CASE slot = op.slot
      BY <1>2, <1>6, <1>7, <2>1, <3>1
    <3>2. CASE slot # op.slot
      BY <1>5, <2>1, <2>3, <3>2 DEF BufferInv
    <3> QED BY <3>1, <3>2
  <2> QED BY <2>2, <2>3 DEF Filled
<1>8. CASE op.kind \notin K
  <2>1. c = b
    BY <1>8 DEF op
  <2>2. \A t \in Streams : \A i \in 1 .. done'[t] : log[t][i].kind \in K => i \in 1 .. done[t]
    BY <1>2, <1>4, <1>8
  <2> QED BY <1>5, <2>1, <2>2 DEF BufferInv, Filled
<1> QED BY <1>7, <1>8

\* Running an operation keeps both buffers of every slot.
LEMMA RunBuffers ==
  ASSUME IInv, NEW s \in Streams, Run(s)
  PROVE  BufferInv(SrcKinds, src)' /\ BufferInv(TgtKinds, tgt)'
<1> DEFINE op == HeadOf(s)
<1>1. /\ TypeOK /\ BufferInv(SrcKinds, src) /\ BufferInv(TgtKinds, tgt) /\ Busy(s)
      /\ src \in [SlotIds -> Steps] /\ tgt \in [SlotIds -> Steps] /\ log' = log /\ TypeOK'
  BY Ran, DeviceTypeOK DEF IInv, OrdInv, TypeOK
<1>2. op.kind \in StageKinds => RowsRead(op) = op.step
  BY <1>1, StagesOwnRows
<1>3. src' = IF op.kind \in SrcKinds THEN [src EXCEPT ![op.slot] = op.step] ELSE src
  BY <1>2 DEF Run, SrcKinds, TgtKinds, StageKinds
<1>4. tgt' = IF op.kind \in TgtKinds THEN [tgt EXCEPT ![op.slot] = op.step] ELSE tgt
  BY <1>2 DEF Run, SrcKinds, TgtKinds, StageKinds
<1> HIDE DEF op
<1>5. BufferInv(SrcKinds, src)'
  <2>1. SrcKinds \in {SrcKinds, TgtKinds} /\ src' \in [SlotIds -> Steps]
    BY <1>1 DEF TypeOK
  <2>2. Filled(done', SrcKinds, src')
    BY <1>1, <1>3, <2>1, RunFills DEF op
  <2> QED BY <1>1, <2>2 DEF BufferInv, Filled
<1>6. BufferInv(TgtKinds, tgt)'
  <2>1. TgtKinds \in {SrcKinds, TgtKinds} /\ tgt' \in [SlotIds -> Steps]
    BY <1>1 DEF TypeOK
  <2>2. Filled(done', TgtKinds, tgt')
    BY <1>1, <1>4, <2>1, RunFills DEF op
  <2> QED BY <1>1, <2>2 DEF BufferInv, Filled
<1> QED BY <1>5, <1>6

\* What is trained: nothing, or the step of the training job at the head, on its
\* own rows.
LEMMA RunTrains ==
  ASSUME IInv, NEW s \in Streams, Run(s)
  PROVE  IF HeadOf(s).kind = "train"
         THEN LET n == HeadOf(s).step
              IN /\ trained' = Append(trained, [job |-> n, src |-> n, tgt |-> n])
                 /\ TrainedJobs' = TrainedJobs \cup {n}
         ELSE UNCHANGED <<trained, TrainedJobs>>
<1> DEFINE op == HeadOf(s)
<1>1. TypeOK /\ BufferInv(SrcKinds, src) /\ BufferInv(TgtKinds, tgt) /\ Busy(s) /\ op \in OpType
  BY Ran DEF IInv, OrdInv
<1>2. CASE op.kind = "train"
  <2>1. src[op.slot] = op.step /\ tgt[op.slot] = op.step
    BY <1>1, <1>2, TrainsOwnRows DEF TypeOK
  <2>2. trained' = Append(trained, [job |-> op.step, src |-> op.step, tgt |-> op.step])
    BY <1>2, <2>1 DEF Run
  <2>3. op.step \in Steps
    BY <1>1, <1>2 DEF OpType
  <2> DEFINE job == [job |-> op.step, src |-> op.step, tgt |-> op.step]
  <2>4. trained \in Seq([job : Steps, src : Steps, tgt : Steps]) /\ job \in [job : Steps, src : Steps, tgt : Steps]
    BY <1>1, <2>3 DEF TypeOK
  <2>5. /\ Len(trained) \in Nat /\ DOMAIN trained = 1 .. Len(trained) /\ DOMAIN trained' = 1 .. Len(trained) + 1
        /\ \A i \in 1 .. Len(trained) : trained'[i] = trained[i]
        /\ trained'[Len(trained) + 1] = job /\ job.job = op.step
    BY <2>2, <2>4
  <2> HIDE DEF job, op
  <2>6. \A i \in DOMAIN trained' : i \in DOMAIN trained \/ i = Len(trained) + 1
    BY <2>5
  <2>7. \A i \in DOMAIN trained : i \in DOMAIN trained'
    BY <2>5
  <2>8. Len(trained) + 1 \in DOMAIN trained'
    BY <2>5
  <2>9. TrainedJobs' = TrainedJobs \cup {op.step}
    BY <2>5, <2>6, <2>7, <2>8 DEF TrainedJobs
  <2> QED BY <1>2, <2>2, <2>9 DEF op
<1>3. CASE op.kind # "train"
  BY <1>3 DEF Run, TrainedJobs
<1> QED BY <1>2, <1>3

\* Running a job records it.
LEMMA RunHistory == ASSUME IInv, NEW s \in Streams, Run(s) PROVE HistoryInv'
<1> DEFINE op == HeadOf(s)
<1>1. TypeOK /\ HistoryInv /\ Unique
  BY DEF IInv, OrdInv
<1>2. log' = log /\ done[s] + 1 \in Positions(s) /\ op = log[s][done[s] + 1] /\ done[s] \in Nat /\ Accepted' = Accepted
      /\ done'[s] = done[s] + 1
  BY Ran DEF Accepted, TrainOps
<1>3. \A t \in Streams : \A i \in Positions(t) :
        i <= done'[t] <=> i <= done[t] \/ (t = s /\ i = done[s] + 1)
  BY Ran
<1>4. CASE op.kind = "train"
  <2>1. TrainedJobs' = TrainedJobs \cup {op.step}
    BY <1>4, RunTrains
  <2>2. op.step \in Accepted
    BY <1>2, <1>4, AcceptedJobs
  <2> HIDE DEF op
  <2>3. ASSUME NEW t \in Streams, NEW i \in Positions(t), log[t][i].kind = "train"
        PROVE  i <= done'[t] <=> log[t][i].step \in TrainedJobs'
    <3>1. CASE t = s /\ i = done[s] + 1
      BY <1>2, <1>3, <2>1, <3>1
    <3>2. CASE ~(t = s /\ i = done[s] + 1)
      <4>1. log[t][i].step # op.step
        BY <1>1, <1>2, <1>4, <2>3, <3>2 DEF Unique, Kinds
      <4> QED BY <1>1, <1>3, <2>1, <2>3, <3>2, <4>1 DEF HistoryInv
    <3> QED BY <3>1, <3>2
  <2> QED BY <1>1, <1>2, <2>1, <2>2, <2>3 DEF HistoryInv, Positions
<1>5. CASE op.kind # "train"
  <2>1. TrainedJobs' = TrainedJobs
    BY <1>5, RunTrains
  <2>2. \A t \in Streams : \A i \in Positions(t) : log[t][i].kind = "train" => (i <= done'[t] <=> i <= done[t])
    BY <1>2, <1>3, <1>5
  <2> QED BY <1>1, <1>2, <2>1, <2>2 DEF HistoryInv, Positions
<1> QED BY <1>4, <1>5

\* No step of the device breaks the order.
LEMMA RunKeeps == ASSUME IInv, NEW s \in Streams, Run(s) PROVE OrdInv'
  BY RunOrders, RunTaps, RunBuffers, RunHistory DEF OrdInv

\* An empty pipeline is ordered.
LEMMA InitOrders == Init => OrdInv
<1> SUFFICES ASSUME Init PROVE OrdInv
  OBVIOUS
<1>1. /\ \A s \in Streams : log[s] = <<>> /\ done[s] = 0 /\ Len(log[s]) = 0
      /\ Main \in Streams /\ Side \subseteq Streams
  BY DEF Init, Streams, Side
<1>2. \A s \in Streams : Positions(s) = {} /\ 1 .. done[s] = {}
  BY <1>1 DEF Positions
<1>3. /\ current = None /\ ready = None /\ launched = 0 /\ stale = "pipeline" /\ step = 0 /\ tap = 0
      /\ trained = <<>> /\ \A slot \in SlotIds : src[slot] = 0 /\ tgt[slot] = 0
  BY DEF Init
<1>4. OrderInv /\ WaitsHeld /\ Placed /\ Unique /\ TrainIsStaged
  BY <1>2 DEF OrderInv, WaitsHeld, Placed, Unique, TrainIsStaged
<1>5. HostInv
  BY <1>1, <1>3 DEF HostInv, None
<1>6. SideInv /\ SlotInv
  <2>1. \A s \in Side : done[s] + 1 .. Len(log[s]) = {}
    BY <1>1
  <2> QED BY <1>3, <2>1 DEF SideInv, SlotInv
<1>7. TapInv
  BY <1>1, <1>2, <1>3 DEF TapInv
<1>8. BufferInv(SrcKinds, src) /\ BufferInv(TgtKinds, tgt)
  BY <1>2, <1>3 DEF BufferInv
<1>9. HistoryInv
  BY <1>2, <1>3 DEF HistoryInv, TrainedJobs
<1> QED BY <1>4, <1>5, <1>6, <1>7, <1>8, <1>9 DEF OrdInv

\* Stuttering keeps the order.
LEMMA StutterOrders == IInv /\ UNCHANGED vars => OrdInv'
  BY HandlesStill DEF vars, deviceVars

-----------------------------------------------------------------------------
\* The two ways a call may enqueue: no training job, or one, of the step launched last.
AppendsNoJob ==
  \E x \in Streams : \E ops \in Seq(OpType) :
    Appended(x, ops) /\ \A h \in 1 .. Len(ops) : ops[h].kind # "train"
AppendsJob ==
  \E x \in Streams : \E ops \in Seq(OpType) :
    /\ Appended(x, ops) /\ Len(ops) = 3
    /\ ops[1].kind # "train" /\ ops[2].kind # "train"
    /\ ops[3].kind = "train" /\ ops[3].step = launched /\ ready # None

\* A call of the host appends to at most one stream, at most one job, and runs nothing.
LEMMA HostEnqueues ==
  ASSUME IInv, Host
  PROVE  /\ UNCHANGED deviceVars
         /\ UNCHANGED log \/ AppendsNoJob \/ AppendsJob
<1>0. TypeOK /\ HostInv
  BY DEF IInv, OrdInv
<1>1. CASE ModelForward
  <2> DEFINE ops == <<Kernel("tap", 0, step + 1)>>
  <2>1. Kernel("tap", 0, step + 1) \in OpType
    <3>1. step + 1 \in Steps /\ 0 \in SlotIds
      BY <1>0, <1>1, SlotsAssumption, BoundsAssumption DEF ModelForward, Steps, TypeOK, SlotIds
    <3> QED BY <1>0, <3>1, OpsType
  <2>2. ops \in Seq(OpType) /\ \A h \in 1 .. Len(ops) : ops[h].kind # "train"
    BY <2>1 DEF Kernel
  <2>3. Enqueue(Main, ops) /\ Main \in Streams /\ UNCHANGED deviceVars
    BY <1>0, <1>1, Lengths DEF ModelForward
  <2> HIDE DEF ops
  <2> QED BY <1>0, <2>2, <2>3, EnqueueAppends DEF AppendsNoJob
<1>2. CASE LaunchStep
  <2> DEFINE ops == StageStepOps(nextSlot)
  <2>1. ops \in Seq(OpType) /\ \A h \in 1 .. Len(ops) : ops[h].kind # "train"
    <3>1. nextSlot \in SlotIds /\ step \in Steps
      BY <1>0 DEF TypeOK
    <3>2. /\ WaitFor(event[<<"slot_train_done", nextSlot>>]) \in OpType
          /\ Kernel("lease_src", nextSlot, step) \in OpType
          /\ Kernel("lease_tgt", nextSlot, step) \in OpType
      BY <1>0, <3>1, OpsType DEF EventNames
    <3>3. /\ WaitFor(event[<<"slot_train_done", nextSlot>>]).kind = "wait"
          /\ Kernel("lease_src", nextSlot, step).kind = "lease_src"
          /\ Kernel("lease_tgt", nextSlot, step).kind = "lease_tgt"
      BY DEF WaitFor, Kernel
    <3> QED BY <3>2, <3>3 DEF StageStepOps
  <2>2. Enqueue(Main, ops) /\ Main \in Streams /\ UNCHANGED deviceVars
    BY <1>0, <1>2, Lengths DEF LaunchStep
  <2> HIDE DEF ops
  <2> QED BY <1>0, <2>1, <2>2, EnqueueAppends DEF AppendsNoJob
<1>3. CASE LaunchForward
  <2> DEFINE producer == Recorded(Main, 0)
             ops      == StageSourceOps(nextSlot, producer)
  <2>1. ops \in Seq(OpType) /\ \A h \in 1 .. Len(ops) : ops[h].kind # "train"
    <3>1. nextSlot \in SlotIds /\ step \in Steps /\ Main \in Streams
      BY <1>0, Lengths DEF TypeOK
    <3>2. /\ WaitFor(event[<<"slot_train_done", nextSlot>>]) \in OpType
          /\ WaitFor(producer) \in OpType
          /\ Kernel("copy_src", nextSlot, step) \in OpType
      BY <1>0, <3>1, OpsType, RecordedType DEF EventNames
    <3>3. /\ WaitFor(event[<<"slot_train_done", nextSlot>>]).kind = "wait"
          /\ WaitFor(producer).kind = "wait"
          /\ Kernel("copy_src", nextSlot, step).kind = "copy_src"
      BY DEF WaitFor, Kernel
    <3> HIDE DEF producer
    <3> QED BY <3>2, <3>3 DEF StageSourceOps
  <2>2. Enqueue(ForwardStream, ops) /\ ForwardStream \in Streams /\ UNCHANGED deviceVars
    BY <1>0, <1>3, OpsType DEF LaunchForward
  <2> HIDE DEF ops
  <2> QED BY <1>0, <2>1, <2>2, EnqueueAppends DEF AppendsNoJob
<1>4. CASE LaunchTarget
  <2> DEFINE producer == Recorded(Main, 0)
             ops      == StageTargetOps(current, producer)
  <2>1. ops \in Seq(OpType) /\ \A h \in 1 .. Len(ops) : ops[h].kind # "train"
    <3>1. current \in SlotIds /\ step \in Steps /\ Main \in Streams
      BY <1>0, <1>4, Lengths DEF TypeOK, LaunchTarget
    <3>2. WaitFor(producer) \in OpType /\ Kernel("copy_tgt", current, step) \in OpType
      BY <1>0, <3>1, OpsType, RecordedType
    <3>3. WaitFor(producer).kind = "wait" /\ Kernel("copy_tgt", current, step).kind = "copy_tgt"
      BY DEF WaitFor, Kernel
    <3> HIDE DEF producer
    <3> QED BY <3>2, <3>3 DEF StageTargetOps
  <2>2. Enqueue(ForwardStream, ops) /\ ForwardStream \in Streams /\ UNCHANGED deviceVars
    BY <1>0, <1>4, OpsType DEF LaunchTarget
  <2> HIDE DEF ops
  <2> QED BY <1>0, <2>1, <2>2, EnqueueAppends DEF AppendsNoJob
<1>5. ASSUME NEW outcome \in Outcomes, LaunchDelayedBackward(outcome)
      PROVE  UNCHANGED deviceVars /\ (AppendsNoJob \/ AppendsJob)
  <2> DEFINE ops == DrainOps(ready, outcome)
             ws  == WaitFor(event[<<"src_staged", ready>>])
             wt  == WaitFor(event[<<"tgt_done", ready>>])
             kop == TrainKernel(ready, launched)
  <2>1. /\ Enqueue(TrainStream, ops) /\ TrainStream \in Streams /\ UNCHANGED deviceVars
        /\ ready \in SlotIds /\ launched \in Steps /\ ready # None
    BY <1>0, <1>5, Lengths DEF LaunchDelayedBackward, TrainStream, TypeOK, Streams
  <2>2. kop \in OpType /\ ws \in OpType /\ wt \in OpType
    BY <1>0, <2>1, OpsType DEF EventNames
  <2>3. ws.kind = "wait" /\ wt.kind = "wait" /\ kop.kind = "train" /\ kop.step = launched
    BY DEF WaitFor, TrainKernel
  <2>4. ops = IF outcome = "trains" THEN <<ws, wt>> \o <<kop>> ELSE <<ws, wt>>
    BY DEF DrainOps, TrainWaits
  <2> HIDE DEF ws, wt, kop, ops
  <2>6. CASE outcome = "trains"
    <3>1. /\ ops \in Seq(OpType) /\ Len(ops) = 3 /\ ops[1].kind # "train" /\ ops[2].kind # "train"
          /\ ops[3].kind = "train" /\ ops[3].step = launched
      BY <2>2, <2>3, <2>4, <2>6
    <3>2. Appended(TrainStream, ops)
      BY <1>0, <2>1, <3>1, EnqueueAppends
    <3> QED BY <2>1, <3>1, <3>2 DEF AppendsJob
  <2>7. CASE outcome # "trains"
    <3>1. ops \in Seq(OpType) /\ \A h \in 1 .. Len(ops) : ops[h].kind # "train"
      BY <2>2, <2>3, <2>4, <2>7
    <3>2. Appended(TrainStream, ops)
      BY <1>0, <2>1, <3>1, EnqueueAppends
    <3> QED BY <2>1, <3>1, <3>2 DEF AppendsNoJob
  <2> QED BY <2>6, <2>7
<1>6. ASSUME NEW outgrown \in Outgrows, EnsureResources(outgrown) PROVE UNCHANGED <<deviceVars, log>>
  BY <1>6 DEF EnsureResources
<1>7. ASSUME NEW b \in BOOLEAN, SetEnabled(b) PROVE UNCHANGED <<deviceVars, log>>
  BY <1>7 DEF SetEnabled
<1>8. ASSUME NEW m \in Modes, NEW b \in BOOLEAN, NEW reshape \in BOOLEAN, Configure(m, b, reshape)
      PROVE  UNCHANGED <<deviceVars, log>>
  BY <1>8 DEF Configure
<1>9. CASE ReadAndResetStats
  BY <1>9 DEF ReadAndResetStats
<1> QED BY <1>1, <1>2, <1>3, <1>4, <1>5, <1>6, <1>7, <1>8, <1>9 DEF Host

\* Without an append jobs stay in the order of their steps.
LEMMA StillAscending == TrainsAscend /\ UNCHANGED log => TrainsAscend'
  BY DEF TrainsAscend, Positions

\* An append of at most one job, later than those of its stream, keeps them ascending.
LEMMA AppendedAscends ==
  ASSUME TypeOK, TrainsAscend, NEW x \in Streams, NEW ops \in Seq(OpType), Appended(x, ops),
         \A h \in 1 .. Len(ops) : ops[h].kind = "train" => \A i \in Positions(x) :
             log[x][i].kind = "train" => log[x][i].step < ops[h].step,
         \A g, h \in 1 .. Len(ops) : ops[g].kind = "train" /\ ops[h].kind = "train" => g = h
  PROVE  TrainsAscend'
<1>1. OldOrNew(x, ops) /\ Len(log[x]) \in Nat
  BY AppendedGrows, Lengths
<1>2. SUFFICES ASSUME NEW s \in Streams, NEW i \in 1 .. Len(log'[s]), NEW j \in 1 .. Len(log'[s]),
                      log'[s][i].kind = "train", log'[s][j].kind = "train", i < j
               PROVE  log'[s][i].step < log'[s][j].step
  BY DEF TrainsAscend, Positions
<1>3. CASE i \in Positions(s) /\ log'[s][i] = log[s][i] /\ j \in Positions(s) /\ log'[s][j] = log[s][j]
  BY <1>2, <1>3 DEF TrainsAscend
<1>4. CASE ~(i \in Positions(s) /\ log'[s][i] = log[s][i])
  <2>1. s = x
    BY <1>1, <1>4 DEF OldOrNew
  <2>2. PICK h \in 1 .. Len(ops) : i = Len(log[x]) + h /\ log'[s][i] = ops[h]
    BY <1>1, <1>4, <2>1 DEF OldOrNew
  <2>3. ~(j \in Positions(x))
    BY <1>1, <1>2, <2>1, <2>2 DEF Positions
  <2>4. PICK g \in 1 .. Len(ops) : j = Len(log[x]) + g /\ log'[s][j] = ops[g]
    BY <1>1, <2>1, <2>3 DEF OldOrNew
  <2>5. g = h
    BY <1>2, <2>2, <2>4
  <2> QED BY <1>1, <1>2, <2>2, <2>4, <2>5
<1>5. CASE i \in Positions(s) /\ log'[s][i] = log[s][i] /\ ~(j \in Positions(s) /\ log'[s][j] = log[s][j])
  <2>1. s = x
    BY <1>1, <1>5 DEF OldOrNew
  <2>2. PICK h \in 1 .. Len(ops) : j = Len(log[x]) + h /\ log'[s][j] = ops[h]
    BY <1>1, <1>5, <2>1 DEF OldOrNew
  <2> QED BY <1>2, <1>5, <2>1, <2>2
<1> QED BY <1>3, <1>4, <1>5

\* Jobs stay in the order of their steps.
LEMMA AscendKept == IInv /\ TrainsAscend /\ [Next]_vars => TrainsAscend'
<1> SUFFICES ASSUME IInv, TrainsAscend, [Next]_vars PROVE TrainsAscend'
  OBVIOUS
<1>0. TypeOK /\ Placed
  BY DEF IInv, OrdInv
<1>1. ASSUME AppendsNoJob PROVE TrainsAscend'
  <2>1. PICK x \in Streams : \E ops \in Seq(OpType) :
            Appended(x, ops) /\ \A h \in 1 .. Len(ops) : ops[h].kind # "train"
    BY <1>1 DEF AppendsNoJob
  <2>2. PICK ops \in Seq(OpType) : Appended(x, ops) /\ \A h \in 1 .. Len(ops) : ops[h].kind # "train"
    BY <2>1
  <2> QED BY <1>0, <2>2, AppendedAscends
<1>2. ASSUME AppendsJob PROVE TrainsAscend'
  <2>1. PICK x \in Streams : \E ops \in Seq(OpType) :
           /\ Appended(x, ops) /\ Len(ops) = 3
           /\ ops[1].kind # "train" /\ ops[2].kind # "train"
           /\ ops[3].kind = "train" /\ ops[3].step = launched /\ ready # None
    BY <1>2 DEF AppendsJob
  <2>2. PICK ops \in Seq(OpType) :
           /\ Appended(x, ops) /\ Len(ops) = 3
           /\ ops[1].kind # "train" /\ ops[2].kind # "train"
           /\ ops[3].kind = "train" /\ ops[3].step = launched /\ ready # None
    BY <2>1
  <2>3. \A h \in 1 .. Len(ops) : h = 3 \/ ops[h].kind # "train"
    BY <2>2
  <2>4. \A i \in Positions(x) : log[x][i].kind = "train" => log[x][i].step < launched
    BY <1>0, <2>2 DEF Placed
  <2>5. /\ \A h \in 1 .. Len(ops) : ops[h].kind = "train" => \A i \in Positions(x) :
             log[x][i].kind = "train" => log[x][i].step < ops[h].step
        /\ \A g, h \in 1 .. Len(ops) : ops[g].kind = "train" /\ ops[h].kind = "train" => g = h
    BY <2>2, <2>3, <2>4
  <2> QED BY <1>0, <2>2, <2>5, AppendedAscends
<1>3. ASSUME NEW s \in Streams, Run(s) PROVE TrainsAscend'
  BY <1>3, StillAscending DEF Run
<1>4. UNCHANGED vars => TrainsAscend'
  BY StillAscending DEF vars
<1> QED BY <1>1, <1>2, <1>3, <1>4, HostEnqueues, StillAscending DEF Next

\* The order holds in every reachable state.
LEMMA OrderAlways ==
  ASSUME PipelineFits
  PROVE  Spec => [](IInv /\ TrainsAscend)
<1>1. Init => IInv /\ TrainsAscend
  <2>1. Init => TrainsAscend
    BY DEF Init, TrainsAscend, Positions
  <2> QED BY <2>1, InitTypeOK, InitOrders DEF IInv
<1>2. IInv /\ TrainsAscend /\ [Next]_vars => (IInv /\ TrainsAscend)'
  <2>1. TypeOK /\ UNCHANGED vars => TypeOK'
    BY DEF TypeOK, vars
  <2>2. IInv /\ [Next]_vars => TypeOK'
    BY <2>1, HostTypeOK, DeviceTypeOK DEF Next, IInv
  <2>3. IInv /\ [Next]_vars => OrdInv'
    BY HostKeeps, RunKeeps, StutterOrders DEF Next
  <2> QED BY <2>2, <2>3, AscendKept DEF IInv
<1> QED BY <1>1, <1>2, PTL DEF Spec

\* In every reachable state each enqueued operation is ordered behind all it must follow.
THEOREM AlwaysOrdered ==
  ASSUME PipelineFits
  PROVE  Spec => []PipelineInv
<1>1. IInv /\ TrainsAscend => PipelineInv
  BY DEF IInv, PipelineInv
<1> QED BY <1>1, OrderAlways, PTL

-----------------------------------------------------------------------------
\* A job that runs is recorded with its own rows.
LEMMA RunKeepsOwnRows ==
  ASSUME IInv, TrainsItsOwnRows, NEW s \in Streams, Run(s)
  PROVE  TrainsItsOwnRows'
<1>1. TypeOK
  BY DEF IInv
<1>2. CASE HeadOf(s).kind = "train"
  <2> DEFINE job == [job |-> HeadOf(s).step, src |-> HeadOf(s).step, tgt |-> HeadOf(s).step]
  <2>1. trained' = Append(trained, job)
    BY <1>2, RunTrains
  <2>2. /\ Len(trained) \in Nat /\ DOMAIN trained = 1 .. Len(trained) /\ DOMAIN trained' = 1 .. Len(trained) + 1
        /\ \A i \in 1 .. Len(trained) : trained'[i] = trained[i]
        /\ trained'[Len(trained) + 1] = job
    <3>1. trained \in Seq([job : Steps, src : Steps, tgt : Steps])
      BY <1>1 DEF TypeOK
    <3>2. HeadOf(s).step \in Steps
      BY <1>2, Ran DEF OpType
    <3>3. job \in [job : Steps, src : Steps, tgt : Steps]
      BY <3>2
    <3> HIDE DEF job
    <3> QED BY <2>1, <3>1, <3>3
  <2>3. job.src = job.job /\ job.tgt = job.job
    OBVIOUS
  <2> HIDE DEF job
  <2>4. \A i \in DOMAIN trained' : i \in DOMAIN trained \/ i = Len(trained) + 1
    BY <2>2
  <2> QED BY <2>2, <2>3, <2>4 DEF TrainsItsOwnRows
<1>3. CASE HeadOf(s).kind # "train"
  BY <1>3, RunTrains DEF TrainsItsOwnRows
<1> QED BY <1>2, <1>3

\* Every job is trained on the source and the target rows of its own step, for every number
\* of slots, whichever modes, calls, failures and reconfigurations came before.
THEOREM OwnRowsAlwaysTrained ==
  ASSUME PipelineFits
  PROVE  Spec => []TrainsItsOwnRows
<1>1. Init => TrainsItsOwnRows
  BY DEF Init, TrainsItsOwnRows
<1>2. IInv /\ TrainsItsOwnRows /\ [Next]_vars => TrainsItsOwnRows'
  <2>1. ASSUME UNCHANGED trained, TrainsItsOwnRows PROVE TrainsItsOwnRows'
    BY <2>1 DEF TrainsItsOwnRows
  <2>2. IInv /\ Host => UNCHANGED trained
    BY HostEnqueues DEF deviceVars
  <2>3. UNCHANGED vars => UNCHANGED trained
    BY DEF vars
  <2> QED BY <2>1, <2>2, <2>3, RunKeepsOwnRows DEF Next
<1> QED BY <1>1, <1>2, OrderAlways, PTL DEF Spec

-----------------------------------------------------------------------------
\* A copy and a job of the same slot are never at the head of two streams at once.
LEMMA StageTrainApart ==
  ASSUME IInv, NEW s \in Streams, NEW t \in Streams, Busy(s), Busy(t),
         NEW K \in {SrcKinds, TgtKinds}, HeadOf(s).kind \in K, HeadOf(t).kind = "train",
         HeadOf(s).slot = HeadOf(t).slot
  PROVE  FALSE
<1> DEFINE a == HeadOf(s)
           b == HeadOf(t)
<1>1. TypeOK /\ TrainIsStaged /\ Placed /\ K \subseteq StageKinds
  BY DEF IInv, OrdInv, StageKinds
<1>2. /\ done[s] + 1 \in Positions(s) /\ a = log[s][done[s] + 1] /\ done[s] \in Nat
      /\ done[t] + 1 \in Positions(t) /\ b = log[t][done[t] + 1] /\ done[t] \in Nat
  BY <1>1, Lengths DEF Busy, HeadOf, Positions
<1>3. a.step \in Nat /\ b.step \in Nat /\ a.kind \in StageKinds
  BY <1>1, <1>2 DEF Placed
<1> HIDE DEF a, b
<1>4. ~(done[s] + 1 <= done[s]) /\ ~(done[t] + 1 <= done[t])
  BY <1>2
<1>5. CASE b.step < a.step
  <2>1. MustFollow(a, t, b)
    BY <1>3, <1>5 DEF MustFollow, a, b
  <2> QED BY <1>2, <1>4, <2>1, HeadFollows DEF a
<1>6. CASE b.step = a.step
  <2>1. MustFollow(b, s, a)
    BY <1>3, <1>6 DEF MustFollow, a, b
  <2> QED BY <1>2, <1>4, <2>1, HeadFollows DEF b
<1>7. CASE a.step < b.step
  <2>1. PICK u \in Streams : \E j \in Positions(u) :
           log[u][j].kind \in K /\ log[u][j].slot = b.slot /\ log[u][j].step = b.step
    BY <1>1, <1>2 DEF TrainIsStaged, b
  <2>2. PICK j \in Positions(u) : log[u][j].kind \in K /\ log[u][j].slot = b.slot /\ log[u][j].step = b.step
    BY <2>1
  <2>3. MustFollow(b, u, log[u][j])
    BY <1>1, <2>2 DEF MustFollow, b
  <2>4. j <= done[u]
    BY <2>3, HeadFollows DEF b
  <2>5. MustFollow(log[u][j], s, a)
    BY <1>7, <2>2 DEF MustFollow, a, b
  <2> QED BY <2>4, <2>5, HeadIsFirst DEF a
<1> QED BY <1>3, <1>5, <1>6, <1>7

\* Neither are two copies into the same buffer of a slot.
LEMMA StagesApart ==
  ASSUME IInv, NEW s \in Streams, NEW t \in Streams, s # t, Busy(s), Busy(t),
         NEW K \in {SrcKinds, TgtKinds}, HeadOf(s).kind \in K, HeadOf(t).kind \in K,
         HeadOf(s).slot = HeadOf(t).slot
  PROVE  FALSE
<1> DEFINE a == HeadOf(s)
           b == HeadOf(t)
<1>1. TypeOK /\ Unique /\ Placed /\ K \subseteq StageKinds
  BY DEF IInv, OrdInv, StageKinds
<1>2. /\ done[s] + 1 \in Positions(s) /\ a = log[s][done[s] + 1] /\ done[s] \in Nat
      /\ done[t] + 1 \in Positions(t) /\ b = log[t][done[t] + 1] /\ done[t] \in Nat
  BY <1>1, Lengths DEF Busy, HeadOf, Positions
<1>3. a.step \in Nat /\ b.step \in Nat
  BY <1>1, <1>2 DEF Placed
<1>4. ~(done[s] + 1 <= done[s]) /\ ~(done[t] + 1 <= done[t])
  BY <1>2
<1>5. a.step # b.step
  BY <1>1, <1>2 DEF Unique, Kinds
<1> HIDE DEF a, b
<1>6. CASE b.step < a.step
  <2>1. MustFollow(a, t, b)
    BY <1>6 DEF MustFollow, a, b
  <2> QED BY <1>2, <1>4, <2>1, HeadFollows DEF a
<1>7. CASE a.step < b.step
  <2>1. MustFollow(b, s, a)
    BY <1>7 DEF MustFollow, a, b
  <2> QED BY <1>2, <1>4, <2>1, HeadFollows DEF b
<1> QED BY <1>3, <1>5, <1>6, <1>7

\* TrainIsStaged, for one job.
LEMMA OwnStage ==
  ASSUME TrainIsStaged, NEW s \in Streams, NEW i \in Positions(s), log[s][i].kind = "train",
         NEW K \in {SrcKinds, TgtKinds}
  PROVE  \E t \in Streams : \E j \in Positions(t) :
           log[t][j].kind \in K /\ log[t][j].slot = log[s][i].slot /\ log[t][j].step = log[s][i].step
  BY DEF TrainIsStaged

\* A job is trained only when it is the oldest still to train.
LEMMA OldestIsTrained ==
  ASSUME IInv, TrainsAscend, NEW s \in Streams, Busy(s), HeadOf(s).kind = "train",
         NEW t \in Streams, NEW j \in Positions(t), done[t] < j, log[t][j].kind = "train"
  PROVE  HeadOf(s).step <= log[t][j].step
<1> DEFINE a == HeadOf(s)
           b == log[t][j]
<1>1. TypeOK /\ Placed /\ TrainIsStaged /\ SideInv /\ OrderInv /\ WaitsHeld
  BY DEF IInv, OrdInv
<1>2. /\ done[s] + 1 \in Positions(s) /\ a = log[s][done[s] + 1] /\ done[s] \in Nat
      /\ j \in Nat /\ done[t] \in Nat /\ s \in {Main} \cup Side /\ t \in {Main} \cup Side /\ Main \in Streams
      /\ Len(log[s]) \in Nat /\ Len(log[t]) \in Nat
  BY <1>1, Lengths DEF Busy, HeadOf, Positions, Streams
<1>3. a.step \in Nat /\ b.step \in Nat
  BY SMTT(30), <1>1, <1>2 DEF Placed
<1> HIDE DEF a, b
<1>4. SUFFICES ASSUME b.step < a.step PROVE FALSE
  BY <1>3 DEF a, b
<1>5. CASE t = Main
  <2>0. a.kind = "train" /\ SrcKinds \in {SrcKinds, TgtKinds}
    BY DEF a
  <2>1. PICK u \in Streams : \E i \in Positions(u) :
           log[u][i].kind \in SrcKinds /\ log[u][i].slot = a.slot /\ log[u][i].step = a.step
    BY <1>1, <1>2, <2>0, OwnStage
  <2>2. PICK i \in Positions(u) : log[u][i].kind \in SrcKinds /\ log[u][i].slot = a.slot /\ log[u][i].step = a.step
    BY <2>1
  <2>3. MustFollow(a, u, log[u][i])
    BY <2>2 DEF MustFollow, a, StageKinds
  <2>4. i <= done[u]
    BY <2>3, HeadFollows DEF a
  <2>5. MustFollow(log[u][i], t, b)
    BY <1>4, <1>5, <2>2 DEF MustFollow, b, StageKinds
  <2>6. Ordered(log, done, u, i, t, j)
    BY <1>1, <2>5 DEF OrderInv, Ordered, b
  <2>7. i <= done[u] + 1
    BY <1>1, <2>4, Lengths DEF Positions
  <2>8. j <= done[t]
    BY <1>1, <2>6, <2>7, OrderedRan
  <2> QED BY <1>2, <2>8
<1>6. CASE t \in Side /\ s \in Side
  <2>1. j \in done[t] + 1 .. Len(log[t]) /\ done[s] + 1 \in done[s] + 1 .. Len(log[s])
    BY <1>2 DEF Positions
  <2>2. t = trnStream /\ s = trnStream
    BY <1>1, <1>2, <1>6, <2>1 DEF SideInv, a
  <2>3. done[s] + 1 <= j
    BY <1>2, <2>2
  <2>4. CASE done[s] + 1 = j
    BY <1>2, <1>3, <1>4, <2>2, <2>4 DEF b
  <2>5. CASE done[s] + 1 < j
    <3>1. a.step < b.step
      BY <1>2, <2>2, <2>5 DEF TrainsAscend, a, b
    <3> QED BY <1>3, <1>4, <3>1
  <2> QED BY <1>2, <2>3, <2>4, <2>5
<1>7. CASE t \in Side /\ s = Main
  <2>1. j \in done[t] + 1 .. Len(log[t])
    BY <1>2 DEF Positions
  <2>2. \A i \in Positions(Main) : log[Main][i].kind = "train" => log[Main][i].step < log[t][j].step
    BY <1>1, <1>7, <2>1 DEF SideInv
  <2>3. a.step < b.step
    BY <1>2, <1>7, <2>2 DEF a, b
  <2> QED BY <1>3, <1>4, <2>3
<1> QED BY <1>2, <1>5, <1>6, <1>7

\* Two jobs are never at the head of two streams at once.
LEMMA TrainsApart ==
  ASSUME IInv, TrainsAscend, NEW s \in Streams, NEW t \in Streams, s # t, Busy(s), Busy(t),
         HeadOf(s).kind = "train", HeadOf(t).kind = "train"
  PROVE  FALSE
<1>1. TypeOK /\ Unique /\ Placed
  BY DEF IInv, OrdInv
<1>2. /\ done[s] + 1 \in Positions(s) /\ HeadOf(s) = log[s][done[s] + 1] /\ done[s] < done[s] + 1
      /\ done[t] + 1 \in Positions(t) /\ HeadOf(t) = log[t][done[t] + 1] /\ done[t] < done[t] + 1
  BY <1>1, Lengths DEF Busy, HeadOf, Positions
<1>3. HeadOf(s).step \in Nat /\ HeadOf(t).step \in Nat
  BY <1>1, <1>2 DEF Placed
<1>4. HeadOf(s).step <= HeadOf(t).step /\ HeadOf(t).step <= HeadOf(s).step
  BY <1>2, OldestIsTrained
<1>5. HeadOf(s).step = HeadOf(t).step
  BY <1>3, <1>4
<1> QED BY <1>1, <1>2, <1>5 DEF Unique, Kinds

\* In an ordered pipeline no two kernels that may run at once conflict.
LEMMA RaceFree == IInv /\ TrainsAscend => NoDataRace
<1> SUFFICES ASSUME IInv, TrainsAscend, NEW s \in Streams, NEW t \in Streams, s # t, Busy(s), Busy(t)
             PROVE  Writes(HeadOf(s)) \cap (Reads(HeadOf(t)) \cup Writes(HeadOf(t))) = {}
  BY DEF NoDataRace
<1> DEFINE a == HeadOf(s)
           b == HeadOf(t)
<1>1. TypeOK /\ Placed
  BY DEF IInv, OrdInv
<1>2. /\ done[s] + 1 \in Positions(s) /\ a = log[s][done[s] + 1]
      /\ done[t] + 1 \in Positions(t) /\ b = log[t][done[t] + 1]
      /\ a \in OpType /\ b \in OpType
  BY <1>1, Lengths DEF Busy, HeadOf, Positions
<1>3. ~(a.kind = "tap" /\ b.kind \in {"tap", "lease_src", "lease_tgt"})
  BY <1>1, <1>2 DEF Placed
<1>4. \A K \in {SrcKinds, TgtKinds} :
        ~(a.kind \in K /\ b.kind = "train" /\ a.slot = b.slot)
  BY StageTrainApart
<1>5. \A K \in {SrcKinds, TgtKinds} :
        ~(a.kind \in K /\ b.kind \in K /\ a.slot = b.slot)
  BY StagesApart
<1>6. ~(a.kind = "train" /\ b.kind = "train")
  BY TrainsApart
<1> HIDE DEF a, b
<1>7. CASE a.kind = "tap"
  <2>1. Writes(a) = {<<"tap">>}
    BY <1>7 DEF Writes
  <2>2. <<"tap">> \notin Reads(b) /\ <<"tap">> \notin Writes(b)
    BY <1>3, <1>7 DEF Reads, Writes
  <2> QED BY <2>1, <2>2 DEF a, b
<1>8. CASE a.kind \in SrcKinds
  <2>1. Writes(a) = {<<"src", a.slot>>}
    BY <1>8 DEF Writes, SrcKinds
  <2>2. <<"src", a.slot>> \notin Reads(b) /\ <<"src", a.slot>> \notin Writes(b)
    BY <1>4, <1>5, <1>8 DEF Reads, Writes, SrcKinds
  <2> QED BY <2>1, <2>2 DEF a, b
<1>9. CASE a.kind \in TgtKinds
  <2>1. Writes(a) = {<<"tgt", a.slot>>}
    BY <1>9 DEF Writes, TgtKinds
  <2>2. <<"tgt", a.slot>> \notin Reads(b) /\ <<"tgt", a.slot>> \notin Writes(b)
    BY <1>4, <1>5, <1>9 DEF Reads, Writes, TgtKinds
  <2> QED BY <2>1, <2>2 DEF a, b
<1>10. CASE a.kind = "train"
  <2>1. Writes(a) = {<<"parameters">>, <<"stats", a.stats>>}
    BY <1>10 DEF Writes
  <2>2. \A m \in Writes(a) : m \notin Reads(b) /\ m \notin Writes(b)
    BY <1>6, <1>10, <2>1 DEF Reads, Writes
  <2> QED BY <2>2 DEF a, b
<1>11. CASE a.kind \notin {"tap", "train"} \cup SrcKinds \cup TgtKinds
  <2>1. Writes(a) = {}
    BY <1>11 DEF Writes, SrcKinds, TgtKinds
  <2> QED BY <2>1 DEF a
<1> QED BY <1>7, <1>8, <1>9, <1>10, <1>11

\* No two kernels the device may run at once touch the same rows, parameters or accumulators
\* when one of them writes.
THEOREM NeverRaces ==
  ASSUME PipelineFits
  PROVE  Spec => []NoDataRace
  BY OrderAlways, RaceFree, PTL

\* Whenever a loss is read with sync=True, every job enqueued on its accumulators has run.
THEOREM StatsAlwaysComplete ==
  ASSUME PipelineFits
  PROVE  Spec => StatsReadIsComplete
<1>1. ASSUME IInv, ReadAndResetStats
      PROVE  \A s \in Streams : \A i \in TrainOps(s) : log[s][i].stats = statsBuffer => done[s] >= i
  <2>1. TypeOK /\ HostInv /\ Drained(SynchronizedStreams) /\ done[Main] = Len(log[Main])
    BY <1>1, Lengths DEF IInv, OrdInv, ReadAndResetStats, Drained, NoStream, Main
  <2>2. \A s \in Streams : done[s] = Len(log[s])
    BY <2>1, SidesDrained DEF Streams
  <2>3. \A s \in Streams : log[s] \in Seq(OpType) /\ Len(log[s]) \in Nat
    BY <2>1 DEF TypeOK
  <2>4. \A s \in Streams : \A i \in TrainOps(s) : i \in 1 .. Len(log[s])
    BY <2>3 DEF TrainOps
  <2> QED BY <2>2, <2>3, <2>4
<1>2. IInv /\ [Next]_vars => [ReadAndResetStats =>
       \A s \in Streams : \A i \in TrainOps(s) : log[s][i].stats = statsBuffer => done[s] >= i]_vars
  BY <1>1
<1> QED BY <1>2, OrderAlways, PTL DEF Spec, StatsReadIsComplete

-----------------------------------------------------------------------------
\* The steps the abstract queue has seen are the accepted jobs.
LEMMA SeenIsAccepted == IInv => Queue!Seen = Accepted
  BY DEF IInv, OrdInv, HistoryInv, Queue!Seen, Waiting, TrainedJobs

\* A call that enqueues no job leaves the abstract queue alone.
LEMMA NoJobStutters == IInv /\ AppendsNoJob /\ TypeOK' => Accepted' = Accepted
<1> SUFFICES ASSUME IInv, AppendsNoJob, TypeOK' PROVE Accepted' = Accepted
  OBVIOUS
<1>1. PICK x \in Streams : \E ops \in Seq(OpType) :
          Appended(x, ops) /\ \A h \in 1 .. Len(ops) : ops[h].kind # "train"
  BY DEF AppendsNoJob
<1>2. PICK ops \in Seq(OpType) : Appended(x, ops) /\ \A h \in 1 .. Len(ops) : ops[h].kind # "train"
  BY <1>1
<1>3. TypeOK /\ log' \in [Streams -> Seq(OpType)]
  BY DEF IInv, TypeOK
<1>4. \A n : n \in Accepted' <=> n \in Accepted
  BY <1>2, <1>3, AppendedAccepted
<1> QED BY <1>4

\* Enqueueing a job is the abstract queue accepting it: it is later than all before it.
LEMMA JobIsAccepted ==
  ASSUME IInv, AppendsJob, TypeOK', UNCHANGED trained
  PROVE  launched \in 1 .. MaxSteps /\ Queue!Accept(launched)
<1>1. PICK x \in Streams : \E ops \in Seq(OpType) :
         /\ Appended(x, ops) /\ Len(ops) = 3
         /\ ops[1].kind # "train" /\ ops[2].kind # "train"
         /\ ops[3].kind = "train" /\ ops[3].step = launched /\ ready # None
  BY DEF AppendsJob
<1>2. PICK ops \in Seq(OpType) :
         /\ Appended(x, ops) /\ Len(ops) = 3
         /\ ops[1].kind # "train" /\ ops[2].kind # "train"
         /\ ops[3].kind = "train" /\ ops[3].step = launched /\ ready # None
  BY <1>1
<1>3. TypeOK /\ Placed /\ HostInv /\ HistoryInv /\ log' \in [Streams -> Seq(OpType)]
  BY DEF IInv, OrdInv, TypeOK
<1>4. \A n : n \in Accepted' <=> n \in Accepted \/ \E h \in 1 .. Len(ops) : ops[h].kind = "train" /\ ops[h].step = n
  BY <1>2, <1>3, AppendedAccepted
<1>5. \A n : (\E h \in 1 .. Len(ops) : ops[h].kind = "train" /\ ops[h].step = n) <=> n = launched
  <2>1. \A h \in 1 .. Len(ops) : h = 3 \/ ops[h].kind # "train"
    BY <1>2
  <2>2. 3 \in 1 .. Len(ops)
    BY <1>2
  <2> QED BY <1>2, <2>1, <2>2
<1>6. Accepted' = Accepted \cup {launched}
  <2>1. \A n : n \in Accepted' <=> n \in Accepted \cup {launched}
    BY <1>4, <1>5
  <2> QED BY <2>1
<1>7. \A n \in Accepted : n < launched
  <2>1. SUFFICES ASSUME NEW n \in Accepted PROVE n < launched
    OBVIOUS
  <2>2. PICK s \in Streams : \E i \in Positions(s) : log[s][i].kind = "train" /\ log[s][i].step = n
    BY AcceptedJobs
  <2>3. PICK i \in Positions(s) : log[s][i].kind = "train" /\ log[s][i].step = n
    BY <2>2
  <2> QED BY <1>2, <1>3, <2>3 DEF Placed
<1>8. launched \in 1 .. MaxSteps
  BY <1>2, <1>3, BoundsAssumption DEF TypeOK, HostInv, Steps
<1>9. TrainedJobs' = TrainedJobs /\ TrainedJobs \subseteq Accepted
  BY <1>3 DEF TrainedJobs, HistoryInv
<1>10. ~(launched < launched)
  BY <1>8
<1>11. Waiting' = Waiting \cup {launched}
  BY <1>6, <1>7, <1>9, <1>10 DEF Waiting
<1>12. \A n \in Queue!Seen : n < launched
  BY <1>7, SeenIsAccepted
<1> QED BY <1>8, <1>11, <1>12 DEF Queue!Accept

\* Running a job is the abstract queue training its oldest; other operations leave it alone.
LEMMA RunImplements ==
  ASSUME IInv, TrainsAscend, NEW s \in Streams, Run(s)
  PROVE  \/ \E n \in 1 .. MaxSteps : Queue!Train(n)
         \/ UNCHANGED <<Waiting, trained>>
<1> DEFINE n == HeadOf(s).step
<1>1. /\ TypeOK /\ Placed /\ HistoryInv /\ Busy(s) /\ done[s] \in Nat /\ done[s] + 1 \in Positions(s)
      /\ HeadOf(s) = log[s][done[s] + 1]
      /\ Accepted' = Accepted
  BY Ran DEF IInv, OrdInv, Accepted, TrainOps
<1>2. CASE HeadOf(s).kind = "train"
  <2>1. trained' = Append(trained, [job |-> n, src |-> n, tgt |-> n]) /\ TrainedJobs' = TrainedJobs \cup {n}
    BY <1>2, RunTrains
  <2>2. n \in Accepted
    BY <1>1, <1>2, AcceptedJobs
  <2>3. n \notin TrainedJobs
    <3>1. ~(done[s] + 1 <= done[s])
      BY <1>1
    <3> QED BY <1>1, <1>2, <3>1 DEF HistoryInv
  <2>4. ASSUME NEW k \in Waiting PROVE n <= k
    <3>1. k \in Accepted /\ k \notin TrainedJobs
      BY <2>4 DEF Waiting
    <3>2. PICK t \in Streams : \E j \in Positions(t) : log[t][j].kind = "train" /\ log[t][j].step = k
      BY <3>1, AcceptedJobs
    <3>3. PICK j \in Positions(t) : log[t][j].kind = "train" /\ log[t][j].step = k
      BY <3>2
    <3>4. ~(j <= done[t])
      BY <1>1, <3>1, <3>3 DEF HistoryInv
    <3>5. done[t] < j
      BY <1>1, <3>4, Lengths DEF Positions
    <3> QED BY <1>1, <1>2, <3>3, <3>5, OldestIsTrained
  <2>5. Waiting' = Waiting \ {n} /\ n \in Waiting
    BY <1>1, <2>1, <2>2, <2>3 DEF Waiting
  <2>6. n \in 1 .. MaxSteps
    BY SMTT(30), <1>1, <1>2, BoundsAssumption DEF Placed, TypeOK, Steps
  <2> HIDE DEF n
  <2>7. Queue!Train(n)
    BY <2>1, <2>4, <2>5 DEF Queue!Train
  <2> QED BY <2>6, <2>7
<1>3. CASE HeadOf(s).kind # "train"
  BY <1>1, <1>3, RunTrains DEF Waiting
<1> QED BY <1>2, <1>3

\* The pipeline implements TrainingQueue: however far the host is ahead and however the
\* streams interleave, jobs are trained one at a time, each once, oldest first, on their own rows.
THEOREM PipelineImplementsQueue ==
  ASSUME PipelineFits
  PROVE  Spec => ImplementsTrainingQueue
<1>1. Init => Queue!Init
  <2>1. Init => Accepted = {}
    BY InitOrders, AcceptedJobs DEF Init, Accepted, TrainOps
  <2> QED BY <2>1 DEF Init, Queue!Init, Waiting
<1>2. IInv /\ TrainsAscend /\ IInv' /\ [Next]_vars => [Queue!Next]_<<Waiting, trained>>
  <2> SUFFICES ASSUME IInv, TrainsAscend, IInv', [Next]_vars
               PROVE  Queue!Next \/ UNCHANGED <<Waiting, trained>>
    OBVIOUS
  <2>0. TypeOK'
    BY DEF IInv
  <2>1. CASE Host
    <3>1. UNCHANGED <<trained, TrainedJobs>>
      BY <2>1, HostEnqueues DEF deviceVars, TrainedJobs
    <3>2. UNCHANGED log => UNCHANGED Accepted
      BY DEF Accepted, TrainOps
    <3>3. AppendsNoJob => UNCHANGED Accepted
      BY <2>0, NoJobStutters
    <3>4. AppendsJob => Queue!Next
      BY <2>0, <3>1, JobIsAccepted DEF Queue!Next
    <3> QED BY <2>1, <3>1, <3>2, <3>3, <3>4, HostEnqueues DEF Waiting
  <2>2. ASSUME NEW s \in Streams, Run(s) PROVE Queue!Next \/ UNCHANGED <<Waiting, trained>>
    BY <2>2, RunImplements DEF Queue!Next
  <2>3. CASE UNCHANGED vars
    BY <2>3 DEF vars, Waiting, Accepted, TrainOps, TrainedJobs
  <2> QED BY <2>1, <2>2, <2>3 DEF Next
<1> QED BY <1>1, <1>2, OrderAlways, PTL DEF Spec, ImplementsTrainingQueue, Queue!Spec
=============================================================================
