------------------------ MODULE DispatchExportProofs ------------------------
(***************************************************************************)
(* The export consumer under the calls the runtime makes: proved for every *)
(* set of consumers, flows, batches and bounds.                            *)
(***************************************************************************)
EXTENDS DispatchExport, TLAPS

\* The steps the host counts stay within their bound, and one it has begun is within it.
StepInv ==
  /\ step \in 0 .. MaxSteps
  /\ phase \in {"entered", "preparing"} => step < MaxSteps

QueueTypeOK ==
  /\ queue \in Seq(Nat) /\ processed \in Seq(Nat)
  /\ consumed \in Nat /\ dropped \in Nat /\ feedback \in Nat

\* What is inductive: the books balance, and the queue is bounded.
ExportInv == QueueTypeOK /\ ExportAccounted

\* The host's step counter is kept by every step of the runtime (wrapped_prepare_inputs).
LEMMA StepInvStep ==
  ASSUME StepInv, Next PROVE StepInv'
<1> USE ExporterAssumption, DispatchBounds DEF StepInv
<1>1. ASSUME NEW c \in Consumers, Register(c) PROVE StepInv'
  BY <1>1 DEF Register, Refresh
<1>2. ASSUME NEW c \in Consumers, ReplaceConsumers(c) PROVE StepInv'
  BY <1>2 DEF ReplaceConsumers, Refresh
<1>3. ASSUME NEW c \in Consumers \cup {None}, SetRuntimeConsumer(c) PROVE StepInv'
  BY <1>3 DEF SetRuntimeConsumer, Refresh
<1>4. CASE Clear
  BY <1>4 DEF Clear, Refresh
<1>5. CASE Load
  BY <1>5 DEF Load
<1>6. CASE Loaded
  BY <1>6 DEF Loaded
<1>7. CASE SetupFails
  BY <1>7 DEF SetupFails
<1>8. CASE ExecuteModel
  BY <1>8 DEF ExecuteModel
<1>9. CASE PrepareInputs
  BY <1>9 DEF PrepareInputs
<1>10. ASSUME NEW batch \in Batches, Prepared(batch) PROVE StepInv'
  BY <1>10 DEF Prepared
<1>11. ASSUME NEW python \in BOOLEAN, Forward(python) PROVE StepInv'
  BY <1>11 DEF Forward
<1>12. CASE EndStep
  BY <1>12 DEF EndStep
<1>13. CASE Synchronize
  BY <1>13 DEF Synchronize
<1>14. CASE CallbackRaises
  BY <1>14 DEF CallbackRaises
<1>15. CASE Callback
  BY <1>15 DEF Callback
<1> QED
  BY <1>1, <1>2, <1>3, <1>4, <1>5, <1>6, <1>7, <1>8, <1>9, <1>10, <1>11, <1>12, <1>13,
     <1>14, <1>15 DEF Next, HostStep

\* A callback of the runtime, and every other step, keeps the counter.
LEMMA StepInvNext ==
  ASSUME StepInv, [ExportNext]_allVars PROVE StepInv'
<1>1. CASE HostStep
  BY <1>1, StepInvStep DEF Next
<1>2. CASE Callback
  BY <1>2, StepInvStep DEF Next
<1>3. CASE UNCHANGED allVars
  BY <1>3 DEF allVars, vars, StepInv
<1> QED
  BY <1>1, <1>2, <1>3 DEF ExportNext, CallExporter, CallOther

\* In every behaviour of the composition the counter is in range.
LEMMA StepAlwaysInRange == ExportSpec => []StepInv
<1>1. ExportInit => StepInv
  BY ExporterAssumption, DispatchBounds DEF ExportInit, Init, StepInv
<1> QED
  BY <1>1, StepInvNext, PTL DEF ExportSpec

-----------------------------------------------------------------------------
\* Appending to a sequence and moving all of one behind another, with their lengths.
LEMMA Lengths ==
  ASSUME NEW S, NEW s \in Seq(S), NEW t \in Seq(S), NEW e \in S
  PROVE  /\ Append(s, e) \in Seq(S) /\ Len(Append(s, e)) = Len(s) + 1
         /\ s \o t \in Seq(S) /\ Len(s \o t) = Len(s) + Len(t)
         /\ Len(s) \in Nat
         /\ Len(<<>>) = 0 /\ <<>> \in Seq(S)
  OBVIOUS

\* consume_bundle keeps the books: the batch is queued, or counted as dropped.
LEMMA ConsumeKeepsBooks ==
  ASSUME ExportInv, NEW s \in Nat, Export!ConsumeBundle(s) PROVE ExportInv'
<1> USE ExporterAssumption, DispatchBounds DEF ExportInv, QueueTypeOK, ExportAccounted, Export!Accounted,
                            Export!QueueBounded
<1>1. CASE s % Stride # 0
  BY <1>1 DEF Export!ConsumeBundle, Export!vars
<1>2. CASE s % Stride = 0 /\ ~ToCpu
  BY <1>2 DEF Export!ConsumeBundle
<1>3. CASE s % Stride = 0 /\ ToCpu /\ Async
  <2>1. CASE Len(queue) >= MaxQueue
    <3>1. /\ dropped' = dropped + 1 /\ consumed' = consumed + 1
          /\ UNCHANGED <<queue, processed, feedback>>
      BY <1>3, <2>1 DEF Export!ConsumeBundle, Export!StageAsync
    <3> QED
      BY <3>1, <1>3
  <2>2. CASE ~(Len(queue) >= MaxQueue)
    <3>1. /\ queue' = Append(queue, s) /\ consumed' = consumed + 1
          /\ UNCHANGED <<processed, dropped, feedback>>
      BY <1>3, <2>2 DEF Export!ConsumeBundle, Export!StageAsync
    <3> QED
      BY <3>1, <1>3, <2>2, Lengths
  <2> QED
    BY <2>1, <2>2
<1>4. CASE s % Stride = 0 /\ ToCpu /\ ~Async
  <2>1. queue = <<>> /\ queue' = <<>> /\ processed' = Append(processed, s)
        /\ consumed' = consumed + 1 /\ dropped' = dropped /\ feedback' = feedback
    BY SMTT(30), <1>4 DEF Export!ConsumeBundle, Export!StageNow
  <2> QED
    BY <2>1, <1>4, Lengths
<1> QED
  BY <1>1, <1>2, <1>3, <1>4

\* Draining moves what is queued to what is done.
LEMMA DrainKeepsBooks ==
  ASSUME ExportInv, Export!Drain, UNCHANGED <<consumed, dropped>>, feedback' \in Nat, Async
  PROVE  ExportInv'
  BY Lengths, ExporterAssumption, DispatchBounds
     DEF ExportInv, QueueTypeOK, ExportAccounted, Export!Accounted, Export!QueueBounded,
         Export!Drain

\* The ends of the steps and the synchronization keep the books.
LEMMA FeedbackKeepsBooks ==
  ASSUME ExportInv, Export!OnStepEnd \/ Export!Synchronize PROVE ExportInv'
<1>1. feedback' \in Nat /\ UNCHANGED <<consumed, dropped>>
  BY DEF ExportInv, QueueTypeOK, Export!OnStepEnd, Export!Synchronize
<1>2. (Async /\ Export!Drain) \/ UNCHANGED <<queue, processed>>
  BY DEF Export!OnStepEnd, Export!Synchronize
<1>3. CASE UNCHANGED <<queue, processed>>
  BY <1>1, <1>3
     DEF ExportInv, QueueTypeOK, ExportAccounted, Export!Accounted, Export!QueueBounded
<1> QED
  BY <1>1, <1>2, <1>3, DrainKeepsBooks

\* Every step of the composition keeps the books.
LEMMA BooksNext ==
  ASSUME StepInv, ExportInv, [ExportNext]_allVars PROVE ExportInv'
<1>1. CASE UNCHANGED exportVars
  BY <1>1 DEF exportVars, ExportInv, QueueTypeOK, ExportAccounted, Export!Accounted,
              Export!QueueBounded
<1>2. CASE CallExporter
  <2>1. step \in Nat
    BY ExporterAssumption, DispatchBounds DEF StepInv
  <2> QED
    BY <1>2, <2>1, ConsumeKeepsBooks, FeedbackKeepsBooks DEF CallExporter, Exported
<1> QED
  BY <1>1, <1>2 DEF ExportNext, CallOther, allVars

\* For every number of consumers, queue bound, stride and feedback interval: each batch
\* the exporter counted is queued, done or counted as dropped, and the queue keeps its
\* bound (DummyConsumer.read_stats under dispatch_decode_port_bundles).
THEOREM ExportAlwaysAccounted == ExportSpec => []ExportAccounted
<1>1. ExportInit => ExportInv
  BY ExporterAssumption, DispatchBounds
     DEF ExportInit, Export!Init, ExportInv, QueueTypeOK, ExportAccounted, Export!Accounted,
         Export!QueueBounded
<1>2. ExportInv => ExportAccounted
  BY DEF ExportInv
<1> QED
  BY <1>1, <1>2, BooksNext, StepAlwaysInRange, PTL DEF ExportSpec

\* The composition implements the exporter's own specification: whatever the runtime
\* calls it with, and when, each step is one of the exporter's or leaves it alone.
THEOREM ExportImplements == ExportSpec => Export!Spec
<1>1. ExportInit => Export!Init
  BY DEF ExportInit
<1>2. ASSUME StepInv, [ExportNext]_allVars PROVE [Export!Next]_(Export!vars)
  <2>1. CASE UNCHANGED exportVars
    BY <2>1 DEF exportVars, Export!vars
  <2>2. CASE CallExporter
    BY <1>2, <2>2 DEF CallExporter, Exported, Export!Next, StepInv
  <2> QED
    BY <1>2, <2>1, <2>2 DEF ExportNext, CallOther, allVars
<1> QED
  BY <1>1, <1>2, StepAlwaysInRange, PTL DEF ExportSpec, Export!Spec
-----------------------------------------------------------------------------
\* Batches in the order of their steps, none later than n, each of a step asked for.
InOrder(all, n) ==
  \A i \in DOMAIN all :
    /\ all[i] <= n /\ all[i] % Stride = 0
    /\ \A j \in 1 .. i - 1 : all[j] <= all[i]

\* A batch of the latest step asked for goes last.
LEMMA LatestGoesLast ==
  ASSUME NEW all \in Seq(Nat), NEW n \in Nat, InOrder(all, n), n % Stride = 0
  PROVE  InOrder(Append(all, n), n)
<1> DEFINE longer == Append(all, n)
<1>1. /\ DOMAIN all = 1 .. Len(all) /\ Len(all) \in Nat
      /\ DOMAIN longer = 1 .. Len(all) + 1
      /\ longer[Len(all) + 1] = n
      /\ \A i \in 1 .. Len(all) : longer[i] = all[i]
  OBVIOUS
<1> HIDE DEF longer
<1>2. ASSUME NEW i \in DOMAIN longer
      PROVE  /\ longer[i] <= n /\ longer[i] % Stride = 0
             /\ \A j \in 1 .. i - 1 : longer[j] <= longer[i]
  <2>1. \A j \in 1 .. Len(all) : all[j] <= n /\ longer[j] = all[j]
    BY <1>1 DEF InOrder
  <2>2. CASE i \in 1 .. Len(all)
    <3>1. /\ all[i] <= n /\ all[i] % Stride = 0
          /\ \A j \in 1 .. i - 1 : all[j] <= all[i] /\ j \in 1 .. Len(all)
      BY <1>1, <2>2 DEF InOrder
    <3> QED
      BY <2>1, <2>2, <3>1
  <2>3. CASE i = Len(all) + 1
    <3>1. \A j \in 1 .. i - 1 : j \in 1 .. Len(all)
      BY <1>1, <2>3
    <3>2. longer[i] = n
      BY <1>1, <2>3
    <3> QED
      BY <2>1, <3>1, <3>2
  <2> QED
    BY <1>1, <1>2, <2>2, <2>3
<1>3. InOrder(longer, n)
  BY <1>2 DEF InOrder
<1> QED
  BY <1>3 DEF longer

\* What the worker has done and what it still has to do, after either grew by a batch.
LEMMA Grown ==
  ASSUME NEW p \in Seq(Nat), NEW q \in Seq(Nat), NEW n \in Nat
  PROVE  /\ p \o Append(q, n) = Append(p \o q, n)
         /\ Append(p, n) \o <<>> = Append(p \o <<>>, n)
  OBVIOUS

\* ... and after one was moved behind the other.
LEMMA Moved ==
  ASSUME NEW p \in Seq(Nat), NEW q \in Seq(Nat)
  PROVE  (p \o q) \o <<>> = p \o q /\ p \o q \in Seq(Nat)
  OBVIOUS

\* consume_bundle keeps the order: the batch of this step goes last, or is dropped.
LEMMA ConsumeKeepsOrder ==
  ASSUME ExportInv, NEW s \in Nat, Export!ConsumeBundle(s), InOrder(processed \o queue, s)
  PROVE  InOrder(processed' \o queue', s)
<1> DEFINE all == processed \o queue
<1>1. processed \in Seq(Nat) /\ queue \in Seq(Nat)
  BY DEF ExportInv, QueueTypeOK
<1>2. \/ processed' \o queue' = all
      \/ s % Stride = 0 /\ processed' \o queue' = Append(all, s)
  <2>1. CASE s % Stride # 0
    BY <2>1 DEF Export!ConsumeBundle, Export!vars
  <2>2. CASE s % Stride = 0 /\ ~ToCpu
    BY <2>2 DEF Export!ConsumeBundle
  <2>3. CASE s % Stride = 0 /\ ToCpu /\ Async
    <3>1. UNCHANGED <<queue, processed>> \/ (queue' = Append(queue, s) /\ processed' = processed)
      BY <2>3 DEF Export!ConsumeBundle, Export!StageAsync
    <3> QED
      BY <1>1, <2>3, <3>1, Grown
  <2>4. CASE s % Stride = 0 /\ ToCpu /\ ~Async
    <3>1. queue = <<>>
      BY <2>4 DEF ExportInv, ExportAccounted, Export!QueueBounded
    <3>2. queue' = <<>> /\ processed' = Append(processed, s)
      BY <2>4, <3>1 DEF Export!ConsumeBundle, Export!StageNow
    <3> QED
      BY <1>1, <2>4, <3>1, <3>2, Grown
  <2> QED
    BY <2>1, <2>2, <2>3, <2>4 DEF Export!ConsumeBundle
<1>3. all \in Seq(Nat)
  BY <1>1, Moved
<1> HIDE DEF all
<1>4. InOrder(all, s)
  BY DEF all
<1> QED
  BY <1>2, <1>3, <1>4, LatestGoesLast

\* Draining, at an end of a step or a synchronization, keeps the order.
LEMMA FeedbackKeepsOrder ==
  ASSUME ExportInv, Export!OnStepEnd \/ Export!Synchronize
  PROVE  processed' \o queue' = processed \o queue
<1>1. processed \in Seq(Nat) /\ queue \in Seq(Nat)
  BY DEF ExportInv, QueueTypeOK
<1>2. Export!Drain \/ UNCHANGED <<queue, processed>>
  BY DEF Export!OnStepEnd, Export!Synchronize
<1> QED
  BY <1>1, <1>2, Moved DEF Export!Drain

\* The host's counter never goes back (event_step_id).
LEMMA StepGrows ==
  ASSUME StepInv, [ExportNext]_allVars
  PROVE  step' = step \/ (step' = step + 1 /\ UNCHANGED exportVars)
<1>1. CASE HostStep /\ UNCHANGED exportVars
  BY <1>1 DEF HostStep, Register, ReplaceConsumers, SetRuntimeConsumer, Clear, Refresh, Load,
              Loaded, SetupFails, ExecuteModel, PrepareInputs, Prepared, Forward, EndStep,
              Synchronize, CallbackRaises
<1>2. CASE Callback
  BY <1>2 DEF Callback
<1>3. CASE UNCHANGED allVars
  BY <1>3 DEF allVars, vars
<1> QED
  BY <1>1, <1>2, <1>3 DEF ExportNext, CallExporter, CallOther

\* Every step of the composition keeps the order.
LEMMA OrderNext ==
  ASSUME StepInv, ExportInv, InOrder(processed \o queue, step), [ExportNext]_allVars
  PROVE  InOrder(processed' \o queue', step')
<1> USE ExporterAssumption, DispatchBounds
<1>1. step \in Nat
  BY DEF StepInv
<1>2. processed \o queue \in Seq(Nat)
  BY Moved DEF ExportInv, QueueTypeOK
<1>3. CASE UNCHANGED exportVars
  <2>1. step' \in Nat /\ step <= step'
    BY <1>1, StepGrows
  <2>2. processed' \o queue' = processed \o queue
    BY <1>3 DEF exportVars
  <2> DEFINE all == processed \o queue
  <2>3. \A i \in DOMAIN all : all[i] \in Nat
    BY <1>2
  <2>4. InOrder(all, step)
    OBVIOUS
  <2> HIDE DEF all
  <2>5. InOrder(all, step')
    BY <1>1, <2>1, <2>3, <2>4 DEF InOrder
  <2> QED
    BY <2>2, <2>5 DEF all
<1>4. CASE CallExporter
  <2>1. step' = step
    BY <1>4 DEF CallExporter, Callback
  <2> QED
    BY <1>1, <1>4, <2>1, ConsumeKeepsOrder, FeedbackKeepsOrder DEF CallExporter, Exported
<1> QED
  BY <1>3, <1>4 DEF ExportNext, CallOther, allVars

\* For every queue bound, stride, feedback interval and set of consumers: the worker is
\* given the batches in the order of the steps they come from, none of a step the
\* exporter did not ask for (DummyConsumer.consume_bundle, AsyncExportWorker).
THEOREM AlwaysExportedInOrder == ExportSpec => []ExportedInOrder
<1>1. ExportInit => InOrder(processed \o queue, step)
  <2> SUFFICES ASSUME ExportInit PROVE InOrder(processed \o queue, step)
    OBVIOUS
  <2>1. processed = <<>> /\ queue = <<>>
    BY DEF ExportInit, Export!Init
  <2>2. DOMAIN (processed \o queue) = {}
    BY <2>1
  <2> QED
    BY <2>2 DEF InOrder
<1>2. InOrder(processed \o queue, step) => ExportedInOrder
  BY DEF InOrder, ExportedInOrder
<1>3. StepInv /\ ExportInv /\ InOrder(processed \o queue, step) /\ [ExportNext]_allVars
        => InOrder(processed \o queue, step)'
  BY OrderNext
<1>4. ExportInit => ExportInv
  BY ExporterAssumption, DispatchBounds
     DEF ExportInit, Export!Init, ExportInv, QueueTypeOK, ExportAccounted, Export!Accounted,
         Export!QueueBounded
<1> QED
  BY <1>1, <1>2, <1>3, <1>4, BooksNext, StepAlwaysInRange, PTL DEF ExportSpec

\* Synchronizing leaves nothing queued, so that the books say all is done.
LEMMA SynchronizeEmpties ==
  ASSUME ExportInv, CallExporter, Head(calls).what = "synchronize", ToCpu
  PROVE  Len(processed') = consumed' - dropped'
<1>1. Export!Synchronize
  BY DEF CallExporter, Exported
<1>2. ExportInv'
  BY <1>1, FeedbackKeepsBooks
<1>3. queue' = <<>>
  BY <1>1 DEF Export!Synchronize, Export!Drain, ExportInv, ExportAccounted, Export!QueueBounded
<1>4. /\ consumed' = dropped' + Len(queue') + Len(processed')
      /\ dropped' \in Nat /\ Len(processed') \in Nat
  BY <1>2 DEF ExportInv, QueueTypeOK, ExportAccounted, Export!Accounted
<1> QED
  BY <1>3, <1>4

\* For every configuration of the exporter: once the runtime has synchronized it, every
\* batch that was not dropped is done (synchronize_esamp, DummyConsumer.synchronize).
THEOREM SynchronizeAlwaysCompletes == ExportSpec => SynchronizeCompletes
<1>1. ExportInit => ExportInv
  BY ExporterAssumption, DispatchBounds
     DEF ExportInit, Export!Init, ExportInv, QueueTypeOK, ExportAccounted, Export!Accounted,
         Export!QueueBounded
<1>2. ExportInv /\ [ExportNext]_allVars
        => [(CallExporter /\ Head(calls).what = "synchronize" /\ ToCpu)
              => Len(processed') = consumed' - dropped']_allVars
  BY SynchronizeEmpties
<1> QED
  BY <1>1, <1>2, BooksNext, StepAlwaysInRange, PTL DEF ExportSpec, SynchronizeCompletes
=============================================================================
