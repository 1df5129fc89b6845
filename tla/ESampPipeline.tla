---------------------------- MODULE ESampPipeline ----------------------------
(***************************************************************************)
(* The asynchronous training pipeline of the ESamp engine                  *)
(* (src/tllm/consumers/esamp/engine.py).                                   *)
(*                                                                         *)
(* The host thread never computes: every call appends operations to CUDA   *)
(* streams and returns.  A stream runs its operations in order, streams    *)
(* run concurrently, and only wait_event orders one stream after another.  *)
(* One decode step is staged into a slot of a small ring of source/target  *)
(* buffers on the main stream; the training stream later trains on that    *)
(* slot.  The host may be any number of steps ahead of the device.         *)
(*                                                                         *)
(* A stream is an append-only log of operations and a count of how many of *)
(* them have run.  Recording an event notes a position in a log; waiting   *)
(* for it is an operation that runs once that position has been passed,    *)
(* and, as in CUDA, waiting for an event never recorded waits for nothing. *)
(*                                                                         *)
(* Hidden rows are abstracted to the number of the decode step that        *)
(* produced them, so a buffer's value says whose rows it holds.            *)
(***************************************************************************)
EXTENDS Integers, Sequences

CONSTANTS
  Slots,            \* adaptation_pipeline_slots
  Modes,            \* the adaptation stream modes a configuration may choose
  TwoCalls,         \* the caller stages with launch_forward + launch_target, not launch_step
  Outgrows,         \* whether a batch may have a row count the pipeline was not built for
  MaxSteps,         \* bound: decode steps run
  MaxStatsBuffers   \* bound: loss accumulators allocated (reads and rebuilds)

ASSUME SlotsAssumption == Slots \in Nat \ {0}
ASSUME ModesAssumption == Modes \subseteq {"dual", "single", "serial"} /\ Modes # {}
ASSUME TwoCallsAssumption == TwoCalls \in BOOLEAN
ASSUME OutgrowsAssumption == Outgrows \subseteq BOOLEAN /\ Outgrows # {}
ASSUME BoundsAssumption == MaxSteps \in Nat /\ MaxStatsBuffers \in Nat

VARIABLES
  enabled,      \* state.enabled
  mode,         \* state.adaptation_stream_mode
  stale,        \* resources to ensure before the next launch: none, streams or pipeline
  nextSlot,     \* state.next_pipeline_slot
  current,      \* state.current_step_slot
  ready,        \* state.ready_step_slot
  fwdStream,    \* state.forward_stream
  trnStream,    \* state.train_stream
  event,        \* what each per-slot event last recorded
  statsBuffer,  \* which allocation state.stats points to
  log,          \* operations enqueued on each stream
  done,         \* operations each stream has run
  tap,          \* decode step whose rows the runtime-owned tap buffers hold
  src,          \* decode step whose rows each pipeline.src[slot] holds
  tgt,          \* decode step whose rows each pipeline.tgt[slot] holds
  losses,       \* loss_count accumulated in each stats allocation
  step,         \* decode steps whose forward has been enqueued
  launched,     \* decode step last handed to the engine, as its caller knows it
  trained       \* history: the jobs trained and the rows they read

hostVars   == <<enabled, mode, stale, nextSlot, current, ready, fwdStream,
                trnStream, event, statsBuffer, launched>>
deviceVars == <<done, tap, src, tgt, losses, trained>>
vars       == <<enabled, mode, stale, nextSlot, current, ready, fwdStream,
                trnStream, event, statsBuffer, log, done, tap, src, tgt,
                losses, step, launched, trained>>

-----------------------------------------------------------------------------
SlotIds == 0 .. Slots - 1
None    == -1

\* The stream vLLM runs the model on, and the side streams the engine creates.
Main    == "main"
Side    == {"side1", "side2"}
Streams == {Main} \cup Side
NoStream == "none"

EventNames == {"src_ready", "tgt_ready", "src_staged", "tgt_done", "slot_train_done"}
NeverRecorded == [stream |-> Main, at |-> 0]

\* Operations on a stream.  A wait blocks the stream until the position is passed;
\* "lease" copies read the shared tap buffers, "copy" kernels a tensor of one step.
WaitFor(e)          == [kind |-> "wait", stream |-> e.stream, at |-> e.at]
Kernel(k, slot, n)  == [kind |-> k, slot |-> slot, step |-> n]
TrainKernel(slot, n) == [kind |-> "train", slot |-> slot, step |-> n, stats |-> statsBuffer]

Enqueue(s, ops)  == log' = [log EXCEPT ![s] = @ \o ops]
\* The event recorded after k more operations are enqueued on stream s.
Recorded(s, k)   == [stream |-> s, at |-> Len(log[s]) + k]

\* Where the engine sends its work: the current stream when it has no stream of its own.
ForwardStream == IF fwdStream = NoStream THEN Main ELSE fwdStream
TrainStream   == IF mode = "serial" THEN Main ELSE trnStream

\* The pipeline slot after this one.  (Mutant: the ring is not closed.)
SlotAfterUnclosed(slot) == slot + 1
SlotAfter(slot) == (slot + 1) % Slots

\* launch_step and launch_forward refuse to start over an unfinished step.
Flushed == current = None /\ ready = None

\* The host has waited for every operation of these streams (stream.synchronize()).
Drained(ss) == \A s \in ss \ {NoStream} : done[s] = Len(log[s])

-----------------------------------------------------------------------------
Init ==
  /\ enabled = TRUE
  /\ mode \in Modes
  /\ stale = "pipeline"
  /\ nextSlot = 0
  /\ current = None
  /\ ready = None
  /\ fwdStream = NoStream
  /\ trnStream = NoStream
  /\ event = [x \in EventNames \X SlotIds |-> NeverRecorded]
  /\ statsBuffer = 0
  /\ log = [s \in Streams |-> <<>>]
  /\ done = [s \in Streams |-> 0]
  /\ tap = 0
  /\ src = [i \in SlotIds |-> 0]
  /\ tgt = [i \in SlotIds |-> 0]
  /\ losses = [b \in 0 .. MaxStatsBuffers |-> 0]
  /\ step = 0
  /\ launched = 0
  /\ trained = <<>>

-----------------------------------------------------------------------------
(***************************************************************************)
(* The host.                                                               *)
(***************************************************************************)

\* vLLM enqueues the forward of the next decode step; its taps overwrite the
\* runtime-owned hidden buffers.
ModelForward ==
  /\ step < MaxSteps
  /\ step' = step + 1
  /\ Enqueue(Main, <<Kernel("tap", 0, step + 1)>>)
  /\ UNCHANGED <<hostVars, deviceVars>>

\* A side stream object that neither handle refers to.
FreshStream(used) == CHOOSE s \in Side : s \notin used

\* _ensure_adaptation_streams: the streams each mode keeps, reuses or creates.
EnsuredForward ==
  CASE mode = "serial" -> NoStream
    [] mode = "single" /\ fwdStream # NoStream -> fwdStream
    [] mode = "single" /\ fwdStream = NoStream /\ trnStream # NoStream -> trnStream
    [] mode = "single" /\ fwdStream = NoStream /\ trnStream = NoStream -> FreshStream({})
    [] mode = "dual" /\ fwdStream \in {NoStream, trnStream} -> FreshStream({trnStream})
    [] OTHER -> fwdStream

\* (Mutant: a single stream is not shared with the training.)
EnsuredTrainUnshared ==
  IF mode = "dual" /\ (trnStream = NoStream \/ trnStream = EnsuredForward)
  THEN FreshStream({EnsuredForward}) ELSE trnStream
EnsuredTrain ==
  IF mode # "dual" THEN EnsuredForward
  ELSE IF trnStream = NoStream \/ trnStream = EnsuredForward
       THEN FreshStream({EnsuredForward}) ELSE trnStream

\* ensure_resources, which the consumer calls before a launch whose resource key
\* changed: after a configuration, or because the rows of this batch are not those
\* the pipeline was built for, which graph_scratch_rows set below the batch allows
\* and for which nobody waits.  A new pipeline drops the events, the step in flight
\* and the loss accumulators; the allocator may give the new buffers the memory of
\* the old ones, so their contents are what they were.
EnsureResources(outgrown) ==
  /\ outgrown \/ stale # "none"
  /\ outgrown \/ stale = "pipeline" => statsBuffer < MaxStatsBuffers
  /\ stale' = "none"
  /\ fwdStream' = EnsuredForward
  /\ trnStream' = EnsuredTrain
  /\ IF outgrown \/ stale = "pipeline"
     THEN /\ event' = [x \in EventNames \X SlotIds |-> NeverRecorded]
          /\ nextSlot' = 0
          /\ current' = None
          /\ ready' = None
          /\ statsBuffer' = statsBuffer + 1
     ELSE UNCHANGED <<event, nextSlot, current, ready, statsBuffer>>
  /\ UNCHANGED <<enabled, mode, log, step, launched, deviceVars>>

\* Runtime-lease staging of one step, on the main stream: both copies wait until
\* the slot's previous occupant has been trained.  (Mutants: no wait; the wait only
\* covers the second copy.)
StageStepOpsUnordered(slot) ==
  <<Kernel("lease_src", slot, step), Kernel("lease_tgt", slot, step)>>
StageStepOpsLateWait(slot) ==
  <<Kernel("lease_src", slot, step), WaitFor(event[<<"slot_train_done", slot>>]),
    Kernel("lease_tgt", slot, step)>>
StageStepOps(slot) ==
  <<WaitFor(event[<<"slot_train_done", slot>>]),
    Kernel("lease_src", slot, step),
    Kernel("lease_tgt", slot, step)>>

\* launch_step: stage source and target of the current decode step in the next slot.
LaunchStep ==
  /\ ~TwoCalls /\ enabled /\ stale = "none" /\ Flushed
  /\ launched < step
  /\ Enqueue(Main, StageStepOps(nextSlot))
  /\ event' = [event EXCEPT ![<<"src_staged", nextSlot>>] = Recorded(Main, 3),
                            ![<<"tgt_done", nextSlot>>]   = Recorded(Main, 3)]
  /\ nextSlot' = SlotAfter(nextSlot)
  /\ ready' = nextSlot
  /\ launched' = step
  /\ UNCHANGED <<enabled, mode, stale, current, fwdStream, trnStream,
                 statsBuffer, step, deviceVars>>

\* launch_forward's stream work: behind the slot's last training and, on a stream
\* of its own, behind the producer of the tensor it copies.  (Mutant: not behind the
\* slot's last training.)
StageSourceOpsUnordered(slot, producer) ==
  IF ForwardStream = Main
  THEN <<Kernel("copy_src", slot, step)>>
  ELSE <<WaitFor(producer), Kernel("copy_src", slot, step)>>
StageSourceOps(slot, producer) ==
  IF ForwardStream = Main
  THEN <<WaitFor(event[<<"slot_train_done", slot>>]), Kernel("copy_src", slot, step)>>
  ELSE <<WaitFor(event[<<"slot_train_done", slot>>]), WaitFor(producer),
         Kernel("copy_src", slot, step)>>

\* launch_forward: the first half of the two-call form, on the forward stream.
LaunchForward ==
  /\ TwoCalls /\ enabled /\ stale = "none" /\ Flushed
  /\ launched < step
  /\ LET producer == Recorded(Main, 0)
         ops      == StageSourceOps(nextSlot, producer)
     IN /\ Enqueue(ForwardStream, ops)
        /\ event' = [event EXCEPT ![<<"src_ready", nextSlot>>]  = producer,
                                  ![<<"src_staged", nextSlot>>] = Recorded(ForwardStream, Len(ops))]
  /\ nextSlot' = SlotAfter(nextSlot)
  /\ current' = nextSlot
  /\ launched' = step
  /\ UNCHANGED <<enabled, mode, stale, ready, fwdStream, trnStream,
                 statsBuffer, step, deviceVars>>

\* launch_target's stream work.  (Mutant: not behind the producer.)
StageTargetOpsUnordered(slot, producer) == <<Kernel("copy_tgt", slot, step)>>
StageTargetOps(slot, producer) ==
  IF ForwardStream = Main
  THEN <<Kernel("copy_tgt", slot, step)>>
  ELSE <<WaitFor(producer), Kernel("copy_tgt", slot, step)>>

\* launch_target: the second half, called while the same forward runs.
LaunchTarget ==
  /\ enabled /\ stale = "none"
  /\ current # None
  /\ launched = step
  /\ LET producer == Recorded(Main, 0)
         ops      == StageTargetOps(current, producer)
     IN /\ Enqueue(ForwardStream, ops)
        /\ event' = [event EXCEPT ![<<"tgt_ready", current>>] = producer,
                                  ![<<"tgt_done", current>>]  = Recorded(ForwardStream, Len(ops))]
  /\ current' = None
  /\ ready' = current
  /\ UNCHANGED <<enabled, mode, stale, nextSlot, fwdStream, trnStream,
                 statsBuffer, step, launched, deviceVars>>

\* The waits that put a training job behind the staging of its slot.
TrainWaits(slot) == <<WaitFor(event[<<"src_staged", slot>>]), WaitFor(event[<<"tgt_done", slot>>])>>

Outcomes == {"trains", "trains_nothing", "raises"}

\* launch_delayed_backward queues the ready step and drains the queue at once:
\* the job is popped before it is trained, so the queue is empty between calls
\* whatever happens.  Training the popped job may enqueue its kernels, find no
\* row to train, or raise before any kernel (metadata missing, slots exhausted);
\* only a return without an exception records the slot's done event.  (Mutant: the
\* kernels are enqueued ahead of the waits.)
DrainOpsUnordered(slot, outcome) ==
  IF outcome = "trains"
  THEN <<TrainKernel(slot, launched)>> \o TrainWaits(slot)
  ELSE TrainWaits(slot)
DrainOps(slot, outcome) ==
  IF outcome = "trains"
  THEN TrainWaits(slot) \o <<TrainKernel(slot, launched)>>
  ELSE TrainWaits(slot)

LaunchDelayedBackward(outcome) ==
  /\ enabled /\ ready # None
  /\ TrainStream # NoStream
  /\ LET ops == DrainOps(ready, outcome)
     IN /\ Enqueue(TrainStream, ops)
        /\ event' = IF outcome = "raises" THEN event
                    ELSE [event EXCEPT ![<<"slot_train_done", ready>>] =
                                         Recorded(TrainStream, Len(ops))]
  /\ ready' = None
  /\ UNCHANGED <<enabled, mode, stale, nextSlot, current, fwdStream, trnStream,
                 statsBuffer, step, launched, deviceVars>>

\* set_enabled: a running engine may be switched off and on between calls.
SetEnabled(b) ==
  /\ enabled # b
  /\ enabled' = b
  /\ UNCHANGED <<mode, stale, nextSlot, current, ready, fwdStream, trnStream,
                 event, statsBuffer, log, step, launched, deviceVars>>

\* What synchronize() waits for.  (Mutant: the forward stream alone.)
SynchronizedForward == {fwdStream}
SynchronizedStreams == {fwdStream, trnStream}

\* A new configuration: the workflow synchronizes the consumer, then configure
\* drops the step in flight and stores the new mode; resources follow at the
\* next launch, with a new pipeline if its shape changed.
Configure(newMode, newEnabled, reshape) ==
  /\ Drained(SynchronizedStreams)
  /\ mode' = newMode
  /\ enabled' = newEnabled
  /\ current' = None
  /\ ready' = None
  /\ stale' = IF reshape \/ stale = "pipeline" THEN "pipeline" ELSE "streams"
  /\ UNCHANGED <<nextSlot, fwdStream, trnStream, event, statsBuffer, log, step,
                 launched, deviceVars>>

\* read_and_reset_stats(sync=True): synchronize() and then .item(), which waits
\* for the current stream; the accumulators are replaced by new ones.
ReadAndResetStats ==
  /\ statsBuffer \in 1 .. MaxStatsBuffers - 1
  /\ Drained(SynchronizedStreams \cup {Main})
  /\ statsBuffer' = statsBuffer + 1
  /\ UNCHANGED <<enabled, mode, stale, nextSlot, current, ready, fwdStream,
                 trnStream, event, log, step, launched, deviceVars>>

Host ==
  \/ ModelForward
  \/ \E outgrown \in Outgrows : EnsureResources(outgrown)
  \/ LaunchStep
  \/ LaunchForward
  \/ LaunchTarget
  \/ \E outcome \in Outcomes : LaunchDelayedBackward(outcome)
  \/ \E b \in BOOLEAN : SetEnabled(b)
  \/ \E m \in Modes, b, reshape \in BOOLEAN : Configure(m, b, reshape)
  \/ ReadAndResetStats

-----------------------------------------------------------------------------
(***************************************************************************)
(* The device.                                                             *)
(***************************************************************************)

\* The next operation of a stream that has one.
Busy(s)   == done[s] < Len(log[s])
HeadOf(s) == log[s][done[s] + 1]

\* Rows a copy kernel reads: the shared tap buffers for a lease, else the tensor
\* its caller handed over, which holds nothing (0) until the main stream made it.
RowsRead(op) ==
  IF op.kind \in {"lease_src", "lease_tgt"} THEN tap
  ELSE IF tap >= op.step THEN op.step ELSE 0

Run(s) ==
  /\ Busy(s)
  /\ LET op == HeadOf(s)
     IN \/ /\ op.kind = "wait"
           /\ done[op.stream] >= op.at
           /\ UNCHANGED <<tap, src, tgt, losses, trained>>
        \/ /\ op.kind = "tap"
           /\ tap' = op.step
           /\ UNCHANGED <<src, tgt, losses, trained>>
        \/ /\ op.kind \in {"lease_src", "copy_src"}
           /\ src' = [src EXCEPT ![op.slot] = RowsRead(op)]
           /\ UNCHANGED <<tap, tgt, losses, trained>>
        \/ /\ op.kind \in {"lease_tgt", "copy_tgt"}
           /\ tgt' = [tgt EXCEPT ![op.slot] = RowsRead(op)]
           /\ UNCHANGED <<tap, src, losses, trained>>
        \/ /\ op.kind = "train"
           /\ trained' = Append(trained, [job |-> op.step, src |-> src[op.slot],
                                          tgt |-> tgt[op.slot]])
           /\ losses' = [losses EXCEPT ![op.stats] = @ + 1]
           /\ UNCHANGED <<tap, src, tgt>>
  /\ done' = [done EXCEPT ![s] = @ + 1]
  /\ UNCHANGED <<hostVars, log, step>>

Next == Host \/ \E s \in Streams : Run(s)

\* The device keeps running what it was given, and a step that was staged is followed
\* by its on_step_end, in the same call of the dispatch; nothing else obliges the host.
Fairness ==
  /\ \A s \in Streams : WF_vars(Run(s))
  /\ WF_vars(\E outcome \in Outcomes : LaunchDelayedBackward(outcome))

Spec     == Init /\ [][Next]_vars
FairSpec == Spec /\ Fairness

-----------------------------------------------------------------------------
(***************************************************************************)
(* Properties.                                                             *)
(***************************************************************************)
Steps     == 0 .. MaxSteps
EventType == [stream : Streams, at : Nat]
OpType ==
  [kind : {"wait"}, stream : Streams, at : Nat]
    \cup [kind : {"tap", "lease_src", "lease_tgt", "copy_src", "copy_tgt"},
          slot : SlotIds, step : Steps]
    \cup [kind : {"train"}, slot : SlotIds, step : Steps, stats : 0 .. MaxStatsBuffers]

\* Every variable has its type, and no stream has run more than it was given.
TypeOK ==
  /\ enabled \in BOOLEAN
  /\ mode \in Modes
  /\ stale \in {"none", "streams", "pipeline"}
  /\ nextSlot \in SlotIds
  /\ current \in SlotIds \cup {None}
  /\ ready \in SlotIds \cup {None}
  /\ fwdStream \in Side \cup {NoStream}
  /\ trnStream \in Side \cup {NoStream}
  /\ event \in [EventNames \X SlotIds -> EventType]
  /\ statsBuffer \in 0 .. MaxStatsBuffers
  /\ log \in [Streams -> Seq(OpType)]
  /\ done \in [Streams -> Nat]
  /\ \A s \in Streams : done[s] <= Len(log[s])
  /\ tap \in Steps
  /\ src \in [SlotIds -> Steps]
  /\ tgt \in [SlotIds -> Steps]
  /\ losses \in [0 .. MaxStatsBuffers -> Nat]
  /\ step \in Steps
  /\ launched \in Steps
  /\ launched <= step
  /\ trained \in Seq([job : Steps, src : Steps, tgt : Steps])

\* A training job reads, as source and as target, the rows of the very step its
\* metadata describes, however far the host and the main stream have moved on.
TrainsItsOwnRows ==
  \A i \in DOMAIN trained : trained[i].src = trained[i].job /\ trained[i].tgt = trained[i].job

\* The memory a kernel reads and writes.
Reads(op) ==
  CASE op.kind \in {"lease_src", "lease_tgt"} -> {<<"tap">>}
    [] op.kind = "train" -> {<<"src", op.slot>>, <<"tgt", op.slot>>}
    [] OTHER -> {}
Writes(op) ==
  CASE op.kind = "tap" -> {<<"tap">>}
    [] op.kind \in {"lease_src", "copy_src"} -> {<<"src", op.slot>>}
    [] op.kind \in {"lease_tgt", "copy_tgt"} -> {<<"tgt", op.slot>>}
    [] op.kind = "train" -> {<<"parameters">>, <<"stats", op.stats>>}
    [] OTHER -> {}

\* Two kernels that may be running at once never touch the same memory when one
\* of them writes it: no slot is overwritten while it is trained on, and no two
\* trainings update the parameters at once.
NoDataRace ==
  \A s, t \in Streams :
    s # t /\ Busy(s) /\ Busy(t) =>
      Writes(HeadOf(s)) \cap (Reads(HeadOf(t)) \cup Writes(HeadOf(t))) = {}

\* The jobs enqueued for training, and those trained.
TrainOps(s)  == {i \in DOMAIN log[s] : log[s][i].kind = "train"}
Accepted     == UNION {{log[s][i].step : i \in TrainOps(s)} : s \in Streams}
TrainedJobs  == {trained[i].job : i \in DOMAIN trained}

\* A loss read with sync=True has counted every job enqueued on its accumulators:
\* none is still on a side stream when the host reads and replaces them.
StatsReadIsComplete ==
  [][ReadAndResetStats =>
       \A s \in Streams : \A i \in TrainOps(s) :
          log[s][i].stats = statsBuffer => done[s] >= i]_vars

\* A step handed to the engine while training stays on is eventually trained, unless
\* its job found nothing or raised, or a configuration or a new pipeline dropped it:
\* no change of the stream mode leaves it staged with no stream to train it on, where
\* it would make the engine refuse every later launch.
StagedIsSettled ==
  \A n \in 1 .. MaxSteps :
    ready # None /\ launched = n
      ~> \/ n \in TrainedJobs
         \/ ready = None /\ n \notin Accepted
         \/ ~enabled

\* The pipeline is a queue of jobs, each trained once, in the order of its
\* acceptance, on its own rows.
Waiting == Accepted \ TrainedJobs
Queue == INSTANCE TrainingQueue WITH Jobs <- 1 .. MaxSteps, queue <- Waiting, trained <- trained
ImplementsTrainingQueue == Queue!Spec
=============================================================================
