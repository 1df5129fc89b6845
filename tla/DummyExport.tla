---------------------------- MODULE DummyExport ----------------------------
(****************************************************************************)
(* The export consumer of the examples (src/tllm/consumers/dummy): it       *)
(* stages hidden rows on the CPU for a worker whose queue is bounded, drops *)
(* a batch when the queue is full, and drains the queue every so many ends  *)
(* of a step and when it is synchronized.                                   *)
(****************************************************************************)
EXTENDS Integers, Sequences

CONSTANTS
  Async,     \* enable_async
  ToCpu,     \* export_to_cpu
  MaxQueue,  \* max_queue_size
  Interval,  \* feedback_interval, 0 for never
  Stride,    \* export_every_n_steps
  Steps      \* the steps there may be (engine_step_id)

VARIABLES
  queue,      \* batches staged for the worker, by the step they come from
  processed,  \* batches the worker is done with
  consumed,   \* consumed_batches
  dropped,    \* dropped_batches
  feedback    \* feedback_calls

vars == <<queue, processed, consumed, dropped, feedback>>

Init == queue = <<>> /\ processed = <<>> /\ consumed = 0 /\ dropped = 0 /\ feedback = 0

\* Mutant: the worker takes the newest batch first.
DrainNewest ==
  /\ processed' = processed \o [i \in DOMAIN queue |-> queue[Len(queue) + 1 - i]]
  /\ queue' = <<>>

\* The worker's drain, without a limit.
Drain == processed' = processed \o queue /\ queue' = <<>>

\* Mutant: the bound on the queue is off by one.
StageOneMore(batch) ==
  IF Len(queue) > MaxQueue
  THEN dropped' = dropped + 1 /\ UNCHANGED <<queue, processed>>
  ELSE queue' = Append(queue, batch) /\ UNCHANGED <<processed, dropped>>

\* _handle_hidden_rows, asynchronous: enqueue, or drop when the queue is full.
StageAsync(batch) ==
  IF Len(queue) >= MaxQueue
  THEN dropped' = dropped + 1 /\ UNCHANGED <<queue, processed>>
  ELSE queue' = Append(queue, batch) /\ UNCHANGED <<processed, dropped>>

\* ... and synchronous: enqueue and drain the oldest batch.
StageNow(batch) ==
  LET all == Append(queue, batch)
  IN  processed' = Append(processed, Head(all)) /\ queue' = Tail(all) /\ UNCHANGED dropped

\* consume_bundle of the hidden rows of step s.
ConsumeBundle(s) ==
  IF s % Stride # 0 THEN UNCHANGED vars
  ELSE /\ consumed' = consumed + 1
       /\ IF ~ToCpu THEN UNCHANGED <<queue, processed, dropped>>
          ELSE IF Async THEN StageAsync(s) ELSE StageNow(s)
       /\ UNCHANGED feedback

\* on_step_end
OnStepEnd ==
  /\ feedback' = feedback + 1
  /\ IF Async /\ Interval > 0 /\ feedback' % Interval = 0
     THEN Drain ELSE UNCHANGED <<queue, processed>>
  /\ UNCHANGED <<consumed, dropped>>

\* Mutant: only the oldest batch is taken.
SynchronizeOldest ==
  /\ IF Async /\ queue # <<>>
     THEN processed' = Append(processed, Head(queue)) /\ queue' = Tail(queue)
     ELSE UNCHANGED <<queue, processed>>
  /\ UNCHANGED <<consumed, dropped, feedback>>

\* synchronize
Synchronize ==
  /\ IF Async THEN Drain ELSE UNCHANGED <<queue, processed>>
  /\ UNCHANGED <<consumed, dropped, feedback>>

Next == (\E s \in Steps : ConsumeBundle(s)) \/ OnStepEnd \/ Synchronize
Spec == Init /\ [][Next]_vars

-----------------------------------------------------------------------------
(* Properties *)

\* Every batch the consumer counted is with the worker, done, or counted as dropped
\* (read_stats: consumed_batches, dropped_batches, processed_batches, pending).
Accounted == ToCpu => consumed = dropped + Len(queue) + Len(processed)

\* The queue never outgrows its bound, and without a worker of its own nothing waits
\* (pending, max_queue_size).
QueueBounded == IF Async THEN Len(queue) <= MaxQueue ELSE queue = <<>>
=============================================================================
