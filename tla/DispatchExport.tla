--------------------------- MODULE DispatchExport ---------------------------
(***************************************************************************)
(* The runtime's dispatch together with the export consumer it calls: each *)
(* callback the runtime makes to the exporter is a step of the exporter.   *)
(***************************************************************************)
EXTENDS Dispatch

CONSTANTS
  Exporter,  \* the consumer that exports; the rest is its configuration (DummyExport)
  Async, ToCpu, MaxQueue, Interval, Stride

ASSUME ExporterAssumption ==
  /\ Exporter \in Consumers
  /\ Async \in BOOLEAN /\ ToCpu \in BOOLEAN
  /\ MaxQueue \in Nat /\ Interval \in Nat /\ Stride \in Nat \ {0}

VARIABLES queue, processed, consumed, dropped, feedback
exportVars == <<queue, processed, consumed, dropped, feedback>>
allVars == <<vars, exportVars>>

Export == INSTANCE DummyExport WITH Steps <- 0 .. MaxSteps

ExportInit == Init /\ Export!Init

\* What a callback does to the exporter.
Exported(call) ==
  \/ call.what = "consume_bundle" /\ Export!ConsumeBundle(step)
  \/ call.what = "on_step_end" /\ Export!OnStepEnd
  \/ call.what = "synchronize" /\ Export!Synchronize

CallExporter == Callback /\ Head(calls).to = Exporter /\ Exported(Head(calls))
CallOther    == Callback /\ Head(calls).to # Exporter /\ UNCHANGED exportVars

ExportNext ==
  \/ HostStep /\ UNCHANGED exportVars
  \/ CallExporter
  \/ CallOther

ExportSpec == ExportInit /\ [][ExportNext]_allVars

-----------------------------------------------------------------------------
(* Properties *)

\* Every batch the exporter counted is queued, done or counted as dropped, and the queue
\* keeps its bound, under the calls the runtime makes (DummyConsumer.read_stats).
ExportAccounted == Export!Accounted /\ Export!QueueBounded

\* The worker is given the batches in the order of the steps they come from, each of a
\* step the exporter asked for (export_every_n_steps).
ExportedInOrder ==
  LET all == processed \o queue
  IN  \A i \in DOMAIN all :
        /\ all[i] <= step /\ all[i] % Stride = 0
        /\ \A j \in 1 .. i - 1 : all[j] <= all[i]

\* Once the runtime has synchronized, every batch that was not dropped is done
\* (synchronize_esamp, DummyConsumer.synchronize).
SynchronizeCompletes ==
  [][(CallExporter /\ Head(calls).what = "synchronize" /\ ToCpu)
       => Len(processed') = consumed' - dropped']_allVars

\* The exporter copies a slice of the rows it is given: no step is refused because it
\* has more rows than the slice ("copies a small slice to CPU").
NoStepIsRefused == \A n \in DOMAIN calls : calls[n] # Raises
=============================================================================
