# A formal model of tLLM

tLLM is a runtime layer over vLLM v1. It hooks the model runner, localizes the
decode rows of every step, gathers hidden states into fixed buffers, and hands
bundles of them to *consumers*. The main consumer, ESamp, trains a small
"distiller" on side CUDA streams while decoding goes on, and uses what it has
learned to guide sampling. This directory holds TLA+ modules translated from
`src/tllm`, TLC configurations that check them, and TLAPS proofs about them.

Paths below are relative to `src/`; `engine.py`, `consumer.py` and
`sampler_provider.py` are those of `tllm/consumers/esamp/`.

## 1. Inventory

| Component | State | Operations | What makes it hard | What makes it correct |
|---|---|---|---|---|
| ESamp training pipeline (`engine.py`, `consumer.py`) | ring of source/target slots, one event of each of five kinds per slot, slot in flight, streams, loss accumulators | `launch_step`, `launch_forward`/`launch_target`, `launch_delayed_backward`, `ensure_resources`, `configure`, `set_enabled`, `read_and_reset_stats` | three CUDA streams run concurrently with a host that is any number of steps ahead; toggles, reconfigurations and exceptions between calls | each job trains once, in order, on its own rows; no data race; complete loss counts; no staged step stays behind without a stream |
| ESamp model bank (`engine.py`) | `prompt_to_slot`, `slot_to_prompt`, next slot, dense lookup tensor, parameter tensors, per-request entries | slot assignment by sampler and by training, lookup refill and publication, cache reset, bank construction | two callers assign, three events reset, the sampler reads the tensor without a validity mask | a prompt is predicted with and trained into its own slot; the maps stay inverse |
| CUDA-graph capture/replay (`engine.py` 784-1005, 1248-1344, 1757-1807) | per graph: capture state, buffers, mask, slot ids, gradients | capture, stage, replay, fallback, reset | addresses and shapes are baked in at capture; batches shrink and grow, pipelines are rebuilt, captures and replays fail | a replay trains what the eager kernel would |
| SVD initializer (`initializers/svd.py`) | prepared slots, collected rows, template | assigned/existing/prepare hooks, reset | called from both sampler and training; resets hand slots on | a slot starts from the template, or is fitted to its own prompt's rows |
| Sampler provider, precompute cache (`sampler_provider.py`, `tllm/runtime/residual_runtime.py`) | cache tagged with a step, buffers, stream and event | reset, prepare, capture, schedule, prepare_step | a fourth stream; a cached value used one call later | the sampler uses this step's prediction, complete, or none |
| Sampler bridge (`tllm/runtime/sampler_bridge/`, `sampler_patch.py`) | none | full and partial sections of three backends, candidate selection, fallback | rows partitioned by temperature; predictions, generators and filters selected with them | a guided row is guided once, by its own prediction, and sampled as its request asks |
| Input-batch min-p patch (`port_runtime_hooks.py` 408-483) | one value per batch row | add, remove, swap, condense, metadata | rows move | a value stays with its request |
| Decode step runtime (`producer/decode.py`, `vllm_patch/port_runtime_hooks.py`) | row indices and masks in fixed buffers, step id, decode metadata | prepare_inputs, compute_logits, execute_model hooks | buffers reused every step; steps that skip a hook | metadata and rows of one step belong together; each step is delivered once |
| Bundle dispatch and assembly (`ports/residual_bundle_dispatch.py`, `ports/assembler.py`) | pending bundles | build, compact, push, finalize | compaction by view or by gather; frames in an order of their own; several consumers, one of which may raise | a bundle's rows and metadata agree; a due flow gets its bundles |
| Dispatch plan and registry (`dispatch_plan.py`, `residual_runtime.py`) | registered consumers, runtime consumer, plan | register, replace, clear, set, toggle, synchronize | the plan caches what consumers declare | who is called is who is registered |
| Residual capture (`ports/residual_*.py`) | tap buffers, bindings | resolve, allocate, tap | tap buffers are shared by all steps | a lease is read before the next forward overwrites it |
| Layer lifecycle events (`hidden_event_bridge.py`, `common_hooks.py`) | none | dispatch per layer or deferred | two delivery times | each layer of a step delivered once |
| Dummy export consumer (`consumers/dummy/`) | bounded queue, stream, counters | enqueue, drain, copy, synchronize | drop when full; side-stream copies | what is counted is exported, queued or dropped |
| Prefill producer and capture runner (`producer/prefill.py`, `capture_runner.py`) | captured rows per prompt | capture, export | offline use only | rows belong to their prompt |
| vLLM adapters; ports and contracts; workflows and benchmarks | none | unpacking, declarations, drivers | - | - |

How they interact: `wrapped_prepare_inputs` localizes decode rows and lets the
sampler provider assign slots; the forward's taps fill the shared buffers; the
`compute_logits` hook schedules the prediction; `Sampler.sample` uses it;
`wrapped_execute_model` dispatches bundles to consumers, whose `consume_bundle`
stages the step (`launch_step`) and whose `on_step_end` enqueues its training
(`launch_delayed_backward`). Everything on the host is one thread; concurrency
is between the host and the CUDA streams and among the streams.

The hazards this code is exposed to, each at its line, are in `PROJECT.json`.

## 2. Modules

### ESampPipeline

The host appends operations to streams; `Run(s)` runs the next operation of
stream `s` at any time. A stream is a log and a count of operations run. An
event is the position it was last recorded at; waiting for it blocks the
waiting stream until the position is passed, and an event never recorded
blocks nothing, as in CUDA. Hidden rows are abstracted to the number of the
decode step that produced them, so whether a job trained on its own rows is
visible in the buffers it read.

| Code | Model |
|---|---|
| `launch_step`, `_launch_step_kernel` | `LaunchStep`, `StageStepOps` |
| `launch_forward`, `launch_target` | `LaunchForward`, `LaunchTarget` |
| `launch_delayed_backward` (also serial) | `LaunchDelayedBackward(outcome)`: trains, finds no row, or raises |
| `ensure_resources`, `_ensure_pipeline`, `_ensure_adaptation_streams` | `EnsureResources`, `EnsuredForward`, `EnsuredTrain` |
| `configure` after `synchronize` (`workflows/esamp_support.py`) | `Configure` |
| `set_enabled`, `read_and_reset_stats(sync=True)` | `SetEnabled`, `ReadAndResetStats` |
| the taps of a vLLM forward | `ModelForward` |

`pending_train_queue` is no variable: `launch_delayed_backward` appends one job
and pops every job in the same call, each before it is trained, so the queue is
empty between calls even when a job raises. A caller uses one of the two staging
forms throughout (`TwoCalls`): the consumer uses `launch_step`, the tests of the
engine the two-call form; nothing in `src/` mixes them. In the two-call form
`launch_target` belongs to the same forward as its `launch_forward`
(`launched = step`), which is how its callers use it. A rebuilt pipeline keeps
its contents, because the caching allocator may return the same memory.

`EnsureResources(outgrown)` has the two occasions of a rebuild: the resource key
went stale with a configuration, which synchronizes first, or (`outgrown`) the rows
of a batch are not those the pipeline was built for, which a `graph_scratch_rows`
below the batch allows (`consumer.py:210-215`) and for which nothing waits. The
runs have `Outgrows = {FALSE}`; section 4 says what happens otherwise.

`TrainingQueue` is what the pipeline promises: jobs accepted are trained one at
a time, oldest first, each once, on their own rows. `ESampPipeline` implements
it under `queue <- Waiting`, the accepted jobs not yet trained
(`ImplementsTrainingQueue`).

`ESampPipelineOrder` says why: which operation must run after which other
(`MustFollow`), and that its place in the logs makes it (`Ordered`). It holds the
inductive invariant of the pipeline, which the `pipeline` run checks as
`PipelineInv`.

### ModelBank

One decode step of the host is a sequence of actions: `BeginStep` (refill the
lookup), `AssignRow` per row, `EndAssign` (publish), `Predict`, `Consume`,
`TrainRow` per row, `EndTrain`. Between steps requests come and go (`Admit`,
`Finish`) and the engine is toggled or reconfigured (`SetEnabled`, `Configure`).
What a slot has learned is the set of prompts whose rows trained it since the
map was last reset. The code drops the rows that repeat a prompt from the job;
the model keeps them as rows without a prompt (`FirstPerPrompt`), which every
later step skips. `Configure("shape", ...)` is a change of
`_resource_signature`; `"flush"` a change of `model_bank_flush_interval`;
`"other"` any other. `Consume` builds a missing bank, and may reset the map of
one that exists: a pipeline rebuilt for another number of rows does that too
(`engine.py:723-741`). The lookup tensor is at least 4096 long in the code, longer
than the prompt indices of a run; `LookupSize` exceeds every index of the
configuration, and what happens to an index beyond the tensor (it is clamped)
is in `SlotOfRow`. An exception out of a step ends the model's run, as it ends
the generate call.

### DecodeStep

One step of the host through the hooks around vLLM's model runner. The parts of
it share no call but a set of reused buffers: row indices, tap buffers, decode
metadata, the cached prediction. A hidden row is abstracted to the step and the
packed row it was gathered from (`Hidden`), so whose row a buffer holds, and how
old it is, is visible at every later use.

| Code | Model |
|---|---|
| `wrapped_load_model`, `setup_runtime_hooks_if_active` | `Load`, `InstallHooks`, `SetupFor` |
| `wrapped_prepare_inputs`, `prepare_decode_localization`, `compute_decode_localization` | `PrepareInputs`, `Localize`, `LocalizedRows`; its two exceptions are `PrepareInputsRaises` |
| the layer taps (`_forward_with_tap`) | `Forward`, `ForwardRaises` |
| the `compute_logits` hook, `maybe_schedule_precompute` | `ComputeLogits`, `Prediction`; the prediction's stream gets to it in `Predict` |
| `wrapped_sampler_sample` | `SampleFast`, `SampleWithView`, `SampleVanilla`, `SampleRaises` |
| `dispatch_decode_port_bundles`, `build_step_scope_port_bundle` | `Dispatch`, `Deliver`, `BundleRow`, `FromLane`, `DispatchRaises` |
| `execute_model` with nothing scheduled | `ExecuteNothing` |
| `configure_esamp_runtime`, `set_esamp_training_enabled` | `Reconfigure`, `SetTraining` |

vLLM is external and modelled from how it is used: a decoding request has one
token, a prefilling one two, in batch order, and each is sampled from its last.
The guard `ready` of `SampleWithView` is the wait for the precompute event;
`SampleFast` has no such wait and reads `Unwritten` rows when it comes too
early. A prefilling request's prompt is never looked up, so it has none here.

Left out: the capture of the prediction inside the forward
(`sampler_allow_source_capture` is set nowhere), the fallback prediction in
`prepare_step` (a published step has a cache), the backend
`post_filter_dense_cache`, `per_request_models`, several `compute_logits` calls
in one step, batches that are greedy as a whole, and `decode_valid_mask`, which
is written and never read. The ModelBank side of the prediction (which
parameters) is `ModelBank`'s; this module has which hidden row.

### Dispatch, BundleAssembler, DummyExport, DispatchExport

`Dispatch` is the runtime seen from its consumers: any number of them, each
declaring flows or subscriptions. A handler of the host (`Load`, `ExecuteModel`,
`PrepareInputs`, `Prepared`, `Forward`, `EndStep`, `Synchronize`) computes the
callbacks it will make and leaves them in `calls`; `Callback` makes the first,
`CallbackRaises` is an exception out of it, which abandons the rest of the step.
Where the row data comes from is `DecodeStep`'s; here a row is its number, so
that what a consumer is handed says which rows, of which layer, in which order.

| Code | Model |
|---|---|
| `register_dispatch_consumer`, `replace_...`, `clear_...`, `set_runtime_consumer`, `_refresh_dispatch_plan` | `Register`, `ReplaceConsumers`, `Clear`, `SetRuntimeConsumer`, all through `Refresh` and `PlanOf` |
| `required_residual_layers`, `_supported_logical_locators`, `build_resolved_bindings` | `Required`, `Locators`, `BindingsFor`; a setup that finds no layer is `SetupFails` |
| `DispatchPlan.select`, `dispatch_runtime_event`, `dispatch_consumer_event` | `Selects`, `EventCalls` |
| `dispatch_layer_lifecycle_events`, `dispatch_deferred_layer_batches` | `LayerCalls` in `Forward`, `Deferred` in `EndStep` |
| `dispatch_decode_port_bundles`, `build_step_scope_port_bundle`, `_regular_row_view` | `FlowCalls`, `DirectBundle` (`Declines`, `Refuses`), `RowsTaken` |
| `build_decode_port_frames`, `BundleAssembler.push`, `finalize_pending` | `FramesOf`, `Push`, `Finalized`, `Assemble` (`BundleAssembler`) |

`DummyExport` specifies the export consumer by itself: called in any order, its
books balance. `DispatchExport` composes the two: a callback to the exporter is
a step of `DummyExport`, and `ExportImplements` proves that the composition
keeps to it. One callback of an event stands for the `consume`, `on_tick` and
`on_step_end` that `dispatch_consumer_event` makes in a row.

### SamplerBridge

The batch is vLLM's, as far as the min-p patch needs it: `AddRequest`,
`RemoveRequest`, `Condense`, `SwapStates`, with `min_p_cpu` beside the rows and
`Garbage` where `torch.empty` left it. Then one of the sampling actions, one per
section of `sample_with_optional_modifier`: `SampleFullDense`, `SampleFullExact`
(with or without candidate sampling), `SampleParts`; `SampleUnguided` without
guidance, `SampleRaises` for the failed assertion. A sampled row is a record of
what was done to it: the predictions that guided it, its filter, its generator.
Logits are never numbers. Temperatures are greedy or random; top-k and top-p are
left out, as they are selected by the same row ids as min-p. `Ordered`
(`OrderedSets`, shared with `DecodeStep`, `Dispatch` and `BundleAssembler`) lists a
set of rows in increasing order, as the code's index tensors do. The fixed top-k
candidate paths are switched on by an environment variable that nothing in
`src/` sets.

### DistillerTraining, SlotInitializer

How a step trains. A row of a pipeline slot holds the prompt it came from, or
`Old`; a graph has the buffers, mask, slot ids and pipeline allocation of its
capture, and a replay trains what they say (`ReplayTrains`), so a stale mask, a
stale id or a freed pipeline shows in what was trained.

| Code | Model |
|---|---|
| `configure`, `_reset_runtime_cache`, `_reset_graph_state` | `Configure`, `ResetGraphs`, `ResetRuntime` |
| `consume_bundle`, `ensure_resources`, `_ensure_pipeline`, `launch_step` | `Consume` |
| `assign_sampling_model_bank_slots`, `_assign_model_bank_slot` | `AssignForSampling`, `AssignSlots` |
| `_ensure_graph_storage`, `_stage_graph_inputs`, `_capture_graph` | `Storage`, `Staged` and `CanStage`, `Captured` |
| `_replay_graph_with_disable_fallback`, `_maybe_run_*_graph`, the kernels | `TrainWith`, with `ReplayTrains`, `KernelTrains`, `Freed` |
| `_train_shared`; `_train_model_bank` | `TrainShared`; `AssignForTraining`, `PrepareSlots`, `TrainBank` |
| `on_slot_assigned`, `ensure_existing_slot`, `maybe_prepare_slots`, `prepare_from_model` | `OnAssigned`, `OnExisting`, `RowsPrepared`, `Prepared` (`SlotInitializer`) |

`SlotInitializer` has no state of its own: it is functions on the initializer's
record `ini` and on the slots' parameters, which are abstracted to where they
come from (`random`, `template`, `fit`) and which prompts trained them since.
Abstractions: `SeenBy` stops counting at `MaxWait`, where the count no longer
matters; whether a layer has the projections of a template is fixed per model
(`extractable`); a fit succeeds or not at random. The mode `per_request` trains
as `shared` does, once per prompt, without graphs of its own, and is left out;
the loss counters and the streams are `ESampPipeline`'s.

## 3. Runs

| Run | Bounds | Shows |
|---|---|---|
| `pipeline` | 2 slots, dual streams, 4 steps, 2 accumulators | the one-call form: rows, races, complete losses, refinement of `TrainingQueue` and the invariant the proofs rest on (`PipelineInv`), with the slot ring used twice over |
| `pipeline_live` | 1 slot, dual, single and serial, two calls, 2 steps | copies on the forward stream, changes of mode and shape between steps; no staged step is left without a stream to train it |
| `bank` | 3 prompts, 2 slots, 3 rows, 2 reconfigurations | the maps, the lookup, prediction and training agree |
| `bank_reconfigured` (violated) | as `bank` | prediction without parameters after a reconfiguration |
| `step` | 2 prompts, steps of up to 3 requests, 2 steps, 1 reconfiguration or toggle; exact backend, mixed steps, own stream | every decode row delivered once, in order and from its own step; guidance from the own prompt's row only, and not lost |
| `step_capacity` | buffers of 2 rows and 1 slot under 3 requests, 3 steps; lane on and off, both backends, own stream, empty calls, no padding | the capacity checks; the lane delivers what the full buffers would; guidance that is read in time is the row's own |
| `step_tail` (violated) | as `step`, no padding | rows gathered beyond the packed tensor |
| `dispatch` | 5 consumers (exporter, ESamp's flow, row and request flows, an unsupported layer, events), 2 changes of the registry, 2 steps of up to 5 rows, one consumer that may raise | who is called, with which bundles, in which order; the exporter's books |
| `export_default` (violated) | the exporter alone with its defaults | a step of two rows is refused |
| `sampler` | 3 requests in 3 rows, 2 samplings, 63 set-ups of mode, backend and temperatures | predictions, generators and filters of every section |
| `sampler_mixed` (violated) | dense backend, mixed temperatures | rows guided twice |
| `training` | 2 prompts, 2 rows, 2 pipeline slots, 5 configurations, 1 reconfiguration | a step trains its own rows whatever graph it uses; what a slot starts from |

Four steps on two slots fill the ring twice, so a slot is overwritten while its
previous occupant may be waiting, running or done; one slot makes every step
meet the one before. `MaxStatsBuffers` counts pipelines built and loss reads:
two allow one rebuild, or one read, in the middle of the run. Three prompts on
two slots reach exhaustion, from the sampler and from training; three rows hold
duplicates, padding and an interleaving of both. Three requests of two prompts
are the least in which a compacted row is not at its own index (`p1 p1 p2`), a
row without a prompt stands between others, and decoding requests are not
contiguous; a second step meets what the first left in every buffer, and one
reconfiguration lies before, between or after them. Prompts are symmetric.
`PackedAtLeast = 8` is a forward padded to a CUDA-graph batch size, larger than
any step's tokens; 0 an unpadded one.

In `dispatch`, the batch `p1 p2 p2 p2 p1` compacts to neighbours, `p1 None p2` to
rows at a distance of two (the strided view), `p1 p2 p2 p3` to 1, 2, 4, which is no
stride, and has a row more than a cap; two changes of the registry register two
consumers, or the same one twice, or replace one between steps; two steps hit and
miss a stride of two. In `sampler`, three rows are the least in which a part of the
batch is not a prefix and condense has a hole to fill; a second sampling meets values
left by the first. In `training`, two steps fill a graph and replay it with fewer
rows, and the number of steps is not bounded at all: the state space is finite,
because a step's rows turn `Old` when it ends. Batches of one and two rows capture
small and stage large, and outgrow a pipeline of one row; two pipeline slots are in
use in turn; configurations differ in mode, graphs, flush interval, initializer, rows
and bank size, so that one reconfiguration changes each. Two rows and two steps are
both limits of a fit.

Deadlock is checked in `training` only: in the other runs the bounds stop the
host, and `ModelBank`, `DecodeStep` and `SamplerBridge` stop at an exception.

**Fairness.** Weak fairness of `Run(s)` for each stream, because a CUDA stream
runs what it was given once its waits are satisfied; and of
`LaunchDelayedBackward`, with whichever outcome, because
`dispatch_decode_port_bundles` calls `on_step_end` right after the
`consume_bundle` that staged the step (`residual_bundle_dispatch.py:409-417`).
Nothing else obliges the host, which may stop at any other point.
`StagedIsSettled` is then about the handles `ensure_resources` leaves behind: a
launch that finds no training stream raises before it takes the staged step,
which would stay staged and have every later launch refused.

## 4. What the checks found

Each of these has a run that finds it:

* After `update_config` with a new resource signature on a runtime whose sampler
  is guided, the next step assigns slots and predicts before `consume_bundle`
  rebuilds the bank; the assertion at `engine.py:687` raises in the forward.
* `decode_row_idx` is written up to the step's rows only and gathered whole
  (`port_runtime_hooks.py:254`, `residual_capture_hooks.py:65`): in a forward that
  is not padded, a step with fewer tokens than an earlier one had rows gathers
  out of range.
* The Dummy consumer uses `export_max_rows` (1 by default) as the row cap of its
  flow, so a step with two decode rows raises where the guide speaks of copying
  a small slice.
* With the dense backend and a batch of greedy and random rows, the logits are
  guided in place and guided again part by part (`bridge.py:282`, 409, 449).

These show under other constants, or with a definition that no run lists:

* Pipeline, `Outgrows = {TRUE, FALSE}`: when a batch has other rows than the
  pipeline was built for, it is rebuilt while side streams still work on the old
  buffers, and the new events know nothing of them. If the allocator gives the new
  buffers the old memory, as the model assumes it may, a step is staged over rows
  still to be trained: `TrainsItsOwnRows`, `NoDataRace` and
  `ImplementsTrainingQueue` fail, `StatsReadIsComplete` holds. With
  `graph_scratch_rows` unset the pipeline has room for `max_num_reqs` rows.
* Bank: a slot is never released, though `doc/developer-guides/esamp-design.md:93`
  speaks of active requests; `ExhaustedOnlyByActive` fails in `bank.cfg`.
* Decode step, dense backend (`Backends = {"pre_filter_dense"}`): the fast path
  does not compare the rows of the logits with the decode rows, so with
  `MixedSteps` a prefilling request is guided; and it does not wait for the
  prediction's event (`sampler_patch.py:152`), so with `SideStream`, which is how
  it runs on CUDA (`sampler_provider.py:332`), it may read what is not written.
  Either way `GuidedByOwnPrompt` fails. `GuidedByOwnInTime` leaves out these two
  cases of this backend and nothing else, and holds.
* Decode step, `Replayed = TRUE`, `Lanes = {TRUE}`: `DeliveredRowsAreCurrent`
  fails in the first step; a graph captured while no compact row is active skips
  the compact gather in every replay. With a reconfiguration, `GuidedByOwnPrompt`
  fails: a capture set up without the full rows keeps leaving them out.
* Decode step, `EmptyCalls = TRUE`: `DeliveredOnce` fails; a call of
  `execute_model` with nothing scheduled delivers the last step again. And in a
  step whose rows all lack a prompt, ESamp's flow gets no direct bundle, goes
  out as frames instead, and the consumer raises (`Refused`).
* Sampler, `Setups <- MCPromptOrder`: several per-request models are predicted
  prompt by prompt (`engine.py:1740`), and the binary search for a row's place
  finds another row's prediction. `Setups <- MCSharedMixed`: at mixed
  temperatures with a shared prompt the row map leads beyond the part's
  predictions (`exact_backend.py:73`).
* Sampler: guided rows of the dense backend, and rows without a prediction,
  ignore min-p; condense does not move `min_p_cpu`, so a moved request gets the
  value its row had (`moved` excepts it from the properties); an all-greedy batch
  without a temperature fails the assertion of an active provider
  (`sampler_patch.py:180`).
* Training: the eager kernel frees the gradients that captures of *other* slots'
  graphs accumulate into (`engine.py:1242`), so `SharedGradientsHeld` holds for
  the shared graph only; a replay's losses reach no per-request entry
  (`engine.py:1785`); a slot's graph keeps the row count of the first batch it was
  captured over, and every larger batch misses it; a failed fit drops its
  rows but keeps the count of steps, so the next fit follows on one row.
* Dispatch (read off the model; no property names them): the exporter's flow has
  the background window, so its `on_step_end`, and with it the drain at
  `feedback_interval`, is never called by the runtime; in a compiled runner whose
  forward still runs as Python (`PythonForward`), a `layer.post` subscription is
  sent its batch by the hooks and again deferred; two locators on one path leave
  one binding; a consumer with two foreground flows is told twice that the step
  has ended, the first time before the other flow's bundles; clearing the
  registry leaves the runtime consumer planned.

## 5. Proofs

Each proof is of the shape `Init => IInv`, `IInv /\ [Next]_vars => IInv'`,
`IInv => P`, with a lemma per action; every theorem holds for all values of the
constants that satisfy the module's named assumptions, and what a theorem assumes
beyond those is said below.

`ESampPipelineProofs` proves every safety property of the pipeline. `TypeCorrect ==
Spec => []TypeOK` is inductive by itself. The others are not: that a job reads its
own rows is decided by operations that are still in the logs. The invariant therefore
speaks about pairs of operations, run or not. `OrderInv`: whenever one must follow
another - a training its staging, a staging the training of the slot's previous
occupant, a forward the copies of the taps, a training the one before - it stands
later in the same stream, or behind a wait for an event recorded late enough, or the
other has already run. That a launch keeps this depends on what the launches before
it left behind: a side stream has still to stage only as forward stream, and to train
only as training stream, before the done event of the slot (`SideInv`); what is ready
has been staged before its events (`SlotInv`); handles that are dropped name idle
streams (`HostInv`), a step has each kind of operation once (`Unique`, `Placed`), and
buffers, taps and the history agree with what has run (`BufferInv`, `TapInv`,
`HistoryInv`). Together with `TypeOK` these are inductive (`AlwaysOrdered`), and from
them follow `OwnRowsAlwaysTrained`, `NeverRaces` and `StatsAlwaysComplete`.
`PipelineImplementsQueue` maps every step of the pipeline to a step of
`TrainingQueue` or a stutter: only a launch that accepts a job extends the queue, and
only `Run` of a training shortens it, at its oldest job, because jobs of earlier
steps are ordered before it. `TypeCorrect` holds for all constants; the other
theorems assume `PipelineFits`, `Outgrows \subseteq {FALSE}`, without which all but
`StatsAlwaysComplete`, whose proof rests on the same invariant, are false (section 4).

`DecodeStepProofs` proves every property of `step` and `step_capacity`. `IInv` is
`TypeOK` with: what the metadata and the row indices say is about the batch at hand,
also after steps that left longer tails in the fixed buffers (`LocalInv`); what the
capture was set up for and when (`SetupInv`); once the forward has run, the active
rows of the tap buffers are those of the step (`TapInv`); and a cached prediction is
that of the step at hand until the next is prepared (`CacheInv`). `TypeCorrect`,
`AllAreDelivered` (an action property: dispatch walks the metadata or its compaction,
which `FirstPerPrompt` keeps in order and complete) and `EveryRowIsGuided` need no
more. `DeliveredAreCurrent` assumes `LaneInUse`: where the compact lane may be on,
forwards are not replayed from a CUDA graph and the engine is not reconfigured; the
configurations of `step` and `step_capacity` satisfy it, and section 4 shows that
without it the property is false. `GuidedByOwn` assumes nothing of the constants.
It says `[](setup.full => GuidedByOwnInTime)`: as long as the forward captures the
full rows, which the setup under the compact lane decides once, each guided row is
guided by its own prediction of this step, with either backend, on any stream, over
every sequence of toggles and reconfigurations, except that the dense backend may
read a prediction before it was computed or meet prefilling requests. So those two
defects of section 4 are all that can go wrong with its guidance.
`ExactGuidedByOwn` states what is left for the exact backend, `GuidedByOwnPrompt`
itself.

`ModelBankProofs` proves every invariant of the `bank` run, for every set of
prompts, capacity, tensor length and bound. None but the pair `MapTypes` and
`SlotMapsAreInverse` is inductive alone. The tensor agrees with the map only
because what is published has been assigned, which depends on how far the host
has walked through the rows of the step (`VisitedAreAssigned`); a guided row is
predicted with its own slot only because the step has published it
(`PreparedArePublished`); and that the tensor exists at all depends on the bank
(`LookupExists`) and on the phase (`PhaseInv`). `IInv` is their conjunction;
there is a lemma for a slot's assignment (`AssignExtendsMaps`), for a reset
(`ResetKeepsMaps`), for publication (`PublishedAgrees`), and one per action.
`OwnSlot` assumes in addition that every prompt index lies inside the tensor
(`Prompts \subseteq Indices`): beyond it, indices are clamped and a row gets the
slot of the tensor's last prompt.

`DispatchExportProofs` proves of the composition, for all consumers, flows, batches
and configurations, four things. `ExportAlwaysAccounted`: the exporter's books
balance and its queue keeps its bound; inductive once the types of its counters
are added (`ExportInv`), with a lemma per operation of the consumer.
`ExportImplements == ExportSpec => Export!Spec`: a step of the composition is a
step of the exporter or leaves it alone, which needs the runtime's step counter
to stay among the steps the exporter's specification allows (`StepInv`).
`AlwaysExportedInOrder`: a batch goes behind those before it, whether queued or
given away by a drain (`LatestGoesLast`, `Moved`), because what is queued and done
is of earlier steps than the next (`InOrder`). `SynchronizeAlwaysCompletes`, an
action property: synchronizing leaves nothing queued (`SynchronizeEmpties`), so by
the books everything not dropped is done.

`DispatchProofs` proves who is called, and with what. `DispatchInv` says that the plan
is the one of what is registered, that the bindings name a path once each and are
those of their locators, and that the step's rows are a sequence. Given that, every
handler of the host makes calls that are `Good`: to who is planned, with consistent
bundles, each followed by the end of the step where its flow is a foreground one.
For a direct bundle this rests on the strided view selecting the same rows as the
gather (`StridedRows`). For an assembled one it is an induction over the frames:
each row of each bound layer sends its frame once, in the order of rows, request
metadata with the first binding only (`FramesAreCounted`); the assembler keeps for
each group, as payloads of each entry, the rows that have arrived of it
(`PushAssembles`); so a complete group has all its entries of the same rows
(`StepBundleIsConsistent`, `RowBundleIsConsistent`). `HostDoes` sums up what a step
of the host does to the list of calls, and `CallsInv` (everything to be called is
sound, everything called consistent) and `FollowInv` (what was called and is to be
called in this step ends it for whoever was given a bundle) are invariant. They give
`OnlyRegisteredAreCalled`, `BundlesAlwaysConsistent` and
`StepAlwaysEndsAfterBundles`. `BundlesAlwaysConsistent` assumes `NamedReads`: every flow
reads something and gives each read a name of its own. The flows of `src/` do
(`consumer.py:89`, `tllm/consumers/dummy/consumer.py:42`), and the bundle's
entries are a dictionary by name; but nothing in `ConsumerFlow` refuses two reads
of one role, and then one would overwrite or be merged into the other.

The other two theorems of the module count what a step that ends has called.
`LayersAreGivenOnce` says that each `layer.post` subscription was given each tapped
layer once. Which of two places gives it depends on how the forward ran: the
hooks give it inside the forward, the host gives it afterwards where the forward
was a replay. `PostInv` says where a step stands: nothing given before the forward, nor
after one that was replayed; everything once after one that ran as Python, and at
the end. It assumes that neither locator's path is the word the model uses where an
event has no layer (`"none"`, for which no subscription is filtered by layer), and that a
compiled runner does not run its forward as Python (`PythonForward \subseteq
{FALSE}`, as in the `dispatch` run): where it does, layers are given twice (section 4).

`DueFlowsAreServed` says that each planned flow whose reads are bound was given
exactly the bundles it is due, once for each registration of its consumer. It
goes on where `FramesAreCounted` stops: of the frames that have come, those of a
group are the rows of the layers seen so far (`Arrived`), a group is pending from its
first frame until it is whole, a flow that asks for single rows has given one
bundle per whole group in order, and one that asks for the step has given nothing
until its last frame (`Gathered`). `ServeInv` carries the result over a step:
no bundle before the host ends it, the right number afterwards. `CarryInv` is what the
frames need of the hooks, a binding that carries the request metadata; it holds
when the two locators are at different layers, since of two bindings of one path
`build_resolved_bindings` (`residual_bindings.py:88`) keeps the later, which carries
none. The theorem assumes that, `NamedReads`, and that no flow reads a port twice
(`ReadPortsOnce`): of two reads of one port only the first takes frames, so the bundle
would never be whole. Again the flows of `src/` satisfy both and `ConsumerFlow` refuses
neither.

`SamplerBridgeProofs` proves every property of the `sampler` run. `MinPStaysWithRequest`,
`AlwaysSampledAsAsked` and `AlwaysFilteredByOwn` hold of every batch size, set of requests
and set-up. The batch part
of the invariant needs its types and that condense moves each request to one hole of
its own. The sampling part needs that used rows are a prefix of the batch once a
section runs (`Contiguous`), that the rows of each part, listed by `Ordered` in
increasing order, are found again by the rank they have in it, and that each section
selects generators and filters by those same row ids.

`AlwaysGuidedOnceByOwn` says of every batch size that a row with a distiller is
guided once, by the prediction made for its prompt, and no other row is. It assumes
`GuidedSetups`: where guidance is on, the dense backend guides requests of one
temperature, in per-request mode one prompt only has a model, and the post-filter
backends with the bank sample one temperature or no prompt twice. The `sampler` run has
set-ups of each kind; section 4 has one outside of each condition, and there the
property is false. The proof has three parts. The affected rows are listed in
increasing order in every mode these set-ups leave (`AffectedInOrder`), so a row may be
searched for. The binary search finds it (`LowerBoundFinds`): the search is a recursive
function over spans of the list, which is shown to be well defined by induction on the
length of the span (`SearchExists`) and then to return the rank of the row, because
each half keeps it. And each section guides row by row with what was found
(`FullDenseGuides`, `FullExactGuides`, `PartsGuide`); in particular a part never meets
predictions made once per prompt, whose row map only the exact section follows
(`CompactedHaveOne`).

`DistillerTrainingProofs` proves every property of the `training` run, for every
number of prompts, rows and slots and every set of configurations. What a replay
trains is what its graph says, so the invariant is about graphs that are *not* being
used: `GraphsOk` says that the mask of every graph lies within its last batch, that
its storage belongs to the current pipeline and fits its rows, and that a captured
graph implies a configuration with graphs and existing resources. `HostOk` and
`JobOk` add where the host is in the step and that the rows of the step lie in its
slot. From them a staged graph replays exactly the rows just staged (`StagedFits`,
`ReplayTrainsRows`), and each of `Storage`, `Freed` and `Captured` keeps a graph fit;
there is one lemma per action. `SharedGradientsAlwaysHeld` adds `SharedOk`: a
captured shared graph belongs to a configuration without a bank, and since its
storage always has all rows of the pipeline (`SharedStorage`), every batch is
replayed on it; a kernel, which would free its gradients, follows only a replay that
failed and gave the graph up.

`StartsAlwaysFromTemplate` and `FitsAlwaysOwn` add `SlotInv`. That a slot given to a
prompt was filled for it depends on three things no single state shows. The map
gives its prompts the first slots, one each (`MapOk`; `MapAfter` counts the rows of
a batch that need a slot, of which `Assignable` are served). The initializer has
marked slots of the map only, so a slot that is handed out is new to it whatever
resets came before, and is filled (`InitializerOk`, `AssignEffects`). And a template
that can be found is there as soon as the bank is, because `consume_bundle` looks for
one whenever it builds resources: without this a slot could be assigned untemplated,
trained, and the template found only later. A batch trains the slot of each row with
that row (`BatchAlwaysTrained`), and the map is injective, so a slot learns from its
owner only (`TrainBankSlots`); the rows collected for a fit are the owner's for the
same reason (`RowsOfOwner`), and capped (`CollectedRows`).

`OrderedSetsProofs` holds the lemmas these share: a set listed by `Ordered` is a
sequence of its elements in increasing order, each once (`OrderedSequence`,
`OrderedLists`), an element of a finite set is found at its rank (`RanksList`, `Ranks`), a
nonempty one has a greatest (`Greatest`) and a least (`Least`). It also holds what the
proofs about lists of calls and frames need of the community operators on
sequences: the elements of a concatenation (`Joined`), of a flattened sequence of
sequences (`FlattenElements`, over the steps of its fold, `Flattening`), and of the
positions kept of a sequence (`KeptElements`); and, for counting, what is picked of
each of these (`PickedFlattened`, `KeptCount`, `FlattenHolds`). Inductions over frames
and spans are inductions to a bound (`Upto`), a lemma about sets of numbers.

Only model-checked: liveness (`StagedIsSettled`), which the prover cannot express.
Every other property of a passing run is stated by a theorem.

## 6. Not modelled, and the plan

Not modelled by design: the arithmetic of models, losses, kernels and sampling;
timing, tracing, debug counters and reporting; the vLLM version adapters and the
declarations of ports, which have no behaviour; workflows and benchmarks, which
drive the runtime; `launch_external_backward`, which nothing calls; the graph of
the `model_bank` mode as a whole, which nothing uses (each pipeline slot has its
own); the candidate paths of a fixed top-k, which nothing selects; KV ports,
which nothing produces.

Planned:

1. The prediction stream as a third stream of `ESampPipeline`: it reads the
   parameters the training stream writes.
2. The prefill producer and the capture runner.
