----------------------------- MODULE DecodeStep -----------------------------
(****************************************************************************)
(* One decode step of the host through the hooks tLLM puts around vLLM's    *)
(* model runner (src/tllm/runtime/vllm_patch/port_runtime_hooks.py): load,  *)
(* _prepare_inputs (localize the decode rows), the forward (its taps gather *)
(* them), compute_logits (schedule the distiller's prediction), the sampler *)
(* (use it) and the end of execute_model (deliver the step's bundle to the  *)
(* ESamp consumer).                                                         *)
(*                                                                          *)
(* All of these communicate through state that is reused by every step:     *)
(* fixed row-index and tap buffers, decode metadata, a cached prediction.   *)
(* A hidden row is abstracted to the step and the row of the packed tensor  *)
(* it was gathered from, so whose row a buffer holds is visible.  Rows are  *)
(* counted from 1.                                                          *)
(****************************************************************************)
EXTENDS OrderedSets, Sequences

CONSTANTS
  Prompts,        \* prompt indices of the mapped requests
  NoPrompt,       \* the prompt of a request that is not mapped (-1 in the code)
  ScratchRows,    \* graph_scratch_rows: rows of the full buffers
  Slots,          \* model_bank_slots: max_bundle_rows of the bank's flow, 0 for none
  Backends,       \* sampler backends a configuration may choose
  Lanes,          \* values of compact_capture_lane a configuration may choose
  MixedSteps,     \* a step may prefill some requests and decode others
  EmptyCalls,     \* execute_model may be called with nothing scheduled
  SideStream,     \* the prediction runs on a CUDA stream of its own
  Replayed,       \* the forward replays a CUDA graph captured after load
  PackedAtLeast,  \* padding of the packed hidden tensor (CUDA-graph batch size)
  MaxRows,        \* bound: requests of one step
  MaxSteps,       \* bound: decode steps
  MaxConfigs      \* bound: reconfigurations and toggles

ASSUME PromptAssumption == NoPrompt \notin Prompts
ASSUME RowAssumption == ScratchRows \in Nat \ {0} /\ Slots \in Nat
ASSUME ModeAssumption ==
  /\ Backends \subseteq {"post_filter_exact", "pre_filter_dense"}
  /\ Lanes \subseteq BOOLEAN
  /\ {MixedSteps, EmptyCalls, SideStream, Replayed} \subseteq BOOLEAN
ASSUME BoundAssumption ==
  PackedAtLeast \in Nat /\ MaxRows \in Nat /\ MaxSteps \in Nat /\ MaxConfigs \in Nat
\* The graph is captured once, after load: hooks installed later are not part of it.
ASSUME ReplayAssumption == Replayed => MaxConfigs = 0

VARIABLES
  cfg,          \* the configuration, shared by runtime, consumer and provider
  plan,         \* row compaction of the planned flow, or "none planned"
  setup,        \* what apply_runtime_setup decided when the hooks were installed
  bound,        \* the sampler knows the runtime (bind_runner_sampler)
  phase,        \* how far the host is in the step
  batch,        \* the requests of the last _prepare_inputs
  step,         \* event_step_id
  rowIdx,       \* decode_row_idx
  meta,         \* decode_request_ids and decode_prompt_idxs, of length decode_count
  compactIdx,   \* decode_compact_row_idx
  compactIds,   \* decode_compact_row_ids, of length decode_compact_count
  tap,          \* tap_decode_hidden
  compactTap,   \* tap_decode_hidden_compact
  publishStep,  \* sampler_precompute.port_publish_step_id
  launchedStep, \* decode_post_logits_launched_step_id
  cache,        \* sampler_precompute.cache
  ready,        \* the prediction in the cache has been computed
  guided,       \* the prediction each row of the logits was modified with
  delivered,    \* the rows of the last bundle
  deliveries,   \* bundles delivered since the last _prepare_inputs
  raised,       \* the exception that ended the run
  configs       \* reconfigurations and toggles so far

configVars  == <<cfg, plan, configs>>
setupVars   == <<setup, bound>>
localVars   == <<batch, step, rowIdx, meta, compactIdx, compactIds>>
tapVars     == <<tap, compactTap>>
samplerVars == <<publishStep, launchedStep, cache, ready, guided>>
deliverVars == <<delivered, deliveries>>
vars == <<configVars, setupVars, localVars, tapVars, samplerVars, deliverVars, phase, raised>>

-----------------------------------------------------------------------------
\* The prompt of a prefilling request is never looked up.
Request == {r \in [prompt : Prompts \cup {NoPrompt}, decode : BOOLEAN] :
              r.decode \/ r.prompt = NoPrompt}
Batches == {b \in UNION {[1 .. n -> Request] : n \in 1 .. MaxRows} :
              MixedSteps \/ \A i, j \in DOMAIN b : b[i].decode = b[j].decode}

Config == [train : BOOLEAN, bank : BOOLEAN, intervene : BOOLEAN,
           backend : Backends, lane : Lanes]

\* A hidden row, and what a buffer holds before anything is written to it.
Hidden(s, r) == [step |-> s, row |-> r]
Unwritten    == Hidden(0, 0)

\* vLLM packs one token for a decoding request and, here, two for a prefilling one, in
\* batch order, and samples each request from its last token.
LogitsIndices(b) ==
  [i \in DOMAIN b |-> i + Cardinality({j \in 1 .. i : ~b[j].decode})]

PackedRows(b) ==
  LET tokens == LogitsIndices(b)[Len(b)]
  IN  IF tokens < PackedAtLeast THEN PackedAtLeast ELSE tokens

DecodePositions(b) == Ordered({i \in DOMAIN b : b[i].decode})

\* Mutants: only neighbours are compared; unmapped rows are kept.
FirstOfRun(rows) ==
  Ordered({i \in DOMAIN rows :
             /\ rows[i].prompt # NoPrompt
             /\ i > 1 => rows[i - 1].prompt # rows[i].prompt})

FirstOrUnmapped(rows) ==
  Ordered({i \in DOMAIN rows : \A j \in 1 .. i - 1 : rows[j].prompt # rows[i].prompt})

\* The rows that come first for their prompt, of rows that have one.
FirstPerPrompt(rows) ==
  Ordered({i \in DOMAIN rows :
             /\ rows[i].prompt # NoPrompt
             /\ \A j \in 1 .. i - 1 : rows[j].prompt # rows[i].prompt})

\* Mutant: one row short.
OverwriteShort(buffer, rows) ==
  [i \in DOMAIN buffer |-> IF i < Len(rows) THEN rows[i] ELSE buffer[i]]

Overwrite(buffer, rows) ==
  [i \in DOMAIN buffer |-> IF i \in DOMAIN rows THEN rows[i] ELSE buffer[i]]

Pick(s, ids) == [i \in DOMAIN ids |-> s[ids[i]]]

\* Mutant: the decode positions are taken to be contiguous.
RowsFromFirst(b) ==
  LET pos == DecodePositions(b)
  IN  [i \in DOMAIN pos |-> LogitsIndices(b)[pos[1] + i - 1]]

\* compute_decode_localization: the packed row of each decode request.
LocalizedRows(b) == Pick(LogitsIndices(b), DecodePositions(b))

-----------------------------------------------------------------------------
\* The flow the consumer declares, as the dispatch plan caches it.
NoPlan == "none planned"
PlanOf(c) ==
  IF ~c.train THEN NoPlan ELSE IF c.bank THEN "first_per_prompt" ELSE "none"

PlanActive == plan # NoPlan
ProviderActive == cfg.train /\ cfg.intervene

\* The capture buffers for a plan: the compact lane, if any, and whether the forward
\* gathers the full decode rows as well.
CompactRows(c, p) ==
  IF c.lane /\ p = "first_per_prompt"
  THEN IF Slots > 0 THEN Slots ELSE ScratchRows
  ELSE 0

NoSetup == [done |-> FALSE, full |-> TRUE, compact |-> 0]
\* Mutant: guidance does not ask for the full rows.
SetupForFlow(c, p) ==
  [done |-> TRUE, compact |-> CompactRows(c, p), full |-> CompactRows(c, p) = 0]

SetupFor(c, p) ==
  [done    |-> TRUE,
   compact |-> CompactRows(c, p),
   full    |-> CompactRows(c, p) = 0 \/ p # "first_per_prompt" \/ c.intervene]

\* Installing the hooks allocates the buffers; a model that has them keeps them,
\* whatever the configuration has become.
InstallHooks ==
  IF PlanActive /\ ~setup.done
  THEN LET s == SetupFor(cfg, plan)
       IN  /\ setup' = s
           /\ tap' = [i \in 1 .. ScratchRows |-> Unwritten]
           /\ compactTap' = [i \in 1 .. s.compact |-> Unwritten]
  ELSE UNCHANGED <<setup, tap, compactTap>>

NoCache == [step |-> -1, pred |-> <<>>, map |-> <<>>]

Init ==
  /\ cfg \in Config /\ plan = PlanOf(cfg)
  /\ setup = NoSetup /\ bound = FALSE
  /\ phase = "unloaded"
  /\ batch = <<>> /\ step = 0
  /\ rowIdx = [i \in 1 .. ScratchRows |-> 1] /\ meta = <<>>
  /\ compactIdx = <<>> /\ compactIds = <<>>
  /\ tap = [i \in 1 .. ScratchRows |-> Unwritten] /\ compactTap = <<>>
  /\ publishStep = -1 /\ launchedStep = -1
  /\ cache = NoCache /\ ready = TRUE /\ guided = <<>>
  /\ delivered = <<>> /\ deliveries = 0
  /\ raised = "nothing"
  /\ configs = 0

Running == raised = "nothing"

Raise(what) ==
  /\ raised' = what
  /\ UNCHANGED <<configVars, setupVars, localVars, tapVars, samplerVars, deliverVars, phase>>

-----------------------------------------------------------------------------
\* wrapped_load_model.
Load ==
  /\ Running /\ phase = "unloaded"
  /\ InstallHooks
  /\ bound' = PlanActive
  /\ compactIdx' = [i \in 1 .. setup'.compact |-> 1]
  /\ phase' = "idle"
  /\ UNCHANGED <<configVars, batch, step, rowIdx, meta, compactIds, samplerVars,
                 deliverVars, raised>>

\* Mutant: no check of the capacities.
LocalizeUnchecked(b) ==
  LET pos  == DecodePositions(b)
      m    == [i \in DOMAIN pos |-> [pos |-> pos[i], prompt |-> b[pos[i]].prompt]]
      keep == IF setup'.compact > 0 THEN FirstPerPrompt(m) ELSE <<>>
  IN  /\ rowIdx' = Overwrite(rowIdx, LocalizedRows(b))
      /\ meta' = m
      /\ compactIds' = keep
      /\ compactIdx' = Overwrite([i \in 1 .. setup'.compact |-> 1],
                                 Pick(LocalizedRows(b), keep))

\* prepare_decode_localization: only the first rows of the fixed buffers are written.
Localize(b) ==
  LET pos  == DecodePositions(b)
      rows == LocalizedRows(b)
      m    == [i \in DOMAIN pos |-> [pos |-> pos[i], prompt |-> b[pos[i]].prompt]]
      keep == IF setup'.compact > 0 THEN FirstPerPrompt(m) ELSE <<>>
  IN  /\ Len(pos) <= ScratchRows
      /\ Len(keep) <= setup'.compact
      /\ rowIdx' = Overwrite(rowIdx, rows)
      /\ meta' = m
      /\ compactIds' = keep
      /\ compactIdx' = Overwrite(IF setup.done THEN compactIdx
                                 ELSE [i \in 1 .. setup'.compact |-> 1],
                                 Pick(rows, keep))

\* wrapped_prepare_inputs, with the sampler's reset_decode_step.
PrepareInputs(b) ==
  /\ Running /\ phase = "idle" /\ step < MaxSteps
  /\ InstallHooks
  /\ batch' = b
  /\ IF PlanActive
     THEN /\ step' = step + 1
          /\ Localize(b)
          /\ publishStep' = -1 /\ cache' = NoCache /\ ready' = TRUE
     ELSE UNCHANGED <<step, rowIdx, meta, compactIdx, compactIds, publishStep, cache,
                      ready>>
  /\ guided' = <<>> /\ deliveries' = 0
  /\ phase' = "prepared"
  /\ UNCHANGED <<configVars, bound, launchedStep, delivered, raised>>

\* The two exceptions of the localization.
PrepareInputsRaises(b) ==
  LET pos == DecodePositions(b)
      m   == [i \in DOMAIN pos |-> b[pos[i]]]
      capacity == IF setup.done THEN setup.compact ELSE CompactRows(cfg, plan)
  IN  /\ Running /\ phase = "idle" /\ step < MaxSteps /\ PlanActive
      /\ \/ Len(pos) > ScratchRows
         \/ capacity > 0 /\ Len(FirstPerPrompt(m)) > capacity
      /\ Raise("scratch capacity")

-----------------------------------------------------------------------------
\* The taps of the forward.  Run as Python they gather every row of the full buffer,
\* and the active rows of the compact one; a replayed graph repeats what they did at
\* capture, when no row was active.
Gathered(ids) == [i \in DOMAIN ids |-> Hidden(step, ids[i])]

TapsRun == setup.done /\ PlanActive

Forward ==
  /\ Running /\ phase = "prepared"
  /\ TapsRun /\ setup.full => \A i \in 1 .. ScratchRows : rowIdx[i] <= PackedRows(batch)
  /\ tap' = IF TapsRun /\ setup.full THEN Gathered(rowIdx) ELSE tap
  /\ compactTap' = IF TapsRun /\ ~Replayed
                   THEN Overwrite(compactTap,
                                  Gathered(SubSeq(compactIdx, 1, Len(compactIds))))
                   ELSE compactTap
  /\ phase' = "forwarded"
  /\ UNCHANGED <<configVars, setupVars, localVars, samplerVars, deliverVars, raised>>

\* index_select with an index beyond the packed tensor.
ForwardRaises ==
  /\ Running /\ phase = "prepared" /\ TapsRun /\ setup.full
  /\ \E i \in 1 .. ScratchRows : rowIdx[i] > PackedRows(batch)
  /\ Raise("tap index")

-----------------------------------------------------------------------------
\* Mutant: the first rows of the buffer instead of the selected ones.
PredictedPrefix(rows) ==
  [i \in DOMAIN rows |-> [hidden |-> tap[i], prompt |-> meta[rows[i]].prompt]]

\* predict_hidden_for_sampling on some of the decode rows.
Predicted(rows) ==
  [i \in DOMAIN rows |-> [hidden |-> tap[rows[i]], prompt |-> meta[rows[i]].prompt]]

\* maybe_schedule_precompute: with the bank and the exact backend only the first row of
\* each prompt is predicted, and a map leads every row to its prompt's prediction.
Prediction ==
  LET keep      == FirstPerPrompt(meta)
      compacted == /\ cfg.bank /\ cfg.backend = "post_filter_exact"
                   /\ keep # <<>> /\ Len(keep) < Len(meta)
      rows      == IF compacted THEN keep ELSE [i \in DOMAIN meta |-> i]
      mapped(i) == {j \in DOMAIN keep : meta[keep[j]].prompt = meta[i].prompt}
  IN  [step |-> step,
       pred |-> Predicted(rows),
       map  |-> [i \in DOMAIN meta |->
                   IF ~compacted THEN i
                   ELSE IF mapped(i) = {} THEN 0 ELSE CHOOSE j \in mapped(i) : TRUE]]

\* Mutant: the mark of a launched step is never compared with the step.
LaunchedOnce == launchedStep # -1

\* The guard against a second launch in one step.
Launched == launchedStep = step

\* The hook around compute_logits: maybe_launch_post_logits_decode_work.
ComputeLogits ==
  /\ Running /\ phase = "forwarded"
  /\ IF TapsRun /\ ProviderActive /\ ~Launched /\ meta # <<>>
     THEN /\ publishStep' = step
          /\ cache' = Prediction
          /\ ready' = ~SideStream
          /\ launchedStep' = step
     ELSE UNCHANGED <<publishStep, cache, ready, launchedStep>>
  /\ phase' = "logits"
  /\ UNCHANGED <<configVars, setupVars, localVars, tapVars, guided, deliverVars, raised>>

\* The prediction's stream gets to the prediction.
Predict ==
  /\ ~ready
  /\ ready' = TRUE
  /\ UNCHANGED <<configVars, setupVars, localVars, tapVars, publishStep, launchedStep,
                 cache, guided, deliverVars, phase, raised>>

-----------------------------------------------------------------------------
\* wrapped_sampler_sample.  A batch that is sampled at random, without generators of its
\* own, may take the fast path.
SamplerGuides == bound /\ ProviderActive

FastPath(random) ==
  /\ SamplerGuides /\ random
  /\ cfg.backend = "pre_filter_dense"
  /\ cache # NoCache /\ cache.step = step

\* build_sampler_step_view and prepare_step.
HasView ==
  /\ SamplerGuides
  /\ meta # <<>> /\ Len(batch) = Len(meta)
  /\ publishStep = step /\ cache.step = step

PredictionOfRow(i) == cache.pred[cache.map[i]]

SampleFast ==
  /\ Running /\ phase = "logits" /\ FastPath(TRUE)
  /\ Len(meta) \in {1, Len(batch)}
  /\ guided' = [i \in DOMAIN batch |->
                  LET p == PredictionOfRow(IF Len(meta) = 1 THEN 1 ELSE i)
                  IN  IF ready THEN p ELSE [p EXCEPT !.hidden = Unwritten]]
  /\ phase' = "sampled"
  /\ UNCHANGED <<configVars, setupVars, localVars, tapVars, publishStep, launchedStep,
                 cache, ready, deliverVars, raised>>

SampleWithView(random) ==
  /\ Running /\ phase = "logits" /\ ~FastPath(random) /\ HasView
  /\ ready
  /\ \A i \in DOMAIN meta : cache.map[i] # 0
  /\ guided' = [i \in DOMAIN batch |-> PredictionOfRow(i)]
  /\ phase' = "sampled"
  /\ UNCHANGED <<configVars, setupVars, localVars, tapVars, publishStep, launchedStep,
                 cache, ready, deliverVars, raised>>

SampleVanilla(random) ==
  /\ Running /\ phase = "logits" /\ ~FastPath(random) /\ ~HasView
  /\ phase' = "sampled"
  /\ UNCHANGED <<configVars, setupVars, localVars, tapVars, samplerVars, deliverVars,
                 raised>>

\* Dense logits of another number of rows, or a row without a prompt in a row map.
SampleRaises(random) ==
  /\ Running /\ phase = "logits"
  /\ \/ FastPath(random) /\ Len(meta) \notin {1, Len(batch)} /\ Raise("dense rows")
     \/ /\ ~FastPath(random) /\ HasView /\ ready
        /\ \E i \in DOMAIN meta : cache.map[i] = 0
        /\ Raise("row map")

-----------------------------------------------------------------------------
\* build_step_scope_port_bundle: the rows of the bundle, from the compact lane if it
\* holds exactly these rows, else from the full buffer.
BundleIds ==
  IF plan = "first_per_prompt" THEN FirstPerPrompt(meta) ELSE [i \in DOMAIN meta |-> i]

FromLane(ids) ==
  plan = "first_per_prompt" /\ ids = compactIds /\ Len(ids) <= Len(compactTap)

\* Mutant: the rows are taken from the start of the buffer.
BundleRowFromStart(ids, i) ==
  [hidden |-> IF FromLane(ids) THEN compactTap[i] ELSE tap[i],
   pos    |-> meta[ids[i]].pos,
   prompt |-> meta[ids[i]].prompt]

BundleRow(ids, i) ==
  [hidden |-> IF FromLane(ids) THEN compactTap[i] ELSE tap[ids[i]],
   pos    |-> meta[ids[i]].pos,
   prompt |-> meta[ids[i]].prompt]

OverCap(ids) == plan = "first_per_prompt" /\ Slots > 0 /\ Len(ids) > Slots

\* Rows but none of a mapped prompt: the step-scope bundle is declined and the rows go
\* out as frames, whose request_meta is a list of dictionaries.
OnlyFrames == plan = "first_per_prompt" /\ meta # <<>> /\ BundleIds = <<>>

\* The consumer takes no rows while training is off, and refuses request_meta that is
\* not a RowBatchMeta (consume_bundle).
Refused == OnlyFrames /\ cfg.train

\* dispatch_decode_port_bundles.
Deliver ==
  LET ids == BundleIds
  IN  /\ PlanActive => ~OverCap(ids) /\ ~Refused
      /\ IF PlanActive /\ ids # <<>> /\ cfg.train
         THEN /\ delivered' = [i \in DOMAIN ids |-> BundleRow(ids, i)]
              /\ deliveries' = deliveries + 1
         ELSE UNCHANGED <<delivered, deliveries>>

\* The end of wrapped_execute_model.
Dispatch ==
  /\ Running /\ phase = "sampled"
  /\ Deliver
  /\ phase' = "idle"
  /\ UNCHANGED <<configVars, setupVars, localVars, tapVars, samplerVars, raised>>

EmptyCall == EmptyCalls /\ Running /\ phase = "idle" /\ deliveries < 2

DispatchRaises ==
  /\ Running /\ (phase = "sampled" \/ EmptyCall)
  /\ PlanActive
  /\ \/ OverCap(BundleIds) /\ Raise("row cap")
     \/ Refused /\ Raise("row metadata")

\* wrapped_execute_model when vLLM returns before it prepares inputs, because nothing is
\* scheduled: the end of the step runs all the same.
ExecuteNothing ==
  /\ EmptyCall
  /\ Deliver
  /\ UNCHANGED <<configVars, setupVars, localVars, tapVars, samplerVars, phase, raised>>

-----------------------------------------------------------------------------
\* configure_esamp_runtime between two generations, with reset_step.
Reconfigure(c) ==
  /\ Running /\ phase = "idle" /\ configs < MaxConfigs
  /\ cfg' = c /\ plan' = PlanOf(c)
  /\ configs' = configs + 1
  /\ meta' = <<>> /\ compactIds' = <<>>
  /\ publishStep' = -1 /\ launchedStep' = -1 /\ cache' = NoCache /\ ready' = TRUE
  /\ UNCHANGED <<setupVars, batch, step, rowIdx, compactIdx, tapVars, guided, deliverVars,
                 phase, raised>>

\* set_esamp_training_enabled: the plan stays what it was.
SetTraining(enabled) ==
  /\ Running /\ phase = "idle" /\ configs < MaxConfigs
  /\ cfg' = [cfg EXCEPT !.train = enabled]
  /\ configs' = configs + 1
  /\ UNCHANGED <<plan, setupVars, localVars, tapVars, samplerVars, deliverVars, phase,
                 raised>>

Next ==
  \/ Load
  \/ \E b \in Batches : PrepareInputs(b) \/ PrepareInputsRaises(b)
  \/ Forward \/ ForwardRaises
  \/ ComputeLogits \/ Predict
  \/ SampleFast
  \/ \E random \in BOOLEAN :
       SampleWithView(random) \/ SampleVanilla(random) \/ SampleRaises(random)
  \/ Dispatch \/ DispatchRaises \/ ExecuteNothing
  \/ \E c \in Config : Reconfigure(c)
  \/ \E enabled \in BOOLEAN : SetTraining(enabled)

Spec == Init /\ [][Next]_vars
-----------------------------------------------------------------------------
(* Types *)

Hiddens == [step : 0 .. MaxSteps, row : 0 .. 2 * MaxRows]
Predictions == [hidden : Hiddens, prompt : Prompts \cup {NoPrompt}]
SeqUpTo(s, S, n) == s \in Seq(S) /\ Len(s) <= n
CompactCapacity == IF Slots > ScratchRows THEN Slots ELSE ScratchRows

\* Every variable has its type, and the active rows of a step fit the fixed buffers.
TypeOK ==
  /\ cfg \in Config /\ plan \in {NoPlan, "none", "first_per_prompt"}
  /\ setup \in [done : BOOLEAN, full : BOOLEAN, compact : 0 .. CompactCapacity]
  /\ bound \in BOOLEAN
  /\ phase \in {"unloaded", "idle", "prepared", "forwarded", "logits", "sampled"}
  /\ SeqUpTo(batch, Request, MaxRows)
  /\ step \in 0 .. MaxSteps
  /\ rowIdx \in [1 .. ScratchRows -> 1 .. 2 * MaxRows + 1]
  /\ SeqUpTo(meta, [pos : 1 .. MaxRows, prompt : Prompts \cup {NoPrompt}], ScratchRows)
  /\ compactIdx \in [1 .. setup.compact -> 1 .. 2 * MaxRows + 1]
  /\ SeqUpTo(compactIds, DOMAIN meta, setup.compact)
  /\ tap \in [1 .. ScratchRows -> Hiddens]
  /\ compactTap \in [1 .. setup.compact -> Hiddens]
  /\ publishStep \in -1 .. MaxSteps /\ launchedStep \in -1 .. MaxSteps
  /\ cache.step \in -1 .. MaxSteps
  /\ SeqUpTo(cache.pred, Predictions, ScratchRows)
  /\ SeqUpTo(cache.map, 0 .. ScratchRows, ScratchRows)
  /\ ready \in BOOLEAN
  /\ SeqUpTo(guided, Predictions, MaxRows)
  /\ SeqUpTo(delivered, [hidden : Hiddens, pos : 1 .. MaxRows,
                          prompt : Prompts \cup {NoPrompt}], ScratchRows)
  /\ deliveries \in 0 .. 2
  /\ raised \in {"nothing", "scratch capacity", "tap index", "dense rows", "row map",
                 "row cap", "row metadata"}
  /\ configs \in 0 .. MaxConfigs

-----------------------------------------------------------------------------
(* Properties *)

\* The hidden row, gathered in this step, that request i of the batch is sampled from.
OwnHidden(i) == Hidden(step, LogitsIndices(batch)[i])

\* Every row of the bundle delivered since the last _prepare_inputs is the row of the
\* request and the prompt its metadata names, gathered in this step: localization,
\* the gather of the fixed buffers, the compact lane and the bundle's compaction agree
\* (build_step_scope_port_bundle).
DeliveredRowsAreCurrent ==
  deliveries > 0 =>
    \A i \in DOMAIN delivered :
      LET r == delivered[i] IN r.hidden = OwnHidden(r.pos) /\ r.prompt = batch[r.pos].prompt

\* While training is on a step delivers every decode row it has: all of them in batch order, or for a
\* compacted flow exactly the first of each mapped prompt ("does not silently drop
\* residual rows", dispatch_decode_port_bundles).
DeliversEveryDecodeRow ==
  [][Dispatch /\ PlanActive /\ cfg.train =>
       LET wanted == {i \in DOMAIN batch :
                        /\ batch[i].decode
                        /\ plan = "first_per_prompt" =>
                             /\ batch[i].prompt # NoPrompt
                             /\ \A j \in 1 .. i - 1 :
                                  batch[j].decode => batch[j].prompt # batch[i].prompt}
       IN  IF wanted = {} THEN deliveries' = 0
           ELSE /\ deliveries' = 1
                /\ {delivered'[i].pos : i \in DOMAIN delivered'} = wanted
                /\ \A i, j \in DOMAIN delivered' :
                     i < j => delivered'[i].pos < delivered'[j].pos]_vars

\* A row of the logits is modified only if it is a decode row, and then with a
\* prediction made in this step, for its own prompt, from its own hidden row or, with
\* the bank, from that of the first row of its prompt (wrapped_sampler_sample).
GuidedByOwnPrompt ==
  phase = "sampled" =>
    \A i \in DOMAIN guided :
      /\ batch[i].decode
      /\ guided[i].prompt = batch[i].prompt
      /\ \E j \in DOMAIN batch :
           /\ batch[j].decode /\ batch[j].prompt = batch[i].prompt
           /\ guided[i].hidden = OwnHidden(j)
           /\ ~cfg.bank => j = i

\* The same of either backend with the prediction on any stream: of the exact one always,
\* and of the dense one, which does not wait for the prediction (sampler_patch.py), in
\* steps that only decode and read no prediction before it was computed.
DecodesOnly  == \A i \in DOMAIN batch : batch[i].decode
GuidedInTime == \A i \in DOMAIN guided : guided[i].hidden # Unwritten
GuidedByOwnInTime ==
  (cfg.backend = "pre_filter_dense" => DecodesOnly /\ GuidedInTime) => GuidedByOwnPrompt

\* With guidance configured when the model was loaded, a step whose requests all decode
\* is guided as a whole: no row misses its prediction because of what an earlier step,
\* toggle or reconfiguration left behind (prepare_step, cache_for_step).
GuidesEveryDecodeRow ==
  phase = "sampled" /\ SamplerGuides /\ PlanActive /\ DecodesOnly
    => DOMAIN guided = DOMAIN batch

\* The taps never gather beyond the packed tensor of the step ("logits_indices out of
\* range", producer/decode.py).
TapsStayInRange == raised # "tap index"

\* The rows of a step are delivered once (dispatch_decode_port_bundles).
DeliveredOnce == deliveries <= 1
=============================================================================
