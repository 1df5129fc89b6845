--------------------------- MODULE DistillerTraining ---------------------------
(***************************************************************************)
(* How the ESamp engine trains the batch of a decode step                  *)
(* (src/tllm/consumers/esamp/engine.py): with PyTorch kernels, or by       *)
(* replaying a CUDA graph captured from an earlier batch.                  *)
(*                                                                         *)
(* A graph has the shapes and addresses of its capture baked in.  The      *)
(* shared model has one graph, fed through buffers of its own; the model   *)
(* bank has one per pipeline slot, which reads the rows of that pipeline   *)
(* slot in place.  Only a mask and the slot ids tell a replay which of the *)
(* rows are real.  Captures and replays may fail, the pipeline is rebuilt  *)
(* when a batch outgrows it, and reconfigurations come between steps.      *)
(*                                                                         *)
(* The host runs one step at a time: stage the rows, assign bank slots and *)
(* initialise their parameters, train.  The order of the streams it feeds  *)
(* is the subject of ESampPipeline.                                        *)
(***************************************************************************)
EXTENDS Integers, Sequences, FiniteSets, SlotInitializer

CONSTANTS
  Prompts,        \* prompts of the rows
  PipelineSlots,  \* adaptation_pipeline_slots
  MaxRows,        \* bound: rows of a batch
  Configs,        \* configurations: [mode, cudagraph, everyStep, method, rows, slots]
  MaxConfigs      \* bound: reconfigurations

ASSUME TrainingAssumption ==
  /\ PipelineSlots \in Nat \ {0}
  /\ MaxRows \in Nat \ {0} /\ MaxConfigs \in Nat
  /\ Configs \subseteq [mode : {"shared", "model_bank"}, cudagraph : BOOLEAN, everyStep : BOOLEAN,
                       method : {"none", "ffn_fast_svd", "ridge_svd"},
                       rows : Nat \ {0}, slots : Nat \ {0}]

VARIABLES
  cfg,          \* the engine's configuration; everyStep is
                \* model_bank_flush_interval = 1, rows graph_scratch_rows,
                \* slots model_bank_slots
  extractable,  \* the target layer has the projections a template is factored from
  stale,        \* the consumer's resource key is outdated
  ready,        \* the model or the bank, and its optimizer, exist
  rowsCap,      \* rows of the pipeline buffers, 0 before there are any
  pipe,         \* which pipeline allocation is current: 0 or 1, flipped by a rebuild
  buffers,      \* pipeline.src, pipeline.tgt: what each row of each slot holds
  nextSlot,     \* state.next_pipeline_slot
  graphs,       \* state.graphs["shared"] and state.model_bank_slot_graphs
  promptSlot,   \* state.prompt_to_slot
  ini,          \* state.model_bank_initializer
  params,       \* the parameters of each bank slot, once the bank exists
  phase,        \* where the host is in the step
  slot,         \* pipeline slot of the step
  job,          \* prompts of the step's rows, one row each
  trained,      \* history: what the step trained, pairs of bank slot and row
  configs       \* reconfigurations so far

resourceVars == <<stale, ready, rowsCap, pipe, nextSlot, extractable>>
bankVars     == <<promptSlot, ini, params>>
vars == <<cfg, extractable, stale, ready, rowsCap, pipe, buffers, nextSlot, graphs,
          promptSlot, ini, params, phase, slot, job, trained, configs>>

-----------------------------------------------------------------------------
Shared    == -1     \* the graph of the shared model, fed through its own buffers
Slots     == 0 .. PipelineSlots - 1
BankSlots == 0 .. cfg.slots - 1
GraphIds  == {Shared} \cup Slots
Rows      == 1 .. MaxRows

\* What a row holds: the row of one of the step's prompts, or something older.
Old == "old"

Jobs == {j \in UNION {[1 .. n -> Prompts] : n \in Rows} :
           \A i, k \in DOMAIN j : j[i] = j[k] => i = k}

Bank == cfg.mode = "model_bank"

\* _GraphState before anything; rows = 0 stands for no buffers.
NoGraph == [state |-> "uncaptured", rows |-> 0, active |-> 0, view |-> Shared, pipe |-> 0,
            valid |-> {}, ids |-> <<>>, input |-> <<>>, gradients |-> "none"]

\* _reset_runtime_cache as it touches graphs.  (Mutant: graphs survive it.)
KeptGraphs(gs) == gs
ResetGraphs(gs) == [g \in GraphIds |-> NoGraph]

Init ==
  /\ cfg \in Configs
  /\ extractable \in BOOLEAN
  /\ stale = TRUE /\ ready = FALSE
  /\ rowsCap = 0 /\ pipe = 0
  /\ buffers = [s \in Slots |-> [i \in Rows |-> Old]]
  /\ nextSlot = 0
  /\ graphs = [g \in GraphIds |-> NoGraph]
  /\ promptSlot = <<>>
  /\ ini = NewInitializer
  /\ params = <<>>
  /\ phase = "idle" /\ slot = 0 /\ job = <<>>
  /\ trained = {}
  /\ configs = 0

-----------------------------------------------------------------------------
\* configure: a change of the resource signature drops every resource, a change of
\* the flush interval only what the runtime has cached; a new initializer
\* configuration builds a new initializer.
Configure(c) ==
  /\ phase = "idle" /\ configs < MaxConfigs
  /\ configs' = configs + 1
  /\ cfg' = c
  /\ stale' = TRUE
  /\ LET resources == [c EXCEPT !.everyStep = TRUE, !.rows = 1] # [cfg EXCEPT !.everyStep = TRUE, !.rows = 1]
         resets    == resources \/ c.everyStep # cfg.everyStep
     IN /\ ready' = (ready /\ ~resources)
        /\ graphs' = IF resets THEN ResetGraphs(graphs) ELSE graphs
        /\ promptSlot' = IF resets THEN <<>> ELSE promptSlot
        /\ ini' = IF c.method # cfg.method THEN NewInitializer
                  ELSE IF resets THEN ResetRuntime(ini) ELSE ini
        /\ params' = IF resources THEN <<>> ELSE params
  /\ UNCHANGED <<extractable, rowsCap, pipe, buffers, nextSlot, phase, slot, job, trained>>

-----------------------------------------------------------------------------
(***************************************************************************)
(* Bank slots.                                                             *)
(***************************************************************************)

\* The rows of j that get a slot before the bank is exhausted.
Fresh(j, n) == {i \in 1 .. n : j[i] \notin DOMAIN promptSlot}
Used == Cardinality(DOMAIN promptSlot)
Assignable(j) ==
  CHOOSE n \in 0 .. Len(j) : /\ Used + Cardinality(Fresh(j, n)) <= cfg.slots
                             /\ \A m \in n + 1 .. Len(j) : Used + Cardinality(Fresh(j, m)) > cfg.slots

\* _assign_model_bank_slot for the first n rows of j, with what the initializer does
\* to new slots and to known ones.
AssignSlots(j, n) ==
  LET slotOf(i)  == Used + Cardinality(Fresh(j, i)) - 1
      known      == {promptSlot[j[i]] : i \in (1 .. n) \ Fresh(j, n)}
      new        == {slotOf(i) : i \in Fresh(j, n)}
      after      == IF cfg.method = "none" THEN ini
                    ELSE OnAssigned(OnExisting(ini, cfg.method, known), cfg.method, new)
      overwrites == FilledFromTemplate(ini, after)
  IN /\ promptSlot' = [p \in DOMAIN promptSlot \cup {j[i] : i \in Fresh(j, n)} |->
                         IF p \in DOMAIN promptSlot THEN promptSlot[p]
                         ELSE slotOf(CHOOSE i \in Fresh(j, n) : j[i] = p)]
     /\ ini' = after
     /\ params' = [s \in BankSlots |-> IF s \in overwrites THEN TemplateParams ELSE params[s]]

\* assign_sampling_model_bank_slots, before the forward of a guided step.  A bank that
\* does not exist, or has no slot left, ends the run there (ModelBank).
AssignForSampling(j) ==
  /\ phase = "idle" /\ Bank /\ ready
  /\ Assignable(j) = Len(j)
  /\ AssignSlots(j, Len(j))
  /\ UNCHANGED <<cfg, resourceVars, buffers, graphs, phase, slot, job, trained, configs>>

-----------------------------------------------------------------------------
(***************************************************************************)
(* Staging: consume_bundle, with ensure_resources and launch_step.         *)
(***************************************************************************)

\* consume_bundle asks for a pipeline that fits the batch and the configured rows; a
\* rebuilt pipeline, and a new bank, forget the map, the graphs and the initializer's
\* runtime state, in any order; then the template is prepared.
Consume(j) ==
  LET rows    == IF Len(j) > cfg.rows THEN Len(j) ELSE cfg.rows
      ensures == stale \/ rows # rowsCap
      rebuilt == ensures /\ rows # rowsCap
      newBank == ensures /\ Bank /\ ~ready
      resets  == rebuilt \/ newBank
      first   == IF rebuilt THEN 0 ELSE nextSlot
      runtime == IF resets THEN ResetRuntime(ini) ELSE ini
  IN /\ phase = "idle"
     /\ phase' = "staged" /\ job' = j /\ slot' = first
     /\ nextSlot' = (first + 1) % PipelineSlots
     /\ stale' = FALSE /\ ready' = (ready \/ ensures)
     /\ rowsCap' = rows
     /\ pipe' = IF rebuilt THEN 1 - pipe ELSE pipe
     /\ graphs' = IF resets THEN ResetGraphs(graphs) ELSE graphs
     /\ promptSlot' = IF resets THEN <<>> ELSE promptSlot
     /\ ini' = IF ensures THEN Prepared(runtime, cfg.method, extractable) ELSE ini
     /\ params' = IF newBank THEN [s \in BankSlots |-> RandomParams] ELSE params
     /\ buffers' = [s \in Slots |-> [i \in Rows |-> IF s = first /\ i \in DOMAIN j THEN j[i] ELSE Old]]
     /\ UNCHANGED <<cfg, extractable, trained, configs>>

-----------------------------------------------------------------------------
(***************************************************************************)
(* Graphs.                                                                 *)
(***************************************************************************)

GraphEnabled(g) == cfg.cudagraph /\ graphs[g].state # "disabled" /\ (Bank => cfg.everyStep)

\* _ensure_graph_storage: buffers for so many rows, kept while the shape stays.
Storage(graph, rows, view) ==
  IF graph.rows = rows /\ graph.view = view THEN graph
  ELSE [NoGraph EXCEPT !.rows = rows, !.view = view, !.pipe = pipe,
                       !.ids = [i \in 1 .. rows |-> 0], !.input = [i \in 1 .. rows |-> Old]]

\* _stage_graph_inputs: the mask of the previous batch is cleared, not the buffers'
\* other contents; a graph on a pipeline slot reads that slot in place.  (Mutant: the
\* mask is not cleared.)
StagedUncleared(g, ids, rows) ==
  [g EXCEPT !.valid = @ \cup DOMAIN ids, !.active = Len(ids),
            !.ids = [i \in DOMAIN @ |-> IF i \in DOMAIN ids THEN ids[i] ELSE @[i]],
            !.input = IF g.view = Shared THEN [i \in DOMAIN @ |-> IF i \in DOMAIN ids THEN rows[i] ELSE Old] ELSE @]
Staged(g, ids, rows) ==
  [g EXCEPT !.valid = (@ \ (1 .. g.active)) \cup DOMAIN ids, !.active = Len(ids),
            !.ids = [i \in DOMAIN @ |-> IF i \in DOMAIN ids THEN ids[i] ELSE @[i]],
            !.input = IF g.view = Shared THEN [i \in DOMAIN @ |-> IF i \in DOMAIN ids THEN rows[i] ELSE Old] ELSE @]

\* A batch fits a graph that was captured over at least as many rows.  (Mutant: over more.)
CanStageSmaller(g, ids) == g.rows > 0 /\ Len(ids) < g.rows
CanStage(g, ids) == g.rows > 0 /\ Len(ids) <= g.rows

\* What a row of the graph's input holds when it is replayed: a view of a pipeline that
\* was rebuilt reads memory that is no longer the pipeline's.
InputRow(g, i) ==
  IF g.view = Shared THEN g.input[i] ELSE IF g.pipe = pipe THEN buffers[g.view][i] ELSE Old

\* What a replay trains, and what a kernel trains: pairs of bank slot and row.
ReplayTrains(g)   == {<<g.ids[i], InputRow(g, i)>> : i \in g.valid}
KernelTrains(ids) == {<<ids[i], buffers[slot][i]>> : i \in DOMAIN ids}

\* A kernel starts with zero_grad(set_to_none=True), which frees the gradients every
\* earlier capture accumulates into.
Freed(gs) == [g \in GraphIds |-> IF gs[g].gradients = "held" THEN [gs[g] EXCEPT !.gradients = "freed"] ELSE gs[g]]

\* What the training of a batch leaves in the parameters.
LearnedFrom(pairs) ==
  [s \in BankSlots |->
     [params[s] EXCEPT !.learned = @ \cup {t[2] : t \in {u \in pairs : u[1] = s /\ u[2] # Old}}]]

\* One optimizer step.
Trained(pairs) ==
  /\ trained' = pairs
  /\ params' = IF Bank THEN LearnedFrom(pairs) ELSE params

\* A captured graph that can take the batch replays it.
Replays(graph, enabled, ids) == enabled /\ graph.state = "captured" /\ CanStage(graph, ids)

\* A graph that was never captured is captured after the kernel, which may fail and
\* then is not tried again.
Captured(graph, rows, view) ==
  {[Storage(graph, rows, view) EXCEPT !.state = "captured", !.gradients = "held"],
   [Storage(graph, rows, view) EXCEPT !.state = "disabled"]}

\* One batch on graph g: a replay; or a replay that raises, which disables the graph, and
\* the kernel; or the kernel, and the first capture.
TrainWith(g, graph, ids, view, rows) ==
  LET enabled == GraphEnabled(g)
      staged  == Staged(graph, ids, buffers[slot])
      kernel  == Freed([graphs EXCEPT ![g] = graph])
  IN \/ /\ Replays(graph, enabled, ids)
        /\ graphs' = [graphs EXCEPT ![g] = staged]
        /\ Trained(ReplayTrains(staged))
     \/ /\ Replays(graph, enabled, ids)
        /\ graphs' = [kernel EXCEPT ![g] = [staged EXCEPT !.state = "disabled", !.gradients = "none"]]
        /\ Trained(KernelTrains(ids))
     \/ /\ ~Replays(graph, enabled, ids)
        /\ graphs' \in IF enabled /\ graph.state = "uncaptured"
                      THEN {[kernel EXCEPT ![g] = c] : c \in Captured(graph, rows, view)}
                      ELSE {kernel}
        /\ Trained(KernelTrains(ids))

-----------------------------------------------------------------------------
(***************************************************************************)
(* Training: on_step_end, with launch_delayed_backward.                    *)
(***************************************************************************)

\* _train_shared.  The storage is ensured, for all rows of the pipeline, before the
\* graph is tried.
TrainShared ==
  /\ phase = "staged" /\ ~Bank
  /\ LET graph == IF GraphEnabled(Shared) THEN Storage(graphs[Shared], rowsCap, Shared) ELSE graphs[Shared]
     IN TrainWith(Shared, graph, [i \in DOMAIN job |-> 0], Shared, rowsCap)
  /\ phase' = "trained"
  /\ UNCHANGED <<cfg, resourceVars, buffers, promptSlot, ini, slot, job, configs>>

\* The step is over: what its rows left behind is old.
OverIsOld ==
  /\ slot' = 0 /\ job' = <<>>
  /\ buffers' = [s \in Slots |-> [i \in Rows |-> Old]]

EndStep ==
  /\ phase = "trained"
  /\ phase' = "idle" /\ OverIsOld
  /\ trained' = {}
  /\ graphs' = [g \in GraphIds |-> [graphs[g] EXCEPT !.input = [i \in DOMAIN @ |-> Old]]]
  /\ UNCHANGED <<cfg, resourceVars, bankVars, configs>>

\* _train_model_bank, first half: slots are assigned, or the bank is exhausted and the
\* job raises.
AssignForTraining ==
  /\ phase = "staged" /\ Bank
  /\ AssignSlots(job, Assignable(job))
  /\ IF Assignable(job) = Len(job)
     THEN phase' = "assigned" /\ UNCHANGED <<slot, job, buffers>>
     ELSE phase' = "idle" /\ OverIsOld
  /\ UNCHANGED <<cfg, resourceVars, graphs, trained, configs>>

JobIds == [i \in DOMAIN job |-> promptSlot[job[i]]]

\* maybe_prepare_slots: some of the fits that are due succeed.
PrepareSlots ==
  /\ phase = "assigned"
  /\ IF cfg.method # "ridge_svd" THEN UNCHANGED <<ini, params>>
     ELSE LET rows == buffers[slot]
          IN \E ok \in SUBSET Due(ini, JobIds, rows) :
               /\ ini' = RowsPrepared(ini, JobIds, rows, ok)
               /\ params' = [s \in BankSlots |->
                               IF s \in ok THEN FitTo(Collected(ini, JobIds, rows, s)) ELSE params[s]]
  /\ phase' = "prepared"
  /\ UNCHANGED <<cfg, resourceVars, buffers, graphs, promptSlot, slot, job, trained, configs>>

\* _train_model_bank, second half, with the graph of the pipeline slot.  The consumer
\* delivers one row per prompt, so the rows are always a prefix of the slot.
SlotGraph == slot

TrainBank ==
  /\ phase = "prepared"
  /\ TrainWith(SlotGraph, graphs[SlotGraph], JobIds, slot, Len(job))
  /\ phase' = "trained"
  /\ UNCHANGED <<cfg, resourceVars, buffers, promptSlot, ini, slot, job, configs>>

Next ==
  \/ \E c \in Configs : Configure(c)
  \/ \E j \in Jobs : AssignForSampling(j) \/ Consume(j)
  \/ TrainShared \/ AssignForTraining \/ PrepareSlots \/ TrainBank \/ EndStep

Spec == Init /\ [][Next]_vars

-----------------------------------------------------------------------------
(***************************************************************************)
(* Properties.                                                             *)
(***************************************************************************)

\* Every batch is trained on exactly its own rows, each with the bank slot of its prompt:
\* by a kernel, by a replay after any sequence of batch sizes, captures, rebuilds and
\* reconfigurations, or by the kernel after a replay that failed.
TrainsTheBatch ==
  phase = "trained" =>
    trained = {<<IF Bank THEN promptSlot[job[i]] ELSE 0, job[i]>> : i \in DOMAIN job}

\* A captured graph still fits what it was captured over: the pipeline that is current,
\* a shape within it, and a configuration that allows graphs.
CapturesAreCurrent ==
  \A g \in GraphIds : graphs[g].state = "captured" =>
    /\ graphs[g].pipe = pipe
    /\ graphs[g].rows <= rowsCap
    /\ graphs[g].view = g
    /\ cfg.cudagraph /\ ready

\* The gradients a graph of the shared model accumulates into are those of its capture:
\* no kernel frees them while the graph may still be replayed.
SharedGradientsHeld == graphs[Shared].state = "captured" => graphs[Shared].gradients = "held"

\* With a template, a slot that belongs to a prompt has been trained by no other since it
\* was filled, whatever resets handed the slot on.
StartsFromTemplate ==
  ini.template /\ ready => \A p \in DOMAIN promptSlot :
    /\ params[promptSlot[p]].from = "template"
    /\ params[promptSlot[p]].learned \subseteq {p}

\* A slot is fitted to rows of its own prompt only, and the rows collected for the fit
\* never outgrow twice MinRows.
FitsOwnRows ==
  cfg.method = "ridge_svd" => \A p \in DOMAIN promptSlot :
    LET s == promptSlot[p]
    IN /\ params[s].from = "fit" /\ Known(ini.done, s, FALSE) => params[s].learned \subseteq {p}
       /\ \A i \in DOMAIN Known(ini.cache, s, <<>>) : ini.cache[s][i] = p
       /\ Len(Known(ini.cache, s, <<>>)) <= 2 * MinRows
=============================================================================
