------------------------------ MODULE Dispatch ------------------------------
(****************************************************************************)
(* Which consumer is called with what, in which order: the registry and the *)
(* plan built from it (residual_runtime.py, dispatch_plan.py), the bindings *)
(* of residual locators to tapped layers, and the callbacks of one decode   *)
(* step: lifecycle events, layer events, the bundles of the flows and the   *)
(* ends of the step (port_runtime_hooks.py, hidden_event_bridge.py,         *)
(* residual_bundle_dispatch.py).                                            *)
(*                                                                          *)
(* A handler of the host computes its callbacks at once and makes them one  *)
(* by one (action Callback); a callback may raise, which abandons the step. *)
(* Where a row's hidden state comes from is DecodeStep's subject; here a    *)
(* row is its number among the decode rows of the step.                     *)
(****************************************************************************)
EXTENDS BundleAssembler

CONSTANTS
  Consumers,      \* the consumers a user may register
  None,           \* no runtime consumer, no prompt
  Flows,          \* what each consumer declares: flows() ...
  Subs,           \* ... or subscriptions()
  PathOf,         \* the resolved layer path of the source and the target locator
  Batches,        \* the prompts of the decode rows a step may have
  Runners,        \* whether a runner may compile or use CUDA graphs
  PythonForward,  \* whether a compiled runner may still run a forward as Python
  Faulty,         \* consumers whose callbacks may raise
  MaxSteps,       \* bound: decode steps
  MaxChanges      \* bound: changes of the registered consumers

\* ConsumerFlow, with what its __post_init__ refuses, and ConsumerSubscription.
FlowType ==
  {f \in [reads : Seq([src : STRING, name : STRING]), key : {"step", "row", "request"},
          background : BOOLEAN, stride : Nat \ {0}, cap : Nat, firstPerPrompt : BOOLEAN] :
     f.firstPerPrompt => f.key = "step"}
SubType ==
  [event : STRING, phase : STRING, layer : STRING, capture : {"required", "prefer", "never"}]

ASSUME ConsumerAssumption ==
  /\ None \notin Consumers
  /\ Flows \in [Consumers -> Seq(FlowType)] /\ Subs \in [Consumers -> Seq(SubType)]
  /\ \A c \in Consumers : Flows[c] = <<>> \/ Subs[c] = <<>>
  /\ Faulty \subseteq Consumers
ASSUME BatchAssumption == \A batch \in Batches : batch \in Seq(ToSet(batch))
ASSUME RunnerAssumption == Runners \subseteq BOOLEAN /\ PythonForward \subseteq BOOLEAN
ASSUME DispatchBounds == MaxSteps \in Nat /\ MaxChanges \in Nat

VARIABLES
  registry,   \* the consumers of the registry, in order of registration
  runtime,    \* RUNTIME.consumer
  plan,       \* the consumers of the dispatch plan, none when it is empty
  bindings,   \* residual_bindings, in the order of the taps
  installed,  \* the model has its hooks
  fromHooks,  \* launch_consumer_from_hooks
  step,       \* event_step_id
  rows,       \* the prompt of each decode row of the step
  phase,      \* how far the host is
  calls,      \* the callbacks the current handler still has to make
  log,        \* the callbacks made since the step began
  compiled,   \* _runner_uses_compilation_or_cudagraph
  changes     \* changes of the registered consumers so far

planVars  == <<registry, runtime, plan, changes>>
setupVars == <<bindings, installed, compiled>>
vars == <<planVars, setupVars, fromHooks, step, rows, phase, calls, log>>

-----------------------------------------------------------------------------
(* The plan *)

\* _refresh_dispatch_plan and DispatchPlan.build.
PlanOf(reg, rt) ==
  LET all == reg \o (IF rt = None THEN <<>> ELSE <<rt>>)
  IN  Kept(all, {i \in DOMAIN all : Flows[all[i]] # <<>> \/ Subs[all[i]] # <<>>})

PlanActive == plan # <<>>

FlowTargets ==
  FlattenSeq([i \in DOMAIN plan |->
    [k \in DOMAIN Flows[plan[i]] |-> [to |-> plan[i], k |-> k, flow |-> Flows[plan[i]][k]]]])

\* Mutant: "never" is treated like "prefer".
SelectsLoosely(sub, event, ph, path, capture) ==
  /\ sub.event = event
  /\ sub.phase # "any" /\ ph # "none" => sub.phase = ph
  /\ sub.layer # "any" /\ path # "none" => sub.layer = path
  /\ sub.capture = "required" => capture

\* select: a filter is ignored for an event that has no phase or no layer.
Selects(sub, event, ph, path, capture) ==
  /\ sub.event = event
  /\ sub.phase # "any" /\ ph # "none" => sub.phase = ph
  /\ sub.layer # "any" /\ path # "none" => sub.layer = path
  /\ sub.capture = "required" => capture
  /\ sub.capture = "never" => ~capture

Call(to, what, path, k, entries) ==
  [to |-> to, what |-> what, path |-> path, k |-> k, entries |-> entries]

\* dispatch_runtime_event: one call stands for the consume, on_tick and, at the end of
\* the step, on_step_end of dispatch_consumer_event.
EventCalls(event, ph, path, capture, entries) ==
  FlattenSeq([i \in DOMAIN plan |->
    LET subs == Subs[plan[i]]
        selected == {j \in DOMAIN subs : Selects(subs[j], event, ph, path, capture)}
    IN  [j \in 1 .. Cardinality(selected) |-> Call(plan[i], event, path, 0, entries)]])

StepEvent(event, capture) == EventCalls(event, "decode", "none", capture, NoEntries)

-----------------------------------------------------------------------------
(* Bindings *)

Layers == {"source", "target"}

\* required_residual_layers; the meta and KV ports have no layer.
Required ==
  LET ts == FlowTargets
      of(t) == {t.flow.reads[k].src : k \in DOMAIN t.flow.reads} \ {"meta", "kv"}
  IN  UNION {of(ts[i]) : i \in DOMAIN ts}

\* _supported_logical_locators: what is required, sorted by its layer number (the
\* target's is -1), or both with the source first where nothing is.
Locators(required) ==
  LET sorted == <<"target", "source">>
  IN  IF required = {} THEN <<"source", "target">>
      ELSE Kept(sorted, {i \in DOMAIN sorted : sorted[i] \in required})

\* build_resolved_bindings: a dictionary by path, so of two locators of one path only
\* the later remains.
BindingsFor(required) ==
  LET ls  == Locators(required)
      all == [i \in DOMAIN ls |-> [src |-> ls[i], path |-> PathOf[ls[i]], meta |-> i = 1]]
  IN  Kept(all, {i \in DOMAIN all : \A j \in DOMAIN all : all[j].path = all[i].path => j <= i})

\* resolved_path_for_locator
BoundPath(src) ==
  LET is == {i \in DOMAIN bindings : bindings[i].src = src}
  IN  IF is = {} THEN "" ELSE bindings[CHOOSE i \in is : TRUE].path

SetupRaises == ~installed /\ ~(Required \subseteq Layers)

\* setup_runtime_hooks_if_active: a model that has its hooks keeps them, whatever the
\* plan has come to require.
Setup ==
  /\ ~SetupRaises
  /\ installed' = TRUE /\ UNCHANGED compiled
  /\ bindings' = IF installed THEN bindings ELSE BindingsFor(Required)
  /\ fromHooks' = ~compiled

-----------------------------------------------------------------------------
Init ==
  /\ registry = <<>> /\ runtime = None /\ plan = <<>>
  /\ bindings = <<>> /\ installed = FALSE /\ fromHooks = TRUE
  /\ compiled \in Runners
  /\ step = 0 /\ rows = <<>>
  /\ phase = "unloaded" /\ calls = <<>> /\ log = <<>>
  /\ changes = 0

\* Between two calls of the host into the runtime.
Returned == calls = <<>>
Idle == Returned /\ phase \in {"unloaded", "idle", "ended"}

\* Mutant: a plan that has become empty is kept.
RefreshKeeping(reg, rt) ==
  /\ Idle /\ changes < MaxChanges
  /\ registry' = reg /\ runtime' = rt
  /\ plan' = IF PlanOf(reg, rt) = <<>> THEN plan ELSE PlanOf(reg, rt)
  /\ changes' = changes + 1
  /\ phase' = IF phase = "ended" THEN "idle" ELSE phase
  /\ UNCHANGED <<setupVars, fromHooks, step, rows, calls, log>>

\* A change of the consumers; the plan follows.
Refresh(reg, rt) ==
  /\ Idle /\ changes < MaxChanges
  /\ registry' = reg /\ runtime' = rt
  /\ plan' = PlanOf(reg, rt)
  /\ changes' = changes + 1
  /\ phase' = IF phase = "ended" THEN "idle" ELSE phase
  /\ UNCHANGED <<setupVars, fromHooks, step, rows, calls, log>>

\* register_dispatch_consumer, clear_dispatch_consumers (the runtime consumer stays),
\* replace_dispatch_consumers and set_runtime_consumer.
Register(c) == Refresh(Append(registry, c), runtime)
Clear == Refresh(<<>>, runtime)
ReplaceConsumers(c) == Refresh(<<c>>, runtime)
SetRuntimeConsumer(c) == Refresh(registry, c)

\* wrapped_load_model
Load ==
  /\ Idle /\ phase = "unloaded"
  /\ calls' = EventCalls("load_model.pre", "none", "none", FALSE, NoEntries)
  /\ phase' = IF PlanActive THEN "loading" ELSE "idle"
  /\ log' = <<>>
  /\ UNCHANGED <<planVars, setupVars, fromHooks, step, rows>>

Loaded ==
  /\ Returned /\ phase = "loading"
  /\ Setup
  /\ calls' = EventCalls("load_model.post", "none", "none", fromHooks', NoEntries)
  /\ phase' = "idle"
  /\ UNCHANGED <<planVars, step, rows, log>>

-----------------------------------------------------------------------------
(* A step *)

\* wrapped_execute_model up to vLLM's own execute_model
ExecuteModel ==
  /\ Idle /\ phase # "unloaded" /\ PlanActive /\ step < MaxSteps
  /\ calls' = StepEvent("execute_model.pre", fromHooks)
  /\ phase' = "entered"
  /\ log' = <<>>
  /\ UNCHANGED <<planVars, setupVars, fromHooks, step, rows>>

\* wrapped_prepare_inputs up to vLLM's own, with the setup that precedes it
PrepareInputs ==
  /\ Returned /\ phase = "entered"
  /\ Setup
  /\ calls' = StepEvent("prepare_inputs.pre", fromHooks')
  /\ phase' = "preparing"
  /\ UNCHANGED <<planVars, step, rows, log>>

\* An unsupported locator (raw_path_for_locator).
SetupFails ==
  /\ Returned /\ phase \in {"loading", "entered"} /\ SetupRaises
  /\ phase' = IF phase = "loading" THEN "unloaded" ELSE "idle"
  /\ UNCHANGED <<planVars, setupVars, fromHooks, step, rows, calls, log>>

\* ... and the rest of it, with the decode rows of the batch localized
Prepared(batch) ==
  /\ Returned /\ phase = "preparing"
  /\ step' = step + 1
  /\ rows' = batch
  /\ calls' = StepEvent("prepare_inputs.post", fromHooks)
  /\ phase' = "prepared"
  /\ UNCHANGED <<planVars, setupVars, fromHooks, log>>

\* The batch of a layer.post event (build_runtime_hidden_batch).
HiddenBatch(path) ==
  IF rows = <<>> THEN NoEntries
  ELSE "rows" :> [i \in DOMAIN rows |-> Payload(path, i)]

\* dispatch_layer_lifecycle_events
LayerCalls(path) ==
  LET event(name, entries) == EventCalls(name, "decode", path, fromHooks, entries)
  IN  event("layer.pre", NoEntries)
      \o event("layer.post", HiddenBatch(path))
      \o event("block.end", NoEntries)
      \o (IF path = BoundPath("target") THEN event("stack.end", NoEntries) ELSE <<>>)

\* The tapped layers in the order the model runs them.
TappedPaths ==
  LET both == <<"source", "target">>
      ls == Kept(both, {k \in DOMAIN both :
                          \E i \in DOMAIN bindings : bindings[i].path = PathOf[both[k]]})
  IN  IF Len(ls) = 2 /\ PathOf["source"] = PathOf["target"]
      THEN <<PathOf["source"]>> ELSE [i \in DOMAIN ls |-> PathOf[ls[i]]]

\* The model's forward: the taps' Python runs, or a captured graph is replayed.
Forward(python) ==
  /\ Returned /\ phase = "prepared"
  /\ ~python => compiled
  /\ compiled => python \in PythonForward
  /\ calls' = IF python
              THEN FlattenSeq([i \in DOMAIN TappedPaths |-> LayerCalls(TappedPaths[i])])
              ELSE <<>>
  /\ phase' = "forwarded"
  /\ UNCHANGED <<planVars, setupVars, fromHooks, step, rows, log>>

-----------------------------------------------------------------------------
(* The bundles of a step *)

AllRows == [i \in DOMAIN rows |-> i]

\* Mutant: only neighbours are compared.
FirstOfRun(prompts) ==
  Ordered({i \in DOMAIN prompts :
             prompts[i] # None /\ (i > 1 => prompts[i - 1] # prompts[i])})

\* _compact_first_per_prompt_from_runtime
FirstPerPrompt(prompts) ==
  Ordered({i \in DOMAIN prompts :
             prompts[i] # None /\ \A j \in 1 .. i - 1 : prompts[j] # prompts[i]})

\* Mutant: only the first gap is looked at.
RegularStart(ids) == Len(ids) > 1

\* _regular_row_view: rows at equal distances are a strided view of the buffer, others
\* are gathered one by one.
Regular(ids) ==
  Len(ids) > 1 /\ \A i \in 1 .. Len(ids) - 1 : ids[i + 1] - ids[i] = ids[2] - ids[1]

RowsTaken(ids) ==
  IF Regular(ids) THEN [i \in DOMAIN ids |-> ids[1] + (i - 1) * (ids[2] - ids[1])] ELSE ids

\* _entry_for_flow_read
Entry(read, ids) ==
  IF read.src = "meta" THEN [i \in DOMAIN ids |-> Payload("meta", ids[i])]
  ELSE LET taken == RowsTaken(ids)
       IN  [i \in DOMAIN ids |-> Payload(BoundPath(read.src), taken[i])]

\* A read without an entry: another port, or a locator without a binding.
Missing(read) == read.src # "meta" /\ BoundPath(read.src) = ""

DirectRows(flow) == IF flow.firstPerPrompt THEN FirstPerPrompt(rows) ELSE AllRows

\* build_step_scope_port_bundle: what it declines, refuses and builds.
Declines(flow) == flow.key # "step" \/ DirectRows(flow) = <<>>

Refuses(flow) ==
  \/ flow.cap > 0 /\ Len(DirectRows(flow)) > flow.cap
  \/ \E k \in DOMAIN flow.reads : Missing(flow.reads[k])

DirectBundle(flow) ==
  [name \in {flow.reads[k].name : k \in DOMAIN flow.reads} |->
     LET k == CHOOSE k \in DOMAIN flow.reads :
                flow.reads[k].name = name
                /\ \A j \in DOMAIN flow.reads : flow.reads[j].name = name => j <= k
     IN  Entry(flow.reads[k], DirectRows(flow))]

Raises == Call(None, "raise", "none", 0, NoEntries)

\* Mutant: the step ends for every flow.
StepEndAlways(t) == <<Call(t.to, "on_step_end", "none", t.k, NoEntries)>>

\* A flow whose window is not the background has its step ended.
StepEnd(t) ==
  IF t.flow.background THEN <<>>
  ELSE <<Call(t.to, "on_step_end", "none", t.k, NoEntries)>>

BundleCall(t, entries) == Call(t.to, "consume_bundle", "none", t.k, entries)

DirectCalls(t) ==
  IF Declines(t.flow) THEN <<>>
  ELSE IF Refuses(t.flow) THEN <<Raises>>
  ELSE <<BundleCall(t, DirectBundle(t.flow))>> \o StepEnd(t)

FrameCalls(t) ==
  LET bundles == Assemble(t.flow, FramesOf(bindings, Len(rows)))
  IN  IF Declines(t.flow)
      THEN [i \in DOMAIN bundles |-> BundleCall(t, bundles[i])] \o StepEnd(t)
      ELSE <<>>

\* _flow_due_for_step
Due(flow) == step % flow.stride = 0

\* dispatch_decode_port_bundles: the direct bundles first, then what goes out as frames.
FlowCalls ==
  LET all == FlowTargets
      due == Kept(all, {i \in DOMAIN all : Due(all[i].flow)})
  IN  FlattenSeq([i \in DOMAIN due |-> DirectCalls(due[i])])
      \o (IF FramesOf(bindings, Len(rows)) = <<>> THEN <<>>
          ELSE FlattenSeq([i \in DOMAIN due |-> FrameCalls(due[i])]))

\* dispatch_deferred_layer_batches: what the hooks of a captured forward did not send.
Deferred ==
  LET paths == IF fromHooks \/ rows = <<>> THEN <<>> ELSE TappedPaths
  IN  FlattenSeq([i \in DOMAIN paths |->
                    EventCalls("layer.post", "decode", paths[i], FALSE, HiddenBatch(paths[i]))])

\* The end of wrapped_execute_model.
EndStep ==
  /\ Returned /\ phase = "forwarded"
  /\ calls' = FlowCalls \o Deferred \o StepEvent("execute_model.post", fromHooks)
  /\ phase' = "ended"
  /\ UNCHANGED <<planVars, setupVars, fromHooks, step, rows, log>>

\* synchronize_esamp: the runtime consumer, then the registry.
Synchronize ==
  /\ Idle
  /\ LET all == (IF runtime = None THEN <<>> ELSE <<runtime>>) \o registry
     IN  calls' = [i \in DOMAIN all |-> Call(all[i], "synchronize", "none", 0, NoEntries)]
  /\ UNCHANGED <<planVars, setupVars, fromHooks, step, rows, phase, log>>

-----------------------------------------------------------------------------
(* The callbacks *)

Callback ==
  /\ ~Returned /\ Head(calls) # Raises
  /\ log' = IF Head(calls).what = "synchronize" THEN log ELSE Append(log, Head(calls))
  /\ calls' = Tail(calls)
  /\ UNCHANGED <<planVars, setupVars, fromHooks, step, rows, phase>>

\* An exception leaves the handler, and the host drops what was left of the step.
CallbackRaises ==
  /\ ~Returned /\ (Head(calls) = Raises \/ Head(calls).to \in Faulty)
  /\ calls' = <<>>
  /\ phase' = IF phase \in {"unloaded", "loading"} THEN "unloaded" ELSE "idle"
  /\ UNCHANGED <<planVars, setupVars, fromHooks, step, rows, log>>

HostStep ==
  \/ \E c \in Consumers : Register(c) \/ ReplaceConsumers(c)
  \/ \E c \in Consumers \cup {None} : SetRuntimeConsumer(c)
  \/ Clear
  \/ Load \/ Loaded \/ SetupFails
  \/ ExecuteModel \/ PrepareInputs
  \/ \E batch \in Batches : Prepared(batch)
  \/ \E python \in BOOLEAN : Forward(python)
  \/ EndStep \/ Synchronize
  \/ CallbackRaises

Next == HostStep \/ Callback
Spec == Init /\ [][Next]_vars

-----------------------------------------------------------------------------
(* Properties *)

\* The step has run to its end, and the host has made all its callbacks.
Ended == phase = "ended" /\ Returned

Occurrences(c) == Cardinality({i \in DOMAIN plan : plan[i] = c})
Times(s, n) == FlattenSeq([j \in 1 .. n |-> s])
Bound(flow) == \A k \in DOMAIN flow.reads : ~Missing(flow.reads[k])

\* The rows of each bundle a flow should be given in this step.
WantedRows(flow) ==
  LET n      == Len(rows)
      mapped == {i \in 1 .. n : rows[i] # None}
      first  == {i \in mapped : \A j \in 1 .. i - 1 : rows[j] # rows[i]}
  IN  IF n = 0 \/ step % flow.stride # 0 THEN <<>>
      ELSE IF flow.key # "step" THEN [i \in 1 .. n |-> {i}]
      ELSE IF flow.firstPerPrompt /\ mapped # {} THEN <<first>> ELSE <<1 .. n>>

\* A step that ends has given every flow it planned and could serve its bundles, once
\* for each time its consumer was registered: one bundle of all the rows or of the first
\* row of each prompt, or one bundle for each row; and nothing when the flow's stride
\* skips the step (dispatch_decode_port_bundles, BundleAssembler).
ServesDueFlows ==
  Ended =>
    \A i \in DOMAIN plan : \A k \in DOMAIN Flows[plan[i]] :
      LET c    == plan[i]
          flow == Flows[c][k]
          got  == Kept(log, {n \in DOMAIN log : /\ log[n].to = c /\ log[n].what = "consume_bundle"
                                                /\ log[n].k = k})
          rowsIn(x) == LET e == x.entries[flow.reads[1].name] IN {e[n].row : n \in DOMAIN e}
      IN  Bound(flow) =>
            [n \in DOMAIN got |-> rowsIn(got[n])] = Times(WantedRows(flow), Occurrences(c))

\* Whichever way a bundle was put together (slice, strided view, gather, frames), each
\* of its entries holds the same rows in the same, increasing order, and each residual
\* entry was read at the path of its own locator: row i of the metadata describes row i
\* of the tensors (_entry_for_flow_read, BundleAssembler).
BundlesAreConsistent ==
  \A n \in {m \in DOMAIN log : log[m].what = "consume_bundle"} :
    LET x    == log[n]
        flow == Flows[x.to][x.k]
        lead == x.entries[flow.reads[1].name]
    IN  /\ \A i, j \in DOMAIN lead : i < j => lead[i].row < lead[j].row
        /\ \A r \in DOMAIN flow.reads :
             x.entries[flow.reads[r].name] =
               [i \in DOMAIN lead |->
                  Payload(IF flow.reads[r].src = "meta" THEN "meta"
                          ELSE PathOf[flow.reads[r].src], lead[i].row)]

\* A consumer that is given a bundle in the same step is told of the step's end after
\* it, before the step ends; a consumer of background flows never is
\* (dispatch_decode_port_bundles).
StepEndFollowsBundles ==
  Ended =>
    \A n \in DOMAIN log :
      /\ log[n].what = "consume_bundle" /\ ~Flows[log[n].to][log[n].k].background =>
           \E m \in n + 1 .. Len(log) :
             log[m].to = log[n].to /\ log[m].what = "on_step_end" /\ log[m].k = log[n].k
      /\ log[n].what = "on_step_end" => ~Flows[log[n].to][log[n].k].background

\* In a step with decode rows each subscription to layer.post is given the batch of each
\* tapped layer it asked for exactly once: by the hooks of a Python forward, or after a
\* replayed one, as its capture policy allows (dispatch_layer_lifecycle_events,
\* dispatch_deferred_layer_batches).
LayerPostOnce ==
  Ended /\ rows # <<>> =>
    \A i \in DOMAIN plan : \A t \in DOMAIN TappedPaths :
      LET c == plan[i]
          path == TappedPaths[t]
          asked == {s \in DOMAIN Subs[c] :
                      LET sub == Subs[c][s]
                      IN  /\ sub.event = "layer.post" /\ sub.phase \in {"any", "decode"}
                          /\ sub.layer \in {"any", path}
                          /\ sub.capture = "required" => fromHooks
                          /\ sub.capture = "never" => ~fromHooks}
          got == {n \in DOMAIN log : log[n].to = c /\ log[n].what = "layer.post"
                                     /\ log[n].path = path
                                     /\ log[n].entries = HiddenBatch(path)}
      IN  Cardinality(got) = Occurrences(c) * Cardinality(asked)

\* No callback is ever made to a consumer that was removed, replaced or never set
\* (_refresh_dispatch_plan).
CallsRegisteredOnly ==
  \A n \in DOMAIN calls :
    calls[n] = Raises \/ calls[n].to \in {runtime} \cup {registry[i] : i \in DOMAIN registry}
=============================================================================
