------------------------ MODULE DistillerTrainingProofs ------------------------
(***************************************************************************)
(* Every batch is trained on its own rows, captured graphs stay current,   *)
(* and a bank slot holds what its own prompt taught it, for every set of   *)
(* configurations and every number of prompts, pipeline slots, rows and    *)
(* reconfigurations.                                                       *)
(*                                                                         *)
(* The invariant says of a graph with storage that it belongs to the       *)
(* current pipeline and fits it, and that its mask lies within the batch   *)
(* it was last given: that is what makes clearing just that batch enough.  *)
(* Of the bank it says that the map gives its prompts the first slots, one *)
(* each, that the initializer has seen no other slot, and that the         *)
(* template is there whenever the bank is: so a slot that is given out is  *)
(* always one the initializer takes for new.                               *)
(***************************************************************************)
EXTENDS DistillerTraining, OrderedSetsProofs

Fields == {"state", "rows", "active", "view", "pipe", "valid", "ids", "input", "gradients"}

\* A graph alone: its arrays have its rows, and its mask is that of its last batch.
WellFormed(g) ==
  /\ DOMAIN g = Fields
  /\ g.rows \in Nat /\ g.active \in Nat
  /\ g.valid \subseteq 1 .. g.active
  /\ DOMAIN g.ids = 1 .. g.rows /\ DOMAIN g.input = 1 .. g.rows
  /\ g.state = "captured" => g.rows > 0

\* A graph in its engine: storage is that of the current pipeline.
Fits(g, id) ==
  /\ WellFormed(g)
  /\ g.rows > 0 => g.pipe = pipe /\ g.view = id /\ g.rows <= rowsCap
  /\ g.state = "captured" => cfg.cudagraph /\ ready

GraphsOk == /\ DOMAIN graphs = GraphIds
            /\ \A id \in GraphIds : Fits(graphs[id], id)

HostOk ==
  /\ cfg \in Configs
  /\ rowsCap \in Nat /\ nextSlot \in Slots
  /\ ~stale => ready
  /\ phase \in {"idle", "staged", "assigned", "prepared", "trained"}
  /\ phase \in {"assigned", "prepared"} => Bank

\* The rows of the step are in its pipeline slot.
JobOk ==
  phase # "idle" =>
    /\ ready
    /\ slot \in Slots
    /\ job \in Seq(Prompts) /\ Len(job) > 0 /\ Len(job) <= rowsCap
    /\ \A i \in 1 .. Len(job) : buffers[slot][i] = job[i]

IInv == GraphsOk /\ HostOk /\ JobOk /\ TrainsTheBatch

USE TrainingAssumption

-----------------------------------------------------------------------------
(***************************************************************************)
(* Graphs.                                                                 *)
(***************************************************************************)

\* No graph is well formed and fits everywhere.
LEMMA NoGraphFits ==
  /\ WellFormed(NoGraph) /\ NoGraph.rows = 0 /\ NoGraph.state = "uncaptured"
BY DEF NoGraph, WellFormed, Fields

\* Fresh storage, or storage that is kept, has the rows and the view asked for.
LEMMA StorageFits ==
  ASSUME NEW g, WellFormed(g), NEW n \in Nat \ {0}, NEW view,
         g.rows > 0 => g.pipe = pipe
  PROVE  LET s == Storage(g, n, view)
         IN /\ WellFormed(s)
            /\ s.rows = n /\ s.view = view /\ s.pipe = pipe
            /\ s.state = "captured" => g.state = "captured"
<1> DEFINE new == [NoGraph EXCEPT !.rows = n, !.view = view, !.pipe = pipe,
                                  !.ids = [i \in 1 .. n |-> 0], !.input = [i \in 1 .. n |-> Old]]
<1>1. /\ WellFormed(new) /\ new.rows = n /\ new.view = view /\ new.pipe = pipe
      /\ new.state = "uncaptured"
  BY DEF NoGraph, WellFormed, Fields
<1>2. Storage(g, n, view) = g \/ Storage(g, n, view) = new
  BY DEF Storage
<1>3. CASE g.rows = n /\ g.view = view
  BY <1>3 DEF Storage, WellFormed
<1>4. CASE ~(g.rows = n /\ g.view = view)
  BY <1>4, <1>1 DEF Storage
<1> QED BY <1>3, <1>4

\* Staging a batch that fits leaves a mask of exactly its rows, and its rows where a
\* graph with buffers of its own reads them.
LEMMA StagedFits ==
  ASSUME NEW g, WellFormed(g), NEW ids, NEW rows, NEW n \in Nat,
         DOMAIN ids = 1 .. n, Len(ids) = n, n <= g.rows
  PROVE  LET s == Staged(g, ids, rows)
         IN /\ WellFormed(s)
            /\ s.state = g.state /\ s.rows = g.rows /\ s.view = g.view /\ s.pipe = g.pipe
            /\ s.valid = 1 .. n
            /\ \A i \in 1 .. n : s.ids[i] = ids[i]
            /\ g.view = Shared => \A i \in 1 .. n : s.input[i] = rows[i]
<1> DEFINE valid == (g.valid \ (1 .. g.active)) \cup DOMAIN ids
           newIds == [i \in DOMAIN g.ids |-> IF i \in DOMAIN ids THEN ids[i] ELSE g.ids[i]]
           input == IF g.view = Shared
                    THEN [i \in DOMAIN g.input |-> IF i \in DOMAIN ids THEN rows[i] ELSE Old] ELSE g.input
           s == [g EXCEPT !.valid = valid, !.active = n, !.ids = newIds, !.input = input]
<1>1. Staged(g, ids, rows) = s
  BY DEF Staged
<1>2. valid = 1 .. n
  BY DEF WellFormed
<1>3. /\ DOMAIN newIds = 1 .. g.rows /\ \A i \in 1 .. n : newIds[i] = ids[i]
      /\ DOMAIN input = 1 .. g.rows
      /\ g.view = Shared => \A i \in 1 .. n : input[i] = rows[i]
  BY DEF WellFormed
<1> HIDE DEF valid, newIds, input
<1>4. /\ s.valid = valid /\ s.active = n /\ s.ids = newIds /\ s.input = input
      /\ s.state = g.state /\ s.rows = g.rows /\ s.view = g.view /\ s.pipe = g.pipe
      /\ DOMAIN s = Fields
  BY DEF WellFormed, Fields
<1> HIDE DEF s
<1>5. WellFormed(s)
  BY <1>2, <1>3, <1>4 DEF WellFormed
<1> QED BY <1>1, <1>2, <1>3, <1>4, <1>5

\* Freeing gradients changes nothing else.
LEMMA FreedFits ==
  ASSUME NEW gs, DOMAIN gs = GraphIds, \A id \in GraphIds : Fits(gs[id], id)
  PROVE  DOMAIN Freed(gs) = GraphIds /\ \A id \in GraphIds : Fits(Freed(gs)[id], id)
<1>1. DOMAIN Freed(gs) = GraphIds
  BY DEF Freed
<1>2. SUFFICES ASSUME NEW id \in GraphIds PROVE Fits(Freed(gs)[id], id)
  BY <1>1
<1> DEFINE freed == [gs[id] EXCEPT !.gradients = "freed"]
<1>3. Freed(gs)[id] = gs[id] \/ Freed(gs)[id] = freed
  BY DEF Freed
<1>4. Fits(gs[id], id)
  BY <1>2
<1>5. /\ DOMAIN freed = Fields
      /\ freed.state = gs[id].state /\ freed.rows = gs[id].rows /\ freed.active = gs[id].active
      /\ freed.view = gs[id].view /\ freed.pipe = gs[id].pipe /\ freed.valid = gs[id].valid
      /\ freed.ids = gs[id].ids /\ freed.input = gs[id].input
  BY <1>4 DEF Fits, WellFormed, Fields
<1> HIDE DEF freed
<1>6. Fits(freed, id)
  BY <1>4, <1>5 DEF Fits, WellFormed
<1> QED BY <1>3, <1>4, <1>6

\* A graph given another state, and gradients, fits unless the state is captured.
LEMMA RestatedFits ==
  ASSUME NEW g, NEW id, Fits(g, id), NEW grad
  PROVE  Fits([g EXCEPT !.state = "disabled", !.gradients = grad], id)
BY DEF Fits, WellFormed, Fields

\* What a capture leaves fits, captured or not.
LEMMA CapturedFits ==
  ASSUME NEW g, NEW id, Fits(g, id), NEW n \in Nat \ {0}, n <= rowsCap, cfg.cudagraph, ready,
         NEW c \in Captured(g, n, id)
  PROVE  Fits(c, id)
<1> DEFINE s == Storage(g, n, id)
<1>1. /\ WellFormed(s) /\ s.rows = n /\ s.view = id /\ s.pipe = pipe
  BY StorageFits DEF Fits
<1> HIDE DEF s
<1>2. \/ c = [s EXCEPT !.state = "captured", !.gradients = "held"]
      \/ c = [s EXCEPT !.state = "disabled"]
  BY DEF Captured, s
<1>3. CASE c = [s EXCEPT !.state = "captured", !.gradients = "held"]
  BY <1>1, <1>3 DEF Fits, WellFormed, Fields
<1>4. CASE c = [s EXCEPT !.state = "disabled"]
  BY <1>1, <1>4 DEF Fits, WellFormed, Fields
<1> QED BY <1>2, <1>3, <1>4

-----------------------------------------------------------------------------
(***************************************************************************)
(* Training.                                                               *)
(***************************************************************************)

\* What a batch trains, with the ids of its rows.
RowsWith(ids) == {<<ids[i], job[i]>> : i \in 1 .. Len(job)}

LEMMA KernelTrainsRows ==
  ASSUME JobOk, phase # "idle", NEW ids, DOMAIN ids = 1 .. Len(job)
  PROVE  KernelTrains(ids) = RowsWith(ids)
BY DEF KernelTrains, RowsWith, JobOk

LEMMA ReplayTrainsRows ==
  ASSUME JobOk, phase # "idle", NEW ids, DOMAIN ids = 1 .. Len(job),
         NEW g, g.valid = 1 .. Len(job), \A i \in 1 .. Len(job) : g.ids[i] = ids[i],
         \/ g.view = Shared /\ \A i \in 1 .. Len(job) : g.input[i] = buffers[slot][i]
         \/ g.view = slot /\ slot # Shared /\ g.pipe = pipe
  PROVE  ReplayTrains(g) = RowsWith(ids)
<1>1. \A i \in 1 .. Len(job) : InputRow(g, i) = job[i]
  BY DEF InputRow, JobOk
<1> QED BY <1>1 DEF ReplayTrains, RowsWith

\* Training a batch on its graph, whichever way it goes.
LEMMA TrainWithFits ==
  ASSUME GraphsOk, JobOk, phase # "idle",
         NEW g \in GraphIds, g = Shared \/ g = slot,
         NEW graph, Fits(graph, g),
         NEW ids, DOMAIN ids = 1 .. Len(job), Len(ids) = Len(job),
         NEW n \in Nat \ {0}, n <= rowsCap,
         TrainWith(g, graph, ids, g, n),
         UNCHANGED <<cfg, ready, rowsCap, pipe>>
  PROVE  GraphsOk' /\ trained' = RowsWith(ids)
<1>n. Len(job) \in Nat /\ Len(job) > 0
  BY DEF JobOk
<1>f. \A h : Fits(h, g) <=> Fits(h, g)'
  BY DEF Fits, WellFormed
<1> DEFINE enabled == GraphEnabled(g)
           staged  == Staged(graph, ids, buffers[slot])
           base    == [graphs EXCEPT ![g] = graph]
           kernel  == Freed(base)
<1>1. /\ DOMAIN kernel = GraphIds
      /\ \A id \in GraphIds : Fits(kernel[id], id)
  <2>1. DOMAIN base = GraphIds /\ \A id \in GraphIds : Fits(base[id], id)
    BY DEF GraphsOk
  <2> QED BY <2>1, FreedFits
<1>2. KernelTrains(ids) = RowsWith(ids)
  BY KernelTrainsRows
<1>3. ASSUME NEW gs, DOMAIN gs = GraphIds, \A id \in GraphIds : Fits(gs[id], id),
             NEW h, Fits(h, g), graphs' = [gs EXCEPT ![g] = h]
      PROVE  GraphsOk'
  <2>1. DOMAIN graphs' = GraphIds /\ \A id \in GraphIds : Fits(graphs'[id], id)
    BY <1>3
  <2> QED BY <2>1 DEF GraphsOk, Fits, WellFormed, GraphIds, Slots, Shared
<1>4. ASSUME Replays(graph, enabled, ids)
      PROVE  Fits(staged, g) /\ ReplayTrains(staged) = RowsWith(ids)
  <2>1. Len(job) <= graph.rows /\ WellFormed(graph) /\ graph.rows > 0
    BY <1>4 DEF Replays, CanStage, Fits
  <2>2. /\ WellFormed(staged)
        /\ staged.state = graph.state /\ staged.rows = graph.rows
        /\ staged.view = graph.view /\ staged.pipe = graph.pipe
        /\ staged.valid = 1 .. Len(job)
        /\ \A i \in 1 .. Len(job) : staged.ids[i] = ids[i]
        /\ graph.view = Shared => \A i \in 1 .. Len(job) : staged.input[i] = buffers[slot][i]
    BY <2>1, <1>n, StagedFits
  <2> HIDE DEF staged
  <2>3. staged.view = g /\ staged.pipe = pipe
    BY <2>1, <2>2 DEF Fits
  <2>4. slot # Shared
    BY DEF JobOk, Slots, Shared
  <2>5. Fits(staged, g)
    BY <2>1, <2>2 DEF Fits
  <2>6. ReplayTrains(staged) = RowsWith(ids)
    BY <2>1, <2>2, <2>3, <2>4, ReplayTrainsRows DEF Fits
  <2> QED BY <2>5, <2>6
<1>8. \/ /\ Replays(graph, enabled, ids)
         /\ graphs' = [graphs EXCEPT ![g] = staged]
         /\ Trained(ReplayTrains(staged))
      \/ /\ Replays(graph, enabled, ids)
         /\ graphs' = [kernel EXCEPT ![g] = [staged EXCEPT !.state = "disabled", !.gradients = "none"]]
         /\ Trained(KernelTrains(ids))
      \/ /\ ~Replays(graph, enabled, ids)
         /\ graphs' \in IF enabled /\ graph.state = "uncaptured"
                       THEN {[kernel EXCEPT ![g] = c] : c \in Captured(graph, n, g)}
                       ELSE {kernel}
         /\ Trained(KernelTrains(ids))
  BY ZenonT(30) DEF TrainWith
<1> HIDE DEF enabled, staged, base, kernel
<1>5. CASE /\ Replays(graph, enabled, ids)
           /\ graphs' = [graphs EXCEPT ![g] = staged]
           /\ Trained(ReplayTrains(staged))
  BY <1>3, <1>4, <1>5 DEF GraphsOk, Trained
<1>6. CASE /\ Replays(graph, enabled, ids)
           /\ graphs' = [kernel EXCEPT ![g] = [staged EXCEPT !.state = "disabled", !.gradients = "none"]]
           /\ Trained(KernelTrains(ids))
  BY <1>1, <1>2, <1>3, <1>4, <1>6, RestatedFits DEF Trained
<1>7. CASE /\ ~Replays(graph, enabled, ids)
           /\ graphs' \in IF enabled /\ graph.state = "uncaptured"
                         THEN {[kernel EXCEPT ![g] = c] : c \in Captured(graph, n, g)}
                         ELSE {kernel}
           /\ Trained(KernelTrains(ids))
  <2>1. trained' = RowsWith(ids)
    BY <1>2, <1>7 DEF Trained
  <2>2. CASE enabled /\ graph.state = "uncaptured"
    <3>1. PICK c \in Captured(graph, n, g) : graphs' = [kernel EXCEPT ![g] = c]
      BY <1>7, <2>2
    <3>2. cfg.cudagraph /\ ready
      BY <2>2 DEF enabled, GraphEnabled, JobOk
    <3>3. Fits(c, g)
      BY <3>2, CapturedFits
    <3> QED BY <1>1, <1>3, <2>1, <3>1, <3>3
  <2>3. CASE ~(enabled /\ graph.state = "uncaptured")
    <3>1. graphs' = kernel
      BY <1>7, <2>3
    <3>2. DOMAIN graphs' = GraphIds /\ \A id \in GraphIds : Fits(graphs'[id], id)
      BY <1>1, <3>1
    <3> QED BY <2>1, <3>2 DEF GraphsOk, Fits, WellFormed, GraphIds, Slots, Shared
  <2> QED BY <2>2, <2>3
<1> QED BY <1>5, <1>6, <1>7, <1>8

-----------------------------------------------------------------------------
(***************************************************************************)
(* The steps.                                                              *)
(***************************************************************************)

LEMMA InitHolds == Init => IInv
<1> SUFFICES ASSUME Init PROVE IInv
  OBVIOUS
<1>1. \A id \in GraphIds : Fits(graphs[id], id) /\ DOMAIN graphs = GraphIds
  BY NoGraphFits DEF Init, Fits
<1>2. GraphsOk
  BY <1>1 DEF GraphsOk, Init
<1>3. HostOk /\ JobOk /\ TrainsTheBatch
  BY DEF Init, HostOk, JobOk, TrainsTheBatch, Slots
<1> QED BY <1>2, <1>3 DEF IInv

\* Graphs that are reset, or kept under a configuration, pipeline and resources that are.
LEMMA GraphsKept ==
  ASSUME GraphsOk,
         \/ graphs' = ResetGraphs(graphs)
         \/ /\ graphs' = graphs /\ pipe' = pipe /\ rowsCap' = rowsCap
            /\ cfg.cudagraph /\ ready => cfg'.cudagraph /\ ready'
  PROVE  GraphsOk'
<1>1. CASE graphs' = ResetGraphs(graphs)
  <2>1. DOMAIN graphs' = GraphIds /\ \A id \in GraphIds : graphs'[id] = NoGraph
    BY <1>1 DEF ResetGraphs
  <2>2. ASSUME NEW id \in GraphIds PROVE Fits(graphs[id], id)'
    <3>1. WellFormed(graphs'[id]) /\ graphs'[id].rows = 0 /\ graphs'[id].state = "uncaptured"
      BY <2>1, <2>2, NoGraphFits
    <3> QED BY <3>1 DEF Fits, WellFormed
  <2> QED BY <2>1, <2>2 DEF GraphsOk, GraphIds, Slots, Shared
<1>2. CASE /\ graphs' = graphs /\ pipe' = pipe /\ rowsCap' = rowsCap
           /\ cfg.cudagraph /\ ready => cfg'.cudagraph /\ ready'
  BY <1>2 DEF GraphsOk, Fits, WellFormed, GraphIds, Slots, Shared
<1> QED BY <1>1, <1>2

\* A batch of distinct prompts is a sequence of at least one row.
LEMMA JobsAreSequences ==
  ASSUME NEW j \in Jobs
  PROVE  j \in Seq(Prompts) /\ Len(j) \in Nat /\ Len(j) > 0 /\ Len(j) <= MaxRows /\ DOMAIN j = 1 .. Len(j)
<1>1. PICK n \in Rows : j \in [1 .. n -> Prompts]
  BY DEF Jobs
<1> QED BY <1>1 DEF Rows

LEMMA ConfigureKeeps ==
  ASSUME IInv, NEW c \in Configs, Configure(c)
  PROVE  IInv'
<1> USE DEF IInv
<1> DEFINE resources == [c EXCEPT !.everyStep = TRUE, !.rows = 1] # [cfg EXCEPT !.everyStep = TRUE, !.rows = 1]
           resets    == resources \/ c.everyStep # cfg.everyStep
<1>1. /\ ready' = (ready /\ ~resources)
      /\ graphs' = IF resets THEN ResetGraphs(graphs) ELSE graphs
      /\ phase = "idle" /\ cfg' = c /\ stale' = TRUE
      /\ UNCHANGED <<rowsCap, pipe, buffers, nextSlot, phase, slot, job, trained>>
  BY DEF Configure
<1>2. ~resources => c.cudagraph = cfg.cudagraph
  BY DEF HostOk
<1> HIDE DEF resources
<1>3. GraphsOk'
  BY <1>1, <1>2, GraphsKept
<1>4. HostOk' /\ JobOk' /\ TrainsTheBatch'
  BY <1>1 DEF HostOk, JobOk, TrainsTheBatch, Slots
<1> QED BY <1>3, <1>4

LEMMA SlotsAdvance ==
  ASSUME NEW s \in Slots
  PROVE  (s + 1) % PipelineSlots \in Slots
BY DEF Slots

LEMMA ConsumeKeeps ==
  ASSUME IInv, NEW j \in Jobs, Consume(j)
  PROVE  IInv'
<1> USE DEF IInv
<1> DEFINE rows    == IF Len(j) > cfg.rows THEN Len(j) ELSE cfg.rows
           ensures == stale \/ rows # rowsCap
           rebuilt == ensures /\ rows # rowsCap
           newBank == ensures /\ Bank /\ ~ready
           first   == IF rebuilt THEN 0 ELSE nextSlot
<1>1. /\ phase' = "staged" /\ job' = j /\ slot' = first
      /\ nextSlot' = (first + 1) % PipelineSlots
      /\ stale' = FALSE /\ ready' = (ready \/ ensures)
      /\ rowsCap' = rows /\ cfg' = cfg
      /\ pipe' = IF rebuilt THEN 1 - pipe ELSE pipe
      /\ graphs' = IF rebuilt \/ newBank THEN ResetGraphs(graphs) ELSE graphs
      /\ buffers' = [s \in Slots |-> [i \in Rows |-> IF s = first /\ i \in DOMAIN j THEN j[i] ELSE Old]]
  BY DEF Consume
<1>2. /\ rows \in Nat /\ rows > 0 /\ Len(j) <= rows
      /\ first \in Slots /\ (~rebuilt => rows = rowsCap)
  BY JobsAreSequences DEF HostOk, Slots
<1>3. ready'
  BY <1>1 DEF HostOk
<1> HIDE DEF rows, ensures, rebuilt, newBank, first
<1>4. GraphsOk'
  BY <1>1, <1>2, <1>3, GraphsKept
<1>5. HostOk'
  BY <1>1, <1>2, <1>3, SlotsAdvance DEF HostOk, Slots
<1>6. \A i \in 1 .. Len(j) : buffers'[first][i] = j[i]
  BY <1>1, <1>2, JobsAreSequences DEF Rows
<1>7. JobOk'
  BY <1>1, <1>2, <1>3, <1>6, JobsAreSequences DEF JobOk, Slots
<1>8. TrainsTheBatch'
  BY <1>1 DEF TrainsTheBatch
<1> QED BY <1>4, <1>5, <1>7, <1>8

\* Assignments and initialisations touch the map and the parameters only.
LEMMA HostStepsKeep ==
  ASSUME IInv, phase # "trained",
         UNCHANGED <<cfg, resourceVars, graphs>>,
         \/ /\ phase' \in {"idle", "staged", "assigned", "prepared"}
            /\ phase = "idle" => phase' = "idle"
            /\ phase' \in {"assigned", "prepared"} => Bank
            /\ UNCHANGED <<slot, job, buffers>>
         \/ phase' = "idle"
  PROVE  IInv'
<1> USE DEF IInv, resourceVars
<1>1. GraphsOk'
  BY GraphsKept
<1>2. HostOk'
  BY DEF HostOk, Slots, Bank
<1>3. JobOk'
  BY DEF JobOk, Slots
<1>4. TrainsTheBatch'
  BY DEF TrainsTheBatch
<1> QED BY <1>1, <1>2, <1>3, <1>4

LEMMA AssignForSamplingKeeps ==
  ASSUME IInv, NEW j \in Jobs, AssignForSampling(j)
  PROVE  IInv'
BY HostStepsKeep DEF AssignForSampling

LEMMA AssignForTrainingKeeps ==
  ASSUME IInv, AssignForTraining
  PROVE  IInv'
<1>1. CASE Assignable(job) = Len(job)
  BY <1>1, HostStepsKeep DEF AssignForTraining
<1>2. CASE Assignable(job) # Len(job)
  BY <1>2, HostStepsKeep DEF AssignForTraining
<1> QED BY <1>1, <1>2

LEMMA PrepareSlotsKeeps ==
  ASSUME IInv, PrepareSlots
  PROVE  IInv'
BY HostStepsKeep DEF PrepareSlots, IInv, HostOk

LEMMA TrainSharedKeeps ==
  ASSUME IInv, TrainShared
  PROVE  IInv'
<1> USE DEF IInv
<1> DEFINE graph == IF GraphEnabled(Shared) THEN Storage(graphs[Shared], rowsCap, Shared) ELSE graphs[Shared]
           ids   == [i \in DOMAIN job |-> 0]
<1>1. /\ TrainWith(Shared, graph, ids, Shared, rowsCap)
      /\ phase = "staged" /\ ~Bank /\ phase' = "trained"
      /\ UNCHANGED <<cfg, resourceVars, buffers, slot, job>>
  BY DEF TrainShared
<1>2. Shared \in GraphIds /\ Fits(graphs[Shared], Shared)
  BY DEF GraphsOk, GraphIds
<1>3. rowsCap \in Nat \ {0} /\ job \in Seq(Prompts) /\ ready
  BY <1>1 DEF HostOk, JobOk
<1>4. Fits(graph, Shared)
  <2>1. CASE GraphEnabled(Shared)
    <3>1. cfg.cudagraph
      BY <2>1 DEF GraphEnabled
    <3> DEFINE s == Storage(graphs[Shared], rowsCap, Shared)
    <3>2. WellFormed(s) /\ s.rows = rowsCap /\ s.view = Shared /\ s.pipe = pipe
      BY <1>2, <1>3, StorageFits DEF Fits
    <3> HIDE DEF s
    <3>3. Fits(s, Shared)
      BY <1>3, <3>1, <3>2 DEF Fits
    <3> QED BY <2>1, <3>3 DEF s
  <2>2. CASE ~GraphEnabled(Shared)
    BY <1>2, <2>2
  <2> QED BY <2>1, <2>2
<1>5. DOMAIN ids = 1 .. Len(job) /\ Len(ids) = Len(job) /\ \A i \in 1 .. Len(job) : ids[i] = 0
  BY <1>3
<1> HIDE DEF graph, ids
<1>6. GraphsOk' /\ trained' = RowsWith(ids)
  BY <1>1, <1>2, <1>3, <1>4, <1>5, TrainWithFits DEF resourceVars
<1>7. HostOk' /\ JobOk'
  BY <1>1 DEF HostOk, JobOk, resourceVars, Slots, Bank
<1>8. TrainsTheBatch'
  BY <1>1, <1>3, <1>5, <1>6 DEF TrainsTheBatch, RowsWith, Bank
<1> QED BY <1>6, <1>7, <1>8

LEMMA TrainBankKeeps ==
  ASSUME IInv, TrainBank
  PROVE  IInv'
<1> USE DEF IInv
<1>1. /\ TrainWith(slot, graphs[slot], JobIds, slot, Len(job))
      /\ phase = "prepared" /\ Bank /\ phase' = "trained"
      /\ UNCHANGED <<cfg, resourceVars, buffers, promptSlot, slot, job>>
  BY DEF TrainBank, SlotGraph, HostOk
<1>2. /\ slot \in Slots /\ slot \in GraphIds /\ job \in Seq(Prompts) /\ ready
      /\ Len(job) \in Nat \ {0} /\ Len(job) <= rowsCap
  BY <1>1 DEF JobOk, GraphIds
<1>3. Fits(graphs[slot], slot)
  BY <1>2 DEF GraphsOk
<1>4. /\ DOMAIN JobIds = 1 .. Len(job) /\ Len(JobIds) = Len(job)
      /\ \A i \in 1 .. Len(job) : JobIds[i] = promptSlot[job[i]]
  BY <1>2 DEF JobIds
<1>5. GraphsOk' /\ trained' = RowsWith(JobIds)
  BY <1>1, <1>2, <1>3, <1>4, TrainWithFits DEF resourceVars
<1>6. HostOk' /\ JobOk'
  BY <1>1 DEF HostOk, JobOk, resourceVars, Slots, Bank
<1>7. TrainsTheBatch'
  BY <1>1, <1>2, <1>4, <1>5 DEF TrainsTheBatch, RowsWith, Bank
<1> QED BY <1>5, <1>6, <1>7

\* The graphs without their inputs fit as before.
LEMMA EndStepKeeps ==
  ASSUME IInv, EndStep
  PROVE  IInv'
<1> USE DEF IInv, resourceVars
<1>1. /\ phase' = "idle"
      /\ graphs' = [g \in GraphIds |-> [graphs[g] EXCEPT !.input = [i \in DOMAIN @ |-> Old]]]
      /\ UNCHANGED <<cfg, resourceVars>>
  BY DEF EndStep
<1>2. ASSUME NEW id \in GraphIds
      PROVE  Fits(graphs'[id], id)
  <2> DEFINE g == graphs[id]
             h == [g EXCEPT !.input = [i \in DOMAIN @ |-> Old]]
  <2>1. graphs'[id] = h /\ Fits(g, id)
    BY <1>1, <1>2 DEF GraphsOk
  <2>2. Fits(h, id)
    BY <2>1 DEF Fits, WellFormed, Fields
  <2> QED BY <2>1, <2>2
<1>3. GraphsOk'
  BY <1>1, <1>2 DEF GraphsOk, Fits, WellFormed, GraphIds, Slots, Shared
<1>4. HostOk' /\ JobOk' /\ TrainsTheBatch'
  BY <1>1 DEF HostOk, JobOk, TrainsTheBatch, Slots, Bank
<1> QED BY <1>3, <1>4

LEMMA StutterKeeps ==
  ASSUME IInv, UNCHANGED vars
  PROVE  IInv'
<1> USE DEF IInv, vars
<1>1. GraphsOk'
  BY GraphsKept
<1>2. HostOk' /\ JobOk' /\ TrainsTheBatch'
  BY DEF HostOk, JobOk, TrainsTheBatch, Slots, Bank
<1> QED BY <1>1, <1>2

LEMMA NextKeeps == IInv /\ [Next]_vars => IInv'
<1> SUFFICES ASSUME IInv, [Next]_vars PROVE IInv'
  OBVIOUS
<1>1. CASE \E c \in Configs : Configure(c)
  BY <1>1, ConfigureKeeps
<1>2. CASE \E j \in Jobs : AssignForSampling(j) \/ Consume(j)
  BY <1>2, AssignForSamplingKeeps, ConsumeKeeps
<1>3. CASE TrainShared
  BY <1>3, TrainSharedKeeps
<1>4. CASE AssignForTraining
  BY <1>4, AssignForTrainingKeeps
<1>5. CASE PrepareSlots
  BY <1>5, PrepareSlotsKeeps
<1>6. CASE TrainBank
  BY <1>6, TrainBankKeeps
<1>7. CASE EndStep
  BY <1>7, EndStepKeeps
<1>8. CASE UNCHANGED vars
  BY <1>8, StutterKeeps
<1> QED BY <1>1, <1>2, <1>3, <1>4, <1>5, <1>6, <1>7, <1>8 DEF Next

-----------------------------------------------------------------------------
LEMMA IInvAlways == Spec => []IInv
BY InitHolds, NextKeeps, PTL DEF Spec

\* engine.py trains every batch on exactly its own rows, each with the slot of its
\* prompt, whichever of kernel, replay and fallback it takes, for any number of rows,
\* slots, configurations and resets.
THEOREM BatchAlwaysTrained == Spec => []TrainsTheBatch
<1>1. IInv => TrainsTheBatch
  BY DEF IInv
<1> QED BY <1>1, IInvAlways, PTL

\* A captured graph belongs to the pipeline engine.py currently stages into, fits in its
\* rows, and is there only while the configuration allows graphs.
THEOREM CapturesAlwaysCurrent == Spec => []CapturesAreCurrent
<1>1. IInv => CapturesAreCurrent
  BY DEF IInv, GraphsOk, Fits, WellFormed, CapturesAreCurrent
<1> QED BY <1>1, IInvAlways, PTL

-----------------------------------------------------------------------------
(***************************************************************************)
(* The gradients of the shared graph.                                      *)
(***************************************************************************)

\* Only the shared model captures the shared graph, and what it captured is held.
SharedOk ==
  graphs[Shared].state = "captured" => graphs[Shared].gradients = "held" /\ ~Bank

\* A shared graph that is captured after its storage was ensured is the one there was,
\* and takes any batch of the pipeline.
LEMMA SharedStorage ==
  ASSUME IInv, phase = "staged",
         NEW graph,
         graph = IF GraphEnabled(Shared) THEN Storage(graphs[Shared], rowsCap, Shared)
                 ELSE graphs[Shared],
         graph.state = "captured", ~Bank
  PROVE  /\ graph = graphs[Shared] /\ GraphEnabled(Shared)
         /\ graph.rows = rowsCap /\ rowsCap > 0
<1>1. Fits(graphs[Shared], Shared) /\ rowsCap \in Nat /\ rowsCap > 0
  BY DEF IInv, GraphsOk, GraphIds, HostOk, JobOk
<1>2. graphs[Shared].state = "captured" => GraphEnabled(Shared)
  BY <1>1 DEF Fits, GraphEnabled
<1>3. GraphEnabled(Shared)
  BY <1>2
<1>4. graph = Storage(graphs[Shared], rowsCap, Shared)
  BY <1>3
<1>5. CASE graphs[Shared].rows = rowsCap /\ graphs[Shared].view = Shared
  BY <1>1, <1>3, <1>4, <1>5 DEF Storage
<1>6. CASE ~(graphs[Shared].rows = rowsCap /\ graphs[Shared].view = Shared)
  <2>1. graph.state = "uncaptured"
    BY <1>4, <1>6 DEF Storage, NoGraph
  <2> QED BY <2>1
<1> QED BY <1>5, <1>6

\* Freeing gradients captures nothing.
LEMMA FreedState ==
  ASSUME NEW gs, DOMAIN gs = GraphIds, \A id \in GraphIds : Fits(gs[id], id),
         NEW id \in GraphIds
  PROVE  Freed(gs)[id].state = gs[id].state
<1>1. Fits(gs[id], id)
  OBVIOUS
<1> QED BY <1>1 DEF Freed, Fits, WellFormed, Fields

\* Staging a batch changes neither the state of a graph nor its gradients.
LEMMA StagedState ==
  ASSUME NEW g, WellFormed(g), NEW ids, NEW rows
  PROVE  Staged(g, ids, rows).state = g.state /\ Staged(g, ids, rows).gradients = g.gradients
<1>1. "state" \in DOMAIN g /\ "gradients" \in DOMAIN g
  BY DEF WellFormed, Fields
<1> QED BY <1>1 DEF Staged

\* What a capture leaves is captured with its gradients held, or not captured.
LEMMA CapturedHeld ==
  ASSUME NEW g, WellFormed(g), g.rows > 0 => g.pipe = pipe, NEW n \in Nat \ {0}, NEW id,
         NEW c \in Captured(g, n, id)
  PROVE  c.state = "captured" => c.gradients = "held"
<1>1. WellFormed(Storage(g, n, id))
  BY StorageFits
<1> QED BY <1>1 DEF Captured, WellFormed, Fields

LEMMA TrainSharedHolds ==
  ASSUME IInv, SharedOk, TrainShared
  PROVE  SharedOk'
<1> DEFINE graph  == IF GraphEnabled(Shared) THEN Storage(graphs[Shared], rowsCap, Shared) ELSE graphs[Shared]
           ids    == [i \in DOMAIN job |-> 0]
           enabled == GraphEnabled(Shared)
           staged == Staged(graph, ids, buffers[slot])
           base   == [graphs EXCEPT ![Shared] = graph]
           kernel == Freed(base)
<1>1. /\ TrainWith(Shared, graph, ids, Shared, rowsCap)
      /\ phase = "staged" /\ ~Bank /\ UNCHANGED cfg
  BY DEF TrainShared
<1>2. /\ Shared \in GraphIds /\ DOMAIN graphs = GraphIds
      /\ \A id \in GraphIds : Fits(graphs[id], id)
      /\ Fits(graphs[Shared], Shared)
      /\ rowsCap \in Nat \ {0} /\ job \in Seq(Prompts) /\ Len(job) <= rowsCap /\ ready
  BY <1>1 DEF IInv, GraphsOk, GraphIds, HostOk, JobOk
<1>3. /\ Fits(graph, Shared)
      /\ graph.state = "captured" => graph.gradients = "held" /\ Replays(graph, enabled, ids)
  <2>1. WellFormed(Storage(graphs[Shared], rowsCap, Shared))
        /\ Storage(graphs[Shared], rowsCap, Shared).rows = rowsCap
        /\ Storage(graphs[Shared], rowsCap, Shared).view = Shared
        /\ Storage(graphs[Shared], rowsCap, Shared).pipe = pipe
    BY <1>2, StorageFits DEF Fits
  <2>2. Fits(graph, Shared)
    <3>1. CASE enabled
      BY <1>2, <2>1, <3>1 DEF Fits, GraphEnabled
    <3>2. CASE ~enabled
      BY <1>2, <3>2
    <3> QED BY <3>1, <3>2
  <2>3. Len(ids) = Len(job)
    BY <1>2
  <2>4. ASSUME graph.state = "captured"
        PROVE  graph.gradients = "held" /\ Replays(graph, enabled, ids)
    <3>1. graph = graphs[Shared] /\ enabled /\ graph.rows = rowsCap
      BY <1>1, <2>4, SharedStorage
    <3> HIDE DEF graph, enabled, ids
    <3>2. graph.gradients = "held"
      BY <2>4, <3>1 DEF SharedOk
    <3>3. Replays(graph, enabled, ids)
      BY <1>2, <2>3, <2>4, <3>1 DEF Replays, CanStage
    <3> QED BY <3>2, <3>3
  <2> QED BY <2>2, <2>4
<1>4. \/ graphs' = [graphs EXCEPT ![Shared] = staged] /\ Replays(graph, enabled, ids)
      \/ graphs' = [kernel EXCEPT ![Shared] = [staged EXCEPT !.state = "disabled", !.gradients = "none"]]
      \/ /\ ~Replays(graph, enabled, ids)
         /\ graphs' \in IF enabled /\ graph.state = "uncaptured"
                       THEN {[kernel EXCEPT ![Shared] = c] : c \in Captured(graph, rowsCap, Shared)}
                       ELSE {kernel}
  BY <1>1, ZenonT(30) DEF TrainWith
<1>5. /\ WellFormed(graph)
      /\ staged.state = graph.state /\ staged.gradients = graph.gradients
      /\ "state" \in DOMAIN staged
  <2>1. WellFormed(graph)
    BY <1>3 DEF Fits
  <2>2. staged.state = graph.state /\ staged.gradients = graph.gradients
    <3> HIDE DEF graph, ids
    <3> QED BY <2>1, StagedState
  <2>3. DOMAIN staged = DOMAIN graph
    <3> HIDE DEF graph, ids
    <3> QED BY DEF Staged
  <2> QED BY <2>1, <2>2, <2>3 DEF WellFormed, Fields
<1>6. kernel[Shared].state = graph.state /\ Shared \in DOMAIN kernel
  <2> HIDE DEF graph
  <2>1. DOMAIN base = GraphIds /\ \A id \in GraphIds : Fits(base[id], id)
    BY <1>2, <1>3
  <2>2. base[Shared] = graph
    BY <1>2
  <2> HIDE DEF base
  <2> QED BY <1>2, <2>1, <2>2, FreedState, FreedFits
<1> HIDE DEF graph, ids, enabled, staged, base, kernel
<1>7. graphs'[Shared].state = "captured" => graphs'[Shared].gradients = "held"
  <2>1. CASE graphs' = [graphs EXCEPT ![Shared] = staged]
    BY <1>2, <1>3, <1>5, <2>1
  <2>2. CASE graphs' = [kernel EXCEPT ![Shared] = [staged EXCEPT !.state = "disabled", !.gradients = "none"]]
    BY <1>5, <1>6, <2>2
  <2>3. CASE /\ ~Replays(graph, enabled, ids)
             /\ graphs' \in IF enabled /\ graph.state = "uncaptured"
                           THEN {[kernel EXCEPT ![Shared] = c] : c \in Captured(graph, rowsCap, Shared)}
                           ELSE {kernel}
    <3>1. CASE enabled /\ graph.state = "uncaptured"
      <4>1. PICK c \in Captured(graph, rowsCap, Shared) : graphs' = [kernel EXCEPT ![Shared] = c]
        BY <2>3, <3>1
      <4>2. c.state = "captured" => c.gradients = "held"
        BY <1>2, <1>3, CapturedHeld DEF Fits
      <4> QED BY <1>6, <4>1, <4>2
    <3>2. CASE ~(enabled /\ graph.state = "uncaptured")
      <4>1. graphs' = kernel
        BY <2>3, <3>2
      <4> QED BY <1>3, <1>6, <2>3, <4>1
    <3> QED BY <3>1, <3>2
  <2> QED BY <1>4, <2>1, <2>2, <2>3
<1> QED BY <1>1, <1>7 DEF SharedOk, Bank

\* The bank trains on the graphs of the pipeline slots.
LEMMA TrainBankHolds ==
  ASSUME IInv, SharedOk, TrainBank
  PROVE  SharedOk'
<1> DEFINE kernel == Freed([graphs EXCEPT ![slot] = graphs[slot]])
<1>1. /\ TrainWith(slot, graphs[slot], JobIds, slot, Len(job))
      /\ phase = "prepared" /\ Bank /\ UNCHANGED cfg
  BY DEF TrainBank, SlotGraph, IInv, HostOk
<1>2. /\ slot \in GraphIds /\ Shared \in GraphIds /\ slot # Shared
      /\ DOMAIN graphs = GraphIds /\ \A id \in GraphIds : Fits(graphs[id], id)
  BY <1>1 DEF IInv, JobOk, GraphsOk, GraphIds, Slots, Shared
<1>3. graphs[Shared].state # "captured"
  BY <1>1 DEF SharedOk
<1>4. kernel[Shared].state = graphs[Shared].state /\ Shared \in DOMAIN kernel /\ slot \in DOMAIN kernel
  <2> DEFINE base == [graphs EXCEPT ![slot] = graphs[slot]]
  <2>1. /\ DOMAIN base = GraphIds /\ \A id \in GraphIds : Fits(base[id], id)
        /\ base[Shared] = graphs[Shared]
    BY <1>2
  <2> HIDE DEF base
  <2>2. /\ DOMAIN Freed(base) = GraphIds
        /\ Freed(base)[Shared].state = graphs[Shared].state
    BY <1>2, <2>1, FreedState, FreedFits
  <2> QED BY <1>2, <2>2 DEF base
<1>5. \/ graphs'[Shared] = graphs[Shared]
      \/ graphs'[Shared] = kernel[Shared]
  <2>1. \/ \E h : graphs' = [graphs EXCEPT ![slot] = h]
        \/ \E h : graphs' = [kernel EXCEPT ![slot] = h]
        \/ graphs' = kernel
    BY <1>1 DEF TrainWith
  <2> HIDE DEF kernel
  <2> QED BY <1>2, <1>4, <2>1
<1> QED BY <1>3, <1>4, <1>5 DEF SharedOk

LEMMA SharedInit == Init => SharedOk
BY DEF Init, SharedOk, NoGraph, GraphIds

LEMMA SharedStep == IInv /\ SharedOk /\ [Next]_vars => SharedOk'
<1> SUFFICES ASSUME IInv, SharedOk, [Next]_vars PROVE SharedOk'
  OBVIOUS
<1>r. ASSUME graphs' = ResetGraphs(graphs) PROVE SharedOk'
  BY <1>r DEF SharedOk, ResetGraphs, NoGraph, GraphIds
<1>k. ASSUME graphs' = graphs, cfg'.mode = cfg.mode PROVE SharedOk'
  BY <1>k DEF SharedOk, Bank
<1>1. ASSUME NEW c \in Configs, Configure(c) PROVE SharedOk'
  <2>1. CASE graphs' = ResetGraphs(graphs)
    BY <1>r, <2>1
  <2>2. CASE graphs' # ResetGraphs(graphs)
    <3>1. /\ graphs' = graphs /\ cfg' = c
          /\ [c EXCEPT !.everyStep = TRUE, !.rows = 1] = [cfg EXCEPT !.everyStep = TRUE, !.rows = 1]
      BY <1>1, <2>2 DEF Configure
    <3>2. c.mode = cfg.mode
      BY <3>1 DEF IInv, HostOk
    <3> QED BY <1>k, <3>1, <3>2
  <2> QED BY <2>1, <2>2
<1>2. ASSUME NEW j \in Jobs, AssignForSampling(j) PROVE SharedOk'
  BY <1>2, <1>k DEF AssignForSampling
<1>3. ASSUME NEW j \in Jobs, Consume(j) PROVE SharedOk'
  <2>1. cfg' = cfg /\ (graphs' = ResetGraphs(graphs) \/ graphs' = graphs)
    BY <1>3 DEF Consume
  <2> QED BY <1>k, <1>r, <2>1
<1>4. CASE AssignForTraining
  BY <1>4, <1>k DEF AssignForTraining
<1>5. CASE PrepareSlots
  BY <1>5, <1>k DEF PrepareSlots
<1>6. CASE EndStep
  <2>1. /\ graphs' = [g \in GraphIds |-> [graphs[g] EXCEPT !.input = [i \in DOMAIN @ |-> Old]]]
        /\ cfg' = cfg /\ Shared \in GraphIds /\ Fits(graphs[Shared], Shared)
    BY <1>6 DEF EndStep, GraphIds, IInv, GraphsOk
  <2>2. /\ graphs'[Shared].state = graphs[Shared].state
        /\ graphs'[Shared].gradients = graphs[Shared].gradients
    BY <2>1 DEF Fits, WellFormed, Fields
  <2> QED BY <2>1, <2>2 DEF SharedOk, Bank
<1>7. CASE UNCHANGED vars
  BY <1>7, <1>k DEF vars
<1> QED BY <1>1, <1>2, <1>3, <1>4, <1>5, <1>6, <1>7, TrainSharedHolds, TrainBankHolds DEF Next

\* No kernel of engine.py frees the gradients that the shared model's captured graph
\* accumulates into: once its storage is ensured for the whole pipeline, a captured graph
\* takes every batch, and a replay that fails gives the graph up.
THEOREM SharedGradientsAlwaysHeld == Spec => []SharedGradientsHeld
<1>1. Spec => []SharedOk
  BY IInvAlways, SharedInit, SharedStep, PTL DEF Spec
<1>2. SharedOk => SharedGradientsHeld
  BY DEF SharedOk, SharedGradientsHeld
<1> QED BY <1>1, <1>2, PTL

-----------------------------------------------------------------------------
(***************************************************************************)
(* The slots of the bank, and what they learn.                             *)
(***************************************************************************)

\* The map of the bank: the slots of the prompts are the first ones, one for each, and
\* every row of a job that is being trained has one.
MapOk ==
  /\ IsFiniteSet(DOMAIN promptSlot)
  /\ promptSlot \in [DOMAIN promptSlot -> 0 .. Used - 1]
  /\ \A p, q \in DOMAIN promptSlot : promptSlot[p] = promptSlot[q] => p = q
  /\ Used <= cfg.slots
  /\ DOMAIN promptSlot # {} => ready
  /\ phase # "idle" => job \in Jobs
  /\ phase \in {"assigned", "prepared"} => \A i \in 1 .. Len(job) : job[i] \in DOMAIN promptSlot

\* A bank that exists has the parameters of its slots.
ParamsOk ==
  Bank /\ ready =>
    /\ DOMAIN params = BankSlots
    /\ \A s \in BankSlots :
         params[s] = [from |-> params[s].from, learned |-> params[s].learned]

IsInitializer(i) ==
  i = [template |-> i.template, done |-> i.done, seen |-> i.seen, cache |-> i.cache]

\* The initializer has a template as soon as the model or the bank exists, if its method
\* wants one and the layer has one to give; it has seen slots of the map only.
InitializerOk ==
  /\ ready \in BOOLEAN /\ extractable \in BOOLEAN
  /\ IsInitializer(ini)
  /\ ini.template \in BOOLEAN
  /\ ini.template => cfg.method = "ffn_fast_svd"
  /\ ready /\ cfg.method = "ffn_fast_svd" /\ extractable => ini.template
  /\ \A s \in DOMAIN ini.done : ini.done[s] \in BOOLEAN
  /\ DOMAIN ini.done \subseteq 0 .. Used - 1
  /\ \A s \in DOMAIN ini.cache : ini.cache[s] \in Seq(Prompts)

SlotFacts == ParamsOk /\ InitializerOk /\ StartsFromTemplate /\ FitsOwnRows

SlotInv == MapOk /\ SlotFacts

-----------------------------------------------------------------------------
(***************************************************************************)
(* Assigning slots.                                                        *)
(***************************************************************************)

\* A batch of distinct prompts.
LEMMA JobsAreDistinct ==
  ASSUME NEW j \in Jobs
  PROVE  /\ j \in Seq(Prompts) /\ Len(j) \in Nat /\ Len(j) > 0 /\ DOMAIN j = 1 .. Len(j)
         /\ \A i, k \in 1 .. Len(j) : j[i] = j[k] => i = k
<1>1. /\ j \in Seq(Prompts) /\ Len(j) \in Nat /\ Len(j) > 0 /\ DOMAIN j = 1 .. Len(j)
  BY JobsAreSequences
<1> QED BY <1>1 DEF Jobs

\* The bank has a number of slots.
LEMMA SlotsNumber ==
  ASSUME HostOk, MapOk
  PROVE  cfg.slots \in Nat /\ Used \in Nat /\ Used <= cfg.slots
<1>1. cfg.slots \in Nat
  BY TrainingAssumption DEF HostOk
<1> QED BY <1>1, FS_CardinalityType DEF MapOk, Used

\* The rows of a batch that need a slot.
LEMMA FreshRows ==
  ASSUME NEW j, NEW n \in Nat
  PROVE  /\ Fresh(j, n) \in SUBSET (1 .. n) /\ Fresh(j, n) \in SUBSET Nat
         /\ IsFiniteSet(Fresh(j, n)) /\ Cardinality(Fresh(j, n)) \in Nat
         /\ \A i \in Fresh(j, n) : Fresh(j, i) = {k \in Fresh(j, n) : k <= i}
<1>1. Fresh(j, n) \in SUBSET (1 .. n)
  BY DEF Fresh
<1>2. 1 .. n \in SUBSET Nat
  OBVIOUS
<1>3. IsFiniteSet(Fresh(j, n)) /\ Cardinality(Fresh(j, n)) \in Nat
  BY <1>1, SegmentSize, FS_Subset, FS_CardinalityType
<1>4. ASSUME NEW i \in Fresh(j, n) PROVE Fresh(j, i) = {k \in Fresh(j, n) : k <= i}
  BY <1>1, <1>4 DEF Fresh
<1> QED BY <1>1, <1>2, <1>3, <1>4

\* The rows that can be assigned are as many as the bank has room for.
LEMMA AssignableFits ==
  ASSUME HostOk, MapOk, NEW j \in Jobs
  PROVE  /\ Assignable(j) \in 0 .. Len(j)
         /\ Used + Cardinality(Fresh(j, Assignable(j))) <= cfg.slots
<1> DEFINE fits(n) == Used + Cardinality(Fresh(j, n)) <= cfg.slots
           S == {n \in 0 .. Len(j) : fits(n)}
<1>1. /\ Len(j) \in Nat /\ Used \in Nat /\ cfg.slots \in Nat /\ Used <= cfg.slots
  BY JobsAreDistinct, SlotsNumber
<1>2. S \in SUBSET Nat /\ IsFiniteSet(S)
  <2>1. 0 .. Len(j) \in SUBSET Nat /\ IsFiniteSet(0 .. Len(j))
    BY <1>1, FS_Interval
  <2>2. S \in SUBSET (0 .. Len(j))
    OBVIOUS
  <2> HIDE DEF S
  <2> QED BY <2>1, <2>2, FS_Subset
<1>3. 0 \in S
  <2>1. Fresh(j, 0) = {}
    BY DEF Fresh
  <2>2. Cardinality(Fresh(j, 0)) = 0
    BY <2>1, FS_EmptySet
  <2> QED BY <1>1, <2>2
<1>4. \A n : n \in S <=> n \in 0 .. Len(j) /\ fits(n)
  OBVIOUS
<1>5. PICK m \in S : \A p \in S : p <= m
  <2> HIDE DEF S
  <2> QED BY <1>2, <1>3, Greatest
<1>6. ASSUME NEW m2 \in m + 1 .. Len(j)
      PROVE  Used + Cardinality(Fresh(j, m2)) > cfg.slots
  <2>1. m \in Nat /\ m2 \in 0 .. Len(j) /\ m2 > m /\ m2 \in Nat
    BY <1>1, <1>2
  <2>2. ~fits(m2)
    BY <1>4, <1>5, <2>1
  <2>3. Cardinality(Fresh(j, m2)) \in Nat
    BY <2>1, FreshRows
  <2> QED BY <1>1, <2>2, <2>3
<1>7. m \in 0 .. Len(j) /\ fits(m)
  BY <1>4
<1> HIDE DEF S
<1>8. \E n \in 0 .. Len(j) :
        /\ Used + Cardinality(Fresh(j, n)) <= cfg.slots
        /\ \A k \in n + 1 .. Len(j) : Used + Cardinality(Fresh(j, k)) > cfg.slots
  BY <1>6, <1>7
<1> QED BY <1>8 DEF Assignable

\* The map after the first n rows of a batch are assigned: known prompts keep their slots,
\* new ones get the next slots, one each.
LEMMA MapAfter ==
  ASSUME HostOk, MapOk, NEW j \in Jobs, NEW n \in 0 .. Len(j),
         Used + Cardinality(Fresh(j, n)) <= cfg.slots, AssignSlots(j, n), cfg' = cfg
  PROVE  /\ IsFiniteSet(DOMAIN promptSlot') /\ Used' \in Nat /\ Used \in Nat
         /\ Used' = Used + Cardinality(Fresh(j, n)) /\ Used' <= cfg'.slots
         /\ promptSlot' \in [DOMAIN promptSlot' -> 0 .. Used' - 1]
         /\ \A p, q \in DOMAIN promptSlot' : promptSlot'[p] = promptSlot'[q] => p = q
         /\ DOMAIN promptSlot' = DOMAIN promptSlot \cup {j[i] : i \in 1 .. n}
         /\ \A p \in DOMAIN promptSlot : promptSlot'[p] = promptSlot[p]
         /\ \A i \in Fresh(j, n) :
              /\ j[i] \notin DOMAIN promptSlot
              /\ promptSlot'[j[i]] = Used + Cardinality(Fresh(j, i)) - 1
              /\ Used + Cardinality(Fresh(j, i)) - 1 \in Used .. Used' - 1
<1> DEFINE F == Fresh(j, n)
           c == Cardinality(F)
           slotOf(i) == Used + Cardinality(Fresh(j, i)) - 1
           D == DOMAIN promptSlot
           N == {j[i] : i \in F}
<1>1. /\ Len(j) \in Nat /\ n \in Nat /\ Used \in Nat /\ cfg.slots \in Nat
      /\ \A i, k \in 1 .. Len(j) : j[i] = j[k] => i = k
  BY JobsAreDistinct, SlotsNumber
<1>2. /\ F \in SUBSET (1 .. n) /\ F \in SUBSET Nat /\ IsFiniteSet(F) /\ c \in Nat
      /\ \A i \in F : Fresh(j, i) = {k \in F : k <= i}
  BY <1>1, FreshRows
<1>3. /\ \A i \in F : Cardinality(Fresh(j, i)) \in 1 .. c
      /\ \A i, k \in F : Cardinality(Fresh(j, i)) = Cardinality(Fresh(j, k)) => i = k
  <2> HIDE DEF F
  <2> QED BY <1>2, Ranks
<1>4. \A i, k \in F : j[i] = j[k] => i = k
  BY SMTT(30), <1>1, <1>2
<1>5. \A i \in F : j[i] \notin D /\ i \in 1 .. n
  BY DEF Fresh
<1>6. promptSlot' = [p \in D \cup N |->
                       IF p \in D THEN promptSlot[p] ELSE slotOf(CHOOSE i \in F : j[i] = p)]
  BY DEF AssignSlots
<1>7. \A i \in F : (CHOOSE k \in F : j[k] = j[i]) = i
  BY <1>4
<1> HIDE DEF F, c
<1>8. DOMAIN promptSlot' = D \cup N /\ \A p \in D : promptSlot'[p] = promptSlot[p]
  BY <1>6
<1>9. \A i \in F : promptSlot'[j[i]] = slotOf(i) /\ slotOf(i) \in Used .. Used + c - 1
  <2> SUFFICES ASSUME NEW i \in F
               PROVE  promptSlot'[j[i]] = slotOf(i) /\ slotOf(i) \in Used .. Used + c - 1
    OBVIOUS
  <2>1. j[i] \in N /\ j[i] \notin D
    BY <1>5
  <2>2. promptSlot'[j[i]] = slotOf(CHOOSE k \in F : j[k] = j[i])
    <3> HIDE DEF N, slotOf, D
    <3> QED BY <1>6, <2>1
  <2>3. slotOf(CHOOSE k \in F : j[k] = j[i]) = slotOf(i)
    <3> HIDE DEF slotOf
    <3> QED BY <1>7
  <2>4. slotOf(i) \in Used .. Used + c - 1
    BY <1>1, <1>2, <1>3
  <2> QED BY <2>2, <2>3, <2>4
<1>10. \A i, k \in F : slotOf(i) = slotOf(k) => i = k
  <2>1. \A i \in F : Cardinality(Fresh(j, i)) \in Nat
    BY <1>2, <1>3
  <2> QED BY <1>1, <1>3, <2>1
<1>11. /\ promptSlot \in [D -> 0 .. Used - 1] /\ IsFiniteSet(D)
       /\ \A p, q \in D : promptSlot[p] = promptSlot[q] => p = q
  BY DEF MapOk
<1>12. D \cap N = {} /\ D \cup {j[i] : i \in 1 .. n} = D \cup N
  BY <1>1, <1>5 DEF Fresh, F
<1>13. IsFiniteSet(N) /\ Cardinality(N) = c
  <2> DEFINE f == [i \in F |-> j[i]]
  <2>1. f \in Bijection(F, N)
    BY <1>4 DEF Bijection, Injection, Surjection, IsInjective
  <2> QED BY <1>2, <2>1, FS_Bijection DEF ExistsBijection, c
<1>14. IsFiniteSet(D \cup N) /\ Cardinality(D \cup N) = Used + c
  <2>1. Cardinality(D \cap N) = 0
    BY <1>12, FS_EmptySet
  <2> HIDE DEF D, N
  <2>2. IsFiniteSet(D \cup N)
        /\ Cardinality(D \cup N) = Cardinality(D) + Cardinality(N) - Cardinality(D \cap N)
    BY <1>11, <1>13, FS_Union
  <2>3. Cardinality(D) = Used
    BY DEF D, Used
  <2> QED BY <1>1, <1>2, <1>13, <2>1, <2>2, <2>3
<1>15. Used' = Used + c
  BY <1>8, <1>14 DEF Used
<1> HIDE DEF slotOf, D
<1>r. Used .. Used' - 1 = Used .. Used + c - 1
  BY <1>1, <1>2, <1>15
<1>16. \A p \in N : promptSlot'[p] \in Used .. Used' - 1
  BY <1>9, <1>r
<1>17. \A p \in D : promptSlot'[p] \in 0 .. Used - 1
  BY <1>8, <1>11
<1>18. promptSlot' \in [D \cup N -> 0 .. Used' - 1]
  <2>1. \A p \in D \cup N : promptSlot'[p] \in 0 .. Used' - 1
    BY <1>1, <1>2, <1>15, <1>16, <1>17
  <2> HIDE DEF N
  <2>2. promptSlot' = [p \in D \cup N |-> promptSlot'[p]]
    BY <1>6
  <2> QED BY <2>1, <2>2
<1>19. ASSUME NEW p \in D \cup N, NEW q \in D \cup N, promptSlot'[p] = promptSlot'[q]
       PROVE  p = q
  <2>1. CASE p \in D /\ q \in D
    BY <1>8, <1>11, <1>19, <2>1
  <2>2. CASE p \in N /\ q \in N
    <3>1. PICK i \in F : p = j[i]
      BY <2>2
    <3>2. PICK k \in F : q = j[k]
      BY <2>2
    <3> QED BY <1>9, <1>10, <1>19, <3>1, <3>2
  <2>3. CASE (p \in D /\ q \in N) \/ (p \in N /\ q \in D)
    BY <1>1, <1>16, <1>17, <1>19, <2>3
  <2> QED BY <2>1, <2>2, <2>3
<1>20. Used' <= cfg'.slots
  BY <1>15 DEF F, c
<1>21. \A i \in F : j[i] \notin D /\ slotOf(i) \in Used .. Used' - 1
  BY <1>5, <1>9, <1>r
<1>22. IsFiniteSet(DOMAIN promptSlot') /\ Used' \in Nat
  BY <1>1, <1>2, <1>8, <1>14, <1>15
<1>23. /\ promptSlot' \in [DOMAIN promptSlot' -> 0 .. Used' - 1]
       /\ \A p, q \in DOMAIN promptSlot' : promptSlot'[p] = promptSlot'[q] => p = q
  BY <1>8, <1>18, <1>19
<1>24. DOMAIN promptSlot' = D \cup {j[i] : i \in 1 .. n}
  BY <1>8, <1>12
<1>25. \A i \in F : j[i] \notin D /\ promptSlot'[j[i]] = slotOf(i)
                   /\ slotOf(i) \in Used .. Used' - 1
  BY <1>9, <1>21
<1> HIDE DEF N
<1> QED BY <1>1, <1>8, <1>15, <1>20, <1>22, <1>23, <1>24, <1>25 DEF slotOf, D, F, c

\* What assigning rows does to the initializer and the parameters: known slots are among
\* the old ones, and the slots of new prompts are new.
LEMMA AssignEffects ==
  ASSUME HostOk, MapOk, NEW j \in Jobs, NEW n \in 0 .. Len(j),
         Used + Cardinality(Fresh(j, n)) <= cfg.slots, AssignSlots(j, n), cfg' = cfg
  PROVE  \E known \in SUBSET (0 .. Used - 1), new \in SUBSET (Used .. Used' - 1) :
           /\ ini' = IF cfg.method = "none" THEN ini
                     ELSE OnAssigned(OnExisting(ini, cfg.method, known), cfg.method, new)
           /\ params' = [s \in BankSlots |->
                           IF s \in FilledFromTemplate(ini, ini') THEN TemplateParams
                           ELSE params[s]]
           /\ new \in SUBSET BankSlots
           /\ \A p \in DOMAIN promptSlot' :
                \/ /\ p \in DOMAIN promptSlot /\ promptSlot'[p] = promptSlot[p]
                   /\ promptSlot[p] \in 0 .. Used - 1
                \/ promptSlot'[p] \in new
<1>0. /\ Used' \in Nat /\ Used \in Nat /\ Used' <= cfg'.slots
      /\ DOMAIN promptSlot' = DOMAIN promptSlot \cup {j[i] : i \in 1 .. n}
      /\ \A p \in DOMAIN promptSlot : promptSlot'[p] = promptSlot[p]
      /\ \A i \in Fresh(j, n) :
           /\ j[i] \notin DOMAIN promptSlot
           /\ promptSlot'[j[i]] = Used + Cardinality(Fresh(j, i)) - 1
           /\ Used + Cardinality(Fresh(j, i)) - 1 \in Used .. Used' - 1
  BY MapAfter
<1> DEFINE F == Fresh(j, n)
           slotOf(i) == Used + Cardinality(Fresh(j, i)) - 1
           known == {promptSlot[j[i]] : i \in (1 .. n) \ F}
           new == {slotOf(i) : i \in F}
<1>1. /\ ini' = IF cfg.method = "none" THEN ini
                ELSE OnAssigned(OnExisting(ini, cfg.method, known), cfg.method, new)
      /\ params' = [s \in BankSlots |->
                      IF s \in FilledFromTemplate(ini, ini') THEN TemplateParams
                      ELSE params[s]]
  BY DEF AssignSlots
<1>2. /\ Used' \in Nat /\ Used \in Nat /\ Used' <= cfg.slots
      /\ DOMAIN promptSlot' = DOMAIN promptSlot \cup {j[i] : i \in 1 .. n}
      /\ \A p \in DOMAIN promptSlot : promptSlot'[p] = promptSlot[p]
      /\ \A i \in F : /\ j[i] \notin DOMAIN promptSlot /\ promptSlot'[j[i]] = slotOf(i)
                      /\ slotOf(i) \in Used .. Used' - 1
  BY <1>0
<1>3. promptSlot \in [DOMAIN promptSlot -> 0 .. Used - 1] /\ cfg.slots \in Nat
  BY SlotsNumber DEF MapOk
<1>4. \A i \in 1 .. n : i \in F <=> j[i] \notin DOMAIN promptSlot
  BY DEF Fresh
<1> HIDE DEF F, slotOf
<1>5. known \in SUBSET (0 .. Used - 1)
  BY <1>3, <1>4
<1>6. new \in SUBSET (Used .. Used' - 1)
  BY <1>2
<1>7. new \in SUBSET BankSlots
  <2>1. Used .. Used' - 1 \in SUBSET BankSlots
    BY <1>2, <1>3 DEF BankSlots
  <2> QED BY <1>6, <2>1
<1>8. ASSUME NEW p \in DOMAIN promptSlot'
      PROVE  \/ /\ p \in DOMAIN promptSlot /\ promptSlot'[p] = promptSlot[p]
                /\ promptSlot[p] \in 0 .. Used - 1
             \/ promptSlot'[p] \in new
  <2>1. CASE p \in DOMAIN promptSlot
    BY <1>2, <1>3, <2>1
  <2>2. CASE p \notin DOMAIN promptSlot
    <3>1. PICK i \in 1 .. n : p = j[i]
      BY <1>2, <2>2
    <3>2. i \in F
      BY <1>4, <2>2, <3>1
    <3> QED BY <1>2, <3>1, <3>2
  <2> QED BY <2>1, <2>2
<1> HIDE DEF known, new
<1> QED BY <1>1, <1>5, <1>6, <1>7, <1>8

-----------------------------------------------------------------------------
(***************************************************************************)
(* What the initializer notes.                                             *)
(***************************************************************************)

\* What an initializer notes of an assignment, by its method.
Notes(old, method, known, new, after) ==
  /\ IsInitializer(after)
  /\ after.template = old.template
  /\ method = "ffn_fast_svd" =>
       /\ after.cache = old.cache
       /\ DOMAIN after.done = (DOMAIN old.done \cup known) \cup new
       /\ \A s \in DOMAIN after.done :
            after.done[s] = IF s \in new THEN old.template
                            ELSE IF s \in known THEN TRUE ELSE old.done[s]
  /\ method # "ffn_fast_svd" =>
       /\ DOMAIN after.done = DOMAIN old.done \cup new
       /\ \A s \in DOMAIN after.done :
            after.done[s] = IF s \in new THEN FALSE ELSE old.done[s]
       /\ DOMAIN after.cache = DOMAIN old.cache \cup new
       /\ \A s \in DOMAIN after.cache :
            after.cache[s] = IF s \in new THEN <<>> ELSE old.cache[s]

LEMMA OnAssignedNotes ==
  ASSUME NEW old, IsInitializer(old), NEW method, NEW known, NEW new
  PROVE  Notes(old, method, known, new,
               OnAssigned(OnExisting(old, method, known), method, new))
<1> DEFINE after == OnAssigned(OnExisting(old, method, known), method, new)
<1>0. PICK t, d0, e0, c0 :
        old = [template |-> t, done |-> d0, seen |-> e0, cache |-> c0]
  BY DEF IsInitializer
<1>a. after = OnAssigned(OnExisting(old, method, known), method, new)
  OBVIOUS
<1> HIDE DEF after
<1>1. CASE method = "ffn_fast_svd"
  <2> DEFINE d1 == Put(d0, known, TRUE)
             d == Put(d1, new, t)
  <2>1. OnExisting(old, method, known)
          = [template |-> t, done |-> d1, seen |-> e0, cache |-> c0]
    <3> HIDE DEF d1
    <3>1. OnExisting(old, method, known) = [old EXCEPT !.done = d1]
      BY <1>0, <1>1 DEF OnExisting, d1
    <3> QED BY <1>0, <3>1
  <2>2. after = [template |-> t, done |-> d, seen |-> e0, cache |-> c0]
    <3> HIDE DEF d1, d
    <3> DEFINE mid == [template |-> t, done |-> d1, seen |-> e0, cache |-> c0]
    <3>1. mid.done = d1 /\ mid.template = t
      OBVIOUS
    <3>2. after = [mid EXCEPT !.done = d]
      BY <1>1, <1>a, <2>1, <3>1 DEF OnAssigned, d
    <3> QED BY <3>2
  <2>3. /\ DOMAIN d = (DOMAIN d0 \cup known) \cup new
        /\ \A s \in DOMAIN d :
             d[s] = IF s \in new THEN t ELSE IF s \in known THEN TRUE ELSE d0[s]
    BY DEF Put
  <2> HIDE DEF d1, d
  <2>4. /\ after.template = t /\ after.done = d /\ after.seen = e0 /\ after.cache = c0
        /\ old.template = t /\ old.done = d0 /\ old.cache = c0
    BY <1>0, <2>2
  <2>5. IsInitializer(after)
    BY <2>2 DEF IsInitializer
  <2> QED BY <1>1, <2>3, <2>4, <2>5 DEF after, Notes
<1>2. CASE method # "ffn_fast_svd"
  <2> DEFINE d == Put(d0, new, FALSE)
             e == Put(e0, new, 0)
             c == Put(c0, new, <<>>)
  <2>1. after = [template |-> t, done |-> d, seen |-> e, cache |-> c]
    <3>1. OnExisting(old, method, known) = old
      BY <1>2 DEF OnExisting
    <3>2. old.done = d0 /\ old.seen = e0 /\ old.cache = c0
      BY <1>0
    <3>3. after = [old EXCEPT !.done = d, !.seen = e, !.cache = c]
      BY <1>2, <1>a, <3>1, <3>2 DEF OnAssigned
    <3> HIDE DEF d, e, c
    <3> QED BY <1>0, <3>3
  <2>2. /\ DOMAIN d = DOMAIN d0 \cup new /\ DOMAIN c = DOMAIN c0 \cup new
        /\ \A s \in DOMAIN d : d[s] = IF s \in new THEN FALSE ELSE d0[s]
        /\ \A s \in DOMAIN c : c[s] = IF s \in new THEN <<>> ELSE c0[s]
    BY DEF Put
  <2> HIDE DEF d, e, c
  <2>4. /\ after.template = t /\ after.done = d /\ after.seen = e /\ after.cache = c
        /\ old.template = t /\ old.done = d0 /\ old.cache = c0
    BY <1>0, <2>1
  <2>5. IsInitializer(after)
    BY <2>1 DEF IsInitializer
  <2> QED BY <1>2, <2>2, <2>4, <2>5 DEF after, Notes
<1> QED BY <1>1, <1>2

\* The first m numbers are among the first n, and the others come after them.
LEMMA Intervals ==
  ASSUME NEW m \in Nat, NEW n \in Nat, m <= n
  PROVE  /\ 0 .. m - 1 \subseteq 0 .. n - 1
         /\ \A s \in m .. n - 1 : s \in 0 .. n - 1 /\ s \notin 0 .. m - 1
OBVIOUS

\* The initializer's methods.
LEMMA Methods ==
  ASSUME HostOk
  PROVE  cfg.method \in {"none", "ffn_fast_svd", "ridge_svd"}
BY TrainingAssumption DEF HostOk

\* What is known of the slots survives an assignment.
LEMMA AssignKeepsFacts ==
  ASSUME HostOk, MapOk, SlotFacts, Bank, ready, NEW j \in Jobs, NEW n \in 0 .. Len(j),
         Used + Cardinality(Fresh(j, n)) <= cfg.slots, AssignSlots(j, n),
         UNCHANGED <<cfg, ready, extractable>>
  PROVE  SlotFacts'
<1>1. PICK known \in SUBSET (0 .. Used - 1), new \in SUBSET (Used .. Used' - 1) :
        /\ ini' = IF cfg.method = "none" THEN ini
                  ELSE OnAssigned(OnExisting(ini, cfg.method, known), cfg.method, new)
        /\ params' = [s \in BankSlots |->
                        IF s \in FilledFromTemplate(ini, ini') THEN TemplateParams
                        ELSE params[s]]
        /\ new \in SUBSET BankSlots
        /\ \A p \in DOMAIN promptSlot' :
             \/ /\ p \in DOMAIN promptSlot /\ promptSlot'[p] = promptSlot[p]
                /\ promptSlot[p] \in 0 .. Used - 1
             \/ promptSlot'[p] \in new
  BY AssignEffects
<1>2. /\ Used \in Nat /\ Used' \in Nat /\ Used <= Used' /\ Used <= cfg.slots
      /\ Used' <= cfg'.slots /\ cfg.slots \in Nat
  <2>1. Used' = Used + Cardinality(Fresh(j, n)) /\ Used' \in Nat /\ Used' <= cfg'.slots
    BY MapAfter
  <2>2. Cardinality(Fresh(j, n)) \in Nat
    BY FreshRows, JobsAreDistinct
  <2> QED BY <2>1, <2>2, SlotsNumber
<1>3. /\ BankSlots' = BankSlots /\ DOMAIN params = BankSlots
      /\ \A s \in BankSlots :
           params[s] = [from |-> params[s].from, learned |-> params[s].learned]
  BY DEF SlotFacts, ParamsOk, BankSlots
<1>4. DOMAIN params' = BankSlots
      /\ \A s \in BankSlots :
           params'[s] = IF s \in FilledFromTemplate(ini, ini') THEN TemplateParams
                        ELSE params[s]
  BY <1>1
<1>5. ParamsOk'
  BY <1>3, <1>4 DEF ParamsOk, TemplateParams
<1>6. /\ ready \in BOOLEAN /\ extractable \in BOOLEAN
      /\ IsInitializer(ini) /\ ini.template \in BOOLEAN
      /\ ini.template => cfg.method = "ffn_fast_svd"
      /\ ready /\ cfg.method = "ffn_fast_svd" /\ extractable => ini.template
      /\ \A s \in DOMAIN ini.done : ini.done[s] \in BOOLEAN
      /\ DOMAIN ini.done \subseteq 0 .. Used - 1
      /\ \A s \in DOMAIN ini.cache : ini.cache[s] \in Seq(Prompts)
  BY DEF SlotFacts, InitializerOk
<1>7. 0 .. Used - 1 \subseteq BankSlots /\ 0 .. Used - 1 \subseteq 0 .. Used' - 1
      /\ new \subseteq 0 .. Used' - 1 /\ \A s \in new : s \notin 0 .. Used - 1
  <2>1. 0 .. Used - 1 \subseteq BankSlots
    BY <1>2, Intervals DEF BankSlots
  <2>2. /\ 0 .. Used - 1 \subseteq 0 .. Used' - 1
        /\ \A s \in Used .. Used' - 1 : s \in 0 .. Used' - 1 /\ s \notin 0 .. Used - 1
    BY <1>2, Intervals
  <2> QED BY <2>1, <2>2
<1>8. \A p \in DOMAIN promptSlot' : promptSlot'[p] \in BankSlots
  BY <1>1, <1>7
<1>9. CASE cfg.method = "none"
  <2>1. ini' = ini /\ ~ini.template /\ ini.template = FALSE
    BY <1>1, <1>6, <1>9
  <2>2. InitializerOk'
    <3>1. DOMAIN ini.done \subseteq 0 .. Used' - 1
      BY <1>6, <1>7
    <3> QED BY <1>6, <2>1, <3>1 DEF InitializerOk
  <2>3. StartsFromTemplate' /\ FitsOwnRows'
    BY <1>9, <2>1 DEF StartsFromTemplate, FitsOwnRows
  <2> QED BY <1>5, <2>2, <2>3 DEF SlotFacts
<1>10. CASE cfg.method = "ffn_fast_svd"
  <2>1. /\ IsInitializer(ini')
        /\ ini'.template = ini.template
        /\ ini'.cache = ini.cache
        /\ DOMAIN ini'.done = (DOMAIN ini.done \cup known) \cup new
        /\ \A s \in DOMAIN ini'.done :
             ini'.done[s] = IF s \in new THEN ini.template
                            ELSE IF s \in known THEN TRUE ELSE ini.done[s]
    <3>1. ini' = OnAssigned(OnExisting(ini, cfg.method, known), cfg.method, new)
      BY <1>1, <1>10
    <3>2. IsInitializer(ini)
      BY <1>6
    <3>4. Notes(ini, cfg.method, known, new, ini')
      BY <3>1, <3>2, OnAssignedNotes
    <3> QED BY <1>10, <3>4 DEF Notes
  <2>2. InitializerOk'
    <3>1. DOMAIN ini'.done \subseteq 0 .. Used' - 1
      BY <1>6, <1>7, <2>1
    <3>2. \A s \in DOMAIN ini'.done : ini'.done[s] \in BOOLEAN
      BY <1>6, <2>1
    <3> QED BY <1>6, <1>10, <2>1, <3>1, <3>2 DEF InitializerOk
  <2>3. StartsFromTemplate'
    <3> SUFFICES ASSUME ini.template, NEW p \in DOMAIN promptSlot'
                 PROVE  /\ params'[promptSlot'[p]].from = "template"
                        /\ params'[promptSlot'[p]].learned \subseteq {p}
      BY <2>1 DEF StartsFromTemplate
    <3> DEFINE s == promptSlot'[p]
    <3>1. TemplateParams.from = "template" /\ TemplateParams.learned = {}
      BY DEF TemplateParams
    <3>2. CASE s \in FilledFromTemplate(ini, ini')
      BY <1>4, <1>8, <3>1, <3>2
    <3>3. CASE s \notin FilledFromTemplate(ini, ini')
      <4>1. s \notin new
        <5> SUFFICES ASSUME s \in new PROVE FALSE
          OBVIOUS
        <5>1. s \in DOMAIN ini'.done /\ ini'.done[s] /\ s \notin DOMAIN ini.done
          BY <1>6, <1>7, <2>1
        <5> QED BY <3>3, <5>1 DEF FilledFromTemplate, Known
      <4>2. p \in DOMAIN promptSlot /\ s = promptSlot[p]
        BY <1>1, <4>1
      <4>3. params'[s] = params[s]
        BY <1>4, <1>8, <3>3
      <4> QED BY <4>2, <4>3 DEF SlotFacts, StartsFromTemplate
    <3> QED BY <3>2, <3>3
  <2>4. FitsOwnRows'
    BY <1>10 DEF FitsOwnRows
  <2> QED BY <1>5, <2>2, <2>3, <2>4 DEF SlotFacts
<1>11. CASE cfg.method = "ridge_svd"
  <2>1. /\ IsInitializer(ini')
        /\ ini'.template = ini.template
        /\ DOMAIN ini'.done = DOMAIN ini.done \cup new
        /\ \A s \in DOMAIN ini'.done :
             ini'.done[s] = IF s \in new THEN FALSE ELSE ini.done[s]
        /\ DOMAIN ini'.cache = DOMAIN ini.cache \cup new
        /\ \A s \in DOMAIN ini'.cache :
             ini'.cache[s] = IF s \in new THEN <<>> ELSE ini.cache[s]
    <3>1. ini' = OnAssigned(OnExisting(ini, cfg.method, known), cfg.method, new)
      BY <1>1, <1>11
    <3>2. IsInitializer(ini)
      BY <1>6
    <3>3. cfg.method # "ffn_fast_svd"
      BY <1>11
    <3>4. Notes(ini, cfg.method, known, new, ini')
      BY <3>1, <3>2, OnAssignedNotes
    <3> QED BY <3>3, <3>4 DEF Notes
  <2>t. ini.template = FALSE
    BY <1>6, <1>11
  <2>2. InitializerOk'
    <3>1. DOMAIN ini'.done \subseteq 0 .. Used' - 1
      BY <1>6, <1>7, <2>1
    <3>2. \A s \in DOMAIN ini'.done : ini'.done[s] \in BOOLEAN
      BY <1>6, <2>1
    <3>4. \A s \in DOMAIN ini'.cache : ini'.cache[s] \in Seq(Prompts)
      <4>1. <<>> \in Seq(Prompts)
        OBVIOUS
      <4> QED BY <1>6, <2>1, <4>1
    <3> QED BY <1>6, <1>11, <2>1, <3>1, <3>2, <3>4 DEF InitializerOk
  <2>3. StartsFromTemplate'
    BY <2>1, <2>t DEF StartsFromTemplate
  <2>4. FitsOwnRows'
    <3> SUFFICES ASSUME NEW p \in DOMAIN promptSlot', NEW s, s = promptSlot'[p]
                 PROVE  /\ params'[s].from = "fit" /\ Known(ini'.done, s, FALSE)
                             => params'[s].learned \subseteq {p}
                        /\ \A i \in DOMAIN Known(ini'.cache, s, <<>>) : ini'.cache[s][i] = p
                        /\ Len(Known(ini'.cache, s, <<>>)) <= 2 * MinRows
      BY DEF FitsOwnRows
    <3>1. CASE s \in new
      <4>1. ~Known(ini'.done, s, FALSE) /\ Known(ini'.cache, s, <<>>) = <<>>
        BY <2>1, <3>1 DEF Known
      <4>2. MinRows \in Nat /\ Len(<<>>) = 0 /\ DOMAIN <<>> = {}
        BY InitializerAssumption
      <4>3. \A i \in DOMAIN Known(ini'.cache, s, <<>>) : ini'.cache[s][i] = p
        BY <4>1, <4>2
      <4>4. Len(Known(ini'.cache, s, <<>>)) <= 2 * MinRows
        BY <4>1, <4>2
      <4> QED BY <4>1, <4>3, <4>4
    <3>2. CASE s \notin new
      <4>1. p \in DOMAIN promptSlot /\ s = promptSlot[p] /\ s \in BankSlots
        BY <1>1, <1>7, <3>2
      <4>2. /\ Known(ini'.done, s, FALSE) = Known(ini.done, s, FALSE)
            /\ Known(ini'.cache, s, <<>>) = Known(ini.cache, s, <<>>)
            /\ s \in DOMAIN ini'.cache => ini'.cache[s] = ini.cache[s]
        BY <2>1, <3>2 DEF Known
      <4>3. params'[s] = params[s]
        <5>1. FilledFromTemplate(ini, ini') = {}
          BY <2>t DEF FilledFromTemplate
        <5> QED BY <1>4, <4>1, <5>1
      <4>4. \A i \in DOMAIN Known(ini.cache, s, <<>>) :
              s \in DOMAIN ini.cache /\ s \in DOMAIN ini'.cache
        BY <2>1 DEF Known
      <4>5. /\ params[s].from = "fit" /\ Known(ini.done, s, FALSE)
                  => params[s].learned \subseteq {p}
            /\ \A i \in DOMAIN Known(ini.cache, s, <<>>) : ini.cache[s][i] = p
            /\ Len(Known(ini.cache, s, <<>>)) <= 2 * MinRows
        BY <1>11, <4>1 DEF SlotFacts, FitsOwnRows
      <4> QED BY <4>2, <4>3, <4>4, <4>5
    <3> QED BY <3>1, <3>2
  <2> QED BY <1>5, <2>2, <2>3, <2>4 DEF SlotFacts
<1> QED BY <1>9, <1>10, <1>11, Methods

-----------------------------------------------------------------------------
(***************************************************************************)
(* Resets, and what leaves the slots alone.                                *)
(***************************************************************************)

\* An empty map is a map.
LEMMA NoMap ==
  /\ DOMAIN <<>> = {} /\ IsFiniteSet(DOMAIN <<>>) /\ Cardinality(DOMAIN <<>>) = 0
  /\ <<>> \in [DOMAIN <<>> -> 0 .. Cardinality(DOMAIN <<>>) - 1]
<1>1. DOMAIN <<>> = {}
  OBVIOUS
<1>2. IsFiniteSet({}) /\ Cardinality({}) = 0
  BY FS_EmptySet
<1> QED BY <1>1, <1>2

\* A reset leaves an empty map, and an initializer that has seen no slot.
LEMMA ResetNotes ==
  ASSUME NEW old, IsInitializer(old), NEW after,
         after = NewInitializer \/ after = ResetRuntime(old)
  PROVE  /\ IsInitializer(after) /\ after.done = <<>> /\ after.cache = <<>>
         /\ after = NewInitializer => after.template = FALSE
         /\ after = ResetRuntime(old) => after.template = old.template
<1>1. CASE after = NewInitializer
  BY <1>1 DEF NewInitializer, IsInitializer, ResetRuntime
<1>2. CASE after = ResetRuntime(old)
  <2>1. PICK t, d0, e0, c0 :
          old = [template |-> t, done |-> d0, seen |-> e0, cache |-> c0]
    BY DEF IsInitializer
  <2>2. after = [template |-> t, done |-> <<>>, seen |-> <<>>, cache |-> <<>>]
    BY <1>2, <2>1 DEF ResetRuntime
  <2> QED BY <2>1, <2>2 DEF IsInitializer, NewInitializer
<1> QED BY <1>1, <1>2

\* Preparing from the model finds a template, or leaves the initializer as it is.
LEMMA PreparedNotes ==
  ASSUME NEW old, IsInitializer(old), NEW method, NEW found
  PROVE  LET after == Prepared(old, method, found)
         IN /\ IsInitializer(after) /\ after.done = old.done /\ after.cache = old.cache
            /\ after.template = IF method = "ffn_fast_svd" /\ ~old.template THEN found
                                ELSE old.template
<1>1. PICK t, d0, e0, c0 :
        old = [template |-> t, done |-> d0, seen |-> e0, cache |-> c0]
  BY DEF IsInitializer
<1>2. CASE method = "ffn_fast_svd" /\ ~old.template
  <2>1. Prepared(old, method, found)
          = [template |-> found, done |-> d0, seen |-> e0, cache |-> c0]
    BY <1>1, <1>2 DEF Prepared
  <2> QED BY <1>1, <1>2, <2>1 DEF IsInitializer
<1>3. CASE ~(method = "ffn_fast_svd" /\ ~old.template)
  BY <1>3 DEF Prepared
<1> QED BY <1>2, <1>3

\* After a reset nothing is known of any slot.
LEMMA ResetSlots ==
  ASSUME promptSlot' = <<>>, IsInitializer(ini'), ini'.done = <<>>, ini'.cache = <<>>,
         ready' \in BOOLEAN, extractable' \in BOOLEAN, ini'.template \in BOOLEAN,
         ini'.template => cfg'.method = "ffn_fast_svd",
         ready' /\ cfg'.method = "ffn_fast_svd" /\ extractable' => ini'.template,
         cfg'.slots \in Nat, phase' # "idle" => job' \in Jobs,
         phase' \notin {"assigned", "prepared"}, ParamsOk'
  PROVE  SlotInv'
<1>1. DOMAIN promptSlot' = {} /\ Used' = 0
  BY NoMap DEF Used
<1>2. promptSlot' \in [DOMAIN promptSlot' -> 0 .. Used' - 1]
  BY NoMap DEF Used
<1>3. MapOk'
  BY <1>1, <1>2, NoMap DEF MapOk, Jobs, Rows
<1>4. InitializerOk'
  BY <1>1, NoMap DEF InitializerOk
<1>5. StartsFromTemplate' /\ FitsOwnRows'
  BY <1>1 DEF StartsFromTemplate, FitsOwnRows
<1> QED BY <1>3, <1>4, <1>5 DEF SlotInv, SlotFacts

\* What is known of the slots depends on nothing else.
LEMMA SlotsKept ==
  ASSUME SlotInv, UNCHANGED <<promptSlot, ini, params, ready, extractable>>,
         cfg'.mode = cfg.mode, cfg'.method = cfg.method, cfg'.slots = cfg.slots,
         phase' # "idle" => job' \in Jobs,
         phase' \in {"assigned", "prepared"} =>
           phase \in {"assigned", "prepared"} /\ job' = job
  PROVE  SlotInv'
<1>1. Used' = Used
  BY DEF Used
<1>2. MapOk'
  <2>1. /\ IsFiniteSet(DOMAIN promptSlot')
        /\ promptSlot' \in [DOMAIN promptSlot' -> 0 .. Used' - 1]
        /\ \A p, q \in DOMAIN promptSlot' : promptSlot'[p] = promptSlot'[q] => p = q
        /\ Used' <= cfg'.slots
        /\ DOMAIN promptSlot' # {} => ready'
    BY <1>1 DEF SlotInv, MapOk
  <2>2. phase' \in {"assigned", "prepared"} =>
          \A i \in 1 .. Len(job') : job'[i] \in DOMAIN promptSlot'
    BY DEF SlotInv, MapOk
  <2>3. phase' # "idle" => job' \in Jobs'
    BY DEF Jobs, Rows
  <2> QED BY <2>1, <2>2, <2>3 DEF MapOk
<1>3. ParamsOk' /\ InitializerOk'
  BY <1>1 DEF SlotInv, SlotFacts, ParamsOk, InitializerOk, Bank, BankSlots
<1>4. StartsFromTemplate' /\ FitsOwnRows'
  BY DEF SlotInv, SlotFacts, StartsFromTemplate, FitsOwnRows
<1> QED BY <1>2, <1>3, <1>4 DEF SlotInv, SlotFacts

LEMMA SlotInit == Init => SlotInv
<1> SUFFICES ASSUME Init PROVE SlotInv
  OBVIOUS
<1>1. DOMAIN promptSlot = {} /\ Used = 0 /\ IsFiniteSet(DOMAIN promptSlot)
      /\ promptSlot \in [DOMAIN promptSlot -> 0 .. Used - 1]
  BY NoMap DEF Used, Init
<1>2. /\ ini = NewInitializer /\ cfg \in Configs /\ ready = FALSE /\ phase = "idle"
      /\ extractable \in BOOLEAN
  BY DEF Init
<1>3. cfg.slots \in Nat
  BY <1>2, TrainingAssumption
<1>4. MapOk
  BY <1>1, <1>2, <1>3 DEF MapOk
<1>5. InitializerOk
  BY <1>2, NoMap DEF InitializerOk, IsInitializer, NewInitializer
<1>6. ParamsOk /\ StartsFromTemplate /\ FitsOwnRows
  BY <1>1, <1>2 DEF ParamsOk, StartsFromTemplate, FitsOwnRows
<1> QED BY <1>4, <1>5, <1>6 DEF SlotInv, SlotFacts

LEMMA ConfigureSlots ==
  ASSUME IInv, SlotInv, NEW c \in Configs, Configure(c)
  PROVE  SlotInv'
<1> DEFINE resources == [c EXCEPT !.everyStep = TRUE, !.rows = 1]
                          # [cfg EXCEPT !.everyStep = TRUE, !.rows = 1]
           resets    == resources \/ c.everyStep # cfg.everyStep
<1>1. /\ ready' = (ready /\ ~resources)
      /\ promptSlot' = IF resets THEN <<>> ELSE promptSlot
      /\ ini' = IF c.method # cfg.method THEN NewInitializer
                ELSE IF resets THEN ResetRuntime(ini) ELSE ini
      /\ params' = IF resources THEN <<>> ELSE params
      /\ cfg' = c /\ phase = "idle" /\ phase' = "idle" /\ job' = job /\ extractable' = extractable
  BY DEF Configure
<1>2. ~resources => c.mode = cfg.mode /\ c.method = cfg.method /\ c.slots = cfg.slots
  BY TrainingAssumption DEF IInv, HostOk
<1>3. c.slots \in Nat
  BY TrainingAssumption
<1>4. ready \in BOOLEAN /\ extractable \in BOOLEAN /\ IsInitializer(ini) /\ ini.template \in BOOLEAN
      /\ (ini.template => cfg.method = "ffn_fast_svd")
      /\ (ready /\ cfg.method = "ffn_fast_svd" /\ extractable => ini.template)
  BY DEF SlotInv, SlotFacts, InitializerOk
<1> HIDE DEF resources
<1>5. CASE resets
  <2>1. ini' = NewInitializer \/ (ini' = ResetRuntime(ini) /\ c.method = cfg.method)
    BY <1>1, <1>5
  <2>2. /\ IsInitializer(ini') /\ ini'.done = <<>> /\ ini'.cache = <<>>
        /\ ini'.template = FALSE \/ (ini'.template = ini.template /\ c.method = cfg.method)
    BY <1>4, <2>1, ResetNotes
  <2>3. /\ ini'.template \in BOOLEAN /\ (ini'.template => c.method = "ffn_fast_svd")
    BY <1>4, <2>2
  <2>4. ready' /\ c.method = "ffn_fast_svd" /\ extractable' => ini'.template
    <3> SUFFICES ASSUME ready', c.method = "ffn_fast_svd", extractable' PROVE ini'.template
      OBVIOUS
    <3>1. c.method = cfg.method /\ ready /\ extractable
      BY <1>1, <1>2
    <3>2. ini' = ResetRuntime(ini) /\ ini.template
      BY <1>1, <1>4, <1>5, <3>1
    <3> QED BY <1>4, <3>2, ResetNotes
  <2>5. ParamsOk'
    <3>1. CASE resources
      BY <1>1, <3>1 DEF ParamsOk
    <3>2. CASE ~resources
      BY <1>1, <1>2, <3>2 DEF ParamsOk, Bank, BankSlots, SlotInv, SlotFacts
    <3> QED BY <3>1, <3>2
  <2>6. promptSlot' = <<>>
    BY <1>1, <1>5
  <2>7. ready' \in BOOLEAN /\ extractable' \in BOOLEAN
    BY Zenon, <1>1, <1>4
  <2> QED BY <1>1, <1>3, <2>2, <2>3, <2>4, <2>5, <2>6, <2>7, ResetSlots
<1>6. CASE ~resets
  <2>0. ready' = ready
    BY Zenon, <1>1, <1>4, <1>6
  <2>1. UNCHANGED <<promptSlot, ini, params, ready, extractable>>
    BY <1>1, <1>2, <1>6, <2>0
  <2> QED BY <1>1, <1>2, <1>6, <2>1, SlotsKept
<1> QED BY <1>5, <1>6

LEMMA ConsumeSlots ==
  ASSUME IInv, SlotInv, NEW j \in Jobs, Consume(j)
  PROVE  SlotInv'
<1> DEFINE rows    == IF Len(j) > cfg.rows THEN Len(j) ELSE cfg.rows
           ensures == stale \/ rows # rowsCap
           rebuilt == ensures /\ rows # rowsCap
           newBank == ensures /\ Bank /\ ~ready
           resets  == rebuilt \/ newBank
           runtime == IF resets THEN ResetRuntime(ini) ELSE ini
<1>1. /\ phase' = "staged" /\ job' = j /\ cfg' = cfg /\ extractable' = extractable
      /\ ready' = (ready \/ ensures)
      /\ promptSlot' = IF resets THEN <<>> ELSE promptSlot
      /\ ini' = IF ensures THEN Prepared(runtime, cfg.method, extractable) ELSE ini
      /\ params' = IF newBank THEN [s \in BankSlots |-> RandomParams] ELSE params
  BY DEF Consume
<1>2. /\ IsInitializer(ini) /\ ini.template \in BOOLEAN
      /\ (ini.template => cfg.method = "ffn_fast_svd")
      /\ (ready /\ cfg.method = "ffn_fast_svd" /\ extractable => ini.template)
      /\ ready \in BOOLEAN /\ extractable \in BOOLEAN
  BY DEF SlotInv, SlotFacts, InitializerOk
<1>3. cfg.slots \in Nat /\ (~stale => ready)
  BY TrainingAssumption DEF IInv, HostOk
<1>4. ready'
  BY <1>1, <1>3
<1>5. /\ IsInitializer(runtime) /\ runtime.template = ini.template
      /\ resets => runtime.done = <<>> /\ runtime.cache = <<>>
      /\ ~resets => runtime = ini
  BY <1>2, ResetNotes
<1> HIDE DEF runtime
<1>6. /\ IsInitializer(ini')
      /\ ini'.done = IF ensures THEN runtime.done ELSE ini.done
      /\ ini'.cache = IF ensures THEN runtime.cache ELSE ini.cache
      /\ ini'.template = IF ensures /\ cfg.method = "ffn_fast_svd" /\ ~ini.template
                         THEN extractable ELSE ini.template
  <2>1. CASE ensures
    <3> DEFINE after == Prepared(runtime, cfg.method, extractable)
    <3>1. /\ IsInitializer(after) /\ after.done = runtime.done /\ after.cache = runtime.cache
          /\ after.template = IF cfg.method = "ffn_fast_svd" /\ ~runtime.template
                              THEN extractable ELSE runtime.template
      BY <1>5, PreparedNotes
    <3>2. ini' = after
      BY <1>1, <2>1
    <3> HIDE DEF after
    <3> QED BY <1>5, <2>1, <3>1, <3>2
  <2>2. CASE ~ensures
    BY <1>1, <1>2, <2>2
  <2> QED BY <2>1, <2>2
<1>7. /\ ini'.template \in BOOLEAN
      /\ ini'.template => cfg.method = "ffn_fast_svd"
      /\ cfg.method = "ffn_fast_svd" /\ extractable => ini'.template
  <2>1. CASE ensures /\ cfg.method = "ffn_fast_svd" /\ ~ini.template
    BY <1>2, <1>6, <2>1
  <2>2. CASE ~(ensures /\ cfg.method = "ffn_fast_svd" /\ ~ini.template)
    <3>1. ini'.template = ini.template
      BY <1>6, <2>2
    <3>2. cfg.method = "ffn_fast_svd" /\ extractable => ini.template
      BY <1>2, <1>3, <2>2
    <3> QED BY <1>2, <3>1, <3>2
  <2> QED BY <2>1, <2>2
<1>8. ParamsOk'
  <2>1. CASE newBank
    BY <1>1, <2>1 DEF ParamsOk, BankSlots, RandomParams
  <2>2. CASE ~newBank
    <3>1. Bank => ready
      BY <1>3, <2>2
    <3> QED BY <1>1, <2>2, <3>1 DEF ParamsOk, Bank, BankSlots, SlotInv, SlotFacts
  <2> QED BY <2>1, <2>2
<1> HIDE DEF rows, newBank, rebuilt, ensures
<1>9. CASE resets
  <2>1. promptSlot' = <<>> /\ ini'.done = <<>> /\ ini'.cache = <<>>
    <3>1. ensures
      BY <1>9 DEF newBank, rebuilt
    <3> QED BY <1>1, <1>5, <1>6, <1>9, <3>1
  <2>2. ready' \in BOOLEAN /\ extractable' \in BOOLEAN
    BY Zenon, <1>1, <1>2
  <2> QED BY <1>1, <1>3, <1>6, <1>7, <1>8, <2>1, <2>2, ResetSlots
<1>10. CASE ~resets
  <2>1. promptSlot' = promptSlot /\ params' = params
    BY <1>1, <1>10
  <2>2. ini'.done = ini.done /\ ini'.cache = ini.cache
    BY <1>5, <1>6, <1>10
  <2>3. Used' = Used /\ MapOk
    BY <2>1 DEF Used, SlotInv
  <2>4. MapOk'
    BY <1>1, <1>4, <2>1, <2>3 DEF MapOk, Jobs, Rows
  <2>5. InitializerOk'
    <3>1. /\ \A s \in DOMAIN ini.done : ini.done[s] \in BOOLEAN
          /\ DOMAIN ini.done \subseteq 0 .. Used - 1
          /\ \A s \in DOMAIN ini.cache : ini.cache[s] \in Seq(Prompts)
      BY DEF SlotInv, SlotFacts, InitializerOk
    <3>2. ready' \in BOOLEAN /\ extractable' \in BOOLEAN
      BY Zenon, <1>1, <1>2
    <3> QED BY <1>1, <1>6, <1>7, <2>2, <2>3, <3>1, <3>2 DEF InitializerOk
  <2>6. StartsFromTemplate'
    <3> SUFFICES ASSUME ini'.template, NEW p \in DOMAIN promptSlot
                 PROVE  /\ params[promptSlot[p]].from = "template"
                        /\ params[promptSlot[p]].learned \subseteq {p}
      BY <2>1 DEF StartsFromTemplate
    <3>1. ready
      BY <2>3 DEF MapOk
    <3>2. ini.template
      BY <1>2, <1>6, <3>1
    <3> QED BY <3>1, <3>2 DEF SlotInv, SlotFacts, StartsFromTemplate
  <2>7. FitsOwnRows'
    <3>1. cfg' = cfg /\ FitsOwnRows
      BY <1>1 DEF SlotInv, SlotFacts
    <3> QED BY <2>1, <2>2, <3>1 DEF FitsOwnRows, Known
  <2> QED BY <1>8, <2>4, <2>5, <2>6, <2>7 DEF SlotInv, SlotFacts
<1> QED BY <1>9, <1>10

-----------------------------------------------------------------------------
(***************************************************************************)
(* The steps on the slots.                                                 *)
(***************************************************************************)

LEMMA AssignForSamplingSlots ==
  ASSUME IInv, SlotInv, NEW j \in Jobs, AssignForSampling(j)
  PROVE  SlotInv'
<1> DEFINE n == Assignable(j)
<1>1. /\ phase = "idle" /\ phase' = "idle" /\ Bank /\ ready /\ n = Len(j)
      /\ AssignSlots(j, n) /\ UNCHANGED <<cfg, ready, extractable, job>>
  BY DEF AssignForSampling, resourceVars
<1>2. n \in 0 .. Len(j) /\ Used + Cardinality(Fresh(j, n)) <= cfg.slots
  BY AssignableFits DEF IInv, SlotInv
<1> HIDE DEF n
<1>3. MapOk'
  BY <1>1, <1>2, MapAfter DEF IInv, SlotInv, MapOk
<1>4. SlotFacts'
  BY <1>1, <1>2, AssignKeepsFacts DEF IInv, SlotInv
<1> QED BY <1>3, <1>4 DEF SlotInv

LEMMA AssignForTrainingSlots ==
  ASSUME IInv, SlotInv, AssignForTraining
  PROVE  SlotInv'
<1> DEFINE n == Assignable(job)
<1>1. /\ phase = "staged" /\ Bank /\ AssignSlots(job, n)
      /\ UNCHANGED <<cfg, ready, extractable>>
      /\ \/ n = Len(job) /\ phase' = "assigned" /\ job' = job
         \/ phase' = "idle"
  BY DEF AssignForTraining, resourceVars
<1>2. job \in Jobs /\ ready
  BY <1>1 DEF IInv, JobOk, SlotInv, MapOk
<1>3. n \in 0 .. Len(job) /\ Used + Cardinality(Fresh(job, n)) <= cfg.slots
  BY <1>2, AssignableFits DEF IInv, SlotInv
<1> HIDE DEF n
<1>4. /\ IsFiniteSet(DOMAIN promptSlot')
      /\ promptSlot' \in [DOMAIN promptSlot' -> 0 .. Used' - 1]
      /\ \A p, q \in DOMAIN promptSlot' : promptSlot'[p] = promptSlot'[q] => p = q
      /\ Used' <= cfg'.slots
      /\ DOMAIN promptSlot' = DOMAIN promptSlot \cup {job[i] : i \in 1 .. n}
  BY <1>1, <1>2, <1>3, MapAfter DEF IInv, SlotInv
<1>5. MapOk'
  <2>1. phase' # "idle" => job' \in Jobs'
    BY <1>1, <1>2 DEF Jobs, Rows
  <2>2. phase' \in {"assigned", "prepared"} =>
          \A i \in 1 .. Len(job') : job'[i] \in DOMAIN promptSlot'
    BY <1>1, <1>4
  <2> QED BY <1>1, <1>2, <1>4, <2>1, <2>2 DEF MapOk
<1>6. SlotFacts'
  BY <1>1, <1>2, <1>3, AssignKeepsFacts DEF IInv, SlotInv
<1> QED BY <1>5, <1>6 DEF SlotInv

\* What a batch trains is learned by the slots of its rows, in a bank.
LEMMA TrainLearns ==
  ASSUME NEW g, NEW graph, NEW ids, NEW view, NEW rows, TrainWith(g, graph, ids, view, rows)
  PROVE  params' = IF Bank THEN LearnedFrom(trained') ELSE params
<1>1. \E pairs : Trained(pairs)
  BY Zenon DEF TrainWith
<1> QED BY <1>1 DEF Trained

LEMMA TrainSharedSlots ==
  ASSUME IInv, SlotInv, TrainShared
  PROVE  SlotInv'
<1>1. /\ phase = "staged" /\ ~Bank /\ phase' = "trained"
      /\ UNCHANGED <<cfg, ready, extractable, promptSlot, ini, job>>
  BY DEF TrainShared, resourceVars
<1>2. \E pairs : Trained(pairs)
  BY DEF TrainShared, TrainWith
<1>3. params' = params
  BY <1>1, <1>2 DEF Trained
<1>4. job \in Jobs
  BY <1>1 DEF SlotInv, MapOk
<1> QED BY <1>1, <1>3, <1>4, SlotsKept

\* A slot of the map learns from its own prompt only.
LEMMA TrainBankSlots ==
  ASSUME IInv, SlotInv, TrainBank
  PROVE  SlotInv'
<1>1. /\ phase = "prepared" /\ Bank /\ phase' = "trained"
      /\ UNCHANGED <<cfg, ready, extractable, promptSlot, ini, job>>
      /\ TrainWith(slot, graphs[slot], JobIds, slot, Len(job))
  BY DEF TrainBank, SlotGraph, resourceVars, IInv, HostOk
<1>2. /\ job \in Jobs /\ ready /\ Len(job) \in Nat /\ DOMAIN job = 1 .. Len(job)
      /\ \A i \in 1 .. Len(job) : job[i] \in DOMAIN promptSlot
  <2>1. job \in Jobs /\ ready /\ \A i \in 1 .. Len(job) : job[i] \in DOMAIN promptSlot
    BY <1>1 DEF IInv, JobOk, SlotInv, MapOk
  <2> QED BY <2>1, JobsAreDistinct
<1>3. params' = LearnedFrom(trained')
  BY <1>1, TrainLearns
<1>4. trained' = {<<promptSlot[job[i]], job[i]>> : i \in 1 .. Len(job)}
  <2>1. TrainsTheBatch'
    BY TrainBankKeeps DEF IInv
  <2>2. Bank'
    BY <1>1 DEF Bank
  <2> QED BY <1>1, <1>2, <2>1, <2>2 DEF TrainsTheBatch
<1>5. /\ BankSlots' = BankSlots /\ DOMAIN params = BankSlots
      /\ \A s \in BankSlots :
           params[s] = [from |-> params[s].from, learned |-> params[s].learned]
  BY <1>1, <1>2 DEF SlotInv, SlotFacts, ParamsOk, BankSlots
<1> DEFINE rows(s) == {t[2] : t \in {u \in trained' : u[1] = s /\ u[2] # Old}}
<1>6. DOMAIN params' = BankSlots
      /\ \A s \in BankSlots :
           params'[s] = [from |-> params[s].from, learned |-> params[s].learned \cup rows(s)]
  <2>1. params' = [s \in BankSlots |-> [params[s] EXCEPT !.learned = @ \cup rows(s)]]
    BY <1>3 DEF LearnedFrom
  <2> SUFFICES ASSUME NEW s \in BankSlots
               PROVE  params'[s] = [from |-> params[s].from,
                                    learned |-> params[s].learned \cup rows(s)]
    BY <2>1
  <2> HIDE DEF rows
  <2>2. PICK f, l : params[s] = [from |-> f, learned |-> l]
    BY <1>5
  <2>3. params'[s] = [params[s] EXCEPT !.learned = params[s].learned \cup rows(s)]
    BY <2>1
  <2>4. \A r : [params[s] EXCEPT !.learned = params[s].learned \cup r]
                = [from |-> f, learned |-> l \cup r]
    BY ONLY <2>2
  <2>5. params'[s] = [from |-> f, learned |-> l \cup rows(s)]
    BY <2>3, <2>4
  <2> QED BY <2>2, <2>5
<1>7. ASSUME NEW p \in DOMAIN promptSlot
      PROVE  promptSlot[p] \in BankSlots /\ rows(promptSlot[p]) \subseteq {p}
  <2>1. promptSlot[p] \in BankSlots
    <3>1. promptSlot[p] \in 0 .. Used - 1 /\ Used \in Nat /\ cfg.slots \in Nat
          /\ Used <= cfg.slots
      BY SlotsNumber DEF IInv, SlotInv, MapOk
    <3>2. 0 .. Used - 1 \subseteq 0 .. cfg.slots - 1
      BY <3>1, Intervals
    <3> QED BY <3>1, <3>2 DEF BankSlots
  <2>2. ASSUME NEW i \in 1 .. Len(job), promptSlot[job[i]] = promptSlot[p]
        PROVE  job[i] = p
    BY <1>2, <2>2 DEF SlotInv, MapOk
  <2> QED BY <1>4, <2>1, <2>2
<1> HIDE DEF rows
<1>8. MapOk'
  BY <1>1, <1>2 DEF SlotInv, MapOk, Used, Jobs, Rows
<1>9. ParamsOk'
  BY <1>5, <1>6 DEF ParamsOk
<1>10. InitializerOk'
  BY <1>1 DEF SlotInv, SlotFacts, InitializerOk, Used
<1>11. StartsFromTemplate'
  BY <1>1, <1>6, <1>7 DEF SlotInv, SlotFacts, StartsFromTemplate
<1>12. FitsOwnRows'
  <2>0. ini' = ini /\ promptSlot' = promptSlot /\ cfg' = cfg
    BY <1>1
  <2>1. ASSUME cfg.method = "ridge_svd", NEW p \in DOMAIN promptSlot,
               NEW s, s = promptSlot[p]
        PROVE  /\ params'[s].from = "fit" /\ Known(ini.done, s, FALSE)
                    => params'[s].learned \subseteq {p}
               /\ \A i \in DOMAIN Known(ini.cache, s, <<>>) : ini.cache[s][i] = p
               /\ Len(Known(ini.cache, s, <<>>)) <= 2 * MinRows
    <3>1. /\ params[s].from = "fit" /\ Known(ini.done, s, FALSE)
               => params[s].learned \subseteq {p}
          /\ \A i \in DOMAIN Known(ini.cache, s, <<>>) : ini.cache[s][i] = p
          /\ Len(Known(ini.cache, s, <<>>)) <= 2 * MinRows
      BY <2>1 DEF SlotInv, SlotFacts, FitsOwnRows
    <3>2. params'[s].from = params[s].from
          /\ params'[s].learned \subseteq params[s].learned \cup {p}
      BY <1>6, <1>7, <2>1
    <3> QED BY <3>1, <3>2
  <2>2. cfg'.method = "ridge_svd" =>
          \A p \in DOMAIN promptSlot' :
            LET s == promptSlot'[p]
            IN /\ params'[s].from = "fit" /\ Known(ini'.done, s, FALSE)
                     => params'[s].learned \subseteq {p}
               /\ \A i \in DOMAIN Known(ini'.cache, s, <<>>) : ini'.cache[s][i] = p
               /\ Len(Known(ini'.cache, s, <<>>)) <= 2 * MinRows
    <3> SUFFICES ASSUME cfg'.method = "ridge_svd", NEW p \in DOMAIN promptSlot',
                        NEW s, s = promptSlot'[p]
                 PROVE  /\ params'[s].from = "fit" /\ Known(ini'.done, s, FALSE)
                             => params'[s].learned \subseteq {p}
                        /\ \A i \in DOMAIN Known(ini'.cache, s, <<>>) : ini'.cache[s][i] = p
                        /\ Len(Known(ini'.cache, s, <<>>)) <= 2 * MinRows
      OBVIOUS
    <3>1. cfg.method = "ridge_svd" /\ p \in DOMAIN promptSlot /\ s = promptSlot[p]
      BY <2>0
    <3>2. /\ params'[s].from = "fit" /\ Known(ini.done, s, FALSE)
               => params'[s].learned \subseteq {p}
          /\ \A i \in DOMAIN Known(ini.cache, s, <<>>) : ini.cache[s][i] = p
          /\ Len(Known(ini.cache, s, <<>>)) <= 2 * MinRows
      BY <2>1, <3>1
    <3> QED BY <2>0, <3>2
  <2> QED BY <2>2 DEF FitsOwnRows
<1> QED BY <1>8, <1>9, <1>10, <1>11, <1>12 DEF SlotInv, SlotFacts

\* The rows a job has for a slot are those of the prompt that owns the slot.
LEMMA RowsOfOwner ==
  ASSUME IInv, SlotInv, phase = "assigned", NEW p \in DOMAIN promptSlot
  PROVE  LET own == RowsOfSlot(JobIds, buffers[slot], promptSlot[p])
         IN own = <<>> \/ own = <<p>>
<1> DEFINE s == promptSlot[p]
           mine == {i \in DOMAIN JobIds : JobIds[i] = s}
<1>1. /\ job \in Jobs /\ Len(job) \in Nat /\ DOMAIN job = 1 .. Len(job)
      /\ \A i \in 1 .. Len(job) : buffers[slot][i] = job[i] /\ job[i] \in DOMAIN promptSlot
  <2>1. /\ job \in Jobs /\ \A i \in 1 .. Len(job) : job[i] \in DOMAIN promptSlot
        /\ \A i \in 1 .. Len(job) : buffers[slot][i] = job[i]
    BY DEF IInv, JobOk, SlotInv, MapOk
  <2> QED BY <2>1, JobsAreDistinct
<1>2. \A i \in mine : i \in 1 .. Len(job) /\ promptSlot[job[i]] = s
  BY <1>1 DEF JobIds
<1>3. \A i \in mine : buffers[slot][i] = p
  BY <1>1, <1>2 DEF SlotInv, MapOk
<1>4. RowsOfSlot(JobIds, buffers[slot], s)
        = IF mine = {} THEN <<>> ELSE <<buffers[slot][CHOOSE i \in mine : TRUE]>>
  BY DEF RowsOfSlot
<1> HIDE DEF mine
<1>5. mine # {} => (CHOOSE i \in mine : TRUE) \in mine
  OBVIOUS
<1> QED BY <1>3, <1>4, <1>5

\* Every row of a job is a row of one of the prompts.
LEMMA RowsOfAnySlot ==
  ASSUME IInv, SlotInv, phase = "assigned", NEW s
  PROVE  RowsOfSlot(JobIds, buffers[slot], s) \in Seq(Prompts)
<1> DEFINE mine == {i \in DOMAIN JobIds : JobIds[i] = s}
<1>1. \A i \in mine : buffers[slot][i] \in Prompts
  <2>1. /\ job \in Seq(Prompts) /\ \A i \in 1 .. Len(job) : buffers[slot][i] = job[i]
    BY DEF IInv, JobOk
  <2> QED BY <2>1 DEF JobIds
<1>2. RowsOfSlot(JobIds, buffers[slot], s)
        = IF mine = {} THEN <<>> ELSE <<buffers[slot][CHOOSE i \in mine : TRUE]>>
  BY DEF RowsOfSlot
<1> HIDE DEF mine
<1>3. mine # {} => (CHOOSE i \in mine : TRUE) \in mine
  OBVIOUS
<1>4. CASE mine = {}
  BY <1>2, <1>4
<1>5. CASE mine # {}
  <2>1. buffers[slot][CHOOSE i \in mine : TRUE] \in Prompts
    BY <1>1, <1>3, <1>5
  <2> QED BY <1>2, <1>5, <2>1
<1> QED BY <1>4, <1>5

\* The rows that are kept are some of those there were and those there are, and never
\* more than twice MinRows.
LEMMA CollectedRows ==
  ASSUME NEW i, NEW ids, NEW rows, NEW s,
         Known(i.cache, s, <<>>) \in Seq(Prompts), RowsOfSlot(ids, rows, s) \in Seq(Prompts)
  PROVE  LET kept == Collected(i, ids, rows, s)
         IN /\ kept \in Seq(Prompts) /\ Len(kept) <= 2 * MinRows
            /\ \A k \in 1 .. Len(kept) :
                 \/ \E m \in 1 .. Len(Known(i.cache, s, <<>>)) :
                      kept[k] = Known(i.cache, s, <<>>)[m]
                 \/ \E m \in 1 .. Len(RowsOfSlot(ids, rows, s)) :
                      kept[k] = RowsOfSlot(ids, rows, s)[m]
<1> DEFINE a == Known(i.cache, s, <<>>)
           b == RowsOfSlot(ids, rows, s)
           all == a \o b
           cap == 2 * MinRows
           kept == Collected(i, ids, rows, s)
<1>1. a \in Seq(Prompts) /\ b \in Seq(Prompts) /\ cap \in Nat
  BY InitializerAssumption
<1>2. kept = IF Len(all) > cap THEN SubSeq(all, Len(all) - cap + 1, Len(all)) ELSE all
  BY DEF Collected
<1> HIDE DEF a, b, kept, cap
<1>3. /\ all \in Seq(Prompts) /\ Len(all) = Len(a) + Len(b)
      /\ \A k \in 1 .. Len(all) : all[k] = IF k <= Len(a) THEN a[k] ELSE b[k - Len(a)]
  BY <1>1
<1> HIDE DEF all
<1>4. \A k \in 1 .. Len(all) :
        (\E m \in 1 .. Len(a) : all[k] = a[m]) \/ (\E m \in 1 .. Len(b) : all[k] = b[m])
  <2> SUFFICES ASSUME NEW k \in 1 .. Len(all)
               PROVE  \/ \E m \in 1 .. Len(a) : all[k] = a[m]
                      \/ \E m \in 1 .. Len(b) : all[k] = b[m]
    OBVIOUS
  <2>1. Len(a) \in Nat /\ Len(b) \in Nat
    BY <1>1
  <2>2. CASE k <= Len(a)
    BY <1>3, <2>1, <2>2
  <2>3. CASE ~(k <= Len(a))
    <3>1. k - Len(a) \in 1 .. Len(b) /\ all[k] = b[k - Len(a)]
      BY <1>3, <2>1, <2>3
    <3> QED BY <3>1
  <2> QED BY <2>2, <2>3
<1>5. CASE Len(all) > cap
  <2> DEFINE lo == Len(all) - cap + 1
  <2>1. kept = SubSeq(all, lo, Len(all)) /\ Len(all) \in Nat /\ lo \in 1 .. Len(all) + 1
    BY <1>1, <1>2, <1>3, <1>5
  <2>2. Len(all) - lo + 1 = cap /\ \A k \in 1 .. cap : lo + k - 1 \in 1 .. Len(all)
    BY <1>1, <1>5, <2>1
  <2>3. lo \in Nat /\ lo >= 1
    BY <2>1
  <2> HIDE DEF lo
  <2>4. kept \in Seq(Prompts) /\ Len(kept) = cap
    BY <1>1, <1>3, <2>1, <2>2, <2>3
  <2>5. \A k \in 1 .. cap : kept[k] = all[lo + k - 1]
    BY <1>1, <1>3, <2>1, <2>2, <2>3
  <2>6. \A k \in 1 .. Len(kept) : \/ \E m \in 1 .. Len(a) : kept[k] = a[m]
                                  \/ \E m \in 1 .. Len(b) : kept[k] = b[m]
    <3>1. ASSUME NEW k \in 1 .. Len(kept)
          PROVE  lo + k - 1 \in 1 .. Len(all) /\ kept[k] = all[lo + k - 1]
      BY <2>2, <2>4, <2>5
    <3> HIDE DEF all, kept
    <3> QED BY ZenonT(30), <1>4, <3>1
  <2>7. Len(kept) <= cap
    BY <1>1, <2>4
  <2> QED BY <2>4, <2>6, <2>7 DEF a, b, kept, cap
<1>6. CASE ~(Len(all) > cap)
  <2>1. kept = all /\ Len(all) \in Nat
    BY <1>2, <1>3, <1>6
  <2>2. kept \in Seq(Prompts) /\ Len(kept) <= cap
    BY <1>1, <1>3, <1>6, <2>1
  <2>3. \A k \in 1 .. Len(kept) : \/ \E m \in 1 .. Len(a) : kept[k] = a[m]
                                  \/ \E m \in 1 .. Len(b) : kept[k] = b[m]
    BY <1>4, <2>1
  <2> QED BY <2>2, <2>3 DEF a, b, kept, cap
<1> QED BY <1>5, <1>6

\* What preparing the slots of a job notes, when the fits of the slots in ok succeed.
PreparedWith(old, ids, rows, ok, after) ==
  /\ IsInitializer(after)
  /\ after.template = old.template
  /\ DOMAIN after.done = DOMAIN old.done
  /\ \A s \in DOMAIN after.done :
       after.done[s] \in BOOLEAN /\ (after.done[s] <=> old.done[s] \/ s \in ok)
  /\ \A s \in DOMAIN after.cache :
       \/ after.cache[s] = Collected(old, ids, rows, s)
       \/ s \in DOMAIN old.cache /\ after.cache[s] = old.cache[s]

LEMMA RowsPreparedNotes ==
  ASSUME NEW old, IsInitializer(old), NEW ids, NEW rows, NEW ok
  PROVE  PreparedWith(old, ids, rows, ok, RowsPrepared(old, ids, rows, ok))
<1> DEFINE after == RowsPrepared(old, ids, rows, ok)
<1>1. PICK t, d0, e0, c0 :
        old = [template |-> t, done |-> d0, seen |-> e0, cache |-> c0]
  BY DEF IsInitializer
<1> DEFINE waiting == Waiting(old, ids, rows)
           due == Due(old, ids, rows)
           d == [s \in DOMAIN d0 |-> d0[s] \/ s \in ok]
           e == [s \in DOMAIN e0 \cup waiting |->
                   IF s \in waiting THEN SeenBy(old, s) ELSE e0[s]]
           c == [s \in (DOMAIN c0 \cup waiting) \ due |->
                   IF s \in waiting THEN Collected(old, ids, rows, s) ELSE c0[s]]
<1>2. old.done = d0 /\ old.seen = e0 /\ old.cache = c0 /\ old.template = t
  BY <1>1
<1>3. after = [old EXCEPT !.done = d, !.seen = e, !.cache = c]
  BY <1>2 DEF RowsPrepared
<1>4. \A s \in DOMAIN d : d[s] \in BOOLEAN /\ (d[s] <=> d0[s] \/ s \in ok)
  BY Zenon
<1>5. DOMAIN d = DOMAIN d0
  OBVIOUS
<1>6. \A s \in DOMAIN c : \/ c[s] = Collected(old, ids, rows, s)
                          \/ s \in DOMAIN c0 /\ c[s] = c0[s]
  OBVIOUS
<1> HIDE DEF waiting, due, d, e, c
<1>7. after = [template |-> t, done |-> d, seen |-> e, cache |-> c]
  BY <1>1, <1>3
<1> HIDE DEF after
<1>8. IsInitializer(after) /\ after.template = t /\ after.done = d /\ after.cache = c
  BY <1>7 DEF IsInitializer
<1>9. \A s \in DOMAIN after.done :
        after.done[s] \in BOOLEAN /\ (after.done[s] <=> old.done[s] \/ s \in ok)
  BY Zenon, <1>2, <1>4, <1>8
<1> QED BY <1>2, <1>5, <1>6, <1>8, <1>9 DEF after, PreparedWith

\* A fit, and what is collected for it, is of the prompt's own rows.
LEMMA PrepareSlotsSlots ==
  ASSUME IInv, SlotInv, PrepareSlots
  PROVE  SlotInv'
<1>1. /\ phase = "assigned" /\ phase' = "prepared"
      /\ UNCHANGED <<cfg, ready, extractable, promptSlot, job>>
  BY DEF PrepareSlots, resourceVars
<1>2. job \in Jobs
  BY <1>1 DEF SlotInv, MapOk
<1>3. CASE cfg.method # "ridge_svd"
  <2>1. UNCHANGED <<ini, params>>
    BY <1>3 DEF PrepareSlots
  <2> QED BY <1>1, <1>2, <2>1, SlotsKept
<1>4. CASE cfg.method = "ridge_svd"
  <2> DEFINE rows == buffers[slot]
             kept(s) == Collected(ini, JobIds, rows, s)
  <2>1. PICK ok \in SUBSET Due(ini, JobIds, rows) :
          /\ ini' = RowsPrepared(ini, JobIds, rows, ok)
          /\ params' = [s \in BankSlots |-> IF s \in ok THEN FitTo(kept(s)) ELSE params[s]]
    BY <1>4 DEF PrepareSlots
  <2>2. PreparedWith(ini, JobIds, rows, ok, ini')
    <3>1. IsInitializer(ini)
      BY DEF SlotInv, SlotFacts, InitializerOk
    <3> QED BY <2>1, <3>1, RowsPreparedNotes
  <2>3. /\ \A s : Known(ini.cache, s, <<>>) \in Seq(Prompts)
        /\ \A s : RowsOfSlot(JobIds, rows, s) \in Seq(Prompts)
    <3>1. <<>> \in Seq(Prompts)
      OBVIOUS
    <3>2. \A s \in DOMAIN ini.cache : ini.cache[s] \in Seq(Prompts)
      BY DEF SlotInv, SlotFacts, InitializerOk
    <3>3. \A s : Known(ini.cache, s, <<>>) \in Seq(Prompts)
      BY <3>1, <3>2 DEF Known
    <3> QED BY <1>1, <3>3, RowsOfAnySlot
  <2>4. \A s : /\ kept(s) \in Seq(Prompts) /\ Len(kept(s)) <= 2 * MinRows
               /\ \A k \in 1 .. Len(kept(s)) :
                    \/ \E m \in 1 .. Len(Known(ini.cache, s, <<>>)) :
                         kept(s)[k] = Known(ini.cache, s, <<>>)[m]
                    \/ \E m \in 1 .. Len(RowsOfSlot(JobIds, rows, s)) :
                         kept(s)[k] = RowsOfSlot(JobIds, rows, s)[m]
    <3> HIDE DEF rows
    <3> QED BY <2>3, CollectedRows
  <2> HIDE DEF kept
  <2>5. ASSUME NEW p \in DOMAIN promptSlot
        PROVE  /\ params[promptSlot[p]].from = "fit" /\ Known(ini.done, promptSlot[p], FALSE)
                    => params[promptSlot[p]].learned \subseteq {p}
               /\ \A i \in 1 .. Len(Known(ini.cache, promptSlot[p], <<>>)) :
                    Known(ini.cache, promptSlot[p], <<>>)[i] = p
               /\ Len(Known(ini.cache, promptSlot[p], <<>>)) <= 2 * MinRows
    <3>1. Known(ini.cache, promptSlot[p], <<>>) \in Seq(Prompts)
      BY <2>3
    <3>2. /\ params[promptSlot[p]].from = "fit" /\ Known(ini.done, promptSlot[p], FALSE)
               => params[promptSlot[p]].learned \subseteq {p}
          /\ \A i \in DOMAIN Known(ini.cache, promptSlot[p], <<>>) :
               ini.cache[promptSlot[p]][i] = p
          /\ Len(Known(ini.cache, promptSlot[p], <<>>)) <= 2 * MinRows
      BY <1>4, <2>5 DEF SlotInv, SlotFacts, FitsOwnRows
    <3>3. \/ Known(ini.cache, promptSlot[p], <<>>) = <<>>
          \/ Known(ini.cache, promptSlot[p], <<>>) = ini.cache[promptSlot[p]]
      BY DEF Known
    <3>4. ASSUME NEW f \in Seq(Prompts), NEW g, \A i \in DOMAIN f : g[i] = p, f = <<>> \/ f = g
          PROVE  \A i \in 1 .. Len(f) : f[i] = p
      BY <3>4
    <3>5. \A i \in 1 .. Len(Known(ini.cache, promptSlot[p], <<>>)) :
            Known(ini.cache, promptSlot[p], <<>>)[i] = p
      BY <3>1, <3>2, <3>3, <3>4
    <3> QED BY <3>2, <3>5
  <2>6. ASSUME NEW p \in DOMAIN promptSlot
        PROVE  \A k \in 1 .. Len(kept(promptSlot[p])) : kept(promptSlot[p])[k] = p
    <3>1. \A m \in 1 .. Len(RowsOfSlot(JobIds, rows, promptSlot[p])) :
            RowsOfSlot(JobIds, rows, promptSlot[p])[m] = p
      BY <1>1, <2>6, RowsOfOwner
    <3>2. \A m \in 1 .. Len(Known(ini.cache, promptSlot[p], <<>>)) :
            Known(ini.cache, promptSlot[p], <<>>)[m] = p
      BY <2>5, <2>6
    <3>3. \A k \in 1 .. Len(kept(promptSlot[p])) :
            \/ \E m \in 1 .. Len(Known(ini.cache, promptSlot[p], <<>>)) :
                 kept(promptSlot[p])[k] = Known(ini.cache, promptSlot[p], <<>>)[m]
            \/ \E m \in 1 .. Len(RowsOfSlot(JobIds, rows, promptSlot[p])) :
                 kept(promptSlot[p])[k] = RowsOfSlot(JobIds, rows, promptSlot[p])[m]
      BY <2>4
    <3> QED BY <3>1, <3>2, <3>3
  <2>7. /\ Bank /\ ready /\ BankSlots' = BankSlots
        /\ DOMAIN params = BankSlots
        /\ \A s \in BankSlots :
             params[s] = [from |-> params[s].from, learned |-> params[s].learned]
        /\ ini.template = FALSE
    <3>1. Bank /\ ready
      BY <1>1 DEF IInv, HostOk, JobOk
    <3>2. ini.template = FALSE
      BY <1>4 DEF SlotInv, SlotFacts, InitializerOk
    <3> QED BY <1>1, <3>1, <3>2 DEF SlotInv, SlotFacts, ParamsOk, BankSlots
  <2>8. MapOk'
    BY <1>1, <1>2 DEF SlotInv, MapOk, Used, Jobs, Rows
  <2>9. ParamsOk'
    <3>1. DOMAIN params' = BankSlots
          /\ \A s \in BankSlots :
               params'[s] = [from |-> params'[s].from, learned |-> params'[s].learned]
      BY <2>1, <2>7 DEF FitTo
    <3> QED BY <2>7, <3>1 DEF ParamsOk
  <2>10. InitializerOk'
    <3>1. /\ IsInitializer(ini') /\ ini'.template = FALSE
          /\ DOMAIN ini'.done = DOMAIN ini.done
          /\ \A s \in DOMAIN ini'.done : ini'.done[s] \in BOOLEAN
      BY <2>2, <2>7 DEF PreparedWith
    <3>2. /\ \A s \in DOMAIN ini.cache : ini.cache[s] \in Seq(Prompts)
          /\ DOMAIN ini.done \subseteq 0 .. Used - 1
          /\ ready \in BOOLEAN /\ extractable \in BOOLEAN
      BY DEF SlotInv, SlotFacts, InitializerOk
    <3>3. \A s \in DOMAIN ini'.cache : ini'.cache[s] \in Seq(Prompts)
      BY <2>2, <2>4, <3>2 DEF PreparedWith, kept
    <3>4. Used' = Used /\ cfg' = cfg
      BY <1>1 DEF Used
    <3>5. ready' \in BOOLEAN /\ extractable' \in BOOLEAN
      BY Zenon, <1>1, <3>2
    <3> QED BY <1>4, <3>1, <3>2, <3>3, <3>4, <3>5 DEF InitializerOk
  <2>11. StartsFromTemplate'
    BY <2>2, <2>7 DEF StartsFromTemplate, PreparedWith
  <2>12. ASSUME NEW p \in DOMAIN promptSlot, NEW s, s = promptSlot[p]
         PROVE  /\ params'[s].from = "fit" /\ Known(ini'.done, s, FALSE)
                     => params'[s].learned \subseteq {p}
                /\ \A i \in DOMAIN Known(ini'.cache, s, <<>>) : ini'.cache[s][i] = p
                /\ Len(Known(ini'.cache, s, <<>>)) <= 2 * MinRows
    <3>1. s \in BankSlots
      <4>1. s \in 0 .. Used - 1 /\ Used \in Nat /\ cfg.slots \in Nat /\ Used <= cfg.slots
        BY <2>12, SlotsNumber DEF IInv, SlotInv, MapOk
      <4>2. 0 .. Used - 1 \subseteq 0 .. cfg.slots - 1
        BY <4>1, Intervals
      <4> QED BY <4>1, <4>2 DEF BankSlots
    <3>2. /\ kept(s) \in Seq(Prompts) /\ Len(kept(s)) <= 2 * MinRows
          /\ \A k \in 1 .. Len(kept(s)) : kept(s)[k] = p
      BY <2>4, <2>6, <2>12
    <3>3. params'[s].from = "fit" /\ Known(ini'.done, s, FALSE)
            => params'[s].learned \subseteq {p}
      <4>1. CASE s \in ok
        <5>1. params'[s] = FitTo(kept(s))
          BY <2>1, <3>1, <4>1
        <5>2. params'[s].learned = {kept(s)[k] : k \in DOMAIN kept(s)}
          BY <5>1 DEF FitTo
        <5> QED BY <3>2, <5>2
      <4>2. CASE s \notin ok
        <5>1. params'[s] = params[s]
          BY <2>1, <3>1, <4>2
        <5>2. Known(ini'.done, s, FALSE) => Known(ini.done, s, FALSE)
          BY Zenon, <2>2, <4>2 DEF Known, PreparedWith
        <5> QED BY <2>5, <2>12, <5>1, <5>2
      <4> QED BY <4>1, <4>2
    <3>4. \/ Known(ini'.cache, s, <<>>) = <<>>
          \/ Known(ini'.cache, s, <<>>) = ini'.cache[s] /\ s \in DOMAIN ini'.cache
      BY DEF Known
    <3>5. CASE Known(ini'.cache, s, <<>>) = <<>>
      <4>1. MinRows \in Nat /\ Len(<<>>) = 0 /\ DOMAIN <<>> = {}
        BY InitializerAssumption
      <4>2. /\ \A i \in DOMAIN Known(ini'.cache, s, <<>>) : ini'.cache[s][i] = p
            /\ Len(Known(ini'.cache, s, <<>>)) <= 2 * MinRows
        BY <3>5, <4>1
      <4> QED BY <3>3, <4>2
    <3>6. CASE Known(ini'.cache, s, <<>>) = ini'.cache[s] /\ s \in DOMAIN ini'.cache
      <4>1. \/ ini'.cache[s] = kept(s)
            \/ s \in DOMAIN ini.cache /\ ini'.cache[s] = ini.cache[s]
        BY <2>2, <3>6 DEF PreparedWith, kept
      <4>2. s \in DOMAIN ini.cache => Known(ini.cache, s, <<>>) = ini.cache[s]
        BY DEF Known
      <4>3. ini'.cache[s] = kept(s) \/ ini'.cache[s] = Known(ini.cache, s, <<>>)
        BY <4>1, <4>2
      <4>4. /\ ini'.cache[s] \in Seq(Prompts) /\ Len(ini'.cache[s]) <= 2 * MinRows
            /\ \A i \in 1 .. Len(ini'.cache[s]) : ini'.cache[s][i] = p
        <5>1. /\ Known(ini.cache, s, <<>>) \in Seq(Prompts)
              /\ Len(Known(ini.cache, s, <<>>)) <= 2 * MinRows
              /\ \A i \in 1 .. Len(Known(ini.cache, s, <<>>)) : Known(ini.cache, s, <<>>)[i] = p
          BY <2>3, <2>5, <2>12
        <5> QED BY <3>2, <4>3, <5>1
      <4>5. DOMAIN ini'.cache[s] = 1 .. Len(ini'.cache[s])
        BY <4>4
      <4> QED BY <3>3, <3>6, <4>4, <4>5
    <3> QED BY <3>4, <3>5, <3>6
  <2>13. FitsOwnRows'
    <3>1. promptSlot' = promptSlot
      BY <1>1
    <3> QED BY <2>12, <3>1 DEF FitsOwnRows
  <2> QED BY <2>8, <2>9, <2>10, <2>11, <2>13 DEF SlotInv, SlotFacts
<1> QED BY <1>3, <1>4

LEMMA SlotStep == IInv /\ SlotInv /\ [Next]_vars => SlotInv'
<1> SUFFICES ASSUME IInv, SlotInv, [Next]_vars PROVE SlotInv'
  OBVIOUS
<1>1. CASE \E c \in Configs : Configure(c)
  BY <1>1, ConfigureSlots
<1>2. CASE \E j \in Jobs : AssignForSampling(j) \/ Consume(j)
  BY <1>2, AssignForSamplingSlots, ConsumeSlots
<1>3. CASE EndStep
  BY <1>3, SlotsKept DEF EndStep, resourceVars, bankVars
<1>4. CASE UNCHANGED vars
  BY <1>4, SlotsKept DEF vars, SlotInv, MapOk
<1> QED BY <1>1, <1>2, <1>3, <1>4, AssignForTrainingSlots, TrainSharedSlots,
           PrepareSlotsSlots, TrainBankSlots DEF Next

LEMMA SlotInvAlways == Spec => []SlotInv
BY IInvAlways, SlotInit, SlotStep, PTL DEF Spec

\* With a template, engine.py never leaves a prompt a slot that another prompt trained:
\* whatever resets, rebuilds and reconfigurations handed the slot on, it was filled from
\* the template when it was given to the prompt.
THEOREM StartsAlwaysFromTemplate == Spec => []StartsFromTemplate
<1>1. SlotInv => StartsFromTemplate
  BY DEF SlotInv, SlotFacts
<1> QED BY <1>1, SlotInvAlways, PTL

\* A ridge fit of svd.py is to rows of the slot's own prompt, and collects no more than
\* twice min_rows of them, for any number of slots, rows, steps and failed fits.
THEOREM FitsAlwaysOwn == Spec => []FitsOwnRows
<1>1. SlotInv => FitsOwnRows
  BY DEF SlotInv, SlotFacts
<1> QED BY <1>1, SlotInvAlways, PTL
=============================================================================
