---------------------------- MODULE SamplerBridge ----------------------------
(***************************************************************************)
(* How one step's rows are sampled (src/tllm/runtime/sampler_bridge and    *)
(* runtime/vllm_patch/sampler_patch.py), and the min-p values that         *)
(* install_input_batch_min_p_patch keeps beside vLLM's input batch.        *)
(*                                                                         *)
(* The batch is vLLM's: requests are removed, added into the lowest free   *)
(* row, condensed into a prefix and perhaps swapped before each step.  The *)
(* arithmetic of logits is abstracted to what was done to a row: which     *)
(* predictions it was guided with, the min-p filter it went through, which *)
(* generator drew its token.  Rows are counted from 1.  Top-k and top-p,   *)
(* which every path selects by the same row ids, are left out; so are      *)
(* vLLM's own logits processors.                                           *)
(***************************************************************************)
EXTENDS OrderedSets, Sequences

CONSTANTS
  Requests,     \* the requests that come and go
  NoRequest,    \* an empty row of the batch, and a row without a generator
  MinPs,        \* min-p values a request may ask for; 0 is none
  Setups,       \* the configurations explored, see SetupType
  MaxRows,      \* max_num_reqs
  MaxSteps      \* bound: steps

Prompts == Nat
Modes == {"shared", "per_request", "bank"}
Backends == {"post_filter_exact", "post_filter_dense_cache", "pre_filter_dense"}

\* What a request asks for; seeded: it brings a generator of its own.
Params == [prompt : Prompts, greedy : BOOLEAN, minp : MinPs, seeded : BOOLEAN]

\* Whether guidance is active, the engine's mode and backend, the prompts that have a
\* trainer (mode "per_request"), TLLM_ENABLE_EXACT_CANDIDATE_SAMPLING, whether vLLM gives
\* a batch that is all greedy a temperature, the requests.
SetupType == [active : BOOLEAN, mode : Modes, backend : Backends,
              trainers : SUBSET Prompts, candidates : BOOLEAN, tempered : BOOLEAN,
              params : [Requests -> Params]]

Garbage == -1   \* what torch.empty leaves in min_p_cpu

ASSUME RequestAssumption == NoRequest \notin Requests
ASSUME RowAssumption == MaxRows \in Nat /\ MaxSteps \in Nat
ASSUME MinPAssumption == MinPs \subseteq Nat /\ 0 \in MinPs
ASSUME SetupAssumption == \A s \in Setups : s.params \in [Requests -> Params]

VARIABLES
  setup,    \* the configuration
  rows,     \* InputBatch._req_ids
  minP,     \* min_p_cpu
  moved,    \* history: requests that condense has moved since they were added
  phase,    \* how far the step is
  steps,    \* steps sampled so far
  outcome,  \* how each row of the last step was sampled
  raised    \* the exception that ended the run

batchVars == <<rows, minP, moved>>
vars == <<setup, batchVars, phase, steps, outcome, raised>>

-----------------------------------------------------------------------------
(* The input batch *)

Indices == 1 .. MaxRows
Used == {i \in Indices : rows[i] # NoRequest}
Lowest(S) == CHOOSE i \in S : \A j \in S : i <= j
Count == Cardinality(Used)
Of(i) == setup.params[rows[i]]

Init ==
  /\ setup \in Setups
  /\ rows = [i \in Indices |-> NoRequest]
  /\ minP = [i \in Indices |-> Garbage]
  /\ moved = {} /\ phase = "updating" /\ steps = 0
  /\ outcome = <<>> /\ raised = "nothing"

Updating == phase \in {"updating", "sampled"} /\ raised = "nothing" /\ steps < MaxSteps

WriteMinP(i, v) == minP' = [minP EXCEPT ![i] = v]

\* add_request: vLLM takes a free row, the patch writes its min-p value.
AddRequest(r, i) ==
  /\ Updating
  /\ \A j \in Indices : rows[j] # r
  /\ i \in Indices \ Used
  /\ rows' = [rows EXCEPT ![i] = r]
  /\ WriteMinP(i, setup.params[r].minp)
  /\ moved' = moved \ {r}
  /\ phase' = "updating" /\ outcome' = <<>>
  /\ UNCHANGED <<setup, steps, raised>>

\* remove_request: the row is free, its min-p value stays.
RemoveRequest(i) ==
  /\ Updating /\ i \in Used
  /\ rows' = [rows EXCEPT ![i] = NoRequest]
  /\ moved' = moved \ {rows[i]}
  /\ phase' = "updating" /\ outcome' = <<>>
  /\ UNCHANGED <<setup, minP, steps, raised>>

\* condense: vLLM moves each of the last requests to a free row of its own below; the
\* patch moves no value with them.
Holes  == {i \in 1 .. Count : i \notin Used}
Movers == {i \in Used : i > Count}

Condense(from) ==
  /\ Updating
  /\ \A i, j \in Holes : from[i] = from[j] => i = j
  /\ rows' = [i \in Indices |-> IF i \in Holes THEN rows[from[i]]
                                ELSE IF i \in Movers THEN NoRequest ELSE rows[i]]
  /\ moved' = moved \cup {rows[i] : i \in Movers}
  /\ phase' = "condensed" /\ outcome' = <<>>
  /\ UNCHANGED <<setup, minP, steps, raised>>

\* Mutant: the second value is written over the first.
SwapOver(i, j) == minP' = [minP EXCEPT ![i] = minP[j]]

SwapMinP(i, j) == minP' = [minP EXCEPT ![i] = minP[j], ![j] = minP[i]]

\* swap_states, when vLLM reorders the batch for an attention backend.
SwapStates(i, j) ==
  /\ phase = "condensed" /\ i \in Used /\ j \in Used /\ i < j
  /\ rows' = [rows EXCEPT ![i] = rows[j], ![j] = rows[i]]
  /\ SwapMinP(i, j)
  /\ phase' = "ordered"
  /\ UNCHANGED <<setup, moved, steps, outcome, raised>>

-----------------------------------------------------------------------------
(* The step's metadata and prediction *)

All == 1 .. Count
Greedy == {i \in All : Of(i).greedy}
AllGreedy == Greedy = All
AllRandom == Greedy = {}

\* _make_sampling_metadata: no tensor unless some row asks for a filter.
HasMinP == \E i \in All : minP[i] > 0
HasGenerators == \E i \in All : Of(i).seeded

\* The prediction made from row i's hidden row with its prompt's distiller.
PredictionFrom(i) == [row |-> i, prompt |-> Of(i).prompt]

FirstOfPrompt(i) == Lowest({j \in All : Of(j).prompt = Of(i).prompt})
Firsts == Ordered({i \in All : FirstOfPrompt(i) = i})

\* maybe_schedule_precompute: with the bank and a post-filter backend one row of each
\* prompt is predicted, and a map leads every row to its prompt's prediction.
Compacted ==
  setup.mode = "bank" /\ setup.backend # "pre_filter_dense" /\ Len(Firsts) < Count

\* predict_hidden_for_sampling without the bank: one trainer per prompt, the rows
\* concatenated prompt by prompt, in increasing order of prompts and not of rows.
Trained == {i \in All : Of(i).prompt \in setup.trainers}
Before(j, i) ==
  Of(j).prompt < Of(i).prompt \/ (Of(j).prompt = Of(i).prompt /\ j <= i)
TrainedRows ==
  [k \in 1 .. Cardinality(Trained) |->
     CHOOSE i \in Trained : Cardinality({j \in Trained : Before(j, i)}) = k]

PredictedRows ==
  IF setup.mode = "per_request" THEN TrainedRows
  ELSE IF Compacted THEN Firsts ELSE Ordered(All)

\* prepare_step: the affected rows, the predictions, and the row map (empty for none).
State ==
  [affected |-> IF Compacted THEN Ordered(All) ELSE PredictedRows,
   pred     |-> [k \in DOMAIN PredictedRows |-> PredictionFrom(PredictedRows[k])],
   map      |-> IF ~Compacted THEN <<>>
                ELSE [i \in All |-> CHOOSE k \in DOMAIN Firsts : Firsts[k] = FirstOfPrompt(i)]]

AllAffected == Len(State.affected) = Count

-----------------------------------------------------------------------------
(* Guiding rows.  NoPrediction: an index beyond the tensor, which raises. *)

NoPrediction == [row |-> 0, prompt |-> 0]
At(s, k) == IF k \in DOMAIN s THEN s[k] ELSE NoPrediction

\* torch.searchsorted: a binary search, here for the number of entries before v.  Its
\* input is sorted in every mode but "per_request".
LowerBound(s, v) ==
  LET search[span \in (0 .. Len(s)) \X (0 .. Len(s))] ==
        LET lo  == span[1]
            hi  == span[2]
            mid == lo + ((hi - lo) \div 2)
        IN  IF lo >= hi THEN lo
            ELSE IF s[mid + 1] >= v THEN search[<<lo, mid>>] ELSE search[<<mid + 1, hi>>]
  IN  search[<<0, Len(s)>>]

\* Mutant: the place of a row in the batch is its place among the affected rows.
PositionInBatch(r) == r

Position(r) == LowerBound(State.affected, r) + 1

\* modify_rows_dense: by position, whatever the row map.
DenseGuides(ids) == [k \in DOMAIN ids |-> At(State.pred, Position(ids[k]))]

\* _select_subset_inputs: all rows keep the state; a subset selects predictions and row
\* map alike by position, so that the map of the subset leads into selected predictions.
ExactGuides(ids, allRows) ==
  IF allRows
  THEN [k \in DOMAIN ids |->
          At(State.pred, IF State.map = <<>> THEN k ELSE State.map[k])]
  ELSE [k \in DOMAIN ids |->
          IF State.map = <<>> THEN At(State.pred, Position(ids[k]))
          ELSE LET into == State.map[Position(ids[k])]
               IN  IF into \in DOMAIN ids
                   THEN At(State.pred, Position(ids[into])) ELSE NoPrediction]

\* _select_generators: the generators of the selected rows, renumbered.
OwnGenerator(i) == IF Of(i).seeded THEN rows[i] ELSE NoRequest

\* Mutant: not renumbered.
GeneratorsByIndex(ids) == [k \in DOMAIN ids |-> OwnGenerator(k)]

GeneratorsOf(ids) == [k \in DOMAIN ids |-> OwnGenerator(ids[k])]

Sampled(guides, minp, gen, greedy) ==
  [guides |-> guides, minp |-> minp, generator |-> gen, greedy |-> greedy]

\* apply_min_p by the metadata's values, for all rows and for a subset of them.
Filter(i) == IF HasMinP THEN minP[i] ELSE 0

\* Mutant: the values are not selected with the rows.
FiltersByIndex(ids) == [k \in DOMAIN ids |-> Filter(k)]

FiltersOf(ids) == [k \in DOMAIN ids |-> Filter(ids[k])]

Guiding == setup.active /\ State.affected # <<>>

Finish(o) ==
  /\ IF \E i \in DOMAIN o : \E k \in DOMAIN o[i].guides : o[i].guides[k] = NoPrediction
     THEN raised' = "index out of range" /\ outcome' = <<>>
     ELSE outcome' = o /\ UNCHANGED raised
  /\ phase' = "sampled" /\ steps' = steps + 1
  /\ UNCHANGED <<setup, batchVars>>

Sampling == phase \in {"condensed", "ordered"} /\ raised = "nothing" /\ Count > 0

-----------------------------------------------------------------------------
(* Sampling *)

\* An active provider asserts a temperature before it looks for a greedy batch.
SampleRaises ==
  /\ Sampling /\ setup.active /\ AllGreedy /\ ~setup.tempered
  /\ raised' = "temperature"
  /\ UNCHANGED <<setup, batchVars, phase, steps, outcome>>

HasTemperature == setup.active => setup.tempered \/ ~AllGreedy

\* _vanilla_sample when there is a min-p tensor and guidance is inactive; else vLLM's own
\* sampler, without this filter.
SampleUnguided ==
  /\ Sampling /\ HasTemperature /\ ~Guiding
  /\ Finish([i \in All |->
               Sampled(<<>>, IF setup.active \/ Of(i).greedy THEN 0 ELSE Filter(i),
                       IF Of(i).greedy THEN NoRequest ELSE OwnGenerator(i),
                       Of(i).greedy)])

IsDense == setup.backend = "pre_filter_dense"

\* _maybe_sample_precomputed_dense_fast, and the section full_dense when the temperatures
\* are not mixed: row by row, every row of the logits with every row of the predictions.
SampleFullDense ==
  /\ Sampling /\ HasTemperature /\ Guiding
  /\ IsDense /\ AllAffected /\ (AllGreedy \/ AllRandom)
  /\ Finish([i \in All |->
               Sampled(<<State.pred[i]>>, 0,
                       IF AllGreedy THEN NoRequest ELSE OwnGenerator(i), AllGreedy)])

\* The candidate kernels have no generators and need a min-p tensor.
TakesCandidates == setup.candidates /\ AllRandom /\ HasMinP /\ ~HasGenerators

\* The section full_exact, by candidates or through the sampler.
SampleFullExact ==
  LET ids    == State.affected
      guides == ExactGuides(ids, TRUE)
      gens   == GeneratorsOf(Ordered(All))
  IN  /\ Sampling /\ HasTemperature /\ Guiding
      /\ ~IsDense /\ AllAffected /\ (AllGreedy \/ AllRandom)
      /\ Finish([i \in All |->
                   Sampled(<<guides[i]>>, Filter(i),
                           IF AllGreedy \/ TakesCandidates THEN NoRequest ELSE gens[i],
                           AllGreedy)])

\* Otherwise the rows are sampled in parts: the affected rows as one part, or, at mixed
\* temperatures, as a greedy and a random one, in increasing order.
Affected == {State.affected[k] : k \in DOMAIN State.affected}

Part(greedy) ==
  IF AllGreedy \/ AllRandom THEN State.affected
  ELSE Ordered({i \in Affected : Of(i).greedy = greedy})

\* full_dense has guided the logits in place by the time it finds the mixture.
GuidedInPlace(i) == IF IsDense /\ AllAffected THEN <<At(State.pred, i)>> ELSE <<>>

SampledInPart(ids, k, greedy) ==
  LET guides == IF IsDense THEN DenseGuides(ids) ELSE ExactGuides(ids, FALSE)
  IN  Sampled(Append(GuidedInPlace(ids[k]), guides[k]),
              IF IsDense THEN 0 ELSE FiltersOf(ids)[k],
              IF greedy THEN NoRequest ELSE GeneratorsOf(ids)[k],
              greedy)

\* Rows without a prediction: vLLM's greedy token, or a draw without the min-p filter.
SampledVanilla(i) ==
  Sampled(<<>>, 0, IF Of(i).greedy THEN NoRequest ELSE OwnGenerator(i), Of(i).greedy)

SampleParts ==
  /\ Sampling /\ HasTemperature /\ Guiding
  /\ ~AllAffected \/ ~(AllGreedy \/ AllRandom)
  /\ Finish([i \in All |->
               IF i \notin Affected THEN SampledVanilla(i)
               ELSE LET ids == Part(Of(i).greedy)
                    IN  SampledInPart(ids, CHOOSE k \in DOMAIN ids : ids[k] = i,
                                      Of(i).greedy)])

Next ==
  \/ \E r \in Requests, i \in Indices : AddRequest(r, i)
  \/ \E i \in Indices : RemoveRequest(i)
  \/ \E from \in [Holes -> Movers] : Condense(from)
  \/ \E i, j \in Indices : SwapStates(i, j)
  \/ SampleRaises \/ SampleUnguided
  \/ SampleFullDense \/ SampleFullExact \/ SampleParts

Spec == Init /\ [][Next]_vars

-----------------------------------------------------------------------------
(* Properties *)

\* A request has one row at most, and the min-p value beside it is the one it asked for,
\* however requests were added, removed and swapped, unless condense has moved it
\* (install_input_batch_min_p_patch).
UnmovedKeepMinP ==
  \A i \in Used :
    /\ \A j \in Used : rows[i] = rows[j] => i = j
    /\ rows[i] \notin moved => minP[i] = Of(i).minp

\* Each row that has a distiller is guided exactly once, by the prediction made for its
\* own prompt from its own hidden row (with the bank, that of the first row of its
\* prompt), and every other row not at all, whichever section samples it
\* (sample_with_optional_modifier).
GuidedOnceByOwn ==
  /\ raised # "index out of range"
  /\ phase = "sampled" =>
       \A i \in All :
         LET own == IF Compacted THEN FirstOfPrompt(i) ELSE i
         IN  outcome[i].guides = IF setup.active /\ i \in Affected
                                 THEN <<PredictionFrom(own)>> ELSE <<>>

\* Each row is sampled greedily or at random as its request asks, and a random row draws
\* from its request's generator if that has one, in a full batch and in every part of it
\* (_select_generators, the masks of sample_with_optional_modifier).
SampledAsAsked ==
  phase = "sampled" /\ raised = "nothing" =>
    \A i \in All :
      /\ outcome[i].greedy = Of(i).greedy
      /\ ~Of(i).greedy => outcome[i].generator = OwnGenerator(i)

\* A row sampled with guidance by a post-filter backend, and a random row while guidance
\* is inactive, is filtered by the min-p its own request asked for, unless condense has
\* moved it (_select_subset_inputs, _vanilla_sample).
FilteredByOwnMinP ==
  phase = "sampled" /\ raised = "nothing" =>
    \A i \in All :
      /\ rows[i] \notin moved
      /\ IF setup.active THEN ~IsDense /\ i \in Affected ELSE ~Of(i).greedy
      => outcome[i].minp = Of(i).minp
=============================================================================
