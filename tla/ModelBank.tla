------------------------------ MODULE ModelBank ------------------------------
(****************************************************************************)
(* The model bank of the ESamp engine                                       *)
(* (src/tllm/consumers/esamp/engine.py): one slot of distiller parameters   *)
(* per prompt, assigned on first use by whichever comes first, the sampler  *)
(* (before the forward) or the training job (after it), and found again by  *)
(* the sampler through a dense prompt-to-slot tensor.                       *)
(*                                                                          *)
(* The host runs one decode step at a time: prepare (assign and publish     *)
(* the slots of the step's rows), predict (at compute_logits), then consume *)
(* and train.  Prompts come and go between steps, and so do                 *)
(* reconfigurations.  What a slot has learned is abstracted to the prompts  *)
(* whose rows trained it.                                                   *)
(****************************************************************************)
EXTENDS Integers, Sequences, FiniteSets

CONSTANTS
  Prompts,       \* prompt indices requests may carry
  Capacity,      \* model_bank_slots
  LookupSize,    \* length of the dense lookup tensor
  MaxRows,       \* bound: decode rows of one step
  MaxConfigs     \* bound: reconfigurations

ASSUME PromptsAssumption == Prompts \subseteq Nat
ASSUME CapacityAssumption == Capacity \in Nat \ {0}
ASSUME LookupAssumption == LookupSize \in Nat \ {0}
ASSUME RowsAssumption == MaxRows \in Nat \ {0} /\ MaxConfigs \in Nat

VARIABLES
  active,       \* prompts with a request in the batch
  enabled,      \* config.enable_esamp_training
  intervene,    \* the sampler is guided: config.enable_distiller_intervention, beta # 0
  stale,        \* the consumer's resource key is outdated
  bank,         \* the parameter tensors exist (state.model_bank)
  promptSlot,   \* state.prompt_to_slot
  slotPrompt,   \* state.slot_to_prompt
  nextSlot,     \* state.model_bank_next_slot
  lookup,       \* state.sampling_lookup_dense
  entries,      \* prompts with a statistics entry (state.per_request)
  phase,        \* where the host is in the decode step
  rows,         \* prompt index of each decode row of the step
  cursor,       \* the next row to assign a slot to
  fresh,        \* prompts the training job found without a slot
  guided,       \* slot whose parameters predicted each row
  learned,      \* prompts that trained each slot since the map was last reset
  raised,       \* the exception that ended the run
  configs       \* reconfigurations so far

stepVars   == <<phase, rows, cursor, fresh, guided>>
mapVars    == <<promptSlot, slotPrompt, nextSlot, entries>>
configVars == <<enabled, intervene, stale, configs>>
vars == <<active, enabled, intervene, stale, bank, promptSlot, slotPrompt, nextSlot,
          lookup, entries, phase, rows, cursor, fresh, guided, learned, raised, configs>>

-----------------------------------------------------------------------------
SlotIds == 0 .. Capacity - 1
Indices == 0 .. LookupSize - 1
NoPrompt == -1
NoSlot   == -1

\* A lookup tensor that maps no prompt, and the absence of a tensor.
EmptyLookup == [i \in Indices |-> NoSlot]
NoLookup    == <<>>

Row == Prompts \cup {NoPrompt}
RowSeqs == UNION {[1 .. n -> Row] : n \in 1 .. MaxRows}

\* The prompts of the rows of the step that have one.
PromptsOf(rs) == {rs[i] : i \in DOMAIN rs} \ {NoPrompt}

\* The first row of each prompt, in row order: what the model bank trains on.  The
\* rows the code drops stay here as rows without a prompt.
FirstPerPrompt(rs) ==
  [i \in DOMAIN rs |-> IF \E j \in 1 .. i - 1 : rs[j] = rs[i] THEN NoPrompt ELSE rs[i]]

Guided == enabled /\ intervene

-----------------------------------------------------------------------------
\* After load_model: resources exist and nothing has been assigned.
Init ==
  /\ active = {}
  /\ enabled \in BOOLEAN /\ intervene \in BOOLEAN
  /\ stale = FALSE
  /\ bank = TRUE
  /\ promptSlot = <<>> /\ slotPrompt = <<>> /\ nextSlot = 0
  /\ lookup = EmptyLookup
  /\ entries = {}
  /\ phase = "idle" /\ rows = <<>> /\ cursor = 1 /\ fresh = {}
  /\ guided = <<>>
  /\ learned = [s \in SlotIds |-> {}]
  /\ raised = "nothing"
  /\ configs = 0

\* Requests join and leave the batch between steps; nothing tells the engine.
Admit(p) ==
  /\ phase = "idle" /\ raised = "nothing"
  /\ p \notin active
  /\ active' = active \cup {p}
  /\ UNCHANGED <<configVars, bank, mapVars, lookup, stepVars, learned, raised>>

Finish(p) ==
  /\ phase = "idle" /\ raised = "nothing"
  /\ p \in active
  /\ active' = active \ {p}
  /\ UNCHANGED <<configVars, bank, mapVars, lookup, stepVars, learned, raised>>

\* set_enabled, between steps.
SetEnabled(b) ==
  /\ phase = "idle" /\ raised = "nothing"
  /\ enabled # b
  /\ enabled' = b
  /\ UNCHANGED <<active, intervene, stale, configs, bank, mapVars, lookup, stepVars,
                 learned, raised>>

\* _reset_runtime_cache: every assignment is forgotten, no parameter is.
ResetMap ==
  /\ promptSlot' = <<>>
  /\ slotPrompt' = <<>>
  /\ nextSlot' = 0
  /\ learned' = [s \in SlotIds |-> {}]

\* update_config, between steps.  A change of shape drops the parameters, the
\* lookup tensor and the entries; a change of flush interval resets the map;
\* any other change leaves both alone (one of graph_scratch_rows until the next
\* Consume).
Configure(change, newEnabled, newIntervene) ==
  /\ phase = "idle" /\ raised = "nothing"
  /\ configs < MaxConfigs
  /\ configs' = configs + 1
  /\ enabled' = newEnabled
  /\ intervene' = newIntervene
  /\ stale' = TRUE
  /\ \/ /\ change = "shape"
        /\ ResetMap
        /\ bank' = FALSE
        /\ lookup' = NoLookup
        /\ entries' = {}
     \/ /\ change = "flush"
        /\ ResetMap
        /\ lookup' = IF lookup = NoLookup THEN NoLookup ELSE EmptyLookup
        /\ UNCHANGED <<bank, entries>>
     \/ /\ change = "other"
        /\ UNCHANGED <<mapVars, learned, bank, lookup>>
  /\ UNCHANGED <<active, stepVars, raised>>

-----------------------------------------------------------------------------
\* _assign_model_bank_slot: a prompt keeps its slot; a new one takes the next.
\* (Mutants: the counter is not advanced; a known prompt is assigned again;
\* the statistics entry is left to the training job.)
AssignSlotStuck(p) ==
  IF p \in DOMAIN promptSlot THEN UNCHANGED mapVars
  ELSE /\ promptSlot' = [q \in DOMAIN promptSlot \cup {p} |-> IF q = p THEN nextSlot ELSE promptSlot[q]]
       /\ slotPrompt' = [s \in DOMAIN slotPrompt \cup {nextSlot} |-> IF s = nextSlot THEN p ELSE slotPrompt[s]]
       /\ entries' = entries \cup {p}
       /\ UNCHANGED nextSlot
AssignSlotAgain(p) ==
  /\ promptSlot' = [q \in DOMAIN promptSlot \cup {p} |-> IF q = p THEN nextSlot ELSE promptSlot[q]]
  /\ slotPrompt' = [s \in DOMAIN slotPrompt \cup {nextSlot} |-> IF s = nextSlot THEN p ELSE slotPrompt[s]]
  /\ nextSlot' = nextSlot + 1
  /\ entries' = entries \cup {p}
AssignSlotWithoutEntry(p) ==
  IF p \in DOMAIN promptSlot THEN UNCHANGED mapVars
  ELSE /\ promptSlot' = [q \in DOMAIN promptSlot \cup {p} |-> IF q = p THEN nextSlot ELSE promptSlot[q]]
       /\ slotPrompt' = [s \in DOMAIN slotPrompt \cup {nextSlot} |-> IF s = nextSlot THEN p ELSE slotPrompt[s]]
       /\ nextSlot' = nextSlot + 1
       /\ UNCHANGED entries
AssignSlot(p) ==
  IF p \in DOMAIN promptSlot THEN UNCHANGED mapVars
  ELSE /\ promptSlot' = [q \in DOMAIN promptSlot \cup {p} |-> IF q = p THEN nextSlot ELSE promptSlot[q]]
       /\ slotPrompt' = [s \in DOMAIN slotPrompt \cup {nextSlot} |-> IF s = nextSlot THEN p ELSE slotPrompt[s]]
       /\ nextSlot' = nextSlot + 1
       /\ entries' = entries \cup {p}

Exhausted(p) == p \notin DOMAIN promptSlot /\ nextSlot >= Capacity

\* _write_sampling_lookup_dense_entries for a set of assigned prompts.
Published(ps) ==
  IF lookup = NoLookup THEN NoLookup
  ELSE [i \in Indices |-> IF i \in ps THEN promptSlot[i] ELSE lookup[i]]

\* The host leaves the decode step with an exception, which ends the run.
Raise(what) ==
  /\ raised' = what
  /\ phase' = "idle" /\ rows' = <<>> /\ cursor' = 1 /\ fresh' = {}
  /\ guided' = <<>>

\* A decode step starts.  With guidance, assign_sampling_model_bank_slots first
\* refills the whole lookup tensor with -1 (or creates it).
BeginStep(rs) ==
  /\ phase = "idle" /\ raised = "nothing"
  /\ PromptsOf(rs) \subseteq active
  /\ rows' = rs
  /\ cursor' = 1
  /\ IF Guided THEN phase' = "assigning" /\ lookup' = EmptyLookup
               ELSE phase' = "prepared" /\ UNCHANGED lookup
  /\ UNCHANGED <<active, configVars, bank, mapVars, fresh, guided, learned, raised>>

\* One row of assign_sampling_model_bank_slots.
AssignRow ==
  /\ phase = "assigning" /\ cursor <= Len(rows)
  /\ LET p == rows[cursor]
     IN \/ /\ p = NoPrompt
           /\ cursor' = cursor + 1
           /\ UNCHANGED <<mapVars, phase, rows, fresh, guided, raised>>
        \/ /\ p # NoPrompt /\ ~Exhausted(p)
           /\ AssignSlot(p)
           /\ cursor' = cursor + 1
           /\ UNCHANGED <<phase, rows, fresh, guided, raised>>
        \/ /\ p # NoPrompt /\ Exhausted(p)
           /\ Raise("exhausted")
           /\ UNCHANGED mapVars
  /\ UNCHANGED <<active, configVars, bank, lookup, learned>>

\* The last thing assign_sampling_model_bank_slots does: publish the step's slots.
\* (Mutant: only the first row's.)
PublishFirst == Published({rows[1]} \ {NoPrompt})
PublishRows  == Published(PromptsOf(rows))

EndAssign ==
  /\ phase = "assigning" /\ cursor > Len(rows)
  /\ lookup' = PublishRows
  /\ phase' = "prepared"
  /\ UNCHANGED <<active, configVars, bank, mapVars, rows, cursor, fresh, guided, learned, raised>>

\* predict_hidden_for_sampling as the sampler calls it, assuming every slot ready:
\* prompts are clamped into the tensor, unmapped ones into slot 0.
Clamp(i, low, high) == IF i < low THEN low ELSE IF i > high THEN high ELSE i
SlotOfRow(p) == Clamp(lookup[Clamp(p, 0, LookupSize - 1)], 0, Capacity - 1)

\* The forward runs and compute_logits schedules the prediction.
Predict ==
  /\ phase = "prepared"
  /\ \/ /\ ~Guided \/ promptSlot = <<>>
        /\ phase' = "predicted"
        /\ UNCHANGED <<guided, rows, cursor, fresh, raised>>
     \/ /\ Guided /\ promptSlot # <<>> /\ bank
        /\ phase' = "predicted"
        /\ guided' = [i \in DOMAIN rows |-> SlotOfRow(rows[i])]
        /\ UNCHANGED <<rows, cursor, fresh, raised>>
     \/ /\ Guided /\ promptSlot # <<>> /\ ~bank
        /\ Raise("no parameters")
  /\ UNCHANGED <<active, configVars, bank, mapVars, lookup, learned>>

\* consume_bundle: resources are ensured if the key is outdated, which builds a
\* missing bank and then resets the map.  Where a bank exists the map is reset too
\* when the pipeline is rebuilt, for another graph_scratch_rows or for a batch with
\* more rows than that (_ensure_pipeline).  The step's job is one row per prompt.
\* (Mutant: a new bank comes without its lookup tensor.)
EnsureBankWithoutLookup == bank' = TRUE /\ ResetMap /\ UNCHANGED lookup
EnsureBank == bank' = TRUE /\ ResetMap /\ lookup' = EmptyLookup

Consume ==
  /\ phase = "predicted"
  /\ guided' = <<>>
  /\ cursor' = 1
  /\ IF ~enabled
     THEN /\ phase' = "idle" /\ rows' = <<>>
          /\ UNCHANGED <<stale, bank, lookup, promptSlot, slotPrompt, nextSlot, learned>>
     ELSE /\ phase' = "training" /\ rows' = FirstPerPrompt(rows)
          /\ stale' = FALSE
          /\ \/ /\ bank
                /\ UNCHANGED <<bank, lookup, promptSlot, slotPrompt, nextSlot, learned>>
             \/ EnsureBank
  /\ UNCHANGED <<active, enabled, intervene, configs, entries, fresh, raised>>

\* One row of the training job's slot assignment (_train_model_bank).
TrainRow ==
  /\ phase = "training" /\ cursor <= Len(rows)
  /\ LET p == rows[cursor]
     IN \/ /\ p = NoPrompt
           /\ cursor' = cursor + 1
           /\ UNCHANGED <<mapVars, phase, rows, fresh, guided, raised>>
        \/ /\ p # NoPrompt /\ ~Exhausted(p)
           /\ AssignSlot(p)
           /\ fresh' = IF p \in DOMAIN promptSlot THEN fresh ELSE fresh \cup {p}
           /\ cursor' = cursor + 1
           /\ UNCHANGED <<phase, rows, guided, raised>>
        \/ /\ p # NoPrompt /\ Exhausted(p)
           /\ Raise("exhausted")
           /\ UNCHANGED mapVars
  /\ UNCHANGED <<active, configVars, bank, lookup, learned>>

\* The rest of the job: publish the fresh prompts, then train each slot on its
\* row, counting the loss in the entry of the slot's prompt.  (Mutant: the rows
\* of the job and the slots are paired in reverse.)
SlotOrNone(p) == IF p = NoPrompt THEN NoSlot ELSE promptSlot[p]
TrainedSlotsReversed == [i \in DOMAIN rows |-> SlotOrNone(rows[Len(rows) + 1 - i])]
TrainedSlots         == [i \in DOMAIN rows |-> SlotOrNone(rows[i])]

EndTrain ==
  /\ phase = "training" /\ cursor > Len(rows)
  /\ lookup' = Published(fresh)
  /\ learned' = [s \in SlotIds |->
                   learned[s] \cup PromptsOf([i \in {j \in DOMAIN rows : TrainedSlots[j] = s} |-> rows[i]])]
  /\ phase' = "idle" /\ rows' = <<>> /\ cursor' = 1 /\ fresh' = {}
  /\ guided' = <<>>
  /\ UNCHANGED <<active, configVars, bank, mapVars, raised>>

Next ==
  \/ \E p \in Prompts : Admit(p) \/ Finish(p)
  \/ \E b \in BOOLEAN : SetEnabled(b)
  \/ \E change \in {"shape", "flush", "other"}, b, i \in BOOLEAN : Configure(change, b, i)
  \/ \E rs \in RowSeqs : BeginStep(rs)
  \/ AssignRow \/ EndAssign \/ Predict \/ Consume \/ TrainRow \/ EndTrain

Spec == Init /\ [][Next]_vars

-----------------------------------------------------------------------------
(***************************************************************************)
(* Properties.                                                             *)
(***************************************************************************)

\* Every variable has its type.
TypeOK ==
  /\ active \subseteq Prompts
  /\ enabled \in BOOLEAN /\ intervene \in BOOLEAN /\ stale \in BOOLEAN /\ bank \in BOOLEAN
  /\ DOMAIN promptSlot \subseteq Prompts
  /\ promptSlot \in [DOMAIN promptSlot -> SlotIds]
  /\ nextSlot \in 0 .. Capacity
  /\ slotPrompt \in [0 .. nextSlot - 1 -> Prompts]
  /\ lookup \in {NoLookup} \cup [Indices -> SlotIds \cup {NoSlot}]
  /\ entries \subseteq Prompts
  /\ phase \in {"idle", "assigning", "prepared", "predicted", "training"}
  /\ rows \in Seq(Row)
  /\ cursor \in Nat \ {0}
  /\ fresh \subseteq Prompts
  /\ guided \in {<<>>} \cup [DOMAIN rows -> SlotIds]
  /\ learned \in [SlotIds -> SUBSET Prompts]
  /\ raised \in {"nothing", "exhausted", "no parameters"}
  /\ configs \in 0 .. MaxConfigs

\* prompt_to_slot and slot_to_prompt stay each other's inverse through every
\* mixture of sampler assignments, training assignments and resets: no two
\* prompts share a slot and no slot is skipped.
SlotMapsAreInverse ==
  /\ \A p \in DOMAIN promptSlot : promptSlot[p] \in DOMAIN slotPrompt /\ slotPrompt[promptSlot[p]] = p
  /\ \A s \in DOMAIN slotPrompt : slotPrompt[s] \in DOMAIN promptSlot /\ promptSlot[slotPrompt[s]] = s

\* The dense tensor never names a slot the map does not, although it is refilled
\* at every guided step and rebuilt by resets: a stale entry would hand a prompt
\* another prompt's distiller.
LookupAgreesWithMap ==
  lookup # NoLookup =>
    \A i \in Indices : lookup[i] # NoSlot => i \in DOMAIN promptSlot /\ lookup[i] = promptSlot[i]

\* Every row of a guided step that belongs to a prompt is predicted with that
\* prompt's own parameters, although the tensor is read without a validity mask.
PredictsWithOwnSlot ==
  \A i \in DOMAIN guided :
    rows[i] # NoPrompt => rows[i] \in DOMAIN promptSlot /\ guided[i] = promptSlot[rows[i]]

\* Every slot that may be trained has the statistics entry that training adds its
\* loss to (self.state.per_request[prompt_idx] is read without a default).
EveryLossHasItsEntry == \A s \in DOMAIN slotPrompt : slotPrompt[s] \in entries

\* Since the map was last reset, a slot was trained on the rows of one prompt only,
\* the prompt the map names.
OnePromptPerSlot ==
  \A s \in SlotIds : learned[s] # {} => s \in DOMAIN slotPrompt /\ learned[s] = {slotPrompt[s]}

\* Whenever the map holds a prompt the dense tensor exists, so the sorted-key
\* lookup of _model_bank_slot_lookup_for_device is never the one that is used.
DenseLookupAvailable == promptSlot # <<>> => lookup # NoLookup

\* "Fixed slots assigned to active requests"
\* (doc/developer-guides/esamp-design.md:93): the bank runs out of slots only when
\* more prompts are active than it has slots.
ExhaustedOnlyByActive == raised = "exhausted" => Cardinality(active) > Capacity

\* "ESamp model bank forward requires initialized model bank parameter tensors"
\* (src/tllm/consumers/esamp/engine.py:687): the sampler never predicts without them.
ParametersExistForPrediction == raised # "no parameters"
=============================================================================
