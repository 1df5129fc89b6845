---------------------------- MODULE SlotInitializer ----------------------------
(***************************************************************************)
(* The optional initializer of the model bank's slots                      *)
(* (src/tllm/consumers/esamp/initializers/svd.py), as functions on its     *)
(* runtime state and on the parameters of the slots.                       *)
(*                                                                         *)
(* "ffn_fast_svd" fills a slot from a template, factored once from the     *)
(* target layer's projections; "ridge_svd" lets a slot train from whatever *)
(* it holds, collects its rows, and replaces it by a fit to them.  The     *)
(* linear algebra is abstracted to whether it succeeds.                    *)
(***************************************************************************)
EXTENDS Integers, Sequences

CONSTANTS
  MinRows,     \* SVDModelBankInitializerConfig.min_rows
  MaxWait      \* SVDModelBankInitializerConfig.max_wait_steps

ASSUME InitializerAssumption == MinRows \in Nat \ {0} /\ MaxWait \in Nat \ {0}

\* An initializer just built from its configuration.
NewInitializer == [template |-> FALSE, done |-> <<>>, seen |-> <<>>, cache |-> <<>>]

\* reset_runtime_state: the template survives.
ResetRuntime(ini) == [ini EXCEPT !.done = <<>>, !.seen = <<>>, !.cache = <<>>]

\* prepare_from_model: a template once found is kept; another attempt finds one
\* exactly when the layer has the projections.
Prepared(ini, method, extractable) ==
  IF method = "ffn_fast_svd" /\ ~ini.template THEN [ini EXCEPT !.template = extractable] ELSE ini

Known(f, s, default) == IF s \in DOMAIN f THEN f[s] ELSE default

\* f with every slot of a set at v, the slots new or not.
Put(f, slots, v) == [s \in DOMAIN f \cup slots |-> IF s \in slots THEN v ELSE f[s]]

-----------------------------------------------------------------------------
\* A slot's parameters: where they come from, and the prompts that trained them since.
RandomParams   == [from |-> "random", learned |-> {}]
TemplateParams == [from |-> "template", learned |-> {}]
FitTo(rows)    == [from |-> "fit", learned |-> {rows[i] : i \in DOMAIN rows}]

\* on_slot_assigned, for a set of slots.  (Mutant: the template is left to the next
\* use of the slot.)
OnAssignedLater(ini, method, slots) ==
  [ini EXCEPT !.done = Put(@, slots, FALSE), !.seen = Put(@, slots, 0), !.cache = Put(@, slots, <<>>)]
OnAssigned(ini, method, slots) ==
  IF method = "ffn_fast_svd"
  THEN [ini EXCEPT !.done = Put(@, slots, ini.template)]
  ELSE [ini EXCEPT !.done = Put(@, slots, FALSE), !.seen = Put(@, slots, 0), !.cache = Put(@, slots, <<>>)]

\* ensure_existing_slot, for a set of slots: one that was assigned without a template
\* gets it now, or is taken for initialised.
OnExisting(ini, method, slots) ==
  IF method = "ffn_fast_svd" THEN [ini EXCEPT !.done = Put(@, slots, TRUE)] ELSE ini

\* _init_slot_ffn_fast_svd: the slots either call overwrites with the template are the
\* ones it marks done.
FilledFromTemplate(before, after) ==
  IF before.template THEN {s \in DOMAIN after.done : after.done[s] /\ ~Known(before.done, s, FALSE)} ELSE {}

-----------------------------------------------------------------------------
\* maybe_prepare_slots looks at every slot that is not done and has a row in the job.
\* (Mutant: the row is found by its position in the batch.)
RowsOfSlotAt(ids, rows, s) == IF s + 1 \in DOMAIN rows THEN <<rows[s + 1]>> ELSE <<>>
RowsOfSlot(ids, rows, s) ==
  LET mine == {i \in DOMAIN ids : ids[i] = s}
  IN IF mine = {} THEN <<>> ELSE <<rows[CHOOSE i \in mine : TRUE]>>

Waiting(ini, ids, rows) ==
  {s \in DOMAIN ini.done : ~ini.done[s] /\ RowsOfSlot(ids, rows, s) # <<>>}

\* The rows kept for s with this job's: the oldest are dropped beyond twice MinRows.
Collected(ini, ids, rows, s) ==
  LET all == Known(ini.cache, s, <<>>) \o RowsOfSlot(ids, rows, s)
      cap == 2 * MinRows
  IN IF Len(all) > cap THEN SubSeq(all, Len(all) - cap + 1, Len(all)) ELSE all

\* slot_seen_steps with this job, not counted beyond MaxWait, where it stops to matter.
SeenBy(ini, s) ==
  LET seen == Known(ini.seen, s, 0) IN IF seen < MaxWait THEN seen + 1 ELSE MaxWait

\* Those that have collected enough rows, or waited long enough, are fitted now.
Due(ini, ids, rows) ==
  {s \in Waiting(ini, ids, rows) :
     Len(Collected(ini, ids, rows, s)) >= MinRows \/ SeenBy(ini, s) >= MaxWait}

\* The initializer after the job, when the fits of the slots in ok succeed.  A failed
\* fit drops its rows but keeps the count of steps.
RowsPrepared(ini, ids, rows, ok) ==
  LET waiting == Waiting(ini, ids, rows)
  IN [ini EXCEPT
       !.done  = [s \in DOMAIN @ |-> @[s] \/ s \in ok],
       !.seen  = [s \in DOMAIN @ \cup waiting |-> IF s \in waiting THEN SeenBy(ini, s) ELSE @[s]],
       !.cache = [s \in (DOMAIN @ \cup waiting) \ Due(ini, ids, rows) |->
                    IF s \in waiting THEN Collected(ini, ids, rows, s) ELSE @[s]]]
=============================================================================
