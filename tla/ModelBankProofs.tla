--------------------------- MODULE ModelBankProofs ---------------------------
(***************************************************************************)
(* Proofs about ModelBank, for every set of prompts, capacity and bound.   *)
(*                                                                         *)
(* The properties are proved together, from one inductive invariant: that  *)
(* the lookup agrees with the map needs that only assigned prompts are     *)
(* published, which needs to know which rows of the step the host has      *)
(* already visited (VisitedAreAssigned), and so on.                        *)
(***************************************************************************)
EXTENDS ModelBank, TLAPS

\* The parts of the maps, and that they fit each other.
MapTypes ==
  /\ DOMAIN promptSlot \subseteq Prompts
  /\ promptSlot \in [DOMAIN promptSlot -> SlotIds]
  /\ nextSlot \in 0 .. Capacity
  /\ slotPrompt \in [0 .. nextSlot - 1 -> Prompts]
  /\ entries \subseteq Prompts

\* The rest of TypeOK: what an action seldom touches, the rows of the step, and
\* where the step is.
OtherTypes ==
  /\ active \subseteq Prompts
  /\ enabled \in BOOLEAN /\ intervene \in BOOLEAN /\ stale \in BOOLEAN /\ bank \in BOOLEAN
  /\ lookup \in {NoLookup} \cup [Indices -> SlotIds \cup {NoSlot}]
  /\ learned \in [SlotIds -> SUBSET Prompts]
  /\ configs \in 0 .. MaxConfigs

RowTypes ==
  /\ rows \in Seq(Row)
  /\ cursor \in Nat \ {0}

StepTypes ==
  /\ phase \in {"idle", "assigning", "prepared", "predicted", "training"}
  /\ fresh \subseteq Prompts
  /\ guided \in {<<>>} \cup [DOMAIN rows -> SlotIds]
  /\ raised \in {"nothing", "exhausted", "no parameters"}

\* The maps and the entries as assignments and resets keep them.
MapsInv == MapTypes /\ SlotMapsAreInverse /\ EveryLossHasItsEntry

\* Rows the host has visited in this step have their slot.
VisitedAreAssigned ==
  phase \in {"assigning", "training"} =>
    \A i \in DOMAIN rows : i < cursor /\ rows[i] # NoPrompt => rows[i] \in DOMAIN promptSlot

\* The tensor exists while it is being filled, with the bank, and with any mapping.
LookupExists ==
  /\ phase = "assigning" => lookup # NoLookup
  /\ bank => lookup # NoLookup
  /\ DOMAIN promptSlot # {} => lookup # NoLookup

\* What a step has published when it is prepared.
PreparedArePublished ==
  phase = "prepared" /\ Guided =>
    \A i \in DOMAIN rows :
      rows[i] # NoPrompt => /\ rows[i] \in DOMAIN promptSlot
                            /\ rows[i] \in Indices => lookup[rows[i]] = promptSlot[rows[i]]

\* What belongs to one phase of the step only.
PhaseInv ==
  /\ phase = "assigning" => Guided
  /\ phase = "training" => bank
  /\ phase # "training" => fresh = {}
  /\ phase # "predicted" => guided = <<>>
  /\ fresh \subseteq DOMAIN promptSlot

IInv ==
  /\ MapsInv /\ OtherTypes /\ RowTypes /\ StepTypes
  /\ LookupAgreesWithMap /\ OnePromptPerSlot
  /\ VisitedAreAssigned /\ LookupExists /\ PreparedArePublished /\ PhaseInv

\* With every prompt inside the tensor, what the sampler was given as well.
GuidedInv == IInv /\ PredictsWithOwnSlot

-----------------------------------------------------------------------------
\* Assigning a slot extends the maps, and loses nothing.
LEMMA AssignExtendsMaps ==
  ASSUME MapsInv, NEW p \in Prompts, ~Exhausted(p), AssignSlot(p)
  PROVE  /\ MapsInv'
         /\ p \in DOMAIN promptSlot'
         /\ \A q \in DOMAIN promptSlot : q \in DOMAIN promptSlot' /\ promptSlot'[q] = promptSlot[q]
         /\ \A s \in DOMAIN slotPrompt : s \in DOMAIN slotPrompt' /\ slotPrompt'[s] = slotPrompt[s]
<1>1. CASE p \in DOMAIN promptSlot
  BY <1>1 DEF AssignSlot, mapVars, MapsInv, MapTypes, SlotMapsAreInverse, EveryLossHasItsEntry
<1>2. CASE p \notin DOMAIN promptSlot
  <2>1. nextSlot \in SlotIds /\ nextSlot \notin DOMAIN slotPrompt
    BY <1>2, CapacityAssumption DEF Exhausted, MapsInv, MapTypes, SlotIds
  <2>2. /\ DOMAIN promptSlot' = DOMAIN promptSlot \cup {p}
        /\ promptSlot'[p] = nextSlot
        /\ \A q \in DOMAIN promptSlot : promptSlot'[q] = promptSlot[q]
    BY <1>2 DEF AssignSlot
  <2>3. /\ DOMAIN slotPrompt' = DOMAIN slotPrompt \cup {nextSlot}
        /\ slotPrompt'[nextSlot] = p
        /\ \A s \in DOMAIN slotPrompt : slotPrompt'[s] = slotPrompt[s]
    BY <1>2, <2>1 DEF AssignSlot
  <2>4. nextSlot' = nextSlot + 1 /\ entries' = entries \cup {p}
    BY <1>2 DEF AssignSlot
  <2>5. promptSlot' \in [DOMAIN promptSlot' -> SlotIds]
    BY <1>2, <2>1, <2>2 DEF AssignSlot, MapsInv, MapTypes
  <2>6. nextSlot' \in 0 .. Capacity
    BY <2>1, <2>4, CapacityAssumption DEF SlotIds
  <2>7. DOMAIN slotPrompt' = 0 .. nextSlot' - 1
    BY <2>1, <2>3, <2>4, CapacityAssumption DEF MapsInv, MapTypes, SlotIds
  <2>8. slotPrompt' \in [0 .. nextSlot' - 1 -> Prompts]
    <3>1. slotPrompt' = [s \in DOMAIN slotPrompt \cup {nextSlot} |-> IF s = nextSlot THEN p ELSE slotPrompt[s]]
      BY <1>2 DEF AssignSlot
    <3>2. \A s \in DOMAIN slotPrompt : slotPrompt[s] \in Prompts
      BY DEF MapsInv, MapTypes
    <3> QED BY <3>1, <3>2, <2>3, <2>7
  <2>9. MapTypes'
    BY <2>2, <2>4, <2>5, <2>6, <2>8 DEF MapsInv, MapTypes
  <2>10. SlotMapsAreInverse'
    BY <1>2, <2>1, <2>2, <2>3 DEF MapsInv, SlotMapsAreInverse
  <2>11. EveryLossHasItsEntry'
    BY <2>3, <2>4 DEF MapsInv, EveryLossHasItsEntry
  <2> QED BY <2>2, <2>3, <2>9, <2>10, <2>11 DEF MapsInv
<1> QED BY <1>1, <1>2

\* An emptied map keeps what the properties say of it.
LEMMA ResetKeepsMaps ==
  ASSUME ResetMap, entries' \subseteq Prompts
  PROVE  MapsInv' /\ OnePromptPerSlot' /\ DOMAIN promptSlot' = {}
                  /\ learned' \in [SlotIds -> SUBSET Prompts]
<1>1. DOMAIN promptSlot' = {} /\ DOMAIN slotPrompt' = {} /\ nextSlot' = 0
  BY DEF ResetMap
<1>2. promptSlot' \in [DOMAIN promptSlot' -> SlotIds] /\ slotPrompt' \in [0 .. nextSlot' - 1 -> Prompts]
  BY <1>1 DEF ResetMap
<1>3. learned' \in [SlotIds -> SUBSET Prompts] /\ \A s \in SlotIds : learned'[s] = {}
  BY DEF ResetMap
<1> QED
  BY <1>1, <1>2, <1>3, CapacityAssumption
  DEF MapsInv, MapTypes, SlotMapsAreInverse, EveryLossHasItsEntry, OnePromptPerSlot

\* Publishing assigned prompts keeps the tensor a tensor that agrees with the map.
LEMMA PublishedAgrees ==
  ASSUME MapsInv, LookupAgreesWithMap, lookup \in {NoLookup} \cup [Indices -> SlotIds \cup {NoSlot}],
         NEW ps, ps \subseteq DOMAIN promptSlot
  PROVE  /\ Published(ps) \in {NoLookup} \cup [Indices -> SlotIds \cup {NoSlot}]
         /\ lookup # NoLookup =>
              /\ Published(ps) # NoLookup
              /\ \A i \in Indices :
                   /\ Published(ps)[i] # NoSlot => i \in DOMAIN promptSlot /\ Published(ps)[i] = promptSlot[i]
                   /\ i \in ps => Published(ps)[i] = promptSlot[i]
         /\ lookup = NoLookup => Published(ps) = NoLookup
<1>1. CASE lookup = NoLookup
  BY <1>1 DEF Published
<1>2. CASE lookup # NoLookup
  <2>1. Published(ps) = [i \in Indices |-> IF i \in ps THEN promptSlot[i] ELSE lookup[i]]
    BY <1>2 DEF Published
  <2>2. Published(ps) \in [Indices -> SlotIds \cup {NoSlot}]
    BY <1>2, <2>1 DEF MapsInv, MapTypes
  <2>3. Published(ps) # NoLookup
    <3>1. 0 \in DOMAIN Published(ps)
      BY <2>1, LookupAssumption DEF Indices
    <3> QED BY <3>1 DEF NoLookup
  <2> QED BY <1>2, <2>1, <2>2, <2>3 DEF LookupAgreesWithMap
<1> QED BY <1>1, <1>2

\* The empty tensor is a tensor.
LEMMA EmptyLookupType ==
  /\ EmptyLookup \in [Indices -> SlotIds \cup {NoSlot}]
  /\ EmptyLookup # NoLookup
  /\ \A i \in Indices : EmptyLookup[i] = NoSlot
<1>1. 0 \in DOMAIN EmptyLookup
  BY LookupAssumption DEF EmptyLookup, Indices
<1>2. EmptyLookup # NoLookup
  BY <1>1 DEF NoLookup
<1> QED BY <1>2 DEF EmptyLookup

\* No rows are a sequence of rows.
LEMMA NoRows == <<>> \in Seq(Row) /\ 1 \in Nat \ {0}
<1> QED OBVIOUS

-----------------------------------------------------------------------------
LEMMA InitInv == Init => IInv
<1> SUFFICES ASSUME Init PROVE IInv
  OBVIOUS
<1>1. MapsInv
  BY CapacityAssumption DEF Init, MapsInv, MapTypes, SlotMapsAreInverse, EveryLossHasItsEntry
<1>2. OtherTypes
  <2>1. lookup \in {NoLookup} \cup [Indices -> SlotIds \cup {NoSlot}]
    BY EmptyLookupType DEF Init
  <2>2. learned \in [SlotIds -> SUBSET Prompts]
    BY DEF Init
  <2>3. configs \in 0 .. MaxConfigs
    BY RowsAssumption DEF Init
  <2>4. enabled \in BOOLEAN /\ intervene \in BOOLEAN /\ stale \in BOOLEAN /\ bank \in BOOLEAN
    BY Zenon DEF Init
  <2> QED BY <2>1, <2>2, <2>3, <2>4 DEF Init, OtherTypes
<1>3. LookupAgreesWithMap /\ LookupExists
  BY EmptyLookupType DEF Init, LookupAgreesWithMap, LookupExists
<1>4. OnePromptPerSlot /\ VisitedAreAssigned /\ PreparedArePublished /\ PhaseInv
  BY DEF Init, OnePromptPerSlot, VisitedAreAssigned, PreparedArePublished, PhaseInv
<1>5. RowTypes /\ StepTypes
  BY DEF Init, RowTypes, StepTypes
<1> QED BY <1>1, <1>2, <1>3, <1>4, <1>5 DEF IInv

\* Between steps the host only moves requests and switches the engine.
LEMMA IdleInv ==
  ASSUME IInv,
         \/ \E p \in Prompts : Admit(p) \/ Finish(p)
         \/ \E b \in BOOLEAN : SetEnabled(b)
  PROVE  IInv'
<1> USE DEF IInv
<1>1. phase = "idle" /\ active' \subseteq Prompts /\ enabled' \in BOOLEAN
  BY DEF Admit, Finish, SetEnabled, OtherTypes, configVars
<1>2. UNCHANGED <<intervene, stale, configs, bank, promptSlot, slotPrompt, nextSlot, entries, lookup,
                  phase, rows, cursor, fresh, guided, learned, raised>>
  BY DEF Admit, Finish, SetEnabled, configVars, mapVars, stepVars
<1>3. MapsInv' /\ LookupAgreesWithMap' /\ OnePromptPerSlot'
  BY <1>2 DEF MapsInv, MapTypes, SlotMapsAreInverse, EveryLossHasItsEntry, LookupAgreesWithMap,
              OnePromptPerSlot
<1>4. OtherTypes' /\ RowTypes' /\ StepTypes'
  BY <1>1, <1>2 DEF OtherTypes, RowTypes, StepTypes
<1>5. VisitedAreAssigned' /\ LookupExists' /\ PreparedArePublished' /\ PhaseInv'
  BY <1>1, <1>2 DEF VisitedAreAssigned, LookupExists, PreparedArePublished, PhaseInv
<1> QED BY <1>3, <1>4, <1>5

\* A reconfiguration forgets all or nothing of the map.
LEMMA ConfigureInv ==
  ASSUME IInv, NEW change \in {"shape", "flush", "other"}, NEW b \in BOOLEAN, NEW i \in BOOLEAN,
         Configure(change, b, i)
  PROVE  IInv'
<1> USE DEF IInv
<1>1. /\ phase = "idle" /\ enabled' = b /\ intervene' = i /\ stale' = TRUE
      /\ configs' \in 0 .. MaxConfigs
      /\ UNCHANGED <<active, phase, rows, cursor, fresh, guided, raised>>
  BY RowsAssumption DEF Configure, stepVars, OtherTypes
<1>2. CASE change = "other"
  <2>1. UNCHANGED <<promptSlot, slotPrompt, nextSlot, entries, learned, bank, lookup>>
    BY <1>2 DEF Configure, mapVars
  <2>2. MapsInv' /\ LookupAgreesWithMap' /\ OnePromptPerSlot'
    BY <2>1 DEF MapsInv, MapTypes, SlotMapsAreInverse, EveryLossHasItsEntry, LookupAgreesWithMap,
                OnePromptPerSlot
  <2>3. OtherTypes' /\ RowTypes' /\ StepTypes'
    BY <1>1, <2>1 DEF OtherTypes, RowTypes, StepTypes
  <2>4. VisitedAreAssigned' /\ LookupExists' /\ PreparedArePublished' /\ PhaseInv'
    BY <1>1, <2>1 DEF VisitedAreAssigned, LookupExists, PreparedArePublished, PhaseInv
  <2> QED BY <2>2, <2>3, <2>4
<1>3. CASE change \in {"shape", "flush"}
  <2>1. ResetMap /\ entries' \subseteq Prompts
    BY <1>3 DEF Configure, MapsInv, MapTypes
  <2>2. \/ bank' = FALSE /\ lookup' = NoLookup
        \/ bank' = bank /\ lookup' = (IF lookup = NoLookup THEN NoLookup ELSE EmptyLookup)
    BY <1>3 DEF Configure
  <2>3. MapsInv' /\ OnePromptPerSlot' /\ DOMAIN promptSlot' = {} /\ learned' \in [SlotIds -> SUBSET Prompts]
    BY <2>1, ResetKeepsMaps
  <2>4. OtherTypes'
    BY <1>1, <2>2, <2>3, EmptyLookupType DEF OtherTypes
  <2>5. LookupAgreesWithMap' /\ LookupExists'
    BY <1>1, <2>2, <2>3, EmptyLookupType DEF LookupAgreesWithMap, LookupExists
  <2>6. VisitedAreAssigned' /\ PreparedArePublished' /\ PhaseInv'
    BY <1>1, <2>3 DEF VisitedAreAssigned, PreparedArePublished, PhaseInv
  <2>7. RowTypes' /\ StepTypes'
    BY <1>1 DEF RowTypes, StepTypes
  <2> QED BY <2>3, <2>4, <2>5, <2>6, <2>7
<1> QED BY <1>2, <1>3

-----------------------------------------------------------------------------
\* What no action of a step touches.
LEMMA BeginStepInv ==
  ASSUME IInv, NEW rs \in RowSeqs, BeginStep(rs)
  PROVE  IInv'
<1> USE DEF IInv
<1>1. /\ phase = "idle" /\ cursor' = 1 /\ rows' = rs /\ guided = <<>> /\ fresh = {}
      /\ UNCHANGED <<active, enabled, intervene, stale, configs, bank, promptSlot, slotPrompt, nextSlot,
                     entries, fresh, guided, learned, raised>>
  BY DEF BeginStep, configVars, mapVars, PhaseInv
<1>2. rs \in Seq(Row)
  BY DEF RowSeqs
<1>3. \/ Guided /\ phase' = "assigning" /\ lookup' = EmptyLookup
      \/ ~Guided /\ phase' = "prepared" /\ lookup' = lookup
  BY DEF BeginStep
<1>4. MapsInv' /\ OnePromptPerSlot'
  BY <1>1 DEF MapsInv, MapTypes, SlotMapsAreInverse, EveryLossHasItsEntry, OnePromptPerSlot
<1>5. OtherTypes'
  BY <1>1, <1>3, EmptyLookupType DEF OtherTypes
<1>8. RowTypes'
  BY <1>1, <1>2 DEF RowTypes
<1>9. StepTypes'
  BY <1>1, <1>3 DEF StepTypes
<1>6. LookupAgreesWithMap' /\ LookupExists'
  BY <1>1, <1>3, EmptyLookupType DEF LookupAgreesWithMap, LookupExists
<1>7. VisitedAreAssigned' /\ PreparedArePublished' /\ PhaseInv'
  BY <1>1, <1>2, <1>3, EmptyLookupType DEF VisitedAreAssigned, PreparedArePublished, PhaseInv, Guided
<1> QED BY <1>4, <1>5, <1>6, <1>7, <1>8, <1>9

\* An exception leaves the host between steps, with the maps as they are.
LEMMA RaiseInv ==
  ASSUME IInv, NEW what \in {"exhausted", "no parameters"}, Raise(what),
         UNCHANGED <<active, enabled, intervene, stale, configs, bank, promptSlot, slotPrompt, nextSlot,
                     entries, lookup, learned>>
  PROVE  IInv'
<1> USE DEF IInv
<1>1. MapsInv' /\ OnePromptPerSlot' /\ LookupAgreesWithMap'
  BY DEF MapsInv, MapTypes, SlotMapsAreInverse, EveryLossHasItsEntry, OnePromptPerSlot, LookupAgreesWithMap
<1>2. OtherTypes' /\ RowTypes' /\ StepTypes'
  <2>1. OtherTypes'
    BY DEF OtherTypes
  <2>2. rows' = <<>> /\ cursor' = 1 /\ fresh' = {} /\ guided' = <<>> /\ phase' = "idle" /\ raised' = what
    BY DEF Raise
  <2>3. RowTypes'
    <3>1. rows' \in Seq(Row)
      BY <2>2, NoRows, Zenon
    <3>2. cursor' \in Nat \ {0}
      BY <2>2, NoRows, Zenon
    <3> QED BY <3>1, <3>2, Zenon DEF RowTypes
  <2>4. StepTypes'
    BY <2>2 DEF StepTypes
  <2> QED BY <2>1, <2>3, <2>4
<1>3. VisitedAreAssigned' /\ LookupExists' /\ PreparedArePublished' /\ PhaseInv'
  BY DEF Raise, VisitedAreAssigned, LookupExists, PreparedArePublished, PhaseInv
<1> QED BY <1>1, <1>2, <1>3

\* Visiting a row, whoever visits it: skip it, or assign a slot to its prompt.
LEMMA VisitRowInv ==
  ASSUME IInv, phase \in {"assigning", "training"}, cursor \in DOMAIN rows,
         \/ /\ rows[cursor] = NoPrompt
            /\ UNCHANGED <<promptSlot, slotPrompt, nextSlot, entries, fresh>>
         \/ /\ rows[cursor] # NoPrompt /\ ~Exhausted(rows[cursor]) /\ AssignSlot(rows[cursor])
            /\ fresh' \subseteq fresh \cup {rows[cursor]}
            /\ phase = "assigning" => fresh' = fresh,
         cursor' = cursor + 1,
         UNCHANGED <<active, enabled, intervene, stale, configs, bank, lookup, phase, rows, guided,
                     learned, raised>>
  PROVE  IInv'
<1> USE DEF IInv
<1>1. rows[cursor] \in Row
  BY DEF RowTypes
<1>2. /\ MapsInv'
      /\ \A q \in DOMAIN promptSlot : q \in DOMAIN promptSlot' /\ promptSlot'[q] = promptSlot[q]
      /\ \A s \in DOMAIN slotPrompt : s \in DOMAIN slotPrompt' /\ slotPrompt'[s] = slotPrompt[s]
      /\ rows[cursor] # NoPrompt => rows[cursor] \in DOMAIN promptSlot'
  <2>1. CASE rows[cursor] = NoPrompt
    BY <2>1 DEF MapsInv, MapTypes, SlotMapsAreInverse, EveryLossHasItsEntry
  <2>2. CASE rows[cursor] # NoPrompt
    BY <1>1, <2>2, AssignExtendsMaps DEF Row
  <2> QED BY <2>1, <2>2
<1>3. fresh' \subseteq DOMAIN promptSlot' /\ fresh' \subseteq Prompts /\ (phase = "assigning" => fresh' = fresh)
  BY <1>1, <1>2 DEF PhaseInv, StepTypes, Row
<1>4. OtherTypes'
  BY DEF OtherTypes
<1>8. RowTypes'
  BY DEF RowTypes
<1>9. StepTypes'
  BY <1>3 DEF StepTypes
<1>5. LookupAgreesWithMap' /\ OnePromptPerSlot'
  BY <1>2 DEF LookupAgreesWithMap, OnePromptPerSlot
<1>6. VisitedAreAssigned'
  BY <1>2 DEF VisitedAreAssigned, RowTypes
<1>7. LookupExists' /\ PreparedArePublished' /\ PhaseInv'
  BY <1>3 DEF LookupExists, PreparedArePublished, PhaseInv, Guided
<1> QED BY <1>2, <1>4, <1>5, <1>6, <1>7, <1>8, <1>9

LEMMA AssignRowInv == ASSUME IInv, AssignRow PROVE IInv'
<1> USE DEF IInv
<1>1. cursor \in DOMAIN rows /\ phase = "assigning"
  BY DEF AssignRow, RowTypes
<1>2. CASE Exhausted(rows[cursor]) /\ rows[cursor] # NoPrompt
  <2>1. Raise("exhausted")
    BY <1>2 DEF AssignRow
  <2> QED BY <1>2, <2>1, RaiseInv DEF AssignRow, configVars, mapVars
<1>3. CASE ~(Exhausted(rows[cursor]) /\ rows[cursor] # NoPrompt)
  <2>1. /\ cursor' = cursor + 1
        /\ UNCHANGED <<active, enabled, intervene, stale, configs, bank, lookup, phase, rows, guided,
                       learned, raised, fresh>>
        /\ \/ rows[cursor] = NoPrompt /\ UNCHANGED <<promptSlot, slotPrompt, nextSlot, entries>>
           \/ rows[cursor] # NoPrompt /\ ~Exhausted(rows[cursor]) /\ AssignSlot(rows[cursor])
    BY <1>3 DEF AssignRow, configVars, mapVars
  <2> QED BY <1>1, <2>1, VisitRowInv
<1> QED BY <1>2, <1>3

LEMMA TrainRowInv == ASSUME IInv, TrainRow PROVE IInv'
<1> USE DEF IInv
<1>1. cursor \in DOMAIN rows /\ phase = "training"
  BY DEF TrainRow, RowTypes
<1>2. CASE Exhausted(rows[cursor]) /\ rows[cursor] # NoPrompt
  <2>1. Raise("exhausted")
    BY <1>2 DEF TrainRow
  <2> QED BY <1>2, <2>1, RaiseInv DEF TrainRow, configVars, mapVars
<1>3. CASE ~(Exhausted(rows[cursor]) /\ rows[cursor] # NoPrompt)
  <2>1. /\ cursor' = cursor + 1
        /\ UNCHANGED <<active, enabled, intervene, stale, configs, bank, lookup, phase, rows, guided,
                       learned, raised>>
        /\ \/ rows[cursor] = NoPrompt /\ UNCHANGED <<promptSlot, slotPrompt, nextSlot, entries, fresh>>
           \/ /\ rows[cursor] # NoPrompt /\ ~Exhausted(rows[cursor]) /\ AssignSlot(rows[cursor])
              /\ fresh' \subseteq fresh \cup {rows[cursor]}
    BY <1>3 DEF TrainRow, configVars, mapVars
  <2> QED BY <1>1, <2>1, VisitRowInv
<1> QED BY <1>2, <1>3

\* With every row visited, the tensor maps every prompt of the step to its slot.
LEMMA EndAssignInv == ASSUME IInv, EndAssign PROVE IInv'
<1> USE DEF IInv
<1>1. /\ phase = "assigning" /\ phase' = "prepared" /\ lookup' = Published(PromptsOf(rows))
      /\ UNCHANGED <<active, enabled, intervene, stale, configs, bank, promptSlot, slotPrompt, nextSlot,
                     entries, rows, cursor, fresh, guided, learned, raised>>
  BY DEF EndAssign, PublishRows, configVars, mapVars
<1>2. \A i \in DOMAIN rows : i < cursor
  BY DEF EndAssign, RowTypes
<1>3. PromptsOf(rows) \subseteq DOMAIN promptSlot
  BY <1>1, <1>2 DEF VisitedAreAssigned, PromptsOf
<1>4. /\ lookup' \in [Indices -> SlotIds \cup {NoSlot}] /\ lookup' # NoLookup
      /\ \A i \in Indices :
           /\ lookup'[i] # NoSlot => i \in DOMAIN promptSlot /\ lookup'[i] = promptSlot[i]
           /\ i \in PromptsOf(rows) => lookup'[i] = promptSlot[i]
  <2>1. lookup # NoLookup /\ lookup \in {NoLookup} \cup [Indices -> SlotIds \cup {NoSlot}]
    BY <1>1 DEF LookupExists, OtherTypes
  <2> QED BY <1>1, <1>3, <2>1, PublishedAgrees
<1>5. MapsInv' /\ OnePromptPerSlot'
  BY <1>1 DEF MapsInv, MapTypes, SlotMapsAreInverse, EveryLossHasItsEntry, OnePromptPerSlot
<1>6. OtherTypes'
  BY <1>1, <1>4 DEF OtherTypes
<1>7. RowTypes' /\ StepTypes'
  BY <1>1 DEF RowTypes, StepTypes
<1>8. LookupAgreesWithMap' /\ LookupExists'
  BY <1>1, <1>4 DEF LookupAgreesWithMap, LookupExists
<1>9. PreparedArePublished'
  BY <1>1, <1>3, <1>4 DEF PreparedArePublished, PromptsOf
<1>10. VisitedAreAssigned' /\ PhaseInv'
  BY <1>1 DEF VisitedAreAssigned, PhaseInv
<1> QED BY <1>5, <1>6, <1>7, <1>8, <1>9, <1>10

\* The slot a row is predicted with is a slot of the bank.
LEMMA SlotOfRowIsSlot ==
  ASSUME lookup \in [Indices -> SlotIds \cup {NoSlot}], NEW p \in Row
  PROVE  SlotOfRow(p) \in SlotIds /\ (p \in Indices /\ lookup[p] # NoSlot => SlotOfRow(p) = lookup[p])
<1>1. p \in Int
  BY PromptsAssumption DEF Row, NoPrompt
<1>2. Clamp(p, 0, LookupSize - 1) \in Indices /\ (p \in Indices => Clamp(p, 0, LookupSize - 1) = p)
  BY <1>1, LookupAssumption DEF Clamp, Indices
<1> DEFINE i == Clamp(p, 0, LookupSize - 1)
<1>3. lookup[i] \in SlotIds \cup {NoSlot}
  BY <1>2
<1> HIDE DEF i
<1>4. Clamp(lookup[i], 0, Capacity - 1) \in SlotIds
      /\ (lookup[i] # NoSlot => Clamp(lookup[i], 0, Capacity - 1) = lookup[i])
  BY <1>3, CapacityAssumption DEF Clamp, SlotIds, NoSlot
<1> QED BY <1>2, <1>4 DEF SlotOfRow, i

LEMMA PredictInv == ASSUME IInv, Predict PROVE IInv'
<1> USE DEF IInv
<1>1. /\ phase = "prepared"
      /\ UNCHANGED <<active, enabled, intervene, stale, configs, bank, promptSlot, slotPrompt, nextSlot,
                     entries, lookup, learned>>
  BY DEF Predict, configVars, mapVars
<1>2. CASE Raise("no parameters")
  BY <1>1, <1>2, RaiseInv
<1>3. CASE ~Raise("no parameters")
  <2>1. /\ phase' = "predicted" /\ UNCHANGED <<rows, cursor, fresh, raised>>
        /\ \/ guided' = guided
           \/ bank /\ guided' = [i \in DOMAIN rows |-> SlotOfRow(rows[i])]
    BY <1>3 DEF Predict
  <2>2. guided' \in {<<>>} \cup [DOMAIN rows -> SlotIds]
    <3>1. CASE guided' = guided
      BY <3>1, <1>1 DEF PhaseInv
    <3>2. CASE bank /\ guided' = [i \in DOMAIN rows |-> SlotOfRow(rows[i])]
      <4>1. lookup \in [Indices -> SlotIds \cup {NoSlot}]
        BY <3>2 DEF LookupExists, OtherTypes
      <4>2. \A i \in DOMAIN rows : rows[i] \in Row
        BY DEF RowTypes
      <4>3. \A i \in DOMAIN rows : SlotOfRow(rows[i]) \in SlotIds
        BY <4>1, <4>2, SlotOfRowIsSlot
      <4> QED BY ONLY <3>2, <4>3
    <3> QED BY <2>1, <3>1, <3>2
  <2>3. MapsInv' /\ OnePromptPerSlot' /\ LookupAgreesWithMap'
    BY <1>1 DEF MapsInv, MapTypes, SlotMapsAreInverse, EveryLossHasItsEntry, OnePromptPerSlot,
                LookupAgreesWithMap
  <2>4. OtherTypes'
    BY <1>1 DEF OtherTypes
  <2>5. RowTypes'
    BY <2>1 DEF RowTypes
  <2>6. StepTypes'
    BY <2>1, <2>2 DEF StepTypes
  <2>7. VisitedAreAssigned' /\ LookupExists' /\ PreparedArePublished' /\ PhaseInv'
    BY <1>1, <2>1 DEF VisitedAreAssigned, LookupExists, PreparedArePublished, PhaseInv
  <2> QED BY <2>3, <2>4, <2>5, <2>6, <2>7
<1> QED BY <1>2, <1>3

-----------------------------------------------------------------------------
\* Dropping rows leaves a sequence of rows.
LEMMA FirstPerPromptIsRows == ASSUME rows \in Seq(Row) PROVE FirstPerPrompt(rows) \in Seq(Row)
<1>1. Len(rows) \in Nat /\ DOMAIN rows = 1 .. Len(rows) /\ \A i \in DOMAIN rows : rows[i] \in Row
  OBVIOUS
<1>2. FirstPerPrompt(rows) \in [1 .. Len(rows) -> Row]
  BY <1>1 DEF FirstPerPrompt, Row
<1> QED BY <1>1, <1>2

LEMMA ConsumeInv == ASSUME IInv, Consume PROVE IInv'
<1> USE DEF IInv
<1>1. /\ phase = "predicted" /\ cursor' = 1 /\ guided' = <<>>
      /\ UNCHANGED <<active, enabled, intervene, configs, entries, fresh, raised>>
      /\ fresh = {}
  BY DEF Consume, PhaseInv
<1>2. \/ phase' = "idle" /\ rows' = <<>>
      \/ phase' = "training" /\ rows' = FirstPerPrompt(rows) /\ bank'
  <2>1. CASE ~enabled
    BY <2>1, Zenon DEF Consume
  <2>2. CASE enabled
    <3>1. phase' = "training" /\ rows' = FirstPerPrompt(rows)
      BY <2>2, Zenon DEF Consume
    <3>2. (bank /\ bank' = bank) \/ EnsureBank
      BY <2>2, Zenon DEF Consume
    <3>3. CASE bank /\ bank' = bank
      BY <3>1, <3>3
    <3>4. CASE EnsureBank
      <4>1. bank' = TRUE
        BY <3>4, Zenon DEF EnsureBank
      <4> QED
        BY <3>1, <4>1
    <3> QED
      BY <3>2, <3>3, <3>4
  <2> QED
    BY <2>1, <2>2
<1>3. \/ UNCHANGED <<bank, lookup, promptSlot, slotPrompt, nextSlot, learned>>
      \/ EnsureBank
  BY DEF Consume
<1>4. stale' \in BOOLEAN
  BY DEF Consume, OtherTypes
<1>5. RowTypes'
  <2>1. FirstPerPrompt(rows) \in Seq(Row)
    BY FirstPerPromptIsRows DEF RowTypes
  <2>2. rows' \in Seq(Row)
    BY <1>2, <2>1, NoRows, Zenon
  <2>3. cursor' \in Nat \ {0}
    BY <1>1
  <2> QED BY <2>2, <2>3, Zenon DEF RowTypes
<1>6. StepTypes'
  BY <1>1, <1>2 DEF StepTypes
<1>7. CASE UNCHANGED <<bank, lookup, promptSlot, slotPrompt, nextSlot, learned>>
  <2>1. MapsInv' /\ OnePromptPerSlot' /\ LookupAgreesWithMap'
    BY <1>1, <1>7 DEF MapsInv, MapTypes, SlotMapsAreInverse, EveryLossHasItsEntry, OnePromptPerSlot,
                      LookupAgreesWithMap
  <2>2. OtherTypes'
    BY <1>1, <1>4, <1>7 DEF OtherTypes
  <2>3. VisitedAreAssigned'
    BY <1>1, <1>5 DEF VisitedAreAssigned, RowTypes
  <2>4. LookupExists' /\ PreparedArePublished' /\ PhaseInv'
    BY <1>1, <1>2, <1>7 DEF LookupExists, PreparedArePublished, PhaseInv
  <2> QED BY <1>5, <1>6, <2>1, <2>2, <2>3, <2>4
<1>8. CASE EnsureBank
  <2>1. bank' = TRUE /\ ResetMap /\ lookup' = EmptyLookup
    BY <1>8 DEF EnsureBank
  <2>2. MapsInv' /\ OnePromptPerSlot' /\ DOMAIN promptSlot' = {} /\ learned' \in [SlotIds -> SUBSET Prompts]
    BY <1>1, <2>1, ResetKeepsMaps DEF MapsInv, MapTypes
  <2>3. lookup' \in {NoLookup} \cup [Indices -> SlotIds \cup {NoSlot}] /\ bank' \in BOOLEAN
    BY <2>1, EmptyLookupType
  <2>4. OtherTypes'
    BY <1>1, <1>4, <2>2, <2>3 DEF OtherTypes
  <2>5. LookupAgreesWithMap' /\ LookupExists'
    BY <2>1, <2>2, EmptyLookupType DEF LookupAgreesWithMap, LookupExists
  <2>6. VisitedAreAssigned'
    BY <1>1, <1>5 DEF VisitedAreAssigned, RowTypes
  <2>7. PreparedArePublished' /\ PhaseInv'
    BY <1>1, <1>2, <2>1 DEF PreparedArePublished, PhaseInv
  <2> QED BY <1>5, <1>6, <2>2, <2>4, <2>5, <2>6, <2>7
<1> QED BY <1>3, <1>7, <1>8

\* Each slot learns from the row of the prompt that holds it.
LEMMA EndTrainInv == ASSUME IInv, EndTrain PROVE IInv'
<1> USE DEF IInv
<1>1. /\ phase = "training" /\ phase' = "idle" /\ lookup' = Published(fresh)
      /\ rows' = <<>> /\ cursor' = 1 /\ fresh' = {} /\ guided' = <<>>
      /\ UNCHANGED <<active, enabled, intervene, stale, configs, bank, promptSlot, slotPrompt, nextSlot,
                     entries, raised>>
  BY DEF EndTrain, configVars, mapVars
<1>2. lookup # NoLookup
  BY <1>1 DEF PhaseInv, LookupExists
<1>3. /\ lookup' \in [Indices -> SlotIds \cup {NoSlot}] /\ lookup' # NoLookup
      /\ \A i \in Indices : lookup'[i] # NoSlot => i \in DOMAIN promptSlot /\ lookup'[i] = promptSlot[i]
  <2>1. fresh \subseteq DOMAIN promptSlot /\ lookup \in {NoLookup} \cup [Indices -> SlotIds \cup {NoSlot}]
    BY DEF PhaseInv, OtherTypes
  <2> QED BY <1>1, <1>2, <2>1, PublishedAgrees
<1>4. \A i \in DOMAIN rows : rows[i] # NoPrompt => rows[i] \in DOMAIN promptSlot
  BY <1>1 DEF EndTrain, RowTypes, VisitedAreAssigned
<1>5. \A s \in SlotIds : learned'[s] \subseteq learned[s] \cup
                           {p \in DOMAIN promptSlot : promptSlot[p] = s}
  <2> SUFFICES ASSUME NEW s \in SlotIds, NEW p \in learned'[s], p \notin learned[s]
               PROVE  p \in DOMAIN promptSlot /\ promptSlot[p] = s
    OBVIOUS
  <2>1. learned'[s] = learned[s] \cup PromptsOf([i \in {j \in DOMAIN rows : TrainedSlots[j] = s} |-> rows[i]])
    BY DEF EndTrain
  <2>2. PICK i \in DOMAIN rows : TrainedSlots[i] = s /\ rows[i] = p /\ p # NoPrompt
    BY <2>1 DEF PromptsOf
  <2>3. SlotOrNone(p) = s
    BY <2>2 DEF TrainedSlots
  <2> QED BY <1>4, <2>2, <2>3 DEF SlotOrNone
<1>6. learned' \in [SlotIds -> SUBSET Prompts]
  <2>1. \A s \in SlotIds : learned'[s] \subseteq Prompts
    BY <1>5 DEF OtherTypes, MapsInv, MapTypes
  <2>2. learned' = [s \in SlotIds |-> learned'[s]]
    BY DEF EndTrain
  <2> QED BY ONLY <2>1, <2>2
<1>7. OnePromptPerSlot'
  <2> SUFFICES ASSUME NEW s \in SlotIds, learned'[s] # {}
               PROVE  s \in DOMAIN slotPrompt /\ learned'[s] = {slotPrompt[s]}
    BY <1>1 DEF OnePromptPerSlot
  <2>1. \A p \in DOMAIN promptSlot : promptSlot[p] = s => s \in DOMAIN slotPrompt /\ slotPrompt[s] = p
    BY DEF MapsInv, SlotMapsAreInverse
  <2>2. learned[s] # {} => s \in DOMAIN slotPrompt /\ learned[s] = {slotPrompt[s]}
    BY DEF OnePromptPerSlot
  <2>3. \A p \in learned'[s] : s \in DOMAIN slotPrompt /\ p = slotPrompt[s]
    BY <1>5, <2>1, <2>2
  <2> QED BY <2>3
<1>8. MapsInv'
  BY <1>1 DEF MapsInv, MapTypes, SlotMapsAreInverse, EveryLossHasItsEntry
<1>9. OtherTypes'
  BY <1>1, <1>3, <1>6 DEF OtherTypes
<1>10. RowTypes'
  <2>1. rows' \in Seq(Row)
    BY <1>1, NoRows, Zenon
  <2>2. cursor' \in Nat \ {0}
    BY <1>1
  <2> QED BY <2>1, <2>2, Zenon DEF RowTypes
<1>11. StepTypes'
  BY <1>1 DEF StepTypes
<1>12. LookupAgreesWithMap' /\ LookupExists'
  BY <1>1, <1>3 DEF LookupAgreesWithMap, LookupExists
<1>13. VisitedAreAssigned' /\ PreparedArePublished' /\ PhaseInv'
  BY <1>1 DEF VisitedAreAssigned, PreparedArePublished, PhaseInv
<1> QED BY <1>7, <1>8, <1>9, <1>10, <1>11, <1>12, <1>13

LEMMA StutterInv == ASSUME IInv, UNCHANGED vars PROVE IInv'
<1> USE DEF IInv, vars
<1>1. MapsInv' /\ OnePromptPerSlot' /\ LookupAgreesWithMap'
  BY DEF MapsInv, MapTypes, SlotMapsAreInverse, EveryLossHasItsEntry, OnePromptPerSlot, LookupAgreesWithMap
<1>2. OtherTypes' /\ RowTypes' /\ StepTypes'
  BY DEF OtherTypes, RowTypes, StepTypes
<1>3. VisitedAreAssigned' /\ LookupExists' /\ PreparedArePublished' /\ PhaseInv'
  BY DEF VisitedAreAssigned, LookupExists, PreparedArePublished, PhaseInv, Guided
<1> QED BY <1>1, <1>2, <1>3

LEMMA StepInv == IInv /\ [Next]_vars => IInv'
<1> SUFFICES ASSUME IInv, [Next]_vars PROVE IInv'
  OBVIOUS
<1>1. CASE \E p \in Prompts : Admit(p) \/ Finish(p)
  BY <1>1, IdleInv
<1>2. CASE \E b \in BOOLEAN : SetEnabled(b)
  BY <1>2, IdleInv
<1>3. CASE \E change \in {"shape", "flush", "other"}, b, i \in BOOLEAN : Configure(change, b, i)
  BY <1>3, ConfigureInv
<1>4. CASE \E rs \in RowSeqs : BeginStep(rs)
  BY <1>4, BeginStepInv
<1>5. CASE AssignRow
  BY <1>5, AssignRowInv
<1>6. CASE EndAssign
  BY <1>6, EndAssignInv
<1>7. CASE Predict
  BY <1>7, PredictInv
<1>8. CASE Consume
  BY <1>8, ConsumeInv
<1>9. CASE TrainRow
  BY <1>9, TrainRowInv
<1>10. CASE EndTrain
  BY <1>10, EndTrainInv
<1>11. CASE UNCHANGED vars
  BY <1>11, StutterInv
<1> QED BY <1>1, <1>2, <1>3, <1>4, <1>5, <1>6, <1>7, <1>8, <1>9, <1>10, <1>11 DEF Next

-----------------------------------------------------------------------------
\* The inductive invariant holds of every run of the bank.
THEOREM BankInvariant == Spec => []IInv
<1> QED BY InitInv, StepInv, PTL DEF Spec

\* Every variable keeps its type, through every exception and reconfiguration
\* (the state of engine.py, _EngineState).
THEOREM BankTypes == Spec => []TypeOK
<1>1. IInv => TypeOK
  <2> SUFFICES ASSUME IInv PROVE TypeOK
    OBVIOUS
  <2>1. MapTypes /\ OtherTypes /\ RowTypes /\ StepTypes
    BY DEF IInv, MapsInv
  <2> QED BY <2>1, Zenon DEF TypeOK, MapTypes, OtherTypes, RowTypes, StepTypes
<1> QED BY <1>1, BankInvariant, PTL

\* prompt_to_slot and slot_to_prompt are each other's inverse in every reachable
\* state, whoever assigned the slots (_assign_model_bank_slot).
THEOREM MapsAreInverse == Spec => []SlotMapsAreInverse
<1>1. IInv => SlotMapsAreInverse
  BY DEF IInv, MapsInv
<1> QED BY <1>1, BankInvariant, PTL

\* The dense tensor never names a slot the map does not
\* (_write_sampling_lookup_dense_entries and the resets).
THEOREM LookupAgrees == Spec => []LookupAgreesWithMap
<1>1. IInv => LookupAgreesWithMap
  BY DEF IInv
<1> QED BY <1>1, BankInvariant, PTL

\* No slot is trained on the rows of two prompts between two resets of the map
\* (_train_model_bank).
THEOREM SlotsArePrivate == Spec => []OnePromptPerSlot
<1>1. IInv => OnePromptPerSlot
  BY DEF IInv
<1> QED BY <1>1, BankInvariant, PTL

\* Every assigned slot has the statistics entry training adds its loss to, so the
\* access without a default in the training job cannot fail.
THEOREM EntriesExist == Spec => []EveryLossHasItsEntry
<1>1. IInv => EveryLossHasItsEntry
  BY DEF IInv, MapsInv
<1> QED BY <1>1, BankInvariant, PTL

\* With anything assigned the dense tensor exists, so the prediction never falls
\* back to the sorted-key lookup.
THEOREM DenseLookup == Spec => []DenseLookupAvailable
<1>1. IInv => DenseLookupAvailable
  <2> SUFFICES ASSUME IInv, DOMAIN promptSlot = {} PROVE promptSlot = <<>>
    BY DEF IInv, LookupExists, DenseLookupAvailable
  <2>1. promptSlot \in [{} -> SlotIds]
    BY DEF IInv, MapsInv, MapTypes
  <2> QED BY <2>1
<1> QED BY <1>1, BankInvariant, PTL

\* While every prompt index lies inside the tensor, every row of a guided step is
\* predicted with its own prompt's parameters, although indices are clamped and the
\* tensor is read without a mask (predict_hidden_for_sampling).
THEOREM OwnSlot == ASSUME Prompts \subseteq Indices PROVE Spec => []PredictsWithOwnSlot
<1>1. Init => PredictsWithOwnSlot
  BY DEF Init, PredictsWithOwnSlot
<1>2. GuidedInv /\ [Next]_vars => PredictsWithOwnSlot'
  <2> SUFFICES ASSUME IInv, PredictsWithOwnSlot, [Next]_vars, guided' # <<>> PROVE PredictsWithOwnSlot'
    BY DEF GuidedInv, PredictsWithOwnSlot
  <2>1. CASE UNCHANGED <<guided, rows, promptSlot>>
    BY <2>1 DEF PredictsWithOwnSlot
  <2>2. CASE Predict
    <3>1. CASE UNCHANGED <<guided, rows, promptSlot>>
      BY <3>1, <2>1
    <3>2. CASE Guided /\ bank /\ guided' = [i \in DOMAIN rows |-> SlotOfRow(rows[i])]
      <4>1. phase = "prepared" /\ promptSlot' = promptSlot /\ rows' = rows
        BY <2>2, <3>2 DEF Predict, Raise, mapVars
      <4>2. lookup \in [Indices -> SlotIds \cup {NoSlot}]
        BY <3>2 DEF IInv, LookupExists, OtherTypes
      <4> SUFFICES ASSUME NEW i \in DOMAIN rows, rows[i] # NoPrompt
                   PROVE  rows[i] \in DOMAIN promptSlot /\ SlotOfRow(rows[i]) = promptSlot[rows[i]]
        BY <3>2, <4>1 DEF PredictsWithOwnSlot
      <4>3. rows[i] \in DOMAIN promptSlot /\ rows[i] \in Row /\ rows[i] \in Indices
        BY <3>2, <4>1 DEF PreparedArePublished, IInv, RowTypes, Row
      <4>4. lookup[rows[i]] = promptSlot[rows[i]]
        BY <3>2, <4>1, <4>3 DEF PreparedArePublished, IInv
      <4>5. promptSlot[rows[i]] # NoSlot
        BY <4>3 DEF IInv, MapsInv, MapTypes, SlotIds, NoSlot
      <4> QED BY <4>2, <4>3, <4>4, <4>5, SlotOfRowIsSlot
    <3> QED BY <2>2, <3>1, <3>2 DEF Predict, Raise, mapVars
  <2>3. CASE ~Predict
    <3>1. CASE phase # "predicted"
      <4>1. guided = <<>>
        BY <3>1 DEF IInv, PhaseInv
      <4>2. guided' = guided \/ guided' = <<>>
        BY <2>3 DEF Next, vars, Admit, Finish, SetEnabled, Configure, BeginStep, AssignRow, EndAssign,
                    Consume, TrainRow, EndTrain, Raise, stepVars
      <4> QED BY <4>1, <4>2
    <3>2. CASE phase = "predicted"
      <4>1. Consume \/ UNCHANGED vars
        BY <2>3, <3>2 DEF Next, Admit, Finish, SetEnabled, Configure, BeginStep, AssignRow, EndAssign,
                          TrainRow, EndTrain
      <4>2. CASE Consume
        BY <4>2 DEF Consume
      <4>3. CASE UNCHANGED vars
        BY <2>1, <4>3 DEF vars
      <4> QED BY <4>1, <4>2, <4>3
    <3> QED BY <3>1, <3>2
  <2> QED BY <2>1, <2>2, <2>3
<1> QED BY <1>1, <1>2, BankInvariant, PTL DEF Spec, GuidedInv
=============================================================================
