-------------------------- MODULE DecodeStepProofs --------------------------
(***************************************************************************)
(* Proofs about the decode step, for every set of prompts, capacity,       *)
(* batch size and number of steps and configurations.                      *)
(***************************************************************************)
EXTENDS DecodeStep, OrderedSetsProofs

-----------------------------------------------------------------------------
(***************************************************************************)
(* The inductive invariant.                                                *)
(***************************************************************************)
InStep == phase \in {"prepared", "forwarded", "logits", "sampled"}

\* The decode metadata that prepare_decode_localization publishes for a batch.
MetaOf(b) ==
  LET pos == DecodePositions(b)
  IN  [i \in DOMAIN pos |-> [pos |-> pos[i], prompt |-> b[pos[i]].prompt]]

\* What the metadata and the row indices say is about the batch at hand; the tail of the
\* fixed buffers holds rows of earlier batches.
LocalInv ==
  /\ batch # <<>> => batch \in Batches
  /\ InStep => batch # <<>>
  /\ phase = "unloaded" => meta = <<>>
  /\ meta # <<>> => /\ PlanActive /\ setup.done /\ batch # <<>> /\ step > 0
                    /\ meta = MetaOf(batch)
  /\ InStep /\ PlanActive => setup.done /\ meta = MetaOf(batch)
  /\ \A i \in DOMAIN meta : rowIdx[i] = LocalizedRows(batch)[i]
  /\ \A i \in 1 .. ScratchRows : rowIdx[i] \in {1} \cup 1 .. 2 * MaxRows
  /\ setup.compact > 0 /\ meta # <<>> => compactIds = FirstPerPrompt(meta)
  /\ setup.compact = 0 => compactIds = <<>>
  /\ \A i \in DOMAIN compactIds : compactIdx[i] = rowIdx[compactIds[i]]

\* What the capture was set up for.
SetupInv ==
  /\ ~setup.done => setup = NoSetup
  /\ setup.compact > 0 => TRUE \in Lanes
  /\ ~setup.full => setup.compact > 0
  /\ MaxConfigs = 0 => /\ configs = 0 /\ plan = PlanOf(cfg)
                       /\ setup.done => setup = SetupFor(cfg, plan)

\* Once the forward has run, the active rows of the buffers are those of the step.
TapInv ==
  phase \notin {"unloaded", "prepared"} =>
    /\ setup.full => \A i \in DOMAIN meta : tap[i] = Hidden(step, rowIdx[i])
    /\ ~Replayed => \A i \in DOMAIN compactIds : compactTap[i] = Hidden(step, compactIdx[i])

\* A prediction is that of the step at hand, until the next step is prepared.
CacheInv ==
  /\ cache # NoCache => /\ phase \in {"idle", "logits", "sampled"} /\ meta # <<>>
                        /\ cache = Prediction /\ publishStep = step
  /\ phase = "logits" /\ PlanActive /\ ProviderActive /\ meta # <<>> => cache # NoCache
  /\ launchedStep <= step
  /\ phase \in {"prepared", "forwarded"} /\ PlanActive => launchedStep < step
  /\ ~SideStream => ready
  /\ phase \in {"prepared", "forwarded", "logits"} => guided = <<>>
  /\ InStep => deliveries = 0

IInv == TypeOK /\ LocalInv /\ SetupInv /\ TapInv /\ CacheInv
-----------------------------------------------------------------------------
(***************************************************************************)
(* Facts about localization and compaction.                                *)
(***************************************************************************)

\* The batches of a step are nonempty sequences of requests.
LEMMA BatchIsSequence ==
  ASSUME NEW b \in Batches
  PROVE  /\ b \in Seq(Request) /\ b # <<>>
         /\ Len(b) \in 1 .. MaxRows /\ DOMAIN b = 1 .. Len(b) /\ MaxRows \in Nat \ {0}
<1>1. PICK n \in 1 .. MaxRows : b \in [1 .. n -> Request]
  BY DEF Batches
<1>2. b \in Seq(Request) /\ Len(b) = n /\ DOMAIN b = 1 .. n
  BY <1>1, BoundAssumption, Segment
<1> QED BY <1>1, <1>2, BoundAssumption

\* Every request is sampled from a row of its own, at most two rows a request.
LEMMA LogitsInRange ==
  ASSUME NEW b \in Batches
  PROVE  /\ DOMAIN LogitsIndices(b) = DOMAIN b
         /\ \A i \in DOMAIN b : LogitsIndices(b)[i] \in 1 .. 2 * MaxRows
<1>1. Len(b) \in 1 .. MaxRows /\ DOMAIN b = 1 .. Len(b) /\ MaxRows \in Nat
  BY BatchIsSequence
<1>2. ASSUME NEW i \in DOMAIN b PROVE LogitsIndices(b)[i] \in 1 .. 2 * MaxRows
  <2>1. i \in 1 .. MaxRows /\ i \in Nat
    BY <1>1
  <2>2. IsFiniteSet(1 .. i) /\ Cardinality(1 .. i) = i
    BY <2>1, FS_Interval
  <2> DEFINE P == {j \in 1 .. i : ~b[j].decode}
  <2>3. Cardinality(P) \in Nat /\ Cardinality(P) <= i
    <3>1. P \in SUBSET (1 .. i)
      OBVIOUS
    <3> HIDE DEF P
    <3> QED BY <2>2, <3>1, FS_Subset, FS_CardinalityType
  <2>4. LogitsIndices(b)[i] = i + Cardinality(P)
    BY DEF LogitsIndices
  <2> QED BY <1>1, <2>1, <2>3, <2>4
<1> QED BY <1>2 DEF LogitsIndices

\* The decode positions of a batch, in order.
LEMMA Positions ==
  ASSUME NEW b \in Batches
  PROVE  /\ DecodePositions(b) \in Seq(DOMAIN b)
         /\ Len(DecodePositions(b)) \in 0 .. Len(b)
         /\ \A i \in DOMAIN DecodePositions(b) : b[DecodePositions(b)[i]].decode
         /\ \A p \in DOMAIN b : b[p].decode =>
              \E i \in DOMAIN DecodePositions(b) : DecodePositions(b)[i] = p
         /\ \A i, j \in DOMAIN DecodePositions(b) :
              i < j => DecodePositions(b)[i] < DecodePositions(b)[j]
         /\ (\A p \in DOMAIN b : b[p].decode) =>
              /\ Len(DecodePositions(b)) = Len(b)
              /\ \A i \in DOMAIN b : DecodePositions(b)[i] = i
         /\ Len(DecodePositions(b)) = Len(b) => \A p \in DOMAIN b : b[p].decode
<1> DEFINE D == {i \in DOMAIN b : b[i].decode}
<1>1. DecodePositions(b) = Ordered(D)
  BY DEF DecodePositions
<1>2. Len(b) \in Nat /\ DOMAIN b = 1 .. Len(b)
  BY BatchIsSequence
<1>3. IsFiniteSet(1 .. Len(b)) /\ Cardinality(1 .. Len(b)) = Len(b)
  BY <1>2, SegmentSize
<1>4. D \in SUBSET (1 .. Len(b)) /\ D \in SUBSET Nat
  BY <1>2
<1>5. \A i : i \in D <=> i \in DOMAIN b /\ b[i].decode
  OBVIOUS
<1> HIDE DEF D
<1>6. IsFiniteSet(D) /\ Cardinality(D) \in Nat /\ Cardinality(D) <= Len(b)
  BY <1>3, <1>4, FS_Subset, FS_CardinalityType
<1>7. /\ Ordered(D) \in Seq(D) /\ Len(Ordered(D)) = Cardinality(D)
      /\ \A p \in D : \E i \in DOMAIN Ordered(D) : Ordered(D)[i] = p
      /\ \A i, j \in DOMAIN Ordered(D) : i < j => Ordered(D)[i] < Ordered(D)[j]
  BY <1>4, <1>6, OrderedSequence
<1>8. ASSUME \A p \in DOMAIN b : b[p].decode
      PROVE  Len(Ordered(D)) = Len(b) /\ \A i \in DOMAIN b : Ordered(D)[i] = i
  <2>1. D = 1 .. Len(b)
    BY <1>2, <1>5, <1>8
  <2> QED BY <1>2, <1>7, <2>1, OrderedInterval
<1>9. Ordered(D) \in Seq(DOMAIN b)
  BY <1>5, <1>7
<1>11. Len(Ordered(D)) = Len(b) => \A p \in DOMAIN b : b[p].decode
  <2>1. Cardinality(D) = Cardinality(1 .. Len(b)) => D = 1 .. Len(b)
    BY <1>3, <1>4, FS_Subset
  <2> QED BY <1>2, <1>3, <1>5, <1>7, <2>1
<1>10. \A i \in DOMAIN Ordered(D) : Ordered(D)[i] \in D
  BY <1>7
<1> QED BY <1>1, <1>2, <1>5, <1>6, <1>7, <1>8, <1>9, <1>10, <1>11

\* A row of the decode metadata.
Meta == [pos : 1 .. MaxRows, prompt : Prompts \cup {NoPrompt}]

\* The metadata and the localized rows of a batch.
LEMMA Localized ==
  ASSUME NEW b \in Batches
  PROVE  /\ MetaOf(b) \in Seq(Meta) /\ Len(MetaOf(b)) = Len(DecodePositions(b))
         /\ \A i \in DOMAIN MetaOf(b) :
              /\ MetaOf(b)[i].pos = DecodePositions(b)[i]
              /\ MetaOf(b)[i].pos \in DOMAIN b
              /\ MetaOf(b)[i].prompt = b[MetaOf(b)[i].pos].prompt
              /\ b[MetaOf(b)[i].pos].decode
         /\ LocalizedRows(b) \in Seq(1 .. 2 * MaxRows)
         /\ Len(LocalizedRows(b)) = Len(MetaOf(b))
         /\ \A i \in DOMAIN MetaOf(b) :
              LocalizedRows(b)[i] = LogitsIndices(b)[MetaOf(b)[i].pos]
<1> DEFINE pos == DecodePositions(b)
<1>1. /\ b \in Seq(Request) /\ Len(b) \in 1 .. MaxRows /\ DOMAIN b = 1 .. Len(b)
      /\ MaxRows \in Nat
  BY BatchIsSequence
<1>2. pos \in Seq(DOMAIN b) /\ \A i \in DOMAIN pos : b[pos[i]].decode
  BY Positions
<1>3. /\ Len(pos) \in Nat /\ DOMAIN pos = 1 .. Len(pos)
      /\ \A i \in DOMAIN pos : pos[i] \in DOMAIN b /\ pos[i] \in 1 .. MaxRows
  BY <1>1, <1>2
<1>4. \A i \in DOMAIN b : b[i].prompt \in Prompts \cup {NoPrompt}
  BY <1>1 DEF Request
<1>5. /\ MetaOf(b) = [i \in 1 .. Len(pos) |-> [pos |-> pos[i], prompt |-> b[pos[i]].prompt]]
      /\ LocalizedRows(b) = [i \in 1 .. Len(pos) |-> LogitsIndices(b)[pos[i]]]
  BY <1>3 DEF MetaOf, LocalizedRows, Pick
<1> HIDE DEF pos
<1>6. MetaOf(b) \in [1 .. Len(pos) -> Meta]
  <2> SUFFICES ASSUME NEW i \in 1 .. Len(pos)
               PROVE  [pos |-> pos[i], prompt |-> b[pos[i]].prompt] \in Meta
    BY <1>5
  <2> QED BY <1>3, <1>4 DEF Meta
<1>7. LocalizedRows(b) \in [1 .. Len(pos) -> 1 .. 2 * MaxRows]
  BY <1>3, <1>5, LogitsInRange
<1>8. MetaOf(b) \in Seq(Meta) /\ Len(MetaOf(b)) = Len(pos) /\ DOMAIN MetaOf(b) = 1 .. Len(pos)
  BY <1>3, <1>6, Segment
<1>9. LocalizedRows(b) \in Seq(1 .. 2 * MaxRows) /\ Len(LocalizedRows(b)) = Len(pos)
  BY <1>3, <1>7, Segment
<1>10. ASSUME NEW i \in 1 .. Len(pos)
       PROVE  /\ MetaOf(b)[i].pos = pos[i] /\ MetaOf(b)[i].prompt = b[pos[i]].prompt
              /\ LocalizedRows(b)[i] = LogitsIndices(b)[pos[i]]
  BY <1>5
<1> QED BY <1>2, <1>3, <1>8, <1>9, <1>10 DEF pos

\* The rows a compacted flow keeps: in order, mapped, each the first of its prompt, and
\* one for every mapped prompt of the rows.
LEMMA Compacted ==
  ASSUME NEW T, NEW rows \in Seq(T)
  PROVE  LET keep == FirstPerPrompt(rows)
         IN  /\ keep \in Seq(DOMAIN rows) /\ Len(keep) <= Len(rows)
             /\ \A i \in DOMAIN keep :
                  /\ rows[keep[i]].prompt # NoPrompt
                  /\ \A j \in 1 .. keep[i] - 1 : rows[j].prompt # rows[keep[i]].prompt
             /\ \A i, j \in DOMAIN keep : i < j => keep[i] < keep[j]
             /\ \A p \in DOMAIN rows :
                  /\ rows[p].prompt # NoPrompt
                  /\ \A j \in 1 .. p - 1 : rows[j].prompt # rows[p].prompt
                  => \E i \in DOMAIN keep : keep[i] = p
<1> DEFINE F == {i \in DOMAIN rows :
                   /\ rows[i].prompt # NoPrompt
                   /\ \A j \in 1 .. i - 1 : rows[j].prompt # rows[i].prompt}
<1>1. FirstPerPrompt(rows) = Ordered(F)
  BY DEF FirstPerPrompt
<1>2. Len(rows) \in Nat /\ DOMAIN rows = 1 .. Len(rows)
  OBVIOUS
<1>3. IsFiniteSet(1 .. Len(rows)) /\ Cardinality(1 .. Len(rows)) = Len(rows)
  BY <1>2, SegmentSize
<1>4. F \in SUBSET (1 .. Len(rows)) /\ F \in SUBSET Nat
  BY <1>2
<1>5. \A i : i \in F <=> /\ i \in DOMAIN rows /\ rows[i].prompt # NoPrompt
                         /\ \A j \in 1 .. i - 1 : rows[j].prompt # rows[i].prompt
  OBVIOUS
<1> HIDE DEF F
<1>6. IsFiniteSet(F) /\ Cardinality(F) \in Nat /\ Cardinality(F) <= Len(rows)
  BY <1>3, <1>4, FS_Subset, FS_CardinalityType
<1>7. /\ Ordered(F) \in Seq(F) /\ Len(Ordered(F)) = Cardinality(F)
      /\ \A p \in F : \E i \in DOMAIN Ordered(F) : Ordered(F)[i] = p
      /\ \A i, j \in DOMAIN Ordered(F) : i < j => Ordered(F)[i] < Ordered(F)[j]
  BY <1>4, <1>6, OrderedSequence
<1>8. Ordered(F) \in Seq(DOMAIN rows) /\ \A i \in DOMAIN Ordered(F) : Ordered(F)[i] \in F
  BY <1>5, <1>7
<1> QED BY <1>1, <1>5, <1>6, <1>7, <1>8

-----------------------------------------------------------------------------
(***************************************************************************)
(* The invariant holds initially and is preserved by every action.         *)
(***************************************************************************)

\* A configuration's plan, and what the hooks are set up for, have their types.
LEMMA SetupTypes ==
  ASSUME NEW c \in Config, NEW p \in {NoPlan, "none", "first_per_prompt"}
  PROVE  /\ PlanOf(c) \in {NoPlan, "none", "first_per_prompt"}
         /\ CompactCapacity \in Nat /\ ScratchRows <= CompactCapacity /\ Slots <= CompactCapacity
         /\ CompactRows(c, p) \in 0 .. CompactCapacity
         /\ CompactRows(c, p) > 0 => TRUE \in Lanes
         /\ SetupFor(c, p) \in [done : BOOLEAN, full : BOOLEAN, compact : 0 .. CompactCapacity]
         /\ SetupFor(c, p).done
         /\ SetupFor(c, p).compact = CompactRows(c, p)
         /\ ~SetupFor(c, p).full => SetupFor(c, p).compact > 0
<1>1. CompactCapacity \in Nat /\ ScratchRows <= CompactCapacity /\ Slots <= CompactCapacity
  BY RowAssumption DEF CompactCapacity
<1>2. c.lane \in Lanes /\ c.lane \in BOOLEAN /\ c.intervene \in BOOLEAN
  BY ModeAssumption DEF Config
<1>3. CompactRows(c, p) \in 0 .. CompactCapacity /\ (CompactRows(c, p) > 0 => TRUE \in Lanes)
  <2>1. CASE c.lane /\ p = "first_per_prompt"
    <3>1. TRUE \in Lanes
      BY <1>2, <2>1, Zenon
    <3>2. CompactRows(c, p) = IF Slots > 0 THEN Slots ELSE ScratchRows
      BY <2>1 DEF CompactRows
    <3>3. Slots \in 0 .. CompactCapacity /\ ScratchRows \in 0 .. CompactCapacity
      BY <1>1, RowAssumption
    <3> QED BY <3>1, <3>2, <3>3, Zenon
  <2>2. CASE ~(c.lane /\ p = "first_per_prompt")
    <3>1. CompactRows(c, p) = 0
      BY <2>2 DEF CompactRows
    <3> QED BY <1>1, <3>1
  <2> QED BY <2>1, <2>2
<1>4. PlanOf(c) \in {NoPlan, "none", "first_per_prompt"}
  BY DEF PlanOf
<1> DEFINE r == CompactRows(c, p)
           f == r = 0 \/ p # "first_per_prompt" \/ c.intervene
<1>5. f \in BOOLEAN /\ (~f => r # 0)
  OBVIOUS
<1>6. SetupFor(c, p) = [done |-> TRUE, compact |-> r, full |-> f]
  BY DEF SetupFor
<1>7. r \in 0 .. CompactCapacity
  BY <1>3
<1>8. \/ f = TRUE
      \/ f = FALSE /\ r > 0
  BY <1>1, <1>3, <1>5
<1> HIDE DEF r, f
<1>9. /\ SetupFor(c, p) \in [done : BOOLEAN, full : BOOLEAN, compact : 0 .. CompactCapacity]
      /\ SetupFor(c, p).done /\ SetupFor(c, p).compact = r /\ SetupFor(c, p).full = f
  BY <1>5, <1>6, <1>7
<1>10. ~SetupFor(c, p).full => SetupFor(c, p).compact > 0
  BY <1>8, <1>9
<1> QED BY <1>1, <1>3, <1>4, <1>9, <1>10 DEF r

\* The states before a model is loaded satisfy the invariant.
LEMMA InitInv == Init => IInv
<1> SUFFICES ASSUME Init PROVE IInv
  OBVIOUS
<1> USE DEF Init, NoSetup, NoCache
<1>1. plan \in {NoPlan, "none", "first_per_prompt"} /\ CompactCapacity \in Nat
  BY SetupTypes DEF PlanOf
<1>2. /\ ScratchRows \in Nat /\ MaxSteps \in Nat /\ MaxRows \in Nat /\ MaxConfigs \in Nat
  BY RowAssumption, BoundAssumption
<1>3. TypeOK
  <2>1. Unwritten \in Hiddens
    BY <1>2 DEF Unwritten, Hidden, Hiddens
  <2>2. setup \in [done : BOOLEAN, full : BOOLEAN, compact : 0 .. CompactCapacity]
    BY <1>1
  <2>3. \A S, n : n \in Nat => SeqUpTo(<<>>, S, n)
    BY DEF SeqUpTo
  <2>4. /\ SeqUpTo(batch, Request, MaxRows)
        /\ SeqUpTo(meta, [pos : 1 .. MaxRows, prompt : Prompts \cup {NoPrompt}], ScratchRows)
        /\ SeqUpTo(compactIds, DOMAIN meta, setup.compact)
        /\ SeqUpTo(cache.pred, Predictions, ScratchRows)
        /\ SeqUpTo(cache.map, 0 .. ScratchRows, ScratchRows)
        /\ SeqUpTo(guided, Predictions, MaxRows)
        /\ SeqUpTo(delivered, [hidden : Hiddens, pos : 1 .. MaxRows,
                               prompt : Prompts \cup {NoPrompt}], ScratchRows)
    BY <1>2, <2>3
  <2>5. rowIdx \in [1 .. ScratchRows -> 1 .. 2 * MaxRows + 1]
    BY <1>2
  <2>6. tap \in [1 .. ScratchRows -> Hiddens]
    BY <2>1
  <2>7. setup.compact = 0 /\ 1 .. 0 = {}
    OBVIOUS
  <2>8. compactIdx \in [1 .. setup.compact -> 1 .. 2 * MaxRows + 1]
    BY <2>7
  <2>9. compactTap \in [1 .. setup.compact -> Hiddens]
    BY <2>7
  <2>10. /\ cfg \in Config /\ bound \in BOOLEAN /\ ready \in BOOLEAN /\ step \in 0 .. MaxSteps
         /\ phase = "unloaded" /\ publishStep \in -1 .. MaxSteps
         /\ launchedStep \in -1 .. MaxSteps /\ cache.step \in -1 .. MaxSteps
         /\ deliveries \in 0 .. 2 /\ configs \in 0 .. MaxConfigs /\ raised = "nothing"
    <3>1. cfg \in Config /\ bound \in BOOLEAN /\ ready \in BOOLEAN /\ phase = "unloaded"
      BY Zenon
    <3>2. step = 0 /\ publishStep = -1 /\ launchedStep = -1 /\ deliveries = 0 /\ configs = 0
      OBVIOUS
    <3>3. cache.step = -1 /\ raised = "nothing"
      OBVIOUS
    <3> QED BY <1>2, <3>1, <3>2, <3>3
  <2> QED BY <1>1, <2>2, <2>4, <2>5, <2>6, <2>8, <2>9, <2>10 DEF TypeOK
<1>4. LocalInv
  BY <1>2 DEF LocalInv, InStep
<1>5. SetupInv
  BY <1>2 DEF SetupInv
<1>6. TapInv
  BY DEF TapInv
<1>7. CacheInv
  BY DEF CacheInv, InStep
<1> QED BY <1>3, <1>4, <1>5, <1>6, <1>7 DEF IInv

\* Installing the hooks sets the capture up once, with buffers nothing is written to.
LEMMA InstallInv ==
  ASSUME TypeOK, SetupInv, InstallHooks
  PROVE  /\ setup' \in [done : BOOLEAN, full : BOOLEAN, compact : 0 .. CompactCapacity]
         /\ setup'.compact \in Nat
         /\ setup.done \/ ~PlanActive => setup' = setup /\ tap' = tap /\ compactTap' = compactTap
         /\ setup'.done <=> setup.done \/ PlanActive
         /\ ~setup.done => setup.compact = 0
         /\ ~setup'.done => setup' = NoSetup
         /\ setup'.compact > 0 => TRUE \in Lanes
         /\ ~setup'.full => setup'.compact > 0
         /\ MaxConfigs = 0 /\ setup'.done => setup' = SetupFor(cfg, plan)
         /\ tap' \in [1 .. ScratchRows -> Hiddens]
         /\ compactTap' \in [1 .. setup'.compact -> Hiddens]
<1>1. /\ setup \in [done : BOOLEAN, full : BOOLEAN, compact : 0 .. CompactCapacity]
      /\ cfg \in Config /\ plan \in {NoPlan, "none", "first_per_prompt"}
      /\ tap \in [1 .. ScratchRows -> Hiddens]
      /\ compactTap \in [1 .. setup.compact -> Hiddens]
  BY DEF TypeOK
<1>2. Unwritten \in Hiddens
  BY BoundAssumption DEF Unwritten, Hidden, Hiddens
<1>3. ~setup.done => setup = NoSetup
  BY DEF SetupInv
<1> DEFINE s == SetupFor(cfg, plan)
<1>4. /\ CompactCapacity \in Nat
      /\ s \in [done : BOOLEAN, full : BOOLEAN, compact : 0 .. CompactCapacity]
      /\ s.done /\ (~s.full => s.compact > 0) /\ (s.compact > 0 => TRUE \in Lanes)
  BY ZenonT(30), <1>1, SetupTypes
<1>5. CASE PlanActive /\ ~setup.done
  <2>1. /\ setup' = s
        /\ tap' = [i \in 1 .. ScratchRows |-> Unwritten]
        /\ compactTap' = [i \in 1 .. s.compact |-> Unwritten]
    BY <1>5 DEF InstallHooks
  <2> HIDE DEF s
  <2>2. tap' \in [1 .. ScratchRows -> Hiddens] /\ compactTap' \in [1 .. setup'.compact -> Hiddens]
    BY <1>2, <2>1
  <2>3. setup' \in [done : BOOLEAN, full : BOOLEAN, compact : 0 .. CompactCapacity]
        /\ setup'.compact \in Nat
    BY <1>4, <2>1
  <2>4. ~setup.done => setup.compact = 0
    BY <1>3 DEF NoSetup
  <2>5. setup'.done /\ (setup'.done <=> setup.done \/ PlanActive)
    BY <1>4, <1>5, <2>1
  <2> QED BY <1>4, <1>5, <2>1, <2>2, <2>3, <2>4, <2>5 DEF s
<1>6. CASE ~(PlanActive /\ ~setup.done)
  <2>1. setup' = setup /\ tap' = tap /\ compactTap' = compactTap
    BY <1>6 DEF InstallHooks
  <2>2. setup.compact \in Nat
    BY <1>1, <1>4
  <2>3. ~setup.done => setup.compact = 0
    BY <1>3 DEF NoSetup
  <2>4. setup'.done <=> setup.done \/ PlanActive
    BY <1>1, <1>6, <2>1
  <2>5. /\ setup.compact > 0 => TRUE \in Lanes
        /\ ~setup.full => setup.compact > 0
        /\ MaxConfigs = 0 /\ setup.done => setup = SetupFor(cfg, plan)
    BY DEF SetupInv
  <2> QED BY <1>1, <1>3, <2>1, <2>2, <2>3, <2>4, <2>5
<1> QED BY <1>5, <1>6

\* wrapped_load_model.
LEMMA LoadInv == IInv /\ Load => IInv'
<1> SUFFICES ASSUME IInv, Load PROVE IInv'
  OBVIOUS
<1> USE DEF IInv
<1>1. /\ setup' \in [done : BOOLEAN, full : BOOLEAN, compact : 0 .. CompactCapacity]
      /\ setup'.compact \in Nat
      /\ setup.done \/ ~PlanActive => setup' = setup /\ tap' = tap /\ compactTap' = compactTap
      /\ ~setup'.done => setup' = NoSetup
      /\ setup'.compact > 0 => TRUE \in Lanes
      /\ ~setup'.full => setup'.compact > 0
      /\ MaxConfigs = 0 /\ setup'.done => setup' = SetupFor(cfg, plan)
      /\ tap' \in [1 .. ScratchRows -> Hiddens]
      /\ compactTap' \in [1 .. setup'.compact -> Hiddens]
  BY InstallInv DEF Load
<1>2. /\ compactIdx' = [i \in 1 .. setup'.compact |-> 1] /\ phase = "unloaded" /\ phase' = "idle"
      /\ bound' = PlanActive
      /\ UNCHANGED <<configVars, batch, step, rowIdx, meta, compactIds, samplerVars,
                     deliverVars, raised>>
  BY DEF Load
<1>3. meta = <<>> /\ compactIds = <<>>
  <2>1. meta = <<>>
    BY <1>2 DEF LocalInv
  <2>2. SeqUpTo(compactIds, DOMAIN meta, setup.compact)
    BY DEF TypeOK
  <2> QED BY <2>1, <2>2 DEF SeqUpTo
<1>4. TypeOK'
  <2>1. compactIdx' \in [1 .. setup'.compact -> 1 .. 2 * MaxRows + 1]
    BY <1>2, BoundAssumption
  <2>2. SeqUpTo(compactIds', DOMAIN meta', setup'.compact)
    BY <1>1, <1>2, <1>3 DEF SeqUpTo
  <2> QED BY <1>1, <1>2, <2>1, <2>2 DEF TypeOK, configVars, samplerVars, deliverVars, PlanActive
<1>5. LocalInv'
  BY <1>2, <1>3 DEF LocalInv, InStep, configVars
<1>6. SetupInv'
  BY <1>1, <1>2 DEF SetupInv, configVars
<1>7. TapInv'
  BY <1>2, <1>3 DEF TapInv
<1>8. CacheInv'
  BY <1>2, <1>3 DEF CacheInv, InStep, samplerVars, deliverVars
<1> QED BY <1>4, <1>5, <1>6, <1>7, <1>8

\* Overwriting writes the first rows of a buffer and keeps its length.
LEMMA Overwritten ==
  ASSUME NEW T, NEW n \in Nat, NEW buffer \in [1 .. n -> T], NEW rows \in Seq(T)
  PROVE  /\ Overwrite(buffer, rows) \in [1 .. n -> T]
         /\ Len(rows) <= n => \A i \in DOMAIN rows : Overwrite(buffer, rows)[i] = rows[i]
<1>1. DOMAIN buffer = 1 .. n /\ Len(rows) \in Nat /\ DOMAIN rows = 1 .. Len(rows)
  OBVIOUS
<1>2. ASSUME NEW i \in 1 .. n PROVE (IF i \in DOMAIN rows THEN rows[i] ELSE buffer[i]) \in T
  OBVIOUS
<1> QED BY <1>1, <1>2 DEF Overwrite

\* What Localize publishes: the metadata of the batch, the packed row of each decode
\* request in the first rows of the row indices, and the compacted rows.
LEMMA LocalizeInv ==
  ASSUME NEW b \in Batches, TypeOK, SetupInv, LocalInv, InstallHooks, PlanActive, Localize(b)
  PROVE  /\ meta' = MetaOf(b) /\ SeqUpTo(meta', Meta, ScratchRows)
         /\ rowIdx' \in [1 .. ScratchRows -> {1} \cup 1 .. 2 * MaxRows]
         /\ \A i \in DOMAIN meta' : rowIdx'[i] = LocalizedRows(b)[i]
         /\ setup'.compact > 0 => compactIds' = FirstPerPrompt(meta')
         /\ setup'.compact = 0 => compactIds' = <<>>
         /\ SeqUpTo(compactIds', DOMAIN meta', setup'.compact)
         /\ compactIdx' \in [1 .. setup'.compact -> 1 .. 2 * MaxRows + 1]
         /\ \A i \in DOMAIN compactIds' : compactIdx'[i] = rowIdx'[compactIds'[i]]
<1> DEFINE m == MetaOf(b)
           rows == LocalizedRows(b)
           keep == IF setup'.compact > 0 THEN FirstPerPrompt(m) ELSE <<>>
           base == IF setup.done THEN compactIdx ELSE [i \in 1 .. setup'.compact |-> 1]
           Packed == 1 .. 2 * MaxRows
           Index == 1 .. 2 * MaxRows + 1
           Used == {1} \cup Packed
<1>1. /\ Len(DecodePositions(b)) <= ScratchRows /\ Len(keep) <= setup'.compact
      /\ rowIdx' = Overwrite(rowIdx, rows) /\ meta' = m /\ compactIds' = keep
      /\ compactIdx' = Overwrite(base, Pick(rows, keep))
  BY DEF Localize, MetaOf
<1>2. /\ m \in Seq(Meta) /\ Len(m) = Len(DecodePositions(b))
      /\ rows \in Seq(Packed) /\ Len(rows) = Len(m)
  BY Localized
<1>3. /\ ScratchRows \in Nat /\ setup'.compact \in Nat
      /\ Packed \subseteq Index /\ Packed \subseteq Used /\ 1 \in Index
  BY RowAssumption, BoundAssumption, InstallInv
<1>4. FirstPerPrompt(m) \in Seq(DOMAIN m)
  <2> HIDE DEF m
  <2> QED BY <1>2, Compacted
<1>5. keep \in Seq(DOMAIN m)
  <2>1. <<>> \in Seq(DOMAIN m)
    OBVIOUS
  <2> QED BY <1>4, <2>1
<1>6. base \in [1 .. setup'.compact -> Index]
  <2>1. compactIdx \in [1 .. setup.compact -> Index]
    BY DEF TypeOK
  <2>2. setup.done => setup' = setup
    BY InstallInv
  <2>3. CASE setup.done
    BY <2>1, <2>2, <2>3
  <2>4. CASE ~setup.done
    BY <1>3, <2>4
  <2> QED BY <2>3, <2>4
<1>7. rowIdx \in [1 .. ScratchRows -> Used]
  <2>1. \A i \in 1 .. ScratchRows : rowIdx[i] \in Used
    BY DEF LocalInv
  <2>2. rowIdx \in [1 .. ScratchRows -> Index]
    BY DEF TypeOK
  <2> HIDE DEF Used, Index
  <2> QED BY <2>1, <2>2
<1>8. /\ setup'.compact > 0 => keep = FirstPerPrompt(m)
      /\ setup'.compact = 0 => keep = <<>>
  BY <1>3
<1> HIDE DEF m, rows, keep, base, Packed, Index, Used
<1>9. /\ DOMAIN rows = DOMAIN m /\ rows \in Seq(Used)
      /\ \A i \in DOMAIN rows : rows[i] \in Index
  BY <1>2, <1>3, Widened, Elements
<1>10. /\ Overwrite(rowIdx, rows) \in [1 .. ScratchRows -> Used]
       /\ \A i \in DOMAIN rows : Overwrite(rowIdx, rows)[i] = rows[i]
  BY <1>1, <1>2, <1>3, <1>7, <1>9, Overwritten
<1>11. Len(keep) \in Nat /\ DOMAIN keep = 1 .. Len(keep) /\ \A i \in DOMAIN keep : keep[i] \in DOMAIN rows
  BY <1>5, <1>9, Elements
<1>12. /\ Pick(rows, keep) \in Seq(Index) /\ Len(Pick(rows, keep)) = Len(keep)
       /\ DOMAIN Pick(rows, keep) = DOMAIN keep
       /\ \A i \in DOMAIN keep : Pick(rows, keep)[i] = rows[keep[i]]
  <2>1. Pick(rows, keep) = [i \in 1 .. Len(keep) |-> rows[keep[i]]]
    BY <1>11 DEF Pick
  <2>2. Pick(rows, keep) \in [1 .. Len(keep) -> Index]
    BY <1>9, <1>11, <2>1
  <2> QED BY <1>11, <2>1, <2>2, Segment
<1>13. /\ Overwrite(base, Pick(rows, keep)) \in [1 .. setup'.compact -> Index]
       /\ \A i \in DOMAIN Pick(rows, keep) :
            Overwrite(base, Pick(rows, keep))[i] = Pick(rows, keep)[i]
  <2>1. Len(Pick(rows, keep)) <= setup'.compact
    BY <1>1, <1>12
  <2> QED BY SMTT(30), <1>3, <1>6, <1>12, <2>1, Overwritten
<1>14. \A i \in DOMAIN keep : compactIdx'[i] = rowIdx'[keep[i]]
  BY <1>1, <1>10, <1>11, <1>12, <1>13
<1>15. SeqUpTo(meta', Meta, ScratchRows) /\ SeqUpTo(compactIds', DOMAIN meta', setup'.compact)
  BY <1>1, <1>2, <1>5 DEF SeqUpTo
<1>16. /\ rowIdx' \in [1 .. ScratchRows -> Used] /\ compactIdx' \in [1 .. setup'.compact -> Index]
       /\ \A i \in DOMAIN m : rowIdx'[i] = rows[i]
  BY <1>1, <1>9, <1>10, <1>13
<1> QED BY <1>1, <1>8, <1>14, <1>15, <1>16 DEF m, rows, Packed, Index, Used

\* Metadata is of a batch the plan is active for; without metadata nothing is compacted
\* and nothing is predicted.
LEMMA NothingLocalized ==
  ASSUME IInv, meta = <<>>
  PROVE  compactIds = <<>> /\ cache = NoCache
<1>1. SeqUpTo(compactIds, DOMAIN meta, setup.compact)
  BY DEF IInv, TypeOK
<1>2. compactIds = <<>>
  BY <1>1 DEF SeqUpTo
<1>3. cache = NoCache
  BY DEF IInv, CacheInv
<1> QED BY <1>2, <1>3

\* wrapped_prepare_inputs.
LEMMA PrepareInputsInv ==
  ASSUME NEW b \in Batches
  PROVE  IInv /\ PrepareInputs(b) => IInv'
<1> SUFFICES ASSUME IInv, PrepareInputs(b) PROVE IInv'
  OBVIOUS
<1> USE DEF IInv
<1>1. /\ phase = "idle" /\ phase' = "prepared" /\ step < MaxSteps /\ InstallHooks /\ batch' = b
      /\ guided' = <<>> /\ deliveries' = 0
      /\ UNCHANGED <<configVars, bound, launchedStep, delivered, raised>>
  BY DEF PrepareInputs
<1>2. /\ setup' \in [done : BOOLEAN, full : BOOLEAN, compact : 0 .. CompactCapacity]
      /\ setup'.compact \in Nat
      /\ setup.done \/ ~PlanActive => setup' = setup /\ tap' = tap /\ compactTap' = compactTap
      /\ setup'.done <=> setup.done \/ PlanActive
      /\ ~setup'.done => setup' = NoSetup
      /\ setup'.compact > 0 => TRUE \in Lanes
      /\ ~setup'.full => setup'.compact > 0
      /\ MaxConfigs = 0 /\ setup'.done => setup' = SetupFor(cfg, plan)
      /\ tap' \in [1 .. ScratchRows -> Hiddens]
      /\ compactTap' \in [1 .. setup'.compact -> Hiddens]
  BY <1>1, InstallInv
<1>3. /\ b \in Seq(Request) /\ b # <<>> /\ Len(b) <= MaxRows /\ MaxRows \in Nat /\ MaxSteps \in Nat
  BY BatchIsSequence, BoundAssumption
<1>4. /\ step \in 0 .. MaxSteps /\ publishStep \in -1 .. MaxSteps
      /\ launchedStep \in -1 .. MaxSteps /\ launchedStep <= step
  BY DEF TypeOK, CacheInv
<1>5. SetupInv'
  BY <1>1, <1>2 DEF SetupInv, configVars
<1>6. TapInv'
  BY <1>1 DEF TapInv
<1>7. CASE PlanActive
  <2>1. /\ step' = step + 1 /\ Localize(b)
        /\ publishStep' = -1 /\ cache' = NoCache /\ ready' = TRUE
    BY <1>7 DEF PrepareInputs
  <2>2. /\ meta' = MetaOf(b) /\ SeqUpTo(meta', Meta, ScratchRows)
        /\ rowIdx' \in [1 .. ScratchRows -> {1} \cup 1 .. 2 * MaxRows]
        /\ \A i \in DOMAIN meta' : rowIdx'[i] = LocalizedRows(b)[i]
        /\ setup'.compact > 0 => compactIds' = FirstPerPrompt(meta')
        /\ setup'.compact = 0 => compactIds' = <<>>
        /\ SeqUpTo(compactIds', DOMAIN meta', setup'.compact)
        /\ compactIdx' \in [1 .. setup'.compact -> 1 .. 2 * MaxRows + 1]
        /\ \A i \in DOMAIN compactIds' : compactIdx'[i] = rowIdx'[compactIds'[i]]
    BY <1>1, <1>7, <2>1, LocalizeInv
  <2>3. TypeOK'
    <3>1. rowIdx' \in [1 .. ScratchRows -> 1 .. 2 * MaxRows + 1]
      BY <1>3, <2>2
    <3>2. /\ cache'.step \in -1 .. MaxSteps /\ publishStep' \in -1 .. MaxSteps
          /\ SeqUpTo(cache'.pred, Predictions, ScratchRows)
          /\ SeqUpTo(cache'.map, 0 .. ScratchRows, ScratchRows)
          /\ SeqUpTo(guided', Predictions, MaxRows)
      BY <1>1, <1>3, <2>1, RowAssumption DEF NoCache, SeqUpTo
    <3>3. SeqUpTo(batch', Request, MaxRows)
      BY <1>1, <1>3 DEF SeqUpTo
    <3>4. step' \in 0 .. MaxSteps /\ launchedStep' \in -1 .. MaxSteps /\ deliveries' \in 0 .. 2
          /\ ready' \in BOOLEAN
      BY <1>1, <1>3, <1>4, <2>1
    <3> QED BY <1>1, <1>2, <2>2, <3>1, <3>2, <3>3, <3>4 DEF TypeOK, configVars, Meta
  <2>4. LocalInv'
    <3>1. step' > 0 /\ PlanActive' /\ setup'.done
      BY <1>1, <1>2, <1>4, <1>7, <2>1 DEF configVars, PlanActive
    <3>2. \A i \in 1 .. ScratchRows : rowIdx'[i] \in {1} \cup 1 .. 2 * MaxRows
      BY <2>2
    <3> QED BY <1>1, <1>3, <2>2, <3>1, <3>2 DEF LocalInv, InStep
  <2>5. CacheInv'
    BY <1>1, <1>4, <2>1 DEF CacheInv, InStep
  <2> QED BY <1>5, <1>6, <2>3, <2>4, <2>5
<1>8. CASE ~PlanActive
  <2>1. UNCHANGED <<step, rowIdx, meta, compactIdx, compactIds, publishStep, cache, ready>>
    BY <1>8 DEF PrepareInputs
  <2>2. meta = <<>>
    BY <1>8 DEF LocalInv
  <2>3. compactIds = <<>> /\ cache = NoCache
    BY <2>2, NothingLocalized
  <2>4. TypeOK'
    <3>1. SeqUpTo(guided', Predictions, MaxRows) /\ SeqUpTo(batch', Request, MaxRows)
      BY <1>1, <1>3 DEF SeqUpTo
    <3>2. setup' = setup /\ deliveries' \in 0 .. 2 /\ phase' = "prepared"
      BY <1>1, <1>2, <1>8
    <3> QED BY <1>1, <1>2, <2>1, <3>1, <3>2 DEF TypeOK, configVars
  <2>5. LocalInv'
    <3>1. ~PlanActive'
      BY <1>1, <1>8 DEF configVars, PlanActive
    <3> QED BY <1>1, <1>3, <2>1, <2>2, <2>3, <3>1 DEF LocalInv, InStep
  <2>6. CacheInv'
    <3>1. ~PlanActive'
      BY <1>1, <1>8 DEF configVars, PlanActive
    <3> QED BY <1>1, <2>1, <2>3, <3>1 DEF CacheInv, InStep
  <2> QED BY <1>5, <1>6, <2>4, <2>5, <2>6
<1> QED BY <1>7, <1>8

\* The prediction as a function of what it reads.
PredictionFrom(st, banked, backend, hidden, rows) ==
  LET keep      == FirstPerPrompt(rows)
      compacted == /\ banked /\ backend = "post_filter_exact"
                   /\ keep # <<>> /\ Len(keep) < Len(rows)
      chosen    == IF compacted THEN keep ELSE [i \in DOMAIN rows |-> i]
      mapped(i) == {j \in DOMAIN keep : rows[keep[j]].prompt = rows[i].prompt}
  IN  [step |-> st,
       pred |-> [i \in DOMAIN chosen |->
                   [hidden |-> hidden[chosen[i]], prompt |-> rows[chosen[i]].prompt]],
       map  |-> [i \in DOMAIN rows |->
                   IF ~compacted THEN i
                   ELSE IF mapped(i) = {} THEN 0 ELSE CHOOSE j \in mapped(i) : TRUE]]

\* The prediction of a state reads the step, two fields of the configuration, the full
\* buffer and the metadata.
LEMMA PredictionReads ==
  /\ Prediction = PredictionFrom(step, cfg.bank, cfg.backend, tap, meta)
  /\ Prediction' = PredictionFrom(step', cfg'.bank, cfg'.backend, tap', meta')
<1>1. Prediction = PredictionFrom(step, cfg.bank, cfg.backend, tap, meta)
  BY Zenon DEF Prediction, Predicted, PredictionFrom
<1>2. Prediction' = PredictionFrom(step', cfg'.bank, cfg'.backend, tap', meta')
  BY Zenon DEF Prediction, Predicted, PredictionFrom
<1> QED BY <1>1, <1>2

\* A prediction stays what it was while nothing it reads changes.
LEMMA PredictionKept ==
  ASSUME step' = step, cfg'.bank = cfg.bank, cfg'.backend = cfg.backend, tap' = tap, meta' = meta
  PROVE  Prediction' = Prediction
BY PredictionReads

\* The end of the run by an exception changes nothing the invariant is about.
LEMMA RaiseInv ==
  ASSUME NEW what \in {"nothing", "scratch capacity", "tap index", "dense rows", "row map",
                       "row cap", "row metadata"},
         IInv, Raise(what)
  PROVE  IInv'
<1>0. /\ raised' = what
      /\ UNCHANGED <<cfg, plan, configs, setup, bound, batch, step, rowIdx, meta, compactIdx,
                     compactIds, tap, compactTap, publishStep, launchedStep, cache, ready,
                     guided, delivered, deliveries, phase>>
  BY DEF Raise, configVars, setupVars, localVars, tapVars, samplerVars, deliverVars
<1>1. TypeOK'
  <2>1. TypeOK
    BY DEF IInv
  <2>2. raised' \in {"nothing", "scratch capacity", "tap index", "dense rows", "row map",
                     "row cap", "row metadata"}
    BY <1>0
  <2> QED BY <1>0, <2>1, <2>2 DEF TypeOK
<1>2. LocalInv'
  BY <1>0 DEF IInv, LocalInv, InStep, PlanActive
<1>3. SetupInv'
  BY <1>0 DEF IInv, SetupInv
<1>4. TapInv'
  BY <1>0 DEF IInv, TapInv
<1>5. Prediction' = Prediction
  BY <1>0, PredictionKept
<1>6. CacheInv'
  BY <1>0, <1>5 DEF IInv, CacheInv, InStep, PlanActive, ProviderActive
<1> QED BY <1>1, <1>2, <1>3, <1>4, <1>6 DEF IInv

\* What the invariant says of the active rows of the buffers.
LEMMA ActiveRows ==
  ASSUME IInv
  PROVE  /\ Len(meta) \in 0 .. ScratchRows /\ DOMAIN meta = 1 .. Len(meta)
         /\ ScratchRows \in Nat
         /\ meta \in Seq(Meta)
         /\ compactIds \in Seq(DOMAIN meta) /\ Len(compactIds) \in 0 .. setup.compact
         /\ setup.compact \in Nat /\ DOMAIN compactIds = 1 .. Len(compactIds)
         /\ \A i \in DOMAIN compactIds : compactIds[i] \in DOMAIN meta
         /\ DOMAIN meta \subseteq 1 .. ScratchRows /\ DOMAIN compactIds \subseteq 1 .. setup.compact
<1>1. ScratchRows \in Nat /\ CompactCapacity \in Nat
  BY RowAssumption DEF CompactCapacity
<1>2. /\ SeqUpTo(meta, [pos : 1 .. MaxRows, prompt : Prompts \cup {NoPrompt}], ScratchRows)
      /\ SeqUpTo(compactIds, DOMAIN meta, setup.compact)
      /\ setup \in [done : BOOLEAN, full : BOOLEAN, compact : 0 .. CompactCapacity]
  BY DEF IInv, TypeOK
<1>3. setup.compact \in Nat
  BY <1>1, <1>2
<1>4. /\ meta \in Seq(Meta) /\ Len(meta) <= ScratchRows
      /\ compactIds \in Seq(DOMAIN meta) /\ Len(compactIds) <= setup.compact
  BY <1>2 DEF SeqUpTo, Meta
<1>5. /\ Len(meta) \in Nat /\ DOMAIN meta = 1 .. Len(meta)
      /\ Len(compactIds) \in Nat /\ DOMAIN compactIds = 1 .. Len(compactIds)
      /\ \A i \in DOMAIN compactIds : compactIds[i] \in DOMAIN meta
  BY <1>4, Elements
<1> QED BY <1>1, <1>3, <1>4, <1>5

\* The forward gathers the active rows of the step into the buffers that are captured.
LEMMA ForwardInv == IInv /\ Forward => IInv'
<1> SUFFICES ASSUME IInv, Forward PROVE IInv'
  OBVIOUS
<1>1. /\ phase = "prepared" /\ phase' = "forwarded"
      /\ tap' = IF TapsRun /\ setup.full THEN Gathered(rowIdx) ELSE tap
      /\ compactTap' = IF TapsRun /\ ~Replayed
                       THEN Overwrite(compactTap,
                                      Gathered(SubSeq(compactIdx, 1, Len(compactIds))))
                       ELSE compactTap
      /\ UNCHANGED <<cfg, plan, configs, setup, bound, batch, step, rowIdx, meta, compactIdx,
                     compactIds, publishStep, launchedStep, cache, ready, guided, delivered,
                     deliveries, raised>>
  BY DEF Forward, configVars, setupVars, localVars, samplerVars, deliverVars
<1>2. /\ ScratchRows \in Nat /\ setup.compact \in Nat
      /\ compactIds \in Seq(DOMAIN meta) /\ Len(compactIds) \in 0 .. setup.compact
      /\ DOMAIN compactIds = 1 .. Len(compactIds)
      /\ \A i \in DOMAIN compactIds : compactIds[i] \in DOMAIN meta
      /\ DOMAIN meta \subseteq 1 .. ScratchRows /\ DOMAIN compactIds \subseteq 1 .. setup.compact
  BY ActiveRows
<1>3. /\ tap \in [1 .. ScratchRows -> Hiddens] /\ compactTap \in [1 .. setup.compact -> Hiddens]
      /\ rowIdx \in [1 .. ScratchRows -> 1 .. 2 * MaxRows + 1] /\ step \in 0 .. MaxSteps
      /\ compactIdx \in [1 .. setup.compact -> 1 .. 2 * MaxRows + 1]
  BY DEF IInv, TypeOK
<1>4. meta # <<>> => TapsRun
  BY DEF IInv, LocalInv, TapsRun
<1>5. MaxRows \in Nat \ {0}
  <2>1. batch \in Batches
    BY <1>1 DEF IInv, LocalInv, InStep
  <2> QED BY <2>1, BatchIsSequence
<1>6. \A i \in 1 .. ScratchRows : rowIdx[i] \in 1 .. 2 * MaxRows
  <2>1. \A i \in 1 .. ScratchRows : rowIdx[i] \in {1} \cup 1 .. 2 * MaxRows
    BY DEF IInv, LocalInv
  <2>2. 1 \in 1 .. 2 * MaxRows
    BY <1>5
  <2> QED BY <2>1, <2>2
<1>7. \A r \in 1 .. 2 * MaxRows : Hidden(step, r) \in Hiddens
  BY <1>3, <1>5 DEF Hidden, Hiddens
<1>8. /\ Gathered(rowIdx) \in [1 .. ScratchRows -> Hiddens]
      /\ \A i \in 1 .. ScratchRows : Gathered(rowIdx)[i] = Hidden(step, rowIdx[i])
  BY <1>3, <1>6, <1>7 DEF Gathered
<1>9. /\ tap' \in [1 .. ScratchRows -> Hiddens]
      /\ TapsRun /\ setup.full => \A i \in DOMAIN meta : tap'[i] = Hidden(step, rowIdx[i])
  <2>1. CASE TapsRun /\ setup.full
    BY <1>1, <1>2, <1>8, <2>1
  <2>2. CASE ~(TapsRun /\ setup.full)
    BY <1>1, <1>3, <2>2
  <2> QED BY <2>1, <2>2
<1> DEFINE active == SubSeq(compactIdx, 1, Len(compactIds))
<1>10. /\ DOMAIN active = DOMAIN compactIds
       /\ \A i \in DOMAIN compactIds : active[i] = compactIdx[i]
  <2>1. compactIdx \in Seq(1 .. 2 * MaxRows + 1) /\ Len(compactIdx) = setup.compact
    BY <1>2, <1>3, Segment
  <2> QED BY <1>2, <2>1
<1>11. \A i \in DOMAIN compactIds : active[i] \in 1 .. 2 * MaxRows
  <2>1. \A i \in DOMAIN compactIds : compactIdx[i] = rowIdx[compactIds[i]]
    BY DEF IInv, LocalInv
  <2>2. \A i \in DOMAIN compactIds : compactIds[i] \in 1 .. ScratchRows
    BY <1>2
  <2> HIDE DEF active
  <2> QED BY <1>6, <1>10, <2>1, <2>2
<1> HIDE DEF active
<1>12. /\ Gathered(active) \in Seq(Hiddens) /\ Len(Gathered(active)) = Len(compactIds)
       /\ DOMAIN Gathered(active) = DOMAIN compactIds
       /\ \A i \in DOMAIN compactIds : Gathered(active)[i] = Hidden(step, compactIdx[i])
  <2>1. Gathered(active) = [i \in 1 .. Len(compactIds) |-> Hidden(step, active[i])]
    BY <1>2, <1>10 DEF Gathered
  <2>2. \A i \in 1 .. Len(compactIds) : Hidden(step, active[i]) \in Hiddens
    BY <1>2, <1>7, <1>11
  <2>3. Gathered(active) \in [1 .. Len(compactIds) -> Hiddens]
    BY <2>1, <2>2
  <2>4. Len(compactIds) \in Nat
    BY <1>2
  <2>5. Gathered(active) \in Seq(Hiddens) /\ Len(Gathered(active)) = Len(compactIds)
        /\ DOMAIN Gathered(active) = 1 .. Len(compactIds)
    BY <2>3, <2>4, Segment
  <2> QED BY <1>2, <1>10, <2>1, <2>5
<1>13. /\ Overwrite(compactTap, Gathered(active)) \in [1 .. setup.compact -> Hiddens]
       /\ \A i \in DOMAIN Gathered(active) :
            Overwrite(compactTap, Gathered(active))[i] = Gathered(active)[i]
  <2>1. Len(Gathered(active)) <= setup.compact /\ Gathered(active) \in Seq(Hiddens)
    BY <1>2, <1>12
  <2>2. setup.compact \in Nat /\ compactTap \in [1 .. setup.compact -> Hiddens]
    BY <1>2, <1>3
  <2> DEFINE n == setup.compact
             g == Gathered(active)
  <2>3. n \in Nat /\ compactTap \in [1 .. n -> Hiddens] /\ g \in Seq(Hiddens) /\ Len(g) <= n
    BY <2>1, <2>2
  <2> HIDE DEF n, g
  <2>4. /\ Overwrite(compactTap, g) \in [1 .. n -> Hiddens]
        /\ \A i \in DOMAIN g : Overwrite(compactTap, g)[i] = g[i]
    BY <2>3, Overwritten
  <2> QED BY <2>4 DEF n, g
<1>14. compactTap' = IF TapsRun /\ ~Replayed THEN Overwrite(compactTap, Gathered(active))
                     ELSE compactTap
  BY <1>1 DEF active
<1>15. /\ compactTap' \in [1 .. setup.compact -> Hiddens]
       /\ TapsRun /\ ~Replayed =>
            \A i \in DOMAIN compactIds : compactTap'[i] = Hidden(step, compactIdx[i])
  <2>1. CASE TapsRun /\ ~Replayed
    BY <1>12, <1>13, <1>14, <2>1
  <2>2. CASE ~(TapsRun /\ ~Replayed)
    BY <1>3, <1>14, <2>2
  <2> QED BY <2>1, <2>2
<1>16. TypeOK'
  BY ZenonT(30), <1>1, <1>9, <1>15 DEF IInv, TypeOK
<1>17. LocalInv'
  BY <1>1 DEF IInv, LocalInv, InStep, PlanActive
<1>18. SetupInv'
  BY <1>1 DEF IInv, SetupInv
<1>19. TapInv'
  <2>1. setup.full => \A i \in DOMAIN meta : tap'[i] = Hidden(step, rowIdx[i])
    BY <1>2, <1>4, <1>9
  <2>2. ~Replayed => \A i \in DOMAIN compactIds : compactTap'[i] = Hidden(step, compactIdx[i])
    BY <1>2, <1>4, <1>15
  <2> QED BY <1>1, <2>1, <2>2 DEF TapInv
<1>20. CacheInv'
  <2>1. cache = NoCache
    BY <1>1 DEF IInv, CacheInv
  <2> QED BY <1>1, <2>1 DEF IInv, CacheInv, InStep, PlanActive
<1> QED BY <1>16, <1>17, <1>18, <1>19, <1>20 DEF IInv

\* A prediction covers some of the decode rows; its map leads every row to a prediction
\* for the row's own prompt, without the bank to that of the row itself, and without
\* compaction (any backend but the exact one) row by row.
LEMMA PredictionMaps ==
  ASSUME IInv
  PROVE  LET p == Prediction
         IN  /\ p.step = step
             /\ SeqUpTo(p.pred, Predictions, ScratchRows)
             /\ SeqUpTo(p.map, 0 .. ScratchRows, ScratchRows)
             /\ DOMAIN p.map = DOMAIN meta
             /\ \A i \in DOMAIN meta : p.map[i] # 0 =>
                  /\ p.map[i] \in DOMAIN p.pred
                  /\ p.pred[p.map[i]] \in Predictions
                  /\ p.pred[p.map[i]].prompt = meta[i].prompt
                  /\ \E k \in DOMAIN meta :
                       /\ meta[k].prompt = meta[i].prompt
                       /\ p.pred[p.map[i]].hidden = tap[k]
                       /\ ~cfg.bank => k = i
             /\ cfg.backend # "post_filter_exact" =>
                  /\ p.map = [i \in DOMAIN meta |-> i]
                  /\ \A i \in DOMAIN meta :
                       p.pred[i].prompt = meta[i].prompt /\ p.pred[i].hidden = tap[i]
<1> DEFINE p == Prediction
           keep == FirstPerPrompt(meta)
           compacted == /\ cfg.bank /\ cfg.backend = "post_filter_exact"
                        /\ keep # <<>> /\ Len(keep) < Len(meta)
           chosen == IF compacted THEN keep ELSE [i \in DOMAIN meta |-> i]
           mapped(i) == {j \in DOMAIN keep : meta[keep[j]].prompt = meta[i].prompt}
           to(i) == IF ~compacted THEN i
                    ELSE IF mapped(i) = {} THEN 0 ELSE CHOOSE j \in mapped(i) : TRUE
<1>1. /\ p.step = step
      /\ p.pred = [i \in DOMAIN chosen |->
                     [hidden |-> tap[chosen[i]], prompt |-> meta[chosen[i]].prompt]]
      /\ p.map = [i \in DOMAIN meta |-> to(i)]
  BY DEF Prediction, Predicted
<1>2. /\ Len(meta) \in 0 .. ScratchRows /\ DOMAIN meta = 1 .. Len(meta) /\ ScratchRows \in Nat
      /\ meta \in Seq(Meta) /\ DOMAIN meta \subseteq 1 .. ScratchRows
  BY ActiveRows
<1>3. /\ keep \in Seq(DOMAIN meta) /\ Len(keep) <= Len(meta)
      /\ \A i \in DOMAIN keep :
           \A j \in 1 .. keep[i] - 1 : meta[j].prompt # meta[keep[i]].prompt
  BY <1>2, Compacted
<1>4. /\ Len(keep) \in Nat /\ DOMAIN keep = 1 .. Len(keep)
      /\ \A i \in DOMAIN keep : keep[i] \in DOMAIN meta
  BY <1>3, Elements
<1>5. \A i \in DOMAIN meta : to(i) # 0 =>
        to(i) \in DOMAIN chosen /\ meta[chosen[to(i)]].prompt = meta[i].prompt
  <2> SUFFICES ASSUME NEW i \in DOMAIN meta, to(i) # 0
               PROVE  to(i) \in DOMAIN chosen /\ meta[chosen[to(i)]].prompt = meta[i].prompt
    OBVIOUS
  <2>1. CASE ~compacted
    <3>1. chosen = [j \in DOMAIN meta |-> j] /\ to(i) = i
      BY <2>1
    <3> HIDE DEF chosen, to
    <3> QED BY <3>1
  <2>2. CASE compacted
    <3>1. to(i) = IF mapped(i) = {} THEN 0 ELSE CHOOSE j \in mapped(i) : TRUE
      BY <2>2
    <3>2. to(i) \in mapped(i) /\ chosen = keep
      BY <2>2, <3>1
    <3>3. \A j \in mapped(i) : j \in DOMAIN keep /\ meta[keep[j]].prompt = meta[i].prompt
      OBVIOUS
    <3> HIDE DEF to, mapped, keep, chosen
    <3> QED BY <3>2, <3>3
  <2> QED BY <2>1, <2>2
<1>6. DOMAIN chosen = 1 .. Len(keep) \/ DOMAIN chosen = 1 .. Len(meta)
  BY <1>2, <1>4
<1>7. PICK n \in Nat : n <= ScratchRows /\ DOMAIN chosen = 1 .. n
  <2> HIDE DEF chosen, keep
  <2> QED BY <1>2, <1>3, <1>4, <1>6
<1>8. \A j \in DOMAIN chosen : chosen[j] \in DOMAIN meta
  BY <1>4
<1>9. ~cfg.bank \/ cfg.backend # "post_filter_exact" => ~compacted
  OBVIOUS
<1>10. ~compacted => chosen = [i \in DOMAIN meta |-> i] /\ \A i \in DOMAIN meta : to(i) = i
  OBVIOUS
<1>11. \A i \in DOMAIN meta : to(i) \in 0 .. ScratchRows
  <2>1. \A i \in DOMAIN meta : to(i) # 0 => to(i) \in 1 .. ScratchRows
    <3> HIDE DEF to, chosen
    <3> QED BY <1>2, <1>5, <1>7
  <2> HIDE DEF to
  <2> QED BY <1>2, <2>1
<1> HIDE DEF to, chosen, compacted, keep, mapped
<1>12. \A k \in DOMAIN meta : tap[k] \in Hiddens /\ meta[k].prompt \in Prompts \cup {NoPrompt}
  <2>1. tap \in [1 .. ScratchRows -> Hiddens]
    BY DEF IInv, TypeOK
  <2>2. \A k \in DOMAIN meta : meta[k] \in Meta
    BY <1>2, Elements
  <2> QED BY <1>2, <2>1, <2>2 DEF Meta
<1>13. /\ DOMAIN p.pred = 1 .. n
       /\ \A j \in 1 .. n : /\ p.pred[j] \in Predictions
                            /\ p.pred[j].hidden = tap[chosen[j]]
                            /\ p.pred[j].prompt = meta[chosen[j]].prompt
  <2> HIDE DEF p
  <2>1. \A j \in 1 .. n :
          p.pred[j] = [hidden |-> tap[chosen[j]], prompt |-> meta[chosen[j]].prompt]
    BY <1>1, <1>7
  <2>2. \A j \in 1 .. n :
          /\ tap[chosen[j]] \in Hiddens
          /\ meta[chosen[j]].prompt \in Prompts \cup {NoPrompt}
    BY <1>7, <1>8, <1>12
  <2>3. DOMAIN p.pred = 1 .. n
    BY <1>1, <1>7
  <2>4. ASSUME NEW j \in 1 .. n
        PROVE  /\ p.pred[j] \in Predictions
               /\ p.pred[j].hidden = tap[chosen[j]]
               /\ p.pred[j].prompt = meta[chosen[j]].prompt
    <3> DEFINE h == tap[chosen[j]]
               q == meta[chosen[j]].prompt
    <3>1. p.pred[j] = [hidden |-> h, prompt |-> q] /\ h \in Hiddens /\ q \in Prompts \cup {NoPrompt}
      BY <2>1, <2>2
    <3> HIDE DEF h, q
    <3>2. p.pred[j] \in Predictions /\ p.pred[j].hidden = h /\ p.pred[j].prompt = q
      BY <3>1 DEF Predictions
    <3> QED BY <3>2 DEF h, q
  <2> QED BY <2>3, <2>4
<1>14. SeqUpTo(p.pred, Predictions, ScratchRows)
  <2>1. p.pred = [j \in 1 .. n |-> [hidden |-> tap[chosen[j]], prompt |-> meta[chosen[j]].prompt]]
    BY <1>1, <1>7
  <2> HIDE DEF p
  <2>2. p.pred \in [1 .. n -> Predictions]
    BY <1>13, <2>1
  <2>3. p.pred \in Seq(Predictions) /\ Len(p.pred) = n
    BY <1>7, <2>2, Segment
  <2> QED BY <1>7, <2>3 DEF SeqUpTo
<1>15. SeqUpTo(p.map, 0 .. ScratchRows, ScratchRows) /\ DOMAIN p.map = DOMAIN meta
  <2> DEFINE R == 0 .. ScratchRows
             l == Len(meta)
  <2>0. p.map = [i \in DOMAIN meta |-> to(i)] /\ DOMAIN meta = 1 .. l /\ l \in Nat
        /\ l <= ScratchRows /\ \A i \in DOMAIN meta : to(i) \in R
    BY <1>1, <1>2, <1>11
  <2> HIDE DEF p, R, l
  <2>1. p.map \in [1 .. l -> R]
    BY <2>0
  <2>2. p.map \in Seq(R) /\ Len(p.map) = l
    BY <2>0, <2>1, Segment
  <2> QED BY <2>0, <2>2 DEF SeqUpTo, R
<1>16. \A i \in DOMAIN meta : p.map[i] = to(i)
  BY <1>1
<1> HIDE DEF p
<1>17. ASSUME NEW i \in DOMAIN meta, p.map[i] # 0
       PROVE  /\ p.map[i] \in DOMAIN p.pred
              /\ p.pred[p.map[i]] \in Predictions
              /\ p.pred[p.map[i]].prompt = meta[i].prompt
              /\ \E k \in DOMAIN meta :
                   /\ meta[k].prompt = meta[i].prompt
                   /\ p.pred[p.map[i]].hidden = tap[k]
                   /\ ~cfg.bank => k = i
  <2>1. to(i) \in 1 .. n /\ meta[chosen[to(i)]].prompt = meta[i].prompt /\ p.map[i] = to(i)
    BY <1>5, <1>7, <1>16, <1>17
  <2>2. chosen[to(i)] \in DOMAIN meta /\ p.pred[to(i)].hidden = tap[chosen[to(i)]]
    BY <1>7, <1>8, <1>13, <2>1
  <2>3. ~cfg.bank => chosen[to(i)] = i
    BY <1>9, <1>10
  <2>4. \E k \in DOMAIN meta :
          /\ meta[k].prompt = meta[i].prompt
          /\ p.pred[to(i)].hidden = tap[k]
          /\ ~cfg.bank => k = i
    BY <2>1, <2>2, <2>3
  <2> QED BY <1>13, <2>1, <2>4
<1>18. ASSUME cfg.backend # "post_filter_exact"
       PROVE  /\ p.map = [i \in DOMAIN meta |-> i]
              /\ \A i \in DOMAIN meta :
                   p.pred[i].prompt = meta[i].prompt /\ p.pred[i].hidden = tap[i]
  <2>1. chosen = [i \in DOMAIN meta |-> i] /\ \A i \in DOMAIN meta : to(i) = i
    BY <1>9, <1>10, <1>18
  <2>2. p.map = [i \in DOMAIN meta |-> i]
    BY <1>1, <2>1
  <2> QED BY <1>7, <1>13, <2>1, <2>2
<1>19. p.step = step
  BY <1>1
<1> QED BY <1>14, <1>15, <1>17, <1>18, <1>19 DEF p

\* The hook around compute_logits caches the prediction of the step.
LEMMA ComputeLogitsInv == IInv /\ ComputeLogits => IInv'
<1> SUFFICES ASSUME IInv, ComputeLogits PROVE IInv'
  OBVIOUS
<1>1. /\ phase = "forwarded" /\ phase' = "logits"
      /\ UNCHANGED <<cfg, plan, configs, setup, bound, batch, step, rowIdx, meta, compactIdx,
                     compactIds, tap, compactTap, guided, delivered, deliveries, raised>>
  BY DEF ComputeLogits, configVars, setupVars, localVars, tapVars, deliverVars
<1>2. /\ step \in 0 .. MaxSteps /\ MaxSteps \in Nat /\ TypeOK
      /\ launchedStep \in -1 .. MaxSteps /\ publishStep \in -1 .. MaxSteps
      /\ SideStream \in BOOLEAN
  BY BoundAssumption, ModeAssumption DEF IInv, TypeOK
<1>3. LocalInv'
  BY <1>1 DEF IInv, LocalInv, InStep, PlanActive
<1>4. SetupInv'
  BY <1>1 DEF IInv, SetupInv
<1>5. TapInv'
  BY <1>1 DEF IInv, TapInv
<1>6. Prediction' = Prediction
  BY <1>1, PredictionKept
<1>7. cache = NoCache
  BY <1>1 DEF IInv, CacheInv
<1>8. CASE TapsRun /\ ProviderActive /\ ~Launched /\ meta # <<>>
  <2>1. publishStep' = step /\ cache' = Prediction /\ ready' = ~SideStream /\ launchedStep' = step
    BY <1>8 DEF ComputeLogits
  <2>2. TypeOK'
    <3>1. /\ cache'.step = step
          /\ SeqUpTo(cache'.pred, Predictions, ScratchRows)
          /\ SeqUpTo(cache'.map, 0 .. ScratchRows, ScratchRows)
      BY <2>1, PredictionMaps
    <3>2. /\ cache'.step \in -1 .. MaxSteps /\ publishStep' \in -1 .. MaxSteps
          /\ launchedStep' \in -1 .. MaxSteps /\ ready' \in BOOLEAN
      BY <1>2, <2>1, <3>1
    <3> QED BY <1>1, <1>2, <3>1, <3>2 DEF TypeOK
  <2>3. CacheInv'
    <3>1. cache' # NoCache
      <4>1. Prediction.step = step /\ step # -1
        BY <1>2, PredictionMaps
      <4>2. NoCache.step = -1
        BY DEF NoCache
      <4> QED BY <2>1, <4>1, <4>2
    <3>2. meta' # <<>> /\ cache' = Prediction' /\ publishStep' = step' /\ launchedStep' <= step'
      BY <1>1, <1>2, <1>6, <1>8, <2>1
    <3>3. (~SideStream => ready') /\ guided' = <<>> /\ (InStep' => deliveries' = 0)
      BY <1>1, <1>2, <2>1 DEF IInv, CacheInv, InStep
    <3> QED BY <1>1, <3>1, <3>2, <3>3 DEF CacheInv
  <2> QED BY <1>3, <1>4, <1>5, <2>2, <2>3 DEF IInv
<1>9. CASE ~(TapsRun /\ ProviderActive /\ ~Launched /\ meta # <<>>)
  <2>1. UNCHANGED <<publishStep, cache, ready, launchedStep>>
    BY <1>9 DEF ComputeLogits
  <2>2. TypeOK'
    BY <1>1, <1>2, <2>1 DEF TypeOK
  <2>3. ~(PlanActive /\ ProviderActive /\ meta # <<>>)
    <3>1. SUFFICES ASSUME PlanActive, meta # <<>> PROVE TapsRun /\ ~Launched
      BY <1>9
    <3>2. TapsRun
      BY <3>1 DEF IInv, LocalInv, TapsRun
    <3>3. launchedStep < step
      BY <1>1, <3>1 DEF IInv, CacheInv
    <3>4. ~Launched
      BY <1>2, <3>3 DEF Launched
    <3> QED BY <3>2, <3>4
  <2>4. ~(PlanActive' /\ ProviderActive' /\ meta' # <<>>)
    BY <1>1, <2>3 DEF PlanActive, ProviderActive
  <2>5. cache' = NoCache /\ launchedStep' <= step' /\ (~SideStream => ready') /\ guided' = <<>>
        /\ (InStep' => deliveries' = 0)
    BY <1>1, <1>7, <2>1 DEF IInv, CacheInv, InStep
  <2>6. CacheInv'
    BY <1>1, <2>4, <2>5 DEF CacheInv
  <2> QED BY <1>3, <1>4, <1>5, <2>2, <2>6 DEF IInv
<1> QED BY <1>8, <1>9

\* The side stream reaches the prediction.
LEMMA PredictInv == IInv /\ Predict => IInv'
<1> SUFFICES ASSUME IInv, Predict PROVE IInv'
  OBVIOUS
<1>1. /\ ready' = TRUE
      /\ UNCHANGED <<cfg, plan, configs, setup, bound, batch, step, rowIdx, meta, compactIdx,
                     compactIds, tap, compactTap, publishStep, launchedStep, cache, guided,
                     delivered, deliveries, phase, raised>>
  BY DEF Predict, configVars, setupVars, localVars, tapVars, deliverVars
<1>2. TypeOK'
  <2>1. TypeOK
    BY DEF IInv
  <2> QED BY ZenonT(30), <1>1, <2>1 DEF TypeOK
<1>3. LocalInv'
  BY <1>1 DEF IInv, LocalInv, InStep, PlanActive
<1>4. SetupInv'
  BY <1>1 DEF IInv, SetupInv
<1>5. TapInv'
  BY <1>1 DEF IInv, TapInv
<1>6. Prediction' = Prediction
  BY <1>1, PredictionKept
<1>7. CacheInv'
  BY <1>1, <1>6 DEF IInv, CacheInv, InStep, PlanActive, ProviderActive
<1> QED BY <1>2, <1>3, <1>4, <1>5, <1>7 DEF IInv

\* The sampler only writes what it modified the logits with.
LEMMA SampledInv ==
  ASSUME IInv, phase = "logits", phase' = "sampled",
         SeqUpTo(guided', Predictions, MaxRows),
         UNCHANGED <<cfg, plan, configs, setup, bound, batch, step, rowIdx, meta, compactIdx,
                     compactIds, tap, compactTap, publishStep, launchedStep, cache, ready,
                     delivered, deliveries, raised>>
  PROVE  IInv'
<1>1. TypeOK'
  <2>1. TypeOK
    BY DEF IInv
  <2> QED BY <2>1 DEF TypeOK
<1>2. LocalInv'
  BY DEF IInv, LocalInv, InStep, PlanActive
<1>3. SetupInv'
  BY DEF IInv, SetupInv
<1>4. TapInv'
  BY DEF IInv, TapInv
<1>5. Prediction' = Prediction
  BY PredictionKept
<1>6. CacheInv'
  BY <1>5 DEF IInv, CacheInv, InStep, PlanActive, ProviderActive
<1> QED BY <1>1, <1>2, <1>3, <1>4, <1>6 DEF IInv

\* While the logits are computed and sampled, a cache is the prediction of the step.
LEMMA CacheIsPrediction ==
  ASSUME IInv, cache # NoCache
  PROVE  cache = Prediction /\ meta # <<>>
BY DEF IInv, CacheInv

\* A function on the rows of the batch whose values are predictions.
LEMMA GuidedType ==
  ASSUME IInv, phase = "logits", NEW g, g \in [DOMAIN batch -> Predictions]
  PROVE  SeqUpTo(g, Predictions, MaxRows)
<1>1. batch \in Batches
  BY DEF IInv, LocalInv, InStep
<1>2. Len(batch) \in 1 .. MaxRows /\ DOMAIN batch = 1 .. Len(batch) /\ MaxRows \in Nat
  BY <1>1, BatchIsSequence
<1>3. g \in Seq(Predictions) /\ Len(g) = Len(batch)
  BY <1>2, Segment
<1> QED BY <1>2, <1>3 DEF SeqUpTo

\* The fast path of the sampler.
LEMMA SampleFastInv == IInv /\ SampleFast => IInv'
<1> SUFFICES ASSUME IInv, SampleFast PROVE IInv'
  OBVIOUS
<1>1. /\ phase = "logits" /\ phase' = "sampled" /\ FastPath(TRUE)
      /\ Len(meta) \in {1, Len(batch)}
      /\ guided' = [i \in DOMAIN batch |->
                      LET p == PredictionOfRow(IF Len(meta) = 1 THEN 1 ELSE i)
                      IN  IF ready THEN p ELSE [p EXCEPT !.hidden = Unwritten]]
      /\ UNCHANGED <<cfg, plan, configs, setup, bound, batch, step, rowIdx, meta, compactIdx,
                     compactIds, tap, compactTap, publishStep, launchedStep, cache, ready,
                     delivered, deliveries, raised>>
  BY DEF SampleFast, configVars, setupVars, localVars, tapVars, deliverVars
<1>2. cache = Prediction /\ meta # <<>> /\ cfg.backend # "post_filter_exact"
  BY <1>1, CacheIsPrediction DEF FastPath
<1>3. \A i \in DOMAIN meta : PredictionOfRow(i) \in Predictions
  <2>1. \A i \in DOMAIN meta : cache.map[i] = i
    BY <1>2, PredictionMaps
  <2>2. /\ DOMAIN meta = 1 .. Len(meta) /\ Len(meta) \in Nat
    BY ActiveRows
  <2>3. \A i \in DOMAIN meta : cache.map[i] # 0
    BY <2>1, <2>2
  <2>4. \A i \in DOMAIN meta : cache.map[i] # 0 => cache.pred[cache.map[i]] \in Predictions
    BY <1>2, PredictionMaps
  <2> QED BY <2>3, <2>4 DEF PredictionOfRow
<1>4. \A i \in DOMAIN batch : (IF Len(meta) = 1 THEN 1 ELSE i) \in DOMAIN meta
  <2>1. batch \in Batches
    BY <1>1 DEF IInv, LocalInv, InStep
  <2>2. /\ DOMAIN batch = 1 .. Len(batch) /\ DOMAIN meta = 1 .. Len(meta) /\ Len(meta) \in Nat
    BY <2>1, BatchIsSequence, ActiveRows
  <2>3. CASE Len(meta) = 1
    BY <2>2, <2>3
  <2>4. CASE Len(meta) # 1
    <3>1. DOMAIN meta = DOMAIN batch
      BY <1>1, <2>2, <2>4
    <3> QED BY <2>4, <3>1
  <2> QED BY <2>3, <2>4
<1>5. Unwritten \in Hiddens
  BY BoundAssumption DEF Unwritten, Hidden, Hiddens
<1>6. \A q \in Predictions : [q EXCEPT !.hidden = Unwritten] \in Predictions
  BY <1>5 DEF Predictions
<1>7. guided' \in [DOMAIN batch -> Predictions]
  <2> DEFINE row(i) == IF Len(meta) = 1 THEN 1 ELSE i
             value(i) == IF ready THEN PredictionOfRow(row(i))
                         ELSE [PredictionOfRow(row(i)) EXCEPT !.hidden = Unwritten]
  <2>1. \A i \in DOMAIN batch : PredictionOfRow(row(i)) \in Predictions
    <3> HIDE DEF row
    <3>1. \A i \in DOMAIN batch : row(i) \in DOMAIN meta
      BY <1>4 DEF row
    <3> QED BY <1>3, <3>1
  <2>2. \A i \in DOMAIN batch : value(i) \in Predictions
    <3> HIDE DEF row
    <3> QED BY <1>6, <2>1
  <2>3. guided' = [i \in DOMAIN batch |-> value(i)]
    BY <1>1
  <2> HIDE DEF value
  <2> QED BY <2>2, <2>3
<1>8. SeqUpTo(guided', Predictions, MaxRows)
  BY <1>1, <1>7, GuidedType
<1> QED BY <1>1, <1>8, SampledInv

\* The path with a step view.
LEMMA SampleWithViewInv ==
  ASSUME NEW random \in BOOLEAN, IInv, SampleWithView(random)
  PROVE  IInv'
<1>1. /\ phase = "logits" /\ phase' = "sampled" /\ HasView
      /\ \A i \in DOMAIN meta : cache.map[i] # 0
      /\ guided' = [i \in DOMAIN batch |-> PredictionOfRow(i)]
      /\ UNCHANGED <<cfg, plan, configs, setup, bound, batch, step, rowIdx, meta, compactIdx,
                     compactIds, tap, compactTap, publishStep, launchedStep, cache, ready,
                     delivered, deliveries, raised>>
  BY DEF SampleWithView, configVars, setupVars, localVars, tapVars, deliverVars
<1>2. cache = Prediction
  <2>1. step \in 0 .. MaxSteps /\ MaxSteps \in Nat
    BY BoundAssumption DEF IInv, TypeOK
  <2>2. cache.step # NoCache.step
    BY <1>1, <2>1 DEF HasView, NoCache
  <2>3. cache # NoCache
    BY <2>2
  <2> QED BY <2>3, CacheIsPrediction
<1>3. \A i \in DOMAIN meta : PredictionOfRow(i) \in Predictions
  <2>1. \A i \in DOMAIN meta : cache.map[i] # 0 => cache.pred[cache.map[i]] \in Predictions
    BY <1>2, PredictionMaps
  <2> QED BY <1>1, <2>1 DEF PredictionOfRow
<1>4. DOMAIN batch = DOMAIN meta
  <2>1. batch \in Batches /\ Len(batch) = Len(meta)
    BY <1>1 DEF IInv, LocalInv, InStep, HasView
  <2> QED BY <2>1, BatchIsSequence, ActiveRows
<1>5. guided' \in [DOMAIN batch -> Predictions]
  BY <1>1, <1>3, <1>4
<1>6. SeqUpTo(guided', Predictions, MaxRows)
  BY <1>1, <1>5, GuidedType
<1> QED BY <1>1, <1>6, SampledInv

\* Sampling without guidance, and the exceptions of guided sampling.
LEMMA SampleOtherInv ==
  ASSUME NEW random \in BOOLEAN, IInv, SampleVanilla(random) \/ SampleRaises(random)
  PROVE  IInv'
<1>1. CASE SampleVanilla(random)
  <2>1. /\ phase = "logits" /\ phase' = "sampled" /\ guided' = guided
        /\ UNCHANGED <<cfg, plan, configs, setup, bound, batch, step, rowIdx, meta, compactIdx,
                       compactIds, tap, compactTap, publishStep, launchedStep, cache, ready,
                       delivered, deliveries, raised>>
    BY <1>1 DEF SampleVanilla, configVars, setupVars, localVars, tapVars, samplerVars, deliverVars
  <2>2. SeqUpTo(guided', Predictions, MaxRows)
    BY <2>1 DEF IInv, TypeOK
  <2> QED BY <2>1, <2>2, SampledInv
<1>2. CASE SampleRaises(random)
  <2>1. Raise("dense rows") \/ Raise("row map")
    BY <1>2 DEF SampleRaises
  <2> QED BY <2>1, RaiseInv
<1> QED BY <1>1, <1>2

\* The rows of a bundle are rows of the metadata; the lane only serves rows it holds.
LEMMA BundleRows ==
  ASSUME IInv
  PROVE  /\ BundleIds \in Seq(DOMAIN meta) /\ Len(BundleIds) <= Len(meta)
         /\ Len(BundleIds) \in Nat /\ DOMAIN BundleIds = 1 .. Len(BundleIds)
         /\ \A i \in DOMAIN BundleIds :
              /\ BundleIds[i] \in DOMAIN meta
              /\ BundleRow(BundleIds, i).pos = meta[BundleIds[i]].pos
              /\ BundleRow(BundleIds, i).prompt = meta[BundleIds[i]].prompt
              /\ BundleRow(BundleIds, i).hidden =
                   IF FromLane(BundleIds) THEN compactTap[i] ELSE tap[BundleIds[i]]
              /\ BundleRow(BundleIds, i) \in
                   [hidden : Hiddens, pos : 1 .. MaxRows, prompt : Prompts \cup {NoPrompt}]
<1> DEFINE ids == BundleIds
           Row == [hidden : Hiddens, pos : 1 .. MaxRows, prompt : Prompts \cup {NoPrompt}]
<1>1. /\ Len(meta) \in 0 .. ScratchRows /\ DOMAIN meta = 1 .. Len(meta) /\ ScratchRows \in Nat
      /\ meta \in Seq(Meta) /\ DOMAIN meta \subseteq 1 .. ScratchRows /\ setup.compact \in Nat
  BY ActiveRows
<1>2. ids \in Seq(DOMAIN meta) /\ Len(ids) <= Len(meta)
  <2>1. CASE plan = "first_per_prompt"
    <3>1. ids = FirstPerPrompt(meta)
      BY <2>1 DEF BundleIds
    <3> QED BY <1>1, <3>1, Compacted
  <2>2. CASE plan # "first_per_prompt"
    <3>1. ids = [i \in 1 .. Len(meta) |-> i]
      BY <1>1, <2>2 DEF BundleIds
    <3> HIDE DEF ids
    <3>2. ids \in [1 .. Len(meta) -> DOMAIN meta]
      BY <1>1, <3>1
    <3>3. Len(meta) \in Nat
      BY <1>1
    <3>4. ids \in Seq(DOMAIN meta) /\ Len(ids) = Len(meta)
      BY <3>2, <3>3, Segment
    <3> QED BY <3>3, <3>4
  <2> QED BY <2>1, <2>2
<1> HIDE DEF ids
<1>3. /\ Len(ids) \in Nat /\ DOMAIN ids = 1 .. Len(ids)
      /\ \A i \in DOMAIN ids : ids[i] \in DOMAIN meta
  BY <1>2, Elements
<1>4. ASSUME NEW i \in DOMAIN ids
      PROVE  /\ BundleRow(ids, i).pos = meta[ids[i]].pos
             /\ BundleRow(ids, i).prompt = meta[ids[i]].prompt
             /\ BundleRow(ids, i).hidden = IF FromLane(ids) THEN compactTap[i] ELSE tap[ids[i]]
             /\ BundleRow(ids, i) \in Row
  <2> DEFINE h == IF FromLane(ids) THEN compactTap[i] ELSE tap[ids[i]]
             q == meta[ids[i]]
  <2>1. BundleRow(ids, i) = [hidden |-> h, pos |-> q.pos, prompt |-> q.prompt]
    BY DEF BundleRow
  <2>2. q.pos \in 1 .. MaxRows /\ q.prompt \in Prompts \cup {NoPrompt}
    <3>1. q \in Meta
      BY <1>1, <1>3, Elements
    <3> HIDE DEF q
    <3> QED BY <3>1 DEF Meta
  <2>3. h \in Hiddens
    <3>1. tap \in [1 .. ScratchRows -> Hiddens] /\ compactTap \in [1 .. setup.compact -> Hiddens]
      BY DEF IInv, TypeOK
    <3>2. CASE FromLane(ids)
      <4>1. compactTap \in Seq(Hiddens) /\ Len(compactTap) = setup.compact
        BY <1>1, <3>1, Segment
      <4>2. i \in 1 .. setup.compact
        BY <1>1, <1>3, <3>2, <4>1 DEF FromLane
      <4> QED BY <3>1, <3>2, <4>2
    <3>3. CASE ~FromLane(ids)
      <4>1. ids[i] \in 1 .. ScratchRows
        BY <1>1, <1>3
      <4> QED BY <3>1, <3>3, <4>1
    <3> QED BY <3>2, <3>3
  <2> HIDE DEF h, q
  <2>4. /\ BundleRow(ids, i).pos = q.pos /\ BundleRow(ids, i).prompt = q.prompt
        /\ BundleRow(ids, i).hidden = h /\ BundleRow(ids, i) \in Row
    BY <2>1, <2>2, <2>3
  <2> QED BY <2>4 DEF h, q
<1> QED BY <1>2, <1>3, <1>4 DEF ids

\* What a delivery leaves in the model of the consumer.
LEMMA DeliverType ==
  ASSUME IInv, Deliver, deliveries < 2
  PROVE  /\ SeqUpTo(delivered', [hidden : Hiddens, pos : 1 .. MaxRows,
                                 prompt : Prompts \cup {NoPrompt}], ScratchRows)
         /\ deliveries' \in 0 .. 2
<1> DEFINE ids == BundleIds
           Row == [hidden : Hiddens, pos : 1 .. MaxRows, prompt : Prompts \cup {NoPrompt}]
<1>1. deliveries \in 0 .. 2 /\ SeqUpTo(delivered, Row, ScratchRows)
  BY DEF IInv, TypeOK
<1>2. CASE PlanActive /\ ids # <<>> /\ cfg.train
  <2>1. delivered' = [i \in DOMAIN ids |-> BundleRow(ids, i)] /\ deliveries' = deliveries + 1
    BY <1>2 DEF Deliver
  <2>2. /\ Len(ids) \in Nat /\ DOMAIN ids = 1 .. Len(ids) /\ Len(ids) <= Len(meta)
        /\ \A i \in DOMAIN ids : BundleRow(ids, i) \in Row
    BY BundleRows
  <2>3. Len(meta) \in Nat /\ Len(meta) <= ScratchRows /\ ScratchRows \in Nat
    BY ActiveRows
  <2> HIDE DEF ids, Row
  <2>4. delivered' \in [1 .. Len(ids) -> Row]
    BY <2>1, <2>2
  <2>5. delivered' \in Seq(Row) /\ Len(delivered') = Len(ids)
    BY <2>2, <2>4, Segment
  <2>6. SeqUpTo(delivered', Row, ScratchRows)
    BY <2>2, <2>3, <2>5 DEF SeqUpTo
  <2> QED BY <1>1, <2>1, <2>6 DEF Row
<1>3. CASE ~(PlanActive /\ ids # <<>> /\ cfg.train)
  <2>1. delivered' = delivered /\ deliveries' = deliveries
    BY <1>3 DEF Deliver
  <2> QED BY <1>1, <2>1
<1> QED BY <1>2, <1>3

\* The end of a step, with or without one.
LEMMA DeliverInv == IInv /\ (Dispatch \/ ExecuteNothing) => IInv'
<1> SUFFICES ASSUME IInv, Dispatch \/ ExecuteNothing PROVE IInv'
  OBVIOUS
<1>1. /\ phase \in {"idle", "sampled"} /\ phase' = "idle" /\ Deliver
      /\ UNCHANGED <<cfg, plan, configs, setup, bound, batch, step, rowIdx, meta, compactIdx,
                     compactIds, tap, compactTap, publishStep, launchedStep, cache, ready,
                     guided, raised>>
  BY DEF Dispatch, ExecuteNothing, EmptyCall, configVars, setupVars, localVars, tapVars,
         samplerVars
<1>2. deliveries < 2
  <2>1. CASE Dispatch
    BY <2>1 DEF Dispatch, IInv, CacheInv, InStep
  <2>2. CASE ExecuteNothing
    BY <2>2 DEF ExecuteNothing, EmptyCall
  <2> QED BY <2>1, <2>2
<1>3. TypeOK'
  <2>1. /\ SeqUpTo(delivered', [hidden : Hiddens, pos : 1 .. MaxRows,
                                prompt : Prompts \cup {NoPrompt}], ScratchRows)
        /\ deliveries' \in 0 .. 2
    BY <1>1, <1>2, DeliverType
  <2> QED BY <1>1, <2>1 DEF IInv, TypeOK
<1>4. LocalInv'
  BY <1>1 DEF IInv, LocalInv, InStep, PlanActive
<1>5. SetupInv'
  BY <1>1 DEF IInv, SetupInv
<1>6. TapInv'
  BY <1>1 DEF IInv, TapInv
<1>7. Prediction' = Prediction
  BY <1>1, PredictionKept
<1>8. CacheInv'
  BY <1>1, <1>7 DEF IInv, CacheInv, InStep
<1> QED BY <1>3, <1>4, <1>5, <1>6, <1>8 DEF IInv

\* configure_esamp_runtime forgets the step.
LEMMA ReconfigureInv ==
  ASSUME NEW c \in Config, IInv, Reconfigure(c)
  PROVE  IInv'
<1>1. /\ phase = "idle" /\ configs < MaxConfigs /\ cfg' = c /\ plan' = PlanOf(c)
      /\ configs' = configs + 1 /\ meta' = <<>> /\ compactIds' = <<>>
      /\ publishStep' = -1 /\ launchedStep' = -1 /\ cache' = NoCache /\ ready' = TRUE
      /\ UNCHANGED <<setup, bound, batch, step, rowIdx, compactIdx, tap, compactTap, guided,
                     delivered, deliveries, phase, raised>>
  BY DEF Reconfigure, setupVars, tapVars, deliverVars
<1>2. /\ step \in 0 .. MaxSteps /\ configs \in 0 .. MaxConfigs /\ MaxSteps \in Nat
      /\ MaxConfigs \in Nat /\ ScratchRows \in Nat /\ setup.compact \in Nat
      /\ MaxConfigs # 0
  <2>1. step \in 0 .. MaxSteps /\ configs \in 0 .. MaxConfigs
    BY DEF IInv, TypeOK
  <2>2. MaxSteps \in Nat /\ MaxConfigs \in Nat
    BY BoundAssumption
  <2>3. ScratchRows \in Nat /\ setup.compact \in Nat
    BY ActiveRows
  <2> QED BY <1>1, <2>1, <2>2, <2>3
<1>3. TypeOK'
  <2>1. /\ SeqUpTo(meta', [pos : 1 .. MaxRows, prompt : Prompts \cup {NoPrompt}], ScratchRows)
        /\ SeqUpTo(compactIds', DOMAIN meta', setup'.compact)
        /\ SeqUpTo(cache'.pred, Predictions, ScratchRows)
        /\ SeqUpTo(cache'.map, 0 .. ScratchRows, ScratchRows)
    BY <1>1, <1>2 DEF SeqUpTo, NoCache
  <2>2. cache'.step = -1
    BY <1>1 DEF NoCache
  <2>3. /\ publishStep' \in -1 .. MaxSteps /\ launchedStep' \in -1 .. MaxSteps
        /\ cache'.step \in -1 .. MaxSteps /\ configs' \in 0 .. MaxConfigs /\ ready' \in BOOLEAN
    BY <1>1, <1>2, <2>2
  <2>4. plan' \in {NoPlan, "none", "first_per_prompt"} /\ cfg' \in Config
    BY <1>1 DEF PlanOf
  <2> QED BY <1>1, <2>1, <2>3, <2>4 DEF IInv, TypeOK
<1>4. LocalInv'
  BY <1>1 DEF IInv, LocalInv, InStep
<1>5. SetupInv'
  BY <1>1, <1>2 DEF IInv, SetupInv
<1>6. TapInv'
  BY <1>1 DEF TapInv
<1>7. CacheInv'
  BY <1>1, <1>2 DEF IInv, CacheInv, InStep
<1> QED BY <1>3, <1>4, <1>5, <1>6, <1>7 DEF IInv

\* set_esamp_training_enabled leaves the plan and the step alone.
LEMMA SetTrainingInv ==
  ASSUME NEW enabled \in BOOLEAN, IInv, SetTraining(enabled)
  PROVE  IInv'
<1>1. /\ phase = "idle" /\ configs < MaxConfigs /\ cfg' = [cfg EXCEPT !.train = enabled]
      /\ configs' = configs + 1
      /\ UNCHANGED <<plan, setup, bound, batch, step, rowIdx, meta, compactIdx, compactIds, tap,
                     compactTap, publishStep, launchedStep, cache, ready, guided, delivered,
                     deliveries, phase, raised>>
  BY DEF SetTraining, setupVars, localVars, tapVars, samplerVars, deliverVars
<1>2. configs \in 0 .. MaxConfigs /\ MaxConfigs \in Nat /\ MaxConfigs # 0 /\ cfg \in Config
  <2>1. cfg \in Config /\ configs \in 0 .. MaxConfigs
    BY DEF IInv, TypeOK
  <2>2. MaxConfigs \in Nat
    BY BoundAssumption
  <2> QED BY <1>1, <2>1, <2>2
<1>3. cfg' \in Config /\ cfg'.bank = cfg.bank /\ cfg'.backend = cfg.backend
  BY <1>1, <1>2 DEF Config
<1>4. TypeOK'
  <2>1. configs' \in 0 .. MaxConfigs
    BY <1>1, <1>2
  <2> QED BY <1>1, <1>3, <2>1 DEF IInv, TypeOK
<1>5. LocalInv'
  BY <1>1 DEF IInv, LocalInv, InStep, PlanActive
<1>6. SetupInv'
  BY <1>1, <1>2 DEF IInv, SetupInv
<1>7. TapInv'
  BY <1>1 DEF IInv, TapInv
<1>8. Prediction' = Prediction
  BY <1>1, <1>3, PredictionKept
<1>9. CacheInv'
  BY <1>1, <1>8 DEF IInv, CacheInv, InStep
<1> QED BY <1>4, <1>5, <1>6, <1>7, <1>9 DEF IInv

\* A step that changes nothing.
LEMMA StutterInv == IInv /\ UNCHANGED vars => IInv'
<1> SUFFICES ASSUME IInv, UNCHANGED vars PROVE IInv'
  OBVIOUS
<1>1. Raise(raised)
  BY DEF Raise, vars
<1>2. raised \in {"nothing", "scratch capacity", "tap index", "dense rows", "row map",
                  "row cap", "row metadata"}
  BY DEF IInv, TypeOK
<1> QED BY <1>1, <1>2, RaiseInv

\* The invariant is inductive.
LEMMA NextInv == IInv /\ [Next]_vars => IInv'
<1> SUFFICES ASSUME IInv, [Next]_vars PROVE IInv'
  OBVIOUS
<1>1. CASE Load
  BY <1>1, LoadInv
<1>2. ASSUME NEW b \in Batches, PrepareInputs(b) PROVE IInv'
  BY <1>2, PrepareInputsInv
<1>3. ASSUME NEW b \in Batches, PrepareInputsRaises(b) PROVE IInv'
  <2>1. Raise("scratch capacity")
    BY <1>3 DEF PrepareInputsRaises
  <2> QED BY <2>1, RaiseInv
<1>4. CASE Forward
  BY <1>4, ForwardInv
<1>5. CASE ForwardRaises
  <2>1. Raise("tap index")
    BY <1>5 DEF ForwardRaises
  <2> QED BY <2>1, RaiseInv
<1>6. CASE ComputeLogits
  BY <1>6, ComputeLogitsInv
<1>7. CASE Predict
  BY <1>7, PredictInv
<1>8. CASE SampleFast
  BY <1>8, SampleFastInv
<1>9. ASSUME NEW random \in BOOLEAN,
             SampleWithView(random) \/ SampleVanilla(random) \/ SampleRaises(random)
      PROVE  IInv'
  BY <1>9, SampleWithViewInv, SampleOtherInv
<1>10. CASE Dispatch \/ ExecuteNothing
  BY <1>10, DeliverInv
<1>11. CASE DispatchRaises
  <2>1. Raise("row cap") \/ Raise("row metadata")
    BY <1>11 DEF DispatchRaises
  <2> QED BY <2>1, RaiseInv
<1>12. ASSUME NEW c \in Config, Reconfigure(c) PROVE IInv'
  BY <1>12, ReconfigureInv
<1>13. ASSUME NEW enabled \in BOOLEAN, SetTraining(enabled) PROVE IInv'
  BY <1>13, SetTrainingInv
<1>14. CASE UNCHANGED vars
  BY <1>14, StutterInv
<1> QED BY <1>1, <1>2, <1>3, <1>4, <1>5, <1>6, <1>7, <1>8, <1>9, <1>10, <1>11, <1>12,
           <1>13, <1>14 DEF Next

\* The invariant holds in every reachable state.
THEOREM InvHolds == Spec => []IInv
BY InitInv, NextInv, PTL DEF Spec

\* Every variable has its type, and the active rows of a step fit the fixed buffers,
\* whatever the capacities, batches and configurations.
THEOREM TypeCorrect == Spec => []TypeOK
<1>1. IInv => TypeOK
  BY DEF IInv
<1> QED BY <1>1, InvHolds, PTL

-----------------------------------------------------------------------------
(***************************************************************************)
(* What the consumer gets.                                                 *)
(***************************************************************************)

\* After the forward, an active row of the full buffers is the hidden row its metadata
\* names, gathered in this step.
LEMMA FullRows ==
  ASSUME IInv, phase \notin {"unloaded", "prepared"}, setup.full, NEW k \in DOMAIN meta
  PROVE  /\ tap[k] = OwnHidden(meta[k].pos)
         /\ meta[k].pos \in DOMAIN batch /\ batch[meta[k].pos].decode
         /\ meta[k].prompt = batch[meta[k].pos].prompt
<1>1. meta = MetaOf(batch) /\ batch \in Batches /\ rowIdx[k] = LocalizedRows(batch)[k]
  BY DEF IInv, LocalInv
<1>2. tap[k] = Hidden(step, rowIdx[k])
  BY DEF IInv, TapInv
<1>3. LocalizedRows(batch)[k] = LogitsIndices(batch)[meta[k].pos]
  BY <1>1, Localized
<1> QED BY <1>1, <1>2, <1>3, Localized DEF OwnHidden

\* The same for the compact lane of a forward that runs as Python.
LEMMA LaneRows ==
  ASSUME IInv, phase \notin {"unloaded", "prepared"}, ~Replayed, NEW i \in DOMAIN compactIds
  PROVE  /\ compactIds[i] \in DOMAIN meta
         /\ compactTap[i] = OwnHidden(meta[compactIds[i]].pos)
         /\ meta[compactIds[i]].prompt = batch[meta[compactIds[i]].pos].prompt
<1> DEFINE k == compactIds[i]
<1>1. k \in DOMAIN meta
  BY ActiveRows
<1>2. meta = MetaOf(batch) /\ batch \in Batches /\ rowIdx[k] = LocalizedRows(batch)[k]
  BY <1>1 DEF IInv, LocalInv
<1>3. compactTap[i] = Hidden(step, compactIdx[i]) /\ compactIdx[i] = rowIdx[k]
  BY DEF IInv, LocalInv, TapInv
<1>4. /\ LocalizedRows(batch)[k] = LogitsIndices(batch)[meta[k].pos]
      /\ meta[k].prompt = batch[meta[k].pos].prompt
  BY <1>1, <1>2, Localized
<1> QED BY <1>1, <1>2, <1>3, <1>4 DEF OwnHidden

\* The compact lane may be used: its rows are gathered by every forward, and the capture
\* was set up for the configuration in use.
LaneInUse == TRUE \in Lanes => ~Replayed /\ MaxConfigs = 0

\* A bundle serves the rows its metadata names, from whichever buffer holds them.
LEMMA BundleIsCurrent ==
  ASSUME IInv, LaneInUse, phase \in {"idle", "sampled"}, NEW i \in DOMAIN BundleIds
  PROVE  LET r == BundleRow(BundleIds, i)
         IN  r.hidden = OwnHidden(r.pos) /\ r.prompt = batch[r.pos].prompt
<1> DEFINE ids == BundleIds
           k == ids[i]
<1>1. /\ Len(ids) \in Nat /\ DOMAIN ids = 1 .. Len(ids) /\ i \in DOMAIN ids /\ k \in DOMAIN meta
      /\ BundleRow(ids, i).pos = meta[k].pos
      /\ BundleRow(ids, i).prompt = meta[k].prompt
      /\ BundleRow(ids, i).hidden = IF FromLane(ids) THEN compactTap[i] ELSE tap[k]
  BY BundleRows
<1> HIDE DEF ids
<1>2. setup.compact \in Nat /\ Len(compactIds) <= setup.compact /\ meta # <<>>
  BY <1>1, ActiveRows
<1>3. CASE FromLane(ids)
  <2>1. ids = compactIds
    BY <1>3 DEF FromLane
  <2>2. compactIds # <<>>
    BY <1>1, <2>1
  <2>3. setup.compact > 0
    BY <1>2, <2>2 DEF IInv, LocalInv
  <2>4. ~Replayed
    BY <2>3 DEF IInv, SetupInv, LaneInUse
  <2>5. compactTap[i] = OwnHidden(meta[k].pos) /\ meta[k].prompt = batch[meta[k].pos].prompt
    BY <1>1, <2>1, <2>4, LaneRows
  <2> QED BY <1>1, <1>3, <2>5 DEF ids
<1>4. CASE ~FromLane(ids)
  <2>1. setup.full
    <3> SUFFICES ASSUME ~setup.full PROVE FALSE
      OBVIOUS
    <3>1. setup.compact > 0 /\ setup.done /\ TRUE \in Lanes
      <4>1. setup.compact > 0 /\ (setup.compact > 0 => TRUE \in Lanes)
        BY DEF IInv, SetupInv
      <4>2. setup # NoSetup
        BY DEF NoSetup
      <4>3. setup.done
        BY <4>2 DEF IInv, SetupInv
      <4> QED BY <4>1, <4>3
    <3>2. MaxConfigs = 0
      BY <3>1 DEF LaneInUse
    <3>3. setup = SetupFor(cfg, plan)
      BY <3>1, <3>2 DEF IInv, SetupInv
    <3>4. plan = "first_per_prompt"
      BY <3>3 DEF SetupFor
    <3>5. ids = compactIds
      BY <1>2, <3>1, <3>4 DEF IInv, LocalInv, ids, BundleIds
    <3>6. Len(compactTap) = setup.compact
      <4>1. compactTap \in [1 .. setup.compact -> Hiddens]
        BY DEF IInv, TypeOK
      <4> QED BY <1>2, <4>1, Segment
    <3> QED BY <1>2, <1>4, <3>4, <3>5, <3>6 DEF FromLane
  <2>2. tap[k] = OwnHidden(meta[k].pos) /\ meta[k].prompt = batch[meta[k].pos].prompt
    BY <1>1, <2>1, FullRows
  <2> QED BY <1>1, <1>4, <2>2 DEF ids
<1> QED BY <1>3, <1>4

\* A step other than the end of an execute_model call delivers nothing, and leaves what
\* was delivered and the batch it came from alone unless it prepares the next batch.
LEMMA OnlyTheEndDelivers ==
  ASSUME [Next]_vars, ~(Dispatch \/ ExecuteNothing)
  PROVE  deliveries' = 0 \/ UNCHANGED <<delivered, deliveries, batch, step>>
<1> USE DEF localVars, deliverVars
<1>1. CASE Load
  BY <1>1 DEF Load
<1>2. ASSUME NEW b \in Batches, PrepareInputs(b) PROVE deliveries' = 0
  BY <1>2 DEF PrepareInputs
<1>3. ASSUME NEW b \in Batches, PrepareInputsRaises(b)
      PROVE  UNCHANGED <<delivered, deliveries, batch, step>>
  BY <1>3 DEF PrepareInputsRaises, Raise
<1>4. CASE Forward \/ ForwardRaises
  BY <1>4 DEF Forward, ForwardRaises, Raise
<1>5. CASE ComputeLogits \/ Predict \/ SampleFast
  BY <1>5 DEF ComputeLogits, Predict, SampleFast
<1>6. ASSUME NEW random \in BOOLEAN,
             SampleWithView(random) \/ SampleVanilla(random) \/ SampleRaises(random)
      PROVE  UNCHANGED <<delivered, deliveries, batch, step>>
  BY <1>6 DEF SampleWithView, SampleVanilla, SampleRaises, Raise
<1>7. CASE DispatchRaises
  BY <1>7 DEF DispatchRaises, Raise
<1>8. ASSUME NEW c \in Config, Reconfigure(c)
      PROVE  UNCHANGED <<delivered, deliveries, batch, step>>
  BY <1>8 DEF Reconfigure
<1>9. ASSUME NEW enabled \in BOOLEAN, SetTraining(enabled)
      PROVE  UNCHANGED <<delivered, deliveries, batch, step>>
  BY <1>9 DEF SetTraining
<1>10. CASE UNCHANGED vars
  BY <1>10 DEF vars
<1> QED BY <1>1, <1>2, <1>3, <1>4, <1>5, <1>6, <1>7, <1>8, <1>9, <1>10 DEF Next

\* If the compact lane is not chosen, or its forward runs as Python and the configuration
\* is the one the hooks were installed for, every row delivered in a step is the row of the
\* request and the prompt its metadata names, gathered in this step.
THEOREM DeliveredAreCurrent ==
  ASSUME LaneInUse
  PROVE  Spec => []DeliveredRowsAreCurrent
<1>1. Init => DeliveredRowsAreCurrent
  BY DEF Init, DeliveredRowsAreCurrent
<1>2. IInv /\ DeliveredRowsAreCurrent /\ [Next]_vars => DeliveredRowsAreCurrent'
  <2> SUFFICES ASSUME IInv, DeliveredRowsAreCurrent, [Next]_vars
               PROVE  DeliveredRowsAreCurrent'
    OBVIOUS
  <2>1. CASE Dispatch \/ ExecuteNothing
    <3>1. phase \in {"idle", "sampled"} /\ Deliver /\ batch' = batch /\ step' = step
      BY <2>1 DEF Dispatch, ExecuteNothing, EmptyCall, localVars
    <3>2. CASE PlanActive /\ BundleIds # <<>> /\ cfg.train
      <4>1. delivered' = [i \in DOMAIN BundleIds |-> BundleRow(BundleIds, i)]
        BY <3>1, <3>2 DEF Deliver
      <4>2. \A i \in DOMAIN BundleIds :
              LET r == BundleRow(BundleIds, i)
              IN  r.hidden = OwnHidden(r.pos) /\ r.prompt = batch[r.pos].prompt
        BY <3>1, BundleIsCurrent
      <4>3. \A i \in DOMAIN delivered' :
              LET r == delivered'[i]
              IN  r.hidden = OwnHidden(r.pos) /\ r.prompt = batch[r.pos].prompt
        BY <4>1, <4>2
      <4> QED BY <3>1, <4>3 DEF DeliveredRowsAreCurrent, OwnHidden
    <3>3. CASE ~(PlanActive /\ BundleIds # <<>> /\ cfg.train)
      <4>1. delivered' = delivered /\ deliveries' = deliveries
        BY <3>1, <3>3 DEF Deliver
      <4> QED BY <3>1, <4>1 DEF DeliveredRowsAreCurrent, OwnHidden
    <3> QED BY <3>2, <3>3
  <2>2. CASE ~(Dispatch \/ ExecuteNothing)
    <3>1. deliveries' = 0 \/ UNCHANGED <<delivered, deliveries, batch, step>>
      BY <2>2, OnlyTheEndDelivers
    <3> QED BY <3>1 DEF DeliveredRowsAreCurrent, OwnHidden
  <2> QED BY <2>1, <2>2
<1> QED BY <1>1, <1>2, InvHolds, PTL DEF Spec

\* The decode rows a step has to deliver.
Wanted ==
  {i \in DOMAIN batch :
     /\ batch[i].decode
     /\ plan = "first_per_prompt" =>
          /\ batch[i].prompt # NoPrompt
          /\ \A j \in 1 .. i - 1 : batch[j].decode => batch[j].prompt # batch[i].prompt}

\* The rows of the bundle are the wanted ones, in batch order.
LEMMA BundleCovers ==
  ASSUME IInv, phase = "sampled", PlanActive
  PROVE  /\ \A i \in DOMAIN BundleIds : meta[BundleIds[i]].pos \in Wanted
         /\ \A w \in Wanted : \E i \in DOMAIN BundleIds : meta[BundleIds[i]].pos = w
         /\ \A i, j \in DOMAIN BundleIds :
              i < j => meta[BundleIds[i]].pos < meta[BundleIds[j]].pos
<1> DEFINE pos == DecodePositions(batch)
           ids == BundleIds
<1>1. meta = MetaOf(batch) /\ batch \in Batches
  BY DEF IInv, LocalInv, InStep
<1>2. /\ Len(meta) \in Nat /\ DOMAIN meta = 1 .. Len(meta) /\ meta \in Seq(Meta)
      /\ \A i \in DOMAIN ids : ids[i] \in DOMAIN meta
  BY ActiveRows, BundleRows
<1>3. DOMAIN batch = 1 .. Len(batch) /\ Len(batch) \in Nat
  BY <1>1, BatchIsSequence
<1>4. \A k \in DOMAIN meta :
        /\ meta[k].pos = pos[k] /\ meta[k].pos \in DOMAIN batch /\ meta[k].pos \in Nat
        /\ batch[meta[k].pos].decode
        /\ meta[k].prompt = batch[meta[k].pos].prompt
  BY <1>1, <1>3, Localized
<1>5. DOMAIN pos = DOMAIN meta
  <2>1. pos \in Seq(DOMAIN batch) /\ Len(meta) = Len(pos)
    BY <1>1, Localized, Positions
  <2> HIDE DEF pos
  <2>2. DOMAIN pos = 1 .. Len(pos)
    BY <2>1
  <2> QED BY <1>2, <2>1, <2>2
<1>6. /\ \A p \in DOMAIN batch : batch[p].decode => \E k \in DOMAIN meta : meta[k].pos = p
      /\ \A k, l \in DOMAIN meta : k < l => meta[k].pos < meta[l].pos
  <2>1. /\ \A p \in DOMAIN batch : batch[p].decode => \E i \in DOMAIN pos : pos[i] = p
        /\ \A i, j \in DOMAIN pos : i < j => pos[i] < pos[j]
    BY <1>1, Positions
  <2> HIDE DEF pos
  <2> QED BY <1>4, <1>5, <2>1
<1> HIDE DEF pos
<1>7. \A k, l \in DOMAIN meta : meta[k].pos < meta[l].pos => k < l
  <2> SUFFICES ASSUME NEW k \in DOMAIN meta, NEW l \in DOMAIN meta, meta[k].pos < meta[l].pos
               PROVE  k < l
    OBVIOUS
  <2>1. k \in Nat /\ l \in Nat /\ meta[k].pos \in Nat /\ meta[l].pos \in Nat
    BY <1>2, <1>4
  <2>2. ~(l < k) /\ k # l
    BY <1>6, <2>1
  <2> QED BY <2>1, <2>2
<1>8. CASE plan = "first_per_prompt"
  <2>1. /\ ids \in Seq(DOMAIN meta)
        /\ \A i \in DOMAIN ids :
             /\ meta[ids[i]].prompt # NoPrompt
             /\ \A j \in 1 .. ids[i] - 1 : meta[j].prompt # meta[ids[i]].prompt
        /\ \A i, j \in DOMAIN ids : i < j => ids[i] < ids[j]
        /\ \A p \in DOMAIN meta :
             /\ meta[p].prompt # NoPrompt
             /\ \A j \in 1 .. p - 1 : meta[j].prompt # meta[p].prompt
             => \E i \in DOMAIN ids : ids[i] = p
    <3> DEFINE keep == FirstPerPrompt(meta)
    <3>1. ids = keep
      BY <1>8 DEF BundleIds
    <3>2. /\ keep \in Seq(DOMAIN meta)
          /\ \A i \in DOMAIN keep :
               /\ meta[keep[i]].prompt # NoPrompt
               /\ \A j \in 1 .. keep[i] - 1 : meta[j].prompt # meta[keep[i]].prompt
          /\ \A i, j \in DOMAIN keep : i < j => keep[i] < keep[j]
          /\ \A p \in DOMAIN meta :
               /\ meta[p].prompt # NoPrompt
               /\ \A j \in 1 .. p - 1 : meta[j].prompt # meta[p].prompt
               => \E i \in DOMAIN keep : keep[i] = p
      <4>1. \E T : meta \in Seq(T)
        BY <1>2
      <4> QED BY ZenonT(30), <4>1, Compacted
    <3> HIDE DEF keep, ids
    <3> QED BY <3>1, <3>2
  <2> HIDE DEF ids
  <2>2. ASSUME NEW i \in DOMAIN ids PROVE meta[ids[i]].pos \in Wanted
    <3> DEFINE k == ids[i]
               p == meta[k].pos
    <3>1. k \in DOMAIN meta /\ p \in DOMAIN batch /\ batch[p].decode /\ p \in Nat /\ k \in Nat
      BY <1>2, <1>4
    <3>2. batch[p].prompt # NoPrompt
      BY <1>4, <2>1, <3>1
    <3>3. ASSUME NEW j \in 1 .. p - 1, batch[j].decode PROVE batch[j].prompt # batch[p].prompt
      <4>1. j \in DOMAIN batch /\ j \in Nat /\ j < p
        BY <1>3, <3>1
      <4>2. PICK l \in DOMAIN meta : meta[l].pos = j
        BY <1>6, <3>3, <4>1
      <4>3. l < k /\ l \in 1 .. k - 1
        BY <1>2, <1>7, <3>1, <4>1, <4>2
      <4>4. meta[l].prompt # meta[k].prompt
        BY <2>1, <4>3
      <4> QED BY <1>4, <3>1, <4>2, <4>4
    <3> QED BY <3>1, <3>2, <3>3 DEF Wanted
  <2>3. ASSUME NEW w \in Wanted PROVE \E i \in DOMAIN ids : meta[ids[i]].pos = w
    <3>1. /\ w \in DOMAIN batch /\ batch[w].decode /\ batch[w].prompt # NoPrompt
          /\ \A j \in 1 .. w - 1 : batch[j].decode => batch[j].prompt # batch[w].prompt
      BY <1>8 DEF Wanted
    <3>2. PICK k \in DOMAIN meta : meta[k].pos = w
      BY <1>6, <3>1
    <3>3. meta[k].prompt # NoPrompt
      BY <1>4, <3>1, <3>2
    <3>4. ASSUME NEW j \in 1 .. k - 1 PROVE meta[j].prompt # meta[k].prompt
      <4>1. j \in DOMAIN meta /\ j < k
        BY <1>2
      <4>2. meta[j].pos < w /\ meta[j].pos \in DOMAIN batch /\ w \in Nat /\ meta[j].pos \in Nat
        BY <1>4, <1>6, <3>2, <4>1
      <4>3. meta[j].pos \in 1 .. w - 1
        BY <1>3, <4>2
      <4>4. batch[meta[j].pos].prompt # batch[w].prompt
        BY <1>4, <3>1, <4>1, <4>3
      <4> QED BY <1>4, <3>2, <4>1, <4>4
    <3>5. PICK i \in DOMAIN ids : ids[i] = k
      BY <2>1, <3>3, <3>4
    <3> QED BY <3>2, <3>5
  <2>4. \A i, j \in DOMAIN ids : i < j => meta[ids[i]].pos < meta[ids[j]].pos
    BY <1>2, <1>6, <2>1
  <2> QED BY <2>2, <2>3, <2>4 DEF ids
<1>9. CASE plan # "first_per_prompt"
  <2>1. ids = [i \in DOMAIN meta |-> i]
    BY <1>9 DEF BundleIds
  <2>2. \A p : p \in Wanted <=> p \in DOMAIN batch /\ batch[p].decode
    BY <1>9 DEF Wanted
  <2> HIDE DEF ids
  <2>3. DOMAIN ids = DOMAIN meta /\ \A i \in DOMAIN meta : ids[i] = i
    BY <2>1
  <2>4. \A i \in DOMAIN ids : meta[ids[i]].pos \in Wanted
    BY <1>4, <2>2, <2>3
  <2>5. \A w \in Wanted : \E i \in DOMAIN ids : meta[ids[i]].pos = w
    BY <1>6, <2>2, <2>3
  <2>6. \A i, j \in DOMAIN ids : i < j => meta[ids[i]].pos < meta[ids[j]].pos
    BY <1>6, <2>3
  <2> QED BY <2>4, <2>5, <2>6 DEF ids
<1> QED BY <1>8, <1>9

\* While training is on, a step delivers every decode row it has, in batch order: all of
\* them, or for a compacted flow exactly the first of each mapped prompt.
THEOREM AllAreDelivered == Spec => DeliversEveryDecodeRow
<1>1. ASSUME IInv, Dispatch, PlanActive, cfg.train
      PROVE  IF Wanted = {} THEN deliveries' = 0
             ELSE /\ deliveries' = 1
                  /\ {delivered'[i].pos : i \in DOMAIN delivered'} = Wanted
                  /\ \A i, j \in DOMAIN delivered' :
                       i < j => delivered'[i].pos < delivered'[j].pos
  <2>1. phase = "sampled" /\ Deliver /\ deliveries = 0
    BY <1>1 DEF Dispatch, IInv, CacheInv, InStep
  <2>2. /\ \A i \in DOMAIN BundleIds : meta[BundleIds[i]].pos \in Wanted
        /\ \A w \in Wanted : \E i \in DOMAIN BundleIds : meta[BundleIds[i]].pos = w
        /\ \A i, j \in DOMAIN BundleIds :
             i < j => meta[BundleIds[i]].pos < meta[BundleIds[j]].pos
    BY <1>1, <2>1, BundleCovers
  <2>3. /\ DOMAIN BundleIds = 1 .. Len(BundleIds) /\ Len(BundleIds) \in Nat
        /\ BundleIds \in Seq(DOMAIN meta)
        /\ \A i \in DOMAIN BundleIds : BundleRow(BundleIds, i).pos = meta[BundleIds[i]].pos
    BY <1>1, BundleRows
  <2>4. CASE BundleIds = <<>>
    <3>1. Wanted = {}
      BY <2>2, <2>4
    <3>2. deliveries' = 0
      BY <1>1, <2>1, <2>4 DEF Deliver
    <3> QED BY <3>1, <3>2
  <2>5. CASE BundleIds # <<>>
    <3>1. /\ delivered' = [i \in DOMAIN BundleIds |-> BundleRow(BundleIds, i)]
          /\ deliveries' = deliveries + 1
      BY <1>1, <2>1, <2>5 DEF Deliver
    <3>2. /\ DOMAIN delivered' = DOMAIN BundleIds
          /\ \A i \in DOMAIN BundleIds : delivered'[i].pos = meta[BundleIds[i]].pos
      BY <2>3, <3>1
    <3>3. {delivered'[i].pos : i \in DOMAIN delivered'} = Wanted
      <4>1. \A w : w \in {delivered'[i].pos : i \in DOMAIN delivered'} => w \in Wanted
        BY <2>2, <3>2
      <4>2. \A w \in Wanted : w \in {delivered'[i].pos : i \in DOMAIN delivered'}
        BY <2>2, <3>2
      <4> QED BY <4>1, <4>2
    <3>4. 1 \in DOMAIN BundleIds
      BY <2>3, <2>5
    <3>5. Wanted # {} /\ deliveries' = 1
      BY <2>1, <2>2, <3>1, <3>4
    <3>6. \A i, j \in DOMAIN delivered' : i < j => delivered'[i].pos < delivered'[j].pos
      BY <2>2, <3>2
    <3> QED BY <3>3, <3>5, <3>6
  <2> QED BY <2>4, <2>5
<1>2. IInv /\ [Next]_vars =>
        [Dispatch /\ PlanActive /\ cfg.train =>
           LET wanted == {i \in DOMAIN batch :
                            /\ batch[i].decode
                            /\ plan = "first_per_prompt" =>
                                 /\ batch[i].prompt # NoPrompt
                                 /\ \A j \in 1 .. i - 1 :
                                      batch[j].decode => batch[j].prompt # batch[i].prompt}
           IN  IF wanted = {} THEN deliveries' = 0
               ELSE /\ deliveries' = 1
                    /\ {delivered'[i].pos : i \in DOMAIN delivered'} = wanted
                    /\ \A i, j \in DOMAIN delivered' :
                         i < j => delivered'[i].pos < delivered'[j].pos]_vars
  BY <1>1 DEF Wanted
<1> QED BY <1>2, InvHolds, PTL DEF Spec, DeliversEveryDecodeRow

-----------------------------------------------------------------------------
(***************************************************************************)
(* What the sampler is guided by.                                          *)
(***************************************************************************)

\* The step is sampled by one of the three paths; nothing else touches what the logits
\* were modified with until the step ends.
LEMMA OnlySamplingGuides ==
  ASSUME [Next]_vars, phase' = "sampled"
  PROVE  \/ SampleFast
         \/ \E random \in BOOLEAN : SampleWithView(random) \/ SampleVanilla(random)
         \/ phase = "sampled" /\ UNCHANGED <<cfg, plan, setup, bound, batch, step, guided>>
<1> USE DEF configVars, setupVars, localVars, samplerVars
<1>1. CASE Load
  BY <1>1 DEF Load
<1>2. ASSUME NEW b \in Batches, PrepareInputs(b) PROVE FALSE
  BY <1>2 DEF PrepareInputs
<1>3. ASSUME NEW b \in Batches, PrepareInputsRaises(b) PROVE FALSE
  BY <1>3 DEF PrepareInputsRaises, Raise
<1>4. CASE Forward \/ ForwardRaises
  BY <1>4 DEF Forward, ForwardRaises, Raise
<1>5. CASE ComputeLogits
  BY <1>5 DEF ComputeLogits
<1>6. CASE Predict
  BY <1>6 DEF Predict
<1>7. ASSUME NEW random \in BOOLEAN, SampleRaises(random) PROVE FALSE
  BY <1>7 DEF SampleRaises, Raise
<1>8. CASE Dispatch \/ ExecuteNothing
  BY <1>8 DEF Dispatch, ExecuteNothing, EmptyCall
<1>9. CASE DispatchRaises
  BY <1>9 DEF DispatchRaises, Raise
<1>10. ASSUME NEW c \in Config, Reconfigure(c) PROVE FALSE
  BY <1>10 DEF Reconfigure
<1>11. ASSUME NEW enabled \in BOOLEAN, SetTraining(enabled) PROVE FALSE
  BY <1>11 DEF SetTraining
<1>12. CASE UNCHANGED vars
  BY <1>12 DEF vars
<1> QED BY <1>1, <1>2, <1>3, <1>4, <1>5, <1>6, <1>7, <1>8, <1>9, <1>10, <1>11, <1>12 DEF Next

\* In a batch all of whose requests decode, the rows of the metadata are those of the batch.
LEMMA AllDecode ==
  ASSUME IInv, InStep, PlanActive
  PROVE  /\ batch \in Batches /\ DOMAIN batch = 1 .. Len(batch) /\ batch # <<>>
         /\ (\A i \in DOMAIN batch : batch[i].decode) => Len(meta) = Len(batch)
         /\ Len(meta) = Len(batch) =>
              /\ DOMAIN meta = DOMAIN batch
              /\ \A i \in DOMAIN batch : /\ batch[i].decode /\ meta[i].pos = i
                                         /\ meta[i].prompt = batch[i].prompt
<1>1. meta = MetaOf(batch) /\ batch \in Batches
  BY DEF IInv, LocalInv
<1>2. DOMAIN batch = 1 .. Len(batch) /\ DOMAIN meta = 1 .. Len(meta) /\ batch # <<>>
  BY <1>1, BatchIsSequence, ActiveRows
<1>3. Len(meta) = Len(DecodePositions(batch))
  BY <1>1, Localized
<1>4. (\A i \in DOMAIN batch : batch[i].decode) => Len(meta) = Len(batch)
  BY <1>1, <1>3, Positions
<1>5. ASSUME Len(meta) = Len(batch)
      PROVE  /\ DOMAIN meta = DOMAIN batch
             /\ \A i \in DOMAIN batch : /\ batch[i].decode /\ meta[i].pos = i
                                        /\ meta[i].prompt = batch[i].prompt
  <2>1. /\ \A i \in DOMAIN batch : batch[i].decode
        /\ \A i \in DOMAIN batch : DecodePositions(batch)[i] = i
    BY <1>1, <1>3, <1>5, Positions
  <2>2. \A i \in DOMAIN meta : /\ meta[i].pos = DecodePositions(batch)[i]
                               /\ meta[i].prompt = batch[meta[i].pos].prompt
    BY <1>1, Localized
  <2> QED BY <1>2, <1>5, <2>1, <2>2
<1> QED BY <1>1, <1>2, <1>4, <1>5

\* With guidance configured when the model was loaded, a step whose requests all decode is
\* guided as a whole, whatever earlier steps, toggles and reconfigurations left behind.
THEOREM EveryRowIsGuided == Spec => []GuidesEveryDecodeRow
<1>1. Init => GuidesEveryDecodeRow
  BY DEF Init, GuidesEveryDecodeRow
<1>2. IInv /\ GuidesEveryDecodeRow /\ [Next]_vars => GuidesEveryDecodeRow'
  <2> SUFFICES ASSUME IInv, GuidesEveryDecodeRow, [Next]_vars, phase' = "sampled",
                      SamplerGuides', PlanActive', \A i \in DOMAIN batch' : batch'[i].decode
               PROVE  DOMAIN guided' = DOMAIN batch'
    BY DEF GuidesEveryDecodeRow, DecodesOnly
  <2>1. CASE SampleFast
    BY <2>1 DEF SampleFast, localVars
  <2>2. ASSUME NEW random \in BOOLEAN, SampleWithView(random)
        PROVE  DOMAIN guided' = DOMAIN batch'
    BY <2>2 DEF SampleWithView, localVars
  <2>3. ASSUME NEW random \in BOOLEAN, SampleVanilla(random)
        PROVE  FALSE
    <3>1. /\ phase = "logits" /\ ~HasView /\ InStep
          /\ UNCHANGED <<cfg, plan, bound, batch>>
      BY <2>3 DEF SampleVanilla, InStep, configVars, setupVars, localVars
    <3>2. SamplerGuides /\ PlanActive /\ ProviderActive /\ \A i \in DOMAIN batch : batch[i].decode
      BY <3>1 DEF SamplerGuides, PlanActive, ProviderActive
    <3>3. Len(meta) = Len(batch) /\ meta # <<>>
      BY <3>1, <3>2, AllDecode
    <3>4. cache # NoCache
      BY <3>1, <3>2, <3>3 DEF IInv, CacheInv
    <3>5. cache = Prediction /\ publishStep = step /\ Prediction.step = step
      BY <3>4, PredictionMaps DEF IInv, CacheInv
    <3> QED BY <3>1, <3>2, <3>3, <3>5 DEF HasView
  <2>4. CASE phase = "sampled" /\ UNCHANGED <<cfg, plan, setup, bound, batch, step, guided>>
    BY <2>4 DEF GuidesEveryDecodeRow, SamplerGuides, PlanActive, ProviderActive, DecodesOnly
  <2> QED BY <2>1, <2>2, <2>3, <2>4, OnlySamplingGuides
<1> QED BY <1>1, <1>2, InvHolds, PTL DEF Spec

\* A prediction for row i of a whole batch of decode rows is one for its own prompt.
LEMMA OwnPrediction ==
  ASSUME IInv, setup.full, phase = "logits", PlanActive, ProviderActive,
         cache = Prediction, Len(meta) = Len(batch), NEW i \in DOMAIN batch, cache.map[i] # 0
  PROVE  /\ batch[i].decode
         /\ PredictionOfRow(i).prompt = batch[i].prompt
         /\ \E j \in DOMAIN batch :
              /\ batch[j].decode /\ batch[j].prompt = batch[i].prompt
              /\ PredictionOfRow(i).hidden = OwnHidden(j)
              /\ ~cfg.bank => j = i
<1>1. /\ DOMAIN meta = DOMAIN batch /\ batch # <<>>
      /\ \A k \in DOMAIN batch : /\ batch[k].decode /\ meta[k].pos = k
                                 /\ meta[k].prompt = batch[k].prompt
  BY AllDecode DEF InStep
<1>3. \A k \in DOMAIN meta : tap[k] = OwnHidden(k)
  BY <1>1, FullRows
<1>4. /\ cache.pred[cache.map[i]].prompt = meta[i].prompt
      /\ \E k \in DOMAIN meta :
           /\ meta[k].prompt = meta[i].prompt
           /\ cache.pred[cache.map[i]].hidden = tap[k]
           /\ ~cfg.bank => k = i
  BY <1>1, PredictionMaps
<1> QED BY <1>1, <1>3, <1>4 DEF PredictionOfRow

\* Whatever the lane, the stream and the earlier steps, toggles and reconfigurations: while
\* the forward captures the full rows, each row that is guided is guided by its own
\* prompt's prediction of this step; with the dense backend, in a step that only decodes,
\* unless the prediction was read before it was computed.
THEOREM GuidedByOwn == Spec => [](setup.full => GuidedByOwnInTime)
<1>1. Init => (setup.full => GuidedByOwnInTime)
  BY DEF Init, GuidedByOwnInTime, GuidedByOwnPrompt
<1>2. IInv /\ (setup.full => GuidedByOwnInTime) /\ [Next]_vars => (setup.full => GuidedByOwnInTime)'
  <2> SUFFICES ASSUME IInv, setup.full => GuidedByOwnInTime, [Next]_vars, phase' = "sampled",
                      setup'.full,
                      cfg'.backend = "pre_filter_dense" =>
                        /\ \A k \in DOMAIN batch' : batch'[k].decode
                        /\ \A k \in DOMAIN guided' : guided'[k].hidden # Unwritten,
                      NEW i \in DOMAIN guided'
               PROVE  /\ batch'[i].decode
                      /\ guided'[i].prompt = batch'[i].prompt
                      /\ \E j \in DOMAIN batch' :
                           /\ batch'[j].decode /\ batch'[j].prompt = batch'[i].prompt
                           /\ guided'[i].hidden = Hidden(step', LogitsIndices(batch')[j])
                           /\ ~cfg'.bank => j = i
    BY DEF GuidedByOwnInTime, GuidedByOwnPrompt, OwnHidden, DecodesOnly, GuidedInTime, Unwritten
  <2> DEFINE Own(g) == /\ batch[i].decode
                       /\ g.prompt = batch[i].prompt
                       /\ \E j \in DOMAIN batch :
                            /\ batch[j].decode /\ batch[j].prompt = batch[i].prompt
                            /\ g.hidden = OwnHidden(j)
                            /\ ~cfg.bank => j = i
  <2>1. CASE SampleFast
    <3>1. /\ phase = "logits" /\ FastPath(TRUE) /\ Len(meta) \in {1, Len(batch)}
          /\ guided' = [k \in DOMAIN batch |->
                          LET p == PredictionOfRow(IF Len(meta) = 1 THEN 1 ELSE k)
                          IN  IF ready THEN p ELSE [p EXCEPT !.hidden = Unwritten]]
          /\ batch' = batch /\ step' = step /\ cfg' = cfg /\ setup' = setup
      BY <2>1 DEF SampleFast, configVars, setupVars, localVars
    <3>2. /\ cfg.backend = "pre_filter_dense" /\ cache # NoCache /\ ProviderActive
          /\ i \in DOMAIN batch
      BY <3>1 DEF FastPath, SamplerGuides
    <3>3. cache = Prediction /\ meta # <<>>
      BY <3>2, CacheIsPrediction
    <3>4. PlanActive /\ InStep
      BY <3>1, <3>3 DEF IInv, LocalInv, InStep
    <3>5. (\A k \in DOMAIN batch : batch[k].decode) /\ guided'[i].hidden # Unwritten
      BY <3>1, <3>2
    <3>6. Len(meta) = Len(batch)
      BY <3>4, <3>5, AllDecode
    <3>7. Len(meta) = 1 => i = 1
      BY <3>2, <3>4, <3>6, AllDecode
    <3>8. guided'[i] = IF ready THEN PredictionOfRow(i)
                       ELSE [PredictionOfRow(i) EXCEPT !.hidden = Unwritten]
      BY <3>1, <3>2, <3>7
    <3>9. cache.map[i] # 0
      <4>1. i \in DOMAIN meta /\ DOMAIN meta = 1 .. Len(meta) /\ Len(meta) \in Nat
        BY <3>2, <3>4, <3>6, AllDecode, ActiveRows
      <4>2. cache.map[i] = i
        BY <3>2, <3>3, <4>1, PredictionMaps
      <4> QED BY <4>1, <4>2
    <3>10. guided'[i] = PredictionOfRow(i)
      <4>1. i \in DOMAIN meta
        BY <3>2, <3>4, <3>6, AllDecode
      <4>2. PredictionOfRow(i) \in Predictions
        BY <3>3, <3>9, <4>1, PredictionMaps DEF PredictionOfRow
      <4>3. [PredictionOfRow(i) EXCEPT !.hidden = Unwritten].hidden = Unwritten
        BY <4>2 DEF Predictions
      <4> QED BY <3>5, <3>8, <4>3
    <3>11. Own(PredictionOfRow(i))
      BY <3>1, <3>2, <3>3, <3>4, <3>6, <3>9, OwnPrediction
    <3> QED BY <3>1, <3>10, <3>11 DEF OwnHidden
  <2>2. ASSUME NEW random \in BOOLEAN, SampleWithView(random)
        PROVE  Own(guided'[i]) /\ batch' = batch /\ step' = step /\ cfg' = cfg
    <3>1. /\ phase = "logits" /\ HasView
          /\ \A k \in DOMAIN meta : cache.map[k] # 0
          /\ guided' = [k \in DOMAIN batch |-> PredictionOfRow(k)]
          /\ batch' = batch /\ step' = step /\ cfg' = cfg /\ setup' = setup
      BY <2>2 DEF SampleWithView, configVars, setupVars, localVars
    <3>2. /\ i \in DOMAIN batch /\ guided'[i] = PredictionOfRow(i) /\ ProviderActive
          /\ Len(meta) = Len(batch) /\ meta # <<>>
      BY <3>1 DEF HasView, SamplerGuides
    <3>3. cache = Prediction
      <4>1. step \in 0 .. MaxSteps /\ MaxSteps \in Nat
        BY BoundAssumption DEF IInv, TypeOK
      <4>2. cache.step # NoCache.step
        BY <3>1, <4>1 DEF HasView, NoCache
      <4>3. cache # NoCache
        BY <4>2
      <4> QED BY <4>3, CacheIsPrediction
    <3>4. PlanActive /\ InStep
      BY <3>1, <3>2 DEF IInv, LocalInv, InStep
    <3>5. cache.map[i] # 0
      BY <3>1, <3>2, <3>4, AllDecode
    <3>6. Own(PredictionOfRow(i))
      BY <3>1, <3>2, <3>3, <3>4, <3>5, OwnPrediction
    <3> QED BY <3>1, <3>2, <3>6
  <2>3. ASSUME NEW random \in BOOLEAN, SampleVanilla(random)
        PROVE  FALSE
    <3>1. phase = "logits" /\ guided' = guided
      BY <2>3 DEF SampleVanilla, samplerVars
    <3>2. guided = <<>>
      BY <3>1 DEF IInv, CacheInv
    <3> QED BY <3>1, <3>2
  <2>4. CASE phase = "sampled" /\ UNCHANGED <<cfg, plan, setup, bound, batch, step, guided>>
    <3>1. Own(guided[i])
      BY <2>4 DEF GuidedByOwnInTime, GuidedByOwnPrompt, DecodesOnly, GuidedInTime
    <3> QED BY <2>4, <3>1 DEF OwnHidden
  <2>5. ASSUME NEW random \in BOOLEAN, SampleWithView(random)
        PROVE  /\ batch'[i].decode
               /\ guided'[i].prompt = batch'[i].prompt
               /\ \E j \in DOMAIN batch' :
                    /\ batch'[j].decode /\ batch'[j].prompt = batch'[i].prompt
                    /\ guided'[i].hidden = Hidden(step', LogitsIndices(batch')[j])
                    /\ ~cfg'.bank => j = i
    BY <2>2, <2>5 DEF OwnHidden
  <2> QED BY <2>1, <2>3, <2>4, <2>5, OnlySamplingGuides
<1> QED BY <1>1, <1>2, InvHolds, PTL DEF Spec

\* The exact backend needs no further hypothesis: it waits for the prediction, and guides
\* no step whose decode rows are not its whole batch.
THEOREM ExactGuidedByOwn ==
  Spec => [](setup.full /\ cfg.backend = "post_filter_exact" => GuidedByOwnPrompt)
<1>1. (setup.full => GuidedByOwnInTime)
        => (setup.full /\ cfg.backend = "post_filter_exact" => GuidedByOwnPrompt)
  BY DEF GuidedByOwnInTime
<1> QED BY <1>1, GuidedByOwn, PTL
=============================================================================
