------------------------- MODULE SamplerBridgeProofs -------------------------
(****************************************************************************)
(* The min-p values that tLLM keeps beside vLLM's input batch stay with     *)
(* their requests as long as condense does not move the request, and every  *)
(* way of sampling a step gives each row the temperature, the generator and *)
(* the filter of its own request: for every number of rows, requests,       *)
(* values and setups.  In the setups GuidesOwn names, each row that has a   *)
(* distiller is also guided once, by the prediction of its own prompt,      *)
(* which a binary search finds among the predictions of the step.           *)
(****************************************************************************)
EXTENDS SamplerBridge, OrderedSetsProofs

BatchTypes ==
  /\ setup \in Setups
  /\ rows \in [Indices -> Requests \cup {NoRequest}]
  /\ minP \in [Indices -> MinPs \cup {Garbage}]

BatchInv == BatchTypes /\ UnmovedKeepMinP

\* What a request asks for is one of the values.
LEMMA AskedIsMinP ==
  ASSUME NEW s \in Setups, NEW r \in Requests
  PROVE  s.params[r].minp \in MinPs
BY SetupAssumption DEF Params

\* A new request takes a free row, and its value is written beside it.
LEMMA AddKeeps ==
  ASSUME BatchInv, NEW r \in Requests, NEW i \in Indices, AddRequest(r, i)
  PROVE  BatchInv'
<1> USE DEF BatchInv, BatchTypes
<1>1. /\ setup' = setup /\ rows' = [rows EXCEPT ![i] = r]
      /\ minP' = [minP EXCEPT ![i] = setup.params[r].minp]
      /\ moved' = moved \ {r}
      /\ \A j \in Indices : rows[j] # r
  BY DEF AddRequest, WriteMinP
<1>2. setup.params[r].minp \in MinPs
  BY AskedIsMinP
<1>3. BatchTypes'
  BY <1>1, <1>2
<1>4. ASSUME NEW j \in Used'
      PROVE  /\ \A k \in Used' : rows'[j] = rows'[k] => j = k
             /\ rows'[j] \notin moved' => minP'[j] = Of(j)'.minp
  <2>1. j \in Indices
    BY DEF Used
  <2>2. CASE j = i
    BY <1>1, <2>1, <2>2 DEF Used, Of
  <2>3. CASE j # i
    <3>1. j \in Used /\ rows'[j] = rows[j] /\ minP'[j] = minP[j] /\ rows[j] # r
      BY <1>1, <2>1, <2>3 DEF Used
    <3>2. \A k \in Used' : rows'[j] = rows'[k] => j = k
      BY <1>1, <3>1 DEF Used, UnmovedKeepMinP
    <3>3. rows'[j] \notin moved' => minP'[j] = Of(j)'.minp
      BY <1>1, <3>1 DEF UnmovedKeepMinP, Of
    <3> QED BY <3>2, <3>3
  <2> QED BY <2>2, <2>3
<1> QED BY <1>3, <1>4 DEF UnmovedKeepMinP

\* A freed row is no longer used; the others are as they were.
LEMMA RemoveKeeps ==
  ASSUME BatchInv, NEW i \in Indices, RemoveRequest(i)
  PROVE  BatchInv'
<1> USE DEF BatchInv, BatchTypes
<1>1. /\ setup' = setup /\ rows' = [rows EXCEPT ![i] = NoRequest]
      /\ minP' = minP /\ moved' = moved \ {rows[i]} /\ i \in Used
  BY DEF RemoveRequest
<1>2. \A j \in Used' : j \in Used /\ j # i /\ rows'[j] = rows[j] /\ rows[j] # rows[i]
  BY <1>1 DEF Used, UnmovedKeepMinP
<1>3. UnmovedKeepMinP'
  BY <1>1, <1>2 DEF UnmovedKeepMinP, Of
<1> QED BY <1>1, <1>3

\* Each mover gets a row of its own; a request that has not moved keeps row and value.
LEMMA CondenseKeeps ==
  ASSUME BatchInv, NEW from \in [Holes -> Movers], Condense(from)
  PROVE  BatchInv'
<1> USE DEF BatchInv, BatchTypes
<1>1. /\ setup' = setup /\ minP' = minP
      /\ rows' = [i \in Indices |-> IF i \in Holes THEN rows[from[i]]
                                    ELSE IF i \in Movers THEN NoRequest ELSE rows[i]]
      /\ moved' = moved \cup {rows[i] : i \in Movers}
      /\ \A i, j \in Holes : from[i] = from[j] => i = j
  BY DEF Condense
<1>2. Movers \subseteq Used /\ Used \subseteq Indices
  BY DEF Movers, Used
<1>3. BatchTypes'
  BY <1>1, <1>2
<1>4. ASSUME NEW j \in Used'
      PROVE  \/ j \in Holes /\ rows'[j] = rows[from[j]] /\ rows'[j] \in moved'
             \/ /\ j \notin Holes /\ j \in Used \ Movers /\ rows'[j] = rows[j]
  BY <1>1, <1>2 DEF Used
<1>5. ASSUME NEW j \in Used', NEW k \in Used', rows'[j] = rows'[k]
      PROVE  j = k
  <2>1. \A l, m \in Used : rows[l] = rows[m] => l = m
    BY DEF UnmovedKeepMinP
  <2>2. \A l \in Holes : from[l] \in Movers
    OBVIOUS
  <2>3. CASE j \in Holes /\ k \in Holes
    BY <1>1, <1>2, <1>4, <1>5, <2>1, <2>2, <2>3
  <2>4. CASE j \in Holes /\ k \notin Holes
    <3>1. k \in Used \ Movers /\ rows[from[j]] = rows[k]
      BY <1>4, <1>5, <2>4
    <3> QED BY <1>2, <2>1, <2>2, <2>4, <3>1
  <2>5. CASE j \notin Holes /\ k \in Holes
    <3>1. j \in Used \ Movers /\ rows[from[k]] = rows[j]
      BY <1>4, <1>5, <2>5
    <3> QED BY <1>2, <2>1, <2>2, <2>5, <3>1
  <2>6. CASE j \notin Holes /\ k \notin Holes
    BY <1>4, <1>5, <2>1, <2>6
  <2> QED BY <2>3, <2>4, <2>5, <2>6
<1>6. ASSUME NEW j \in Used', rows'[j] \notin moved'
      PROVE  minP'[j] = Of(j)'.minp
  <2>1. j \in Used /\ rows'[j] = rows[j]
    BY <1>4, <1>6
  <2>2. rows[j] \notin moved
    BY <1>1, <1>6, <2>1
  <2> QED BY <1>1, <2>1, <2>2 DEF UnmovedKeepMinP, Of
<1> QED BY <1>3, <1>5, <1>6 DEF UnmovedKeepMinP

\* Two requests exchange their rows and their values.
LEMMA SwapKeeps ==
  ASSUME BatchInv, NEW i \in Indices, NEW j \in Indices, SwapStates(i, j)
  PROVE  BatchInv'
<1> USE DEF BatchInv, BatchTypes
<1>1. /\ setup' = setup /\ moved' = moved /\ i \in Used /\ j \in Used /\ i # j
      /\ rows' = [rows EXCEPT ![i] = rows[j], ![j] = rows[i]]
      /\ minP' = [minP EXCEPT ![i] = minP[j], ![j] = minP[i]]
  BY DEF SwapStates, SwapMinP, Indices
<1> DEFINE other(k) == IF k = i THEN j ELSE IF k = j THEN i ELSE k
<1>2. \A k \in Indices : rows'[k] = rows[other(k)] /\ minP'[k] = minP[other(k)]
  BY <1>1
<1>3. \A k \in Used' : k \in Indices /\ other(k) \in Used
  BY <1>1, <1>2 DEF Used
<1>4. UnmovedKeepMinP'
  BY <1>1, <1>2, <1>3 DEF UnmovedKeepMinP, Of
<1> QED BY <1>1, <1>4

\* Sampling reads the batch only.
LEMMA SampleKeeps ==
  ASSUME BatchInv,
         \/ SampleRaises \/ SampleUnguided \/ SampleFullDense \/ SampleFullExact
         \/ SampleParts
  PROVE  BatchInv'
<1>1. UNCHANGED <<setup, rows, minP, moved>>
  BY DEF SampleRaises, SampleUnguided, SampleFullDense, SampleFullExact, SampleParts,
         Finish, batchVars
<1> QED BY <1>1 DEF BatchInv, BatchTypes, UnmovedKeepMinP, Used, Of

-----------------------------------------------------------------------------
(***************************************************************************)
(* The batch is a prefix of the rows when it is sampled.                   *)
(***************************************************************************)
Contiguous == phase \in {"condensed", "ordered", "sampled"} => Used = 1 .. Count

\* The number of rows in use.
LEMMA Counted ==
  /\ Indices \in SUBSET Nat /\ Used \in SUBSET Indices /\ IsFiniteSet(Used)
  /\ Count \in Nat /\ Count <= MaxRows
<1>1. IsFiniteSet(Indices) /\ Cardinality(Indices) = MaxRows
  BY RowAssumption, FS_Interval DEF Indices
<1>2. Used \in SUBSET Indices
  BY DEF Used
<1>3. IsFiniteSet(Used) /\ Cardinality(Used) <= Cardinality(Indices)
  BY <1>1, <1>2, FS_Subset
<1> QED BY <1>1, <1>2, <1>3, FS_CardinalityType DEF Count, Indices

\* condense fills every hole below the number of requests and frees every row above it.
LEMMA CondensedIsPrefix ==
  ASSUME BatchInv, NEW from \in [Holes -> Movers], Condense(from)
  PROVE  Used' = 1 .. Count'
<1>1. rows' = [i \in Indices |-> IF i \in Holes THEN rows[from[i]]
                                ELSE IF i \in Movers THEN NoRequest ELSE rows[i]]
  BY DEF Condense
<1>2. 1 .. Count \in SUBSET Indices
  BY Counted, RowAssumption DEF Indices
<1>3. \A i \in Indices : i \in Used' <=> i \in 1 .. Count
  <2> SUFFICES ASSUME NEW i \in Indices PROVE rows'[i] # NoRequest <=> i \in 1 .. Count
    BY DEF Used
  <2>1. i \in Nat /\ i >= 1 /\ Count \in Nat
    BY Counted, RowAssumption DEF Indices
  <2>2. CASE i \in Holes
    <3>1. from[i] \in Used
      BY <2>2 DEF Movers
    <3> QED BY <1>1, <2>2, <3>1 DEF Used, Holes
  <2>3. CASE i \in Movers
    <3>1. i \notin Holes /\ i > Count
      BY <2>3 DEF Holes, Movers
    <3> QED BY <1>1, <2>1, <2>3, <3>1
  <2>4. CASE i \notin Holes /\ i \notin Movers
    <3>1. i \in Used <=> i \in 1 .. Count
      BY <2>1, <2>4 DEF Holes, Movers
    <3> QED BY <1>1, <2>4, <3>1 DEF Used
  <2> QED BY <2>2, <2>3, <2>4
<1>4. Used' = 1 .. Count
  BY <1>2, <1>3 DEF Used
<1> QED BY <1>4, Counted, SegmentSize DEF Count

\* A swap exchanges two rows in use.
LEMMA SwapKeepsUsed ==
  ASSUME BatchInv, NEW i \in Indices, NEW j \in Indices, SwapStates(i, j)
  PROVE  Used' = Used
<1>1. /\ rows \in [Indices -> Requests \cup {NoRequest}] /\ i \in Used /\ j \in Used
      /\ rows' = [rows EXCEPT ![i] = rows[j], ![j] = rows[i]]
  BY DEF BatchInv, BatchTypes, SwapStates
<1>2. \A k \in Indices : rows'[k] # NoRequest <=> rows[k] # NoRequest
  BY <1>1 DEF Used
<1> QED BY <1>2 DEF Used

-----------------------------------------------------------------------------
(***************************************************************************)
(* The rows of a step and the affected ones.                               *)
(***************************************************************************)

\* Every row of a batch that is sampled holds a request.
LEMMA RowsHoldRequests ==
  ASSUME BatchTypes, Used = 1 .. Count, NEW i \in All
  PROVE  /\ i \in Nat /\ i \in Used /\ i \in Indices /\ rows[i] \in Requests
         /\ Of(i) \in Params
<1>1. i \in Used /\ i \in Indices /\ i \in Nat
  BY Counted DEF All
<1>2. rows[i] \in Requests
  BY <1>1 DEF Used, BatchTypes
<1> QED BY <1>1, <1>2, SetupAssumption DEF Of, BatchTypes

\* prompt by prompt and row by row is a total order of the rows with a trainer.
LEMMA PromptOrder ==
  ASSUME BatchTypes, Used = 1 .. Count
  PROVE  /\ TrainedRows \in Seq(Trained)
         /\ Trained \in SUBSET All
<1> DEFINE R == {ji \in Trained \X Trained : Before(ji[1], ji[2])}
<1>1. /\ Trained \in SUBSET All /\ IsFiniteSet(Trained)
      /\ \A i \in Trained : i \in Nat /\ Of(i).prompt \in Nat
  <2>1. Trained \in SUBSET All
    BY DEF Trained
  <2>2. IsFiniteSet(All)
    BY Counted, SegmentSize DEF All
  <2>3. \A i \in All : i \in Nat /\ Of(i).prompt \in Nat
    BY RowsHoldRequests DEF Params, Prompts
  <2> QED BY <2>1, <2>2, <2>3, FS_Subset
<1>2. \A j, i \in Trained : <<j, i>> \in R <=> Before(j, i)
  OBVIOUS
<1>3. Orders(R, Trained)
  <2> HIDE DEF R
  <2>1. \A j, i \in Trained : <<j, i>> \in R \/ <<i, j>> \in R
    <3> SUFFICES ASSUME NEW j \in Trained, NEW i \in Trained
                 PROVE  Before(j, i) \/ Before(i, j)
      BY <1>2
    <3> QED BY <1>1 DEF Before
  <2>2. \A j, i \in Trained : <<j, i>> \in R /\ <<i, j>> \in R => j = i
    <3> SUFFICES ASSUME NEW j \in Trained, NEW i \in Trained,
                        Before(j, i), Before(i, j)
                 PROVE  j = i
      BY <1>2
    <3> QED BY <1>1 DEF Before
  <2>3. \A j, i, k \in Trained : <<j, i>> \in R /\ <<i, k>> \in R => <<j, k>> \in R
    <3> SUFFICES ASSUME NEW j \in Trained, NEW i \in Trained, NEW k \in Trained,
                        Before(j, i), Before(i, k)
                 PROVE  Before(j, k)
      BY <1>2
    <3> QED BY <1>1 DEF Before
  <2> QED BY <2>1, <2>2, <2>3 DEF Orders
<1> DEFINE A(k) == CHOOSE i \in Trained : Cardinality({j \in Trained : Before(j, i)}) = k
           B(k) == CHOOSE i \in Trained : Cardinality(UpTo(Trained, R, i)) = k
           n == Cardinality(Trained)
<1>4. TrainedRows = Ranked(Trained, R)
  <2>1. ASSUME NEW k PROVE A(k) = B(k)
    <3>1. \A i \in Trained : {j \in Trained : Before(j, i)} = UpTo(Trained, R, i)
      BY <1>2 DEF UpTo
    <3>2. \A i : (i \in Trained /\ Cardinality({j \in Trained : Before(j, i)}) = k)
                   <=> (i \in Trained /\ Cardinality(UpTo(Trained, R, i)) = k)
      BY <3>1
    <3> QED BY <3>2
  <2>2. TrainedRows = [k \in 1 .. n |-> A(k)]
    BY DEF TrainedRows
  <2>3. Ranked(Trained, R) = [k \in 1 .. n |-> B(k)]
    BY DEF Ranked
  <2> HIDE DEF A, B, n
  <2> QED BY <2>1, <2>2, <2>3
<1> HIDE DEF R, A, B, n
<1>5. n \in Nat /\ Ranked(Trained, R) \in [1 .. n -> Trained]
  BY <1>1, <1>3, RanksList DEF n
<1> QED BY <1>1, <1>4, <1>5, Segment

\* Every row is affected, or those that have a trainer.
LEMMA AffectedRows ==
  ASSUME BatchTypes, Used = 1 .. Count
  PROVE  State.affected \in Seq(All) /\ Affected \in SUBSET All
<1>1. All \in SUBSET Nat /\ IsFiniteSet(All)
  BY Counted, SegmentSize DEF All
<1>2. Ordered(All) \in Seq(All)
  BY <1>1, OrderedSequence
<1>3. TrainedRows \in Seq(All)
  BY PromptOrder, Widened
<1>4. State.affected = Ordered(All) \/ State.affected = TrainedRows
  BY DEF State, PredictedRows
<1>5. State.affected \in Seq(All)
  BY <1>2, <1>3, <1>4
<1> QED BY <1>5, Elements DEF Affected

-----------------------------------------------------------------------------
(***************************************************************************)
(* What is shown of a step's outcome, as relations between a configuration *)
(* s, rows rs, the requests mv that have moved and an outcome o.           *)
(***************************************************************************)
RowsIn(rs) == 1 .. Cardinality({i \in Indices : rs[i] # NoRequest})

AffectedIn(s, rs) ==
  LET all           == RowsIn(rs)
      of(i)         == s.params[rs[i]]
      first(i)      == Lowest({j \in all : of(j).prompt = of(i).prompt})
      firsts        == Ordered({i \in all : first(i) = i})
      compacted     == /\ s.mode = "bank" /\ s.backend # "pre_filter_dense"
                       /\ Len(firsts) < Cardinality({i \in Indices : rs[i] # NoRequest})
      trained       == {i \in all : of(i).prompt \in s.trainers}
      before(j, i)  == \/ of(j).prompt < of(i).prompt
                       \/ of(j).prompt = of(i).prompt /\ j <= i
      predicted     == IF s.mode = "per_request"
                       THEN [k \in 1 .. Cardinality(trained) |->
                               CHOOSE i \in trained :
                                 Cardinality({j \in trained : before(j, i)}) = k]
                       ELSE IF compacted THEN firsts ELSE Ordered(all)
      affected      == IF compacted THEN Ordered(all) ELSE predicted
  IN  {affected[k] : k \in DOMAIN affected}

AskedIn(s, rs, o) ==
  \A i \in RowsIn(rs) :
    /\ o[i].greedy = s.params[rs[i]].greedy
    /\ ~s.params[rs[i]].greedy =>
         o[i].generator = IF s.params[rs[i]].seeded THEN rs[i] ELSE NoRequest

FilteredIn(s, rs, mv, o) ==
  \A i \in RowsIn(rs) :
    /\ rs[i] \notin mv
    /\ IF s.active THEN s.backend # "pre_filter_dense" /\ i \in AffectedIn(s, rs)
       ELSE ~s.params[rs[i]].greedy
    => o[i].minp = s.params[rs[i]].minp

\* The affected rows are those.
LEMMA AffectedReads ==
  /\ Affected = AffectedIn(setup, rows)
  /\ Affected' = AffectedIn(setup', rows')
<1> DEFINE aff == IF Compacted THEN Ordered(All) ELSE PredictedRows
<1>1. State.affected = aff
  BY DEF State
<1>2. State'.affected = aff'
  BY DEF State
<1>3. Affected = {aff[k] : k \in DOMAIN aff} /\ Affected' = {aff'[k] : k \in DOMAIN aff'}
  <2> HIDE DEF aff
  <2> QED BY <1>1, <1>2 DEF Affected
<1> QED
  BY Zenon, <1>3 DEF AffectedIn, RowsIn, Compacted, PredictedRows, All, Count, Used, Firsts,
     FirstOfPrompt, TrainedRows, Trained, Before, Of

\* The properties state these relations of the state.
LEMMA PropertiesRead ==
  /\ SampledAsAsked <=>
       (phase = "sampled" /\ raised = "nothing" => AskedIn(setup, rows, outcome))
  /\ SampledAsAsked' <=>
       (phase' = "sampled" /\ raised' = "nothing" => AskedIn(setup', rows', outcome'))
  /\ FilteredByOwnMinP <=>
       (phase = "sampled" /\ raised = "nothing" => FilteredIn(setup, rows, moved, outcome))
  /\ FilteredByOwnMinP' <=>
       (phase' = "sampled" /\ raised' = "nothing" =>
          FilteredIn(setup', rows', moved', outcome'))
<1>1. /\ SampledAsAsked <=>
           (phase = "sampled" /\ raised = "nothing" => AskedIn(setup, rows, outcome))
      /\ SampledAsAsked' <=>
           (phase' = "sampled" /\ raised' = "nothing" => AskedIn(setup', rows', outcome'))
  BY Zenon DEF SampledAsAsked, AskedIn, RowsIn, All, Count, Used, Of, OwnGenerator
<1>2. FilteredByOwnMinP <=>
        (phase = "sampled" /\ raised = "nothing" => FilteredIn(setup, rows, moved, outcome))
  BY Zenon, AffectedReads
     DEF FilteredByOwnMinP, FilteredIn, RowsIn, All, Count, Used, Of, IsDense
<1>3. FilteredByOwnMinP' <=>
        (phase' = "sampled" /\ raised' = "nothing" =>
           FilteredIn(setup', rows', moved', outcome'))
  BY Zenon, AffectedReads
     DEF FilteredByOwnMinP, FilteredIn, RowsIn, All, Count, Used, Of, IsDense
<1> QED BY <1>1, <1>2, <1>3

-----------------------------------------------------------------------------
(***************************************************************************)
(* Each way of sampling a step.                                            *)
(***************************************************************************)

\* A row of the outcome is as its request asks: its temperature and generator, and its
\* filter where one is applied.
AskedRow(i, e) ==
  /\ e.greedy = Of(i).greedy
  /\ ~Of(i).greedy => e.generator = OwnGenerator(i)

FilteredRow(i, e) ==
  /\ rows[i] \notin moved
  /\ IF setup.active THEN ~IsDense /\ i \in Affected ELSE ~Of(i).greedy
  => e.minp = Of(i).minp

\* An outcome that is kept establishes both properties.
LEMMA OutcomeKept ==
  ASSUME NEW o, Finish(o), \A i \in All : AskedRow(i, o[i]) /\ FilteredRow(i, o[i])
  PROVE  SampledAsAsked' /\ FilteredByOwnMinP'
<1>1. /\ setup' = setup /\ rows' = rows /\ moved' = moved
      /\ outcome' = o \/ raised' = "index out of range"
  BY DEF Finish, batchVars
<1>2. AskedIn(setup, rows, o)
  <2>1. \A i \in All : AskedRow(i, o[i])
    OBVIOUS
  <2> QED BY Zenon, <2>1 DEF AskedRow, AskedIn, RowsIn, All, Count, Used, Of, OwnGenerator
<1>3. FilteredIn(setup, rows, moved, o)
  <2>1. \A i \in All : FilteredRow(i, o[i])
    OBVIOUS
  <2> QED
    BY Zenon, <2>1, AffectedReads
       DEF FilteredRow, FilteredIn, RowsIn, All, Count, Used, Of, IsDense
<1> QED BY <1>1, <1>2, <1>3, PropertiesRead

\* What filters an unmoved row is what its request asked for, also when nobody asks.
LEMMA FilterIsOwn ==
  ASSUME BatchInv, Used = 1 .. Count, NEW i \in All, rows[i] \notin moved
  PROVE  Filter(i) = Of(i).minp
<1>1. i \in Used /\ Of(i).minp \in Nat
  BY RowsHoldRequests, MinPAssumption DEF Params, BatchInv
<1>2. minP[i] = Of(i).minp
  BY <1>1 DEF BatchInv, UnmovedKeepMinP
<1> QED BY <1>1, <1>2 DEF Filter, HasMinP

\* In a batch of one temperature every row has it.
LEMMA OneTemperature ==
  ASSUME BatchTypes, Used = 1 .. Count, AllGreedy \/ AllRandom, NEW i \in All
  PROVE  AllGreedy = Of(i).greedy
<1>1. Of(i).greedy \in BOOLEAN
  BY RowsHoldRequests DEF Params
<1>2. CASE AllGreedy
  BY Zenon, <1>1, <1>2 DEF AllGreedy, Greedy
<1>3. CASE AllRandom
  <2>1. Of(i).greedy = FALSE
    BY Zenon, <1>1, <1>3 DEF AllRandom, Greedy
  <2>2. ~AllGreedy
    BY Zenon, <1>3 DEF AllGreedy, AllRandom
  <2>3. AllGreedy \in BOOLEAN
    BY DEF AllGreedy
  <2> QED BY Zenon, <2>1, <2>2, <2>3
<1> QED BY <1>2, <1>3

\* Without guidance each row is sampled by its own parameters.
LEMMA UnguidedOutcome ==
  ASSUME BatchInv, Used = 1 .. Count, SampleUnguided
  PROVE  SampledAsAsked' /\ FilteredByOwnMinP'
<1> DEFINE e(i) == Sampled(<<>>, IF setup.active \/ Of(i).greedy THEN 0 ELSE Filter(i),
                           IF Of(i).greedy THEN NoRequest ELSE OwnGenerator(i),
                           Of(i).greedy)
           o == [i \in All |-> e(i)]
<1>1. Finish(o) /\ ~Guiding
  BY DEF SampleUnguided
<1>2. setup.active => Affected = {}
  BY <1>1 DEF Guiding, Affected
<1>3. ASSUME NEW i \in All PROVE AskedRow(i, e(i)) /\ FilteredRow(i, e(i))
  <2>1. AskedRow(i, e(i))
    BY DEF AskedRow, Sampled
  <2>2. FilteredRow(i, e(i))
    BY <1>2, FilterIsOwn DEF FilteredRow, Sampled
  <2> QED BY <2>1, <2>2
<1>4. \A i \in All : o[i] = e(i)
  OBVIOUS
<1> HIDE DEF e, o
<1> QED BY <1>1, <1>3, <1>4, OutcomeKept

\* The dense section samples a batch of one temperature row by row, and filters nothing.
LEMMA FullDenseOutcome ==
  ASSUME BatchInv, Used = 1 .. Count, SampleFullDense
  PROVE  SampledAsAsked' /\ FilteredByOwnMinP'
<1> DEFINE e(i) == Sampled(<<State.pred[i]>>, 0,
                           IF AllGreedy THEN NoRequest ELSE OwnGenerator(i), AllGreedy)
           o == [i \in All |-> e(i)]
<1>1. Finish(o) /\ setup.active /\ IsDense /\ (AllGreedy \/ AllRandom)
  BY DEF SampleFullDense, Guiding
<1>2. ASSUME NEW i \in All PROVE AskedRow(i, e(i)) /\ FilteredRow(i, e(i))
  <2>1. AllGreedy = Of(i).greedy
    BY <1>1, OneTemperature DEF BatchInv
  <2>2. AskedRow(i, e(i))
    BY <2>1 DEF AskedRow, Sampled
  <2>3. FilteredRow(i, e(i))
    BY <1>1 DEF FilteredRow
  <2> QED BY <2>2, <2>3
<1>3. \A i \in All : o[i] = e(i)
  OBVIOUS
<1> HIDE DEF e, o
<1> QED BY <1>1, <1>2, <1>3, OutcomeKept

\* The exact section numbers the generators by the rows of the whole batch; candidates are
\* taken only when no row has a generator.
LEMMA FullExactOutcome ==
  ASSUME BatchInv, Used = 1 .. Count, SampleFullExact
  PROVE  SampledAsAsked' /\ FilteredByOwnMinP'
<1> DEFINE guides == ExactGuides(State.affected, TRUE)
           gens == GeneratorsOf(Ordered(All))
           e(i) == Sampled(<<guides[i]>>, Filter(i),
                           IF AllGreedy \/ TakesCandidates THEN NoRequest ELSE gens[i],
                           AllGreedy)
           o == [i \in All |-> e(i)]
<1>1. Finish(o) /\ setup.active /\ ~IsDense /\ (AllGreedy \/ AllRandom)
  BY DEF SampleFullExact, Guiding
<1>2. ASSUME NEW i \in All PROVE gens[i] = OwnGenerator(i)
  <2>1. All = 1 .. Count /\ Count \in Nat
    BY Counted DEF All
  <2>2. Ordered(All)[i] = i /\ DOMAIN Ordered(All) = All
    BY <2>1, OrderedInterval DEF Ordered
  <2> QED BY <2>2 DEF GeneratorsOf
<1>3. ASSUME NEW i \in All, TakesCandidates PROVE OwnGenerator(i) = NoRequest
  BY <1>3 DEF TakesCandidates, HasGenerators, OwnGenerator
<1> HIDE DEF guides, gens
<1>4. ASSUME NEW i \in All PROVE AskedRow(i, e(i)) /\ FilteredRow(i, e(i))
  <2>1. AllGreedy = Of(i).greedy
    BY <1>1, OneTemperature DEF BatchInv
  <2>2. AskedRow(i, e(i))
    BY <1>2, <1>3, <2>1 DEF AskedRow, Sampled
  <2>3. FilteredRow(i, e(i))
    BY FilterIsOwn DEF FilteredRow, Sampled
  <2> QED BY <2>2, <2>3
<1>5. \A i \in All : o[i] = e(i)
  OBVIOUS
<1> HIDE DEF e, o
<1> QED BY <1>1, <1>4, <1>5, OutcomeKept

\* An affected row has a place in the part of its temperature.
LEMMA PlacedInPart ==
  ASSUME BatchInv, Used = 1 .. Count, NEW i \in Affected, NEW ids, ids = Part(Of(i).greedy),
         NEW k, k = CHOOSE m \in DOMAIN ids : ids[m] = i
  PROVE  k \in DOMAIN ids /\ ids[k] = i
<1>1. State.affected \in Seq(All) /\ Affected \in SUBSET All
  BY AffectedRows DEF BatchInv
<1>2. \E m \in DOMAIN ids : ids[m] = i
  <2>1. CASE AllGreedy \/ AllRandom
    BY <2>1 DEF Part, Affected
  <2>2. CASE ~(AllGreedy \/ AllRandom)
    <3> DEFINE P == {j \in Affected : Of(j).greedy = Of(i).greedy}
    <3>1. ids = Ordered(P) /\ i \in P
      BY <2>2 DEF Part
    <3>2. All \in SUBSET Nat /\ IsFiniteSet(All)
      BY Counted, SegmentSize DEF All
    <3>3. P \in SUBSET All
      BY <1>1
    <3> HIDE DEF P
    <3>4. P \in SUBSET Nat /\ IsFiniteSet(P)
      BY <3>2, <3>3, FS_Subset
    <3> QED BY <3>1, <3>4, OrderedSequence
  <2> QED BY <2>1, <2>2
<1> QED BY <1>2

\* A part selects the parameters of its rows, and the other rows are sampled by their own.
LEMMA PartsOutcome ==
  ASSUME BatchInv, Used = 1 .. Count, SampleParts
  PROVE  SampledAsAsked' /\ FilteredByOwnMinP'
<1> DEFINE part(i) == Part(Of(i).greedy)
           place(i) == CHOOSE k \in DOMAIN part(i) : part(i)[k] = i
           e(i) == IF i \notin Affected THEN SampledVanilla(i)
                   ELSE SampledInPart(part(i), place(i), Of(i).greedy)
           o == [i \in All |-> e(i)]
<1>1. Finish(o) /\ setup.active
  BY DEF SampleParts, Guiding
<1>2. ASSUME NEW i \in All PROVE AskedRow(i, e(i)) /\ FilteredRow(i, e(i))
  <2>1. CASE i \notin Affected
    <3>1. e(i) = SampledVanilla(i)
      BY <2>1
    <3> QED BY <1>1, <2>1, <3>1 DEF AskedRow, FilteredRow, SampledVanilla, Sampled
  <2>2. CASE i \in Affected
    <3>1. place(i) \in DOMAIN part(i) /\ part(i)[place(i)] = i
      BY <2>2, PlacedInPart
    <3>2. e(i) = SampledInPart(part(i), place(i), Of(i).greedy)
      BY <2>2
    <3> HIDE DEF part, place, e
    <3>3. /\ e(i).greedy = Of(i).greedy
          /\ ~Of(i).greedy => e(i).generator = GeneratorsOf(part(i))[place(i)]
          /\ ~IsDense => e(i).minp = FiltersOf(part(i))[place(i)]
      BY <3>2 DEF SampledInPart, Sampled
    <3>4. /\ GeneratorsOf(part(i))[place(i)] = OwnGenerator(i)
          /\ FiltersOf(part(i))[place(i)] = Filter(i)
      BY <3>1 DEF GeneratorsOf, FiltersOf
    <3>5. AskedRow(i, e(i))
      BY <3>3, <3>4 DEF AskedRow
    <3>6. FilteredRow(i, e(i))
      BY <1>1, <3>3, <3>4, FilterIsOwn DEF FilteredRow
    <3> QED BY <3>5, <3>6
  <2> QED BY <2>1, <2>2
<1>3. \A i \in All : o[i] = e(i)
  OBVIOUS
<1> HIDE DEF e, o
<1> QED BY <1>1, <1>2, <1>3, OutcomeKept

-----------------------------------------------------------------------------
(***************************************************************************)
(* The binary search finds the place of a row among the affected rows.  A  *)
(* recursive function is what satisfies its equation, so the search comes  *)
(* with the proof that something does: by the length of the span.          *)
(***************************************************************************)
Spans(s) == (0 .. Len(s)) \X (0 .. Len(s))

\* One step of LowerBound's search, by the function f for the shorter span.
Half(s, v, f, span) ==
  LET lo  == span[1]
      hi  == span[2]
      mid == lo + ((hi - lo) \div 2)
  IN  IF lo >= hi THEN lo
      ELSE IF s[mid + 1] >= v THEN f[<<lo, mid>>] ELSE f[<<mid + 1, hi>>]

Searches(s, v, f) == f = [span \in Spans(s) |-> Half(s, v, f, span)]

\* The middle of a span lies in its lower part.
LEMMA Middle ==
  ASSUME NEW lo \in Nat, NEW hi \in Nat, lo < hi, NEW mid, mid = lo + ((hi - lo) \div 2)
  PROVE  mid \in Nat /\ lo <= mid /\ mid < hi
OBVIOUS

\* Two functions are the same at spans of this length.
Agree(s, n, f, g) == \A lo, hi \in 0 .. Len(s) : hi - lo <= n => f[<<lo, hi>>] = g[<<lo, hi>>]

\* A step reads the function at a shorter span only.
LEMMA HalfReadsShorter ==
  ASSUME NEW s, Len(s) \in Nat, NEW v, NEW f, NEW g, NEW n \in Nat,
         NEW lo \in 0 .. Len(s), NEW hi \in 0 .. Len(s), hi - lo <= n + 1,
         Agree(s, n, f, g)
  PROVE  Half(s, v, f, <<lo, hi>>) = Half(s, v, g, <<lo, hi>>)
<1> DEFINE L == Len(s)
           mid == lo + ((hi - lo) \div 2)
<1>1. lo \in Nat /\ hi \in Nat /\ L \in Nat /\ lo <= L /\ hi <= L
  OBVIOUS
<1>2. \A h : Half(s, v, h, <<lo, hi>>)
               = IF lo >= hi THEN lo
                 ELSE IF s[mid + 1] >= v THEN h[<<lo, mid>>] ELSE h[<<mid + 1, hi>>]
  BY DEF Half
<1>3. CASE lo >= hi
  BY <1>2, <1>3
<1>4. CASE lo < hi
  <2>1. mid \in Nat /\ lo <= mid /\ mid < hi
    BY <1>1, <1>4, Middle
  <2> HIDE DEF mid, L
  <2>2. /\ mid \in 0 .. L /\ mid + 1 \in 0 .. L /\ lo \in 0 .. L /\ hi \in 0 .. L
        /\ mid - lo <= n /\ hi - (mid + 1) <= n
    BY <1>1, <1>4, <2>1
  <2>3. f[<<lo, mid>>] = g[<<lo, mid>>] /\ f[<<mid + 1, hi>>] = g[<<mid + 1, hi>>]
    BY <2>2 DEF L, Agree
  <2> QED
    BY <1>2, <2>3
<1> QED
  BY <1>1, <1>3, <1>4

\* There is a function that searches.
LEMMA SearchExists ==
  ASSUME NEW s, Len(s) \in Nat, NEW v
  PROVE  \E f : Searches(s, v, f)
<1> DEFINE L == Len(s)
           Upon(f, n) == \A lo, hi \in 0 .. L :
                           hi - lo <= n => f[<<lo, hi>>] = Half(s, v, f, <<lo, hi>>)
           T == {n \in 0 .. L : \E f : Upon(f, n)}
           Next1(f) == [span \in Spans(s) |-> Half(s, v, f, span)]
<1>0. L \in Nat
  OBVIOUS
<1>1. ASSUME NEW f, NEW lo \in 0 .. L, NEW hi \in 0 .. L
      PROVE  Next1(f)[<<lo, hi>>] = Half(s, v, f, <<lo, hi>>)
  BY DEF Spans
<1>2. 0 \in T
  <2> DEFINE f == [span \in Spans(s) |-> span[1]]
  <2>1. ASSUME NEW lo \in 0 .. L, NEW hi \in 0 .. L, hi - lo <= 0
        PROVE  f[<<lo, hi>>] = Half(s, v, f, <<lo, hi>>)
    <3>1. <<lo, hi>> \in Spans(s)
      BY DEF Spans
    <3>2. f[<<lo, hi>>] = lo
      BY <3>1
    <3>3. lo >= hi
      BY <1>0, <2>1
    <3> HIDE DEF f
    <3>4. Half(s, v, f, <<lo, hi>>) = lo
      BY <3>3 DEF Half
    <3> QED
      BY <3>2, <3>4
  <2> HIDE DEF f
  <2>2. Upon(f, 0)
    BY <2>1
  <2> HIDE DEF Upon
  <2> QED
    BY <1>0, <2>2
<1>3. ASSUME NEW n \in Nat, NEW f, Upon(f, n)
      PROVE  Agree(s, n, f, Next1(f)) /\ Upon(Next1(f), n + 1)
  <2> DEFINE g == Next1(f)
  <2>1. \A lo, hi \in 0 .. L : g[<<lo, hi>>] = Half(s, v, f, <<lo, hi>>)
    BY <1>1
  <2> HIDE DEF g
  <2>2. Agree(s, n, f, g)
    BY <1>3, <2>1 DEF Agree
  <2>3. \A lo, hi \in 0 .. L :
          hi - lo <= n + 1 => Half(s, v, f, <<lo, hi>>) = Half(s, v, g, <<lo, hi>>)
    BY <2>2, HalfReadsShorter
  <2>4. Upon(g, n + 1)
    BY <2>1, <2>3
  <2> QED
    BY <2>2, <2>4 DEF g
<1> HIDE DEF Next1
<1>4. \A n \in 0 .. L - 1 : n \in T => n + 1 \in T
  <2> HIDE DEF Upon
  <2>1. ASSUME NEW n \in 0 .. L - 1, NEW f, Upon(f, n) PROVE \E g : Upon(g, n + 1)
    <3>1. n \in Nat
      BY <1>0
    <3> QED
      BY <1>3, <2>1, <3>1
  <2>2. \A n \in 0 .. L - 1 : n + 1 \in 0 .. L
    BY <1>0
  <2> QED
    BY <2>1, <2>2
<1>5. PICK f : Upon(f, L)
  <2>1. \A n \in 0 .. L : n \in T
    <3> HIDE DEF T, L
    <3> QED
      BY <1>0, <1>2, <1>4, Upto
  <2>2. L \in 0 .. L
    BY <1>0
  <2> HIDE DEF Upon
  <2> QED
    BY <2>1, <2>2
<1> DEFINE g == Next1(f)
<1>7. Agree(s, L, f, g)
  <2> HIDE DEF Upon, L
  <2> QED
    BY <1>0, <1>3, <1>5
<1>8. \A lo, hi \in 0 .. L : Half(s, v, f, <<lo, hi>>) = Half(s, v, g, <<lo, hi>>)
  <2>1. ASSUME NEW lo \in 0 .. L, NEW hi \in 0 .. L
        PROVE  Half(s, v, f, <<lo, hi>>) = Half(s, v, g, <<lo, hi>>)
    <3>1. hi - lo <= L + 1
      BY <1>0
    <3> HIDE DEF g
    <3> QED
      BY <1>0, <1>7, <3>1, HalfReadsShorter
  <2> QED
    BY <2>1
<1>9. \A span \in Spans(s) : Half(s, v, f, span) = Half(s, v, g, span)
  <2>1. ASSUME NEW span \in Spans(s) PROVE \E lo, hi \in 0 .. L : span = <<lo, hi>>
    BY DEF Spans
  <2> QED
    BY <1>8, <2>1
<1> HIDE DEF g
<1>10. g = [span \in Spans(s) |-> Half(s, v, g, span)]
  <2>1. g = [span \in Spans(s) |-> Half(s, v, f, span)]
    BY DEF g, Next1
  <2> QED
    BY <1>9, <2>1
<1> QED
  BY <1>10 DEF Searches

\* What is searched for is found in an increasing sequence that holds it.
LEMMA LowerBoundFinds ==
  ASSUME NEW s \in Seq(Nat), \A i, j \in DOMAIN s : i < j => s[i] < s[j],
         NEW p \in DOMAIN s
  PROVE  LowerBound(s, s[p]) + 1 = p
<1> DEFINE L == Len(s)
           v == s[p]
           f == CHOOSE f : Searches(s, v, f)
           T == {n \in 0 .. L : \A lo, hi \in 0 .. L :
                   hi - lo <= n /\ lo <= p - 1 /\ p - 1 <= hi => f[<<lo, hi>>] = p - 1}
<1>1. /\ L \in Nat /\ DOMAIN s = 1 .. L /\ p \in Nat /\ 1 <= p /\ p <= L
      /\ \A i \in 1 .. L : s[i] \in Nat
  OBVIOUS
<1>2. Searches(s, v, f)
  BY <1>1, SearchExists
<1>3. LowerBound(s, v) = f[<<0, L>>]
  BY Zenon DEF LowerBound, Searches, Half, Spans
<1> HIDE DEF f
<1>4. \A lo, hi \in 0 .. L : f[<<lo, hi>>] = Half(s, v, f, <<lo, hi>>)
  <2>1. ASSUME NEW span \in Spans(s) PROVE f[span] = Half(s, v, f, span)
    BY <1>2 DEF Searches
  <2>2. \A lo, hi \in 0 .. L : <<lo, hi>> \in Spans(s)
    BY DEF Spans
  <2> QED
    BY <2>1, <2>2
<1>5. \A i \in 1 .. L : s[i] >= v <=> i >= p
  <2> SUFFICES ASSUME NEW i \in 1 .. L PROVE s[i] >= v <=> i >= p
    OBVIOUS
  <2>1. i \in Nat /\ s[i] \in Nat /\ v \in Nat
    BY <1>1
  <2>2. CASE i < p
    <3>1. s[i] < v
      BY <1>1, <2>2
    <3> QED
      BY <1>1, <2>1, <2>2, <3>1
  <2>3. CASE i = p
    BY <1>1, <2>1, <2>3
  <2>4. CASE i > p
    <3>1. v < s[i]
      BY <1>1, <2>4
    <3> QED
      BY <1>1, <2>1, <2>4, <3>1
  <2> QED
    BY <1>1, <2>1, <2>2, <2>3, <2>4
<1> HIDE DEF L, v
<1>6. ASSUME NEW lo \in 0 .. L, NEW hi \in 0 .. L, lo <= p - 1, p - 1 <= hi, hi <= lo
      PROVE  f[<<lo, hi>>] = p - 1
  <2>1. lo \in Nat /\ hi \in Nat
    BY <1>1
  <2>2. lo >= hi /\ lo = p - 1
    BY <1>1, <1>6, <2>1
  <2>3. Half(s, v, f, <<lo, hi>>) = lo
    BY <2>2 DEF Half
  <2> QED
    BY <1>4, <2>2, <2>3
<1>7. 0 \in T
  <2>1. \A lo, hi \in 0 .. L : hi - lo <= 0 => hi <= lo
    BY <1>1
  <2> QED
    BY <1>1, <1>6, <2>1
<1>8. \A n \in 0 .. L - 1 : n \in T => n + 1 \in T
  <2> SUFFICES ASSUME NEW n \in 0 .. L - 1, n \in T PROVE n + 1 \in T
    OBVIOUS
  <2>1. n \in Nat /\ n + 1 \in 0 .. L
    BY <1>1
  <2>2. \A lo, hi \in 0 .. L :
          hi - lo <= n /\ lo <= p - 1 /\ p - 1 <= hi => f[<<lo, hi>>] = p - 1
    OBVIOUS
  <2>3. ASSUME NEW lo \in 0 .. L, NEW hi \in 0 .. L, hi - lo <= n + 1,
               lo <= p - 1, p - 1 <= hi
        PROVE  f[<<lo, hi>>] = p - 1
    <3> HIDE DEF T
    <3> DEFINE mid == lo + ((hi - lo) \div 2)
    <3>1. lo \in Nat /\ hi \in Nat /\ lo <= L /\ hi <= L
      BY <1>1
    <3>2. CASE hi <= lo
      BY <1>6, <2>3, <3>2
    <3>3. CASE lo < hi
      <4>1. mid \in Nat /\ lo <= mid /\ mid < hi
        BY <3>1, <3>3, Middle
      <4>2. f[<<lo, hi>>] = IF lo >= hi THEN lo
                            ELSE IF s[mid + 1] >= v THEN f[<<lo, mid>>]
                            ELSE f[<<mid + 1, hi>>]
        BY <1>4 DEF Half
      <4> HIDE DEF mid
      <4>3. ~(lo >= hi) /\ mid + 1 \in 1 .. L /\ mid + 1 \in 0 .. L /\ mid \in 0 .. L
        BY <1>1, <3>1, <3>3, <4>1
      <4>4. CASE mid + 1 >= p
        <5>1. f[<<lo, hi>>] = f[<<lo, mid>>]
          BY <1>5, <4>2, <4>3, <4>4
        <5>2. mid - lo <= n /\ p - 1 <= mid
          BY <1>1, <2>1, <2>3, <3>1, <4>1, <4>4
        <5> QED
          BY <2>2, <2>3, <4>3, <5>1, <5>2
      <4>5. CASE ~(mid + 1 >= p)
        <5>1. f[<<lo, hi>>] = f[<<mid + 1, hi>>]
          BY <1>5, <4>2, <4>3, <4>5
        <5>2. hi - (mid + 1) <= n /\ mid + 1 <= p - 1
          BY <1>1, <2>1, <2>3, <3>1, <4>1, <4>5
        <5> QED
          BY <2>2, <2>3, <4>3, <5>1, <5>2
      <4> QED
        BY <4>4, <4>5
    <3> QED
      BY <3>1, <3>2, <3>3
  <2> QED
    BY <2>1, <2>3
<1>9. L \in T
  <2>1. L \in 0 .. L
    BY <1>1
  <2> HIDE DEF T
  <2> QED
    BY <1>1, <1>7, <1>8, <2>1, Upto
<1>10. f[<<0, L>>] = p - 1
  <2>1. 0 \in 0 .. L /\ L \in 0 .. L /\ L - 0 <= L /\ 0 <= p - 1 /\ p - 1 <= L
    BY <1>1
  <2> QED
    BY <1>9, <2>1
<1>11. LowerBound(s, v) = p - 1
  BY <1>3, <1>10
<1> QED
  BY <1>1, <1>11 DEF v

-----------------------------------------------------------------------------
(***************************************************************************)
(* Which prediction guides a row, and in which setups it is its own.       *)
(***************************************************************************)

\* The requests whose rows a setup guides, and requests of one temperature.
Guidable(s) ==
  {r \in Requests : s.mode = "per_request" => s.params[r].prompt \in s.trainers}
SameTemperature(s, some) == \A r, q \in some : s.params[r].greedy = s.params[q].greedy

\* The dense backend guides requests of one temperature; one prompt has a model of its own;
\* the post-filter backends with the bank sample one temperature, or no prompt twice.
GuidesOwn(s) ==
  s.active =>
    /\ s.backend = "pre_filter_dense" => SameTemperature(s, Guidable(s))
    /\ s.mode = "per_request" =>
         \A r, q \in Guidable(s) : s.params[r].prompt = s.params[q].prompt
    /\ s.mode = "bank" /\ s.backend # "pre_filter_dense" =>
         \/ SameTemperature(s, Requests)
         \/ \A r, q \in Requests : s.params[r].prompt = s.params[q].prompt => r = q

GuidedSetups == \A s \in Setups : GuidesOwn(s)

\* A batch whose rows are alike has one temperature.
LEMMA AlikeHaveOne ==
  ASSUME BatchTypes, Used = 1 .. Count, \A i, j \in All : Of(i).greedy = Of(j).greedy
  PROVE  AllGreedy \/ AllRandom
<1>1. \A i \in All : Of(i).greedy \in BOOLEAN
  BY RowsHoldRequests DEF Params
<1>2. CASE \E i \in All : Of(i).greedy
  <2>1. \A j \in All : Of(j).greedy
    BY Zenon, <1>1, <1>2
  <2>2. Greedy = All
    BY Zenon, <2>1 DEF Greedy
  <2> QED
    BY <2>2 DEF AllGreedy
<1>3. CASE ~\E i \in All : Of(i).greedy
  <2>1. Greedy = {}
    BY Zenon, <1>3 DEF Greedy
  <2> QED
    BY <2>1 DEF AllRandom
<1> QED
  BY <1>2, <1>3

\* The rows of one prompt are predicted in their order.
LEMMA TrainedInOrder ==
  ASSUME BatchTypes, Used = 1 .. Count,
         \A i, j \in Trained : Of(i).prompt = Of(j).prompt
  PROVE  TrainedRows = Ordered(Trained)
<1> DEFINE A(k) == CHOOSE i \in Trained : Cardinality({j \in Trained : Before(j, i)}) = k
           B(k) == CHOOSE i \in Trained : Cardinality({j \in Trained : j <= i}) = k
           n == Cardinality(Trained)
<1>1. \A i \in Trained : i \in Nat /\ Of(i).prompt \in Nat
  <2>1. \A i \in All : i \in Nat /\ Of(i).prompt \in Nat
    BY RowsHoldRequests DEF Params, Prompts
  <2> QED
    BY <2>1 DEF Trained
<1>2. \A i, j \in Trained : Before(j, i) <=> j <= i
  BY <1>1 DEF Before
<1>3. \A i \in Trained : {j \in Trained : Before(j, i)} = {j \in Trained : j <= i}
  BY <1>2
<1>4. ASSUME NEW k PROVE A(k) = B(k)
  <2>1. \A i : (i \in Trained /\ Cardinality({j \in Trained : Before(j, i)}) = k)
                 <=> (i \in Trained /\ Cardinality({j \in Trained : j <= i}) = k)
    BY <1>3
  <2> QED
    BY <2>1
<1>5. TrainedRows = [k \in 1 .. n |-> A(k)]
  BY DEF TrainedRows
<1>6. Ordered(Trained) = [k \in 1 .. n |-> B(k)]
  BY DEF Ordered
<1> HIDE DEF A, B, n
<1> QED
  BY <1>4, <1>5, <1>6

\* What a list of numbers in their order holds.
LEMMA OrderedHolds ==
  ASSUME NEW S \in SUBSET Nat, IsFiniteSet(S)
  PROVE  S = {Ordered(S)[k] : k \in DOMAIN Ordered(S)}
<1>1. Ordered(S) \in Seq(S) /\ \A p \in S : \E i \in DOMAIN Ordered(S) : Ordered(S)[i] = p
  BY OrderedSequence
<1>2. \A i \in DOMAIN Ordered(S) : Ordered(S)[i] \in S
  BY <1>1, Elements
<1> QED
  BY <1>1, <1>2

\* The affected rows are in the batch's order: all, or those of the prompt with a model.
LEMMA AffectedInOrder ==
  ASSUME BatchTypes, Used = 1 .. Count, setup.active, GuidesOwn(setup)
  PROVE  /\ Affected \in SUBSET Nat /\ IsFiniteSet(Affected) /\ Affected \in SUBSET All
         /\ State.affected = Ordered(Affected)
         /\ Affected = IF setup.mode = "per_request" THEN Trained ELSE All
<1> DEFINE W == IF setup.mode = "per_request" THEN Trained ELSE All
<1>1. All \in SUBSET Nat /\ IsFiniteSet(All)
  BY Counted, SegmentSize DEF All
<1>2. Trained \in SUBSET All
  BY DEF Trained
<1>3. W \in SUBSET All /\ W \in SUBSET Nat /\ IsFiniteSet(W)
  BY <1>1, <1>2, FS_Subset
<1>4. State.affected = Ordered(W)
  <2>1. CASE setup.mode = "per_request"
    <3>1. ~Compacted
      BY <2>1 DEF Compacted
    <3>2. State.affected = TrainedRows
      BY <2>1, <3>1 DEF State, PredictedRows
    <3>3. ASSUME NEW i \in Trained PROVE rows[i] \in Guidable(setup)
      <4>1. rows[i] \in Requests
        BY <1>2, RowsHoldRequests
      <4> QED
        BY <4>1 DEF Guidable, Trained, Of
    <3>4. \A i, j \in Trained : Of(i).prompt = Of(j).prompt
      BY <2>1, <3>3 DEF GuidesOwn, Of
    <3> QED
      BY <2>1, <3>2, <3>4, TrainedInOrder
  <2>2. CASE setup.mode # "per_request"
    <3>1. State.affected = Ordered(All)
      BY <2>2 DEF State, PredictedRows
    <3> QED
      BY <2>2, <3>1
  <2> QED
    BY <2>1, <2>2
<1> HIDE DEF W
<1>5. Affected = W
  BY <1>3, <1>4, OrderedHolds DEF Affected
<1> QED
  BY <1>3, <1>4, <1>5 DEF W

\* If all rows are affected, each is affected at its own place.
LEMMA AllInOrder ==
  ASSUME BatchTypes, Used = 1 .. Count, setup.active, GuidesOwn(setup), AllAffected
  PROVE  /\ Affected = All /\ DOMAIN State.affected = All
         /\ \A i \in All : State.affected[i] = i
<1>1. All = 1 .. Count /\ Count \in Nat /\ IsFiniteSet(All) /\ Cardinality(All) = Count
  BY Counted, SegmentSize DEF All
<1>2. /\ Affected \in SUBSET Nat /\ IsFiniteSet(Affected) /\ Affected \in SUBSET All
      /\ State.affected = Ordered(Affected)
  BY AffectedInOrder
<1>3. Cardinality(Affected) = Count
  <2>1. Len(Ordered(Affected)) = Cardinality(Affected)
    BY <1>2, OrderedSequence
  <2> QED
    BY <1>2, <2>1 DEF AllAffected
<1>4. Affected = All
  BY <1>1, <1>2, <1>3, FS_Subset
<1>5. DOMAIN Ordered(All) = All /\ \A i \in All : Ordered(All)[i] = i
  BY <1>1, OrderedInterval DEF Ordered
<1> QED
  BY <1>2, <1>4, <1>5

\* The search finds each affected row at its place.
LEMMA PositionFound ==
  ASSUME BatchTypes, Used = 1 .. Count, setup.active, GuidesOwn(setup),
         NEW p \in DOMAIN State.affected
  PROVE  Position(State.affected[p]) = p
<1> DEFINE s == State.affected
<1>1. Affected \in SUBSET Nat /\ IsFiniteSet(Affected) /\ s = Ordered(Affected)
  BY AffectedInOrder
<1>2. s \in Seq(Nat) /\ \A i, j \in DOMAIN s : i < j => s[i] < s[j]
  <2>1. /\ Ordered(Affected) \in Seq(Affected)
        /\ \A i, j \in DOMAIN Ordered(Affected) :
             i < j => Ordered(Affected)[i] < Ordered(Affected)[j]
    BY <1>1, OrderedSequence
  <2> QED
    BY <1>1, <2>1, Widened
<1> HIDE DEF s
<1>3. p \in DOMAIN s
  BY DEF s
<1>4. LowerBound(s, s[p]) + 1 = p
  BY <1>2, <1>3, LowerBoundFinds
<1> QED
  BY <1>4 DEF Position, s

\* Without a row map the prediction at the place of an affected row is its own.
LEMMA OwnPredictionFound ==
  ASSUME BatchTypes, Used = 1 .. Count, setup.active, GuidesOwn(setup), ~Compacted,
         NEW i \in Affected
  PROVE  At(State.pred, Position(i)) = PredictionFrom(i)
<1>1. PICK p \in DOMAIN State.affected : State.affected[p] = i
  BY DEF Affected
<1>2. Position(i) = p
  BY <1>1, PositionFound
<1>3. State.affected = PredictedRows
  BY DEF State
<1>4. p \in DOMAIN State.pred /\ State.pred[p] = PredictionFrom(PredictedRows[p])
  BY <1>1, <1>3 DEF State
<1> QED
  BY <1>1, <1>2, <1>3, <1>4 DEF At

\* The first row of a row's prompt is the first of its own prompt.
LEMMA FirstIsFirst ==
  ASSUME BatchTypes, Used = 1 .. Count, NEW i \in All
  PROVE  /\ FirstOfPrompt(i) \in All /\ FirstOfPrompt(FirstOfPrompt(i)) = FirstOfPrompt(i)
         /\ Of(FirstOfPrompt(i)).prompt = Of(i).prompt
<1> DEFINE S(p) == {j \in All : Of(j).prompt = p}
           q == Of(i).prompt
           m == FirstOfPrompt(i)
<1>1. All \in SUBSET Nat /\ IsFiniteSet(All)
  BY Counted, SegmentSize DEF All
<1>2. S(q) \in SUBSET Nat /\ IsFiniteSet(S(q)) /\ i \in S(q)
  <2>1. S(q) \in SUBSET All /\ i \in S(q)
    OBVIOUS
  <2> HIDE DEF S
  <2> QED
    BY <1>1, <2>1, FS_Subset
<1>3. \A j \in All : FirstOfPrompt(j) = Lowest(S(Of(j).prompt))
  BY DEF FirstOfPrompt
<1> HIDE DEF q
<1>4. m \in S(q)
  <2>1. \E k \in S(q) : \A j \in S(q) : k <= j
    <3> HIDE DEF S
    <3>1. S(q) # {}
      BY <1>2
    <3> QED
      BY <1>2, <3>1, Least
  <2>2. m = Lowest(S(q))
    BY <1>3 DEF q
  <2> HIDE DEF S, m
  <2> QED
    BY <2>1, <2>2 DEF Lowest
<1>5. m \in All /\ Of(m).prompt = q
  <2> HIDE DEF m
  <2> QED
    BY <1>4
<1>6. FirstOfPrompt(m) = Lowest(S(q)) /\ m = Lowest(S(q))
  <2> HIDE DEF S
  <2> QED
    BY <1>3, <1>5 DEF q
<1> QED
  BY <1>5, <1>6 DEF q

\* The first rows of the prompts are in the batch; each row finds its own among them.
LEMMA FirstsHold ==
  ASSUME BatchTypes, Used = 1 .. Count
  PROVE  /\ \A i \in All : \E k \in DOMAIN Firsts : Firsts[k] = FirstOfPrompt(i)
         /\ (\A i \in All : FirstOfPrompt(i) = i) => Len(Firsts) = Count
<1> DEFINE S == {i \in All : FirstOfPrompt(i) = i}
<1>1. All \in SUBSET Nat /\ IsFiniteSet(All) /\ Cardinality(All) = Count
  BY Counted, SegmentSize DEF All
<1>2. S \in SUBSET All
  OBVIOUS
<1>3. \A i \in All : FirstOfPrompt(i) \in S
  BY FirstIsFirst
<1>4. (\A i \in All : FirstOfPrompt(i) = i) => S = All
  OBVIOUS
<1>5. Firsts = Ordered(S)
  BY DEF Firsts
<1> HIDE DEF S
<1>6. S \in SUBSET Nat /\ IsFiniteSet(S)
  BY <1>1, <1>2, FS_Subset
<1>7. /\ Len(Ordered(S)) = Cardinality(S)
      /\ \A p \in S : \E k \in DOMAIN Ordered(S) : Ordered(S)[k] = p
  BY <1>6, OrderedSequence
<1> QED
  BY <1>1, <1>3, <1>4, <1>5, <1>7

\* The predictions are of fewer rows only if a prompt is shared, and then the batch has one
\* temperature.
LEMMA CompactedHaveOne ==
  ASSUME BatchInv, Used = 1 .. Count, setup.active, GuidesOwn(setup), Compacted
  PROVE  AllGreedy \/ AllRandom
<1>1. setup.mode = "bank" /\ setup.backend # "pre_filter_dense" /\ Len(Firsts) < Count
  BY DEF Compacted
<1>2. BatchTypes /\ Count \in Nat
  BY Counted DEF BatchInv
<1>3. \A i \in All : rows[i] \in Requests /\ i \in Used
  BY <1>2, RowsHoldRequests
<1>4. CASE SameTemperature(setup, Requests)
  <2>1. \A i, j \in All : Of(i).greedy = Of(j).greedy
    BY <1>3, <1>4 DEF SameTemperature, Of
  <2> QED
    BY <1>2, <2>1, AlikeHaveOne
<1>5. CASE \A r, q \in Requests : setup.params[r].prompt = setup.params[q].prompt => r = q
  <2>1. ASSUME NEW i \in All PROVE FirstOfPrompt(i) = i
    <3>1. FirstOfPrompt(i) \in All /\ Of(FirstOfPrompt(i)).prompt = Of(i).prompt
      BY <1>2, FirstIsFirst
    <3> DEFINE m == FirstOfPrompt(i)
    <3> HIDE DEF m
    <3>2. m \in All /\ Of(m).prompt = Of(i).prompt
      BY <3>1 DEF m
    <3>3. rows[m] = rows[i]
      BY <1>3, <1>5, <3>2 DEF Of
    <3>4. m = i
      BY <1>3, <3>2, <3>3 DEF BatchInv, UnmovedKeepMinP
    <3> QED
      BY <3>4 DEF m
  <2>2. Len(Firsts) = Count
    BY <1>2, <2>1, FirstsHold
  <2> QED
    BY <1>1, <1>2, <2>2
<1> QED
  BY <1>1, <1>4, <1>5 DEF GuidesOwn

\* The dense backend guides all rows of a batch only if it has one temperature.
LEMMA DenseHaveOne ==
  ASSUME BatchTypes, Used = 1 .. Count, setup.active, GuidesOwn(setup), IsDense, AllAffected
  PROVE  AllGreedy \/ AllRandom
<1>1. Affected = All /\ Affected = IF setup.mode = "per_request" THEN Trained ELSE All
  BY AllInOrder, AffectedInOrder
<1>2. ASSUME NEW i \in All PROVE rows[i] \in Guidable(setup)
  <2>1. rows[i] \in Requests
    BY RowsHoldRequests
  <2>2. setup.mode = "per_request" => i \in Trained
    BY <1>1
  <2> QED
    BY <2>1, <2>2 DEF Guidable, Trained, Of
<1>3. \A i, j \in All : Of(i).greedy = Of(j).greedy
  BY <1>2 DEF GuidesOwn, IsDense, SameTemperature, Of
<1> QED
  BY <1>3, AlikeHaveOne

-----------------------------------------------------------------------------
(***************************************************************************)
(* The guidance of a step's outcome.                                       *)
(***************************************************************************)

\* The row whose prediction is a row's own.
OwnOf(i) == IF Compacted THEN FirstOfPrompt(i) ELSE i

OwnIn(s, rs, i) ==
  LET all       == RowsIn(rs)
      of(j)     == s.params[rs[j]]
      first(j)  == Lowest({k \in all : of(k).prompt = of(j).prompt})
      firsts    == Ordered({j \in all : first(j) = j})
      compacted == /\ s.mode = "bank" /\ s.backend # "pre_filter_dense"
                   /\ Len(firsts) < Cardinality({j \in Indices : rs[j] # NoRequest})
  IN  IF compacted THEN first(i) ELSE i

GuidedIn(s, rs, o) ==
  \A i \in RowsIn(rs) :
    o[i].guides = IF s.active /\ i \in AffectedIn(s, rs)
                  THEN <<[row    |-> OwnIn(s, rs, i),
                          prompt |-> s.params[rs[OwnIn(s, rs, i)]].prompt]>>
                  ELSE <<>>

LEMMA OwnReads ==
  /\ \A i : OwnOf(i) = OwnIn(setup, rows, i)
  /\ \A i : OwnOf(i)' = OwnIn(setup', rows', i)
<1>1. ASSUME NEW i PROVE OwnOf(i) = OwnIn(setup, rows, i)
  BY Zenon DEF OwnOf, OwnIn, RowsIn, Compacted, All, Count, Used, Firsts, FirstOfPrompt, Of
<1>2. ASSUME NEW i PROVE OwnOf(i)' = OwnIn(setup', rows', i)
  BY Zenon DEF OwnOf, OwnIn, RowsIn, Compacted, All, Count, Used, Firsts, FirstOfPrompt, Of
<1> QED
  BY <1>1, <1>2

\* The property states this relation of the state.
LEMMA GuidedReads ==
  /\ GuidedOnceByOwn <=> /\ raised # "index out of range"
                         /\ phase = "sampled" => GuidedIn(setup, rows, outcome)
  /\ GuidedOnceByOwn' <=> /\ raised' # "index out of range"
                          /\ phase' = "sampled" => GuidedIn(setup', rows', outcome')
<1>1. GuidedOnceByOwn <=>
        /\ raised # "index out of range"
        /\ phase = "sampled" =>
             \A i \in All : outcome[i].guides = IF setup.active /\ i \in Affected
                                                THEN <<PredictionFrom(OwnOf(i))>> ELSE <<>>
  BY Zenon DEF GuidedOnceByOwn, OwnOf
<1>2. GuidedOnceByOwn' <=>
        /\ raised' # "index out of range"
        /\ phase' = "sampled" =>
             \A i \in All' : outcome'[i].guides = IF setup'.active /\ i \in Affected'
                                                  THEN <<PredictionFrom(OwnOf(i))'>> ELSE <<>>
  BY Zenon DEF GuidedOnceByOwn, OwnOf, PredictionFrom
<1> QED
  BY Zenon, <1>1, <1>2, OwnReads, AffectedReads
     DEF GuidedIn, RowsIn, All, Count, Used, PredictionFrom, Of

GuidedRow(i, e) ==
  e.guides = IF setup.active /\ i \in Affected THEN <<PredictionFrom(OwnOf(i))>> ELSE <<>>

\* The rows are counted from one.
LEMMA NoRowZero == ASSUME BatchTypes PROVE 0 \notin All
<1>1. Count \in Nat
  BY Counted
<1> QED
  BY <1>1 DEF All

\* The sequence of one element.
LEMMA AppendedToNone == ASSUME NEW x PROVE Append(<<>>, x) = <<x>>
  OBVIOUS

\* An outcome whose rows are guided so is kept.
LEMMA GuidedKept ==
  ASSUME BatchTypes, Used = 1 .. Count, raised # "index out of range",
         NEW o, DOMAIN o = All, Finish(o), \A i \in All : GuidedRow(i, o[i])
  PROVE  GuidedOnceByOwn'
<1>1. ASSUME NEW i \in All, NEW k \in DOMAIN o[i].guides PROVE o[i].guides[k] # NoPrediction
  <2> DEFINE m == OwnOf(i)
             p == PredictionFrom(m)
             g == o[i].guides
  <2>1. g = <<p>> \/ g = <<>>
    BY DEF GuidedRow
  <2>2. m \in All
    BY FirstIsFirst DEF OwnOf
  <2> HIDE DEF m
  <2>3. m # 0
    BY <2>2, NoRowZero
  <2>4. p # NoPrediction
    BY <2>3 DEF PredictionFrom, NoPrediction
  <2>5. k \in DOMAIN g
    OBVIOUS
  <2> HIDE DEF p, g
  <2>6. g[k] = p
    BY ONLY <2>1, <2>5
  <2> QED
    BY <2>4, <2>6 DEF g
<1>2. ~\E i \in DOMAIN o : \E k \in DOMAIN o[i].guides : o[i].guides[k] = NoPrediction
  BY <1>1
<1>3. raised' = raised /\ outcome' = o /\ setup' = setup /\ rows' = rows
  BY <1>2 DEF Finish, batchVars
<1>4. GuidedIn(setup, rows, o)
  <2>1. \A i \in All : o[i].guides = IF setup.active /\ i \in Affected
                                     THEN <<PredictionFrom(OwnOf(i))>> ELSE <<>>
    BY DEF GuidedRow
  <2> QED
    BY Zenon, <2>1, OwnReads, AffectedReads
       DEF GuidedIn, RowsIn, All, Count, Used, PredictionFrom, Of
<1> QED
  BY <1>3, <1>4, GuidedReads

\* Without guidance no row is guided.
LEMMA UnguidedGuides ==
  ASSUME BatchTypes, Used = 1 .. Count, raised # "index out of range", SampleUnguided
  PROVE  GuidedOnceByOwn'
<1> DEFINE e(i) == Sampled(<<>>, IF setup.active \/ Of(i).greedy THEN 0 ELSE Filter(i),
                           IF Of(i).greedy THEN NoRequest ELSE OwnGenerator(i),
                           Of(i).greedy)
           o == [i \in All |-> e(i)]
<1>1. Finish(o) /\ ~Guiding
  BY DEF SampleUnguided
<1>2. setup.active => Affected = {}
  BY ONLY <1>1 DEF Guiding, Affected
<1>3. ASSUME NEW i \in All PROVE GuidedRow(i, e(i))
  BY <1>2 DEF GuidedRow, Sampled
<1>4. DOMAIN o = All /\ \A i \in All : o[i] = e(i)
  OBVIOUS
<1> HIDE DEF e, o
<1> QED
  BY <1>1, <1>3, <1>4, GuidedKept

\* The dense section guides row by row.
LEMMA FullDenseGuides ==
  ASSUME BatchTypes, Used = 1 .. Count, raised # "index out of range", GuidesOwn(setup),
         SampleFullDense
  PROVE  GuidedOnceByOwn'
<1> DEFINE e(i) == Sampled(<<State.pred[i]>>, 0,
                           IF AllGreedy THEN NoRequest ELSE OwnGenerator(i), AllGreedy)
           o == [i \in All |-> e(i)]
<1>1. Finish(o) /\ setup.active /\ IsDense /\ AllAffected
  BY DEF SampleFullDense, Guiding
<1>2. ~Compacted
  BY <1>1 DEF Compacted, IsDense
<1>3. ASSUME NEW i \in All PROVE GuidedRow(i, e(i))
  <2>1. i \in Affected /\ i \in DOMAIN State.affected /\ State.affected[i] = i
    BY <1>1, AllInOrder
  <2>2. State.affected = PredictedRows
    BY <1>2 DEF State
  <2>3. State.pred[i] = PredictionFrom(i)
    BY <2>1, <2>2 DEF State
  <2>4. e(i).guides = <<State.pred[i]>>
    BY DEF Sampled
  <2>5. OwnOf(i) = i
    BY <1>2 DEF OwnOf
  <2> HIDE DEF e
  <2> QED
    BY <1>1, <2>1, <2>3, <2>4, <2>5 DEF GuidedRow
<1>4. DOMAIN o = All /\ \A i \in All : o[i] = e(i)
  OBVIOUS
<1> HIDE DEF e, o
<1> QED
  BY <1>1, <1>3, <1>4, GuidedKept

\* The exact section guides row by row, or by the row map.
LEMMA FullExactGuides ==
  ASSUME BatchTypes, Used = 1 .. Count, raised # "index out of range", GuidesOwn(setup),
         SampleFullExact
  PROVE  GuidedOnceByOwn'
<1> DEFINE guides == ExactGuides(State.affected, TRUE)
           gens == GeneratorsOf(Ordered(All))
           e(i) == Sampled(<<guides[i]>>, Filter(i),
                           IF AllGreedy \/ TakesCandidates THEN NoRequest ELSE gens[i],
                           AllGreedy)
           o == [i \in All |-> e(i)]
<1>1. Finish(o) /\ setup.active /\ AllAffected
  BY DEF SampleFullExact, Guiding
<1>2. ASSUME NEW i \in All PROVE i \in Affected /\ guides[i] = PredictionFrom(OwnOf(i))
  <2>1. i \in Affected /\ i \in DOMAIN State.affected /\ State.affected[i] = i
    BY <1>1, AllInOrder
  <2>2. guides[i] = At(State.pred, IF State.map = <<>> THEN i ELSE State.map[i])
    BY <2>1 DEF ExactGuides
  <2> HIDE DEF guides
  <2>3. CASE ~Compacted
    <3>1. State.affected = PredictedRows /\ State.map = <<>>
      BY <2>3 DEF State
    <3>2. i \in DOMAIN State.pred /\ State.pred[i] = PredictionFrom(i)
      BY <2>1, <3>1 DEF State
    <3> QED
      BY <2>1, <2>2, <2>3, <3>1, <3>2 DEF At, OwnOf
  <2>4. CASE Compacted
    <3> DEFINE k == CHOOSE k \in DOMAIN Firsts : Firsts[k] = FirstOfPrompt(i)
    <3>1. State.map = [j \in All |-> CHOOSE m \in DOMAIN Firsts : Firsts[m] = FirstOfPrompt(j)]
      BY <2>4 DEF State
    <3>2. i \in DOMAIN State.map /\ State.map[i] = k
      BY Zenon, <3>1
    <3>6. State.map # <<>>
      BY ONLY <3>2
    <3>3. k \in DOMAIN Firsts /\ Firsts[k] = FirstOfPrompt(i)
      BY FirstsHold
    <3>4. PredictedRows = Firsts
      BY <2>4 DEF PredictedRows, Compacted
    <3> HIDE DEF k
    <3>5. k \in DOMAIN State.pred /\ State.pred[k] = PredictionFrom(FirstOfPrompt(i))
      BY <3>3, <3>4 DEF State
    <3> QED
      BY <2>1, <2>2, <2>4, <3>2, <3>5, <3>6 DEF At, OwnOf
  <2> QED
    BY <2>3, <2>4
<1> HIDE DEF guides, gens
<1>3. ASSUME NEW i \in All PROVE GuidedRow(i, e(i))
  BY <1>1, <1>2 DEF GuidedRow, Sampled
<1>4. DOMAIN o = All /\ \A i \in All : o[i] = e(i)
  OBVIOUS
<1> HIDE DEF e, o
<1> QED
  BY <1>1, <1>3, <1>4, GuidedKept

\* A part guides its rows by position, and the other rows are not guided.
LEMMA PartsGuide ==
  ASSUME BatchInv, Used = 1 .. Count, raised # "index out of range", GuidesOwn(setup),
         SampleParts
  PROVE  GuidedOnceByOwn'
<1> DEFINE part(i) == Part(Of(i).greedy)
           place(i) == CHOOSE k \in DOMAIN part(i) : part(i)[k] = i
           e(i) == IF i \notin Affected THEN SampledVanilla(i)
                   ELSE SampledInPart(part(i), place(i), Of(i).greedy)
           o == [i \in All |-> e(i)]
<1>1. Finish(o) /\ setup.active /\ (~AllAffected \/ ~(AllGreedy \/ AllRandom))
  BY DEF SampleParts, Guiding
<1>2. BatchTypes
  BY DEF BatchInv
<1>3. ~Compacted
  <2>1. ASSUME Compacted PROVE AllAffected
    <3>1. State.affected = Ordered(All)
      BY <2>1 DEF State
    <3>2. All \in SUBSET Nat /\ IsFiniteSet(All) /\ Cardinality(All) = Count
      BY Counted, SegmentSize DEF All
    <3> QED
      BY <3>1, <3>2, OrderedSequence DEF AllAffected
  <2> QED
    BY <1>1, <2>1, CompactedHaveOne
<1>4. ~(IsDense /\ AllAffected)
  BY <1>1, <1>2, DenseHaveOne
<1>5. State.map = <<>>
  BY <1>3 DEF State
<1>6. ASSUME NEW i \in All PROVE GuidedRow(i, e(i))
  <2>1. CASE i \notin Affected
    <3>1. e(i) = SampledVanilla(i)
      BY <2>1
    <3> QED
      BY <2>1, <3>1 DEF GuidedRow, SampledVanilla, Sampled
  <2>2. CASE i \in Affected
    <3>1. place(i) \in DOMAIN part(i) /\ part(i)[place(i)] = i
      BY <2>2, PlacedInPart
    <3>2. e(i) = SampledInPart(part(i), place(i), Of(i).greedy)
      BY <2>2
    <3> DEFINE ids == part(i)
               k   == place(i)
               own == At(State.pred, Position(i))
               guides == IF IsDense THEN DenseGuides(ids) ELSE ExactGuides(ids, FALSE)
    <3>3. k \in DOMAIN ids /\ ids[k] = i /\ e(i) = SampledInPart(ids, k, Of(i).greedy)
      BY <3>1, <3>2
    <3>4. own = PredictionFrom(i)
      BY <1>1, <1>2, <1>3, <2>2, OwnPredictionFound
    <3> HIDE DEF part, place, e, ids, k
    <3>5. guides[k] = own
      BY <1>5, <3>3 DEF DenseGuides, ExactGuides
    <3>6. GuidedInPlace(i) = <<>>
      BY <1>4 DEF GuidedInPlace
    <3>7. e(i).guides = Append(GuidedInPlace(i), guides[k])
      <4> DEFINE c == Append(GuidedInPlace(ids[k]), guides[k])
                 f == IF IsDense THEN 0 ELSE FiltersOf(ids)[k]
                 r == IF Of(i).greedy THEN NoRequest ELSE GeneratorsOf(ids)[k]
      <4>1. SampledInPart(ids, k, Of(i).greedy) = Sampled(c, f, r, Of(i).greedy)
        BY Zenon DEF SampledInPart
      <4> HIDE DEF c, f, r
      <4>2. Sampled(c, f, r, Of(i).greedy).guides = c
        BY DEF Sampled
      <4>3. c = Append(GuidedInPlace(i), guides[k])
        BY Zenon, <3>3 DEF c
      <4> QED
        BY Zenon, <3>3, <4>1, <4>2, <4>3
    <3> HIDE DEF guides, own
    <3>8. Append(<<>>, own) = <<own>>
      BY AppendedToNone
    <3>9. e(i).guides = <<PredictionFrom(i)>>
      BY <3>4, <3>5, <3>6, <3>7, <3>8
    <3>10. OwnOf(i) = i
      BY <1>3 DEF OwnOf
    <3> QED
      BY <1>1, <2>2, <3>9, <3>10 DEF GuidedRow
  <2> QED
    BY <2>1, <2>2
<1>7. DOMAIN o = All /\ \A i \in All : o[i] = e(i)
  OBVIOUS
<1> HIDE DEF e, o
<1> QED
  BY <1>1, <1>2, <1>6, <1>7, GuidedKept

-----------------------------------------------------------------------------
(***************************************************************************)
(* The invariant and the theorems.                                         *)
(***************************************************************************)
IInv == BatchInv /\ Contiguous /\ SampledAsAsked /\ FilteredByOwnMinP

\* Sampling a step establishes the properties of its outcome.
LEMMA SampleInv ==
  ASSUME IInv,
         \/ SampleUnguided \/ SampleFullDense \/ SampleFullExact \/ SampleParts
  PROVE  IInv'
<1>1. BatchInv'
  BY SampleKeeps DEF IInv
<1>2. /\ phase \in {"condensed", "ordered"} /\ UNCHANGED <<setup, rows, minP, moved>>
  BY DEF SampleUnguided, SampleFullDense, SampleFullExact, SampleParts, Finish, Sampling,
         batchVars
<1>3. BatchInv /\ Used = 1 .. Count
  BY <1>2 DEF IInv, Contiguous
<1>4. Contiguous'
  BY <1>2, <1>3 DEF Contiguous, Used, Count
<1>5. SampledAsAsked' /\ FilteredByOwnMinP'
  BY <1>3, UnguidedOutcome, FullDenseOutcome, FullExactOutcome, PartsOutcome
<1> QED BY <1>1, <1>4, <1>5 DEF IInv

\* Every step keeps the invariant.
LEMMA NextInv == IInv /\ [Next]_vars => IInv'
<1> SUFFICES ASSUME IInv, [Next]_vars PROVE IInv'
  OBVIOUS
<1>0. BatchInv /\ Contiguous
  BY DEF IInv
<1>p. ASSUME phase' # "sampled" PROVE SampledAsAsked' /\ FilteredByOwnMinP'
  BY <1>p DEF SampledAsAsked, FilteredByOwnMinP
<1>1. ASSUME NEW r \in Requests, NEW i \in Indices, AddRequest(r, i) PROVE IInv'
  <2>1. phase' = "updating"
    BY <1>1 DEF AddRequest
  <2> QED BY <1>0, <1>1, <1>p, <2>1, AddKeeps DEF IInv, Contiguous
<1>2. ASSUME NEW i \in Indices, RemoveRequest(i) PROVE IInv'
  <2>1. phase' = "updating"
    BY <1>2 DEF RemoveRequest
  <2> QED BY <1>0, <1>2, <1>p, <2>1, RemoveKeeps DEF IInv, Contiguous
<1>3. ASSUME NEW from \in [Holes -> Movers], Condense(from) PROVE IInv'
  <2>1. phase' = "condensed"
    BY <1>3 DEF Condense
  <2>2. Used' = 1 .. Count' /\ BatchInv'
    BY <1>0, <1>3, CondensedIsPrefix, CondenseKeeps
  <2> QED BY <1>p, <2>1, <2>2 DEF IInv, Contiguous
<1>4. ASSUME NEW i \in Indices, NEW j \in Indices, SwapStates(i, j) PROVE IInv'
  <2>1. phase = "condensed" /\ phase' = "ordered"
    BY <1>4 DEF SwapStates
  <2>2. Used' = Used /\ BatchInv'
    BY <1>0, <1>4, SwapKeepsUsed, SwapKeeps
  <2>3. Contiguous'
    BY <1>0, <2>1, <2>2 DEF Contiguous, Count
  <2> QED BY <1>p, <2>1, <2>2, <2>3 DEF IInv
<1>5. CASE SampleRaises
  <2>1. phase' # "sampled" /\ phase' = phase /\ UNCHANGED <<setup, rows, minP, moved>>
    BY <1>5 DEF SampleRaises, Sampling, batchVars
  <2>2. BatchInv'
    BY <1>0, <1>5, SampleKeeps
  <2>3. Contiguous'
    BY <1>0, <2>1 DEF Contiguous, Used, Count
  <2> QED BY <1>p, <2>1, <2>2, <2>3 DEF IInv
<1>6. CASE UNCHANGED vars
  <2>1. UNCHANGED <<setup, rows, minP, moved, phase, outcome, raised>>
    BY <1>6 DEF vars, batchVars
  <2>2. BatchInv'
    BY <1>0, <2>1 DEF BatchInv, BatchTypes, UnmovedKeepMinP, Used, Of
  <2>3. Contiguous'
    BY <1>0, <2>1 DEF Contiguous, Used, Count
  <2>4. SampledAsAsked' /\ FilteredByOwnMinP'
    BY <2>1, PropertiesRead DEF IInv
  <2> QED BY <2>2, <2>3, <2>4 DEF IInv
<1> QED BY <1>1, <1>2, <1>3, <1>4, <1>5, <1>6, SampleInv DEF Next

\* The invariant holds in every reachable state.
THEOREM InvHolds == Spec => []IInv
<1>1. Init => IInv
  BY DEF Init, IInv, BatchInv, BatchTypes, UnmovedKeepMinP, Used, Contiguous,
         SampledAsAsked, FilteredByOwnMinP
<1> QED BY <1>1, NextInv, PTL DEF Spec

\* Whatever sequence of removals, additions, condensations and swaps vLLM makes, a
\* request that condense has not moved is filtered by the min-p it asked for
\* (install_input_batch_min_p_patch).
THEOREM MinPStaysWithRequest == Spec => []UnmovedKeepMinP
<1>1. IInv => UnmovedKeepMinP
  BY DEF IInv, BatchInv
<1> QED BY <1>1, InvHolds, PTL

\* Whichever section samples a row, it is sampled at its own request's temperature and
\* with its own request's generator (_select_generators, the masks of
\* sample_with_optional_modifier).
THEOREM AlwaysSampledAsAsked == Spec => []SampledAsAsked
<1>1. IInv => SampledAsAsked
  BY DEF IInv
<1> QED BY <1>1, InvHolds, PTL

\* Whichever section filters a row that condense has not moved, it filters it by its own
\* request's min-p (_select_subset_inputs, _vanilla_sample).
THEOREM AlwaysFilteredByOwn == Spec => []FilteredByOwnMinP
<1>1. IInv => FilteredByOwnMinP
  BY DEF IInv
<1> QED BY <1>1, InvHolds, PTL

\* In a setup that guides so, every step keeps the guidance the rows' own.
LEMMA GuidedStep ==
  ASSUME GuidedSetups, IInv, GuidedOnceByOwn, [Next]_vars
  PROVE  GuidedOnceByOwn'
<1>1. BatchInv /\ BatchTypes /\ Contiguous /\ GuidesOwn(setup) /\ raised # "index out of range"
  BY DEF IInv, BatchInv, BatchTypes, GuidedSetups, GuidedOnceByOwn
<1>2. ASSUME phase' # "sampled", raised' # "index out of range" PROVE GuidedOnceByOwn'
  BY <1>2, GuidedReads
<1>3. ASSUME NEW r \in Requests, NEW i \in Indices, AddRequest(r, i) PROVE GuidedOnceByOwn'
  BY <1>1, <1>2, <1>3 DEF AddRequest
<1>4. ASSUME NEW i \in Indices, RemoveRequest(i) PROVE GuidedOnceByOwn'
  BY <1>1, <1>2, <1>4 DEF RemoveRequest
<1>5. ASSUME NEW from \in [Holes -> Movers], Condense(from) PROVE GuidedOnceByOwn'
  BY <1>1, <1>2, <1>5 DEF Condense
<1>6. ASSUME NEW i \in Indices, NEW j \in Indices, SwapStates(i, j) PROVE GuidedOnceByOwn'
  BY <1>1, <1>2, <1>6 DEF SwapStates
<1>7. CASE SampleRaises
  BY <1>2, <1>7 DEF SampleRaises, Sampling
<1>8. CASE SampleUnguided \/ SampleFullDense \/ SampleFullExact \/ SampleParts
  <2>1. Used = 1 .. Count
    BY <1>1, <1>8 DEF Contiguous, SampleUnguided, SampleFullDense, SampleFullExact,
                      SampleParts, Sampling
  <2> QED
    BY <1>1, <1>8, <2>1, UnguidedGuides, FullDenseGuides, FullExactGuides, PartsGuide
<1>9. CASE UNCHANGED vars
  <2>1. UNCHANGED <<setup, rows, phase, outcome, raised>>
    BY <1>9 DEF vars, batchVars
  <2> QED
    BY <2>1, GuidedReads
<1> QED
  BY <1>3, <1>4, <1>5, <1>6, <1>7, <1>8, <1>9 DEF Next

\* Where the dense backend guides requests of one temperature, one prompt only has a model
\* of its own, and the post-filter backends with the bank sample one temperature or no
\* prompt twice, every row that has a distiller is guided once, by the prediction made for
\* its own prompt, and no other row is, whichever section samples it
\* (sample_with_optional_modifier, _subset_modifier_state, modify_rows_dense).
THEOREM AlwaysGuidedOnceByOwn == ASSUME GuidedSetups PROVE Spec => []GuidedOnceByOwn
<1>1. Init => GuidedOnceByOwn
  BY DEF Init, GuidedOnceByOwn
<1> QED BY <1>1, GuidedStep, InvHolds, PTL DEF Spec
=============================================================================
