--------------------------- MODULE DispatchProofs ---------------------------
(***************************************************************************)
(* Who is called, and with what: proved for every set of consumers, flows, *)
(* subscriptions, batches and bounds.                                      *)
(***************************************************************************)
EXTENDS Dispatch, OrderedSetsProofs

-----------------------------------------------------------------------------
(* The plan *)

\* The consumers a user has registered, and the runtime's own.
Registered == ToSet(registry) \cup {runtime}

RegistryInv ==
  /\ registry \in Seq(Consumers) /\ runtime \in Consumers \cup {None}
  /\ plan = PlanOf(registry, runtime)

\* Only who is registered is planned (_refresh_dispatch_plan).
LEMMA PlannedAreRegistered ==
  ASSUME RegistryInv
  PROVE  IsSeq(plan) /\ ToSet(plan) \subseteq Registered \cap Consumers
<1> DEFINE own == IF runtime = None THEN <<>> ELSE <<runtime>>
           all == registry \o own
           P   == {i \in DOMAIN all : Flows[all[i]] # <<>> \/ Subs[all[i]] # <<>>}
<1>1. IsSeq(registry) /\ ToSet(registry) \subseteq Consumers
  BY SeqOver DEF RegistryInv
<1>2. IsSeq(own) /\ ToSet(own) \subseteq Consumers \cap {runtime}
  <2>1. CASE runtime = None
    BY <2>1 DEF IsSeq, ToSet
  <2>2. CASE runtime # None
    BY <2>2 DEF IsSeq, ToSet, RegistryInv
  <2> QED
    BY <2>1, <2>2
<1>3. IsSeq(all) /\ ToSet(all) \subseteq Registered \cap Consumers
  <2> HIDE DEF own
  <2> QED
    BY <1>1, <1>2, Joined DEF Registered
<1>4. DOMAIN all = 1 .. Len(all) /\ \A i \in 1 .. Len(all) : all[i] \in ToSet(all)
  <2> HIDE DEF all
  <2> QED
    BY <1>3, SeqDomain
<1>5. plan = Kept(all, P)
  BY DEF RegistryInv, PlanOf
<1>6. P \in SUBSET (1 .. Len(all))
  BY <1>4
<1> HIDE DEF all, P
<1> QED
  BY <1>3, <1>4, <1>5, <1>6, KeptElements

\* An event goes to those planned (DispatchPlan.select, dispatch_runtime_event).
LEMMA EventCallsAre ==
  ASSUME RegistryInv, NEW event, NEW ph, NEW path, NEW capture, NEW entries
  PROVE  /\ IsSeq(EventCalls(event, ph, path, capture, entries))
         /\ \A x \in ToSet(EventCalls(event, ph, path, capture, entries)) :
              \E c \in ToSet(plan) : x = Call(c, event, path, 0, entries)
<1> DEFINE selected(c) == {j \in DOMAIN Subs[c] : Selects(Subs[c][j], event, ph, path, capture)}
           of(i) == [j \in 1 .. Cardinality(selected(plan[i])) |->
                       Call(plan[i], event, path, 0, entries)]
           ss == [i \in DOMAIN plan |-> of(i)]
<1>1. /\ Len(plan) \in Nat /\ DOMAIN plan = 1 .. Len(plan)
      /\ \A i \in 1 .. Len(plan) : plan[i] \in ToSet(plan) /\ plan[i] \in Consumers
  BY PlannedAreRegistered, SeqDomain
<1>2. EventCalls(event, ph, path, capture, entries) = FlattenSeq(ss)
  BY DEF EventCalls
<1>3. ASSUME NEW i \in 1 .. Len(plan)
      PROVE  /\ IsSeq(of(i))
             /\ \A x \in ToSet(of(i)) : x = Call(plan[i], event, path, 0, entries)
  <2>1. Subs[plan[i]] \in Seq(SubType)
    BY <1>1, ConsumerAssumption
  <2>2. Len(Subs[plan[i]]) \in Nat /\ DOMAIN Subs[plan[i]] = 1 .. Len(Subs[plan[i]])
    BY <2>1, Elements
  <2>3. IsFiniteSet(selected(plan[i]))
    <3>1. selected(plan[i]) \in SUBSET (1 .. Len(Subs[plan[i]]))
      BY <2>2
    <3>2. IsFiniteSet(1 .. Len(Subs[plan[i]]))
      BY <2>2, FS_Interval
    <3> HIDE DEF selected
    <3> QED
      BY <3>1, <3>2, FS_Subset
  <2>4. Cardinality(selected(plan[i])) \in Nat
    BY <2>3, FS_CardinalityType
  <2> HIDE DEF selected
  <2>5. IsSeq(of(i)) /\ DOMAIN of(i) = 1 .. Cardinality(selected(plan[i]))
    BY <2>4, Listed
  <2>6. \A j \in DOMAIN of(i) : of(i)[j] = Call(plan[i], event, path, 0, entries)
    OBVIOUS
  <2> HIDE DEF of
  <2> QED
    BY <2>5, <2>6 DEF ToSet
<1> HIDE DEF of
<1>4. IsSeq(ss) /\ Len(ss) = Len(plan) /\ \A i \in 1 .. Len(plan) : ss[i] = of(i)
  BY <1>1, Listed
<1> HIDE DEF ss
<1>5. /\ IsSeq(FlattenSeq(ss))
      /\ \A x \in ToSet(FlattenSeq(ss)) : \E i \in 1 .. Len(ss) : x \in ToSet(ss[i])
  BY <1>3, <1>4, FlattenElements
<1>6. ASSUME NEW x \in ToSet(FlattenSeq(ss))
      PROVE  \E c \in ToSet(plan) : x = Call(c, event, path, 0, entries)
  <2>1. PICK i \in 1 .. Len(plan) : x \in ToSet(of(i))
    BY <1>4, <1>5
  <2> QED
    BY <1>1, <1>3, <2>1
<1> QED
  BY <1>2, <1>5, <1>6

-----------------------------------------------------------------------------
(* The bundles put together from frames *)

Unassembled == [out |-> <<>>, pending |-> [g \in {} |-> NoEntries]]

\* f[m] is the state of the assembler after m frames.
Assembles(f, flow, frames, N) ==
  f = [n \in 0 .. N |-> IF n = 0 THEN Unassembled ELSE Push(flow, f[n - 1], frames[n])]

\* However many frames there are, they can be pushed.
LEMMA AssemblesExist ==
  ASSUME NEW flow, NEW frames, NEW N \in Nat
  PROVE  \E f : Assembles(f, flow, frames, N)
<1> DEFINE T == {n \in 0 .. N : \E f : Assembles(f, flow, frames, n)}
<1>1. 0 \in T
  <2>1. Assembles([n \in 0 .. 0 |-> Unassembled], flow, frames, 0)
    BY DEF Assembles
  <2> QED
    BY <2>1
<1>2. ASSUME NEW m \in 0 .. N - 1, m \in T PROVE m + 1 \in T
  <2>1. m \in Nat /\ m + 1 \in 0 .. N
    OBVIOUS
  <2>2. PICK f : Assembles(f, flow, frames, m)
    BY <1>2
  <2> DEFINE g == [n \in 0 .. m + 1 |-> IF n <= m THEN f[n] ELSE Push(flow, f[m], frames[n])]
             h == [n \in 0 .. m + 1 |->
                     IF n = 0 THEN Unassembled ELSE Push(flow, g[n - 1], frames[n])]
  <2>3. ASSUME NEW n \in 0 .. m + 1 PROVE g[n] = h[n]
    <3>1. CASE n = 0
      BY <2>1, <2>2, <3>1 DEF Assembles
    <3>2. CASE n # 0 /\ n <= m
      <4>1. n \in 0 .. m /\ n - 1 \in 0 .. m + 1 /\ n - 1 <= m
        BY <2>1, <3>2
      <4>2. g[n] = f[n] /\ g[n - 1] = f[n - 1]
        BY <4>1, <3>2
      <4>3. h[n] = Push(flow, g[n - 1], frames[n])
        BY <3>2
      <4>4. f[n] = Push(flow, f[n - 1], frames[n])
        BY <2>2, <4>1, <3>2 DEF Assembles
      <4> QED
        BY <4>2, <4>3, <4>4
    <3>3. CASE n = m + 1
      <4>1. m \in 0 .. m + 1 /\ n - 1 = m /\ ~(n <= m) /\ m <= m /\ n # 0
        BY <2>1, <3>3
      <4>2. g[m] = f[m]
        BY <4>1
      <4>3. g[n] = Push(flow, f[m], frames[n])
        BY <4>1
      <4>4. h[n] = Push(flow, g[n - 1], frames[n])
        BY <4>1
      <4> QED
        BY <4>1, <4>2, <4>3, <4>4
    <3> QED
      BY <2>1, <3>1, <3>2, <3>3
  <2>4. g = h
    BY <2>3
  <2>5. Assembles(g, flow, frames, m + 1)
    BY <2>4 DEF Assembles
  <2> QED
    BY <2>1, <2>5
<1>3. N \in T
  <2> HIDE DEF T
  <2> QED
    BY <1>1, <1>2, Upto
<1> QED
  BY <1>3

\* The loop of dispatch_decode_port_bundles over the frames of a flow.
LEMMA Assembly ==
  ASSUME NEW flow, NEW frames, Len(frames) \in Nat
  PROVE  \E f : /\ f[0] = Unassembled
                /\ \A n \in 0 .. Len(frames) - 1 : f[n + 1] = Push(flow, f[n], frames[n + 1])
                /\ Assemble(flow, frames)
                     = f[Len(frames)].out \o Finalized(flow, f[Len(frames)].pending)
<1> DEFINE N == Len(frames)
           f == CHOOSE g : Assembles(g, flow, frames, N)
<1>1. Assembles(f, flow, frames, N)
  BY AssemblesExist
<1>2. Assemble(flow, frames) = f[N].out \o Finalized(flow, f[N].pending)
  BY DEF Assemble, Assembles, Unassembled
<1> HIDE DEF f
<1>3. f[0] = Unassembled
  BY <1>1 DEF Assembles
<1>4. ASSUME NEW n \in 0 .. N - 1 PROVE f[n + 1] = Push(flow, f[n], frames[n + 1])
  <2> DEFINE k == n + 1
  <2>1. k \in 0 .. N /\ k # 0 /\ k - 1 = n
    OBVIOUS
  <2> HIDE DEF k
  <2>2. f[k] = Push(flow, f[k - 1], frames[k])
    BY <1>1, <2>1 DEF Assembles
  <2>3. f[k] = Push(flow, f[n], frames[k])
    BY <2>1, <2>2
  <2> QED
    BY <2>3 DEF k
<1> QED
  BY <1>2, <1>3, <1>4

\* Bundles come out one behind the other, and groups are numbered.
AssemblyType(state, n) ==
  /\ state = [out |-> state.out, pending |-> state.pending]
  /\ IsSeq(state.out)
  /\ DOMAIN state.pending \subseteq 0 .. n

\* A frame pushed keeps this (BundleAssembler.push).
LEMMA PushKeepsType ==
  ASSUME NEW flow, NEW n \in Nat, NEW state, AssemblyType(state, n), NEW frame,
         frame.payload.row \in 1 .. n
  PROVE  AssemblyType(Push(flow, state, frame), n)
<1> DEFINE takers == {k \in DOMAIN flow.reads : flow.reads[k].src = frame.src}
           read   == flow.reads[CHOOSE k \in takers : \A j \in takers : k <= j]
           group  == GroupOf(flow, frame)
           old    == IF group \in DOMAIN state.pending THEN state.pending[group] ELSE NoEntries
           new    == Merged(flow, old, read.name, frame.payload)
           left   == [g \in DOMAIN state.pending \ {group} |-> state.pending[g]]
<1>1. group \in 0 .. n
  BY DEF GroupOf
<1>2. \/ Push(flow, state, frame) = state
      \/ Push(flow, state, frame) = [out |-> Append(state.out, new), pending |-> left]
      \/ Push(flow, state, frame) = [state EXCEPT !.pending = Put(@, group, new)]
  BY DEF Push
<1> HIDE DEF group, new
<1>3. state = [out |-> state.out, pending |-> state.pending] /\ IsSeq(state.out)
      /\ DOMAIN state.pending \subseteq 0 .. n
  BY DEF AssemblyType
<1>4. AssemblyType([out |-> Append(state.out, new), pending |-> left], n)
  <2>1. IsSeq(Append(state.out, new))
    <3>1. IsSeq(<<new>>) /\ Append(state.out, new) = state.out \o <<new>>
      BY <1>3 DEF IsSeq, ToSet
    <3> QED
      BY <1>3, <3>1, Joined
  <2>2. DOMAIN left \subseteq 0 .. n
    BY <1>3
  <2> HIDE DEF left
  <2> QED
    BY <2>1, <2>2 DEF AssemblyType
<1>5. AssemblyType([state EXCEPT !.pending = Put(@, group, new)], n)
  <2>1. [state EXCEPT !.pending = Put(@, group, new)]
          = [out |-> state.out, pending |-> Put(state.pending, group, new)]
    BY <1>3
  <2>2. DOMAIN Put(state.pending, group, new) \subseteq 0 .. n
    BY <1>1, <1>3 DEF Put
  <2> QED
    BY <1>3, <2>1, <2>2 DEF AssemblyType
<1> QED
  BY <1>2, <1>4, <1>5

\* The groups finalized are a sequence, in the order of their numbers.
LEMMA FinalizedAre ==
  ASSUME NEW flow, NEW n \in Nat, NEW pending, DOMAIN pending \subseteq 0 .. n
  PROVE  /\ IsSeq(Finalized(flow, pending))
         /\ \A x \in ToSet(Finalized(flow, pending)) :
              \E g \in DOMAIN pending : x = pending[g] /\ Complete(flow, pending[g])
<1> DEFINE P == {g \in DOMAIN pending : Complete(flow, pending[g])}
           at == Ordered(P)
           bundles == [i \in DOMAIN at |-> pending[at[i]]]
<1>1. P \in SUBSET Nat /\ IsFiniteSet(P)
  <2>1. P \in SUBSET (0 .. n) /\ IsFiniteSet(0 .. n)
    BY FS_Interval
  <2>2. IsFiniteSet(P)
    BY <2>1, FS_Subset
  <2> QED
    BY <2>1, <2>2
<1>2. Finalized(flow, pending) = bundles
  BY DEF Finalized
<1>3. at \in Seq(P)
  <2> HIDE DEF P
  <2> QED
    BY <1>1, OrderedSequence
<1>4. Len(at) \in Nat /\ DOMAIN at = 1 .. Len(at) /\ \A i \in DOMAIN at : at[i] \in P
  BY <1>3, Elements
<1> HIDE DEF at
<1>5. IsSeq(bundles) /\ DOMAIN bundles = 1 .. Len(at)
  BY <1>4, Listed
<1>6. \A i \in DOMAIN bundles : bundles[i] = pending[at[i]] /\ at[i] \in P
  BY <1>4, <1>5
<1> HIDE DEF bundles
<1> QED
  BY <1>2, <1>5, <1>6 DEF ToSet

\* The bundles of a flow are a sequence.
LEMMA AssembleIsSeq ==
  ASSUME NEW flow, NEW n \in Nat, NEW frames, IsSeq(frames),
         \A f \in ToSet(frames) : f.payload.row \in 1 .. n
  PROVE  IsSeq(Assemble(flow, frames))
<1> DEFINE N == Len(frames)
<1>1. N \in Nat /\ \A m \in 1 .. N : frames[m] \in ToSet(frames)
  BY SeqDomain
<1>2. PICK f : /\ f[0] = Unassembled
               /\ \A m \in 0 .. N - 1 : f[m + 1] = Push(flow, f[m], frames[m + 1])
               /\ Assemble(flow, frames) = f[N].out \o Finalized(flow, f[N].pending)
  BY <1>1, Assembly
<1> DEFINE T == {m \in 0 .. N : AssemblyType(f[m], n)}
<1>3. 0 \in T
  <2>1. IsSeq(<<>>)
    BY DEF IsSeq, ToSet
  <2>2. AssemblyType(Unassembled, n)
    BY <2>1 DEF AssemblyType, Unassembled
  <2> QED
    BY <1>1, <1>2, <2>2
<1>4. \A m \in 0 .. N - 1 : m \in T => m + 1 \in T
  <2>1. ASSUME NEW m \in 0 .. N - 1, m \in T PROVE m + 1 \in T
    <3>1. m + 1 \in 1 .. N /\ m + 1 \in 0 .. N
      BY <1>1
    <3>2. frames[m + 1].payload.row \in 1 .. n
      BY <1>1, <3>1
    <3>3. AssemblyType(f[m + 1], n)
      BY <1>2, <2>1, <3>2, PushKeepsType
    <3> QED
      BY <3>1, <3>3
  <2> QED
    BY <2>1
<1>5. N \in T
  <2> HIDE DEF T, N
  <2>1. \A m \in 0 .. N : m \in T
    BY <1>1, <1>3, <1>4, Upto
  <2> QED
    BY <1>1, <2>1
<1>6. IsSeq(f[N].out) /\ DOMAIN f[N].pending \subseteq 0 .. n
  BY <1>5 DEF AssemblyType
<1>7. IsSeq(Finalized(flow, f[N].pending))
  BY <1>6, FinalizedAre
<1> QED
  BY <1>2, <1>6, <1>7, Joined

-----------------------------------------------------------------------------
(* The frames of a step: each port has one for each row, in order *)

Srcs  == {"source", "target", "meta"}
Zero  == [src \in Srcs |-> 0]

\* Where the rows of a port are read.
Place(src) == IF src = "meta" THEN "meta" ELSE PathOf[src]

\* c says how many frames of each port there were before this one, d with it.
Counted(n, c, frame, d) ==
  /\ frame.src \in Srcs /\ c[frame.src] < n
  /\ frame.payload = Payload(Place(frame.src), c[frame.src] + 1)
  /\ d = [c EXCEPT ![frame.src] = @ + 1]

\* cs counts the frames, from c to d.
Counts(n, frames, c, d, cs) ==
  /\ cs \in [0 .. Len(frames) -> [Srcs -> Nat]]
  /\ cs[0] = c /\ cs[Len(frames)] = d
  /\ \A m \in 0 .. Len(frames) - 1 : Counted(n, cs[m], frames[m + 1], cs[m + 1])

Runs(n, frames, c, d) == \E cs : Counts(n, frames, c, d, cs)

LEMMA RunsNone ==
  ASSUME NEW n, NEW c \in [Srcs -> Nat]
  PROVE  Runs(n, <<>>, c, c)
<1> DEFINE cs == [m \in 0 .. 0 |-> c]
<1>1. Counts(n, <<>>, c, c, cs)
  BY DEF Counts
<1> QED
  BY <1>1 DEF Runs

LEMMA RunsOne ==
  ASSUME NEW n, NEW c \in [Srcs -> Nat], NEW d, NEW frame, Counted(n, c, frame, d)
  PROVE  Runs(n, <<frame>>, c, d)
<1> DEFINE cs == [m \in 0 .. 1 |-> IF m = 0 THEN c ELSE d]
<1>1. d \in [Srcs -> Nat]
  BY DEF Counted
<1>2. cs \in [0 .. Len(<<frame>>) -> [Srcs -> Nat]]
  BY <1>1
<1>3. cs[0] = c /\ cs[1] = d /\ Len(<<frame>>) = 1 /\ <<frame>>[1] = frame
  OBVIOUS
<1> HIDE DEF cs
<1>4. \A m \in 0 .. Len(<<frame>>) - 1 : Counted(n, cs[m], <<frame>>[m + 1], cs[m + 1])
  <2>1. \A m \in 0 .. Len(<<frame>>) - 1 : m = 0
    BY <1>3
  <2>2. Counted(n, cs[0], <<frame>>[0 + 1], cs[0 + 1])
    BY <1>3
  <2> QED
    BY <2>1, <2>2
<1>5. Counts(n, <<frame>>, c, d, cs)
  BY <1>2, <1>3, <1>4 DEF Counts
<1> QED
  BY <1>5 DEF Runs

LEMMA RunsJoined ==
  ASSUME NEW n, NEW c, NEW d, NEW e, NEW s, IsSeq(s), NEW t, IsSeq(t),
         Runs(n, s, c, d), Runs(n, t, d, e)
  PROVE  Runs(n, s \o t, c, e)
<1> DEFINE S == Len(s)
           R == Len(t)
<1>1. S \in Nat /\ R \in Nat
  BY SeqDomain
<1>2. PICK cs : Counts(n, s, c, d, cs)
  BY DEF Runs
<1>3. PICK ds : Counts(n, t, d, e, ds)
  BY DEF Runs
<1> DEFINE es == [m \in 0 .. S + R |-> IF m <= S THEN cs[m] ELSE ds[m - S]]
<1>4. /\ Len(s \o t) = S + R
      /\ \A i \in 1 .. S : (s \o t)[i] = s[i]
      /\ \A i \in 1 .. R : (s \o t)[S + i] = t[i]
  BY Joined
<1>5. /\ cs \in [0 .. S -> [Srcs -> Nat]] /\ cs[0] = c /\ cs[S] = d
      /\ \A m \in 0 .. S - 1 : Counted(n, cs[m], s[m + 1], cs[m + 1])
  BY <1>2 DEF Counts
<1>6. /\ ds \in [0 .. R -> [Srcs -> Nat]] /\ ds[0] = d /\ ds[R] = e
      /\ \A m \in 0 .. R - 1 : Counted(n, ds[m], t[m + 1], ds[m + 1])
  BY <1>3 DEF Counts
<1> HIDE DEF S, R
<1>7. \A m \in 0 .. S : es[m] = cs[m]
  BY <1>1
<1>8. \A m \in 0 .. R : es[S + m] = ds[m]
  <2>1. ASSUME NEW m \in 0 .. R PROVE es[S + m] = ds[m]
    <3>1. CASE m = 0
      BY <1>1, <1>5, <1>6, <3>1
    <3>2. CASE m # 0
      <4>1. S + m \in 0 .. S + R /\ ~(S + m <= S) /\ (S + m) - S = m
        BY <1>1, <3>2
      <4> QED
        BY <4>1
    <3> QED
      BY <3>1, <3>2
  <2> QED
    BY <2>1
<1>9. es \in [0 .. S + R -> [Srcs -> Nat]]
  <2>1. ASSUME NEW m \in 0 .. S + R PROVE es[m] \in [Srcs -> Nat]
    <3>1. CASE m <= S
      BY <1>1, <1>5, <3>1
    <3>2. CASE ~(m <= S)
      <4>1. m - S \in 0 .. R
        BY <1>1, <3>2
      <4> QED
        BY <1>6, <3>2, <4>1
    <3> QED
      BY <3>1, <3>2
  <2> QED
    BY <2>1
<1> HIDE DEF es
<1>10. ASSUME NEW m \in 0 .. S + R - 1
       PROVE  Counted(n, es[m], (s \o t)[m + 1], es[m + 1])
  <2>1. CASE m < S
    <3>1. m \in 0 .. S - 1 /\ m \in 0 .. S /\ m + 1 \in 0 .. S /\ m + 1 \in 1 .. S
      BY <1>1, <2>1
    <3>2. es[m] = cs[m] /\ es[m + 1] = cs[m + 1] /\ (s \o t)[m + 1] = s[m + 1]
      BY <1>4, <1>7, <3>1
    <3> QED
      BY <1>5, <3>1, <3>2
  <2>2. CASE ~(m < S)
    <3> DEFINE k == m - S
    <3>1. /\ k \in 0 .. R - 1 /\ k \in 0 .. R /\ k + 1 \in 0 .. R /\ k + 1 \in 1 .. R
          /\ m = S + k /\ m + 1 = S + (k + 1)
      BY <1>1, <2>2
    <3> HIDE DEF k
    <3>2. es[m] = ds[k] /\ es[m + 1] = ds[k + 1] /\ (s \o t)[m + 1] = t[k + 1]
      BY <1>4, <1>8, <3>1
    <3> QED
      BY <1>6, <3>1, <3>2
  <2> QED
    BY <2>1, <2>2
<1>11. es[0] = c /\ es[S + R] = e
  BY <1>1, <1>5, <1>6, <1>7, <1>8
<1>12. Counts(n, s \o t, c, e, es)
  <2> DEFINE u == s \o t
  <2>1. Len(u) = S + R
    BY <1>4
  <2>2. \A m \in 0 .. S + R - 1 : Counted(n, es[m], u[m + 1], es[m + 1])
    BY <1>10
  <2> HIDE DEF u
  <2>3. es \in [0 .. Len(u) -> [Srcs -> Nat]] /\ es[0] = c /\ es[Len(u)] = e
    BY <1>9, <1>11, <2>1
  <2>4. ASSUME NEW m \in 0 .. Len(u) - 1
        PROVE  Counted(n, es[m], u[m + 1], es[m + 1])
    <3>1. m \in 0 .. S + R - 1
      BY <1>1, <2>1
    <3> QED
      BY <2>2, <3>1
  <2>5. Counts(n, u, c, e, es)
    BY <2>3, <2>4, Zenon DEF Counts
  <2> QED
    BY <2>5 DEF u
<1> QED
  BY <1>12 DEF Runs

\* The counts after i rows of binding b: a frame of its port for each, and one of the
\* metadata if it carries them.
After(c, b, i) ==
  [src \in Srcs |-> IF src = b.src \/ (src = "meta" /\ b.meta) THEN i ELSE c[src]]

\* A binding of a residual locator.
BindingOk(b) == b.src \in Layers /\ b.path = PathOf[b.src] /\ b.meta \in BOOLEAN

\* Each locator has one binding, and one of them carries the metadata at most.
BindingsOk(bs) ==
  /\ IsSeq(bs)
  /\ \A k \in 1 .. Len(bs) : BindingOk(bs[k])
  /\ \A k, l \in 1 .. Len(bs) : k < l => bs[k].src # bs[l].src /\ ~(bs[k].meta /\ bs[l].meta)

FramesOfRow(b, i) ==
  <<Frame(b.src, b.path, i)>> \o (IF b.meta THEN <<Frame("meta", "meta", i)>> ELSE <<>>)

\* The frames of one row count it.
LEMMA RowIsCounted ==
  ASSUME NEW n \in Nat, NEW b, BindingOk(b), NEW c \in [Srcs -> Nat], NEW i \in 0 .. n - 1
  PROVE  /\ IsSeq(FramesOfRow(b, i + 1))
         /\ Runs(n, FramesOfRow(b, i + 1), After(c, b, i), After(c, b, i + 1))
<1> DEFINE own == Frame(b.src, b.path, i + 1)
           meta == Frame("meta", "meta", i + 1)
           c0 == After(c, b, i)
           c1 == [c0 EXCEPT ![b.src] = @ + 1]
           c2 == After(c, b, i + 1)
<1>1. /\ b.src \in Srcs /\ b.src # "meta" /\ b.path = PathOf[b.src] /\ b.meta \in BOOLEAN
      /\ i \in Nat /\ i + 1 \in Nat /\ i < n
  BY DEF BindingOk, Layers, Srcs
<1>2. c0 \in [Srcs -> Nat] /\ c2 \in [Srcs -> Nat] /\ c1 \in [Srcs -> Nat] /\ c0[b.src] = i
  BY <1>1 DEF After
<1>3. Counted(n, c0, own, c1)
  BY <1>1, <1>2 DEF Counted, Frame, Payload, Place
<1>4. IsSeq(<<own>>) /\ Runs(n, <<own>>, c0, c1)
  <2>1. IsSeq(<<own>>)
    BY DEF IsSeq, ToSet
  <2> HIDE DEF c0, c1, own
  <2> QED
    BY <1>2, <1>3, <2>1, RunsOne
<1>5. CASE ~b.meta
  <2>1. c1 = c2
    <3>1. ASSUME NEW src \in Srcs PROVE c1[src] = c2[src]
      BY <1>1, <1>5 DEF After
    <3>2. c1 = [src \in Srcs |-> c1[src]] /\ c2 = [src \in Srcs |-> c2[src]]
      BY <1>2
    <3> HIDE DEF c1, c2
    <3> QED
      BY <3>1, <3>2
  <2>2. FramesOfRow(b, i + 1) = <<own>>
    BY <1>5 DEF FramesOfRow
  <2> HIDE DEF own, c0, c1, c2
  <2> QED
    BY <1>4, <2>1, <2>2 DEF c0, c2
<1>6. CASE b.meta
  <2>1. c1["meta"] = i /\ "meta" \in Srcs
    BY <1>1, <1>6 DEF After, Srcs
  <2>2. c2 = [c1 EXCEPT !["meta"] = @ + 1]
    <3> DEFINE d == [c1 EXCEPT !["meta"] = @ + 1]
    <3>1. ASSUME NEW src \in Srcs PROVE d[src] = c2[src]
      BY <1>1, <1>6 DEF After
    <3>2. d = [src \in Srcs |-> d[src]] /\ c2 = [src \in Srcs |-> c2[src]]
      BY <1>2
    <3> HIDE DEF d, c2
    <3>3. d = c2
      BY <3>1, <3>2
    <3> QED
      BY <3>3 DEF d
  <2>3. Counted(n, c1, meta, c2)
    <3> HIDE DEF c1, c2
    <3> QED
      BY <1>1, <2>1, <2>2 DEF Counted, Frame, Payload, Place
  <2>4. IsSeq(<<meta>>) /\ Runs(n, <<meta>>, c1, c2)
    <3>1. IsSeq(<<meta>>)
      BY DEF IsSeq, ToSet
    <3> HIDE DEF c1, c2, meta
    <3> QED
      BY <1>2, <2>3, <3>1, RunsOne
  <2>5. FramesOfRow(b, i + 1) = <<own>> \o <<meta>>
    BY <1>6 DEF FramesOfRow
  <2> HIDE DEF own, meta, c0, c1, c2
  <2>6. IsSeq(<<own>> \o <<meta>>) /\ Runs(n, <<own>> \o <<meta>>, c0, c2)
    BY <1>4, <2>4, RunsJoined, Joined
  <2> QED
    BY <2>5, <2>6 DEF c0, c2
<1> QED
  BY <1>1, <1>5, <1>6

\* The frames of a binding, row by row.
FramesOfBinding(b, n) == FlattenSeq([i \in 1 .. n |-> FramesOfRow(b, i)])

LEMMA BindingIsCounted ==
  ASSUME NEW n \in Nat, NEW b, BindingOk(b), NEW c \in [Srcs -> Nat],
         c[b.src] = 0, b.meta => c["meta"] = 0
  PROVE  IsSeq(FramesOfBinding(b, n)) /\ Runs(n, FramesOfBinding(b, n), c, After(c, b, n))
<1> DEFINE ss == [i \in 1 .. n |-> FramesOfRow(b, i)]
<1>1. /\ IsSeq(ss) /\ Len(ss) = n
      /\ \A i \in 1 .. n : ss[i] = FramesOfRow(b, i)
  BY Listed
<1>2. \A i \in 0 .. n - 1 :
        /\ IsSeq(ss[i + 1])
        /\ Runs(n, ss[i + 1], After(c, b, i), After(c, b, i + 1))
  <2>1. ASSUME NEW i \in 0 .. n - 1
        PROVE  /\ IsSeq(ss[i + 1])
               /\ Runs(n, ss[i + 1], After(c, b, i), After(c, b, i + 1))
    <3>1. i + 1 \in 1 .. n /\ ss[i + 1] = FramesOfRow(b, i + 1)
      BY <1>1
    <3> HIDE DEF ss
    <3> QED
      BY <3>1, RowIsCounted
  <2> QED
    BY <2>1
<1> HIDE DEF ss
<1>3. \A i \in 1 .. Len(ss) : IsSeq(ss[i])
  <2>1. ASSUME NEW i \in 1 .. Len(ss) PROVE IsSeq(ss[i])
    <3>1. i - 1 \in 0 .. n - 1 /\ (i - 1) + 1 = i
      BY <1>1
    <3> QED
      BY <1>2, <3>1
  <2> QED
    BY <2>1
<1>4. PICK f : /\ f[0] = <<>>
               /\ \A m \in 0 .. n - 1 : f[m + 1] = f[m] \o ss[m + 1]
               /\ FlattenSeq(ss) = f[n]
  BY <1>1, <1>3, Flattening
<1> DEFINE T == {m \in 0 .. n : IsSeq(f[m]) /\ Runs(n, f[m], c, After(c, b, m))}
<1>5. 0 \in T
  <2>1. After(c, b, 0) = c
    BY DEF After
  <2>2. IsSeq(<<>>)
    BY DEF IsSeq, ToSet
  <2>3. 0 \in 0 .. n
    OBVIOUS
  <2> QED
    BY <1>4, <2>1, <2>2, <2>3, RunsNone
<1>6. \A m \in 0 .. n - 1 : m \in T => m + 1 \in T
  <2>1. ASSUME NEW m \in 0 .. n - 1, m \in T PROVE m + 1 \in T
    <3>1. m + 1 \in 0 .. n
      OBVIOUS
    <3>2. IsSeq(f[m]) /\ Runs(n, f[m], c, After(c, b, m))
      BY <2>1
    <3>3. /\ IsSeq(ss[m + 1]) /\ Runs(n, ss[m + 1], After(c, b, m), After(c, b, m + 1))
          /\ f[m + 1] = f[m] \o ss[m + 1]
      BY <1>2, <1>4
    <3>4. IsSeq(f[m + 1]) /\ Runs(n, f[m + 1], c, After(c, b, m + 1))
      BY <3>2, <3>3, RunsJoined, Joined
    <3> QED
      BY <3>1, <3>4
  <2> QED
    BY <2>1
<1>7. n \in T
  <2> HIDE DEF T
  <2> QED
    BY <1>5, <1>6, Upto
<1>8. FramesOfBinding(b, n) = f[n]
  BY <1>4 DEF FramesOfBinding, ss
<1> QED
  BY <1>7, <1>8

\* The counts after the first k bindings.
Full(bs, n, k) ==
  [src \in Srcs |->
     IF \E l \in 1 .. k : src = bs[l].src \/ (src = "meta" /\ bs[l].meta) THEN n ELSE 0]

\* All the frames of a step: as many for a port as there are rows, or none.
LEMMA FramesAreCounted ==
  ASSUME NEW n \in Nat, NEW bs, BindingsOk(bs)
  PROVE  /\ IsSeq(FramesOf(bs, n))
         /\ Runs(n, FramesOf(bs, n), Zero, Full(bs, n, Len(bs)))
<1> DEFINE N == Len(bs)
           ss == [k \in 1 .. N |-> FramesOfBinding(bs[k], n)]
<1>1. N \in Nat /\ DOMAIN bs = 1 .. N
  BY SeqDomain DEF BindingsOk
<1>2. FramesOf(bs, n) = FlattenSeq(ss)
  BY <1>1 DEF FramesOf, FramesOfBinding, FramesOfRow
<1>3. /\ \A k \in 1 .. N : BindingOk(bs[k])
      /\ \A k, l \in 1 .. N : k < l => bs[k].src # bs[l].src /\ ~(bs[k].meta /\ bs[l].meta)
  BY DEF BindingsOk
<1> HIDE DEF N
<1>4. ASSUME NEW k \in 0 .. N - 1
      PROVE  /\ IsSeq(FramesOfBinding(bs[k + 1], n))
             /\ Runs(n, FramesOfBinding(bs[k + 1], n), Full(bs, n, k), Full(bs, n, k + 1))
  <2> DEFINE j == k + 1
             b == bs[j]
  <2>1. k \in Nat /\ j \in 1 .. N /\ BindingOk(b) /\ j = k + 1
    BY <1>1, <1>3
  <2>2. \A l \in 1 .. k : l \in 1 .. N /\ l < j
    BY <1>1
  <2> HIDE DEF j
  <2>3. b.src \in Srcs /\ b.src # "meta"
    BY <2>1 DEF BindingOk, Layers, Srcs
  <2>4. Full(bs, n, k) \in [Srcs -> Nat]
    BY DEF Full
  <2>5. \A l \in 1 .. k : bs[l].src # b.src /\ ~(bs[l].meta /\ b.meta)
    BY <1>3, <2>1, <2>2
  <2>6. Full(bs, n, k)[b.src] = 0
    BY <2>3, <2>5 DEF Full
  <2>7. b.meta => Full(bs, n, k)["meta"] = 0
    <3>1. ASSUME b.meta PROVE Full(bs, n, k)["meta"] = 0
      <4>1. \A l \in 1 .. k : ~bs[l].meta
        BY <2>5, <3>1
      <4>2. \A l \in 1 .. k : bs[l].src # "meta"
        BY <1>3, <2>2 DEF BindingOk, Layers
      <4> QED
        BY <4>1, <4>2 DEF Full, Srcs
    <3> QED
      BY <3>1
  <2>8. After(Full(bs, n, k), b, n) = Full(bs, n, j)
    <3>1. \A l : l \in 1 .. j <=> l \in 1 .. k \/ l = j
      BY <2>1
    <3>2. \A src : (\E l \in 1 .. j : src = bs[l].src \/ (src = "meta" /\ bs[l].meta))
            <=> \/ \E l \in 1 .. k : src = bs[l].src \/ (src = "meta" /\ bs[l].meta)
                \/ src = bs[j].src \/ (src = "meta" /\ bs[j].meta)
      BY <3>1, Zenon
    <3>3. ASSUME NEW src \in Srcs
          PROVE  After(Full(bs, n, k), b, n)[src] = Full(bs, n, j)[src]
      BY <3>2 DEF After, Full
    <3>4. After(Full(bs, n, k), b, n) = [src \in Srcs |-> After(Full(bs, n, k), b, n)[src]]
      BY DEF After
    <3>5. Full(bs, n, j) = [src \in Srcs |-> Full(bs, n, j)[src]]
      BY DEF Full
    <3> QED
      BY <3>3, <3>4, <3>5
  <2> HIDE DEF b
  <2>9. /\ IsSeq(FramesOfBinding(b, n))
        /\ Runs(n, FramesOfBinding(b, n), Full(bs, n, k), After(Full(bs, n, k), b, n))
    BY <2>1, <2>4, <2>6, <2>7, BindingIsCounted
  <2>10. b = bs[k + 1] /\ j = k + 1
    BY DEF b, j
  <2> QED
    BY <2>8, <2>9, <2>10
<1>5. /\ IsSeq(ss) /\ Len(ss) = N
      /\ \A k \in 1 .. N : ss[k] = FramesOfBinding(bs[k], n)
  BY <1>1, Listed
<1> HIDE DEF ss
<1>6. \A k \in 0 .. N - 1 : k + 1 \in 1 .. N /\ ss[k + 1] = FramesOfBinding(bs[k + 1], n)
  BY <1>1, <1>5
<1>7. \A k \in 1 .. N : IsSeq(ss[k])
  <2>1. ASSUME NEW k \in 1 .. N PROVE IsSeq(ss[k])
    <3>1. k - 1 \in 0 .. N - 1 /\ (k - 1) + 1 = k
      BY <1>1
    <3> QED
      BY <1>4, <1>6, <3>1
  <2> QED
    BY <2>1
<1>8. PICK f : /\ f[0] = <<>>
               /\ \A m \in 0 .. N - 1 : f[m + 1] = f[m] \o ss[m + 1]
               /\ FlattenSeq(ss) = f[N]
  BY <1>5, <1>7, Flattening
<1> DEFINE T == {m \in 0 .. N : IsSeq(f[m]) /\ Runs(n, f[m], Zero, Full(bs, n, m))}
<1>9. 0 \in T
  <2>1. Full(bs, n, 0) = Zero /\ Zero \in [Srcs -> Nat]
    BY DEF Full, Zero
  <2>2. IsSeq(<<>>)
    BY DEF IsSeq, ToSet
  <2>3. 0 \in 0 .. N
    BY <1>1
  <2> QED
    BY <1>8, <2>1, <2>2, <2>3, RunsNone
<1>10. \A m \in 0 .. N - 1 : m \in T => m + 1 \in T
  <2>1. ASSUME NEW m \in 0 .. N - 1, m \in T PROVE m + 1 \in T
    <3>1. m + 1 \in 0 .. N
      BY <1>1
    <3>2. IsSeq(f[m]) /\ Runs(n, f[m], Zero, Full(bs, n, m))
      BY <2>1
    <3>3. /\ IsSeq(ss[m + 1]) /\ Runs(n, ss[m + 1], Full(bs, n, m), Full(bs, n, m + 1))
          /\ f[m + 1] = f[m] \o ss[m + 1]
      BY <1>4, <1>6, <1>8
    <3>4. IsSeq(f[m + 1]) /\ Runs(n, f[m + 1], Zero, Full(bs, n, m + 1))
      BY <3>2, <3>3, RunsJoined, Joined
    <3> QED
      BY <3>1, <3>4
  <2> QED
    BY <2>1
<1>11. N \in T
  <2> HIDE DEF T
  <2>1. \A m \in 0 .. N : m \in T
    BY <1>1, <1>9, <1>10, Upto
  <2> QED
    BY <1>1, <2>1
<1>12. IsSeq(FramesOf(bs, n)) /\ Runs(n, FramesOf(bs, n), Zero, Full(bs, n, N))
  BY <1>2, <1>8, <1>11
<1> QED
  BY <1>12 DEF N

\* The rows of the frames are rows of the step.
LEMMA FramesHaveRows ==
  ASSUME NEW n \in Nat, NEW bs, BindingsOk(bs)
  PROVE  \A f \in ToSet(FramesOf(bs, n)) : f.payload.row \in 1 .. n
<1> DEFINE frames == FramesOf(bs, n)
           d == Full(bs, n, Len(bs))
<1>1. IsSeq(frames) /\ Runs(n, frames, Zero, d)
  BY FramesAreCounted
<1> HIDE DEF frames, d
<1>2. PICK cs : Counts(n, frames, Zero, d, cs)
  BY <1>1 DEF Runs
<1>3. Len(frames) \in Nat /\ DOMAIN frames = 1 .. Len(frames)
  BY <1>1, SeqDomain
<1>4. ASSUME NEW f \in ToSet(frames) PROVE f.payload.row \in 1 .. n
  <2>1. PICK i \in 1 .. Len(frames) : f = frames[i]
    BY <1>3 DEF ToSet
  <2>2. i - 1 \in 0 .. Len(frames) - 1 /\ (i - 1) + 1 = i /\ i - 1 \in 0 .. Len(frames)
    BY <1>3
  <2>3. Counted(n, cs[i - 1], f, cs[i])
    BY <1>2, <2>1, <2>2 DEF Counts
  <2>4. cs[i - 1] \in [Srcs -> Nat]
    BY <1>2, <2>2 DEF Counts
  <2>5. f.payload.row = cs[i - 1][f.src] + 1 /\ cs[i - 1][f.src] < n
        /\ cs[i - 1][f.src] \in Nat
    BY <2>3, <2>4 DEF Counted, Payload
  <2> QED
    BY <2>5
<1> QED
  BY <1>4 DEF frames

-----------------------------------------------------------------------------
(* The bindings of the model *)

\* The first of the bindings carries the metadata.
Carrying(bs) == Len(bs) > 0 /\ bs[1].meta

\* The locators are kept in their order, each once.
LEMMA LocatorsKept ==
  ASSUME NEW P \in SUBSET (DOMAIN <<"target", "source">>),
         NEW ls, ls = Kept(<<"target", "source">>, P)
  PROVE  /\ Len(ls) \in Nat /\ DOMAIN ls = 1 .. Len(ls)
         /\ \A k \in DOMAIN ls : ls[k] \in Layers
         /\ \A k, l \in DOMAIN ls : k < l => ls[k] # ls[l]
         /\ P # {} => Len(ls) # 0
<1> DEFINE both == <<"target", "source">>
<1>1. IsSeq(both) /\ Len(both) = 2 /\ DOMAIN both = 1 .. 2
  BY DEF IsSeq, ToSet
<1>2. /\ both[1] = "target" /\ both[2] = "source"
      /\ \A i \in 1 .. 2 : both[i] \in Layers
  BY DEF Layers
<1>3. ls = Kept(both, P)
  OBVIOUS
<1> HIDE DEF both
<1>4. P \in SUBSET (1 .. Len(both))
  BY <1>1 DEF both
<1>5. /\ IsSeq(ls)
      /\ \A x \in ToSet(ls) : \E i \in P : x = both[i]
      /\ \A k, l \in DOMAIN ls : k < l =>
           \E i, j \in P : i < j /\ ls[k] = both[i] /\ ls[l] = both[j]
  <2>1. /\ IsSeq(Kept(both, P))
        /\ \A x \in ToSet(Kept(both, P)) : \E i \in P : x = both[i]
        /\ \A k, l \in DOMAIN Kept(both, P) : k < l =>
             \E i, j \in P : i < j /\ Kept(both, P)[k] = both[i] /\ Kept(both, P)[l] = both[j]
    BY <1>1, <1>4, KeptElements
  <2> QED
    BY <1>3, <2>1
<1>6. Len(ls) \in Nat /\ DOMAIN ls = 1 .. Len(ls) /\ \A k \in DOMAIN ls : ls[k] \in ToSet(ls)
  BY <1>5, SeqDomain
<1>7. \A k \in DOMAIN ls : ls[k] \in Layers
  BY <1>1, <1>2, <1>5, <1>6
<1>8. \A k, l \in DOMAIN ls : k < l => ls[k] # ls[l]
  <2>1. ASSUME NEW k \in DOMAIN ls, NEW l \in DOMAIN ls, k < l PROVE ls[k] # ls[l]
    <3>1. PICK i \in P, j \in P : i < j /\ ls[k] = both[i] /\ ls[l] = both[j]
      BY <1>5, <2>1
    <3>2. i = 1 /\ j = 2
      BY <1>1, <3>1
    <3> QED
      BY <1>2, <3>1, <3>2
  <2> QED
    BY <2>1
<1>9. P # {} => Len(ls) # 0
  <2>1. P \in SUBSET Nat /\ IsFiniteSet(P)
    <3>1. IsFiniteSet(1 .. Len(both))
      <4>1. Len(both) \in Nat
        BY <1>1
      <4> QED
        BY <4>1, SegmentSize
    <3>2. IsFiniteSet(P)
      BY <1>4, <3>1, FS_Subset
    <3> QED
      BY <1>1, <1>4, <3>2
  <2>2. Ordered(P) \in Seq(P) /\ \A p \in P : \E i \in DOMAIN Ordered(P) : Ordered(P)[i] = p
    BY <2>1, OrderedSequence
  <2>3. DOMAIN ls = DOMAIN Ordered(P)
    BY <1>3 DEF Kept
  <2>4. P # {} => DOMAIN Ordered(P) # {}
    BY <2>2
  <2> QED
    BY <1>6, <2>3, <2>4
<1> QED
  BY <1>6, <1>7, <1>8, <1>9

\* Whatever is required of the layers, each is a locator once, and there is one at least
\* (_supported_logical_locators).
LEMMA LocatorsListed ==
  ASSUME NEW required, NEW ls, ls = Locators(required)
  PROVE  /\ Len(ls) \in Nat /\ DOMAIN ls = 1 .. Len(ls)
         /\ \A k \in DOMAIN ls : ls[k] \in Layers
         /\ \A k, l \in DOMAIN ls : k < l => ls[k] # ls[l]
         /\ required \subseteq Layers => Len(ls) # 0
<1>1. CASE required = {}
  <2>1. ls = <<"source", "target">>
    BY <1>1 DEF Locators
  <2>2. Len(ls) = 2 /\ DOMAIN ls = 1 .. 2 /\ ls[1] = "source" /\ ls[2] = "target"
    BY <2>1
  <2> QED
    BY <2>2 DEF Layers
<1>2. CASE required # {}
  <2> DEFINE sorted == <<"target", "source">>
             P == {i \in DOMAIN sorted : sorted[i] \in required}
  <2>1. ls = Kept(sorted, P)
    BY <1>2 DEF Locators
  <2>2. required \subseteq Layers => P # {}
    <3>1. 1 \in DOMAIN sorted /\ 2 \in DOMAIN sorted /\ sorted[1] = "target" /\ sorted[2] = "source"
      OBVIOUS
    <3>2. required \subseteq Layers => "target" \in required \/ "source" \in required
      BY <1>2 DEF Layers
    <3> QED
      BY <3>1, <3>2
  <2>3. P \in SUBSET (DOMAIN sorted)
    OBVIOUS
  <2> HIDE DEF P
  <2> QED
    BY <2>1, <2>2, <2>3, LocatorsKept
<1> QED
  BY <1>1, <1>2

\* However it comes to be bound, a locator has one binding, at its own path
\* (build_resolved_bindings).
LEMMA BindingsForOk ==
  ASSUME NEW required
  PROVE  BindingsOk(BindingsFor(required))
<1> DEFINE ls == Locators(required)
           all == [i \in DOMAIN ls |-> [src |-> ls[i], path |-> PathOf[ls[i]], meta |-> i = 1]]
           Q == {i \in DOMAIN all : \A j \in DOMAIN all : all[j].path = all[i].path => j <= i}
<1>1. BindingsFor(required) = Kept(all, Q)
  BY DEF BindingsFor
<1>2. /\ Len(ls) \in Nat /\ DOMAIN ls = 1 .. Len(ls)
      /\ \A k \in DOMAIN ls : ls[k] \in Layers
      /\ \A k, l \in DOMAIN ls : k < l => ls[k] # ls[l]
  BY LocatorsListed
<1> HIDE DEF ls
<1>3. IsSeq(all) /\ Len(all) = Len(ls) /\ DOMAIN all = 1 .. Len(ls)
  BY <1>2, Listed
<1>4. Q \in SUBSET (1 .. Len(all))
  BY <1>3
<1>5. \A i \in 1 .. Len(all) :
         BindingOk(all[i]) /\ all[i].src = ls[i] /\ (all[i].meta => i = 1)
  BY <1>2, <1>3 DEF BindingOk
<1> HIDE DEF all, Q
<1>6. /\ IsSeq(Kept(all, Q))
      /\ \A x \in ToSet(Kept(all, Q)) : \E i \in Q : x = all[i]
      /\ \A k, l \in DOMAIN Kept(all, Q) : k < l =>
           \E i, j \in Q : i < j /\ Kept(all, Q)[k] = all[i] /\ Kept(all, Q)[l] = all[j]
  BY <1>3, <1>4, KeptElements
<1> DEFINE bs == Kept(all, Q)
<1> HIDE DEF bs
<1>7. IsSeq(bs) /\ \A x \in ToSet(bs) : \E i \in Q : x = all[i]
  BY <1>6 DEF bs
<1>8. \A k, l \in DOMAIN bs : k < l => \E i, j \in Q : i < j /\ bs[k] = all[i] /\ bs[l] = all[j]
  BY <1>6 DEF bs
<1>9. DOMAIN bs = 1 .. Len(bs) /\ \A k \in 1 .. Len(bs) : bs[k] \in ToSet(bs)
  BY <1>7, SeqDomain
<1>10. \A k \in 1 .. Len(bs) : BindingOk(bs[k])
  BY <1>4, <1>5, <1>7, <1>9
<1>11. ASSUME NEW k \in 1 .. Len(bs), NEW l \in 1 .. Len(bs), k < l
       PROVE  bs[k].src # bs[l].src /\ ~(bs[k].meta /\ bs[l].meta)
  <2>1. PICK i \in Q, j \in Q : i < j /\ bs[k] = all[i] /\ bs[l] = all[j]
    BY <1>8, <1>9, <1>11
  <2>2. i \in 1 .. Len(all) /\ j \in 1 .. Len(all) /\ j # 1 /\ i \in DOMAIN ls /\ j \in DOMAIN ls
    BY <1>2, <1>3, <1>4, <2>1
  <2>3. ls[i] # ls[j]
    BY <1>2, <2>1, <2>2
  <2> QED
    BY <1>5, <2>1, <2>2, <2>3
<1>12. BindingsOk(bs)
  BY <1>7, <1>10, <1>11 DEF BindingsOk
<1> QED
  BY <1>1, <1>12 DEF bs

\* As long as the two locators are of different layers, no binding replaces another, and
\* the first carries the metadata (build_resolved_bindings).
LEMMA BindingsCarry ==
  ASSUME PathOf["source"] # PathOf["target"], NEW required, required \subseteq Layers
  PROVE  Carrying(BindingsFor(required))
<1> DEFINE ls == Locators(required)
           all == [i \in DOMAIN ls |-> [src |-> ls[i], path |-> PathOf[ls[i]], meta |-> i = 1]]
           Q == {i \in DOMAIN all : \A j \in DOMAIN all : all[j].path = all[i].path => j <= i}
<1>1. BindingsFor(required) = Kept(all, Q)
  BY DEF BindingsFor
<1>3. /\ Len(ls) \in Nat /\ DOMAIN ls = 1 .. Len(ls) /\ Len(ls) # 0
      /\ \A k \in DOMAIN ls : ls[k] \in Layers
      /\ \A k, l \in DOMAIN ls : k < l => ls[k] # ls[l]
  BY LocatorsListed
<1> HIDE DEF ls
<1>4. IsSeq(all) /\ Len(all) = Len(ls) /\ DOMAIN all = 1 .. Len(ls)
  BY <1>3, Listed
<1>5. ASSUME NEW i \in DOMAIN all, NEW j \in DOMAIN all, all[j].path = all[i].path PROVE i = j
  <2>1. ls[i] \in Layers /\ ls[j] \in Layers /\ PathOf[ls[i]] = PathOf[ls[j]]
    BY <1>3, <1>4, <1>5
  <2>2. ls[i] = ls[j]
    BY <2>1 DEF Layers
  <2>3. i \in Int /\ j \in Int /\ ~(i < j) /\ ~(j < i)
    BY <1>3, <1>4, <2>2
  <2> QED
    BY <2>3
<1>6. all[1].meta
  <2>1. 1 \in DOMAIN ls
    BY <1>3
  <2>2. \A i \in 1 .. Len(all) : i = 1 => all[i].meta
    BY <1>3, <1>4
  <2> QED
    BY <1>3, <1>4, <2>1, <2>2
<1>7. Q = DOMAIN all
  <2>1. ASSUME NEW i \in DOMAIN all PROVE i \in Q
    <3>1. i <= i
      BY <1>3, <1>4
    <3>2. \A j \in DOMAIN all : all[j].path = all[i].path => j <= i
      BY <1>5, <3>1
    <3> QED
      BY <3>2
  <2> QED
    BY <2>1
<1> HIDE DEF all, Q
<1>8. Kept(all, Q) = all
  <2> DEFINE M == ToSet(all)
  <2>1. Picked(all, M) = all
    BY <1>4, PickedAll
  <2>2. \A i \in 1 .. Len(all) : all[i] \in M
    BY <1>4, SeqDomain
  <2> HIDE DEF M
  <2>3. {i \in 1 .. Len(all) : all[i] \in M} = Q
    BY <1>4, <1>7, <2>2
  <2> QED
    BY <2>1, <2>3 DEF Picked
<1> QED
  BY <1>1, <1>3, <1>4, <1>6, <1>8 DEF Carrying

\* A locator that is bound is read at its own path (resolved_path_for_locator).
LEMMA BoundAtItsPath ==
  ASSUME BindingsOk(bindings), NEW src, BoundPath(src) # ""
  PROVE  src \in Layers /\ BoundPath(src) = PathOf[src]
<1> DEFINE is == {i \in DOMAIN bindings : bindings[i].src = src}
           i == CHOOSE j \in is : TRUE
<1>1. DOMAIN bindings = 1 .. Len(bindings)
  BY SeqDomain DEF BindingsOk
<1>2. is # {} /\ BoundPath(src) = bindings[i].path
  BY DEF BoundPath
<1>3. i \in is
  <2> HIDE DEF is
  <2> QED
    BY <1>2
<1>4. BindingOk(bindings[i]) /\ bindings[i].src = src
  BY <1>1, <1>3 DEF BindingsOk
<1> QED
  BY <1>2, <1>4 DEF BindingOk

-----------------------------------------------------------------------------
(* What the handlers of the host call *)

\* The rows of an entry.
EntryRows(e) == {e[i].row : i \in DOMAIN e}

\* Each entry of a bundle holds the rows of the first, which are in order, read at the
\* place of its own read.
ConsistentWith(flow, entries) ==
  LET lead == entries[flow.reads[1].name]
  IN  /\ \A i, j \in DOMAIN lead : i < j => lead[i].row < lead[j].row
      /\ \A r \in DOMAIN flow.reads :
           entries[flow.reads[r].name]
             = [i \in DOMAIN lead |-> Payload(Place(flow.reads[r].src), lead[i].row)]

\* A flow that reads something, each read into an entry of its own.
Named(flow) ==
  /\ flow.reads # <<>>
  /\ \A r, q \in DOMAIN flow.reads : flow.reads[r].name = flow.reads[q].name => r = q

\* A bundle is one of a flow that its consumer has, and consistent.
Consistent(x) ==
  x.what = "consume_bundle" =>
    /\ x.to \in Consumers /\ x.k \in DOMAIN Flows[x.to]
    /\ Named(Flows[x.to][x.k]) => ConsistentWith(Flows[x.to][x.k], x.entries)

\* A callback of an event, neither a bundle nor the end of a step.
Plain(x) ==
  x.to \in ToSet(plan) /\ x.what \notin {"synchronize", "consume_bundle", "on_step_end"}

\* A callback of a step is made to who is planned, with a consistent bundle.
Sound(x) ==
  x = Raises \/ (x.to \in ToSet(plan) /\ x.what # "synchronize" /\ Consistent(x))

\* The nth callback, if it is a bundle in the same step, is followed by the step's end.
FollowedAt(s, n) ==
  /\ s[n].what = "consume_bundle" /\ ~Flows[s[n].to][s[n].k].background =>
       \E m \in n + 1 .. Len(s) :
         s[m].to = s[n].to /\ s[m].what = "on_step_end" /\ s[m].k = s[n].k
  /\ s[n].what = "on_step_end" => ~Flows[s[n].to][s[n].k].background
Followed(s) == \A n \in 1 .. Len(s) : FollowedAt(s, n)

Good(s) == IsSeq(s) /\ Followed(s) /\ \A x \in ToSet(s) : Sound(x)

LEMMA GoodNone == Good(<<>>)
<1>1. IsSeq(<<>>) /\ ToSet(<<>>) = {} /\ Len(<<>>) = 0
  BY DEF IsSeq, ToSet
<1> QED
  BY <1>1 DEF Good, Followed

\* What follows within a part follows within the whole.
LEMMA FollowedJoined ==
  ASSUME NEW s, IsSeq(s), NEW t, IsSeq(t), Followed(s), Followed(t)
  PROVE  Followed(s \o t)
<1> DEFINE u == s \o t
           S == Len(s)
           R == Len(t)
<1>1. /\ S \in Nat /\ R \in Nat /\ Len(u) = S + R
      /\ \A i \in 1 .. S : u[i] = s[i]
      /\ \A i \in 1 .. R : u[S + i] = t[i]
  BY Joined, SeqDomain, Z3T(30)
<1>2. (\A n \in 1 .. S : FollowedAt(s, n)) /\ (\A n \in 1 .. R : FollowedAt(t, n))
  BY DEF Followed
<1> HIDE DEF u
<1>3. ASSUME NEW n \in 1 .. S PROVE FollowedAt(u, n)
  <2>1. FollowedAt(s, n) /\ u[n] = s[n]
    BY <1>1, <1>2
  <2>2. CASE u[n].what = "consume_bundle" /\ ~Flows[u[n].to][u[n].k].background
    <3>1. PICK m \in n + 1 .. S :
            s[m].to = s[n].to /\ s[m].what = "on_step_end" /\ s[m].k = s[n].k
      BY <2>1, <2>2 DEF FollowedAt
    <3>2. m \in 1 .. S /\ m \in n + 1 .. S + R /\ u[m] = s[m]
      BY <1>1, <3>1
    <3>3. \E l \in n + 1 .. Len(u) :
            u[l].to = u[n].to /\ u[l].what = "on_step_end" /\ u[l].k = u[n].k
      BY <1>1, <2>1, <3>1, <3>2
    <3> QED
      BY <2>2, <3>3 DEF FollowedAt
  <2>3. CASE ~(u[n].what = "consume_bundle" /\ ~Flows[u[n].to][u[n].k].background)
    BY <2>1, <2>3 DEF FollowedAt
  <2> QED
    BY <2>2, <2>3
<1>4. ASSUME NEW i \in 1 .. R, NEW n, n = S + i PROVE FollowedAt(u, n)
  <2>1. FollowedAt(t, i) /\ u[n] = t[i]
    BY <1>1, <1>2, <1>4
  <2>3. CASE u[n].what = "consume_bundle" /\ ~Flows[u[n].to][u[n].k].background
    <3>1. PICK m \in i + 1 .. R :
            t[m].to = t[i].to /\ t[m].what = "on_step_end" /\ t[m].k = t[i].k
      BY <2>1, <2>3 DEF FollowedAt
    <3>2. m \in 1 .. R /\ S + m \in n + 1 .. S + R /\ u[S + m] = t[m]
      BY <1>1, <1>4, <3>1
    <3>3. \E l \in n + 1 .. Len(u) :
            u[l].to = u[n].to /\ u[l].what = "on_step_end" /\ u[l].k = u[n].k
      BY <1>1, <2>1, <3>1, <3>2
    <3> QED
      BY <2>3, <3>3 DEF FollowedAt
  <2>4. CASE ~(u[n].what = "consume_bundle" /\ ~Flows[u[n].to][u[n].k].background)
    BY <2>1, <2>4 DEF FollowedAt
  <2> QED
    BY <2>3, <2>4
<1>5. ASSUME NEW n \in 1 .. S + R PROVE FollowedAt(u, n)
  <2>1. CASE n <= S
    BY <1>1, <1>3, <2>1
  <2>2. CASE ~(n <= S)
    <3>1. n - S \in 1 .. R /\ S + (n - S) = n
      BY <1>1, <2>2
    <3> QED
      BY <1>4, <3>1
  <2> QED
    BY <2>1, <2>2
<1>6. Followed(u)
  BY <1>1, <1>5 DEF Followed
<1> QED
  BY <1>6 DEF u

LEMMA GoodJoined ==
  ASSUME NEW s, NEW t, Good(s), Good(t) PROVE Good(s \o t)
<1>1. IsSeq(s) /\ IsSeq(t) /\ Followed(s) /\ Followed(t)
  BY DEF Good
<1>2. IsSeq(s \o t) /\ ToSet(s \o t) = ToSet(s) \cup ToSet(t) /\ Followed(s \o t)
  BY <1>1, Joined, FollowedJoined
<1>3. \A x \in ToSet(s \o t) : Sound(x)
  BY <1>2 DEF Good
<1> QED
  BY <1>2, <1>3 DEF Good

LEMMA GoodFlattened ==
  ASSUME NEW ss, IsSeq(ss), \A i \in 1 .. Len(ss) : Good(ss[i])
  PROVE  Good(FlattenSeq(ss))
<1> DEFINE N == Len(ss)
<1>1. N \in Nat /\ \A i \in 1 .. N : IsSeq(ss[i])
  BY SeqDomain DEF Good
<1>2. PICK f : /\ f[0] = <<>>
               /\ \A n \in 0 .. N - 1 : f[n + 1] = f[n] \o ss[n + 1]
               /\ FlattenSeq(ss) = f[N]
  BY <1>1, Flattening
<1> DEFINE T == {n \in 0 .. N : Good(f[n])}
<1>3. 0 \in T
  BY <1>1, <1>2, GoodNone
<1>4. \A n \in 0 .. N - 1 : n \in T => n + 1 \in T
  <2>1. ASSUME NEW n \in 0 .. N - 1, n \in T PROVE n + 1 \in T
    <3>1. n + 1 \in 1 .. N /\ n + 1 \in 0 .. N
      BY <1>1
    <3>2. Good(f[n]) /\ Good(ss[n + 1]) /\ f[n + 1] = f[n] \o ss[n + 1]
      BY <1>2, <2>1, <3>1
    <3>3. Good(f[n + 1])
      BY <3>2, GoodJoined
    <3> QED
      BY <3>1, <3>3
  <2> QED
    BY <2>1
<1>5. N \in T
  <2> HIDE DEF T, N
  <2>1. \A n \in 0 .. N : n \in T
    BY <1>1, <1>3, <1>4, Upto
  <2> QED
    BY <1>1, <2>1
<1> QED
  BY <1>2, <1>5

\* Events end no step, and bring no bundle.
LEMMA PlainIsGood ==
  ASSUME NEW s, IsSeq(s), \A x \in ToSet(s) : Plain(x)
  PROVE  Good(s)
<1>1. \A x \in ToSet(s) : Sound(x)
  BY DEF Plain, Sound, Consistent
<1>2. Followed(s)
  <2>1. ASSUME NEW n \in 1 .. Len(s) PROVE FollowedAt(s, n)
    <3>1. Plain(s[n])
      BY SeqDomain
    <3> QED
      BY <3>1 DEF Plain, FollowedAt
  <2> QED
    BY <2>1 DEF Followed
<1> QED
  BY <1>1, <1>2 DEF Good

\* The callbacks of an event of the host.
LEMMA EventCallsGood ==
  ASSUME RegistryInv, NEW event, event \notin {"synchronize", "consume_bundle", "on_step_end"},
         NEW ph, NEW path, NEW capture, NEW entries
  PROVE  Good(EventCalls(event, ph, path, capture, entries))
<1> DEFINE s == EventCalls(event, ph, path, capture, entries)
<1>1. IsSeq(s) /\ \A x \in ToSet(s) : \E c \in ToSet(plan) : x = Call(c, event, path, 0, entries)
  BY EventCallsAre
<1> HIDE DEF s
<1>2. \A x \in ToSet(s) : Plain(x)
  BY <1>1 DEF Plain, Call
<1>3. Good(s)
  BY <1>1, <1>2, PlainIsGood
<1> QED
  BY <1>3 DEF s

-----------------------------------------------------------------------------
(* The bundle of a step, put together directly *)

\* Rows at equal distances are the rows of the strided view (_regular_row_view).
LEMMA StridedRows ==
  ASSUME NEW ids \in Seq(Int) PROVE RowsTaken(ids) = ids
<1>1. /\ Len(ids) \in Nat /\ DOMAIN ids = 1 .. Len(ids) /\ \A i \in 1 .. Len(ids) : ids[i] \in Int
      /\ ids = [i \in DOMAIN ids |-> ids[i]]
  BY Elements
<1>2. CASE ~Regular(ids)
  BY <1>2 DEF RowsTaken
<1>3. CASE Regular(ids)
  <2> DEFINE d == ids[2] - ids[1]
             N == Len(ids) - 1
             T == {n \in 0 .. N : ids[n + 1] = ids[1] + n * d}
             taken == [i \in DOMAIN ids |-> ids[1] + (i - 1) * (ids[2] - ids[1])]
  <2>1. /\ N \in Nat /\ 1 \in 1 .. Len(ids) /\ 2 \in 1 .. Len(ids)
        /\ \A i \in 1 .. N : ids[i + 1] - ids[i] = d
    BY <1>1, <1>3 DEF Regular
  <2>2. d \in Int /\ ids[1] \in Int
    BY <1>1, <2>1
  <2> HIDE DEF d
  <2>3. 0 \in T
    BY <2>1, <2>2
  <2>4. \A n \in 0 .. N - 1 : n \in T => n + 1 \in T
    <3>1. ASSUME NEW n \in 0 .. N - 1, n \in T PROVE n + 1 \in T
      <4> DEFINE m == n + 1
      <4>1. m \in 1 .. N /\ m \in 0 .. N /\ m + 1 \in 1 .. Len(ids) /\ m \in 1 .. Len(ids)
            /\ n \in Int /\ m \in Int
        BY <2>1
      <4>2. ids[m] = ids[1] + n * d
        BY <3>1
      <4>3. m * d = n * d + d
        BY <2>2, <4>1
      <4> HIDE DEF m
      <4>4. ids[m + 1] - ids[m] = d /\ ids[m + 1] \in Int /\ ids[m] \in Int
        BY <1>1, <2>1, <4>1
      <4> DEFINE p == n * d
                 q == m * d
      <4>5. p \in Int /\ q = p + d /\ ids[m] = ids[1] + p
        BY <2>2, <4>1, <4>2, <4>3
      <4>6. ids[m + 1] = ids[1] + m * d
        <5> DEFINE first == ids[1]
                   own   == ids[m]
                   next  == ids[m + 1]
        <5>1. /\ first \in Int /\ own \in Int /\ next \in Int /\ d \in Int /\ p \in Int
              /\ next - own = d /\ own = first + p /\ q = p + d
          BY <2>2, <4>4, <4>5
        <5> HIDE DEF p, q, first, own, next
        <5>2. next = first + q
          BY <5>1
        <5> QED
          BY <5>2 DEF first, next, q
      <4>7. m \in T
        BY <4>1, <4>6
      <4> QED
        BY <4>7 DEF m
    <3> QED
      BY <3>1
  <2>5. \A n \in 0 .. N : n \in T
    <3> HIDE DEF T, N
    <3> QED
      BY <2>1, <2>3, <2>4, Upto
  <2>6. ASSUME NEW i \in DOMAIN ids PROVE taken[i] = ids[i]
    <3>1. i - 1 \in 0 .. N /\ (i - 1) + 1 = i
      BY <1>1
    <3>2. i - 1 \in T
      BY <2>5, <3>1
    <3>3. ids[(i - 1) + 1] = ids[1] + (i - 1) * d
      BY <3>2
    <3>4. taken[i] = ids[1] + (i - 1) * d
      BY DEF d
    <3> QED
      BY <3>1, <3>3, <3>4
  <2>7. RowsTaken(ids) = taken
    BY <1>3 DEF RowsTaken
  <2>8. taken = [i \in DOMAIN ids |-> taken[i]]
    OBVIOUS
  <2> HIDE DEF taken
  <2> QED
    BY <1>1, <2>6, <2>7, <2>8
<1> QED
  BY <1>2, <1>3

\* The rows of a direct bundle are in increasing order, all of them or the first of each
\* prompt (_compact_first_per_prompt_from_runtime).
LEMMA DirectRowsInOrder ==
  ASSUME IsSeq(rows), NEW flow
  PROVE  /\ DirectRows(flow) \in Seq(Int)
         /\ \A i, j \in DOMAIN DirectRows(flow) :
              i < j => DirectRows(flow)[i] < DirectRows(flow)[j]
<1>1. Len(rows) \in Nat /\ DOMAIN rows = 1 .. Len(rows)
  BY SeqDomain
<1>2. CASE flow.firstPerPrompt
  <2> DEFINE P == {i \in DOMAIN rows : rows[i] # None /\ \A j \in 1 .. i - 1 : rows[j] # rows[i]}
  <2>1. P \in SUBSET Nat /\ IsFiniteSet(P)
    <3>1. P \in SUBSET (1 .. Len(rows)) /\ IsFiniteSet(1 .. Len(rows))
      BY <1>1, FS_Interval
    <3>2. IsFiniteSet(P)
      BY <3>1, FS_Subset
    <3> QED
      BY <1>1, <3>2
  <2>2. DirectRows(flow) = Ordered(P)
    BY <1>2 DEF DirectRows, FirstPerPrompt
  <2> HIDE DEF P
  <2>3. Ordered(P) \in Seq(P) /\ \A k, l \in DOMAIN Ordered(P) : k < l => Ordered(P)[k] < Ordered(P)[l]
    BY <2>1, OrderedSequence
  <2>4. P \subseteq Int
    BY <2>1
  <2>5. Ordered(P) \in Seq(Int)
    BY <2>3, <2>4, Widened
  <2> QED
    BY <2>2, <2>3, <2>5
<1>3. CASE ~flow.firstPerPrompt
  <2>1. DirectRows(flow) = [i \in 1 .. Len(rows) |-> i]
    BY <1>1, <1>3 DEF DirectRows, AllRows
  <2>2. [i \in 1 .. Len(rows) |-> i] \in [1 .. Len(rows) -> Int]
    BY <1>1
  <2> QED
    BY <1>1, <2>1, <2>2, Segment
<1> QED
  BY <1>2, <1>3

\* A direct bundle that is not refused is consistent, and of the rows it is to be of
\* (build_step_scope_port_bundle).
LEMMA DirectIsConsistent ==
  ASSUME BindingsOk(bindings), IsSeq(rows), NEW flow, flow.reads \in Seq(ToSet(flow.reads)),
         Named(flow), ~Refuses(flow)
  PROVE  /\ ConsistentWith(flow, DirectBundle(flow))
         /\ EntryRows(DirectBundle(flow)[flow.reads[1].name]) = ToSet(DirectRows(flow))
<1> DEFINE ids == DirectRows(flow)
           reads == flow.reads
           e == DirectBundle(flow)
           At(k) == [i \in DOMAIN ids |-> Payload(Place(reads[k].src), ids[i])]
<1>1. ids \in Seq(Int) /\ \A i, j \in DOMAIN ids : i < j => ids[i] < ids[j]
  BY DirectRowsInOrder
<1>2. RowsTaken(ids) = ids
  BY <1>1, StridedRows
<1>3. DOMAIN reads = 1 .. Len(reads) /\ 1 \in DOMAIN reads
  BY Elements DEF Named
<1>4. ASSUME NEW k \in DOMAIN reads PROVE e[reads[k].name] = At(k)
  <2>1. {j \in DOMAIN reads : reads[j].name = reads[k].name} = {k}
    BY DEF Named
  <2> DEFINE chosen == CHOOSE j \in DOMAIN reads :
                         reads[j].name = reads[k].name
                         /\ \A m \in DOMAIN reads : reads[m].name = reads[k].name => m <= j
  <2>2. reads[k].name = reads[k].name
        /\ \A m \in DOMAIN reads : reads[m].name = reads[k].name => m <= k
    BY <1>3, <2>1
  <2>3. chosen = k
    BY <2>1, <2>2
  <2>4. e[reads[k].name] = Entry(reads[chosen], ids)
    BY DEF DirectBundle
  <2> HIDE DEF chosen, ids
  <2>5. CASE reads[k].src = "meta"
    BY <2>3, <2>4, <2>5 DEF Entry, Place
  <2>6. CASE reads[k].src # "meta"
    <3>1. BoundPath(reads[k].src) # ""
      BY <2>6 DEF Refuses, Missing
    <3>2. BoundPath(reads[k].src) = Place(reads[k].src)
      BY <2>6, <3>1, BoundAtItsPath DEF Place
    <3>3. Entry(reads[k], ids) = [i \in DOMAIN ids |-> Payload(BoundPath(reads[k].src), ids[i])]
      BY <1>2, <2>6 DEF Entry, ids
    <3> QED
      BY <2>3, <2>4, <3>2, <3>3
  <2> QED
    BY <2>5, <2>6
<1> HIDE DEF e, ids
<1> DEFINE lead == e[reads[1].name]
<1>5. /\ DOMAIN lead = DOMAIN ids /\ \A i \in DOMAIN lead : lead[i].row = ids[i]
  <2>1. lead = At(1)
    BY <1>3, <1>4
  <2> HIDE DEF lead
  <2> QED
    BY <2>1 DEF Payload
<1> HIDE DEF lead
<1>6. \A i, j \in DOMAIN lead : i < j => lead[i].row < lead[j].row
  BY <1>1, <1>5
<1>7. \A r \in DOMAIN reads :
        e[reads[r].name] = [i \in DOMAIN lead |-> Payload(Place(reads[r].src), lead[i].row)]
  BY <1>4, <1>5
<1>8. ConsistentWith(flow, e)
  BY <1>6, <1>7 DEF ConsistentWith, lead
<1>9. EntryRows(lead) = ToSet(ids)
  BY <1>5 DEF EntryRows, ToSet
<1> QED
  BY <1>8, <1>9 DEF e, lead, ids

-----------------------------------------------------------------------------
(* The bundles of a flow, put together from frames *)

\* The read that takes the frames of its port (_match_binding).
Takes(flow, k) ==
  /\ k \in DOMAIN flow.reads /\ flow.reads[k].src \in Srcs
  /\ \A j \in DOMAIN flow.reads : flow.reads[j].src = flow.reads[k].src => k <= j

Taker(takers) == CHOOSE k \in takers : \A j \in takers : k <= j

\* One read takes the frame, if any does.
LEMMA TakerIs ==
  ASSUME NEW flow, flow.reads \in Seq(ToSet(flow.reads)), NEW frame, frame.src \in Srcs,
         NEW takers,
         \A k : k \in takers <=> k \in DOMAIN flow.reads /\ flow.reads[k].src = frame.src,
         takers # {}
  PROVE  Takes(flow, Taker(takers)) /\ flow.reads[Taker(takers)].src = frame.src
<1> DEFINE k == Taker(takers)
<1>1. DOMAIN flow.reads = 1 .. Len(flow.reads) /\ Len(flow.reads) \in Nat
  BY Elements
<1>2. takers \in SUBSET Nat /\ IsFiniteSet(takers)
  <2>1. takers \in SUBSET (1 .. Len(flow.reads)) /\ IsFiniteSet(1 .. Len(flow.reads))
    BY <1>1, FS_Interval
  <2>2. IsFiniteSet(takers)
    BY <2>1, FS_Subset
  <2> QED
    BY <2>1, <2>2
<1>3. \E i \in takers : \A j \in takers : i <= j
  BY <1>2, Least
<1>4. k \in takers /\ \A j \in takers : k <= j
  BY <1>3 DEF Taker
<1> HIDE DEF k
<1>5. Takes(flow, k) /\ flow.reads[k].src = frame.src
  BY <1>4 DEF Takes
<1> QED
  BY <1>5 DEF k

\* The entry of read k in the group g, after c frames of each port.
EntryOk(flow, c, g, e, k) ==
  /\ Takes(flow, k)
  /\ flow.key = "step" =>
       /\ c[flow.reads[k].src] > 0
       /\ e[flow.reads[k].name]
            = [i \in 1 .. c[flow.reads[k].src] |-> Payload(Place(flow.reads[k].src), i)]
  /\ flow.key # "step" =>
       /\ g <= c[flow.reads[k].src]
       /\ e[flow.reads[k].name] = <<Payload(Place(flow.reads[k].src), g)>>

GroupOk(flow, c, g, e) ==
  /\ DOMAIN e \subseteq {flow.reads[k].name : k \in DOMAIN flow.reads}
  /\ \A k \in DOMAIN flow.reads : flow.reads[k].name \in DOMAIN e => EntryOk(flow, c, g, e, k)

\* A bundle that is complete has an entry for each read.
LEMMA CompleteHasAll ==
  ASSUME NEW flow, flow.reads \in Seq(ToSet(flow.reads)), NEW e,
         DOMAIN e \subseteq {flow.reads[k].name : k \in DOMAIN flow.reads}, Complete(flow, e)
  PROVE  \A k \in DOMAIN flow.reads : flow.reads[k].name \in DOMAIN e
<1> DEFINE n == Len(flow.reads)
           names == {flow.reads[k].name : k \in DOMAIN flow.reads}
           f == [k \in 1 .. n |-> flow.reads[k].name]
<1>1. n \in Nat /\ DOMAIN flow.reads = 1 .. n
  BY Elements
<1>2. IsFiniteSet(1 .. n) /\ Cardinality(1 .. n) = n
  BY <1>1, SegmentSize
<1>3. f \in Surjection(1 .. n, names)
  BY <1>1 DEF Surjection
<1> HIDE DEF f
<1>4. IsFiniteSet(names) /\ Cardinality(names) <= n
  <2> HIDE DEF names
  <2> QED
    BY <1>2, <1>3, FS_Surjection
<1>5. DOMAIN e \in SUBSET names /\ Cardinality(DOMAIN e) >= n
  BY DEF Complete
<1> HIDE DEF names
<1>6. /\ IsFiniteSet(DOMAIN e) /\ Cardinality(DOMAIN e) <= Cardinality(names)
      /\ Cardinality(names) = Cardinality(DOMAIN e) => names = DOMAIN e
  BY <1>4, <1>5, FS_Subset
<1>7. Cardinality(names) \in Nat /\ Cardinality(DOMAIN e) \in Nat
  BY <1>4, <1>6, FS_CardinalityType
<1>8. names = DOMAIN e
  BY <1>1, <1>4, <1>5, <1>6, <1>7
<1> QED
  BY <1>8 DEF names

\* A complete bundle of one row, or of one request, is consistent.
LEMMA RowBundleIsConsistent ==
  ASSUME NEW flow, flow.reads \in Seq(ToSet(flow.reads)), Named(flow), flow.key # "step",
         NEW c, NEW g, NEW e, GroupOk(flow, c, g, e), Complete(flow, e)
  PROVE  ConsistentWith(flow, e)
<1> DEFINE lead == e[flow.reads[1].name]
<1>1. 1 \in DOMAIN flow.reads
  BY Elements DEF Named
<1>2. \A k \in DOMAIN flow.reads :
        e[flow.reads[k].name] = <<Payload(Place(flow.reads[k].src), g)>>
  BY CompleteHasAll DEF GroupOk, EntryOk
<1>3. DOMAIN lead = {1} /\ lead[1].row = g
  <2>1. lead = <<Payload(Place(flow.reads[1].src), g)>>
    BY <1>1, <1>2
  <2> HIDE DEF lead
  <2> QED
    BY <2>1 DEF Payload
<1> HIDE DEF lead
<1>4. \A i, j \in DOMAIN lead : i < j => lead[i].row < lead[j].row
  BY <1>3
<1>5. ASSUME NEW r \in DOMAIN flow.reads
      PROVE  e[flow.reads[r].name]
               = [i \in DOMAIN lead |-> Payload(Place(flow.reads[r].src), lead[i].row)]
  <2> DEFINE of == Place(flow.reads[r].src)
  <2>1. e[flow.reads[r].name] = <<Payload(of, g)>>
    BY <1>2
  <2> HIDE DEF of
  <2>2. <<Payload(of, g)>> = [i \in {1} |-> Payload(of, g)]
    OBVIOUS
  <2>3. [i \in DOMAIN lead |-> Payload(of, lead[i].row)] = [i \in {1} |-> Payload(of, g)]
    BY <1>3
  <2>4. e[flow.reads[r].name] = [i \in DOMAIN lead |-> Payload(of, lead[i].row)]
    BY <2>1, <2>2, <2>3
  <2> QED
    BY <2>4 DEF of
<1> QED
  BY <1>4, <1>5 DEF ConsistentWith, lead

\* A complete bundle of a step is, when each port has sent all its frames or none.
LEMMA StepBundleIsConsistent ==
  ASSUME NEW flow, flow.reads \in Seq(ToSet(flow.reads)), Named(flow), flow.key = "step",
         NEW n \in Nat, NEW c, \A src \in Srcs : c[src] \in {0, n},
         NEW g, NEW e, GroupOk(flow, c, g, e), Complete(flow, e)
  PROVE  ConsistentWith(flow, e)
<1> DEFINE lead == e[flow.reads[1].name]
<1>1. 1 \in DOMAIN flow.reads
  BY Elements DEF Named
<1>2. \A k \in DOMAIN flow.reads : EntryOk(flow, c, g, e, k)
  BY CompleteHasAll DEF GroupOk
<1>3. ASSUME NEW k \in DOMAIN flow.reads PROVE c[flow.reads[k].src] = n
  <2> DEFINE src == flow.reads[k].src
  <2>1. EntryOk(flow, c, g, e, k)
    BY <1>2
  <2>2. src \in Srcs /\ c[src] > 0
    BY <2>1 DEF EntryOk, Takes
  <2> HIDE DEF src
  <2>3. c[src] = 0 \/ c[src] = n
    BY <2>2
  <2>4. c[src] = n
    BY <2>2, <2>3
  <2> QED
    BY <2>4 DEF src
<1>4. \A k \in DOMAIN flow.reads :
        e[flow.reads[k].name] = [i \in 1 .. n |-> Payload(Place(flow.reads[k].src), i)]
  BY <1>2, <1>3 DEF EntryOk
<1>5. DOMAIN lead = 1 .. n /\ \A i \in DOMAIN lead : lead[i].row = i
  <2>1. lead = [i \in 1 .. n |-> Payload(Place(flow.reads[1].src), i)]
    BY <1>1, <1>4
  <2> HIDE DEF lead
  <2> QED
    BY <2>1 DEF Payload
<1> HIDE DEF lead
<1>6. \A i, j \in DOMAIN lead : i < j => lead[i].row < lead[j].row
  BY <1>5
<1>7. \A r \in DOMAIN flow.reads :
        e[flow.reads[r].name]
          = [i \in DOMAIN lead |-> Payload(Place(flow.reads[r].src), lead[i].row)]
  BY SMTT(30), <1>4, <1>5
<1> QED
  BY <1>6, <1>7 DEF ConsistentWith, lead

\* After c frames of each port: every group is as they filled it, and what is out is
\* consistent.
Assembled(flow, c, state) ==
  /\ \A g \in DOMAIN state.pending : GroupOk(flow, c, g, state.pending[g])
  /\ flow.key = "step" =>
       /\ DOMAIN state.pending \subseteq {0}
       /\ \A k \in DOMAIN flow.reads : Takes(flow, k) /\ c[flow.reads[k].src] > 0 =>
            0 \in DOMAIN state.pending /\ flow.reads[k].name \in DOMAIN state.pending[0]
  /\ \A b \in ToSet(state.out) : ConsistentWith(flow, b)

\* The entry of a read that does not take the frame stays as it was.
LEMMA OtherEntry ==
  ASSUME NEW flow, NEW n, NEW c \in [Srcs -> Nat], NEW frame, NEW d,
         Counted(n, c, frame, d), NEW g \in Nat, NEW e, NEW f, NEW k, EntryOk(flow, c, g, e, k),
         f[flow.reads[k].name] = e[flow.reads[k].name],
         flow.key # "step" \/ flow.reads[k].src # frame.src
  PROVE  EntryOk(flow, d, g, f, k)
<1>1. Takes(flow, k) /\ flow.reads[k].src \in Srcs /\ frame.src \in Srcs
  BY DEF EntryOk, Takes, Counted
<1>2. d = [c EXCEPT ![frame.src] = @ + 1]
  BY DEF Counted
<1>3. CASE flow.key = "step"
  <2>1. d[flow.reads[k].src] = c[flow.reads[k].src]
    BY <1>1, <1>2, <1>3
  <2> QED
    BY <1>1, <1>3, <2>1 DEF EntryOk
<1>4. CASE flow.key # "step"
  <2> DEFINE src == flow.reads[k].src
  <2>1. src \in Srcs /\ c[src] \in Nat /\ (d[src] = c[src] \/ d[src] = c[src] + 1)
    BY <1>1, <1>2
  <2>2. g <= c[src] /\ e[flow.reads[k].name] = <<Payload(Place(src), g)>>
    BY <1>4 DEF EntryOk
  <2>3. g <= d[src]
    <3>1. c[src] <= d[src] /\ d[src] \in Nat
      BY <2>1
    <3> QED
      BY <2>1, <2>2, <3>1
  <2> QED
    BY <1>1, <1>4, <2>2, <2>3 DEF EntryOk
<1> QED
  BY <1>3, <1>4

\* One more payload behind those of the rows before it.
LEMMA NextPayload ==
  ASSUME NEW of, NEW m \in Nat
  PROVE  Append([i \in 1 .. m |-> Payload(of, i)], Payload(of, m + 1))
           = [i \in 1 .. m + 1 |-> Payload(of, i)]
<1> DEFINE s == [i \in 1 .. m |-> Payload(of, i)]
           t == [i \in 1 .. m + 1 |-> Payload(of, i)]
           S == {Payload(of, i) : i \in Nat}
<1>1. s \in [1 .. m -> S] /\ t \in [1 .. m + 1 -> S] /\ Payload(of, m + 1) \in S
  OBVIOUS
<1>2. \A i \in 1 .. m : s[i] = t[i]
  OBVIOUS
<1>3. t[m + 1] = Payload(of, m + 1)
  OBVIOUS
<1> DEFINE x == Payload(of, m + 1)
<1> HIDE DEF s, t, S, x
<1>4. s \in Seq(S) /\ Len(s) = m /\ t \in Seq(S) /\ Len(t) = m + 1
  BY <1>1, Segment
<1>5. x \in S /\ t[m + 1] = x
  BY <1>1, <1>3 DEF x
<1>6. Append(s, x) \in Seq(S) /\ Len(Append(s, x)) = m + 1
  BY <1>4, <1>5
<1>7. \A i \in 1 .. m + 1 : Append(s, x)[i] = t[i]
  BY <1>2, <1>4, <1>5
<1>8. Append(s, x) = t
  BY <1>4, <1>6, <1>7
<1> QED
  BY <1>8 DEF s, t, x

\* The entries of read k come to be new.
Merges(flow, d, g, old, new, k) ==
  GroupOk(flow, d, g, new) /\ DOMAIN new = DOMAIN old \cup {flow.reads[k].name}

\* The frame is merged into the entry of the read that takes it (_merge_entry).
LEMMA MergedOk ==
  ASSUME NEW flow, flow.reads \in Seq(ToSet(flow.reads)), Named(flow),
         NEW n, NEW c \in [Srcs -> Nat], NEW frame, NEW d,
         Counted(n, c, frame, d), NEW k, Takes(flow, k), flow.reads[k].src = frame.src,
         NEW g, g = GroupOf(flow, frame), NEW old, GroupOk(flow, c, g, old),
         flow.key = "step" => flow.reads[k].name \in DOMAIN old \/ c[frame.src] = 0
  PROVE  Merges(flow, d, g, old, Merged(flow, old, flow.reads[k].name, frame.payload), k)
<1> DEFINE name == flow.reads[k].name
           src == frame.src
           before == IF Aggregating(flow) /\ name \in DOMAIN old THEN old[name] ELSE <<>>
           new == Merged(flow, old, name, frame.payload)
<1>1. /\ src \in Srcs /\ c[src] \in Nat /\ d[src] = c[src] + 1
      /\ frame.payload = Payload(Place(src), c[src] + 1) /\ frame.payload.row = c[src] + 1
      /\ g \in Nat
  BY DEF Counted, Payload, GroupOf
<1>2. /\ DOMAIN new = DOMAIN old \cup {name}
      /\ new[name] = Append(before, frame.payload)
      /\ \A nm \in DOMAIN old : nm # name => new[nm] = old[nm]
  BY DEF Merged, Put
<1>3. k \in DOMAIN flow.reads /\ flow.reads[k].src = src
  BY DEF Takes
<1>4. name \in DOMAIN old => EntryOk(flow, c, g, old, k)
  BY <1>3 DEF GroupOk
<1>5. EntryOk(flow, d, g, new, k)
  <2>1. CASE flow.key = "step"
    <3>1. before = [i \in 1 .. c[src] |-> Payload(Place(src), i)]
      <4>1. CASE name \in DOMAIN old
        BY <1>3, <1>4, <2>1, <4>1 DEF EntryOk, Aggregating
      <4>2. CASE name \notin DOMAIN old
        <5>1. before = <<>> /\ c[src] = 0
          BY <2>1, <4>2
        <5> QED
          BY <5>1
      <4> QED
        BY <4>1, <4>2
    <3>2. new[name] = [i \in 1 .. d[src] |-> Payload(Place(src), i)]
      <4> DEFINE m == c[src]
                 of == Place(src)
      <4>1. m \in Nat /\ d[src] = m + 1
        BY <1>1
      <4>2. new[name] = Append([i \in 1 .. m |-> Payload(of, i)], Payload(of, m + 1))
        BY <1>1, <1>2, <3>1
      <4> HIDE DEF m, of, new
      <4>3. new[name] = [i \in 1 .. d[src] |-> Payload(of, i)]
        BY <4>1, <4>2, NextPayload
      <4> QED
        BY <4>3 DEF of
    <3> HIDE DEF new
    <3> QED
      BY <1>1, <1>3, <2>1, <3>2 DEF EntryOk
  <2>2. CASE flow.key # "step"
    <3>1. g = c[src] + 1
      BY <1>1, <2>2 DEF GroupOf
    <3>2. before = <<>>
      <4>1. CASE name \in DOMAIN old
        <5>1. g <= c[src]
          BY <1>3, <1>4, <2>2, <4>1 DEF EntryOk
        <5>2. FALSE
          BY <1>1, <3>1, <5>1
        <5> QED
          BY <5>2
      <4>2. CASE name \notin DOMAIN old
        BY <4>2
      <4> QED
        BY <4>1, <4>2
    <3>3. new[name] = <<Payload(Place(src), g)>>
      <4>1. new[name] = Append(<<>>, Payload(Place(src), c[src] + 1))
        BY <1>1, <1>2, <3>2
      <4> DEFINE x == Payload(Place(src), c[src] + 1)
      <4> HIDE DEF x, new
      <4>2. Append(<<>>, x) = <<x>>
        OBVIOUS
      <4>3. new[name] = <<x>>
        BY <4>1, <4>2 DEF x
      <4> QED
        BY <3>1, <4>3 DEF x
    <3> HIDE DEF new
    <3> QED
      BY <1>1, <1>3, <2>2, <3>1, <3>3 DEF EntryOk
  <2> QED
    BY <2>1, <2>2
<1>6. ASSUME NEW j \in DOMAIN flow.reads, flow.reads[j].name \in DOMAIN new, j # k
      PROVE  EntryOk(flow, d, g, new, j)
  <2>1. flow.reads[j].name # name
    BY <1>3, <1>6 DEF Named
  <2>2. flow.reads[j].name \in DOMAIN old /\ new[flow.reads[j].name] = old[flow.reads[j].name]
    BY <1>2, <1>6, <2>1
  <2>3. EntryOk(flow, c, g, old, j)
    BY <2>2 DEF GroupOk
  <2>4. flow.reads[j].src # src
    <3>1. Takes(flow, j)
      BY <2>3 DEF EntryOk
    <3>2. ASSUME flow.reads[j].src = src PROVE FALSE
      <4>1. j <= k /\ k <= j /\ j \in Nat /\ k \in Nat
        BY <1>3, <3>1, <3>2, Elements DEF Takes
      <4> QED
        BY <1>6, <4>1
    <3> QED
      BY <3>2
  <2> HIDE DEF new
  <2> QED
    BY <1>1, <2>2, <2>3, <2>4, OtherEntry
<1>7. DOMAIN new \subseteq {flow.reads[j].name : j \in DOMAIN flow.reads}
  BY <1>2, <1>3 DEF GroupOk
<1>8. GroupOk(flow, d, g, new)
  BY <1>5, <1>6, <1>7 DEF GroupOk
<1> QED
  BY <1>2, <1>8 DEF Merges

\* The groups that do not take the frame stay as they were.
LEMMA GroupStays ==
  ASSUME NEW flow, NEW n, NEW c \in [Srcs -> Nat], NEW frame, NEW d,
         Counted(n, c, frame, d), NEW g \in Nat, NEW e, GroupOk(flow, c, g, e),
         flow.key # "step" \/ \A k \in DOMAIN flow.reads : flow.reads[k].src # frame.src
  PROVE  GroupOk(flow, d, g, e)
<1>1. ASSUME NEW k \in DOMAIN flow.reads, flow.reads[k].name \in DOMAIN e
      PROVE  EntryOk(flow, d, g, e, k)
  <2>1. EntryOk(flow, c, g, e, k)
    BY <1>1 DEF GroupOk
  <2>2. flow.key # "step" \/ flow.reads[k].src # frame.src
    OBVIOUS
  <2> QED
    BY <2>1, <2>2, OtherEntry
<1> QED
  BY <1>1 DEF GroupOk

\* A frame pushed keeps the groups in order (BundleAssembler.push).
LEMMA PushAssembles ==
  ASSUME NEW flow, flow.reads \in Seq(ToSet(flow.reads)), Named(flow), NEW n \in Nat,
         NEW c \in [Srcs -> Nat], NEW frame, NEW d, Counted(n, c, frame, d),
         NEW state, AssemblyType(state, n), Assembled(flow, c, state)
  PROVE  Assembled(flow, d, Push(flow, state, frame))
<1> DEFINE takers == {k \in DOMAIN flow.reads : flow.reads[k].src = frame.src}
           k      == Taker(takers)
           g      == GroupOf(flow, frame)
           old    == IF g \in DOMAIN state.pending THEN state.pending[g] ELSE NoEntries
           new    == Merged(flow, old, flow.reads[k].name, frame.payload)
           left   == [h \in DOMAIN state.pending \ {g} |-> state.pending[h]]
           put    == Put(state.pending, g, new)
<1>1. /\ state = [out |-> state.out, pending |-> state.pending] /\ IsSeq(state.out)
      /\ DOMAIN state.pending \subseteq Nat
  BY DEF AssemblyType
<1>2. /\ Push(flow, state, frame) =
           IF takers = {} THEN state
           ELSE IF Complete(flow, new) /\ ~Aggregating(flow)
           THEN [out |-> Append(state.out, new), pending |-> left]
           ELSE [state EXCEPT !.pending = put]
  BY DEF Push, Taker
<1>3. /\ frame.src \in Srcs /\ \A src \in Srcs : d[src] = IF src = frame.src THEN c[src] + 1 ELSE c[src]
      /\ g \in Nat
  BY DEF Counted, Payload, GroupOf
<1>4. CASE takers = {}
  <2>1. \A j \in DOMAIN flow.reads : flow.reads[j].src # frame.src
    BY <1>4
  <2>2. \A h \in DOMAIN state.pending : GroupOk(flow, d, h, state.pending[h])
    BY <1>1, <2>1, GroupStays DEF Assembled
  <2>3. \A j \in DOMAIN flow.reads : Takes(flow, j) => d[flow.reads[j].src] = c[flow.reads[j].src]
    BY <1>3, <2>1 DEF Takes
  <2>4. Assembled(flow, d, state)
    BY <2>2, <2>3 DEF Assembled
  <2> QED
    BY <1>2, <1>4, <2>4
<1>5. CASE takers # {}
  <2>1. Takes(flow, k) /\ flow.reads[k].src = frame.src
    <3> HIDE DEF takers
    <3>1. \A i : i \in takers <=> i \in DOMAIN flow.reads /\ flow.reads[i].src = frame.src
      BY DEF takers
    <3> QED
      BY <1>3, <1>5, <3>1, TakerIs
  <2>2. GroupOk(flow, c, g, old)
    <3>1. DOMAIN NoEntries = {}
      BY DEF NoEntries
    <3>2. GroupOk(flow, c, g, NoEntries)
      BY <3>1 DEF GroupOk
    <3> HIDE DEF g
    <3> QED
      BY <3>2 DEF Assembled
  <2>3. flow.key = "step" => flow.reads[k].name \in DOMAIN old \/ c[frame.src] = 0
    <3> HIDE DEF takers, k
    <3>1. ASSUME flow.key = "step", c[frame.src] # 0 PROVE flow.reads[k].name \in DOMAIN old
      <4>1. g = 0 /\ c[flow.reads[k].src] > 0
        BY <1>3, <2>1, <3>1 DEF GroupOf
      <4>2. 0 \in DOMAIN state.pending /\ flow.reads[k].name \in DOMAIN state.pending[0]
        BY <2>1, <3>1, <4>1 DEF Assembled, Takes
      <4> QED
        BY <4>1, <4>2
    <3> QED
      BY <3>1
  <2> HIDE DEF takers, k, old
  <2>4. /\ GroupOk(flow, d, g, new)
        /\ DOMAIN new = DOMAIN old \cup {flow.reads[k].name}
    <3>1. g = GroupOf(flow, frame)
      OBVIOUS
    <3> HIDE DEF g
    <3>2. Merges(flow, d, g, old, Merged(flow, old, flow.reads[k].name, frame.payload), k)
      BY <2>1, <2>2, <2>3, <3>1, MergedOk
    <3> QED
      BY <3>2 DEF Merges
  <2>5. \A h \in DOMAIN state.pending : h # g => GroupOk(flow, d, h, state.pending[h])
    <3>1. ASSUME NEW h \in DOMAIN state.pending, h # g
          PROVE  GroupOk(flow, d, h, state.pending[h])
      <4>1. flow.key # "step"
        BY <3>1 DEF Assembled, GroupOf
      <4>2. h \in Nat /\ GroupOk(flow, c, h, state.pending[h])
        BY <1>1 DEF Assembled
      <4> QED
        BY <4>1, <4>2, GroupStays
    <3> QED
      BY <3>1
  <2>6. CASE Complete(flow, new) /\ ~Aggregating(flow)
    <3>1. flow.key # "step"
      BY <2>6 DEF Aggregating
    <3>2. ConsistentWith(flow, new)
      <4> HIDE DEF new, g
      <4> QED
        BY <2>4, <2>6, <3>1, RowBundleIsConsistent
    <3> HIDE DEF new
    <3>3. ToSet(Append(state.out, new)) = ToSet(state.out) \cup {new}
      <4>1. IsSeq(<<new>>) /\ ToSet(<<new>>) = {new} /\ Append(state.out, new) = state.out \o <<new>>
        BY <1>1 DEF IsSeq, ToSet
      <4> QED
        BY <1>1, <4>1, Joined
    <3>4. \A h \in DOMAIN left : GroupOk(flow, d, h, left[h])
      BY <2>5
    <3>5. \A b \in ToSet(Append(state.out, new)) : ConsistentWith(flow, b)
      BY <3>2, <3>3 DEF Assembled
    <3> DEFINE state2 == [out |-> Append(state.out, new), pending |-> left]
    <3>6. Push(flow, state, frame) = state2
      BY <1>2, <1>5, <2>6
    <3>7. state2.out = Append(state.out, new) /\ state2.pending = left
      OBVIOUS
    <3> HIDE DEF state2
    <3>8. Assembled(flow, d, state2)
      BY <3>1, <3>4, <3>5, <3>7 DEF Assembled
    <3> QED
      BY <3>6, <3>8
  <2>7. CASE ~(Complete(flow, new) /\ ~Aggregating(flow))
    <3>1. DOMAIN put = DOMAIN state.pending \cup {g} /\ put[g] = new
          /\ \A h \in DOMAIN state.pending : h # g => put[h] = state.pending[h]
      BY DEF Put
    <3> HIDE DEF new, put
    <3>2. \A h \in DOMAIN put : GroupOk(flow, d, h, put[h])
      BY <2>4, <2>5, <3>1
    <3>3. ASSUME flow.key = "step"
          PROVE  /\ DOMAIN put \subseteq {0}
                 /\ \A j \in DOMAIN flow.reads : Takes(flow, j) /\ d[flow.reads[j].src] > 0 =>
                      0 \in DOMAIN put /\ flow.reads[j].name \in DOMAIN put[0]
      <4>1. g = 0 /\ DOMAIN state.pending \subseteq {0}
        BY <3>3 DEF GroupOf, Assembled
      <4>2. DOMAIN put = {0} /\ put[0] = new
        BY <3>1, <4>1
      <4>3. ASSUME NEW j \in DOMAIN flow.reads, Takes(flow, j), d[flow.reads[j].src] > 0
            PROVE  flow.reads[j].name \in DOMAIN new
        <5>1. CASE flow.reads[j].src = frame.src
          <6>1. j <= k /\ k <= j /\ j \in Nat /\ k \in Nat
            BY <2>1, <4>3, <5>1, Elements DEF Takes
          <6>2. j = k
            BY <6>1
          <6> QED
            BY <2>4, <6>2
        <5>2. CASE flow.reads[j].src # frame.src
          <6>1. c[flow.reads[j].src] > 0
            BY <1>3, <4>3, <5>2 DEF Takes
          <6>2. 0 \in DOMAIN state.pending /\ flow.reads[j].name \in DOMAIN state.pending[0]
            BY <3>3, <4>3, <6>1 DEF Assembled
          <6>3. old = state.pending[0]
            BY <4>1, <6>2 DEF old
          <6> QED
            BY <2>4, <6>2, <6>3
        <5> QED
          BY <5>1, <5>2
      <4> QED
        BY <4>2, <4>3
    <3> DEFINE state2 == [state EXCEPT !.pending = put]
    <3>4. Push(flow, state, frame) = state2
      BY <1>2, <1>5, <2>7
    <3>5. state2.out = state.out /\ state2.pending = put
      BY <1>1
    <3> HIDE DEF state2
    <3>6. Assembled(flow, d, state2)
      BY <3>2, <3>3, <3>5 DEF Assembled
    <3> QED
      BY <3>4, <3>6
  <2> QED
    BY <2>6, <2>7
<1> QED
  BY <1>4, <1>5

\* Whatever is assembled of the frames of a step is consistent.
LEMMA FramesAreConsistent ==
  ASSUME NEW flow, flow.reads \in Seq(ToSet(flow.reads)), Named(flow), NEW n \in Nat,
         NEW bs, BindingsOk(bs)
  PROVE  \A b \in ToSet(Assemble(flow, FramesOf(bs, n))) : ConsistentWith(flow, b)
<1> DEFINE frames == FramesOf(bs, n)
           N == Len(frames)
           last == Full(bs, n, Len(bs))
<1>1. IsSeq(frames) /\ Runs(n, frames, Zero, last)
  BY FramesAreCounted
<1>2. \A src \in Srcs : last[src] \in {0, n}
  BY DEF Full
<1>3. \A f \in ToSet(frames) : f.payload.row \in 1 .. n
  BY FramesHaveRows
<1> HIDE DEF frames, last
<1>4. N \in Nat /\ \A m \in 1 .. N : frames[m] \in ToSet(frames)
  BY <1>1, SeqDomain
<1>5. PICK cs : Counts(n, frames, Zero, last, cs)
  BY <1>1 DEF Runs
<1>6. /\ cs \in [0 .. N -> [Srcs -> Nat]] /\ cs[0] = Zero /\ cs[N] = last
      /\ \A m \in 0 .. N - 1 : Counted(n, cs[m], frames[m + 1], cs[m + 1])
  BY <1>5 DEF Counts
<1>7. PICK f : /\ f[0] = Unassembled
               /\ \A m \in 0 .. N - 1 : f[m + 1] = Push(flow, f[m], frames[m + 1])
               /\ Assemble(flow, frames) = f[N].out \o Finalized(flow, f[N].pending)
  BY <1>4, Assembly
<1> DEFINE T == {m \in 0 .. N : AssemblyType(f[m], n) /\ Assembled(flow, cs[m], f[m])}
<1>8. 0 \in T
  <2>1. IsSeq(<<>>) /\ ToSet(<<>>) = {}
    BY DEF IsSeq, ToSet
  <2>2. Unassembled.out = <<>> /\ DOMAIN Unassembled.pending = {}
        /\ Unassembled = [out |-> Unassembled.out, pending |-> Unassembled.pending]
    BY DEF Unassembled
  <2>3. AssemblyType(Unassembled, n)
    BY <2>1, <2>2 DEF AssemblyType
  <2>4. \A k \in DOMAIN flow.reads : Takes(flow, k) => Zero[flow.reads[k].src] = 0
    BY DEF Takes, Zero
  <2>5. Assembled(flow, Zero, Unassembled)
    BY <2>1, <2>2, <2>4 DEF Assembled
  <2> QED
    BY <1>4, <1>6, <1>7, <2>3, <2>5
<1>9. \A m \in 0 .. N - 1 : m \in T => m + 1 \in T
  <2>1. ASSUME NEW m \in 0 .. N - 1, m \in T PROVE m + 1 \in T
    <3>1. m + 1 \in 1 .. N /\ m + 1 \in 0 .. N /\ m \in 0 .. N
      BY <1>4
    <3>2. frames[m + 1].payload.row \in 1 .. n
      BY <1>3, <1>4, <3>1
    <3>3. AssemblyType(f[m], n) /\ Assembled(flow, cs[m], f[m])
      BY <2>1
    <3>4. /\ Counted(n, cs[m], frames[m + 1], cs[m + 1]) /\ cs[m] \in [Srcs -> Nat]
          /\ f[m + 1] = Push(flow, f[m], frames[m + 1])
      BY <1>6, <1>7, <3>1
    <3>5. AssemblyType(f[m + 1], n)
      BY <3>2, <3>3, <3>4, PushKeepsType
    <3>6. Assembled(flow, cs[m + 1], f[m + 1])
      BY <3>3, <3>4, PushAssembles
    <3> QED
      BY <3>1, <3>5, <3>6
  <2> QED
    BY <2>1
<1>10. AssemblyType(f[N], n) /\ Assembled(flow, last, f[N])
  <2>1. N \in T
    <3> HIDE DEF T, N
    <3>1. \A m \in 0 .. N : m \in T
      BY <1>4, <1>8, <1>9, Upto
    <3> QED
      BY <1>4, <3>1
  <2> QED
    BY <1>6, <2>1
<1> DEFINE state == f[N]
<1>11. IsSeq(state.out) /\ DOMAIN state.pending \subseteq 0 .. n
  BY <1>10 DEF AssemblyType
<1>12. Assembled(flow, last, state) /\ Assemble(flow, frames) = state.out \o Finalized(flow, state.pending)
  BY <1>7, <1>10
<1> HIDE DEF state
<1>13. /\ IsSeq(Finalized(flow, state.pending))
       /\ \A x \in ToSet(Finalized(flow, state.pending)) :
            \E g \in DOMAIN state.pending : x = state.pending[g] /\ Complete(flow, state.pending[g])
  BY <1>11, FinalizedAre
<1>14. ASSUME NEW g \in DOMAIN state.pending, Complete(flow, state.pending[g])
       PROVE  ConsistentWith(flow, state.pending[g])
  <2>1. GroupOk(flow, last, g, state.pending[g])
    BY <1>12 DEF Assembled
  <2>2. CASE flow.key = "step"
    BY <1>2, <1>14, <2>1, <2>2, StepBundleIsConsistent
  <2>3. CASE flow.key # "step"
    BY <1>14, <2>1, <2>3, RowBundleIsConsistent
  <2> QED
    BY <2>2, <2>3
<1>15. ToSet(Assemble(flow, frames)) = ToSet(state.out) \cup ToSet(Finalized(flow, state.pending))
  BY <1>11, <1>12, <1>13, Joined
<1>16. \A b \in ToSet(state.out) : ConsistentWith(flow, b)
  BY <1>12 DEF Assembled
<1>17. \A b \in ToSet(Assemble(flow, frames)) : ConsistentWith(flow, b)
  BY <1>13, <1>14, <1>15, <1>16
<1> QED
  BY <1>17 DEF frames

-----------------------------------------------------------------------------
(* The callbacks of a step *)

\* A flow of a consumer that is planned.
Target(t) ==
  /\ t = [to |-> t.to, k |-> t.k, flow |-> t.flow]
  /\ t.to \in ToSet(plan) \cap Consumers /\ t.k \in DOMAIN Flows[t.to]
  /\ t.flow = Flows[t.to][t.k] /\ t.flow \in FlowType

LEMMA FlowTargetsAre ==
  ASSUME RegistryInv
  PROVE  IsSeq(FlowTargets) /\ \A t \in ToSet(FlowTargets) : Target(t)
<1> DEFINE of(i) == [k \in DOMAIN Flows[plan[i]] |->
                       [to |-> plan[i], k |-> k, flow |-> Flows[plan[i]][k]]]
           ss == [i \in DOMAIN plan |-> of(i)]
<1>1. /\ Len(plan) \in Nat /\ DOMAIN plan = 1 .. Len(plan)
      /\ \A i \in 1 .. Len(plan) : plan[i] \in ToSet(plan) /\ plan[i] \in Consumers
  BY PlannedAreRegistered, SeqDomain
<1>2. FlowTargets = FlattenSeq(ss)
  BY DEF FlowTargets
<1>3. ASSUME NEW i \in 1 .. Len(plan)
      PROVE  IsSeq(of(i)) /\ \A t \in ToSet(of(i)) : Target(t)
  <2>1. Flows[plan[i]] \in Seq(FlowType)
    BY <1>1, ConsumerAssumption
  <2> DEFINE flows == Flows[plan[i]]
  <2>2. flows = Flows[plan[i]]
    OBVIOUS
  <2> HIDE DEF flows
  <2>3. Len(flows) \in Nat /\ DOMAIN flows = 1 .. Len(flows) /\ \A k \in DOMAIN flows : flows[k] \in FlowType
    BY <2>1, <2>2, Elements
  <2> DEFINE s == [k \in 1 .. Len(flows) |-> [to |-> plan[i], k |-> k, flow |-> flows[k]]]
  <2>4. of(i) = s
    BY <2>2, <2>3
  <2>5. IsSeq(s) /\ DOMAIN s = 1 .. Len(flows)
    BY <2>3, Listed
  <2>6. \A k \in 1 .. Len(flows) : Target(s[k])
    BY <1>1, <2>2, <2>3 DEF Target
  <2>7. \A t \in ToSet(s) : Target(t)
    <3> HIDE DEF s
    <3> QED
      BY <2>5, <2>6 DEF ToSet
  <2> HIDE DEF s, of
  <2> QED
    BY <2>4, <2>5, <2>7
<1> HIDE DEF of
<1>4. IsSeq(ss) /\ Len(ss) = Len(plan) /\ \A i \in 1 .. Len(plan) : ss[i] = of(i)
  BY <1>1, Listed
<1> HIDE DEF ss
<1>5. \A i \in 1 .. Len(ss) : IsSeq(ss[i]) /\ \A t \in ToSet(ss[i]) : Target(t)
  BY <1>3, <1>4
<1>6. IsSeq(FlattenSeq(ss)) /\ \A t \in ToSet(FlattenSeq(ss)) : Target(t)
  BY <1>4, <1>5, FlattenElements
<1> QED
  BY <1>2, <1>6

\* What a flow reads is a sequence.
LEMMA TargetReads ==
  ASSUME NEW t, Target(t)
  PROVE  t.flow.reads \in Seq(ToSet(t.flow.reads)) /\ t.flow.background \in BOOLEAN
<1>1. t.flow.reads \in Seq([src : STRING, name : STRING]) /\ t.flow.background \in BOOLEAN
  BY DEF Target, FlowType
<1> QED
  BY <1>1, SeqOver DEF IsSeq

\* Bundles and then the end of the step, unless the flow is in the background.
LEMMA GivenIsGood ==
  ASSUME NEW t, Target(t), NEW bundles, IsSeq(bundles),
         \A b \in ToSet(bundles) : Named(t.flow) => ConsistentWith(t.flow, b)
  PROVE  Good([i \in DOMAIN bundles |-> BundleCall(t, bundles[i])] \o StepEnd(t))
<1> DEFINE N == Len(bundles)
           s == [i \in DOMAIN bundles |-> BundleCall(t, bundles[i])]
           end == Call(t.to, "on_step_end", "none", t.k, NoEntries)
           u == s \o StepEnd(t)
           Given(x) == /\ x.to = t.to /\ x.what = "consume_bundle" /\ x.k = t.k
                       /\ x.entries \in ToSet(bundles)
<1>1. N \in Nat /\ DOMAIN bundles = 1 .. N /\ \A i \in 1 .. N : bundles[i] \in ToSet(bundles)
  BY SeqDomain
<1>2. IsSeq(s) /\ Len(s) = N /\ \A i \in 1 .. N : Given(s[i])
  <2>1. s = [i \in 1 .. N |-> s[i]] /\ \A i \in 1 .. N : s[i] = BundleCall(t, bundles[i])
    BY <1>1
  <2>2. \A i \in 1 .. N : Given(s[i])
    BY <1>1, <2>1 DEF BundleCall, Call
  <2> HIDE DEF s
  <2> QED
    BY <1>1, <2>1, <2>2, Listed
<1>3. /\ t.flow = Flows[t.to][t.k] /\ t.to \in ToSet(plan) /\ t.to \in Consumers
      /\ t.k \in DOMAIN Flows[t.to] /\ t.flow.background \in BOOLEAN
  BY TargetReads DEF Target
<1>4. end.to = t.to /\ end.what = "on_step_end" /\ end.k = t.k
  BY DEF Call
<1>5. StepEnd(t) = IF t.flow.background THEN <<>> ELSE <<end>>
  BY DEF StepEnd
<1> HIDE DEF s, end
<1>6. IsSeq(StepEnd(t)) /\ ToSet(StepEnd(t)) \subseteq {end}
      /\ Len(StepEnd(t)) = (IF t.flow.background THEN 0 ELSE 1)
      /\ (~t.flow.background => StepEnd(t)[1] = end)
  <2>1. IsSeq(<<>>) /\ ToSet(<<>>) = {} /\ IsSeq(<<end>>) /\ ToSet(<<end>>) = {end}
    BY DEF IsSeq, ToSet
  <2> QED
    BY <1>3, <1>5, <2>1
<1>7. /\ IsSeq(u) /\ Len(u) = N + Len(StepEnd(t))
      /\ \A i \in 1 .. N : u[i] = s[i]
      /\ \A i \in 1 .. Len(StepEnd(t)) : u[N + i] = StepEnd(t)[i]
      /\ ToSet(u) = ToSet(s) \cup ToSet(StepEnd(t))
  <2> DEFINE tail == StepEnd(t)
  <2>1. IsSeq(s) /\ IsSeq(tail) /\ Len(s) = N
    BY <1>2, <1>6
  <2> HIDE DEF tail, N
  <2>2. /\ IsSeq(s \o tail) /\ Len(s \o tail) = N + Len(tail)
        /\ \A i \in 1 .. N : (s \o tail)[i] = s[i]
        /\ \A i \in 1 .. Len(tail) : (s \o tail)[N + i] = tail[i]
        /\ ToSet(s \o tail) = ToSet(s) \cup ToSet(tail)
    BY <2>1, Joined
  <2> QED
    BY <2>2 DEF tail
<1> HIDE DEF u, N
<1>8. Sound(end)
  BY <1>3, <1>4 DEF Sound, Consistent
<1>9. ASSUME NEW x, Given(x) PROVE Sound(x)
  BY <1>3, <1>9 DEF Sound, Consistent
<1>10. \A x \in ToSet(u) : Sound(x)
  <2>1. \A x \in ToSet(s) : Given(x)
    <3>1. DOMAIN s = 1 .. N
      BY <1>2, SeqDomain
    <3> QED
      BY <1>2, <3>1 DEF ToSet
  <2> HIDE DEF Given
  <2> QED
    BY <1>6, <1>7, <1>8, <1>9, <2>1
<1>11. ASSUME NEW n \in 1 .. N PROVE FollowedAt(u, n)
  <2>1. Given(u[n])
    BY <1>2, <1>7
  <2>2. CASE t.flow.background
    BY <1>3, <2>1, <2>2 DEF FollowedAt
  <2>3. CASE ~t.flow.background
    <3>1. N + 1 \in n + 1 .. Len(u) /\ u[N + 1] = end
      BY <1>1, <1>6, <1>7, <2>3
    <3>2. \E m \in n + 1 .. Len(u) :
            u[m].to = u[n].to /\ u[m].what = "on_step_end" /\ u[m].k = u[n].k
      BY <1>4, <2>1, <3>1
    <3> QED
      BY <2>1, <3>2 DEF FollowedAt
  <2> QED
    BY <2>2, <2>3
<1>12. ASSUME NEW n \in 1 .. Len(u), n \notin 1 .. N PROVE FollowedAt(u, n)
  <2>1. ~t.flow.background /\ n = N + 1
    BY <1>1, <1>3, <1>6, <1>7, <1>12
  <2>2. u[n] = end
    BY <1>6, <1>7, <2>1
  <2> QED
    BY <1>3, <1>4, <2>1, <2>2 DEF FollowedAt
<1>13. Good(u)
  BY <1>7, <1>10, <1>11, <1>12 DEF Good, Followed
<1> QED
  BY <1>13 DEF u, s

\* A flow given its bundle directly (dispatch_decode_port_bundles).
LEMMA DirectCallsGood ==
  ASSUME BindingsOk(bindings), IsSeq(rows), NEW t, Target(t)
  PROVE  Good(DirectCalls(t))
<1>1. CASE Declines(t.flow)
  BY <1>1, GoodNone DEF DirectCalls
<1>2. CASE ~Declines(t.flow) /\ Refuses(t.flow)
  <2>1. IsSeq(<<Raises>>) /\ ToSet(<<Raises>>) = {Raises} /\ Len(<<Raises>>) = 1
        /\ <<Raises>>[1] = Raises
    BY DEF IsSeq, ToSet
  <2>2. Raises.what = "raise"
    BY DEF Raises, Call
  <2>3. FollowedAt(<<Raises>>, 1)
    BY <2>1, <2>2 DEF FollowedAt
  <2>4. Good(<<Raises>>)
    BY <2>1, <2>3 DEF Good, Followed, Sound
  <2> QED
    BY <1>2, <2>4 DEF DirectCalls
<1>3. CASE ~Declines(t.flow) /\ ~Refuses(t.flow)
  <2> DEFINE b == DirectBundle(t.flow)
             bundles == <<b>>
  <2>1. Named(t.flow) => ConsistentWith(t.flow, b)
    BY <1>3, TargetReads, DirectIsConsistent
  <2> HIDE DEF b
  <2>2. IsSeq(bundles) /\ ToSet(bundles) = {b} /\ DOMAIN bundles = {1} /\ bundles[1] = b
    BY DEF IsSeq, ToSet
  <2> HIDE DEF bundles
  <2>3. Good([i \in DOMAIN bundles |-> BundleCall(t, bundles[i])] \o StepEnd(t))
    BY <2>1, <2>2, GivenIsGood
  <2>4. [i \in DOMAIN bundles |-> BundleCall(t, bundles[i])] = <<BundleCall(t, b)>>
    BY <2>2
  <2>5. DirectCalls(t) = <<BundleCall(t, b)>> \o StepEnd(t)
    BY <1>3 DEF DirectCalls, b
  <2> QED
    BY <2>3, <2>4, <2>5
<1> QED
  BY <1>1, <1>2, <1>3

\* A flow whose bundles are assembled of frames.
LEMMA FrameCallsGood ==
  ASSUME BindingsOk(bindings), IsSeq(rows), NEW t, Target(t)
  PROVE  Good(FrameCalls(t))
<1> DEFINE bundles == Assemble(t.flow, FramesOf(bindings, Len(rows)))
<1>1. Len(rows) \in Nat
  BY SeqDomain
<1>2. IsSeq(bundles)
  BY <1>1, FramesAreCounted, FramesHaveRows, AssembleIsSeq
<1>3. \A b \in ToSet(bundles) : Named(t.flow) => ConsistentWith(t.flow, b)
  BY <1>1, TargetReads, FramesAreConsistent
<1>4. FrameCalls(t) = IF Declines(t.flow)
                      THEN [i \in DOMAIN bundles |-> BundleCall(t, bundles[i])] \o StepEnd(t)
                      ELSE <<>>
  BY DEF FrameCalls
<1> HIDE DEF bundles
<1>5. Good([i \in DOMAIN bundles |-> BundleCall(t, bundles[i])] \o StepEnd(t))
  BY <1>2, <1>3, GivenIsGood
<1> QED
  BY <1>4, <1>5, GoodNone

\* All the flows that are due.
LEMMA FlowCallsGood ==
  ASSUME RegistryInv, BindingsOk(bindings), IsSeq(rows)
  PROVE  Good(FlowCalls)
<1> DEFINE all == FlowTargets
           P == {i \in DOMAIN all : Due(all[i].flow)}
           due == Kept(all, P)
           direct == [i \in DOMAIN due |-> DirectCalls(due[i])]
           framed == [i \in DOMAIN due |-> FrameCalls(due[i])]
<1>1. IsSeq(all) /\ \A t \in ToSet(all) : Target(t)
  BY FlowTargetsAre
<1>2. FlowCalls = FlattenSeq(direct)
                  \o (IF FramesOf(bindings, Len(rows)) = <<>> THEN <<>> ELSE FlattenSeq(framed))
  BY DEF FlowCalls
<1> HIDE DEF all
<1>3. DOMAIN all = 1 .. Len(all) /\ \A i \in 1 .. Len(all) : Target(all[i])
  BY <1>1, SeqDomain
<1>4. IsSeq(due) /\ \A t \in ToSet(due) : \E i \in P : t = all[i]
  <2>1. P \in SUBSET (1 .. Len(all))
    BY <1>3
  <2> HIDE DEF P
  <2> QED
    BY <1>1, <2>1, KeptElements
<1>5. \A t \in ToSet(due) : Target(t)
  BY <1>3, <1>4
<1> HIDE DEF due
<1>6. Len(due) \in Nat /\ DOMAIN due = 1 .. Len(due) /\ \A i \in 1 .. Len(due) : Target(due[i])
  BY <1>4, <1>5, SeqDomain
<1>7. \A i \in 1 .. Len(due) : Good(DirectCalls(due[i])) /\ Good(FrameCalls(due[i]))
  BY <1>6, DirectCallsGood, FrameCallsGood
<1>8. /\ IsSeq(direct) /\ Len(direct) = Len(due)
      /\ \A i \in 1 .. Len(due) : direct[i] = DirectCalls(due[i])
  BY <1>6, Listed
<1>9. /\ IsSeq(framed) /\ Len(framed) = Len(due)
      /\ \A i \in 1 .. Len(due) : framed[i] = FrameCalls(due[i])
  BY <1>6, Listed
<1> HIDE DEF direct, framed
<1>10. Good(FlattenSeq(direct)) /\ Good(FlattenSeq(framed))
  BY <1>7, <1>8, <1>9, GoodFlattened
<1>11. Good(IF FramesOf(bindings, Len(rows)) = <<>> THEN <<>> ELSE FlattenSeq(framed))
  BY <1>10, GoodNone
<1> QED
  BY <1>2, <1>10, <1>11, GoodJoined

\* The events of one tapped layer (dispatch_layer_lifecycle_events).
LEMMA LayerCallsGood ==
  ASSUME RegistryInv, NEW path PROVE Good(LayerCalls(path))
<1> DEFINE a == EventCalls("layer.pre", "decode", path, fromHooks, NoEntries)
           b == EventCalls("layer.post", "decode", path, fromHooks, HiddenBatch(path))
           c == EventCalls("block.end", "decode", path, fromHooks, NoEntries)
           d == EventCalls("stack.end", "decode", path, fromHooks, NoEntries)
           e == IF path = BoundPath("target") THEN d ELSE <<>>
<1>1. Good(a) /\ Good(b) /\ Good(c) /\ Good(d)
  BY EventCallsGood
<1>2. LayerCalls(path) = a \o b \o c \o e
  BY DEF LayerCalls
<1> HIDE DEF a, b, c, d
<1>3. Good(e)
  BY <1>1, GoodNone
<1> HIDE DEF e
<1>4. Good(a \o b)
  BY <1>1, GoodJoined
<1>5. Good(a \o b \o c)
  BY <1>1, <1>4, GoodJoined
<1> QED
  BY <1>2, <1>3, <1>5, GoodJoined

\* The layers that are tapped are a sequence.
LEMMA TappedPathsAreSeq == IsSeq(TappedPaths)
<1> DEFINE both == <<"source", "target">>
           P == {k \in DOMAIN both : \E i \in DOMAIN bindings : bindings[i].path = PathOf[both[k]]}
           ls == Kept(both, P)
<1>1. IsSeq(both) /\ DOMAIN both = 1 .. Len(both)
  BY DEF IsSeq, ToSet
<1>2. P \in SUBSET (1 .. Len(both))
  BY <1>1
<1>3. TappedPaths = IF Len(ls) = 2 /\ PathOf["source"] = PathOf["target"]
                    THEN <<PathOf["source"]>> ELSE [i \in DOMAIN ls |-> PathOf[ls[i]]]
  BY DEF TappedPaths
<1> HIDE DEF both
<1> HIDE DEF P
<1>4. IsSeq(ls)
  BY <1>1, <1>2, KeptElements
<1> HIDE DEF ls
<1>5. IsSeq([i \in DOMAIN ls |-> PathOf[ls[i]]])
  BY <1>4, SeqDomain, Listed
<1>6. IsSeq(<<PathOf["source"]>>)
  BY DEF IsSeq, ToSet
<1> QED
  BY <1>3, <1>5, <1>6

\* A forward run as Python.
LEMMA ForwardCallsGood ==
  ASSUME RegistryInv
  PROVE  Good(FlattenSeq([i \in DOMAIN TappedPaths |-> LayerCalls(TappedPaths[i])]))
<1> DEFINE ss == [i \in DOMAIN TappedPaths |-> LayerCalls(TappedPaths[i])]
<1>1. Len(TappedPaths) \in Nat /\ DOMAIN TappedPaths = 1 .. Len(TappedPaths)
  BY TappedPathsAreSeq, SeqDomain
<1>2. /\ IsSeq(ss) /\ Len(ss) = Len(TappedPaths)
      /\ \A i \in 1 .. Len(TappedPaths) : ss[i] = LayerCalls(TappedPaths[i])
  BY <1>1, Listed
<1> HIDE DEF ss
<1>3. \A i \in 1 .. Len(ss) : Good(ss[i])
  BY <1>2, LayerCallsGood
<1>4. Good(FlattenSeq(ss))
  BY <1>2, <1>3, GoodFlattened
<1> QED
  BY <1>4 DEF ss

\* What a replayed forward did not send (dispatch_deferred_layer_batches).
LEMMA DeferredGood ==
  ASSUME RegistryInv PROVE Good(Deferred)
<1> DEFINE paths == IF fromHooks \/ rows = <<>> THEN <<>> ELSE TappedPaths
           of(path) == EventCalls("layer.post", "decode", path, FALSE, HiddenBatch(path))
           ss == [i \in DOMAIN paths |-> of(paths[i])]
<1>1. Deferred = FlattenSeq(ss)
  BY DEF Deferred
<1>2. IsSeq(paths)
  <2>1. IsSeq(<<>>)
    BY DEF IsSeq, ToSet
  <2> QED
    BY <2>1, TappedPathsAreSeq
<1>3. \A path : Good(of(path))
  BY EventCallsGood
<1> HIDE DEF paths, of
<1>4. Len(paths) \in Nat /\ DOMAIN paths = 1 .. Len(paths)
  BY <1>2, SeqDomain
<1>5. IsSeq(ss) /\ Len(ss) = Len(paths) /\ \A i \in 1 .. Len(paths) : ss[i] = of(paths[i])
  BY <1>4, Listed
<1> HIDE DEF ss
<1>6. \A i \in 1 .. Len(ss) : Good(ss[i])
  BY <1>3, <1>5
<1> QED
  BY <1>1, <1>5, <1>6, GoodFlattened

\* The end of a step.
LEMMA EndCallsGood ==
  ASSUME RegistryInv, BindingsOk(bindings), IsSeq(rows)
  PROVE  Good(FlowCalls \o Deferred \o StepEvent("execute_model.post", fromHooks))
<1>1. Good(FlowCalls) /\ Good(Deferred)
  BY FlowCallsGood, DeferredGood
<1>2. Good(StepEvent("execute_model.post", fromHooks))
  BY EventCallsGood DEF StepEvent
<1>3. Good(FlowCalls \o Deferred)
  BY <1>1, GoodJoined
<1> QED
  BY <1>2, <1>3, GoodJoined

-----------------------------------------------------------------------------
(* The steps of the runtime *)

\* The plan is the one of the registry, the bindings are the model's own, and the rows of
\* the step are a sequence.
DispatchInv == RegistryInv /\ BindingsOk(bindings) /\ IsSeq(rows)

\* Refreshing the plan (register_dispatch_consumer and the others).
LEMMA RefreshKeepsInv ==
  ASSUME DispatchInv, NEW reg \in Seq(Consumers), NEW rt \in Consumers \cup {None},
         Refresh(reg, rt)
  PROVE  DispatchInv'
<1>1. /\ registry' = reg /\ runtime' = rt /\ plan' = PlanOf(reg, rt)
      /\ bindings' = bindings /\ rows' = rows
  BY DEF Refresh, setupVars
<1>2. RegistryInv'
  BY <1>1 DEF RegistryInv
<1>3. BindingsOk(bindings)' /\ IsSeq(rows)'
  <2>1. BindingsOk(bindings) /\ IsSeq(rows)
    BY DEF DispatchInv
  <2>2. BindingsOk(bindings')
    BY <1>1, <2>1
  <2>3. IsSeq(rows')
    BY <1>1, <2>1
  <2> QED
    BY <2>2, <2>3 DEF BindingsOk, BindingOk, IsSeq
<1> QED
  BY <1>2, <1>3 DEF DispatchInv

\* What leaves the plan alone, and the bindings and the rows as they should be.
LEMMA OthersKeepInv ==
  ASSUME DispatchInv, UNCHANGED planVars, BindingsOk(bindings'), IsSeq(rows')
  PROVE  DispatchInv'
<1>1. registry' = registry /\ runtime' = runtime /\ plan' = plan
  BY DEF planVars
<1>2. RegistryInv'
  BY <1>1 DEF DispatchInv, RegistryInv
<1>3. BindingsOk(bindings)' /\ IsSeq(rows)'
  BY DEF BindingsOk, BindingOk, IsSeq
<1> QED
  BY <1>2, <1>3 DEF DispatchInv

\* Taking up the hooks (setup_runtime_hooks_if_active).
LEMMA SetupBinds ==
  ASSUME DispatchInv, Setup PROVE BindingsOk(bindings')
<1>1. bindings' = bindings \/ bindings' = BindingsFor(Required)
  BY DEF Setup
<1>2. BindingsOk(bindings)
  BY DEF DispatchInv
<1> DEFINE bs == BindingsFor(Required)
<1>3. BindingsOk(bs)
  BY BindingsForOk
<1> HIDE DEF bs
<1>4. bindings' = bindings \/ bindings' = bs
  BY <1>1 DEF bs
<1> QED
  BY <1>2, <1>3, <1>4

LEMMA InvStep ==
  ASSUME DispatchInv, [Next]_vars PROVE DispatchInv'
<1>1. registry \in Seq(Consumers) /\ runtime \in Consumers \cup {None}
      /\ BindingsOk(bindings) /\ IsSeq(rows)
  BY DEF DispatchInv, RegistryInv
<1>2. ASSUME NEW c \in Consumers, Register(c) PROVE DispatchInv'
  <2>1. Append(registry, c) \in Seq(Consumers)
    BY <1>1
  <2> QED
    BY <1>1, <1>2, <2>1, RefreshKeepsInv DEF Register
<1>3. ASSUME NEW c \in Consumers, ReplaceConsumers(c) PROVE DispatchInv'
  <2>1. <<c>> \in Seq(Consumers)
    OBVIOUS
  <2> QED
    BY <1>1, <1>3, <2>1, RefreshKeepsInv DEF ReplaceConsumers
<1>4. ASSUME NEW c \in Consumers \cup {None}, SetRuntimeConsumer(c) PROVE DispatchInv'
  BY <1>1, <1>4, RefreshKeepsInv DEF SetRuntimeConsumer
<1>5. CASE Clear
  <2>1. <<>> \in Seq(Consumers)
    OBVIOUS
  <2> QED
    BY <1>1, <1>5, <2>1, RefreshKeepsInv DEF Clear
<1>6. CASE Loaded \/ PrepareInputs
  <2>1. UNCHANGED planVars /\ rows' = rows /\ Setup
    BY <1>6 DEF Loaded, PrepareInputs
  <2> QED
    BY <1>1, <2>1, SetupBinds, OthersKeepInv
<1>7. ASSUME NEW batch \in Batches, Prepared(batch) PROVE DispatchInv'
  <2>1. UNCHANGED planVars /\ rows' = batch /\ bindings' = bindings
    BY <1>7 DEF Prepared, setupVars
  <2>2. IsSeq(batch)
    BY BatchAssumption DEF IsSeq
  <2>3. IsSeq(rows') /\ BindingsOk(bindings')
    BY <1>1, <2>1, <2>2
  <2> QED
    BY <2>1, <2>3, OthersKeepInv
<1>8. CASE UNCHANGED <<planVars, setupVars, rows>>
  <2>1. UNCHANGED planVars /\ bindings' = bindings /\ rows' = rows
    BY <1>8 DEF setupVars
  <2> QED
    BY <1>1, <2>1, OthersKeepInv
<1>9. CASE Load \/ SetupFails \/ ExecuteModel \/ EndStep \/ Synchronize \/ CallbackRaises \/ Callback
  <2>1. UNCHANGED <<planVars, setupVars, rows>>
    BY <1>9 DEF Load, SetupFails, ExecuteModel, EndStep, Synchronize, CallbackRaises, Callback
  <2> QED
    BY <1>8, <2>1
<1>10. ASSUME NEW python \in BOOLEAN, Forward(python) PROVE DispatchInv'
  BY <1>8, <1>10 DEF Forward
<1>11. CASE UNCHANGED vars
  BY <1>8, <1>11 DEF vars
<1> QED
  BY <1>2, <1>3, <1>4, <1>5, <1>6, <1>7, <1>9, <1>10, <1>11 DEF Next, HostStep

LEMMA InvAlways == Spec => []DispatchInv
<1>1. Init => DispatchInv
  <2>1. IsSeq(<<>>) /\ Len(<<>>) = 0 /\ <<>> \in Seq(Consumers)
    BY DEF IsSeq, ToSet
  <2>2. BindingsOk(<<>>)
    BY <2>1 DEF BindingsOk
  <2>3. PlanOf(<<>>, None) = <<>>
    <3> DEFINE P == {i \in DOMAIN <<>> : Flows[<<>>[i]] # <<>> \/ Subs[<<>>[i]] # <<>>}
    <3>1. <<>> \o <<>> = <<>> /\ P = {}
      OBVIOUS
    <3>2. PlanOf(<<>>, None) = Kept(<<>>, P)
      BY <3>1 DEF PlanOf
    <3>3. Ordered({}) = <<>>
      BY FS_EmptySet DEF Ordered
    <3> QED
      BY <3>1, <3>2, <3>3 DEF Kept
  <2> QED
    BY <2>1, <2>2, <2>3 DEF Init, DispatchInv, RegistryInv
<1> QED
  BY <1>1, InvStep, PTL DEF Spec

-----------------------------------------------------------------------------
(* What a step of the host does to the callbacks *)

\* Between the entry of execute_model and its end.
InStep == {"entered", "preparing", "prepared", "forwarded", "ended"}

\* synchronize_esamp goes to the consumers themselves, not by the plan.
Synchronizes(x) == x.what = "synchronize" /\ x.to \in Registered

Refreshed == calls = <<>> /\ calls' = <<>> /\ log' = log /\ phase' \notin InStep
Handled ==
  /\ calls = <<>> /\ UNCHANGED planVars /\ Good(calls')
  /\ log' = <<>> \/ (log' = log /\ (phase' \in InStep => phase \in InStep))
Synchronized ==
  /\ calls = <<>> /\ UNCHANGED planVars /\ log' = log /\ phase' = phase
  /\ IsSeq(calls') /\ \A x \in ToSet(calls') : Synchronizes(x)
Abandoned == calls' = <<>> /\ UNCHANGED planVars /\ log' = log /\ phase' \notin InStep

LEMMA RefreshDoes ==
  ASSUME NEW reg, NEW rt, Refresh(reg, rt) PROVE Refreshed
BY DEF Refresh, Refreshed, InStep, Idle, Returned

LEMMA SynchronizeDoes ==
  ASSUME DispatchInv, Synchronize PROVE Synchronized
<1> DEFINE own == IF runtime = None THEN <<>> ELSE <<runtime>>
           all == own \o registry
           made == [i \in DOMAIN all |-> Call(all[i], "synchronize", "none", 0, NoEntries)]
<1>1. /\ calls = <<>> /\ UNCHANGED planVars /\ log' = log /\ phase' = phase
      /\ calls' = made
  BY DEF Synchronize, Idle, Returned
<1>2. IsSeq(registry) /\ ToSet(registry) \subseteq Registered
  BY SeqOver DEF DispatchInv, RegistryInv, Registered
<1>3. IsSeq(own) /\ ToSet(own) \subseteq {runtime}
  <2>1. IsSeq(<<>>) /\ ToSet(<<>>) = {} /\ IsSeq(<<runtime>>) /\ ToSet(<<runtime>>) = {runtime}
    BY DEF IsSeq, ToSet
  <2> QED
    BY <2>1
<1> HIDE DEF own
<1>4. IsSeq(all) /\ ToSet(all) \subseteq Registered
  BY <1>2, <1>3, Joined DEF Registered
<1> HIDE DEF all
<1>5. Len(all) \in Nat /\ DOMAIN all = 1 .. Len(all) /\ \A i \in 1 .. Len(all) : all[i] \in Registered
  BY <1>4, SeqDomain
<1>6. IsSeq(made) /\ DOMAIN made = 1 .. Len(all)
  BY <1>5, Listed
<1>7. \A i \in DOMAIN made : Synchronizes(made[i])
  BY <1>5, <1>6 DEF Synchronizes, Call
<1> HIDE DEF made
<1>8. \A x \in ToSet(made) : Synchronizes(x)
  BY <1>7 DEF ToSet
<1>9. IsSeq(calls') /\ \A x \in ToSet(calls') : Synchronizes(x)
  BY <1>1, <1>6, <1>8
<1> QED
  BY <1>1, <1>9 DEF Synchronized

\* A step of the host refreshes the plan, calls what it should, or abandons a step.
LEMMA HostDoes ==
  ASSUME DispatchInv, HostStep
  PROVE  Refreshed \/ Handled \/ Synchronized \/ Abandoned
<1>1. RegistryInv /\ BindingsOk(bindings) /\ IsSeq(rows)
  BY DEF DispatchInv
<1>2. ASSUME NEW c \in Consumers, Register(c) \/ ReplaceConsumers(c) PROVE Refreshed
  BY <1>2, RefreshDoes DEF Register, ReplaceConsumers
<1>3. ASSUME NEW c \in Consumers \cup {None}, SetRuntimeConsumer(c) PROVE Refreshed
  BY <1>3, RefreshDoes DEF SetRuntimeConsumer
<1>4. CASE Clear
  BY <1>4, RefreshDoes DEF Clear
<1>5. CASE Load
  <2>1. /\ calls = <<>> /\ UNCHANGED planVars /\ log' = <<>>
        /\ calls' = EventCalls("load_model.pre", "none", "none", FALSE, NoEntries)
    BY <1>5 DEF Load, Idle, Returned
  <2>2. Good(EventCalls("load_model.pre", "none", "none", FALSE, NoEntries))
    BY <1>1, EventCallsGood
  <2> QED
    BY <2>1, <2>2 DEF Handled
<1>6. CASE Loaded
  <2>1. /\ calls = <<>> /\ UNCHANGED planVars /\ log' = log /\ phase' = "idle"
        /\ calls' = EventCalls("load_model.post", "none", "none", fromHooks', NoEntries)
    BY <1>6 DEF Loaded, Returned
  <2>2. Good(EventCalls("load_model.post", "none", "none", fromHooks', NoEntries))
    BY <1>1, EventCallsGood
  <2> QED
    BY <2>1, <2>2 DEF Handled, InStep
<1>7. CASE SetupFails
  BY <1>7 DEF SetupFails, Returned, Refreshed, InStep
<1>8. CASE ExecuteModel
  <2>1. /\ calls = <<>> /\ UNCHANGED planVars /\ log' = <<>>
        /\ calls' = StepEvent("execute_model.pre", fromHooks)
    BY <1>8 DEF ExecuteModel, Idle, Returned
  <2>2. Good(StepEvent("execute_model.pre", fromHooks))
    BY <1>1, EventCallsGood DEF StepEvent
  <2> QED
    BY <2>1, <2>2 DEF Handled
<1>9. CASE PrepareInputs
  <2>1. /\ calls = <<>> /\ UNCHANGED planVars /\ log' = log /\ phase = "entered"
        /\ calls' = StepEvent("prepare_inputs.pre", fromHooks')
    BY <1>9 DEF PrepareInputs, Returned
  <2>2. Good(StepEvent("prepare_inputs.pre", fromHooks'))
    BY <1>1, EventCallsGood DEF StepEvent
  <2> QED
    BY <2>1, <2>2 DEF Handled, InStep
<1>10. ASSUME NEW batch \in Batches, Prepared(batch) PROVE Handled
  <2>1. /\ calls = <<>> /\ UNCHANGED planVars /\ log' = log /\ phase = "preparing"
        /\ calls' = StepEvent("prepare_inputs.post", fromHooks)
    BY <1>10 DEF Prepared, Returned
  <2>2. Good(StepEvent("prepare_inputs.post", fromHooks))
    BY <1>1, EventCallsGood DEF StepEvent
  <2> QED
    BY <2>1, <2>2 DEF Handled, InStep
<1>11. ASSUME NEW python \in BOOLEAN, Forward(python) PROVE Handled
  <2> DEFINE made == FlattenSeq([i \in DOMAIN TappedPaths |-> LayerCalls(TappedPaths[i])])
  <2>1. /\ calls = <<>> /\ UNCHANGED planVars /\ log' = log /\ phase = "prepared"
        /\ calls' = IF python THEN made ELSE <<>>
    BY <1>11 DEF Forward, Returned
  <2>2. Good(made)
    BY <1>1, ForwardCallsGood
  <2> HIDE DEF made
  <2>3. Good(calls')
    BY <2>1, <2>2, GoodNone
  <2> QED
    BY <2>1, <2>3 DEF Handled, InStep
<1>12. CASE EndStep
  <2> DEFINE made == FlowCalls \o Deferred \o StepEvent("execute_model.post", fromHooks)
  <2>1. /\ calls = <<>> /\ UNCHANGED planVars /\ log' = log /\ phase = "forwarded"
        /\ calls' = made
    BY <1>12 DEF EndStep, Returned
  <2>2. Good(made)
    BY <1>1, EndCallsGood
  <2> HIDE DEF made
  <2> QED
    BY <2>1, <2>2 DEF Handled, InStep
<1>13. CASE Synchronize
  BY <1>13, SynchronizeDoes
<1>14. CASE CallbackRaises
  BY <1>14 DEF CallbackRaises, Abandoned, InStep
<1> QED
  BY <1>2, <1>3, <1>4, <1>5, <1>6, <1>7, <1>8, <1>9, <1>10, <1>11, <1>12, <1>13, <1>14
  DEF HostStep

-----------------------------------------------------------------------------
(* Who is called *)

CallsInv ==
  /\ IsSeq(calls) /\ IsSeq(log)
  /\ \A x \in ToSet(calls) : Sound(x) \/ Synchronizes(x)
  /\ \A x \in ToSet(log) : Consistent(x)

\* The first of the callbacks, and those after it.
LEMMA FirstAndRest ==
  ASSUME NEW s, IsSeq(s), s # <<>>
  PROVE  /\ Head(s) \in ToSet(s) /\ IsSeq(Tail(s)) /\ ToSet(Tail(s)) \subseteq ToSet(s)
         /\ s = <<Head(s)>> \o Tail(s)
<1> DEFINE S == ToSet(s)
<1>1. s \in Seq(S) /\ s # <<>>
  BY DEF IsSeq
<1> HIDE DEF S
<1>2. Head(s) \in S /\ Tail(s) \in Seq(S) /\ s = <<Head(s)>> \o Tail(s)
  BY <1>1
<1>3. IsSeq(Tail(s)) /\ ToSet(Tail(s)) \subseteq S
  BY <1>2, SeqOver
<1> QED
  BY <1>2, <1>3 DEF S

\* The invariant over the callbacks to come and made, once their consumers are known.
LEMMA CallsInvFrom ==
  ASSUME UNCHANGED planVars, IsSeq(calls'), IsSeq(log'),
         \A x \in ToSet(calls') : Sound(x) \/ Synchronizes(x),
         \A x \in ToSet(log') : Consistent(x)
  PROVE  CallsInv'
<1>1. registry' = registry /\ runtime' = runtime /\ plan' = plan
  BY DEF planVars
<1>2. \A x : (Sound(x) => Sound(x)') /\ (Synchronizes(x) => Synchronizes(x)')
  BY <1>1 DEF Sound, Synchronizes, Registered, Consistent, ConsistentWith, Named
<1>3. IsSeq(calls)' /\ IsSeq(log)'
  BY DEF IsSeq
<1>4. \A x \in ToSet(calls') : Sound(x)' \/ Synchronizes(x)'
  BY <1>2
<1> QED
  BY <1>3, <1>4 DEF CallsInv, Consistent, ConsistentWith, Named

LEMMA NothingToCall ==
  ASSUME CallsInv, calls' = <<>>, log' = log PROVE CallsInv'
<1>1. IsSeq(<<>>) /\ ToSet(<<>>) = {}
  BY DEF IsSeq, ToSet
<1>2. IsSeq(log) /\ \A x \in ToSet(log) : Consistent(x)
  BY DEF CallsInv
<1>3. IsSeq(calls') /\ ToSet(calls') = {}
  BY <1>1
<1>4. IsSeq(log') /\ \A x \in ToSet(log') : Consistent(x)
  BY <1>2
<1> QED
  BY <1>3, <1>4 DEF CallsInv, IsSeq, Consistent, ConsistentWith, Named

LEMMA CallsInvStep ==
  ASSUME DispatchInv, CallsInv, [Next]_vars PROVE CallsInv'
<1>1. /\ IsSeq(calls) /\ IsSeq(log)
      /\ \A x \in ToSet(calls) : Sound(x) \/ Synchronizes(x)
      /\ \A x \in ToSet(log) : Consistent(x)
  BY DEF CallsInv
<1>2. IsSeq(<<>>) /\ ToSet(<<>>) = {}
  BY DEF IsSeq, ToSet
<1>3. CASE Refreshed
  BY <1>3, NothingToCall DEF Refreshed
<1>4. CASE Abandoned
  BY <1>4, NothingToCall DEF Abandoned
<1>5. CASE Handled
  <2>1. UNCHANGED planVars /\ Good(calls') /\ (log' = <<>> \/ log' = log)
    BY <1>5 DEF Handled
  <2>2. IsSeq(calls') /\ \A x \in ToSet(calls') : Sound(x)
    BY <2>1 DEF Good
  <2>3. IsSeq(log') /\ \A x \in ToSet(log') : Consistent(x)
    BY <1>1, <1>2, <2>1
  <2> QED
    BY <2>1, <2>2, <2>3, CallsInvFrom
<1>6. CASE Synchronized
  <2>1. UNCHANGED planVars /\ log' = log
        /\ IsSeq(calls') /\ \A x \in ToSet(calls') : Synchronizes(x)
    BY <1>6 DEF Synchronized
  <2>2. IsSeq(log') /\ \A x \in ToSet(log') : Consistent(x)
    BY <1>1, <2>1
  <2> QED
    BY <2>1, <2>2, CallsInvFrom
<1>7. CASE Callback
  <2> DEFINE x == Head(calls)
  <2>1. /\ UNCHANGED planVars /\ calls # <<>> /\ x # Raises /\ calls' = Tail(calls)
        /\ log' = IF x.what = "synchronize" THEN log ELSE Append(log, x)
    BY <1>7 DEF Callback, Returned
  <2> HIDE DEF x
  <2>2. x \in ToSet(calls) /\ IsSeq(Tail(calls)) /\ ToSet(Tail(calls)) \subseteq ToSet(calls)
    BY <1>1, <2>1, FirstAndRest DEF x
  <2>3. IsSeq(calls') /\ \A y \in ToSet(calls') : Sound(y) \/ Synchronizes(y)
    BY <1>1, <2>1, <2>2
  <2>4. x.what = "synchronize" \/ Consistent(x)
    BY <1>1, <2>1, <2>2 DEF Sound, Synchronizes
  <2>5. IsSeq(Append(log, x)) /\ ToSet(Append(log, x)) = ToSet(log) \cup {x}
    <3>1. IsSeq(<<x>>) /\ ToSet(<<x>>) = {x} /\ Append(log, x) = log \o <<x>>
      BY <1>1 DEF IsSeq, ToSet
    <3> QED
      BY <1>1, <3>1, Joined
  <2>6. IsSeq(log') /\ \A y \in ToSet(log') : Consistent(y)
    BY <1>1, <2>1, <2>4, <2>5
  <2> QED
    BY <2>1, <2>3, <2>6, CallsInvFrom
<1>8. CASE UNCHANGED vars
  <2>1. UNCHANGED planVars /\ calls' = calls /\ log' = log
    BY <1>8 DEF vars
  <2>2. IsSeq(calls') /\ \A y \in ToSet(calls') : Sound(y) \/ Synchronizes(y)
    BY <1>1, <2>1
  <2>3. IsSeq(log') /\ \A y \in ToSet(log') : Consistent(y)
    BY <1>1, <2>1
  <2> QED
    BY <2>1, <2>2, <2>3, CallsInvFrom
<1> QED
  BY <1>3, <1>4, <1>5, <1>6, <1>7, <1>8, HostDoes DEF Next

\* In every behaviour, whatever is to be called is sound, and whatever was given consistent.
LEMMA CallsInvAlways == Spec => []CallsInv
<1>1. Init => CallsInv
  <2>1. IsSeq(<<>>) /\ ToSet(<<>>) = {}
    BY DEF IsSeq, ToSet
  <2> QED
    BY <2>1 DEF Init, CallsInv
<1> QED
  BY <1>1, CallsInvStep, InvAlways, PTL DEF Spec

\* No callback is ever made to a consumer that was removed, replaced or never set: the
\* plan names only who is registered, and every handler calls by the plan
\* (_refresh_dispatch_plan).
THEOREM OnlyRegisteredAreCalled == Spec => []CallsRegisteredOnly
<1>1. DispatchInv /\ CallsInv => CallsRegisteredOnly
  <2> SUFFICES ASSUME DispatchInv, CallsInv PROVE CallsRegisteredOnly
    OBVIOUS
  <2>1. ToSet(plan) \subseteq Registered
    BY PlannedAreRegistered DEF DispatchInv
  <2>2. Registered = {runtime} \cup {registry[i] : i \in DOMAIN registry}
    BY DEF Registered, ToSet
  <2>3. ASSUME NEW n \in DOMAIN calls PROVE calls[n] = Raises \/ calls[n].to \in Registered
    <3>1. calls[n] \in ToSet(calls)
      BY DEF ToSet
    <3>2. Sound(calls[n]) \/ Synchronizes(calls[n])
      BY <3>1 DEF CallsInv
    <3> QED
      BY <2>1, <3>2 DEF Sound, Synchronizes
  <2> QED
    BY <2>2, <2>3 DEF CallsRegisteredOnly
<1> QED
  BY <1>1, CallsInvAlways, InvAlways, PTL

\* Each flow reads something, and each of its reads fills an entry of its own: of two
\* reads with one role the later would overwrite the earlier (_entry_for_flow_read).
NamedReads == \A c \in Consumers : \A k \in DOMAIN Flows[c] : Named(Flows[c][k])

\* Every bundle ever given holds the same rows in each of its entries, in increasing
\* order, each read at the place of its locator, whether it was put together directly or
\* of frames (build_step_scope_port_bundle, BundleAssembler).
THEOREM BundlesAlwaysConsistent ==
  ASSUME NamedReads PROVE Spec => []BundlesAreConsistent
<1>1. CallsInv => BundlesAreConsistent
  <2>1. ASSUME CallsInv, NEW n \in DOMAIN log, log[n].what = "consume_bundle"
        PROVE  ConsistentWith(Flows[log[n].to][log[n].k], log[n].entries)
    <3>1. Consistent(log[n])
      BY <2>1 DEF CallsInv, ToSet
    <3> QED
      BY <2>1, <3>1 DEF Consistent, NamedReads
  <2> QED
    BY <2>1 DEF BundlesAreConsistent, ConsistentWith, Place
<1> QED
  BY <1>1, CallsInvAlways, PTL

-----------------------------------------------------------------------------
(* The end of a step *)

\* During a step, and once it has ended, what was called and what is still to be called
\* ends the step of whoever was given a bundle in it; a synchronization leaves the log.
FollowInv ==
  phase \in InStep =>
    \/ Followed(log) /\ \A x \in ToSet(calls) : x.what = "synchronize"
    \/ Followed(log \o calls) /\ \A x \in ToSet(calls) : x.what # "synchronize"

\* Nothing is to be called: what was called is followed.
LEMMA FollowedSoFar ==
  ASSUME CallsInv, FollowInv, phase \in InStep, calls = <<>> PROVE Followed(log)
<1>1. log \o <<>> = log
  BY DEF CallsInv, IsSeq
<1> QED
  BY <1>1 DEF FollowInv

LEMMA FollowInvStep ==
  ASSUME DispatchInv, CallsInv, FollowInv, [Next]_vars PROVE FollowInv'
<1>1. IsSeq(calls) /\ IsSeq(log)
  BY DEF CallsInv
<1>2. CASE Refreshed \/ Abandoned
  BY <1>2 DEF Refreshed, Abandoned, FollowInv, InStep
<1>3. CASE Handled
  <2>1. SUFFICES ASSUME phase' \in InStep
                 PROVE  Followed(log' \o calls') /\ \A x \in ToSet(calls') : x.what # "synchronize"
    BY DEF FollowInv, InStep, Followed, FollowedAt
  <2>2. /\ calls = <<>> /\ Good(calls')
        /\ log' = <<>> \/ (log' = log /\ phase \in InStep)
    BY <1>3, <2>1 DEF Handled
  <2>3. IsSeq(calls') /\ Followed(calls') /\ \A x \in ToSet(calls') : Sound(x)
    BY <2>2 DEF Good
  <2>4. \A x \in ToSet(calls') : x.what # "synchronize"
    <3>1. Raises.what = "raise"
      BY DEF Raises, Call
    <3> QED
      BY <2>3, <3>1 DEF Sound
  <2>5. IsSeq(log') /\ Followed(log')
    <3>1. IsSeq(<<>>) /\ Followed(<<>>)
      BY GoodNone DEF Good
    <3>2. phase \in InStep => Followed(log)
      BY <2>2, FollowedSoFar
    <3> QED
      BY <1>1, <2>2, <3>1, <3>2
  <2>6. Followed(log' \o calls')
    BY <2>3, <2>5, FollowedJoined
  <2> QED
    BY <2>4, <2>6
<1>4. CASE Synchronized
  <2>1. /\ calls = <<>> /\ log' = log /\ phase' = phase
        /\ \A x \in ToSet(calls') : x.what = "synchronize"
    BY <1>4 DEF Synchronized, Synchronizes
  <2>2. phase' \in InStep => Followed(log')
    <3>1. phase \in InStep => Followed(log)
      BY <2>1, FollowedSoFar
    <3> QED
      BY <2>1, <3>1
  <2> QED
    BY <2>1, <2>2 DEF FollowInv, InStep, Followed, FollowedAt
<1>5. CASE Callback
  <2> DEFINE x == Head(calls)
             rest == Tail(calls)
  <2>1. /\ phase' = phase /\ calls # <<>> /\ calls' = rest
        /\ log' = IF x.what = "synchronize" THEN log ELSE Append(log, x)
    BY <1>5 DEF Callback, Returned
  <2>2. x \in ToSet(calls) /\ IsSeq(rest) /\ ToSet(rest) \subseteq ToSet(calls)
        /\ calls = <<x>> \o rest
    BY <1>1, <2>1, FirstAndRest
  <2> HIDE DEF x, rest
  <2>3. ASSUME phase \in InStep, Followed(log), \A y \in ToSet(calls) : y.what = "synchronize"
        PROVE  Followed(log') /\ \A y \in ToSet(calls') : y.what = "synchronize"
    <3>1. log' = log
      BY <2>1, <2>2, <2>3
    <3>2. Followed(log')
      BY <2>3, <3>1
    <3>3. \A y \in ToSet(calls') : y.what = "synchronize"
      BY <2>1, <2>2, <2>3
    <3> QED
      BY <3>2, <3>3
  <2>4. ASSUME phase \in InStep, Followed(log \o calls),
               \A y \in ToSet(calls) : y.what # "synchronize"
        PROVE  Followed(log' \o calls') /\ \A y \in ToSet(calls') : y.what # "synchronize"
    <3>1. log' = Append(log, x)
      BY <2>1, <2>2, <2>4
    <3>2. Append(log, x) \o rest = log \o (<<x>> \o rest)
      <4> DEFINE S == ToSet(log) \cup ToSet(rest) \cup {x}
      <4>1. log \in Seq(S) /\ rest \in Seq(S) /\ x \in S
        BY <1>1, <2>2, SeqDomain
      <4> HIDE DEF S
      <4> QED
        BY <4>1
    <3>3. log' \o calls' = log \o calls
      BY <2>1, <2>2, <3>1, <3>2
    <3>4. Followed(log' \o calls')
      BY <2>4, <3>3
    <3>5. \A y \in ToSet(calls') : y.what # "synchronize"
      BY <2>1, <2>2, <2>4
    <3> QED
      BY <3>4, <3>5
  <2> QED
    BY <2>1, <2>3, <2>4 DEF FollowInv, InStep, Followed, FollowedAt
<1>6. CASE UNCHANGED vars
  <2>1. log' = log /\ calls' = calls /\ phase' = phase
    BY <1>6 DEF vars
  <2>2. phase' \in InStep =>
          \/ Followed(log') /\ \A x \in ToSet(calls') : x.what = "synchronize"
          \/ Followed(log' \o calls') /\ \A x \in ToSet(calls') : x.what # "synchronize"
    BY <2>1 DEF FollowInv
  <2> QED
    BY Zenon, <2>2 DEF FollowInv, InStep, Followed, FollowedAt
<1> QED
  BY <1>2, <1>3, <1>4, <1>5, <1>6, HostDoes DEF Next

\* A consumer that is given a bundle in the same step is told of the step's end after it,
\* and a consumer of background flows never is (dispatch_decode_port_bundles).
THEOREM StepAlwaysEndsAfterBundles == Spec => []StepEndFollowsBundles
<1>1. Init => FollowInv
  BY DEF Init, FollowInv, InStep
<1>2. CallsInv /\ FollowInv => StepEndFollowsBundles
  <2> SUFFICES ASSUME CallsInv, FollowInv, Ended PROVE StepEndFollowsBundles
    BY DEF StepEndFollowsBundles
  <2>1. Followed(log)
    BY FollowedSoFar DEF Ended, Returned, InStep
  <2>2. DOMAIN log = 1 .. Len(log)
    BY SeqDomain DEF CallsInv
  <2> QED
    BY <2>1, <2>2 DEF Followed, FollowedAt, StepEndFollowsBundles
<1> QED
  BY <1>1, <1>2, FollowInvStep, CallsInvAlways, InvAlways, PTL DEF Spec

-----------------------------------------------------------------------------
(* The batches of the tapped layers *)

\* The batch of a layer, and the callback that gives it to a consumer.
BatchOf(rws, path) ==
  IF rws = <<>> THEN NoEntries ELSE "rows" :> [i \in DOMAIN rws |-> Payload(path, i)]
PostTo(c, path, rws) == Call(c, "layer.post", path, 0, BatchOf(rws, path))

\* How often it is made among these callbacks.
Posts(s, c, path, rws) == Len(Picked(s, {PostTo(c, path, rws)}))

\* How often a consumer is in the plan, and those of its subscriptions that ask for it.
Planned(pl, c) == Cardinality({i \in DOMAIN pl : pl[i] = c})
AskedFor(c, path, hooks) ==
  {s \in DOMAIN Subs[c] :
     LET sub == Subs[c][s]
     IN  /\ sub.event = "layer.post" /\ sub.phase \in {"any", "decode"}
         /\ sub.layer \in {"any", path}
         /\ sub.capture = "required" => hooks
         /\ sub.capture = "never" => ~hooks}

\* The callbacks of layer.post have nothing but their consumer, their path and their batch.
PostsShaped(s) ==
  \A x \in ToSet(s) : x.what = "layer.post" => x = Call(x.to, "layer.post", x.path, 0, x.entries)
NoPosts(s) == \A x \in ToSet(s) : x.what # "layer.post"

\* Each subscription is given the batch of each of these layers once.
PostedIn(s, paths, pl, rws, hooks) ==
  /\ PostsShaped(s)
  /\ \A c \in Consumers : \A path \in ToSet(paths) :
       Posts(s, c, path, rws) = Planned(pl, c) * Cardinality(AskedFor(c, path, hooks))

LEMMA PostsJoined ==
  ASSUME NEW s, IsSeq(s), NEW t, IsSeq(t), NEW c, NEW path, NEW rws
  PROVE  /\ Posts(s, c, path, rws) \in Nat /\ Posts(t, c, path, rws) \in Nat
         /\ Posts(s \o t, c, path, rws) = Posts(s, c, path, rws) + Posts(t, c, path, rws)
<1> DEFINE M == {PostTo(c, path, rws)}
<1>1. Posts(s, c, path, rws) = Len(Picked(s, M)) /\ Posts(t, c, path, rws) = Len(Picked(t, M))
      /\ Posts(s \o t, c, path, rws) = Len(Picked(s \o t, M))
  BY DEF Posts
<1> HIDE DEF M
<1> DEFINE a == Picked(s, M)
           b == Picked(t, M)
<1>2. IsSeq(a)
  BY PickedCount
<1>3. IsSeq(b)
  BY PickedCount
<1>4. Picked(s \o t, M) = a \o b
  BY PickedJoined, Z3
<1> HIDE DEF a, b
<1>5. Len(a \o b) = Len(a) + Len(b) /\ Len(a) \in Nat /\ Len(b) \in Nat
  BY <1>2, <1>3, Joined, SeqDomain
<1> QED
  BY <1>1, <1>4, <1>5 DEF a, b

LEMMA NoPostsNone ==
  ASSUME NEW s, IsSeq(s), NoPosts(s), NEW c, NEW path, NEW rws
  PROVE  Posts(s, c, path, rws) = 0
<1> DEFINE M == {PostTo(c, path, rws)}
<1>1. ToSet(s) \cap M = {}
  <2>1. PostTo(c, path, rws).what = "layer.post"
    BY DEF PostTo, Call
  <2> QED
    BY <2>1 DEF NoPosts
<1> HIDE DEF M
<1>2. Picked(s, M) = <<>>
  BY <1>1, PickedNone
<1>3. Len(Picked(s, M)) = 0
  BY <1>2
<1> QED
  BY <1>3 DEF Posts, M

LEMMA NoPostsJoined ==
  ASSUME NEW s, IsSeq(s), NEW t, IsSeq(t)
  PROVE  /\ NoPosts(s) /\ NoPosts(t) => NoPosts(s \o t)
         /\ PostsShaped(s) /\ PostsShaped(t) => PostsShaped(s \o t)
<1>1. ToSet(s \o t) = ToSet(s) \cup ToSet(t)
  BY Joined
<1> QED
  BY <1>1 DEF NoPosts, PostsShaped

\* What puts nothing of them behind leaves their number.
LEMMA PostedStays ==
  ASSUME NEW s, IsSeq(s), NEW t, IsSeq(t), NoPosts(t), NEW paths, NEW pl, NEW rws, NEW hooks,
         PostedIn(s, paths, pl, rws, hooks)
  PROVE  PostedIn(s \o t, paths, pl, rws, hooks)
<1>1. PostsShaped(t)
  BY DEF NoPosts, PostsShaped
<1>2. PostsShaped(s \o t)
  BY <1>1, NoPostsJoined DEF PostedIn
<1>3. ASSUME NEW c \in Consumers, NEW path \in ToSet(paths)
      PROVE  Posts(s \o t, c, path, rws) = Planned(pl, c) * Cardinality(AskedFor(c, path, hooks))
  <2>1. Posts(t, c, path, rws) = 0
    BY NoPostsNone
  <2>2. Posts(s, c, path, rws) \in Nat
        /\ Posts(s \o t, c, path, rws) = Posts(s, c, path, rws) + Posts(t, c, path, rws)
    BY PostsJoined
  <2>3. Posts(s \o t, c, path, rws) = Posts(s, c, path, rws)
    BY <2>1, <2>2
  <2> QED
    BY <2>3 DEF PostedIn
<1> QED
  BY <1>2, <1>3 DEF PostedIn

\* What comes behind callbacks that give nothing of them.
LEMMA PostedBehind ==
  ASSUME NEW s, IsSeq(s), NoPosts(s), NEW t, IsSeq(t), NEW paths, NEW pl, NEW rws, NEW hooks,
         PostedIn(t, paths, pl, rws, hooks)
  PROVE  PostedIn(s \o t, paths, pl, rws, hooks)
<1>1. PostsShaped(s)
  BY DEF NoPosts, PostsShaped
<1>2. PostsShaped(s \o t)
  BY <1>1, NoPostsJoined DEF PostedIn
<1>3. ASSUME NEW c \in Consumers, NEW path \in ToSet(paths)
      PROVE  Posts(s \o t, c, path, rws) = Planned(pl, c) * Cardinality(AskedFor(c, path, hooks))
  <2>1. Posts(s, c, path, rws) = 0
    BY NoPostsNone
  <2>2. Posts(t, c, path, rws) \in Nat
        /\ Posts(s \o t, c, path, rws) = Posts(s, c, path, rws) + Posts(t, c, path, rws)
    BY PostsJoined
  <2>3. Posts(s \o t, c, path, rws) = Posts(t, c, path, rws)
    BY <2>1, <2>2
  <2> QED
    BY <2>3 DEF PostedIn
<1> QED
  BY <1>2, <1>3 DEF PostedIn

\* The event of a layer gives its batch to each subscription that asks for it, and to each
\* consumer as often as it is planned (DispatchPlan.select, dispatch_runtime_event).
LEMMA EventPosts ==
  ASSUME RegistryInv, NEW c \in Consumers, NEW path, NEW q, q # "none", NEW hooks, NEW rws
  PROVE  LET s == EventCalls("layer.post", "decode", q, hooks, BatchOf(rws, q))
         IN  /\ q = path => Posts(s, c, path, rws)
                              = Planned(plan, c) * Cardinality(AskedFor(c, path, hooks))
             /\ q # path => Posts(s, c, path, rws) = 0
<1> DEFINE selected(d) ==
             {j \in DOMAIN Subs[d] : Selects(Subs[d][j], "layer.post", "decode", q, hooks)}
           post(d) == PostTo(d, q, rws)
           of(d) == [j \in 1 .. Cardinality(selected(d)) |-> post(d)]
           ss == [i \in DOMAIN plan |-> of(plan[i])]
           M == {PostTo(c, path, rws)}
           I == {i \in 1 .. Len(plan) : plan[i] = c}
<1>1. /\ IsSeq(plan) /\ Len(plan) \in Nat /\ DOMAIN plan = 1 .. Len(plan)
      /\ \A i \in 1 .. Len(plan) : plan[i] \in Consumers
  BY PlannedAreRegistered, SeqDomain
<1>2. EventCalls("layer.post", "decode", q, hooks, BatchOf(rws, q)) = FlattenSeq(ss)
  BY DEF EventCalls, PostTo
<1>3. ASSUME NEW d \in Consumers PROVE Cardinality(selected(d)) \in Nat
  <2>1. Subs[d] \in Seq(SubType)
    BY ConsumerAssumption
  <2>2. Len(Subs[d]) \in Nat /\ DOMAIN Subs[d] = 1 .. Len(Subs[d])
    BY <2>1, Elements
  <2>3. selected(d) \in SUBSET (1 .. Len(Subs[d]))
    BY <2>2
  <2>4. IsFiniteSet(1 .. Len(Subs[d]))
    BY <2>2, FS_Interval
  <2> HIDE DEF selected
  <2>5. IsFiniteSet(selected(d))
    BY <2>3, <2>4, FS_Subset
  <2> QED
    BY <2>5, FS_CardinalityType
<1>4. selected(c) = AskedFor(c, q, hooks)
  BY DEF AskedFor, Selects
<1>5. \A d : post(d) = PostTo(c, path, rws) <=> d = c /\ q = path
  BY DEF PostTo, Call
<1> HIDE DEF selected, post
<1>6. ASSUME NEW d \in Consumers
      PROVE  /\ IsSeq(of(d)) /\ Len(of(d)) = Cardinality(selected(d))
             /\ \A x \in ToSet(of(d)) : x = post(d)
  <2> DEFINE n == Cardinality(selected(d))
             s == [j \in 1 .. n |-> post(d)]
  <2>1. n \in Nat
    BY <1>3
  <2>2. of(d) = s
    OBVIOUS
  <2> HIDE DEF n
  <2>3. IsSeq(s) /\ Len(s) = n /\ DOMAIN s = 1 .. n
    BY <2>1, Listed
  <2>4. \A x \in ToSet(s) : x = post(d)
    BY <2>3 DEF ToSet
  <2> QED
    BY <2>2, <2>3, <2>4 DEF n
<1> HIDE DEF of
<1>7. IsSeq(ss) /\ Len(ss) = Len(plan) /\ \A i \in 1 .. Len(plan) : ss[i] = of(plan[i])
  BY <1>1, Listed
<1>8. /\ I \in SUBSET (1 .. Len(plan)) /\ Planned(plan, c) = Cardinality(I)
      /\ \A i \in 1 .. Len(plan) : i \in I <=> plan[i] = c
  BY <1>1 DEF Planned
<1>9. Cardinality(I) \in Nat
  <2>1. IsFiniteSet(1 .. Len(plan))
    BY <1>1, FS_Interval
  <2> HIDE DEF I
  <2>2. IsFiniteSet(I)
    BY <1>8, <2>1, FS_Subset
  <2> QED
    BY <2>2, FS_CardinalityType
<1> HIDE DEF ss, I
<1>10. ASSUME q = path
       PROVE  Posts(FlattenSeq(ss), c, path, rws)
                = Planned(plan, c) * Cardinality(AskedFor(c, path, hooks))
  <2>1. ASSUME NEW i \in 1 .. Len(plan)
        PROVE  Picked(ss[i], M) = IF i \in I THEN of(c) ELSE <<>>
    <3>1. IsSeq(ss[i]) /\ \A x \in ToSet(ss[i]) : x = post(plan[i])
      BY <1>1, <1>6, <1>7
    <3>2. CASE plan[i] = c
      <4>1. ToSet(ss[i]) \subseteq M /\ ss[i] = of(c) /\ i \in I
        BY <1>5, <1>7, <1>8, <1>10, <3>1, <3>2
      <4> HIDE DEF M
      <4>2. Picked(ss[i], M) = ss[i]
        BY <3>1, <4>1, PickedAll
      <4> QED
        BY <4>1, <4>2
    <3>3. CASE plan[i] # c
      <4>1. ToSet(ss[i]) \cap M = {} /\ i \notin I
        BY <1>5, <1>8, <3>1, <3>3
      <4> HIDE DEF M
      <4>2. Picked(ss[i], M) = <<>>
        BY <3>1, <4>1, PickedNone
      <4> QED
        BY <4>1, <4>2
    <3> QED
      BY <3>2, <3>3
  <2> DEFINE R == of(c)
             n == Cardinality(I)
  <2>2. /\ IsSeq(R) /\ I \in SUBSET (1 .. Len(ss))
        /\ \A i \in 1 .. Len(ss) : IsSeq(ss[i])
        /\ \A i \in 1 .. Len(ss) : Picked(ss[i], M) = IF i \in I THEN R ELSE <<>>
    BY <1>1, <1>6, <1>7, <1>8, <2>1
  <2> HIDE DEF M, R
  <2>3. Picked(FlattenSeq(ss), M) = Repeated(R, n)
    BY <1>7, <2>2, PickedFlattened, Z3
  <2> HIDE DEF n
  <2>4. Len(Repeated(R, n)) = n * Len(R)
    BY <1>9, <2>2, RepeatedLength DEF n
  <2>5. n = Planned(plan, c) /\ Len(R) = Cardinality(AskedFor(c, path, hooks))
    BY <1>4, <1>6, <1>8, <1>10 DEF n, R
  <2> QED
    BY <2>3, <2>4, <2>5 DEF Posts, M
<1>11. ASSUME q # path PROVE Posts(FlattenSeq(ss), c, path, rws) = 0
  <2>1. ASSUME NEW i \in 1 .. Len(ss) PROVE IsSeq(ss[i]) /\ \A x \in ToSet(ss[i]) : x = post(plan[i])
    BY <1>1, <1>6, <1>7, <2>1
  <2> DEFINE s == FlattenSeq(ss)
  <2>2. IsSeq(s) /\ \A x \in ToSet(s) : \E i \in 1 .. Len(ss) : x \in ToSet(ss[i])
    BY <1>7, <2>1, FlattenElements
  <2> HIDE DEF s
  <2>3. ToSet(s) \cap M = {}
    BY <1>5, <1>11, <2>1, <2>2
  <2> HIDE DEF M
  <2>4. Picked(s, M) = <<>>
    BY <2>2, <2>3, PickedNone
  <2>5. Len(Picked(s, M)) = 0
    BY <2>4
  <2> QED
    BY <2>5 DEF Posts, M, s
<1> QED
  BY <1>2, <1>10, <1>11

\* The layers that are tapped: each has a path, and each is tapped once.
LEMMA TappedPathsAre ==
  ASSUME \A l \in Layers : PathOf[l] # "none"
  PROVE  /\ IsSeq(TappedPaths) /\ \A i \in 1 .. Len(TappedPaths) : TappedPaths[i] # "none"
         /\ \A i, j \in 1 .. Len(TappedPaths) : TappedPaths[i] = TappedPaths[j] => i = j
<1> DEFINE both == <<"source", "target">>
           P == {k \in DOMAIN both : \E i \in DOMAIN bindings : bindings[i].path = PathOf[both[k]]}
           ls == Kept(both, P)
           paths == [i \in DOMAIN ls |-> PathOf[ls[i]]]
<1>1. IsSeq(both) /\ 1 .. Len(both) = {1, 2} /\ DOMAIN both = {1, 2} /\ both[1] = "source"
      /\ both[2] = "target"
  BY DEF IsSeq, ToSet
<1>2. P \in SUBSET (1 .. Len(both))
  BY <1>1
<1>3. TappedPaths = IF Len(ls) = 2 /\ PathOf["source"] = PathOf["target"]
                    THEN <<PathOf["source"]>> ELSE paths
  BY DEF TappedPaths
<1>4. \A i \in P : i \in {1, 2}
  BY <1>1
<1> HIDE DEF both
<1> HIDE DEF P
<1>5. /\ IsSeq(ls)
      /\ \A x \in ToSet(ls) : \E i \in P : x = both[i]
      /\ \A k, l \in DOMAIN ls : k < l => \E i, j \in P : i < j /\ ls[k] = both[i] /\ ls[l] = both[j]
  BY <1>1, <1>2, KeptElements
<1> HIDE DEF ls
<1>6. Len(ls) \in Nat /\ DOMAIN ls = 1 .. Len(ls)
  BY <1>5, SeqDomain
<1>7. \A k \in 1 .. Len(ls) : ls[k] \in Layers
  BY <1>1, <1>4, <1>5, <1>6, SeqDomain DEF Layers
<1>8. ASSUME NEW k \in 1 .. Len(ls), NEW l \in 1 .. Len(ls), k < l
      PROVE  ls[k] = "source" /\ ls[l] = "target"
  <2>1. PICK i \in P, j \in P : i < j /\ ls[k] = both[i] /\ ls[l] = both[j]
    BY <1>5, <1>6, <1>8
  <2>2. i = 1 /\ j = 2
    BY <1>4, <2>1
  <2> QED
    BY <1>1, <2>1, <2>2
<1>9. Len(ls) <= 2
  <2>1. ASSUME ~(Len(ls) <= 2) PROVE FALSE
    <3>1. 1 \in 1 .. Len(ls) /\ 2 \in 1 .. Len(ls) /\ 3 \in 1 .. Len(ls)
      BY <1>6, <2>1
    <3>2. ls[2] = "target" /\ ls[2] = "source"
      BY <1>8, <3>1
    <3> QED
      BY <3>2
  <2> QED
    BY <2>1
<1>10. IsSeq(paths) /\ Len(paths) = Len(ls) /\ \A i \in 1 .. Len(ls) : paths[i] = PathOf[ls[i]]
  BY <1>6, Listed
<1> HIDE DEF paths
<1>11. CASE Len(ls) = 2 /\ PathOf["source"] = PathOf["target"]
  <2>1. TappedPaths = <<PathOf["source"]>>
    BY <1>3, <1>11
  <2>2. IsSeq(<<PathOf["source"]>>)
    BY DEF IsSeq, ToSet
  <2>3. PathOf["source"] # "none"
    BY DEF Layers
  <2> QED
    BY <2>1, <2>2, <2>3
<1>12. CASE ~(Len(ls) = 2 /\ PathOf["source"] = PathOf["target"])
  <2>1. TappedPaths = paths
    BY <1>3, <1>12
  <2>2. \A i \in 1 .. Len(paths) : paths[i] # "none"
    BY <1>7, <1>10
  <2>3. ASSUME NEW i \in 1 .. Len(paths), NEW j \in 1 .. Len(paths), i < j
        PROVE  paths[i] # paths[j]
    <3>1. i \in 1 .. Len(ls) /\ j \in 1 .. Len(ls)
      BY <1>10
    <3>2. ls[i] = "source" /\ ls[j] = "target"
      BY <1>8, <2>3, <3>1
    <3>3. Len(ls) = 2
      BY <1>6, <1>9, <2>3, <3>1
    <3> QED
      BY <1>10, <1>12, <3>1, <3>2, <3>3
  <2>4. ASSUME NEW i \in 1 .. Len(paths), NEW j \in 1 .. Len(paths), paths[i] = paths[j]
        PROVE  i = j
    <3>1. i \in Nat /\ j \in Nat
      BY <1>6, <1>10
    <3>2. i < j \/ j < i \/ i = j
      BY <3>1
    <3> QED
      BY <2>3, <2>4, <3>2
  <2> QED
    BY <1>10, <2>1, <2>2, <2>4
<1> QED
  BY <1>11, <1>12

\* Only the path at one place has calls of layer.post for a path.
PostsAt(ss, c, path, rws, at, n) ==
  \A i \in 1 .. Len(ss) : Posts(ss[i], c, path, rws) = IF i = at THEN n ELSE 0

\* Of sequences of callbacks, one for each of some layers, all those of one layer are in
\* its own sequence.
LEMMA PathsPosted ==
  ASSUME NEW ss, IsSeq(ss), \A i \in 1 .. Len(ss) : IsSeq(ss[i]),
         NEW c, NEW path, NEW rws, NEW N \in Nat, NEW at \in 1 .. Len(ss),
         PostsAt(ss, c, path, rws, at, N)
  PROVE  Posts(FlattenSeq(ss), c, path, rws) = N
<1> DEFINE M == {PostTo(c, path, rws)}
           R == Picked(ss[at], M)
           I == {at}
<1>1. \A i \in 1 .. Len(ss) : Len(Picked(ss[i], M)) = IF i = at THEN N ELSE 0
  BY DEF Posts, PostsAt
<1> HIDE DEF M
<1>2. ASSUME NEW i \in 1 .. Len(ss) PROVE Picked(ss[i], M) = IF i \in I THEN R ELSE <<>>
  <2>1. CASE i = at
    BY <2>1
  <2>2. CASE i # at
    <3>1. IsSeq(Picked(ss[i], M)) /\ Len(Picked(ss[i], M)) = 0
      BY <1>1, <2>2, PickedCount
    <3>2. Picked(ss[i], M) = <<>>
      BY <3>1 DEF IsSeq
    <3> QED
      BY <2>2, <3>2
  <2> QED
    BY <2>1, <2>2
<1>3. IsSeq(R) /\ Len(R) = N
  BY <1>1, PickedCount
<1>4. I \in SUBSET (1 .. Len(ss)) /\ Cardinality(I) = 1
  BY FS_Singleton
<1> HIDE DEF R, I
<1>5. Picked(FlattenSeq(ss), M) = Repeated(R, Cardinality(I))
  BY <1>2, <1>3, <1>4, PickedFlattened, Z3
<1>6. Len(Repeated(R, 1)) = 1 * Len(R)
  BY <1>3, RepeatedLength
<1>7. Len(Picked(FlattenSeq(ss), M)) = N
  BY <1>3, <1>4, <1>5, <1>6
<1> QED
  BY <1>7 DEF Posts, M

\* The event of anything else gives no batch of a layer.
LEMMA OtherEvent ==
  ASSUME RegistryInv, NEW event, NEW ph, NEW path, NEW capture, NEW entries
  PROVE  LET s == EventCalls(event, ph, path, capture, entries)
         IN  IsSeq(s) /\ PostsShaped(s) /\ (event # "layer.post" => NoPosts(s))
<1> DEFINE s == EventCalls(event, ph, path, capture, entries)
<1>1. IsSeq(s) /\ \A x \in ToSet(s) : \E c \in ToSet(plan) : x = Call(c, event, path, 0, entries)
  BY EventCallsAre
<1> HIDE DEF s
<1>2. \A c : LET x == Call(c, event, path, 0, entries)
             IN  x.what = event /\ x = Call(x.to, event, x.path, 0, x.entries)
  BY DEF Call
<1>3. PostsShaped(s)
  BY <1>1, <1>2 DEF PostsShaped
<1>4. event # "layer.post" => NoPosts(s)
  BY <1>1, <1>2 DEF NoPosts
<1> QED
  BY <1>1, <1>3, <1>4 DEF s

\* The events of one layer (dispatch_layer_lifecycle_events).
LEMMA LayerPosts ==
  ASSUME RegistryInv, NEW q, q # "none"
  PROVE  /\ IsSeq(LayerCalls(q)) /\ PostsShaped(LayerCalls(q))
         /\ \A c \in Consumers : \A path :
              Posts(LayerCalls(q), c, path, rows) =
                IF q = path THEN Planned(plan, c) * Cardinality(AskedFor(c, path, fromHooks)) ELSE 0
<1> DEFINE a == EventCalls("layer.pre", "decode", q, fromHooks, NoEntries)
           b == EventCalls("layer.post", "decode", q, fromHooks, BatchOf(rows, q))
           d == EventCalls("block.end", "decode", q, fromHooks, NoEntries)
           f == EventCalls("stack.end", "decode", q, fromHooks, NoEntries)
           e == IF q = BoundPath("target") THEN f ELSE <<>>
<1>1. LayerCalls(q) = a \o b \o d \o e
  BY DEF LayerCalls, HiddenBatch, BatchOf
<1>2. IsSeq(a) /\ NoPosts(a) /\ PostsShaped(a)
  BY OtherEvent
<1>3. IsSeq(b) /\ PostsShaped(b)
  BY OtherEvent
<1>4. IsSeq(d) /\ NoPosts(d) /\ PostsShaped(d)
  BY OtherEvent
<1>5. IsSeq(f) /\ NoPosts(f) /\ PostsShaped(f)
  BY OtherEvent
<1>6. ASSUME NEW c \in Consumers, NEW path
      PROVE  Posts(b, c, path, rows) =
               IF q = path THEN Planned(plan, c) * Cardinality(AskedFor(c, path, fromHooks)) ELSE 0
  BY EventPosts
<1> HIDE DEF a, b, d, f
<1>7. IsSeq(e) /\ NoPosts(e) /\ PostsShaped(e)
  <2>1. IsSeq(<<>>) /\ NoPosts(<<>>) /\ PostsShaped(<<>>)
    BY DEF IsSeq, ToSet, NoPosts, PostsShaped
  <2> QED
    BY <1>5, <2>1
<1> HIDE DEF e
<1> DEFINE ab == a \o b
           abd == ab \o d
           abde == abd \o e
<1>8. IsSeq(ab) /\ PostsShaped(ab)
  BY <1>2, <1>3, Joined, NoPostsJoined
<1>9. IsSeq(abd) /\ PostsShaped(abd)
  <2> HIDE DEF ab
  <2> QED
    BY <1>4, <1>8, Joined, NoPostsJoined
<1>10. IsSeq(abde) /\ PostsShaped(abde)
  <2> HIDE DEF abd
  <2> QED
    BY <1>7, <1>9, Joined, NoPostsJoined
<1>11. ASSUME NEW c \in Consumers, NEW path
       PROVE  Posts(abde, c, path, rows) = Posts(b, c, path, rows)
  <2> DEFINE n(s) == Posts(s, c, path, rows)
  <2>1. n(a) = 0 /\ n(d) = 0 /\ n(e) = 0
    BY <1>2, <1>4, <1>7, NoPostsNone
  <2>2. n(a \o b) = n(a) + n(b) /\ n(b) \in Nat
    BY <1>2, <1>3, PostsJoined
  <2>3. n(ab \o d) = n(ab) + n(d)
    BY <1>4, <1>8, PostsJoined
  <2>4. n(abd \o e) = n(abd) + n(e)
    BY <1>7, <1>9, PostsJoined
  <2> QED
    BY <2>1, <2>2, <2>3, <2>4
<1>12. LayerCalls(q) = abde
  BY <1>1
<1> HIDE DEF abde
<1> QED
  BY <1>6, <1>10, <1>11, <1>12

\* Of each layer that is tapped, its events give its batch to whoever asks for it
\* (dispatch_layer_lifecycle_events); so does what is deferred
\* (dispatch_deferred_layer_batches).
LEMMA AllPathsPosted ==
  ASSUME RegistryInv, \A l \in Layers : PathOf[l] # "none",
         NEW ss, IsSeq(ss), Len(ss) = Len(TappedPaths),
         \A i \in 1 .. Len(ss) :
           \/ ss[i] = LayerCalls(TappedPaths[i])
           \/ ss[i] = EventCalls("layer.post", "decode", TappedPaths[i], fromHooks,
                                 BatchOf(rows, TappedPaths[i]))
  PROVE  IsSeq(FlattenSeq(ss)) /\ PostedIn(FlattenSeq(ss), TappedPaths, plan, rows, fromHooks)
<1> DEFINE paths == TappedPaths
           L == Len(paths)
           Given(c, path) == Planned(plan, c) * Cardinality(AskedFor(c, path, fromHooks))
<1>1. /\ IsSeq(paths) /\ L \in Nat /\ DOMAIN paths = 1 .. L
      /\ \A i \in 1 .. L : paths[i] # "none"
      /\ \A i, j \in 1 .. L : paths[i] = paths[j] => i = j
  BY TappedPathsAre, SeqDomain
<1>2. Len(ss) = L
  OBVIOUS
<1> HIDE DEF paths, L
<1>3. ASSUME NEW i \in 1 .. L, NEW c \in Consumers, NEW path
      PROVE  /\ IsSeq(ss[i])
             /\ Posts(ss[i], c, path, rows) = IF paths[i] = path THEN Given(c, path) ELSE 0
  <2> DEFINE q == paths[i]
  <2>1. q # "none"
    BY <1>1
  <2>2. ss[i] = LayerCalls(q) \/ ss[i] = EventCalls("layer.post", "decode", q, fromHooks, BatchOf(rows, q))
    BY <1>2 DEF paths
  <2> HIDE DEF q
  <2>3. CASE ss[i] = LayerCalls(q)
    BY <2>1, <2>3, LayerPosts DEF q
  <2>4. CASE ss[i] = EventCalls("layer.post", "decode", q, fromHooks, BatchOf(rows, q))
    <3> DEFINE s == EventCalls("layer.post", "decode", q, fromHooks, BatchOf(rows, q))
    <3>1. IsSeq(s) /\ PostsShaped(s)
      BY OtherEvent
    <3>2. /\ q = path => Posts(s, c, path, rows) = Given(c, path)
          /\ q # path => Posts(s, c, path, rows) = 0
      BY <2>1, EventPosts
    <3>3. ss[i] = s
      BY <2>4
    <3> HIDE DEF s, Given
    <3> QED
      BY <3>1, <3>2, <3>3 DEF q
  <2> QED
    BY <2>2, <2>3, <2>4
<1>s. ASSUME NEW i \in 1 .. L PROVE IsSeq(ss[i]) /\ PostsShaped(ss[i])
  <2> DEFINE q == paths[i]
             s == EventCalls("layer.post", "decode", q, fromHooks, BatchOf(rows, q))
  <2>1. q # "none"
    BY <1>1
  <2>2. ss[i] = LayerCalls(q) \/ ss[i] = s
    BY <1>2 DEF paths
  <2>3. IsSeq(s) /\ PostsShaped(s)
    BY OtherEvent
  <2>4. IsSeq(LayerCalls(q)) /\ PostsShaped(LayerCalls(q))
    BY <2>1, LayerPosts
  <2> HIDE DEF q, s
  <2> QED
    BY <2>2, <2>3, <2>4
<1>4. ASSUME NEW i \in 1 .. Len(ss) PROVE IsSeq(ss[i]) /\ PostsShaped(ss[i])
  BY <1>1, <1>2, <1>s
<1> DEFINE s == FlattenSeq(ss)
<1>5. IsSeq(s) /\ \A x \in ToSet(s) : \E i \in 1 .. Len(ss) : x \in ToSet(ss[i])
  BY <1>4, FlattenElements
<1> HIDE DEF s
<1>6. PostsShaped(s)
  BY <1>4, <1>5 DEF PostsShaped
<1>7. ASSUME NEW c \in Consumers, NEW path \in ToSet(paths)
      PROVE  Posts(s, c, path, rows) = Given(c, path)
  <2>1. PICK at \in 1 .. L : paths[at] = path
    BY <1>1 DEF ToSet
  <2> DEFINE N == Given(c, path)
  <2>2. N \in Nat
    <3>1. N = Posts(ss[at], c, path, rows)
      BY <1>3, <2>1
    <3>2. IsSeq(ss[at])
      BY <1>3
    <3> HIDE DEF N
    <3> QED
      BY <3>1, <3>2, PostsJoined
  <2>3. \A i \in 1 .. L : IsSeq(ss[i]) /\ Posts(ss[i], c, path, rows) = IF i = at THEN N ELSE 0
    BY <1>1, <1>3, <2>1
  <2> HIDE DEF N
  <2>4. /\ at \in 1 .. Len(ss)
        /\ \A i \in 1 .. Len(ss) : IsSeq(ss[i])
        /\ PostsAt(ss, c, path, rows, at, N)
    BY <1>2, <2>1, <2>3 DEF PostsAt
  <2>5. Posts(FlattenSeq(ss), c, path, rows) = N
    BY <2>2, <2>4, PathsPosted
  <2> QED
    BY <2>5 DEF s, N
<1>8. PostedIn(s, paths, plan, rows, fromHooks)
  BY <1>6, <1>7 DEF PostedIn
<1> QED
  BY <1>5, <1>8 DEF s, paths

\* What a step's flows are called with is bundles, ends of the step and refusals.
Delivers(x) == x.what \in {"consume_bundle", "on_step_end", "raise"}

\* ... and a bundle or an end is for the consumer and the flow of its target.
GivenTo(t, x) == Delivers(x) /\ (x = Raises \/ (x.to = t.to /\ x.k = t.k))

LEMMA TargetDelivers ==
  ASSUME BindingsOk(bindings), IsSeq(rows), NEW t, Target(t)
  PROVE  /\ IsSeq(DirectCalls(t)) /\ \A x \in ToSet(DirectCalls(t)) : GivenTo(t, x)
         /\ IsSeq(FrameCalls(t)) /\ \A x \in ToSet(FrameCalls(t)) : GivenTo(t, x)
<1> DEFINE bundles == Assemble(t.flow, FramesOf(bindings, Len(rows)))
           made == [i \in DOMAIN bundles |-> BundleCall(t, bundles[i])]
<1>1. IsSeq(DirectCalls(t)) /\ IsSeq(FrameCalls(t))
  BY DirectCallsGood, FrameCallsGood DEF Good
<1>2. /\ GivenTo(t, Raises) /\ \A b : GivenTo(t, BundleCall(t, b))
      /\ GivenTo(t, Call(t.to, "on_step_end", "none", t.k, NoEntries))
  BY DEF GivenTo, Delivers, Raises, BundleCall, Call
<1>3. IsSeq(<<>>) /\ ToSet(<<>>) = {} /\ \A x : IsSeq(<<x>>) /\ ToSet(<<x>>) = {x}
  BY DEF IsSeq, ToSet
<1>4. IsSeq(StepEnd(t)) /\ \A x \in ToSet(StepEnd(t)) : GivenTo(t, x)
  <2>1. CASE t.flow.background
    BY <1>3, <2>1 DEF StepEnd
  <2>2. CASE ~t.flow.background
    <3>1. StepEnd(t) = <<Call(t.to, "on_step_end", "none", t.k, NoEntries)>>
      BY <2>2 DEF StepEnd
    <3> QED
      BY <1>2, <1>3, <3>1
  <2> QED
    BY <2>1, <2>2
<1>5. \A x \in ToSet(DirectCalls(t)) : GivenTo(t, x)
  <2>1. CASE Declines(t.flow)
    BY <1>3, <2>1 DEF DirectCalls
  <2>2. CASE ~Declines(t.flow) /\ Refuses(t.flow)
    BY <1>2, <1>3, <2>2 DEF DirectCalls
  <2>3. CASE ~Declines(t.flow) /\ ~Refuses(t.flow)
    <3> DEFINE b == BundleCall(t, DirectBundle(t.flow))
    <3>1. DirectCalls(t) = <<b>> \o StepEnd(t)
      BY <2>3 DEF DirectCalls
    <3>2. GivenTo(t, b)
      BY <1>2
    <3> HIDE DEF b
    <3>3. ToSet(<<b>> \o StepEnd(t)) = {b} \cup ToSet(StepEnd(t))
      BY <1>3, <1>4, Joined
    <3> QED
      BY <1>4, <3>1, <3>2, <3>3
  <2> QED
    BY <2>1, <2>2, <2>3
<1>6. \A x \in ToSet(FrameCalls(t)) : GivenTo(t, x)
  <2>1. FrameCalls(t) = IF Declines(t.flow) THEN made \o StepEnd(t) ELSE <<>>
    BY DEF FrameCalls
  <2>2. IsSeq(bundles)
    BY SeqDomain, FramesAreCounted, FramesHaveRows, AssembleIsSeq
  <2> HIDE DEF bundles
  <2>3. Len(bundles) \in Nat /\ DOMAIN bundles = 1 .. Len(bundles)
    BY <2>2, SeqDomain
  <2>4. IsSeq(made) /\ DOMAIN made = 1 .. Len(bundles)
    BY <2>3, Listed
  <2>5. \A i \in DOMAIN made : GivenTo(t, made[i])
    BY <1>2
  <2> HIDE DEF made
  <2>6. \A x \in ToSet(made) : GivenTo(t, x)
    BY <2>5 DEF ToSet
  <2>7. ToSet(made \o StepEnd(t)) = ToSet(made) \cup ToSet(StepEnd(t))
    BY <1>4, <2>4, Joined
  <2> QED
    BY <1>3, <1>4, <2>1, <2>6, <2>7
<1> QED
  BY <1>1, <1>5, <1>6

LEMMA FlowsDeliver ==
  ASSUME RegistryInv, BindingsOk(bindings), IsSeq(rows)
  PROVE  IsSeq(FlowCalls) /\ \A x \in ToSet(FlowCalls) : Delivers(x)
<1> DEFINE all == FlowTargets
           P == {i \in DOMAIN all : Due(all[i].flow)}
           due == Kept(all, P)
           direct == [i \in DOMAIN due |-> DirectCalls(due[i])]
           framed == [i \in DOMAIN due |-> FrameCalls(due[i])]
           frames == IF FramesOf(bindings, Len(rows)) = <<>> THEN <<>> ELSE FlattenSeq(framed)
<1>1. IsSeq(all) /\ \A t \in ToSet(all) : Target(t)
  BY FlowTargetsAre
<1>2. FlowCalls = FlattenSeq(direct) \o frames
  BY DEF FlowCalls
<1> HIDE DEF all
<1>3. DOMAIN all = 1 .. Len(all) /\ \A i \in 1 .. Len(all) : Target(all[i])
  BY <1>1, SeqDomain
<1>4. IsSeq(due) /\ \A t \in ToSet(due) : Target(t)
  <2>1. P \in SUBSET (1 .. Len(all))
    BY <1>3
  <2> HIDE DEF P
  <2>2. IsSeq(due) /\ \A t \in ToSet(due) : \E i \in P : t = all[i]
    BY <1>1, <2>1, KeptElements
  <2> HIDE DEF due
  <2> QED
    BY <1>3, <2>1, <2>2
<1> HIDE DEF due
<1>5. Len(due) \in Nat /\ DOMAIN due = 1 .. Len(due) /\ \A i \in 1 .. Len(due) : Target(due[i])
  BY <1>4, SeqDomain
<1>6. ASSUME NEW i \in 1 .. Len(due)
      PROVE  /\ IsSeq(DirectCalls(due[i])) /\ \A x \in ToSet(DirectCalls(due[i])) : Delivers(x)
             /\ IsSeq(FrameCalls(due[i])) /\ \A x \in ToSet(FrameCalls(due[i])) : Delivers(x)
  BY <1>5, TargetDelivers DEF GivenTo
<1>7. /\ IsSeq(direct) /\ Len(direct) = Len(due)
      /\ \A i \in 1 .. Len(due) : direct[i] = DirectCalls(due[i])
  BY <1>5, Listed
<1>8. /\ IsSeq(framed) /\ Len(framed) = Len(due)
      /\ \A i \in 1 .. Len(due) : framed[i] = FrameCalls(due[i])
  BY <1>5, Listed
<1> HIDE DEF direct, framed
<1> DEFINE u == FlattenSeq(direct)
           v == FlattenSeq(framed)
<1>9. IsSeq(u) /\ \A x \in ToSet(u) : Delivers(x)
  <2>1. \A i \in 1 .. Len(direct) : IsSeq(direct[i]) /\ \A x \in ToSet(direct[i]) : Delivers(x)
    BY <1>6, <1>7
  <2>2. IsSeq(u) /\ \A x \in ToSet(u) : \E i \in 1 .. Len(direct) : x \in ToSet(direct[i])
    BY <1>7, <2>1, FlattenElements
  <2> QED
    BY <2>1, <2>2
<1>10. IsSeq(v) /\ \A x \in ToSet(v) : Delivers(x)
  <2>1. \A i \in 1 .. Len(framed) : IsSeq(framed[i]) /\ \A x \in ToSet(framed[i]) : Delivers(x)
    BY <1>6, <1>8
  <2>2. IsSeq(v) /\ \A x \in ToSet(v) : \E i \in 1 .. Len(framed) : x \in ToSet(framed[i])
    BY <1>8, <2>1, FlattenElements
  <2> QED
    BY <2>1, <2>2
<1>11. IsSeq(frames) /\ \A x \in ToSet(frames) : Delivers(x)
  <2>1. IsSeq(<<>>) /\ ToSet(<<>>) = {}
    BY DEF IsSeq, ToSet
  <2>2. frames = <<>> \/ frames = v
    OBVIOUS
  <2> HIDE DEF frames, v
  <2> QED
    BY <1>10, <2>1, <2>2
<1> HIDE DEF u, frames
<1>12. IsSeq(u \o frames) /\ ToSet(u \o frames) = ToSet(u) \cup ToSet(frames)
  BY <1>9, <1>11, Joined
<1>13. FlowCalls = u \o frames
  BY <1>2 DEF u
<1> QED
  BY <1>9, <1>11, <1>12, <1>13

\* The end of a step gives what the forward has not given.
LEMMA EndPosts ==
  ASSUME RegistryInv, BindingsOk(bindings), IsSeq(rows), \A l \in Layers : PathOf[l] # "none",
         NEW s, IsSeq(s),
         IF fromHooks THEN PostedIn(s, TappedPaths, plan, rows, fromHooks) ELSE NoPosts(s),
         rows # <<>>
  PROVE  PostedIn(s \o (FlowCalls \o Deferred \o StepEvent("execute_model.post", fromHooks)),
                  TappedPaths, plan, rows, fromHooks)
<1> DEFINE a == FlowCalls
           b == Deferred
           d == StepEvent("execute_model.post", fromHooks)
           Posted(t) == PostedIn(t, TappedPaths, plan, rows, fromHooks)
<1>1. IsSeq(a) /\ NoPosts(a) /\ PostsShaped(a)
  BY FlowsDeliver DEF Delivers, NoPosts, PostsShaped
<1>2. IsSeq(d) /\ NoPosts(d)
  BY OtherEvent DEF StepEvent
<1>3. fromHooks => b = <<>>
  <2>1. ASSUME fromHooks PROVE b = <<>>
    <3>1. b = FlattenSeq([i \in DOMAIN <<>> |-> EventCalls("layer.post", "decode", <<>>[i], FALSE,
                                                          HiddenBatch(<<>>[i]))])
      BY <2>1 DEF Deferred
    <3>2. [i \in DOMAIN <<>> |-> EventCalls("layer.post", "decode", <<>>[i], FALSE,
                                            HiddenBatch(<<>>[i]))] = <<>>
      OBVIOUS
    <3> QED
      BY <3>1, <3>2, FlattenNone
  <2> QED
    BY <2>1
<1>4. ~fromHooks => IsSeq(b) /\ Posted(b)
  <2> SUFFICES ASSUME ~fromHooks PROVE IsSeq(b) /\ Posted(b)
    OBVIOUS
  <2> DEFINE paths == TappedPaths
             of(path) == EventCalls("layer.post", "decode", path, FALSE, HiddenBatch(path))
             ss == [i \in DOMAIN paths |-> of(paths[i])]
  <2>1. IsSeq(paths)
    BY TappedPathsAreSeq
  <2>2. b = FlattenSeq(ss)
    BY DEF Deferred
  <2>3. ASSUME NEW path
        PROVE  of(path) = EventCalls("layer.post", "decode", path, fromHooks, BatchOf(rows, path))
    <3>1. HiddenBatch(path) = BatchOf(rows, path)
      BY DEF HiddenBatch, BatchOf
    <3>2. EventCalls("layer.post", "decode", path, FALSE, BatchOf(rows, path))
            = EventCalls("layer.post", "decode", path, fromHooks, BatchOf(rows, path))
      BY DEF EventCalls, Selects
    <3> QED
      BY <3>1, <3>2
  <2> HIDE DEF of, paths
  <2>4. Len(paths) \in Nat /\ DOMAIN paths = 1 .. Len(paths)
    BY <2>1, SeqDomain
  <2>5. IsSeq(ss) /\ Len(ss) = Len(paths) /\ \A i \in 1 .. Len(paths) : ss[i] = of(paths[i])
    BY <2>4, Listed
  <2> HIDE DEF ss
  <2>6. /\ Len(ss) = Len(TappedPaths)
        /\ \A i \in 1 .. Len(ss) :
             \/ ss[i] = LayerCalls(TappedPaths[i])
             \/ ss[i] = EventCalls("layer.post", "decode", TappedPaths[i], fromHooks,
                                   BatchOf(rows, TappedPaths[i]))
    BY <2>3, <2>5 DEF paths
  <2>7. IsSeq(FlattenSeq(ss)) /\ Posted(FlattenSeq(ss))
    BY <2>5, <2>6, AllPathsPosted
  <2> QED
    BY <2>2, <2>7
<1> HIDE DEF a, b, d, Posted
<1>5. IsSeq(b)
  <2>1. IsSeq(<<>>)
    BY DEF IsSeq, ToSet
  <2> QED
    BY <1>3, <1>4, <2>1
<1>6. IsSeq(a \o b) /\ IsSeq((a \o b) \o d)
  BY <1>1, <1>2, <1>5, Joined
<1>7. s \o ((a \o b) \o d) = ((s \o a) \o b) \o d
  <2>1. Behind(s, Behind(Behind(a, b), d)) = Behind(Behind(Behind(s, a), b), d)
    BY <1>1, <1>2, <1>5, FourJoined
  <2> QED
    BY <2>1 DEF Behind
<1>8. IsSeq(s \o a)
  BY <1>1, Joined
<1>9. Posted((s \o a) \o b)
  <2>1. CASE fromHooks
    <3>1. Posted(s)
      BY <2>1 DEF Posted
    <3>2. Posted(s \o a)
      BY <1>1, <3>1, PostedStays DEF Posted
    <3>3. (s \o a) \o b = s \o a
      BY <1>3, <1>8, <2>1 DEF IsSeq
    <3> QED
      BY <3>2, <3>3
  <2>2. CASE ~fromHooks
    <3>1. NoPosts(s \o a)
      BY <1>1, <2>2, NoPostsJoined
    <3> QED
      BY <1>4, <1>5, <1>8, <2>2, <3>1, PostedBehind DEF Posted
  <2> QED
    BY <2>1, <2>2
<1>10. IsSeq((s \o a) \o b)
  BY <1>5, <1>8, Joined
<1>11. Posted(((s \o a) \o b) \o d)
  BY <1>2, <1>9, <1>10, PostedStays DEF Posted
<1> QED
  BY <1>7, <1>11 DEF Posted, a, b, d

-----------------------------------------------------------------------------
(* Each subscription is given each layer once *)

LEMMA HostCases ==
  ASSUME DispatchInv, HostStep
  PROVE  \/ phase' \notin InStep
         \/ ExecuteModel \/ PrepareInputs
         \/ \E batch \in Batches : Prepared(batch)
         \/ \E python \in BOOLEAN : Forward(python)
         \/ EndStep
         \/ Synchronized /\ UNCHANGED <<planVars, setupVars, fromHooks, step, rows, phase>>
<1>1. ASSUME NEW reg, NEW rt, Refresh(reg, rt) PROVE phase' \notin InStep
  BY <1>1, RefreshDoes DEF Refreshed
<1>2. ASSUME NEW c \in Consumers, Register(c) \/ ReplaceConsumers(c) PROVE phase' \notin InStep
  BY <1>1, <1>2 DEF Register, ReplaceConsumers
<1>3. ASSUME NEW c \in Consumers \cup {None}, SetRuntimeConsumer(c) PROVE phase' \notin InStep
  BY <1>1, <1>3 DEF SetRuntimeConsumer
<1>4. CASE Clear
  BY <1>1, <1>4 DEF Clear
<1>5. CASE Load \/ Loaded \/ SetupFails \/ CallbackRaises
  BY <1>5 DEF Load, Loaded, SetupFails, CallbackRaises, InStep
<1>6. CASE Synchronize
  <2>1. UNCHANGED <<planVars, setupVars, fromHooks, step, rows, phase>>
    BY <1>6 DEF Synchronize
  <2> QED
    BY <1>6, <2>1, SynchronizeDoes
<1> QED
  BY <1>2, <1>3, <1>4, <1>5, <1>6 DEF HostStep

\* A callback that is made is only moved, and a synchronization is no callback of a step:
\* what is picked of those made and those to come stays, and no other comes.
LEMMA CallbackMoves ==
  ASSUME CallsInv, Callback
  PROVE  /\ IsSeq(log') /\ IsSeq(calls') /\ ToSet(log' \o calls') \subseteq ToSet(log \o calls)
         /\ \A M : (\A x \in M : x.what # "synchronize") =>
                     Picked(log' \o calls', M) = Picked(log \o calls, M)
<1> DEFINE x == Head(calls)
           rest == Tail(calls)
           now == IF x.what = "synchronize" THEN <<>> ELSE <<x>>
<1>1. IsSeq(log) /\ IsSeq(calls)
  BY DEF CallsInv
<1>2. /\ calls # <<>> /\ calls' = rest
      /\ log' = IF x.what = "synchronize" THEN log ELSE Append(log, x)
  BY DEF Callback, Returned
<1>3. IsSeq(rest) /\ calls = <<x>> \o rest
  BY <1>1, <1>2, FirstAndRest
<1>4. IsSeq(<<x>>) /\ ToSet(<<x>>) = {x} /\ IsSeq(<<>>) /\ ToSet(<<>>) = {}
  BY DEF IsSeq, ToSet
<1>5. IsSeq(now) /\ ToSet(now) \subseteq ToSet(<<x>>)
  BY <1>4
<1>6. log' = log \o now
  <2>1. Append(log, x) = log \o <<x>> /\ log \o <<>> = log
    BY <1>1 DEF IsSeq
  <2> QED
    BY <1>2, <2>1
<1>7. ASSUME NEW M, \A y \in M : y.what # "synchronize" PROVE Picked(now, M) = Picked(<<x>>, M)
  <2>1. CASE x.what = "synchronize"
    <3>1. ToSet(<<x>>) \cap M = {} /\ ToSet(<<>>) \cap M = {}
      BY <1>4, <1>7, <2>1
    <3>2. Picked(<<x>>, M) = <<>> /\ Picked(<<>>, M) = <<>>
      BY <1>4, <3>1, PickedNone
    <3> QED
      BY <2>1, <3>2
  <2>2. CASE x.what # "synchronize"
    BY <2>2
  <2> QED
    BY <2>1, <2>2
<1> HIDE DEF x, rest, now
<1>8. log \o calls = (log \o <<x>>) \o rest /\ IsSeq(log \o <<x>>)
  <2> DEFINE S == ToSet(log) \cup ToSet(rest) \cup {x}
  <2>1. log \in Seq(S) /\ rest \in Seq(S) /\ x \in S
    BY <1>1, <1>3, SeqDomain
  <2> HIDE DEF S
  <2>2. log \o (<<x>> \o rest) = (log \o <<x>>) \o rest
    BY <2>1
  <2>3. IsSeq(log \o <<x>>)
    BY <1>1, <1>4, Joined
  <2> QED
    BY <1>3, <2>2, <2>3
<1>9. IsSeq(log \o now)
  BY <1>1, <1>5, Joined
<1>10. ToSet((log \o now) \o rest) \subseteq ToSet((log \o <<x>>) \o rest)
  <2>1. ToSet((log \o now) \o rest) = ToSet(log \o now) \cup ToSet(rest)
    BY <1>3, <1>9, Joined
  <2>2. ToSet((log \o <<x>>) \o rest) = ToSet(log \o <<x>>) \cup ToSet(rest)
    BY <1>3, <1>8, Joined
  <2>3. ToSet(log \o now) = ToSet(log) \cup ToSet(now)
    BY <1>1, <1>5, Joined
  <2>4. ToSet(log \o <<x>>) = ToSet(log) \cup ToSet(<<x>>)
    BY <1>1, <1>4, Joined
  <2> QED
    BY <1>5, <2>1, <2>2, <2>3, <2>4
<1>11. ASSUME NEW M, \A y \in M : y.what # "synchronize"
       PROVE  Picked((log \o now) \o rest, M) = Picked((log \o <<x>>) \o rest, M)
  <2>1. Picked((log \o now) \o rest, M) = Picked(log \o now, M) \o Picked(rest, M)
    BY <1>3, <1>9, PickedJoined
  <2> DEFINE one == <<x>>
             to == log \o one
  <2>a. IsSeq(log) /\ IsSeq(one) /\ IsSeq(to) /\ IsSeq(rest)
    BY <1>1, <1>3, <1>4, <1>8
  <2> HIDE DEF one
  <2>b. Picked(log \o one, M) = Picked(log, M) \o Picked(one, M)
    BY <2>a, PickedJoined
  <2> HIDE DEF to
  <2>c. Picked(to \o rest, M) = Picked(to, M) \o Picked(rest, M)
    BY <2>a, PickedJoined
  <2>2. Picked((log \o <<x>>) \o rest, M) = Picked(log \o <<x>>, M) \o Picked(rest, M)
    BY <2>c DEF to, one
  <2>3. Picked(log \o now, M) = Picked(log, M) \o Picked(now, M)
    BY <1>1, <1>5, PickedJoined
  <2>4. Picked(log \o <<x>>, M) = Picked(log, M) \o Picked(<<x>>, M)
    BY <2>b DEF one
  <2>5. Picked(now, M) = Picked(<<x>>, M)
    BY <1>7, <1>11
  <2> QED
    BY <2>1, <2>2, <2>3, <2>4, <2>5
<1> QED
  BY <1>2, <1>3, <1>6, <1>8, <1>9, <1>10, <1>11

LEMMA SynchronizeAdds ==
  ASSUME CallsInv, Synchronized
  PROVE  /\ IsSeq(log') /\ IsSeq(calls')
         /\ \A x \in ToSet(log' \o calls') : x \in ToSet(log \o calls) \/ x.what = "synchronize"
         /\ \A M : (\A x \in M : x.what # "synchronize") =>
                     Picked(log' \o calls', M) = Picked(log \o calls, M)
<1> DEFINE t == calls'
<1>1. /\ IsSeq(log) /\ calls = <<>> /\ log' = log /\ IsSeq(t)
      /\ \A x \in ToSet(t) : x.what = "synchronize"
  BY DEF CallsInv, Synchronized, Synchronizes
<1>2. log \o calls = log
  BY <1>1 DEF IsSeq
<1> HIDE DEF t
<1>3. ToSet(log \o t) = ToSet(log) \cup ToSet(t)
  BY <1>1, Joined
<1>4. ASSUME NEW M, \A x \in M : x.what # "synchronize" PROVE Picked(log \o t, M) = Picked(log, M)
  <2>0. IsSeq(log) /\ IsSeq(t)
    BY <1>1
  <2>1. Picked(log \o t, M) = Picked(log, M) \o Picked(t, M)
    BY <2>0, PickedJoined
  <2>2. ToSet(t) \cap M = {}
    BY <1>1, <1>4
  <2>3. Picked(t, M) = <<>>
    BY <1>1, <2>2, PickedNone
  <2>4. IsSeq(Picked(log, M))
    BY <1>1, PickedCount
  <2>5. Picked(log, M) \o <<>> = Picked(log, M)
    BY <2>4 DEF IsSeq
  <2> QED
    BY <2>1, <2>3, <2>5
<1>5. log' \o calls' = log \o t /\ IsSeq(log') /\ IsSeq(calls')
  BY <1>1 DEF t
<1> QED
  BY <1>1, <1>2, <1>3, <1>4, <1>5

\* Before the forward, and after one that is replayed, no batch of a layer is given; after
\* one that is run as Python, and at the end of the step, each is given once.
PostInv ==
  /\ phase \in {"preparing", "prepared", "forwarded", "ended"} => fromHooks = ~compiled
  /\ phase \in {"entered", "preparing", "prepared"} => NoPosts(log \o calls)
  /\ phase = "forwarded" /\ ~fromHooks => NoPosts(log \o calls)
  /\ (phase = "forwarded" /\ fromHooks) \/ (phase = "ended" /\ rows # <<>>) =>
       PostedIn(log \o calls, TappedPaths, plan, rows, fromHooks)

\* What leaves the callbacks as they are, but for synchronizations, leaves the invariant.
LEMMA PostInvStays ==
  ASSUME PostInv, UNCHANGED <<planVars, setupVars, fromHooks, rows, phase>>,
         NoPosts(log \o calls) => NoPosts(log' \o calls'),
         PostsShaped(log \o calls) => PostsShaped(log' \o calls'),
         \A M : (\A x \in M : x.what # "synchronize") =>
                  Picked(log' \o calls', M) = Picked(log \o calls, M)
  PROVE  PostInv'
<1> DEFINE s == log \o calls
           t == log' \o calls'
<1>1. /\ plan' = plan /\ fromHooks' = fromHooks /\ rows' = rows /\ phase' = phase
      /\ bindings' = bindings /\ compiled' = compiled
  BY DEF planVars, setupVars
<1>2. TappedPaths' = TappedPaths
  BY <1>1 DEF TappedPaths
<1>3. \A c, path : Posts(t, c, path, rows) = Posts(s, c, path, rows)
  <2>1. ASSUME NEW c, NEW path PROVE Posts(t, c, path, rows) = Posts(s, c, path, rows)
    <3> DEFINE M == {PostTo(c, path, rows)}
    <3>1. \A x \in M : x.what # "synchronize"
      BY DEF PostTo, Call
    <3> HIDE DEF M
    <3>2. Picked(t, M) = Picked(s, M)
      BY <3>1
    <3> QED
      BY <3>2 DEF Posts, M
  <2> QED
    BY <2>1
<1>4. PostedIn(s, TappedPaths, plan, rows, fromHooks) => PostedIn(t, TappedPaths, plan, rows, fromHooks)
  BY <1>3 DEF PostedIn
<1> HIDE DEF s, t
<1>5. /\ phase' \in {"preparing", "prepared", "forwarded", "ended"} => fromHooks' = ~compiled'
      /\ phase' \in {"entered", "preparing", "prepared"} => NoPosts(t)
      /\ phase' = "forwarded" /\ ~fromHooks' => NoPosts(t)
      /\ (phase' = "forwarded" /\ fromHooks') \/ (phase' = "ended" /\ rows' # <<>>) =>
           PostedIn(t, TappedPaths', plan', rows', fromHooks')
  BY <1>1, <1>2, <1>4 DEF PostInv, s, t
<1> QED
  BY <1>5 DEF PostInv, t, NoPosts, PostedIn, PostsShaped, Posts, Planned, AskedFor, PostTo, BatchOf

\* What is called behind nothing of the kind.
LEMMA NothingBehind ==
  ASSUME NEW s, IsSeq(s), NoPosts(s), NEW t, IsSeq(t), NoPosts(t)
  PROVE  NoPosts(s \o t)
BY NoPostsJoined

LEMMA PostInvStep ==
  ASSUME \A l \in Layers : PathOf[l] # "none", PythonForward \subseteq {FALSE},
         DispatchInv, CallsInv, PostInv, [Next]_vars
  PROVE  PostInv'
<1>1. IsSeq(log) /\ IsSeq(calls) /\ RegistryInv /\ BindingsOk(bindings) /\ IsSeq(rows)
  BY DEF DispatchInv, CallsInv
<1>2. IsSeq(<<>>) /\ NoPosts(<<>>)
  BY DEF IsSeq, ToSet, NoPosts
<1>3. calls = <<>> => log \o calls = log
  BY <1>1 DEF IsSeq
<1>4. CASE phase' \notin InStep
  BY <1>4 DEF PostInv, InStep
<1>5. ASSUME NEW s, IsSeq(s), NoPosts(s), NEW event, event # "layer.post", NEW capture,
             log' = s, calls' = StepEvent(event, capture),
             phase' \in {"entered", "preparing", "prepared"},
             phase' # "entered" => fromHooks' = ~compiled'
      PROVE  PostInv'
  <2> DEFINE t == StepEvent(event, capture)
  <2>1. IsSeq(t) /\ NoPosts(t)
    BY <1>1, <1>5, OtherEvent DEF StepEvent
  <2>2. calls' = t
    BY <1>5
  <2> HIDE DEF t
  <2>3. NoPosts(s \o t)
    BY <1>5, <2>1, NothingBehind
  <2>4. NoPosts(log' \o calls')
    BY <1>5, <2>2, <2>3
  <2>5. /\ phase' \in {"preparing", "prepared", "forwarded", "ended"} => fromHooks' = ~compiled'
        /\ phase' # "forwarded" /\ phase' # "ended"
    BY <1>5
  <2> QED
    BY <2>4, <2>5 DEF PostInv, NoPosts
<1>6. CASE ExecuteModel
  <2>1. log' = <<>> /\ calls' = StepEvent("execute_model.pre", fromHooks) /\ phase' = "entered"
    BY <1>6 DEF ExecuteModel
  <2> QED
    BY <1>2, <1>5, <2>1
<1>7. CASE PrepareInputs
  <2>1. /\ calls = <<>> /\ phase = "entered" /\ log' = log /\ phase' = "preparing"
        /\ calls' = StepEvent("prepare_inputs.pre", fromHooks')
        /\ fromHooks' = ~compiled /\ compiled' = compiled
    BY <1>7 DEF PrepareInputs, Setup, Returned
  <2>2. NoPosts(log)
    BY <1>3, <2>1 DEF PostInv
  <2> QED
    BY <1>1, <1>5, <2>1, <2>2
<1>8. ASSUME NEW batch \in Batches, Prepared(batch) PROVE PostInv'
  <2>1. /\ calls = <<>> /\ phase = "preparing" /\ log' = log /\ phase' = "prepared"
        /\ calls' = StepEvent("prepare_inputs.post", fromHooks)
        /\ fromHooks' = fromHooks /\ compiled' = compiled
    BY <1>8 DEF Prepared, setupVars, Returned
  <2>2. NoPosts(log) /\ fromHooks = ~compiled
    BY <1>3, <2>1 DEF PostInv
  <2> QED
    BY <1>1, <1>5, <2>1, <2>2
<1>9. ASSUME NEW python \in BOOLEAN, Forward(python) PROVE PostInv'
  <2> DEFINE ss == [i \in DOMAIN TappedPaths |-> LayerCalls(TappedPaths[i])]
             made == FlattenSeq(ss)
  <2>1. /\ calls = <<>> /\ phase = "prepared" /\ log' = log /\ phase' = "forwarded"
        /\ calls' = IF python THEN made ELSE <<>>
        /\ fromHooks' = fromHooks /\ compiled' = compiled /\ plan' = plan /\ rows' = rows
        /\ bindings' = bindings
        /\ (~python => compiled) /\ (compiled => python \in PythonForward)
    BY <1>9 DEF Forward, setupVars, planVars, Returned
  <2>2. NoPosts(log) /\ fromHooks = ~compiled
    BY <1>3, <2>1 DEF PostInv
  <2>3. compiled => ~python
    <3>1. compiled => python \in {FALSE}
      BY <2>1, Zenon
    <3> QED
      BY <3>1, Zenon
  <2>4. ~python => compiled
    BY <2>1, Zenon
  <2>5. fromHooks => python
    BY <2>2, <2>4, Zenon
  <2>6. ~fromHooks => ~python
    BY <2>2, <2>3, Zenon
  <2>7. TappedPaths' = TappedPaths
    BY <2>1 DEF TappedPaths
  <2>8. CASE fromHooks
    <3>1. Len(TappedPaths) \in Nat /\ DOMAIN TappedPaths = 1 .. Len(TappedPaths)
      BY TappedPathsAreSeq, SeqDomain
    <3>2. /\ IsSeq(ss) /\ Len(ss) = Len(TappedPaths)
          /\ \A i \in 1 .. Len(ss) : ss[i] = LayerCalls(TappedPaths[i])
      BY <3>1, Listed
    <3> HIDE DEF ss
    <3>3. IsSeq(made) /\ PostedIn(made, TappedPaths, plan, rows, fromHooks)
      BY <1>1, <3>2, AllPathsPosted
    <3> HIDE DEF made
    <3>4. PostedIn(log \o made, TappedPaths, plan, rows, fromHooks)
      BY <1>1, <2>2, <3>3, PostedBehind
    <3>5. log' \o calls' = log \o made
      BY <2>1, <2>5, <2>8
    <3>6. PostedIn(log' \o calls', TappedPaths', plan', rows', fromHooks')
      BY <2>1, <2>7, <3>4, <3>5
    <3>7. /\ phase' = "forwarded" /\ fromHooks' = ~compiled' /\ fromHooks'
      BY <2>1, <2>2, <2>8
    <3> QED
      BY <3>6, <3>7 DEF PostInv, PostedIn, PostsShaped, Posts, Planned, AskedFor, PostTo, BatchOf
  <2>9. CASE ~fromHooks
    <3>1. log' \o calls' = log
      BY <1>1, <2>1, <2>6, <2>9 DEF IsSeq
    <3>2. NoPosts(log' \o calls')
      BY <2>2, <3>1
    <3>3. /\ phase' = "forwarded" /\ fromHooks' = ~compiled' /\ ~fromHooks'
      BY <2>1, <2>2, <2>9
    <3> QED
      BY <3>2, <3>3 DEF PostInv, NoPosts
  <2> QED
    BY <2>8, <2>9
<1>10. CASE EndStep
  <2> DEFINE made == FlowCalls \o Deferred \o StepEvent("execute_model.post", fromHooks)
  <2>1. /\ calls = <<>> /\ phase = "forwarded" /\ log' = log /\ phase' = "ended"
        /\ calls' = made
        /\ fromHooks' = fromHooks /\ compiled' = compiled /\ plan' = plan /\ rows' = rows
        /\ bindings' = bindings
    BY <1>10 DEF EndStep, setupVars, planVars, Returned
  <2>2. TappedPaths' = TappedPaths
    BY <2>1 DEF TappedPaths
  <2>3. /\ fromHooks = ~compiled
        /\ IF fromHooks THEN PostedIn(log, TappedPaths, plan, rows, fromHooks) ELSE NoPosts(log)
    BY <1>3, <2>1 DEF PostInv
  <2>4. rows # <<>> => PostedIn(log \o made, TappedPaths, plan, rows, fromHooks)
    BY <1>1, <2>3, EndPosts
  <2> HIDE DEF made
  <2>5. rows' # <<>> => PostedIn(log' \o calls', TappedPaths', plan', rows', fromHooks')
    BY <2>1, <2>2, <2>4
  <2>6. phase' = "ended" /\ fromHooks' = ~compiled'
    BY <2>1, <2>3
  <2> QED
    BY <2>5, <2>6 DEF PostInv, PostedIn, PostsShaped, Posts, Planned, AskedFor, PostTo, BatchOf
<1>11. CASE Synchronized /\ UNCHANGED <<planVars, setupVars, fromHooks, step, rows, phase>>
  <2>1. /\ \A x \in ToSet(log' \o calls') : x \in ToSet(log \o calls) \/ x.what = "synchronize"
        /\ \A M : (\A x \in M : x.what # "synchronize") =>
                    Picked(log' \o calls', M) = Picked(log \o calls, M)
    BY <1>11, SynchronizeAdds
  <2>2. /\ NoPosts(log \o calls) => NoPosts(log' \o calls')
        /\ PostsShaped(log \o calls) => PostsShaped(log' \o calls')
    BY <2>1 DEF NoPosts, PostsShaped
  <2>3. UNCHANGED <<planVars, setupVars, fromHooks, rows, phase>>
    BY <1>11
  <2> QED
    BY <2>1, <2>2, <2>3, PostInvStays
<1>12. CASE Callback
  <2>1. /\ ToSet(log' \o calls') \subseteq ToSet(log \o calls)
        /\ \A M : (\A x \in M : x.what # "synchronize") =>
                    Picked(log' \o calls', M) = Picked(log \o calls, M)
    BY <1>12, CallbackMoves
  <2>2. /\ NoPosts(log \o calls) => NoPosts(log' \o calls')
        /\ PostsShaped(log \o calls) => PostsShaped(log' \o calls')
    BY <2>1 DEF NoPosts, PostsShaped
  <2>3. UNCHANGED <<planVars, setupVars, fromHooks, rows, phase>>
    BY <1>12 DEF Callback
  <2> QED
    BY <2>1, <2>2, <2>3, PostInvStays
<1>13. CASE UNCHANGED vars
  <2>1. log' = log /\ calls' = calls /\ UNCHANGED <<planVars, setupVars, fromHooks, rows, phase>>
    BY <1>13 DEF vars
  <2>2. /\ NoPosts(log \o calls) => NoPosts(log' \o calls')
        /\ PostsShaped(log \o calls) => PostsShaped(log' \o calls')
        /\ \A M : Picked(log' \o calls', M) = Picked(log \o calls, M)
    BY <2>1
  <2> QED
    BY <2>1, <2>2, PostInvStays
<1> QED
  BY <1>4, <1>6, <1>7, <1>8, <1>9, <1>10, <1>11, <1>12, <1>13, HostCases DEF Next

\* In a step with decode rows each subscription is given the batch of each tapped layer it
\* asked for exactly once, by the hooks of a forward run as Python or after a replayed one,
\* when a compiled runner never runs its forward as Python
\* (dispatch_layer_lifecycle_events, dispatch_deferred_layer_batches).
THEOREM LayersAreGivenOnce ==
  ASSUME \A l \in Layers : PathOf[l] # "none", PythonForward \subseteq {FALSE}
  PROVE  Spec => []LayerPostOnce
<1>1. Init => PostInv
  BY DEF Init, PostInv
<1>2. DispatchInv /\ CallsInv /\ PostInv => LayerPostOnce
  <2> SUFFICES ASSUME DispatchInv, CallsInv, PostInv, Ended, rows # <<>>,
                      NEW i \in DOMAIN plan, NEW n \in DOMAIN TappedPaths
               PROVE  LET c == plan[i]
                          path == TappedPaths[n]
                          got == {m \in DOMAIN log : /\ log[m].to = c /\ log[m].what = "layer.post"
                                                     /\ log[m].path = path
                                                     /\ log[m].entries = HiddenBatch(path)}
                      IN  Cardinality(got)
                            = Occurrences(c) * Cardinality(AskedFor(c, path, fromHooks))
    BY DEF LayerPostOnce, AskedFor
  <2> DEFINE c == plan[i]
             path == TappedPaths[n]
             got == {m \in DOMAIN log : /\ log[m].to = c /\ log[m].what = "layer.post"
                                        /\ log[m].path = path
                                        /\ log[m].entries = HiddenBatch(path)}
             M == {PostTo(c, path, rows)}
  <2>1. IsSeq(log) /\ DOMAIN log = 1 .. Len(log)
    BY SeqDomain DEF CallsInv
  <2>2. log \o calls = log
    BY <2>1 DEF Ended, Returned, IsSeq
  <2>3. PostedIn(log, TappedPaths, plan, rows, fromHooks)
    BY <2>2 DEF PostInv, Ended
  <2>4. c \in Consumers /\ path \in ToSet(TappedPaths)
    <3>1. IsSeq(plan) /\ ToSet(plan) \subseteq Consumers
      BY PlannedAreRegistered DEF DispatchInv
    <3> QED
      BY <3>1 DEF ToSet
  <2> HIDE DEF c, path
  <2>5. Posts(log, c, path, rows) = Occurrences(c) * Cardinality(AskedFor(c, path, fromHooks))
    BY <2>3, <2>4 DEF PostedIn, Planned, Occurrences
  <2>6. Len(Picked(log, M)) = Cardinality({m \in 1 .. Len(log) : log[m] \in M})
    <3>1. IsSeq(log)
      BY <2>1
    <3> HIDE DEF M
    <3> QED
      BY <3>1, PickedCount
  <2>7. ASSUME NEW m \in 1 .. Len(log) PROVE m \in got <=> log[m] \in M
    <3>1. HiddenBatch(path) = BatchOf(rows, path)
      BY DEF HiddenBatch, BatchOf
    <3>2. log[m] \in ToSet(log)
      BY <2>1, SeqDomain
    <3>3. log[m].what = "layer.post" => log[m] = Call(log[m].to, "layer.post", log[m].path, 0, log[m].entries)
      BY <2>3, <3>2 DEF PostedIn, PostsShaped
    <3>4. /\ PostTo(c, path, rows).to = c /\ PostTo(c, path, rows).what = "layer.post"
          /\ PostTo(c, path, rows).path = path
          /\ PostTo(c, path, rows).entries = BatchOf(rows, path)
      BY DEF PostTo, Call
    <3>5. m \in got => log[m] = PostTo(c, path, rows)
      BY <3>1, <3>3 DEF PostTo
    <3> QED
      BY <2>1, <3>1, <3>4, <3>5
  <2>8. got = {m \in 1 .. Len(log) : log[m] \in M}
    BY <2>1, <2>7
  <2> QED
    BY <2>5, <2>6, <2>8 DEF Posts, M, c, path
<1>3. DispatchInv /\ CallsInv /\ PostInv /\ [Next]_vars => PostInv'
  BY PostInvStep
<1> QED
  BY <1>1, <1>2, <1>3, CallsInvAlways, InvAlways, PTL DEF Spec

-----------------------------------------------------------------------------
(* The groups of frames, counted *)

\* A flow that reads each port once, into an entry of its own.
ReadsOnce(flow) ==
  /\ flow.reads \in Seq(ToSet(flow.reads)) /\ Named(flow)
  /\ \A k \in DOMAIN flow.reads : flow.reads[k].src \in Srcs
  /\ \A k, j \in DOMAIN flow.reads : flow.reads[k].src = flow.reads[j].src => k = j

\* The reads that have had their frame of row g, after c frames of each port.
Arrived(flow, c, g) == {k \in DOMAIN flow.reads : g <= c[flow.reads[k].src]}
Whole(flow, c, g) == Arrived(flow, c, g) = DOMAIN flow.reads

\* Rows are pending from their first frame; a bundle of one row is out with its last.
Gathered(flow, n, c, state) ==
  /\ Aggregating(flow) => state.out = <<>>
  /\ flow.key # "step" =>
       /\ \A g \in Nat : g \in DOMAIN state.pending <=>
            g \in 1 .. n /\ Arrived(flow, c, g) # {} /\ (Aggregating(flow) \/ ~Whole(flow, c, g))
       /\ \A g \in DOMAIN state.pending : \A k \in DOMAIN flow.reads :
            flow.reads[k].name \in DOMAIN state.pending[g] <=> k \in Arrived(flow, c, g)
  /\ ~Aggregating(flow) =>
       /\ Len(state.out) <= n
       /\ \A g \in 1 .. n : Whole(flow, c, g) <=> g <= Len(state.out)
       /\ \A g \in 1 .. Len(state.out) :
            state.out[g][flow.reads[1].name] = <<Payload(Place(flow.reads[1].src), g)>>

\* A bundle is complete exactly when it has an entry for each read.
LEMMA CompleteWhenAll ==
  ASSUME NEW flow, flow.reads \in Seq(ToSet(flow.reads)), Named(flow), NEW e,
         DOMAIN e \subseteq {flow.reads[k].name : k \in DOMAIN flow.reads}
  PROVE  Complete(flow, e) <=> \A k \in DOMAIN flow.reads : flow.reads[k].name \in DOMAIN e
<1> DEFINE n == Len(flow.reads)
           names == {flow.reads[k].name : k \in DOMAIN flow.reads}
           f == [k \in 1 .. n |-> flow.reads[k].name]
<1>1. n \in Nat /\ DOMAIN flow.reads = 1 .. n
  BY Elements
<1>2. IsFiniteSet(1 .. n) /\ Cardinality(1 .. n) = n
  BY <1>1, SegmentSize
<1>3. f \in Surjection(1 .. n, names) /\ f \in Injection(1 .. n, names)
  BY <1>1 DEF Surjection, Injection, IsInjective, Named
<1> HIDE DEF f
<1>4. Cardinality(names) = n
  <2> HIDE DEF names
  <2> QED
    BY <1>2, <1>3, FS_Surjection
<1>5. ASSUME \A k \in DOMAIN flow.reads : flow.reads[k].name \in DOMAIN e PROVE Complete(flow, e)
  <2>1. DOMAIN e = names
    BY <1>5
  <2>2. Cardinality(DOMAIN e) = n
    BY <1>4, <2>1
  <2>3. n >= n
    BY <1>1
  <2> QED
    BY <2>2, <2>3 DEF Complete
<1> QED
  BY <1>5, CompleteHasAll

\* A frame counts its row for the read that takes it, and no other.
LEMMA FrameArrives ==
  ASSUME NEW flow, ReadsOnce(flow), NEW n \in Nat, NEW c \in [Srcs -> Nat], NEW frame, NEW d,
         Counted(n, c, frame, d), NEW k \in DOMAIN flow.reads, flow.reads[k].src = frame.src,
         NEW g, g = c[frame.src] + 1
  PROVE  /\ g \in 1 .. n /\ k \notin Arrived(flow, c, g)
         /\ Arrived(flow, d, g) = Arrived(flow, c, g) \cup {k}
         /\ \A h \in Nat : h # g => Arrived(flow, d, h) = Arrived(flow, c, h)
<1> DEFINE src == frame.src
<1>1. src \in Srcs /\ c[src] \in Nat /\ c[src] < n /\ d = [c EXCEPT ![src] = @ + 1]
  BY DEF Counted
<1>2. g \in 1 .. n /\ ~(g <= c[src]) /\ d[src] = g
  BY <1>1
<1>3. \A h \in Nat : h # g => (h <= d[src] <=> h <= c[src])
  BY <1>1, <1>2
<1>4. \A j \in DOMAIN flow.reads : j # k => d[flow.reads[j].src] = c[flow.reads[j].src]
  BY <1>1 DEF ReadsOnce
<1> HIDE DEF src
<1>5. flow.reads[k].src = src /\ g <= g /\ g \in Nat
  BY <1>2 DEF src
<1>6. k \notin Arrived(flow, c, g)
  BY <1>2, <1>5 DEF Arrived
<1>7. Arrived(flow, d, g) = Arrived(flow, c, g) \cup {k}
  <2>1. \A j \in DOMAIN flow.reads : j # k =>
          (g <= d[flow.reads[j].src] <=> g <= c[flow.reads[j].src])
    BY <1>4
  <2>2. g <= d[flow.reads[k].src]
    BY <1>2, <1>5
  <2> QED
    BY <2>1, <2>2 DEF Arrived
<1>8. ASSUME NEW h \in Nat, h # g PROVE Arrived(flow, d, h) = Arrived(flow, c, h)
  <2>1. \A j \in DOMAIN flow.reads : h <= d[flow.reads[j].src] <=> h <= c[flow.reads[j].src]
    BY <1>3, <1>4, <1>5, <1>8
  <2> QED
    BY <2>1 DEF Arrived
<1> QED
  BY <1>2, <1>6, <1>7, <1>8

\* A frame pushed keeps them counted (BundleAssembler.push).
LEMMA PushGathers ==
  ASSUME NEW flow, ReadsOnce(flow), NEW n \in Nat, NEW c \in [Srcs -> Nat], NEW frame, NEW d,
         Counted(n, c, frame, d), NEW state, AssemblyType(state, n), Assembled(flow, c, state),
         Gathered(flow, n, c, state)
  PROVE  Gathered(flow, n, d, Push(flow, state, frame))
<1> DEFINE takers == {k \in DOMAIN flow.reads : flow.reads[k].src = frame.src}
           k      == Taker(takers)
           g      == GroupOf(flow, frame)
           old    == IF g \in DOMAIN state.pending THEN state.pending[g] ELSE NoEntries
           new    == Merged(flow, old, flow.reads[k].name, frame.payload)
           left   == [h \in DOMAIN state.pending \ {g} |-> state.pending[h]]
           put    == Put(state.pending, g, new)
           after  == Push(flow, state, frame)
<1>1. /\ state = [out |-> state.out, pending |-> state.pending] /\ IsSeq(state.out)
      /\ DOMAIN state.pending \subseteq Nat
  BY DEF AssemblyType
<1>2. after = IF takers = {} THEN state
              ELSE IF Complete(flow, new) /\ ~Aggregating(flow)
              THEN [out |-> Append(state.out, new), pending |-> left]
              ELSE [state EXCEPT !.pending = put]
  BY DEF Push, Taker
<1>3. /\ frame.src \in Srcs /\ c[frame.src] \in Nat /\ d = [c EXCEPT ![frame.src] = @ + 1]
      /\ (flow.key # "step" => g = c[frame.src] + 1)
      /\ flow.reads \in Seq(ToSet(flow.reads)) /\ Named(flow)
  BY DEF Counted, Payload, GroupOf, ReadsOnce
<1>4. CASE takers = {}
  <2>1. \A h : Arrived(flow, d, h) = Arrived(flow, c, h)
    <3>1. \A j \in DOMAIN flow.reads : d[flow.reads[j].src] = c[flow.reads[j].src]
      BY <1>3, <1>4 DEF ReadsOnce
    <3> QED
      BY <3>1 DEF Arrived
  <2>2. Gathered(flow, n, d, state)
    BY <2>1 DEF Gathered, Whole
  <2> QED
    BY <1>2, <1>4, <2>2
<1>5. CASE takers # {}
  <2>1. k \in DOMAIN flow.reads /\ Takes(flow, k) /\ flow.reads[k].src = frame.src
    <3> HIDE DEF takers
    <3>1. \A i : i \in takers <=> i \in DOMAIN flow.reads /\ flow.reads[i].src = frame.src
      BY DEF takers
    <3> QED
      BY <1>3, <1>5, <3>1, TakerIs DEF Takes
  <2>2. after = IF Complete(flow, new) /\ ~Aggregating(flow)
                THEN [out |-> Append(state.out, new), pending |-> left]
                ELSE [out |-> state.out, pending |-> put]
    BY <1>1, <1>2, <1>5
  <2> HIDE DEF takers, k, after
  <2>3. CASE flow.key = "step"
    <3>1. Aggregating(flow) /\ after.out = state.out
      BY <2>2, <2>3 DEF Aggregating
    <3> QED
      BY <2>3, <3>1 DEF Gathered, after
  <2>4. CASE flow.key # "step"
    <3>1. g = c[frame.src] + 1 /\ g \in Nat
      BY <1>3, <2>4
    <3>2. /\ g \in 1 .. n /\ k \notin Arrived(flow, c, g)
          /\ Arrived(flow, d, g) = Arrived(flow, c, g) \cup {k}
          /\ \A h \in Nat : h # g => Arrived(flow, d, h) = Arrived(flow, c, h)
      <4> HIDE DEF g
      <4> QED
        BY <2>1, <3>1, FrameArrives
    <3>3. ~Whole(flow, c, g)
      BY <2>1, <3>2 DEF Whole
    <3>4. \A j \in DOMAIN flow.reads :
            flow.reads[j].name \in DOMAIN old <=> j \in Arrived(flow, c, g)
      <4> HIDE DEF g
      <4>1. CASE g \in DOMAIN state.pending
        BY <2>4, <4>1 DEF Gathered
      <4>2. CASE g \notin DOMAIN state.pending
        <5>1. Arrived(flow, c, g) = {}
          BY <2>4, <3>1, <3>2, <3>3, <4>2 DEF Gathered
        <5>2. DOMAIN old = {}
          BY <4>2 DEF NoEntries
        <5> QED
          BY <5>1, <5>2
      <4> QED
        BY <4>1, <4>2
    <3>5. /\ DOMAIN new = DOMAIN old \cup {flow.reads[k].name} /\ GroupOk(flow, d, g, new)
      <4>1. GroupOk(flow, c, g, old)
        <5>1. DOMAIN NoEntries = {}
          BY DEF NoEntries
        <5>2. GroupOk(flow, c, g, NoEntries)
          BY <5>1 DEF GroupOk
        <5> HIDE DEF g
        <5> QED
          BY <5>2 DEF Assembled
      <4>2. g = GroupOf(flow, frame)
        OBVIOUS
      <4> HIDE DEF g, old
      <4>3. Merges(flow, d, g, old, Merged(flow, old, flow.reads[k].name, frame.payload), k)
        BY <1>3, <2>1, <2>4, <4>1, <4>2, MergedOk
      <4> QED
        BY <4>3 DEF Merges
    <3> HIDE DEF g, old, new
    <3>6. \A j \in DOMAIN flow.reads :
            flow.reads[j].name \in DOMAIN new <=> j \in Arrived(flow, d, g)
      BY <1>3, <2>1, <3>2, <3>4, <3>5 DEF Named
    <3>7. Complete(flow, new) <=> Whole(flow, d, g)
      <4>1. DOMAIN new \subseteq {flow.reads[j].name : j \in DOMAIN flow.reads}
        BY <3>5 DEF GroupOk
      <4>2. Complete(flow, new) <=> \A j \in DOMAIN flow.reads : flow.reads[j].name \in DOMAIN new
        BY <1>3, <4>1, CompleteWhenAll
      <4>3. Arrived(flow, d, g) \subseteq DOMAIN flow.reads
        BY DEF Arrived
      <4> QED
        BY <3>6, <4>2, <4>3 DEF Whole
    <3>8. \A h \in Nat : h # g => (Whole(flow, d, h) <=> Whole(flow, c, h))
      BY <3>2 DEF Whole
    <3>9. Arrived(flow, d, g) # {}
      BY <3>2
    <3>10. CASE Complete(flow, new) /\ ~Aggregating(flow)
      <4>1. after.out = Append(state.out, new) /\ after.pending = left
        BY <2>2, <3>10
      <4>2. Whole(flow, d, g)
        BY <3>7, <3>10
      <4> DEFINE m == Len(state.out)
      <4>3. /\ m \in Nat /\ m <= n
            /\ \A h \in 1 .. n : Whole(flow, c, h) <=> h <= m
        BY <1>1, <3>10, SeqDomain DEF Gathered
      <4>4. \A h \in 1 .. n : h < g => Whole(flow, c, h)
        <5>1. ASSUME NEW h \in 1 .. n, h < g PROVE Whole(flow, c, h)
          <6>1. Whole(flow, d, h)
            <7>1. ASSUME NEW j \in DOMAIN flow.reads PROVE h <= d[flow.reads[j].src]
              <8> DEFINE v == d[flow.reads[j].src]
              <8>1. g <= v
                BY <4>2 DEF Whole, Arrived
              <8>2. v \in Nat
                <9>1. flow.reads[j].src \in Srcs
                  BY DEF ReadsOnce
                <9> QED
                  BY <1>3, <9>1
              <8> HIDE DEF v
              <8>3. h <= v
                BY <3>1, <5>1, <8>1, <8>2
              <8> QED
                BY <8>3 DEF v
            <7> QED
              BY <7>1 DEF Whole, Arrived
          <6>2. h \in Nat /\ h # g
            BY <3>1, <5>1
          <6> QED
            BY <3>8, <6>1, <6>2
        <5> QED
          BY <5>1
      <4>5. g = m + 1
        <5>1. ~(g <= m)
          BY <3>2, <3>3, <4>3
        <5>2. g - 1 <= m
          <6>1. CASE g = 1
            BY <4>3, <6>1
          <6>2. CASE g # 1
            <7>1. g - 1 \in 1 .. n /\ g - 1 < g
              BY <3>1, <3>2, <6>2
            <7> QED
              BY <4>3, <4>4, <7>1
          <6> QED
            BY <6>1, <6>2
        <5> QED
          BY <3>1, <4>3, <5>1, <5>2
      <4>6. /\ Len(after.out) = g /\ after.out[g] = new
            /\ \A h \in 1 .. m : after.out[h] = state.out[h]
        <5>1. state.out \in Seq(ToSet(state.out) \cup {new})
          BY <1>1, SeqDomain
        <5> DEFINE S == ToSet(state.out) \cup {new}
                   s == state.out
        <5>2. s \in Seq(S) /\ new \in S /\ m = Len(s) /\ after.out = Append(s, new)
          BY <4>1, <5>1
        <5> HIDE DEF S, s, m
        <5>3. /\ Len(Append(s, new)) = m + 1 /\ Append(s, new)[m + 1] = new
              /\ \A h \in 1 .. m : Append(s, new)[h] = s[h]
          BY <5>2
        <5> QED
          BY <4>5, <5>2, <5>3 DEF s
      <4> HIDE DEF m
      <4>7. \A h \in 1 .. n : Whole(flow, d, h) <=> h <= g
        <5>1. ASSUME NEW h \in 1 .. n PROVE Whole(flow, d, h) <=> h <= g
          <6>1. CASE h = g
            BY <3>1, <4>2, <6>1
          <6>2. CASE h # g
            <7>1. h \in Nat /\ (h <= m <=> h <= g)
              BY <3>1, <4>3, <4>5, <6>2
            <7> QED
              BY <3>8, <4>3, <6>2, <7>1
          <6> QED
            BY <6>1, <6>2
        <5> QED
          BY <5>1
      <4>8. new[flow.reads[1].name] = <<Payload(Place(flow.reads[1].src), g)>>
        <5>1. 1 \in DOMAIN flow.reads
          BY <1>3, Elements DEF Named
        <5>2. flow.reads[1].name \in DOMAIN new
          BY <3>6, <4>2, <5>1 DEF Whole
        <5> QED
          BY <2>4, <3>5, <5>1, <5>2 DEF GroupOk, EntryOk
      <4>9. \A h \in 1 .. Len(after.out) :
              after.out[h][flow.reads[1].name] = <<Payload(Place(flow.reads[1].src), h)>>
        <5>1. ASSUME NEW h \in 1 .. g
              PROVE  after.out[h][flow.reads[1].name] = <<Payload(Place(flow.reads[1].src), h)>>
          <6>1. CASE h = g
            BY <4>6, <4>8, <6>1
          <6>2. CASE h # g
            <7>1. h \in 1 .. m
              BY <4>3, <4>5, <6>2
            <7>2. state.out[h][flow.reads[1].name] = <<Payload(Place(flow.reads[1].src), h)>>
              BY <3>10, <7>1 DEF Gathered, m
            <7> QED
              BY <4>6, <7>1, <7>2
          <6> QED
            BY <6>1, <6>2
        <5> QED
          BY <4>6, <5>1
      <4>10. ASSUME NEW h \in Nat
             PROVE  h \in DOMAIN left <=>
                      h \in 1 .. n /\ Arrived(flow, d, h) # {} /\ ~Whole(flow, d, h)
        <5>1. CASE h = g
          BY <4>2, <5>1
        <5>2. CASE h # g
          <6>1. h \in DOMAIN left <=> h \in DOMAIN state.pending
            BY <5>2
          <6>2. h \in DOMAIN state.pending <=>
                  h \in 1 .. n /\ Arrived(flow, c, h) # {} /\ ~Whole(flow, c, h)
            BY <2>4, <3>10 DEF Gathered
          <6> QED
            BY <3>2, <3>8, <5>2, <6>1, <6>2
        <5> QED
          BY <5>1, <5>2
      <4>11. ASSUME NEW h \in DOMAIN left, NEW j \in DOMAIN flow.reads
             PROVE  flow.reads[j].name \in DOMAIN left[h] <=> j \in Arrived(flow, d, h)
        <5>1. h \in DOMAIN state.pending /\ h # g /\ left[h] = state.pending[h] /\ h \in Nat
          BY <1>1
        <5> QED
          BY <2>4, <3>2, <5>1 DEF Gathered
      <4> HIDE DEF left
      <4>12. g <= n
        BY <3>2
      <4>13. Gathered(flow, n, d, after)
        BY <3>10, <4>1, <4>6, <4>7, <4>9, <4>10, <4>11, <4>12 DEF Gathered
      <4> QED
        BY <4>13 DEF after
    <3>11. CASE ~(Complete(flow, new) /\ ~Aggregating(flow))
      <4>1. after.out = state.out /\ after.pending = put
        BY <2>2, <3>11
      <4>2. /\ DOMAIN put = DOMAIN state.pending \cup {g} /\ put[g] = new
            /\ \A h \in DOMAIN state.pending : h # g => put[h] = state.pending[h]
        BY DEF Put
      <4> HIDE DEF put
      <4>3. Aggregating(flow) \/ ~Whole(flow, d, g)
        BY <3>7, <3>11
      <4>4. ASSUME NEW h \in Nat
            PROVE  h \in DOMAIN put <=>
                     /\ h \in 1 .. n /\ Arrived(flow, d, h) # {}
                     /\ Aggregating(flow) \/ ~Whole(flow, d, h)
        <5>1. CASE h = g
          BY <3>2, <3>9, <4>2, <4>3, <5>1
        <5>2. CASE h # g
          <6>1. h \in DOMAIN put <=> h \in DOMAIN state.pending
            BY <4>2, <5>2
          <6>2. h \in DOMAIN state.pending <=>
                  /\ h \in 1 .. n /\ Arrived(flow, c, h) # {}
                  /\ Aggregating(flow) \/ ~Whole(flow, c, h)
            BY <2>4 DEF Gathered
          <6> QED
            BY <3>2, <3>8, <5>2, <6>1, <6>2
        <5> QED
          BY <5>1, <5>2
      <4>5. ASSUME NEW h \in DOMAIN put, NEW j \in DOMAIN flow.reads
            PROVE  flow.reads[j].name \in DOMAIN put[h] <=> j \in Arrived(flow, d, h)
        <5>1. CASE h = g
          BY <3>6, <4>2, <5>1
        <5>2. CASE h # g
          <6>1. h \in DOMAIN state.pending /\ put[h] = state.pending[h] /\ h \in Nat
            BY <1>1, <4>2, <5>2
          <6> QED
            BY <2>4, <3>2, <5>2, <6>1 DEF Gathered
        <5> QED
          BY <5>1, <5>2
      <4>6. ~Aggregating(flow) => \A h \in 1 .. n : Whole(flow, d, h) <=> Whole(flow, c, h)
        <5>1. ~Aggregating(flow) => ~Whole(flow, d, g)
          BY <4>3
        <5> QED
          BY <3>3, <3>8, <5>1
      <4>7. Gathered(flow, n, d, after)
        BY <4>1, <4>4, <4>5, <4>6 DEF Gathered
      <4> QED
        BY <4>7 DEF after
    <3> QED
      BY <3>10, <3>11
  <2> QED
    BY <2>3, <2>4
<1> QED
  BY <1>4, <1>5

\* What the frames of a step leave in the assembler of a flow that reads each port once.
LEMMA FramesAreGathered ==
  ASSUME NEW flow, ReadsOnce(flow), NEW n \in Nat, NEW bs, BindingsOk(bs)
  PROVE  \E state :
           /\ AssemblyType(state, n) /\ Assembled(flow, Full(bs, n, Len(bs)), state)
           /\ Gathered(flow, n, Full(bs, n, Len(bs)), state)
           /\ Assemble(flow, FramesOf(bs, n)) = state.out \o Finalized(flow, state.pending)
<1> DEFINE frames == FramesOf(bs, n)
           N == Len(frames)
           last == Full(bs, n, Len(bs))
<1>1. IsSeq(frames) /\ Runs(n, frames, Zero, last)
  BY FramesAreCounted
<1>2. flow.reads \in Seq(ToSet(flow.reads)) /\ Named(flow)
  BY DEF ReadsOnce
<1>3. \A f \in ToSet(frames) : f.payload.row \in 1 .. n
  BY FramesHaveRows
<1> HIDE DEF frames, last
<1>4. N \in Nat /\ \A m \in 1 .. N : frames[m] \in ToSet(frames)
  BY <1>1, SeqDomain
<1>5. PICK cs : Counts(n, frames, Zero, last, cs)
  BY <1>1 DEF Runs
<1>6. /\ cs \in [0 .. N -> [Srcs -> Nat]] /\ cs[0] = Zero /\ cs[N] = last
      /\ \A m \in 0 .. N - 1 : Counted(n, cs[m], frames[m + 1], cs[m + 1])
  BY <1>5 DEF Counts
<1>7. PICK f : /\ f[0] = Unassembled
               /\ \A m \in 0 .. N - 1 : f[m + 1] = Push(flow, f[m], frames[m + 1])
               /\ Assemble(flow, frames) = f[N].out \o Finalized(flow, f[N].pending)
  BY <1>4, Assembly
<1> DEFINE T == {m \in 0 .. N : /\ AssemblyType(f[m], n) /\ Assembled(flow, cs[m], f[m])
                                /\ Gathered(flow, n, cs[m], f[m])}
<1>8. 0 \in T
  <2>1. IsSeq(<<>>) /\ ToSet(<<>>) = {} /\ Len(<<>>) = 0
    BY DEF IsSeq, ToSet
  <2>2. Unassembled.out = <<>> /\ DOMAIN Unassembled.pending = {}
        /\ Unassembled = [out |-> Unassembled.out, pending |-> Unassembled.pending]
    BY DEF Unassembled
  <2>3. AssemblyType(Unassembled, n)
    BY <2>1, <2>2 DEF AssemblyType
  <2>4. \A k \in DOMAIN flow.reads : Zero[flow.reads[k].src] = 0
    BY DEF ReadsOnce, Zero
  <2>5. Assembled(flow, Zero, Unassembled)
    BY <2>1, <2>2, <2>4 DEF Assembled
  <2>6. \A g \in 1 .. n : Arrived(flow, Zero, g) = {}
    <3>1. \A g \in 1 .. n : ~(g <= 0)
      OBVIOUS
    <3> QED
      BY <2>4, <3>1 DEF Arrived
  <2>7. \A g \in 1 .. n : ~Whole(flow, Zero, g) /\ ~(g <= 0)
    <3>1. DOMAIN flow.reads # {}
      BY <1>2, Elements DEF Named
    <3> QED
      BY <2>6, <3>1 DEF Whole
  <2>8. Gathered(flow, n, Zero, Unassembled)
    <3>1. 1 .. 0 = {} /\ 0 <= n
      OBVIOUS
    <3> QED
      BY <2>1, <2>2, <2>6, <2>7, <3>1 DEF Gathered
  <2> QED
    BY <1>4, <1>6, <1>7, <2>3, <2>5, <2>8
<1>9. \A m \in 0 .. N - 1 : m \in T => m + 1 \in T
  <2>1. ASSUME NEW m \in 0 .. N - 1, m \in T PROVE m + 1 \in T
    <3>1. m + 1 \in 1 .. N /\ m + 1 \in 0 .. N /\ m \in 0 .. N
      BY <1>4
    <3>2. frames[m + 1].payload.row \in 1 .. n
      BY <1>3, <1>4, <3>1
    <3>3. AssemblyType(f[m], n) /\ Assembled(flow, cs[m], f[m]) /\ Gathered(flow, n, cs[m], f[m])
      BY <2>1
    <3>4. /\ Counted(n, cs[m], frames[m + 1], cs[m + 1]) /\ cs[m] \in [Srcs -> Nat]
          /\ f[m + 1] = Push(flow, f[m], frames[m + 1])
      BY <1>6, <1>7, <3>1
    <3>5. AssemblyType(f[m + 1], n)
      BY <3>2, <3>3, <3>4, PushKeepsType
    <3>6. Assembled(flow, cs[m + 1], f[m + 1])
      BY <1>2, <3>3, <3>4, PushAssembles
    <3>7. Gathered(flow, n, cs[m + 1], f[m + 1])
      BY <3>3, <3>4, PushGathers
    <3> QED
      BY <3>1, <3>5, <3>6, <3>7
  <2> QED
    BY <2>1
<1>10. N \in T
  <2> HIDE DEF T, N
  <2>1. \A m \in 0 .. N : m \in T
    BY <1>4, <1>8, <1>9, Upto
  <2> QED
    BY <1>4, <2>1
<1> QED
  BY <1>6, <1>7, <1>10 DEF frames, last

\* All the frames of the ports of a flow.
AllSent(flow, n, bs) ==
  \A k \in DOMAIN flow.reads : Full(bs, n, Len(bs))[flow.reads[k].src] = n

\* The first entries of a bundle of the whole step, or of one for each row.
BundlesOf(flow, n, bundles) ==
  LET first == flow.reads[1]
  IN  /\ flow.key = "step" =>
           /\ IsSeq(bundles) /\ Len(bundles) = 1
           /\ bundles[1][first.name] = [i \in 1 .. n |-> Payload(Place(first.src), i)]
      /\ flow.key # "step" =>
           /\ IsSeq(bundles) /\ Len(bundles) = n
           /\ \A g \in 1 .. n : bundles[g][first.name] = <<Payload(Place(first.src), g)>>

\* A flow whose ports are all bound is given the bundle of the step, or one for each row.
LEMMA FramesServe ==
  ASSUME NEW flow, ReadsOnce(flow), NEW n \in Nat, n # 0, NEW bs, BindingsOk(bs),
         AllSent(flow, n, bs)
  PROVE  BundlesOf(flow, n, Assemble(flow, FramesOf(bs, n)))
<1> SUFFICES ASSUME NEW bundles, bundles = Assemble(flow, FramesOf(bs, n))
             PROVE  BundlesOf(flow, n, bundles)
  OBVIOUS
<1> SUFFICES ASSUME NEW first, first = flow.reads[1]
             PROVE  /\ flow.key = "step" =>
                         /\ IsSeq(bundles) /\ Len(bundles) = 1
                         /\ bundles[1][first.name] = [i \in 1 .. n |-> Payload(Place(first.src), i)]
                    /\ flow.key # "step" =>
                         /\ IsSeq(bundles) /\ Len(bundles) = n
                         /\ \A g \in 1 .. n :
                              bundles[g][first.name] = <<Payload(Place(first.src), g)>>
  BY DEF BundlesOf
<1> DEFINE c == Full(bs, n, Len(bs))
<1>1. PICK state :
        /\ AssemblyType(state, n) /\ Assembled(flow, c, state) /\ Gathered(flow, n, c, state)
        /\ bundles = state.out \o Finalized(flow, state.pending)
  BY FramesAreGathered
<1>2. \A k \in DOMAIN flow.reads : c[flow.reads[k].src] = n
  BY DEF AllSent
<1> HIDE DEF c
<1>3. /\ flow.reads \in Seq(ToSet(flow.reads)) /\ Named(flow) /\ 1 \in DOMAIN flow.reads
      /\ \A k \in DOMAIN flow.reads : Takes(flow, k)
  <2>1. DOMAIN flow.reads = 1 .. Len(flow.reads) /\ 1 \in DOMAIN flow.reads
    BY Elements DEF ReadsOnce, Named
  <2>2. ASSUME NEW k \in DOMAIN flow.reads PROVE Takes(flow, k)
    <3>1. \A j \in DOMAIN flow.reads : flow.reads[j].src = flow.reads[k].src => k <= j
      BY <2>1 DEF ReadsOnce
    <3> QED
      BY <3>1 DEF Takes, ReadsOnce
  <2> QED
    BY <2>1, <2>2 DEF ReadsOnce
<1>4. IsSeq(state.out) /\ DOMAIN state.pending \subseteq 0 .. n
  BY <1>1 DEF AssemblyType
<1>5. \A g \in DOMAIN state.pending : GroupOk(flow, c, g, state.pending[g])
  BY <1>1 DEF Assembled
<1>6. IsSeq(Finalized(flow, state.pending))
  BY <1>4, FinalizedAre
<1>7. \A g \in DOMAIN state.pending :
        (\A k \in DOMAIN flow.reads : flow.reads[k].name \in DOMAIN state.pending[g]) =>
          Complete(flow, state.pending[g])
  BY <1>3, <1>5, CompleteWhenAll DEF GroupOk
<1>8. CASE flow.key = "step"
  <2>1. state.out = <<>>
    BY <1>1, <1>8 DEF Gathered, Aggregating
  <2>2. n > 0
    OBVIOUS
  <2>3. DOMAIN state.pending \subseteq {0} /\ 0 \in DOMAIN state.pending
        /\ \A k \in DOMAIN flow.reads : flow.reads[k].name \in DOMAIN state.pending[0]
    BY <1>1, <1>2, <1>3, <1>8, <2>2 DEF Assembled
  <2>4. {g \in DOMAIN state.pending : Complete(flow, state.pending[g])} = {0}
    BY <1>7, <2>3
  <2>5. Ordered({0}) = <<0>>
    BY OrderedOne
  <2>6. Finalized(flow, state.pending) = [i \in {1} |-> state.pending[0]]
    <3>1. DOMAIN <<0>> = {1} /\ <<0>>[1] = 0
      OBVIOUS
    <3> QED
      BY <2>4, <2>5, <3>1 DEF Finalized
  <2>7. bundles = Finalized(flow, state.pending)
    BY <1>1, <1>6, <2>1 DEF IsSeq
  <2>8. Len(bundles) = 1 /\ bundles[1] = state.pending[0]
    <3>1. [i \in {1} |-> state.pending[0]] = <<state.pending[0]>>
      OBVIOUS
    <3> QED
      BY <2>6, <2>7, <3>1
  <2>9. state.pending[0][first.name] = [i \in 1 .. n |-> Payload(Place(first.src), i)]
    <3>1. EntryOk(flow, c, 0, state.pending[0], 1)
      BY <1>3, <1>5, <2>3 DEF GroupOk
    <3>2. c[first.src] = n
      BY <1>2, <1>3
    <3> QED
      BY <1>8, <3>1, <3>2 DEF EntryOk
  <2> QED
    BY <1>6, <1>8, <2>7, <2>8, <2>9
<1>9. CASE flow.key # "step"
  <2>1. \A g \in 1 .. n : Whole(flow, c, g) /\ Arrived(flow, c, g) # {}
    BY <1>2, <1>3 DEF Whole, Arrived
  <2>2. CASE Aggregating(flow)
    <3>1. state.out = <<>>
      BY <1>1, <2>2 DEF Gathered
    <3>2. \A g \in Nat : g \in DOMAIN state.pending <=> g \in 1 .. n
      BY <1>1, <1>9, <2>1, <2>2 DEF Gathered
    <3>3. DOMAIN state.pending = 1 .. n
      <4>1. 0 .. n \subseteq Nat /\ 1 .. n \subseteq Nat
        OBVIOUS
      <4>2. DOMAIN state.pending \subseteq Nat
        BY <1>4, <4>1
      <4> QED
        BY <3>2, <4>1, <4>2
    <3>4. \A g \in 1 .. n : \A k \in DOMAIN flow.reads :
            flow.reads[k].name \in DOMAIN state.pending[g]
      BY <1>1, <1>9, <2>1, <3>3 DEF Gathered, Whole
    <3>5. {g \in DOMAIN state.pending : Complete(flow, state.pending[g])} = 1 .. n
      BY <1>7, <3>3, <3>4
    <3> DEFINE at == Ordered(1 .. n)
    <3>6. DOMAIN at = 1 .. n /\ \A i \in 1 .. n : at[i] = i
      BY OrderedInterval DEF Ordered
    <3>7. Finalized(flow, state.pending) = [i \in DOMAIN at |-> state.pending[at[i]]]
      BY <3>5 DEF Finalized
    <3>8. bundles = Finalized(flow, state.pending)
      BY <1>1, <1>6, <3>1 DEF IsSeq
    <3> HIDE DEF at
    <3> DEFINE s == [i \in 1 .. n |-> state.pending[at[i]]]
    <3>9. bundles = s
      BY <3>6, <3>7, <3>8
    <3>10. Len(s) = n
      BY Listed
    <3>11. ASSUME NEW g \in 1 .. n PROVE s[g][first.name] = <<Payload(Place(first.src), g)>>
      <4>1. s[g] = state.pending[g]
        BY <3>6
      <4>2. GroupOk(flow, c, g, state.pending[g]) /\ first.name \in DOMAIN state.pending[g]
        BY <1>3, <1>5, <3>3, <3>4
      <4> HIDE DEF s
      <4> QED
        BY <1>3, <1>9, <4>1, <4>2 DEF GroupOk, EntryOk
    <3> HIDE DEF s
    <3> QED
      BY <1>6, <1>9, <3>8, <3>9, <3>10, <3>11
  <2>3. CASE ~Aggregating(flow)
    <3>1. /\ Len(state.out) <= n /\ Len(state.out) \in Nat
          /\ \A g \in 1 .. n : g <= Len(state.out)
          /\ \A g \in 1 .. Len(state.out) :
               state.out[g][first.name] = <<Payload(Place(first.src), g)>>
      BY <1>1, <1>4, <2>1, <2>3, SeqDomain DEF Gathered
    <3>2. Len(state.out) = n
      <4>1. n \in 1 .. n
        OBVIOUS
      <4> QED
        BY <3>1, <4>1
    <3>3. \A g \in Nat : g \notin DOMAIN state.pending
      BY <1>1, <1>9, <2>1, <2>3 DEF Gathered
    <3>4. DOMAIN state.pending = {}
      BY <1>4, <3>3
    <3>5. Finalized(flow, state.pending) = <<>>
      <4>1. {g \in DOMAIN state.pending : Complete(flow, state.pending[g])} = {}
        BY <3>4
      <4>2. Ordered({}) = <<>>
        BY FS_EmptySet DEF Ordered
      <4>3. Finalized(flow, state.pending) = [i \in DOMAIN <<>> |-> state.pending[<<>>[i]]]
        BY <4>1, <4>2 DEF Finalized
      <4>4. [i \in DOMAIN <<>> |-> state.pending[<<>>[i]]] = <<>>
        OBVIOUS
      <4> QED
        BY <4>3, <4>4
    <3>6. bundles = state.out
      BY <1>1, <1>4, <3>5 DEF IsSeq
    <3> QED
      BY <1>4, <1>9, <3>1, <3>2, <3>6
  <2> QED
    BY <2>2, <2>3
<1> QED
  BY <1>8, <1>9

-----------------------------------------------------------------------------
(* Each flow is given its bundles *)

\* The kth flow of a consumer, as it is planned.
TargetOf(c, k) == [to |-> c, k |-> k, flow |-> Flows[c][k]]

\* A flow is planned as often as its consumer.
LEMMA TargetsCounted ==
  ASSUME RegistryInv, NEW c \in ToSet(plan), NEW k \in DOMAIN Flows[c],
         NEW all, all = FlowTargets
  PROVE  /\ IsSeq(all) /\ Planned(plan, c) \in Nat
         /\ Cardinality({i \in 1 .. Len(all) : all[i] = TargetOf(c, k)}) = Planned(plan, c)
<1> DEFINE t == TargetOf(c, k)
           N == {t}
           of(i) == [j \in DOMAIN Flows[plan[i]] |->
                       [to |-> plan[i], k |-> j, flow |-> Flows[plan[i]][j]]]
           ss == [i \in DOMAIN plan |-> of(i)]
           I == {i \in 1 .. Len(plan) : plan[i] = c}
<1>1. /\ Len(plan) \in Nat /\ DOMAIN plan = 1 .. Len(plan)
      /\ \A i \in 1 .. Len(plan) : plan[i] \in Consumers
  BY PlannedAreRegistered, SeqDomain
<1>2. all = FlattenSeq(ss)
  BY DEF FlowTargets
<1>3. ASSUME NEW i \in 1 .. Len(plan)
      PROVE  IsSeq(of(i)) /\ Picked(of(i), N) = IF i \in I THEN <<t>> ELSE <<>>
  <2>1. Flows[plan[i]] \in Seq(FlowType)
    BY <1>1, ConsumerAssumption
  <2> DEFINE flows == Flows[plan[i]]
             s == [j \in 1 .. Len(flows) |-> [to |-> plan[i], k |-> j, flow |-> flows[j]]]
  <2>2. Len(flows) \in Nat /\ DOMAIN flows = 1 .. Len(flows)
    BY <2>1, Elements
  <2>3. of(i) = s
    BY <2>2
  <2>4. IsSeq(s) /\ Len(s) = Len(flows)
    BY <2>2, Listed
  <2>5. \A j \in 1 .. Len(flows) : s[j].to = plan[i] /\ s[j].k = j
        /\ s[j] = [to |-> plan[i], k |-> j, flow |-> flows[j]]
    OBVIOUS
  <2>6. CASE plan[i] = c
    <3>1. k \in 1 .. Len(flows) /\ flows[k] = Flows[c][k]
      BY <2>2, <2>6
    <3>2. s[k] = t
      BY <2>5, <2>6, <3>1 DEF TargetOf
    <3>3. \A j \in 1 .. Len(s) : s[j] \in N <=> j = k
      <4>1. t.k = k
        BY DEF TargetOf
      <4> QED
        BY <2>4, <2>5, <3>2, <4>1
    <3> HIDE DEF s, N
    <3>4. Picked(s, N) = <<s[k]>>
      BY <2>4, <3>1, <3>3, PickedOne
    <3> QED
      BY <2>3, <2>4, <2>6, <3>2, <3>4
  <2>7. CASE plan[i] # c
    <3>1. \A x \in ToSet(s) : x \notin N
      <4>1. t.to = c
        BY DEF TargetOf
      <4>2. DOMAIN s = 1 .. Len(flows)
        OBVIOUS
      <4>3. \A j \in 1 .. Len(flows) : s[j] # t
        BY <2>5, <2>7, <4>1
      <4> HIDE DEF s, t
      <4> QED
        BY <4>2, <4>3 DEF ToSet
    <3> HIDE DEF s, N
    <3>2. Picked(s, N) = <<>>
      BY <2>4, <3>1, PickedNone
    <3> QED
      BY <2>3, <2>4, <2>7, <3>2
  <2> QED
    BY <2>6, <2>7
<1> HIDE DEF of, N
<1>4. IsSeq(ss) /\ Len(ss) = Len(plan) /\ \A i \in 1 .. Len(plan) : ss[i] = of(i)
  BY <1>1, Listed
<1> HIDE DEF ss, t
<1>5. IsSeq(<<t>>) /\ Len(<<t>>) = 1
  BY DEF IsSeq, ToSet
<1> DEFINE one == <<t>>
<1>6. \A i \in 1 .. Len(ss) : IsSeq(ss[i]) /\ Picked(ss[i], N) = IF i \in I THEN one ELSE <<>>
  BY <1>3, <1>4
<1>7. I \in SUBSET (1 .. Len(ss)) /\ Cardinality(I) \in Nat /\ Cardinality(I) = Planned(plan, c)
  <2>1. I \in SUBSET (1 .. Len(plan)) /\ IsFiniteSet(1 .. Len(plan))
    BY <1>1, SegmentSize
  <2>2. Cardinality(I) \in Nat
    BY <2>1, FS_Subset, FS_CardinalityType
  <2>3. I = {i \in DOMAIN plan : plan[i] = c}
    BY <1>1
  <2> QED
    BY <1>4, <2>1, <2>2, <2>3 DEF Planned
<1> HIDE DEF I, one
<1>8. Picked(FlattenSeq(ss), N) = Repeated(one, Cardinality(I))
  <2>1. IsSeq(one)
    BY <1>5 DEF one
  <2> QED
    BY <1>4, <1>6, <1>7, <2>1, PickedFlattened, Z3
<1>9. Len(Picked(all, N)) = Planned(plan, c)
  <2>1. IsSeq(one) /\ Len(one) = 1
    BY <1>5 DEF one
  <2>2. Len(Repeated(one, Cardinality(I))) = Cardinality(I) * 1
    BY <1>7, <2>1, RepeatedLength
  <2> QED
    BY <1>2, <1>7, <1>8, <2>2
<1>10. IsSeq(all)
  BY FlowTargetsAre
<1>11. Len(Picked(all, N)) = Cardinality({i \in 1 .. Len(all) : all[i] \in N})
  BY <1>10, PickedCount
<1>12. {i \in 1 .. Len(all) : all[i] \in N} = {i \in 1 .. Len(all) : all[i] = TargetOf(c, k)}
  BY DEF N, t
<1> QED
  BY <1>7, <1>9, <1>10, <1>11, <1>12

\* In a step it is due in, a flow is served as often as it is planned, in others never.
LEMMA DueCounted ==
  ASSUME RegistryInv, NEW c \in ToSet(plan), NEW k \in DOMAIN Flows[c],
         NEW all, all = FlowTargets, NEW due, due = Kept(all, {i \in DOMAIN all : Due(all[i].flow)})
  PROVE  /\ IsSeq(due) /\ \A t \in ToSet(due) : Target(t)
         /\ Cardinality({i \in 1 .. Len(due) : due[i] = TargetOf(c, k)})
              = IF Due(Flows[c][k]) THEN Planned(plan, c) ELSE 0
<1> DEFINE P == {i \in DOMAIN all : Due(all[i].flow)}
           N == {TargetOf(c, k)}
<1>1. /\ IsSeq(all)
      /\ Cardinality({i \in 1 .. Len(all) : all[i] = TargetOf(c, k)}) = Planned(plan, c)
  BY TargetsCounted
<1>0. DOMAIN all = 1 .. Len(all) /\ \A t \in ToSet(all) : Target(t)
  BY <1>1, SeqDomain, FlowTargetsAre
<1>2. IsSeq(all) /\ P \in SUBSET (1 .. Len(all))
  BY <1>1, <1>0
<1>3. \A i \in P : Due(all[i].flow) /\ Target(all[i])
  BY <1>1, <1>0, SeqDomain
<1>4. due = Kept(all, P)
  OBVIOUS
<1>5. \A i \in 1 .. Len(all) : Due(all[i].flow) => i \in P
  BY <1>0
<1> HIDE DEF P
<1>6. IsSeq(due) /\ \A x \in ToSet(due) : \E i \in P : x = all[i]
  <2>1. IsSeq(Kept(all, P)) /\ \A x \in ToSet(Kept(all, P)) : \E i \in P : x = all[i]
    BY <1>2, KeptElements
  <2> QED
    BY <1>4, <2>1
<1>7. \A t \in ToSet(due) : Target(t) /\ Due(t.flow)
  BY <1>3, <1>6
<1>8. TargetOf(c, k).flow = Flows[c][k]
  BY DEF TargetOf
<1>9. CASE Due(Flows[c][k])
  <2>1. \A i \in 1 .. Len(all) : all[i] \in N => i \in P
    BY <1>5, <1>8, <1>9
  <2> HIDE DEF N
  <2>2. Len(Picked(due, N)) = Len(Picked(all, N))
    BY <1>2, <1>4, <2>1, KeptCount
  <2>3. Len(Picked(due, N)) = Cardinality({i \in 1 .. Len(due) : due[i] \in N})
    BY <1>6, PickedCount
  <2>4. Len(Picked(all, N)) = Cardinality({i \in 1 .. Len(all) : all[i] \in N})
    BY <1>2, PickedCount
  <2>5. Cardinality({i \in 1 .. Len(due) : due[i] \in N}) = Planned(plan, c)
    <3>1. {i \in 1 .. Len(all) : all[i] \in N} = {i \in 1 .. Len(all) : all[i] = TargetOf(c, k)}
      BY DEF N
    <3> QED
      BY <1>1, <2>2, <2>3, <2>4, <3>1, ZenonT(30)
  <2>6. Cardinality({i \in 1 .. Len(due) : due[i] = TargetOf(c, k)}) = Planned(plan, c)
    BY <2>5 DEF N
  <2> QED
    BY <1>6, <1>7, <1>9, <2>6
<1>10. CASE ~Due(Flows[c][k])
  <2>1. \A i \in 1 .. Len(due) : due[i] # TargetOf(c, k)
    BY <1>6, <1>7, <1>8, <1>10, SeqDomain
  <2>2. {i \in 1 .. Len(due) : due[i] = TargetOf(c, k)} = {}
    BY <2>1
  <2> QED
    BY <1>6, <1>7, <1>10, <2>2, FS_EmptySet
<1> QED
  BY <1>9, <1>10

\* The first rows of the bundles in these callbacks, and what they should be.
RowsOf(flow, s) == [i \in 1 .. Len(s) |-> EntryRows(s[i].entries[flow.reads[1].name])]

Wanted(flow, rws, stp) ==
  LET n      == Len(rws)
      mapped == {i \in 1 .. n : rws[i] # None}
      first  == {i \in mapped : \A j \in 1 .. i - 1 : rws[j] # rws[i]}
  IN  IF n = 0 \/ stp % flow.stride # 0 THEN <<>>
      ELSE IF flow.key # "step" THEN [i \in 1 .. n |-> {i}]
      ELSE IF flow.firstPerPrompt /\ mapped # {} THEN <<first>> ELSE <<1 .. n>>

\* The bundles of its kth flow that a consumer is given.
IsBundle(x, c, k) == x.to = c /\ x.what = "consume_bundle" /\ x.k = k

\* A flow each of whose ports is sent, if there are rows.
PortsOnce(flow) ==
  \A k, j \in DOMAIN flow.reads : flow.reads[k].src = flow.reads[j].src => k = j
IsBound(flow, bs) ==
  \A k \in DOMAIN flow.reads :
    flow.reads[k].src = "meta" \/ \E i \in 1 .. Len(bs) : bs[i].src = flow.reads[k].src

LEMMA BoundAreFull ==
  ASSUME NEW bs, BindingsOk(bs), Carrying(bs), NEW n \in Nat, NEW flow,
         flow.reads \in Seq(ToSet(flow.reads)), Named(flow), PortsOnce(flow), IsBound(flow, bs)
  PROVE  ReadsOnce(flow) /\ AllSent(flow, n, bs)
<1>1. Len(bs) \in Nat /\ \A l \in 1 .. Len(bs) : bs[l].src \in Srcs
  BY SeqDomain DEF BindingsOk, BindingOk, Layers, Srcs
<1>2. 1 \in 1 .. Len(bs) /\ bs[1].meta
  BY <1>1 DEF Carrying
<1>3. ASSUME NEW k \in DOMAIN flow.reads
      PROVE  /\ flow.reads[k].src \in Srcs
             /\ Full(bs, n, Len(bs))[flow.reads[k].src] = n
  <2> DEFINE src == flow.reads[k].src
  <2>1. src = "meta" \/ \E i \in 1 .. Len(bs) : bs[i].src = src
    BY DEF IsBound
  <2> HIDE DEF src
  <2>2. src \in Srcs
    BY <1>1, <2>1 DEF Srcs
  <2>3. \E l \in 1 .. Len(bs) : src = bs[l].src \/ (src = "meta" /\ bs[l].meta)
    BY <1>2, <2>1
  <2>4. Full(bs, n, Len(bs))[src] = n
    BY <2>2, <2>3 DEF Full
  <2> QED
    BY <2>2, <2>4 DEF src
<1> QED
  BY <1>3 DEF ReadsOnce, PortsOnce, AllSent

\* The end of a step is no bundle.
LEMMA PickedBundles ==
  ASSUME NEW t, NEW s, IsSeq(s), NEW M, ToSet(s) \subseteq M,
         \A x \in ToSet(s \o StepEnd(t)) : x \in M => x.what = "consume_bundle"
  PROVE  Picked(s \o StepEnd(t), M) = s
<1> DEFINE end == StepEnd(t)
           x == Call(t.to, "on_step_end", "none", t.k, NoEntries)
<1>1. x.what # "consume_bundle"
  BY DEF Call
<1>2. end = <<>> \/ end = <<x>>
  BY DEF StepEnd
<1> HIDE DEF x
<1>3. IsSeq(<<>>) /\ ToSet(<<>>) = {} /\ IsSeq(<<x>>) /\ ToSet(<<x>>) = {x}
  BY DEF IsSeq, ToSet
<1>4. IsSeq(end) /\ ToSet(end) \subseteq {x}
  BY <1>2, <1>3
<1> HIDE DEF end
<1>5. ToSet(s \o end) = ToSet(s) \cup ToSet(end)
  BY <1>4, Joined
<1>6. ToSet(end) \cap M = {}
  BY <1>1, <1>4, <1>5 DEF end
<1>7. Picked(s \o end, M) = Picked(s, M) \o Picked(end, M)
  BY <1>4, PickedJoined
<1>8. Picked(s, M) = s
  BY PickedAll
<1>9. Picked(end, M) = <<>>
  BY <1>4, <1>6, PickedNone
<1>10. s \o <<>> = s
  BY DEF IsSeq
<1> QED
  BY <1>7, <1>8, <1>9, <1>10 DEF end

\* A step flow whose rows are found at once wants one bundle of them, and one whose rows
\* are not wants one of all the rows.
LEMMA WantedOfStep ==
  ASSUME IsSeq(rows), NEW flow, flow.key = "step", Due(flow), flow.firstPerPrompt \in BOOLEAN
  PROVE  /\ DirectRows(flow) # <<>> =>
              Wanted(flow, rows, step) = <<ToSet(DirectRows(flow))>>
         /\ DirectRows(flow) = <<>> /\ rows # <<>> =>
              Wanted(flow, rows, step) = <<1 .. Len(rows)>>
<1> DEFINE n == Len(rows)
           mapped == {i \in 1 .. n : rows[i] # None}
           first == {i \in mapped : \A j \in 1 .. i - 1 : rows[j] # rows[i]}
<1>1. n \in Nat /\ DOMAIN rows = 1 .. n /\ step % flow.stride = 0
  BY SeqDomain DEF Due
<1>2. n = 0 <=> rows = <<>>
  BY <1>1 DEF IsSeq
<1>3. CASE flow.firstPerPrompt
  <2>1. mapped \subseteq 1 .. n /\ first \subseteq mapped
    OBVIOUS
  <2>2. IsFiniteSet(mapped) /\ IsFiniteSet(first) /\ mapped \in SUBSET Nat /\ first \in SUBSET Nat
    <3> HIDE DEF mapped, first
    <3>1. IsFiniteSet(1 .. n) /\ mapped \in SUBSET (1 .. n) /\ first \in SUBSET (1 .. n)
      BY <1>1, <2>1, FS_Interval
    <3>2. IsFiniteSet(mapped) /\ IsFiniteSet(first)
      BY <3>1, FS_Subset
    <3> QED
      BY <1>1, <3>1, <3>2
  <2>3. DirectRows(flow) = Ordered(first)
    <3>1. first = {i \in DOMAIN rows : rows[i] # None /\ \A j \in 1 .. i - 1 : rows[j] # rows[i]}
      BY <1>1
    <3> QED
      BY <1>3, <3>1 DEF DirectRows, FirstPerPrompt
  <2>4. \A i \in first : rows[i] # None /\ i \in mapped
    OBVIOUS
  <2>5. mapped # {} => first # {}
    <3>1. SUFFICES ASSUME mapped # {} PROVE first # {}
      OBVIOUS
    <3>2. PICK m \in mapped : \A p \in mapped : m <= p
      <4> HIDE DEF mapped
      <4> QED
        BY <2>2, <3>1, Least
    <3>3. ASSUME NEW j \in 1 .. m - 1 PROVE rows[j] # rows[m]
      <4>1. j \in 1 .. n /\ ~(m <= j) /\ m \in 1 .. n
        BY <1>1, <3>2
      <4>2. j \notin mapped
        BY <3>2, <4>1
      <4> QED
        BY <3>2, <4>1, <4>2
    <3> QED
      BY <3>2, <3>3
  <2> HIDE DEF first
  <2>6. ToSet(Ordered(first)) = first /\ (Ordered(first) = <<>> <=> first = {})
    <3>1. /\ Ordered(first) \in Seq(first) /\ Len(Ordered(first)) = Cardinality(first)
          /\ \A p \in first : \E i \in DOMAIN Ordered(first) : Ordered(first)[i] = p
      BY <2>2, OrderedSequence
    <3> DEFINE at == Ordered(first)
    <3> HIDE DEF at
    <3>2. at \in Seq(first) /\ \A p \in first : \E i \in DOMAIN at : at[i] = p
      BY <3>1 DEF at
    <3>3. \A i \in DOMAIN at : at[i] \in first
      BY <3>2
    <3>4. ToSet(at) = first
      BY <3>2, <3>3 DEF ToSet
    <3>5. at = <<>> <=> ToSet(at) = {}
      BY <3>2 DEF ToSet
    <3> QED
      BY <3>4, <3>5 DEF at
  <2>7. mapped # {} => n # 0
    BY <1>1
  <2>8. DirectRows(flow) # <<>> => first # {} /\ mapped # {}
    BY <2>1, <2>3, <2>6
  <2>9. DirectRows(flow) = <<>> => mapped = {}
    BY <2>3, <2>5, <2>6
  <2> HIDE DEF mapped
  <2>10. DirectRows(flow) # <<>> => Wanted(flow, rows, step) = <<first>>
    BY <1>1, <1>3, <2>7, <2>8 DEF Wanted, mapped, first
  <2>11. DirectRows(flow) = <<>> /\ rows # <<>> => Wanted(flow, rows, step) = <<1 .. Len(rows)>>
    BY <1>1, <1>2, <1>3, <2>9 DEF Wanted, mapped, first
  <2> QED
    BY <2>3, <2>6, <2>10, <2>11
<1>4. CASE ~flow.firstPerPrompt
  <2>1. DirectRows(flow) = [i \in 1 .. n |-> i]
    BY <1>1, <1>4 DEF DirectRows, AllRows
  <2>2. ToSet(DirectRows(flow)) = 1 .. n /\ (DirectRows(flow) = <<>> <=> n = 0)
    <3> DEFINE at == [i \in 1 .. n |-> i]
    <3>1. DOMAIN at = 1 .. n /\ \A i \in 1 .. n : at[i] = i
      OBVIOUS
    <3>2. Len(at) = n /\ IsSeq(at)
      BY <1>1, Listed
    <3> HIDE DEF at
    <3>3. ToSet(at) = 1 .. n
      BY <3>1 DEF ToSet
    <3>4. at = <<>> <=> n = 0
      BY <1>1, <3>2 DEF IsSeq
    <3> QED
      BY <2>1, <3>3, <3>4 DEF at
  <2>3. n # 0 => Wanted(flow, rows, step) = <<1 .. n>>
    BY <1>1, <1>4 DEF Wanted
  <2> QED
    BY <1>2, <2>2, <2>3
<1> QED
  BY <1>3, <1>4

\* A direct bundle holds the rows it should (build_step_scope_port_bundle).
LEMMA DirectServes ==
  ASSUME BindingsOk(bindings), IsSeq(rows), NEW t, Target(t), Named(t.flow),
         ~Declines(t.flow), Due(t.flow), NEW s, s = DirectCalls(t), Raises \notin ToSet(s),
         NEW M, \A x \in ToSet(s) : x \in M <=> IsBundle(x, t.to, t.k)
  PROVE  /\ IsSeq(Picked(s, M)) /\ ToSet(Picked(s, M)) \subseteq M
         /\ RowsOf(t.flow, Picked(s, M)) = Wanted(t.flow, rows, step)
<1> DEFINE flow == t.flow
           e == DirectBundle(flow)
           b == BundleCall(t, e)
           end == StepEnd(t)
<1>1. /\ flow.reads \in Seq(ToSet(flow.reads)) /\ flow.firstPerPrompt \in BOOLEAN
      /\ flow.key = "step" /\ DirectRows(flow) # <<>>
  <2>1. flow.firstPerPrompt \in BOOLEAN
    BY DEF Target, FlowType
  <2> QED
    BY <2>1, TargetReads DEF Declines
<1>2. ~Refuses(flow) /\ s = <<b>> \o end
  <2>1. ToSet(<<Raises>>) = {Raises}
    BY DEF ToSet
  <2> QED
    BY <2>1 DEF DirectCalls
<1>3. Wanted(flow, rows, step) = <<ToSet(DirectRows(flow))>>
  BY <1>1, WantedOfStep
<1>4. EntryRows(e[flow.reads[1].name]) = ToSet(DirectRows(flow))
  BY <1>1, <1>2, DirectIsConsistent
<1>5. b.entries = e /\ IsBundle(b, t.to, t.k)
  BY DEF BundleCall, Call, IsBundle
<1> HIDE DEF b, e
<1>6. IsSeq(end)
  <2> DEFINE x == Call(t.to, "on_step_end", "none", t.k, NoEntries)
  <2>1. end = <<>> \/ end = <<x>>
    BY DEF StepEnd
  <2> HIDE DEF x
  <2>2. IsSeq(<<>>) /\ IsSeq(<<x>>)
    BY DEF IsSeq, ToSet
  <2> QED
    BY <2>1, <2>2
<1>7. IsSeq(<<b>>) /\ ToSet(<<b>>) = {b} /\ Len(<<b>>) = 1 /\ <<b>>[1] = b
  BY DEF IsSeq, ToSet
<1> DEFINE one == <<b>>
<1> HIDE DEF one
<1>8. IsSeq(one) /\ ToSet(one) = {b} /\ Len(one) = 1 /\ one[1] = b /\ s = one \o StepEnd(t)
  BY <1>2, <1>7 DEF one
<1>9. ToSet(s) = {b} \cup ToSet(end)
  BY <1>6, <1>8, Joined
<1>10. b \in M
  BY <1>5, <1>9
<1>11. ToSet(one) \subseteq M /\ \A x \in ToSet(one \o StepEnd(t)) : x \in M => x.what = "consume_bundle"
  BY <1>8, <1>10 DEF IsBundle
<1>12. Picked(s, M) = one
  BY <1>8, <1>11, PickedBundles
<1>13. RowsOf(flow, one) = <<EntryRows(e[flow.reads[1].name])>>
  BY <1>5, <1>8 DEF RowsOf
<1> QED
  BY <1>3, <1>4, <1>8, <1>11, <1>12, <1>13

\* There are frames just when there are rows.
LEMMA FramesOfRows ==
  ASSUME NEW n \in Nat, NEW bs, BindingsOk(bs), Carrying(bs)
  PROVE  FramesOf(bs, n) = <<>> <=> n = 0
<1> DEFINE frames == FramesOf(bs, n)
           d == Full(bs, n, Len(bs))
<1>1. IsSeq(frames) /\ Runs(n, frames, Zero, d)
  BY FramesAreCounted
<1>2. \A f \in ToSet(frames) : f.payload.row \in 1 .. n
  BY FramesHaveRows
<1>3. "meta" \in Srcs /\ d["meta"] = n
  <2>1. "meta" \in Srcs
    BY DEF Srcs
  <2>2. 1 \in 1 .. Len(bs) /\ bs[1].meta
    BY SeqDomain DEF Carrying, BindingsOk
  <2> QED
    BY <2>1, <2>2 DEF Full
<1> HIDE DEF frames, d
<1>4. frames # <<>> => n # 0
  <2>1. SUFFICES ASSUME frames # <<>>, n = 0 PROVE FALSE
    OBVIOUS
  <2>2. Len(frames) \in Nat /\ Len(frames) # 0
    BY <1>1, <2>1 DEF IsSeq
  <2>3. frames[1] \in ToSet(frames)
    BY <1>1, <2>2, SeqDomain
  <2>4. frames[1].payload.row \in 1 .. 0
    BY <1>2, <2>1, <2>3
  <2> QED
    BY <2>4
<1>5. frames = <<>> => n = 0
  <2>1. SUFFICES ASSUME frames = <<>> PROVE n = 0
    OBVIOUS
  <2>2. PICK cs : Counts(n, <<>>, Zero, d, cs)
    BY <1>1, <2>1 DEF Runs
  <2>3. Len(<<>>) = 0
    OBVIOUS
  <2>4. cs[0] = Zero /\ cs[0] = d
    BY <2>2, <2>3 DEF Counts
  <2> QED
    BY <1>3, <2>4 DEF Zero
<1> QED
  BY <1>4, <1>5 DEF frames

\* A flow that is sent frames is given the bundles it should (BundleAssembler).
LEMMA FramesServeFlow ==
  ASSUME BindingsOk(bindings), Carrying(bindings), IsSeq(rows), rows # <<>>,
         NEW t, Target(t), Named(t.flow), PortsOnce(t.flow), IsBound(t.flow, bindings),
         Declines(t.flow), Due(t.flow), NEW s, s = FrameCalls(t),
         NEW M, \A x \in ToSet(s) : x \in M <=> IsBundle(x, t.to, t.k)
  PROVE  /\ IsSeq(Picked(s, M)) /\ ToSet(Picked(s, M)) \subseteq M
         /\ RowsOf(t.flow, Picked(s, M)) = Wanted(t.flow, rows, step)
<1> DEFINE flow == t.flow
           first == flow.reads[1]
           n == Len(rows)
           bundles == Assemble(flow, FramesOf(bindings, n))
           u == [i \in 1 .. Len(bundles) |-> BundleCall(t, bundles[i])]
           end == StepEnd(t)
<1>1. /\ flow.reads \in Seq(ToSet(flow.reads)) /\ flow.firstPerPrompt \in BOOLEAN
      /\ n \in Nat /\ n # 0 /\ step % flow.stride = 0
  <2>1. flow.firstPerPrompt \in BOOLEAN
    BY DEF Target, FlowType
  <2>2. n \in Nat /\ n # 0
    BY SeqDomain DEF IsSeq
  <2> QED
    BY <2>1, <2>2, TargetReads DEF Due
<1>2. ReadsOnce(flow) /\ AllSent(flow, n, bindings)
  BY <1>1, BoundAreFull
<1>3. BundlesOf(flow, n, bundles)
  BY <1>1, <1>2, FramesServe
<1>4. s = [i \in DOMAIN bundles |-> BundleCall(t, bundles[i])] \o end
  BY DEF FrameCalls
<1> HIDE DEF bundles, n
<1>5. IsSeq(bundles) /\ Len(bundles) \in Nat /\ DOMAIN bundles = 1 .. Len(bundles)
  BY <1>3, SeqDomain DEF BundlesOf
<1>6. IsSeq(u) /\ Len(u) = Len(bundles) /\ \A i \in 1 .. Len(u) : u[i] = BundleCall(t, bundles[i])
  BY <1>5, Listed
<1>7. s = u \o StepEnd(t)
  BY <1>4, <1>5
<1>8. IsSeq(end)
  <2> DEFINE x == Call(t.to, "on_step_end", "none", t.k, NoEntries)
  <2>1. end = <<>> \/ end = <<x>>
    BY DEF StepEnd
  <2> HIDE DEF x
  <2>2. IsSeq(<<>>) /\ IsSeq(<<x>>)
    BY DEF IsSeq, ToSet
  <2> QED
    BY <2>1, <2>2
<1> HIDE DEF u, end
<1>9. ToSet(s) = ToSet(u) \cup ToSet(end)
  BY <1>6, <1>7, <1>8, Joined DEF end
<1>10. \A x \in ToSet(u) : IsBundle(x, t.to, t.k)
  <2>1. DOMAIN u = 1 .. Len(u)
    BY <1>6, SeqDomain
  <2> QED
    BY <1>6, <2>1 DEF ToSet, IsBundle, BundleCall, Call
<1>11. ToSet(u) \subseteq M /\ \A x \in ToSet(u \o StepEnd(t)) : x \in M => x.what = "consume_bundle"
  BY <1>7, <1>9, <1>10 DEF IsBundle
<1>12. Picked(s, M) = u
  BY <1>6, <1>7, <1>11, PickedBundles
<1>13. RowsOf(flow, u) = [i \in 1 .. Len(bundles) |-> EntryRows(bundles[i][first.name])]
  <2>1. ASSUME NEW i \in 1 .. Len(u) PROVE u[i].entries = bundles[i]
    <3>1. BundleCall(t, bundles[i]).entries = bundles[i]
      BY DEF BundleCall, Call
    <3> QED
      BY <1>6, <3>1
  <2> QED
    BY <1>6, <2>1 DEF RowsOf
<1>14. RowsOf(flow, u) = Wanted(flow, rows, step)
  <2>1. CASE flow.key = "step"
    <3>1. Wanted(flow, rows, step) = <<1 .. n>>
      <4>1. DirectRows(flow) = <<>>
        BY <2>1 DEF Declines
      <4> QED
        BY <1>1, <2>1, <4>1, WantedOfStep DEF n
    <3> DEFINE e == [i \in 1 .. n |-> Payload(Place(first.src), i)]
    <3>2. EntryRows(e) = 1 .. n
      <4>1. DOMAIN e = 1 .. n /\ \A i \in 1 .. n : e[i].row = i
        BY DEF Payload
      <4> HIDE DEF e
      <4> QED
        BY <4>1 DEF EntryRows
    <3>3. EntryRows(bundles[1][first.name]) = 1 .. n /\ Len(bundles) = 1
      BY <1>3, <2>1, <3>2 DEF BundlesOf
    <3>4. [i \in 1 .. 1 |-> EntryRows(bundles[i][first.name])] = <<1 .. n>>
      BY <3>3
    <3> QED
      BY <1>13, <3>1, <3>3, <3>4
  <2>2. CASE flow.key # "step"
    <3>1. Wanted(flow, rows, step) = [i \in 1 .. n |-> {i}]
      BY <1>1, <2>2 DEF Wanted, n
    <3>2. \A g \in 1 .. n : EntryRows(bundles[g][first.name]) = {g}
      <4>1. ASSUME NEW g \in 1 .. n PROVE EntryRows(<<Payload(Place(first.src), g)>>) = {g}
        BY DEF EntryRows, Payload
      <4> QED
        BY <1>3, <2>2, <4>1 DEF BundlesOf
    <3>3. Len(bundles) = n
      BY <1>3, <2>2 DEF BundlesOf
    <3>4. [g \in 1 .. n |-> EntryRows(bundles[g][first.name])] = [i \in 1 .. n |-> {i}]
      BY <3>2
    <3> QED
      BY <1>13, <3>1, <3>3, <3>4
  <2> QED
    BY <2>1, <2>2
<1> QED
  BY <1>6, <1>11, <1>12, <1>14

\* What a flow is given again and again holds its rows again and again.
LEMMA RowsRepeated ==
  ASSUME NEW flow, NEW R, IsSeq(R), NEW M, ToSet(R) \subseteq M, NEW m \in Nat,
         NEW all, all = Repeated(R, m), ToSet(all) \subseteq M
  PROVE  RowsOf(flow, all) = Repeated(RowsOf(flow, R), m)
<1> DEFINE v == [x \in M |-> EntryRows(x.entries[flow.reads[1].name])]
           w == [i \in 1 .. Len(R) |-> v[R[i]]]
<1>1. [i \in 1 .. Len(all) |-> v[all[i]]] = Repeated(w, m)
  <2> HIDE DEF v
  <2>1. [i \in 1 .. Len(Repeated(R, m)) |-> v[Repeated(R, m)[i]]]
          = Repeated([i \in 1 .. Len(R) |-> v[R[i]]], m)
    BY RepeatedMapped, SMTT(30)
  <2> QED
    BY <2>1
<1>2. IsSeq(all)
  BY RepeatedLength
<1>3. \A i \in 1 .. Len(all) : all[i] \in M
  BY <1>2, SeqDomain
<1>4. \A i \in 1 .. Len(R) : R[i] \in M
  BY SeqDomain
<1>5. RowsOf(flow, all) = [i \in 1 .. Len(all) |-> v[all[i]]]
  BY <1>3 DEF RowsOf
<1>6. RowsOf(flow, R) = w
  BY <1>4 DEF RowsOf
<1> QED
  BY <1>1, <1>5, <1>6

\* The bundles of one flow among those of all targets.
LEMMA TargetGiven ==
  ASSUME NEW ss, IsSeq(ss), \A i \in 1 .. Len(ss) : IsSeq(ss[i]), NEW M,
         NEW I \in SUBSET (1 .. Len(ss)), NEW D, IsSeq(D), \A i \in I : ss[i] = D,
         \A i \in 1 .. Len(ss) : i \notin I => ToSet(ss[i]) \cap M = {}
  PROVE  Picked(FlattenSeq(ss), M) = Repeated(Picked(D, M), Cardinality(I))
<1> DEFINE R == Picked(D, M)
<1>2. IsSeq(R)
  BY PickedCount
<1>3. ASSUME NEW i \in 1 .. Len(ss) PROVE Picked(ss[i], M) = IF i \in I THEN R ELSE <<>>
  <2>1. CASE i \in I
    BY <2>1
  <2>2. CASE i \notin I
    <3>1. IsSeq(ss[i]) /\ ToSet(ss[i]) \cap M = {}
      BY <2>2
    <3> QED
      BY <2>2, <3>1, PickedNone
  <2> QED
    BY <2>1, <2>2
<1> HIDE DEF R
<1>4. Picked(FlattenSeq(ss), M) = Repeated(R, Cardinality(I))
  BY <1>2, <1>3, PickedFlattened, Z3
<1> QED
  BY <1>4 DEF R

\* The calls of a step's flows give each flow that is bound the bundles it should be given
\* (dispatch_decode_port_bundles).
LEMMA FlowsServe ==
  ASSUME RegistryInv, BindingsOk(bindings), Carrying(bindings), IsSeq(rows),
         NEW c \in ToSet(plan), NEW k \in DOMAIN Flows[c], NEW flow, flow = Flows[c][k],
         Named(flow), PortsOnce(flow), IsBound(flow, bindings),
         NEW s, s = FlowCalls, Raises \notin ToSet(s),
         NEW M, \A x \in ToSet(s) : x \in M <=> IsBundle(x, c, k)
  PROVE  RowsOf(flow, Picked(s, M)) = Repeated(Wanted(flow, rows, step), Planned(plan, c))
<1> DEFINE all == FlowTargets
           due == Kept(all, {i \in DOMAIN all : Due(all[i].flow)})
           t == TargetOf(c, k)
           I == {i \in 1 .. Len(due) : due[i] = t}
           n == Cardinality(I)
           direct == [i \in DOMAIN due |-> DirectCalls(due[i])]
           framed == [i \in DOMAIN due |-> FrameCalls(due[i])]
           noFrames == FramesOf(bindings, Len(rows)) = <<>>
           frames == IF noFrames THEN <<>> ELSE FlattenSeq(framed)
           D == DirectCalls(t)
           F == FrameCalls(t)
           want == Wanted(flow, rows, step)
           p == Planned(plan, c)
<1>1. /\ IsSeq(due) /\ \A x \in ToSet(due) : Target(x)
      /\ n = IF Due(Flows[c][k]) THEN p ELSE 0
  BY DueCounted
<1>2. p \in Nat /\ n \in Nat
  <2>1. p \in Nat
    BY TargetsCounted
  <2> QED
    BY <1>1, <2>1
<1>3. s = FlattenSeq(direct) \o frames
  BY DEF FlowCalls
<1>4. t.to = c /\ t.k = k /\ t.flow = flow /\ Target(t)
  <2>1. IsSeq(plan) /\ c \in Consumers
    BY PlannedAreRegistered
  <2>2. Flows[c] \in Seq(FlowType)
    BY <2>1, ConsumerAssumption
  <2>3. Flows[c][k] \in FlowType
    BY <2>2
  <2> QED
    BY <2>1, <2>3 DEF Target, TargetOf
<1>0. I \in SUBSET (1 .. Len(due)) /\ \A i \in 1 .. Len(due) : i \in I <=> due[i] = t
  OBVIOUS
<1> HIDE DEF due, t, I
<1>5. Len(due) \in Nat /\ DOMAIN due = 1 .. Len(due) /\ \A i \in 1 .. Len(due) : Target(due[i])
  BY <1>1, SeqDomain
<1>6. /\ IsSeq(direct) /\ Len(direct) = Len(due)
      /\ \A i \in 1 .. Len(due) : direct[i] = DirectCalls(due[i])
  BY <1>5, Listed
<1>7. /\ IsSeq(framed) /\ Len(framed) = Len(due)
      /\ \A i \in 1 .. Len(due) : framed[i] = FrameCalls(due[i])
  BY <1>5, Listed
<1> HIDE DEF direct, framed
<1>8. ASSUME NEW i \in 1 .. Len(due)
      PROVE  /\ IsSeq(direct[i]) /\ \A x \in ToSet(direct[i]) : GivenTo(due[i], x)
             /\ IsSeq(framed[i]) /\ \A x \in ToSet(framed[i]) : GivenTo(due[i], x)
  BY <1>5, <1>6, <1>7, TargetDelivers
<1>9. /\ IsSeq(FlattenSeq(direct)) /\ IsSeq(FlattenSeq(framed))
      /\ \A i \in 1 .. Len(due) : ToSet(direct[i]) \subseteq ToSet(FlattenSeq(direct))
      /\ \A i \in 1 .. Len(due) : ToSet(framed[i]) \subseteq ToSet(FlattenSeq(framed))
  <2>1. IsSeq(direct) /\ \A i \in 1 .. Len(direct) : IsSeq(direct[i])
    BY <1>6, <1>8
  <2>2. IsSeq(framed) /\ \A i \in 1 .. Len(framed) : IsSeq(framed[i])
    BY <1>7, <1>8
  <2>3. /\ IsSeq(FlattenSeq(direct))
        /\ \A i \in 1 .. Len(direct) : ToSet(direct[i]) \subseteq ToSet(FlattenSeq(direct))
    BY <2>1, FlattenElements, FlattenHolds
  <2>4. /\ IsSeq(FlattenSeq(framed))
        /\ \A i \in 1 .. Len(framed) : ToSet(framed[i]) \subseteq ToSet(FlattenSeq(framed))
    BY <2>2, FlattenElements, FlattenHolds
  <2> QED
    BY <1>6, <1>7, <2>3, <2>4
<1>10. /\ IsSeq(frames) /\ ToSet(s) = ToSet(FlattenSeq(direct)) \cup ToSet(frames)
       /\ Picked(s, M) = Picked(FlattenSeq(direct), M) \o Picked(frames, M)
  <2>1. IsSeq(<<>>)
    BY DEF IsSeq, ToSet
  <2>2. IsSeq(frames)
    BY <1>9, <2>1
  <2> HIDE DEF frames
  <2> DEFINE u == FlattenSeq(direct)
  <2>3. IsSeq(u) /\ s = u \o frames
    BY <1>3, <1>9
  <2> HIDE DEF u
  <2>4. ToSet(s) = ToSet(u) \cup ToSet(frames)
    BY <2>2, <2>3, Joined
  <2>5. Picked(u \o frames, M) = Picked(u, M) \o Picked(frames, M)
    BY <2>2, <2>3, PickedJoined
  <2> QED
    BY <2>2, <2>3, <2>4, <2>5 DEF u
<1>11. ASSUME NEW i \in 1 .. Len(due), due[i] # t, NEW x, IsBundle(x, c, k)
       PROVE  ~GivenTo(due[i], x)
  <2>1. Target(due[i]) /\ x # Raises
    BY <1>5, <1>11 DEF IsBundle, Raises, Call
  <2>2. due[i].to # c \/ due[i].k # k
    BY <1>11, <2>1 DEF Target, TargetOf, t
  <2> QED
    BY <1>11, <2>1, <2>2 DEF GivenTo, IsBundle
<1>12. IsSeq(D) /\ IsSeq(F)
  BY <1>4, TargetDelivers
<1> HIDE DEF D, F
<1>13. Picked(FlattenSeq(direct), M) = Repeated(Picked(D, M), n)
  <2>1. \A i \in 1 .. Len(direct) : i \notin I => ToSet(direct[i]) \cap M = {}
    BY <1>0, <1>6, <1>8, <1>9, <1>10, <1>11
  <2>2. (\A i \in 1 .. Len(direct) : IsSeq(direct[i])) /\ \A i \in I : direct[i] = D
    BY <1>0, <1>6, <1>8 DEF D
  <2>3. IsSeq(direct) /\ IsSeq(D) /\ I \in SUBSET (1 .. Len(direct))
    BY <1>0, <1>6, <1>12
  <2> QED
    BY <2>1, <2>2, <2>3, TargetGiven, Z3
<1>14. Picked(frames, M) = IF noFrames THEN <<>> ELSE Repeated(Picked(F, M), n)
  <2>1. CASE noFrames
    <3>1. frames = <<>> /\ IsSeq(<<>>) /\ ToSet(<<>>) \cap M = {}
      BY <2>1 DEF IsSeq, ToSet
    <3>2. Picked(<<>>, M) = <<>>
      BY <3>1, PickedNone
    <3> QED
      BY <2>1, <3>1, <3>2
  <2>2. CASE ~noFrames
    <3>1. frames = FlattenSeq(framed)
      BY <2>2
    <3>2. \A i \in 1 .. Len(framed) : i \notin I => ToSet(framed[i]) \cap M = {}
      BY <1>0, <1>7, <1>8, <1>9, <1>10, <1>11, <3>1
    <3>3. (\A i \in 1 .. Len(framed) : IsSeq(framed[i])) /\ \A i \in I : framed[i] = F
      BY <1>0, <1>7, <1>8 DEF F
    <3>4. IsSeq(framed) /\ IsSeq(F) /\ I \in SUBSET (1 .. Len(framed))
      BY <1>0, <1>7, <1>12
    <3>5. Picked(FlattenSeq(framed), M) = Repeated(Picked(F, M), n)
      BY <3>2, <3>3, <3>4, TargetGiven, Z3
    <3> QED
      BY <2>2, <3>1, <3>5
  <2> QED
    BY <2>1, <2>2
<1> HIDE DEF direct, framed, want, p, n
<1>15. CASE ~Due(flow)
  <2>1. n = 0 /\ want = <<>>
    BY <1>1, <1>15 DEF want, Wanted, Due
  <2>2. Picked(s, M) = <<>>
    <3>1. Picked(FlattenSeq(direct), M) = <<>> /\ Picked(frames, M) = <<>>
      BY <1>13, <1>14, <2>1, RepeatedNone
    <3>2. <<>> \o <<>> = <<>>
      OBVIOUS
    <3> QED
      BY <1>10, <3>1, <3>2
  <2>3. RowsOf(flow, <<>>) = <<>>
    BY DEF RowsOf
  <2> QED
    BY <1>2, <2>1, <2>2, <2>3, RepeatedNothing DEF want, p
<1>16. CASE Due(flow)
  <2>1. n = p
    BY <1>1, <1>16
  <2>2. CASE n = 0
    <3>1. Picked(FlattenSeq(direct), M) = <<>> /\ Picked(frames, M) = <<>>
      BY <1>13, <1>14, <2>2, RepeatedNone
    <3>2. <<>> \o <<>> = <<>> /\ RowsOf(flow, <<>>) = <<>>
      BY DEF RowsOf
    <3>3. Picked(s, M) = <<>>
      BY <1>10, <3>1, <3>2
    <3> QED
      BY <2>1, <2>2, <3>2, <3>3, RepeatedNone DEF want, p
  <2>3. CASE n # 0
    <3>1. PICK i \in 1 .. Len(due) : due[i] = t
      <4>1. I # {}
        BY <2>3, FS_EmptySet DEF n
      <4> QED
        BY <1>0, <4>1
    <3>2. ToSet(D) \subseteq ToSet(s) /\ (~noFrames => ToSet(F) \subseteq ToSet(s))
      <4>1. ToSet(D) \subseteq ToSet(FlattenSeq(direct)) /\ ToSet(F) \subseteq ToSet(FlattenSeq(framed))
        BY <1>6, <1>7, <1>9, <3>1 DEF D, F
      <4> QED
        BY <1>10, <4>1
    <3> DEFINE G == IF Declines(flow) /\ ~noFrames THEN F ELSE D
               R == Picked(G, M)
    <3>3. IsSeq(R) /\ ToSet(R) \subseteq M
      BY <1>12, PickedCount
    <3>4. IsSeq(Repeated(R, n)) /\ Repeated(<<>>, n) = <<>>
      BY <1>2, <3>3, RepeatedLength, RepeatedNothing
    <3>5. D = <<>> \/ ~Declines(flow)
      BY <1>4 DEF D, DirectCalls
    <3>6. F = <<>> \/ Declines(flow)
      BY <1>4 DEF F, FrameCalls
    <3>7. Picked(<<>>, M) = <<>>
      <4>1. IsSeq(<<>>) /\ ToSet(<<>>) \cap M = {}
        BY DEF IsSeq, ToSet
      <4> QED
        BY <4>1, PickedNone
    <3>8. Picked(s, M) = Repeated(R, n)
      <4>1. Picked(s, M) = Repeated(Picked(D, M), n)
                             \o (IF noFrames THEN <<>> ELSE Repeated(Picked(F, M), n))
        BY <1>10, <1>13, <1>14
      <4>2. Repeated(R, n) \o <<>> = Repeated(R, n) /\ <<>> \o Repeated(R, n) = Repeated(R, n)
        BY <3>4 DEF IsSeq
      <4>3. CASE Declines(flow) /\ ~noFrames
        BY <3>4, <3>5, <3>7, <4>1, <4>2, <4>3
      <4>4. CASE ~(Declines(flow) /\ ~noFrames)
        <5>1. Picked(s, M) = Repeated(R, n) \o <<>>
          BY <3>4, <3>6, <3>7, <4>1, <4>4
        <5> QED
          BY <4>2, <5>1
      <4> QED
        BY <4>3, <4>4
    <3>9. ToSet(Repeated(R, n)) \subseteq M
      <4>1. IsSeq(s)
        BY FlowsDeliver
      <4>2. ToSet(Picked(s, M)) \subseteq M
        BY <4>1, PickedCount
      <4> QED
        BY <3>8, <4>2
    <3>10. RowsOf(flow, R) = want
      <4>1. CASE ~Declines(flow)
        <5>1. R = Picked(D, M) /\ D = DirectCalls(t) /\ Raises \notin ToSet(D)
          BY <3>2, <4>1 DEF D
        <5>2. \A x \in ToSet(D) : x \in M <=> IsBundle(x, t.to, t.k)
          BY <1>4, <3>2
        <5> QED
          BY <1>4, <1>16, <4>1, <5>1, <5>2, DirectServes DEF want
      <4>2. CASE Declines(flow) /\ ~noFrames
        <5>1. R = Picked(F, M) /\ F = FrameCalls(t)
          BY <4>2 DEF F
        <5>2. \A x \in ToSet(F) : x \in M <=> IsBundle(x, t.to, t.k)
          BY <1>4, <3>2, <4>2
        <5>3. rows # <<>>
          BY <4>2, FramesOfRows
        <5> QED
          BY <1>4, <1>16, <4>2, <5>1, <5>2, <5>3, FramesServeFlow DEF want
      <4>3. CASE Declines(flow) /\ noFrames
        <5>1. Len(rows) = 0
          BY <4>3, SeqDomain, FramesOfRows
        <5>2. want = <<>>
          BY <5>1 DEF want, Wanted
        <5>3. R = <<>>
          BY <3>5, <3>7, <4>3
        <5>4. RowsOf(flow, <<>>) = <<>>
          BY DEF RowsOf
        <5> HIDE DEF R, want
        <5> QED
          BY <5>2, <5>3, <5>4
      <4> QED
        BY <4>1, <4>2, <4>3
    <3> HIDE DEF R
    <3>11. RowsOf(flow, Repeated(R, n)) = Repeated(RowsOf(flow, R), n)
      BY <1>2, <3>3, <3>9, RowsRepeated
    <3> QED
      BY <2>1, <3>8, <3>10, <3>11 DEF want, p
  <2> QED
    BY <2>2, <2>3
<1> QED
  BY <1>15, <1>16

\* A model that has its hooks has a binding that carries the metadata, and has them in
\* every step from the preparation of its inputs.
CarryInv ==
  /\ installed => Carrying(bindings)
  /\ phase \in {"preparing", "prepared", "forwarded", "ended"} => installed

\* Only Setup binds.
LEMMA SetupOrNot ==
  ASSUME Next PROVE Setup \/ UNCHANGED setupVars
<1>1. ASSUME NEW reg, NEW rt, Refresh(reg, rt) PROVE UNCHANGED setupVars
  BY <1>1 DEF Refresh
<1>2. ASSUME NEW c \in Consumers, Register(c) \/ ReplaceConsumers(c) PROVE UNCHANGED setupVars
  BY <1>1, <1>2 DEF Register, ReplaceConsumers
<1>3. ASSUME NEW c \in Consumers \cup {None}, SetRuntimeConsumer(c) PROVE UNCHANGED setupVars
  BY <1>1, <1>3 DEF SetRuntimeConsumer
<1>4. CASE Clear
  BY <1>1, <1>4 DEF Clear
<1>5. CASE Loaded \/ PrepareInputs
  BY <1>5 DEF Loaded, PrepareInputs
<1>6. CASE Load \/ SetupFails \/ ExecuteModel \/ EndStep \/ Synchronize \/ CallbackRaises \/ Callback
  BY <1>6 DEF Load, SetupFails, ExecuteModel, EndStep, Synchronize, CallbackRaises, Callback
<1>7. ASSUME NEW batch \in Batches, Prepared(batch) PROVE UNCHANGED setupVars
  BY <1>7 DEF Prepared
<1>8. ASSUME NEW python \in BOOLEAN, Forward(python) PROVE UNCHANGED setupVars
  BY <1>8 DEF Forward
<1> QED
  BY <1>2, <1>3, <1>4, <1>5, <1>6, <1>7, <1>8 DEF Next, HostStep

\* Hooks that are installed carry the metadata (build_resolved_bindings).
LEMMA SetupCarries ==
  ASSUME PathOf["source"] # PathOf["target"], CarryInv, Setup
  PROVE  installed' /\ Carrying(bindings')
<1>1. installed' = TRUE /\ bindings' = IF installed THEN bindings ELSE BindingsFor(Required)
  BY DEF Setup
<1>2. CASE installed
  BY <1>1, <1>2 DEF CarryInv
<1>3. CASE ~installed
  <2>1. Required \subseteq Layers
    BY <1>3 DEF Setup, SetupRaises
  <2> DEFINE r == Required
  <2> HIDE DEF r
  <2>2. Carrying(BindingsFor(r))
    BY <2>1, BindingsCarry DEF r
  <2> QED
    BY <1>1, <1>3, <2>2 DEF r
<1> QED
  BY <1>2, <1>3

LEMMA CarryInvStep ==
  ASSUME PathOf["source"] # PathOf["target"], DispatchInv, CarryInv, [Next]_vars
  PROVE  CarryInv'
<1>1. ASSUME installed' PROVE Carrying(bindings')
  <2>1. CASE Setup
    BY <2>1, SetupCarries
  <2>2. CASE UNCHANGED setupVars
    BY <1>1, <2>2 DEF setupVars, CarryInv
  <2>3. UNCHANGED vars => UNCHANGED setupVars
    BY DEF vars
  <2> QED
    BY <2>1, <2>2, <2>3, SetupOrNot
<1>2. ASSUME phase' \in {"preparing", "prepared", "forwarded", "ended"} PROVE installed'
  <2>1. CASE PrepareInputs
    BY <2>1, SetupCarries DEF PrepareInputs
  <2>2. CASE ExecuteModel
    BY <1>2, <2>2 DEF ExecuteModel
  <2>3. ASSUME NEW batch \in Batches, Prepared(batch) PROVE installed'
    BY <2>3 DEF Prepared, setupVars, CarryInv
  <2>4. ASSUME NEW python \in BOOLEAN, Forward(python) PROVE installed'
    BY <2>4 DEF Forward, setupVars, CarryInv
  <2>5. CASE EndStep
    BY <2>5 DEF EndStep, setupVars, CarryInv
  <2>6. CASE UNCHANGED <<setupVars, phase>>
    BY <1>2, <2>6 DEF setupVars, CarryInv
  <2>7. Callback \/ UNCHANGED vars => UNCHANGED <<setupVars, phase>>
    BY DEF Callback, vars
  <2>8. phase' \in InStep
    BY <1>2 DEF InStep
  <2> QED
    BY <2>1, <2>2, <2>3, <2>4, <2>5, <2>6, <2>7, <2>8, HostCases DEF Next
<1> QED
  BY <1>1, <1>2 DEF CarryInv, Carrying

\* The bundles among these callbacks are those of a step over these rows.
NoBundles(s) == \A x \in ToSet(s) : x.what # "consume_bundle"

ServedIn(s, pl, rws, stp, bs) ==
  \A c \in ToSet(pl) : \A k \in DOMAIN Flows[c] :
    IsBound(Flows[c][k], bs) =>
      \A M : (\A x \in ToSet(s) : x \in M <=> IsBundle(x, c, k)) =>
               RowsOf(Flows[c][k], Picked(s, M))
                 = Repeated(Wanted(Flows[c][k], rws, stp), Planned(pl, c))

\* No bundle is given before the end of a step; at its end each flow is given its own,
\* unless one that is refused is still to raise.
ServeInv ==
  /\ phase \in {"entered", "preparing", "prepared", "forwarded"} => NoBundles(log \o calls)
  /\ phase = "ended" =>
       Raises \in ToSet(calls) \/ ServedIn(log \o calls, plan, rows, step, bindings)

\* What picks the same bundles serves the same.
LEMMA ServedStays ==
  ASSUME NEW s, NEW t, IsSeq(t), NEW pl, NEW rws, NEW stp, NEW bs,
         ServedIn(s, pl, rws, stp, bs),
         \A x \in ToSet(t) : x.what = "consume_bundle" => x \in ToSet(s),
         \A M : (\A x \in M : x.what # "synchronize") => Picked(t, M) = Picked(s, M)
  PROVE  ServedIn(t, pl, rws, stp, bs)
<1> SUFFICES ASSUME NEW c \in ToSet(pl), NEW k \in DOMAIN Flows[c], IsBound(Flows[c][k], bs),
                    NEW M, \A x \in ToSet(t) : x \in M <=> IsBundle(x, c, k)
             PROVE  RowsOf(Flows[c][k], Picked(t, M))
                      = Repeated(Wanted(Flows[c][k], rws, stp), Planned(pl, c))
  BY DEF ServedIn
<1> DEFINE N == {x \in ToSet(s) : IsBundle(x, c, k)}
<1>1. \A x \in N : x.what # "synchronize"
  BY DEF IsBundle
<1>2. \A x \in ToSet(s) : x \in N <=> IsBundle(x, c, k)
  OBVIOUS
<1>3. \A x \in ToSet(t) : x \in M <=> x \in N
  BY DEF IsBundle
<1> HIDE DEF N
<1>4. Picked(t, M) = Picked(t, N)
  BY <1>3, PickedAs
<1>5. Picked(t, N) = Picked(s, N)
  BY <1>1
<1>6. RowsOf(Flows[c][k], Picked(s, N))
        = Repeated(Wanted(Flows[c][k], rws, stp), Planned(pl, c))
  BY <1>2 DEF ServedIn
<1> QED
  BY <1>4, <1>5, <1>6

\* What leaves the callbacks as they are, but for synchronizations, leaves the invariant.
LEMMA ServeInvStays ==
  ASSUME ServeInv, CallsInv, UNCHANGED <<planVars, setupVars, step, rows, phase>>,
         IsSeq(log'), IsSeq(calls'), Raises \in ToSet(calls) => Raises \in ToSet(calls'),
         \A x \in ToSet(log' \o calls') : x \in ToSet(log \o calls) \/ x.what = "synchronize",
         \A M : (\A x \in M : x.what # "synchronize") =>
                  Picked(log' \o calls', M) = Picked(log \o calls, M)
  PROVE  ServeInv'
<1> DEFINE s == log \o calls
           t == log' \o calls'
<1>1. /\ plan' = plan /\ rows' = rows /\ step' = step /\ phase' = phase /\ bindings' = bindings
  BY DEF planVars, setupVars
<1>2. IsSeq(t)
  BY Joined
<1>3. NoBundles(s) => NoBundles(t)
  BY DEF NoBundles
<1>4. \A x \in ToSet(t) : x.what = "consume_bundle" => x \in ToSet(s)
  OBVIOUS
<1>5. \A M : (\A x \in M : x.what # "synchronize") => Picked(t, M) = Picked(s, M)
  OBVIOUS
<1>6. ServeInv => /\ phase \in {"entered", "preparing", "prepared", "forwarded"} => NoBundles(s)
                  /\ phase = "ended" =>
                       Raises \in ToSet(calls) \/ ServedIn(s, plan, rows, step, bindings)
  BY DEF ServeInv
<1> HIDE DEF s, t
<1>7. ServedIn(s, plan, rows, step, bindings) => ServedIn(t, plan, rows, step, bindings)
  BY <1>2, <1>4, <1>5, ServedStays
<1>8. /\ phase' \in {"entered", "preparing", "prepared", "forwarded"} => NoBundles(t)
      /\ phase' = "ended" =>
           Raises \in ToSet(calls') \/ ServedIn(t, plan', rows', step', bindings')
  BY <1>1, <1>3, <1>6, <1>7
<1> QED
  BY <1>8 DEF ServeInv, t, NoBundles, ServedIn, IsBound, IsBundle, RowsOf, EntryRows, Wanted, Planned,
              Raises, Call

LEMMA NoBundlesJoined ==
  ASSUME NEW s, IsSeq(s), NoBundles(s), NEW t, IsSeq(t), NoBundles(t)
  PROVE  IsSeq(s \o t) /\ NoBundles(s \o t)
BY Joined DEF NoBundles

\* No event is a bundle.
LEMMA EventNoBundles ==
  ASSUME RegistryInv, NEW event, event # "consume_bundle", NEW ph, NEW path, NEW capture, NEW entries,
         NEW s, s = EventCalls(event, ph, path, capture, entries)
  PROVE  IsSeq(s) /\ NoBundles(s)
<1>1. IsSeq(s) /\ \A x \in ToSet(s) : \E c \in ToSet(plan) : x = Call(c, event, path, 0, entries)
  BY EventCallsAre
<1> QED
  BY <1>1 DEF NoBundles, Call

LEMMA FlattenNoBundles ==
  ASSUME NEW ss, IsSeq(ss), \A i \in 1 .. Len(ss) : IsSeq(ss[i]) /\ NoBundles(ss[i])
  PROVE  IsSeq(FlattenSeq(ss)) /\ NoBundles(FlattenSeq(ss))
<1>1. /\ IsSeq(FlattenSeq(ss))
      /\ \A x \in ToSet(FlattenSeq(ss)) : \E i \in 1 .. Len(ss) : x \in ToSet(ss[i])
  BY FlattenElements
<1> QED
  BY <1>1 DEF NoBundles

\* The forward gives no bundle, nor do the batches that follow a replayed one.
LEMMA LayersNoBundles ==
  ASSUME RegistryInv
  PROVE  /\ IsSeq(Deferred) /\ NoBundles(Deferred)
         /\ LET s == FlattenSeq([i \in DOMAIN TappedPaths |-> LayerCalls(TappedPaths[i])])
            IN  IsSeq(s) /\ NoBundles(s)
<1>1. IsSeq(<<>>) /\ NoBundles(<<>>)
  BY DEF IsSeq, ToSet, NoBundles
<1>2. ASSUME NEW path PROVE IsSeq(LayerCalls(path)) /\ NoBundles(LayerCalls(path))
  <2> DEFINE a == EventCalls("layer.pre", "decode", path, fromHooks, NoEntries)
             b == EventCalls("layer.post", "decode", path, fromHooks, HiddenBatch(path))
             c == EventCalls("block.end", "decode", path, fromHooks, NoEntries)
             d == EventCalls("stack.end", "decode", path, fromHooks, NoEntries)
             e == IF path = BoundPath("target") THEN d ELSE <<>>
  <2>1. /\ IsSeq(a) /\ NoBundles(a) /\ IsSeq(b) /\ NoBundles(b)
        /\ IsSeq(c) /\ NoBundles(c) /\ IsSeq(d) /\ NoBundles(d)
    BY EventNoBundles
  <2>2. LayerCalls(path) = a \o b \o c \o e
    BY DEF LayerCalls
  <2> HIDE DEF a, b, c, d
  <2>3. IsSeq(e) /\ NoBundles(e)
    BY <1>1, <2>1
  <2> HIDE DEF e
  <2>4. IsSeq(a \o b) /\ NoBundles(a \o b)
    BY <2>1, NoBundlesJoined
  <2>5. IsSeq(a \o b \o c) /\ NoBundles(a \o b \o c)
    BY <2>1, <2>4, NoBundlesJoined
  <2> QED
    BY <2>2, <2>3, <2>5, NoBundlesJoined
<1>3. IsSeq(Deferred) /\ NoBundles(Deferred)
  <2> DEFINE paths == IF fromHooks \/ rows = <<>> THEN <<>> ELSE TappedPaths
             of(path) == EventCalls("layer.post", "decode", path, FALSE, HiddenBatch(path))
             ss == [i \in DOMAIN paths |-> of(paths[i])]
  <2>1. Deferred = FlattenSeq(ss)
    BY DEF Deferred
  <2>2. IsSeq(paths)
    BY <1>1, TappedPathsAreSeq
  <2>3. \A path : IsSeq(of(path)) /\ NoBundles(of(path))
    BY EventNoBundles
  <2> HIDE DEF paths, of
  <2>4. Len(paths) \in Nat /\ DOMAIN paths = 1 .. Len(paths)
    BY <2>2, SeqDomain
  <2>5. IsSeq(ss) /\ Len(ss) = Len(paths) /\ \A i \in 1 .. Len(paths) : ss[i] = of(paths[i])
    BY <2>4, Listed
  <2> HIDE DEF ss
  <2>6. \A i \in 1 .. Len(ss) : IsSeq(ss[i]) /\ NoBundles(ss[i])
    BY <2>3, <2>5
  <2> QED
    BY <2>1, <2>5, <2>6, FlattenNoBundles
<1> DEFINE ss == [i \in DOMAIN TappedPaths |-> LayerCalls(TappedPaths[i])]
<1>4. Len(TappedPaths) \in Nat /\ DOMAIN TappedPaths = 1 .. Len(TappedPaths)
  BY TappedPathsAreSeq, SeqDomain
<1>5. /\ IsSeq(ss) /\ Len(ss) = Len(TappedPaths)
      /\ \A i \in 1 .. Len(TappedPaths) : ss[i] = LayerCalls(TappedPaths[i])
  BY <1>4, Listed
<1> HIDE DEF ss
<1>6. IsSeq(FlattenSeq(ss)) /\ NoBundles(FlattenSeq(ss))
  BY <1>2, <1>5, FlattenNoBundles
<1> QED
  BY <1>3, <1>6 DEF ss

\* No flow reads a port twice.
ReadPortsOnce == \A c \in Consumers : \A k \in DOMAIN Flows[c] : PortsOnce(Flows[c][k])

\* At its end a step has given its flows what they should be given.
LEMMA EndServes ==
  ASSUME RegistryInv, BindingsOk(bindings), Carrying(bindings), IsSeq(rows),
         NamedReads, ReadPortsOnce, NEW s, IsSeq(s), NoBundles(s), Raises \notin ToSet(FlowCalls),
         NEW end, end = FlowCalls \o Deferred \o StepEvent("execute_model.post", fromHooks)
  PROVE  ServedIn(s \o end, plan, rows, step, bindings)
<1> DEFINE a == FlowCalls
           b == Deferred
           d == StepEvent("execute_model.post", fromHooks)
           u == s \o end
<1>1. IsSeq(a)
  BY FlowsDeliver
<1>2. IsSeq(b) /\ NoBundles(b) /\ IsSeq(d) /\ NoBundles(d)
  BY LayersNoBundles, EventNoBundles DEF StepEvent
<1>3. end = (a \o b) \o d /\ Raises \notin ToSet(a)
  OBVIOUS
<1> SUFFICES ASSUME NEW c \in ToSet(plan), NEW k \in DOMAIN Flows[c],
                    IsBound(Flows[c][k], bindings),
                    NEW M, \A x \in ToSet(u) : x \in M <=> IsBundle(x, c, k)
             PROVE  RowsOf(Flows[c][k], Picked(u, M))
                      = Repeated(Wanted(Flows[c][k], rows, step), Planned(plan, c))
  BY DEF ServedIn
<1> DEFINE N == {x \in ToSet(a) : IsBundle(x, c, k)}
<1>4. RowsOf(Flows[c][k], Picked(a, N))
        = Repeated(Wanted(Flows[c][k], rows, step), Planned(plan, c))
  <2> DEFINE flow == Flows[c][k]
  <2>1. Named(flow) /\ PortsOnce(flow) /\ IsBound(flow, bindings)
    <3>1. c \in Consumers
      BY PlannedAreRegistered
    <3> QED
      BY <3>1 DEF NamedReads, ReadPortsOnce
  <2>2. flow = Flows[c][k] /\ a = FlowCalls /\ \A x \in ToSet(a) : x \in N <=> IsBundle(x, c, k)
    OBVIOUS
  <2> HIDE DEF flow, N, a
  <2>3. RowsOf(flow, Picked(a, N)) = Repeated(Wanted(flow, rows, step), Planned(plan, c))
    BY <1>3, <2>1, <2>2, FlowsServe
  <2> QED
    BY <2>2, <2>3
<1>5. \A x \in N : x \in ToSet(a) /\ x.what = "consume_bundle" /\ IsBundle(x, c, k)
  BY DEF IsBundle
<1>6. \A x \in ToSet(a) : IsBundle(x, c, k) => x \in N
  OBVIOUS
<1> HIDE DEF N, a, b, d
<1>7. /\ IsSeq(s \o ((a \o b) \o d))
      /\ ToSet(s \o ((a \o b) \o d)) = ToSet(s) \cup ((ToSet(a) \cup ToSet(b)) \cup ToSet(d))
  BY <1>1, <1>2, FourHold
<1>8. IsSeq(u) /\ ToSet(u) = ToSet(s) \cup ((ToSet(a) \cup ToSet(b)) \cup ToSet(d))
  BY <1>3, <1>7
<1>9. Picked(u, M) = Picked(u, N)
  <2>1. \A x \in ToSet(u) : x \in M <=> x \in N
    BY <1>2, <1>5, <1>6, <1>8 DEF NoBundles, IsBundle
  <2> HIDE DEF u
  <2> QED
    BY <1>8, <2>1, PickedAs
<1>10. Picked(u, N) = Picked(a, N)
  <2>1. ToSet(s) \cap N = {} /\ ToSet(b) \cap N = {} /\ ToSet(d) \cap N = {}
    BY <1>2, <1>5 DEF NoBundles
  <2>2. Picked(s \o ((a \o b) \o d), N) = Picked(a, N)
    BY <1>1, <1>2, <2>1, PickedAmong
  <2> QED
    BY <1>3, <2>2 DEF u
<1> QED
  BY <1>4, <1>9, <1>10 DEF u

LEMMA ServeInvStep ==
  ASSUME NamedReads, ReadPortsOnce, DispatchInv, CallsInv, CarryInv, ServeInv, [Next]_vars
  PROVE  ServeInv'
<1>1. IsSeq(log) /\ IsSeq(calls) /\ RegistryInv /\ BindingsOk(bindings) /\ IsSeq(rows)
  BY DEF DispatchInv, CallsInv
<1>2. IsSeq(<<>>) /\ NoBundles(<<>>)
  BY DEF IsSeq, ToSet, NoBundles
<1>3. calls = <<>> => log \o calls = log
  BY <1>1 DEF IsSeq
<1>4. CASE phase' \notin InStep
  BY <1>4 DEF ServeInv, InStep
<1>5. ASSUME NEW s, IsSeq(s), NoBundles(s), NEW t, IsSeq(t), NoBundles(t),
             log' = s, calls' = t, phase' # "ended"
      PROVE  ServeInv'
  <2>1. NoBundles(s \o t)
    BY <1>5, NoBundlesJoined
  <2>2. NoBundles(log' \o calls')
    BY <1>5, <2>1
  <2> QED
    BY <1>5, <2>2 DEF ServeInv, NoBundles
<1>6. CASE ExecuteModel
  <2>1. /\ log' = <<>> /\ calls' = StepEvent("execute_model.pre", fromHooks) /\ phase' = "entered"
    BY <1>6 DEF ExecuteModel
  <2>2. IsSeq(calls') /\ NoBundles(calls')
    BY <1>1, <2>1, EventNoBundles DEF StepEvent
  <2> QED
    BY <1>2, <1>5, <2>1, <2>2
<1>7. CASE PrepareInputs
  <2>1. /\ calls = <<>> /\ phase = "entered" /\ log' = log /\ phase' = "preparing"
        /\ calls' = StepEvent("prepare_inputs.pre", fromHooks')
    BY <1>7 DEF PrepareInputs, Returned
  <2>2. IsSeq(calls') /\ NoBundles(calls')
    BY <1>1, <2>1, EventNoBundles DEF StepEvent
  <2>3. NoBundles(log)
    BY <1>3, <2>1 DEF ServeInv
  <2> QED
    BY <1>1, <1>5, <2>1, <2>2, <2>3
<1>8. ASSUME NEW batch \in Batches, Prepared(batch) PROVE ServeInv'
  <2>1. /\ calls = <<>> /\ phase = "preparing" /\ log' = log /\ phase' = "prepared"
        /\ calls' = StepEvent("prepare_inputs.post", fromHooks)
    BY <1>8 DEF Prepared, Returned
  <2>2. IsSeq(calls') /\ NoBundles(calls')
    BY <1>1, <2>1, EventNoBundles DEF StepEvent
  <2>3. NoBundles(log)
    BY <1>3, <2>1 DEF ServeInv
  <2> QED
    BY <1>1, <1>5, <2>1, <2>2, <2>3
<1>9. ASSUME NEW python \in BOOLEAN, Forward(python) PROVE ServeInv'
  <2> DEFINE made == FlattenSeq([i \in DOMAIN TappedPaths |-> LayerCalls(TappedPaths[i])])
  <2>1. /\ calls = <<>> /\ phase = "prepared" /\ log' = log /\ phase' = "forwarded"
        /\ calls' = IF python THEN made ELSE <<>>
    BY <1>9 DEF Forward, Returned
  <2>2. IsSeq(made) /\ NoBundles(made)
    BY <1>1, LayersNoBundles
  <2>3. NoBundles(log)
    BY <1>3, <2>1 DEF ServeInv
  <2> HIDE DEF made
  <2>4. IsSeq(calls') /\ NoBundles(calls')
    BY <1>2, <2>1, <2>2
  <2> QED
    BY <1>1, <1>5, <2>1, <2>3, <2>4
<1>10. CASE EndStep
  <2> DEFINE a == FlowCalls
             b == Deferred
             d == StepEvent("execute_model.post", fromHooks)
             end == (a \o b) \o d
  <2>1. /\ calls = <<>> /\ phase = "forwarded" /\ log' = log /\ phase' = "ended"
        /\ calls' = end /\ plan' = plan /\ rows' = rows /\ step' = step /\ bindings' = bindings
    BY <1>10 DEF EndStep, setupVars, planVars, Returned
  <2>2. NoBundles(log) /\ Carrying(bindings)
    BY <1>3, <2>1 DEF ServeInv, CarryInv
  <2>3. IsSeq(a) /\ IsSeq(b) /\ IsSeq(d)
    BY <1>1, FlowsDeliver, LayersNoBundles, EventNoBundles DEF StepEvent
  <2>4. Raises \notin ToSet(a) => ServedIn(log \o end, plan, rows, step, bindings)
    BY <1>1, <2>2, EndServes
  <2> HIDE DEF a, b, d
  <2>5. ToSet(a) \subseteq ToSet(end)
    <3> DEFINE ab == a \o b
    <3>1. IsSeq(ab) /\ ToSet(a) \subseteq ToSet(ab)
      BY <2>3, Joined
    <3> HIDE DEF ab
    <3>2. ToSet(ab) \subseteq ToSet(ab \o d)
      BY <2>3, <3>1, Joined
    <3> QED
      BY <3>1, <3>2 DEF ab
  <2> HIDE DEF end
  <2>6. Raises \in ToSet(calls') \/ ServedIn(log' \o calls', plan', rows', step', bindings')
    BY <2>1, <2>4, <2>5
  <2> QED
    BY <2>1, <2>6 DEF ServeInv, NoBundles, ServedIn, IsBound, IsBundle, RowsOf, EntryRows, Wanted,
                      Planned, Raises, Call
<1>11. CASE Synchronized /\ UNCHANGED <<planVars, setupVars, fromHooks, step, rows, phase>>
  <2>1. /\ IsSeq(log') /\ IsSeq(calls')
        /\ \A x \in ToSet(log' \o calls') : x \in ToSet(log \o calls) \/ x.what = "synchronize"
        /\ \A M : (\A x \in M : x.what # "synchronize") =>
                    Picked(log' \o calls', M) = Picked(log \o calls, M)
    BY <1>11, SynchronizeAdds
  <2>2. Raises \notin ToSet(calls)
    <3>1. calls = <<>> /\ ToSet(<<>>) = {}
      BY <1>11 DEF Synchronized, ToSet
    <3> QED
      BY <3>1
  <2>3. UNCHANGED <<planVars, setupVars, step, rows, phase>>
    BY <1>11
  <2> QED
    BY <2>1, <2>2, <2>3, ServeInvStays
<1>12. CASE Callback
  <2>1. /\ IsSeq(log') /\ IsSeq(calls') /\ ToSet(log' \o calls') \subseteq ToSet(log \o calls)
        /\ \A M : (\A x \in M : x.what # "synchronize") =>
                    Picked(log' \o calls', M) = Picked(log \o calls, M)
    BY <1>12, CallbackMoves
  <2>2. Raises \in ToSet(calls) => Raises \in ToSet(calls')
    <3>1. calls # <<>> /\ Head(calls) # Raises /\ calls' = Tail(calls)
      BY <1>12 DEF Callback, Returned
    <3> DEFINE h == Head(calls)
               rest == Tail(calls)
    <3>2. IsSeq(rest) /\ calls = <<h>> \o rest
      BY <1>1, <3>1, FirstAndRest
    <3>3. IsSeq(<<h>>) /\ ToSet(<<h>>) = {h} /\ h # Raises /\ calls' = rest
      BY <3>1 DEF IsSeq, ToSet
    <3> HIDE DEF h, rest
    <3> DEFINE one == <<h>>
    <3> HIDE DEF one
    <3>4. ToSet(one \o rest) = ToSet(one) \cup ToSet(rest)
      BY <3>2, <3>3, Joined DEF one
    <3> QED
      BY <3>2, <3>3, <3>4 DEF one
  <2>3. UNCHANGED <<planVars, setupVars, step, rows, phase>>
    BY <1>12 DEF Callback
  <2> QED
    BY <2>1, <2>2, <2>3, ServeInvStays
<1>13. CASE UNCHANGED vars
  <2>1. log' = log /\ calls' = calls /\ UNCHANGED <<planVars, setupVars, step, rows, phase>>
    BY <1>13 DEF vars
  <2> QED
    BY <1>1, <2>1, ServeInvStays
<1> QED
  BY <1>4, <1>6, <1>7, <1>8, <1>9, <1>10, <1>11, <1>12, <1>13, HostCases DEF Next

\* What is bound by the locators of its reads is bound in the model.
LEMMA BoundIsBound ==
  ASSUME NEW flow, IsSeq(bindings), Bound(flow) PROVE IsBound(flow, bindings)
<1> SUFFICES ASSUME NEW k \in DOMAIN flow.reads, flow.reads[k].src # "meta",
                    \A i \in 1 .. Len(bindings) : bindings[i].src # flow.reads[k].src
             PROVE  FALSE
  BY DEF IsBound
<1> DEFINE src == flow.reads[k].src
<1>1. DOMAIN bindings = 1 .. Len(bindings)
  BY SeqDomain
<1>2. {i \in DOMAIN bindings : bindings[i].src = src} = {}
  BY <1>1
<1>3. BoundPath(src) = ""
  BY <1>2 DEF BoundPath
<1> QED
  BY <1>3 DEF Bound, Missing

\* A step that ends has given every flow it planned and whose reads are bound the bundles
\* it should have been given, once for each time its consumer was registered, whether they
\* were put together directly or of frames, when the locators are at two layers, the reads
\* of a flow have different names and no flow reads a port twice
\* (dispatch_decode_port_bundles, build_step_scope_port_bundle, BundleAssembler).
THEOREM DueFlowsAreServed ==
  ASSUME NamedReads, ReadPortsOnce, PathOf["source"] # PathOf["target"]
  PROVE  Spec => []ServesDueFlows
<1>1. Init => CarryInv /\ ServeInv
  BY DEF Init, CarryInv, ServeInv
<1>2. DispatchInv /\ CallsInv /\ ServeInv => ServesDueFlows
  <2> SUFFICES ASSUME DispatchInv, CallsInv, ServeInv, Ended,
                      NEW i \in DOMAIN plan, NEW k \in DOMAIN Flows[plan[i]],
                      Bound(Flows[plan[i]][k])
               PROVE  LET c    == plan[i]
                          flow == Flows[c][k]
                          got  == Kept(log, {n \in DOMAIN log :
                                     /\ log[n].to = c /\ log[n].what = "consume_bundle"
                                     /\ log[n].k = k})
                          rowsIn(x) == LET e == x.entries[flow.reads[1].name]
                                       IN  {e[n].row : n \in DOMAIN e}
                      IN  [n \in DOMAIN got |-> rowsIn(got[n])]
                            = Times(WantedRows(flow), Occurrences(c))
    BY DEF ServesDueFlows
  <2> DEFINE c    == plan[i]
             flow == Flows[c][k]
             P    == {n \in DOMAIN log : /\ log[n].to = c /\ log[n].what = "consume_bundle"
                                         /\ log[n].k = k}
             got  == Kept(log, P)
             M    == {x \in ToSet(log) : IsBundle(x, c, k)}
  <2>1. IsSeq(log) /\ DOMAIN log = 1 .. Len(log) /\ \A n \in 1 .. Len(log) : log[n] \in ToSet(log)
    BY SeqDomain DEF CallsInv
  <2>2. log \o calls = log /\ Raises \notin ToSet(calls)
    BY <2>1 DEF Ended, Returned, IsSeq, ToSet
  <2>3. ServedIn(log, plan, rows, step, bindings)
    BY <2>2 DEF ServeInv, Ended
  <2>4. c \in ToSet(plan) /\ k \in DOMAIN Flows[c] /\ flow = Flows[c][k]
    BY DEF ToSet
  <2>5. IsBound(flow, bindings)
    BY BoundIsBound DEF DispatchInv, BindingsOk
  <2>6. \A x \in ToSet(log) : x \in M <=> IsBundle(x, c, k)
    OBVIOUS
  <2>7. RowsOf(flow, Picked(log, M)) = Repeated(Wanted(flow, rows, step), Planned(plan, c))
    <3> HIDE DEF c, M, flow
    <3> QED
      BY <2>3, <2>4, <2>5, <2>6, Zenon DEF ServedIn
  <2>8. P = {n \in 1 .. Len(log) : log[n] \in M}
    BY <2>1 DEF IsBundle
  <2>9. got = Picked(log, M)
    BY <2>8 DEF Picked
  <2>10. DOMAIN got = 1 .. Len(got)
    <3> HIDE DEF M, got
    <3>1. IsSeq(Picked(log, M))
      BY <2>1, PickedCount
    <3> QED
      BY <2>9, <3>1, SeqDomain
  <2>11. WantedRows(flow) = Wanted(flow, rows, step)
    <3> HIDE DEF flow
    <3> QED
      BY DEF WantedRows, Wanted
  <2> HIDE DEF got, M, P, flow, c
  <2>12. RowsOf(flow, got) = Times(WantedRows(flow), Occurrences(c))
    BY <2>7, <2>9, <2>11 DEF Times, Repeated, Occurrences, Planned
  <2>13. RowsOf(flow, got)
           = [n \in DOMAIN got |-> LET e == got[n].entries[flow.reads[1].name]
                                   IN  {e[m].row : m \in DOMAIN e}]
    BY <2>10 DEF RowsOf, EntryRows
  <2> QED
    BY <2>12, <2>13 DEF got, P, flow, c
<1>3. DispatchInv /\ CallsInv /\ CarryInv /\ ServeInv /\ [Next]_vars => CarryInv' /\ ServeInv'
  BY CarryInvStep, ServeInvStep
<1> QED
  BY <1>1, <1>2, <1>3, InvAlways, CallsInvAlways, PTL DEF Spec
=============================================================================
