-------------------------- MODULE ESampPipelineOrder --------------------------
(***************************************************************************)
(* Why the training pipeline is correct: which operation must run after    *)
(* which other, and that the launches enqueue it so.                       *)
(*                                                                         *)
(* An operation waits for another by standing later in the same stream, or *)
(* behind a wait for an event recorded at or after it, or because the      *)
(* other has already run.  OrderInv says that this covers every pair that  *)
(* touches the same rows; the other parts say what makes the launches      *)
(* preserve it.                                                            *)
(***************************************************************************)
EXTENDS ESampPipeline

SrcKinds   == {"lease_src", "copy_src"}
TgtKinds   == {"lease_tgt", "copy_tgt"}
StageKinds == SrcKinds \cup TgtKinds
Kinds      == {SrcKinds, TgtKinds, {"tap"}, {"train"}}
Positions(s) == 1 .. Len(log[s])

\* With these logs and counts, the operation at i of stream s cannot run before the
\* one at j of stream t has.
Ordered(lg, dn, s, i, t, j) ==
  \/ j <= dn[t]
  \/ s = t /\ j < i
  \/ \E h \in 1 .. i - 1 : /\ lg[s][h].kind = "wait"
                           /\ lg[s][h].stream = t
                           /\ j <= lg[s][h].at

\* Operation a may only run after operation b of stream t: a later step is staged in
\* a slot after an earlier one; after the training of what the slot held, and, on the
\* main stream, after every earlier training; a job is trained after its rows are
\* staged; rows are staged after the forward that makes them; and a forward
\* overwrites the shared taps after they were copied.
MustFollow(a, t, b) ==
  \/ \E K \in {SrcKinds, TgtKinds} :
       a.kind \in K /\ b.kind \in K /\ a.slot = b.slot /\ b.step < a.step
  \/ /\ a.kind \in StageKinds /\ b.kind = "train" /\ b.step < a.step
     /\ t = Main \/ a.slot = b.slot
  \/ /\ a.kind = "train" /\ b.kind \in StageKinds
     /\ a.slot = b.slot /\ a.step = b.step
  \/ a.kind \in StageKinds /\ b.kind = "tap" /\ b.step <= a.step
  \/ a.kind = "tap" /\ b.kind \in {"tap", "lease_src", "lease_tgt"} /\ b.step < a.step

\* Whatever must follow what has not run is ordered, by its stream or by a wait.
OrderInv ==
  \A s, t \in Streams : \A i \in Positions(s), j \in Positions(t) :
    ~(j <= done[t]) /\ MustFollow(log[s][i], t, log[t][j]) => Ordered(log, done, s, i, t, j)

\* A wait that has run was satisfied.
WaitsHeld ==
  \A s \in Streams : \A i \in 1 .. done[s] :
    log[s][i].kind = "wait" => log[s][i].at <= done[log[s][i].stream]

\* On which streams operations are, and which steps they are of: a slot half staged
\* or ready holds the step launched last, which is not yet staged in full or trained.
Placed ==
  \A s \in Streams : \A i \in Positions(s) :
    LET op == log[s][i]
    IN /\ op.kind = "tap" => s = Main /\ op.step \in 1 .. step
       /\ op.kind \in {"lease_src", "lease_tgt"} => s = Main /\ ~TwoCalls
       /\ op.kind \in {"copy_src", "copy_tgt"} => TwoCalls
       /\ op.kind \in StageKinds \cup {"train"} => op.step \in 1 .. launched
       /\ op.kind \in TgtKinds /\ current # None => op.step < launched
       /\ op.kind = "train" /\ (current # None \/ ready # None) => op.step < launched

\* A step has one forward, and is staged as source, as target and trained at most once.
Unique ==
  \A K \in Kinds : \A s, t \in Streams : \A i \in Positions(s) : log[s][i].kind \in K =>
    \A j \in Positions(t) :
      log[t][j].kind \in K /\ log[s][i].step = log[t][j].step => s = t /\ i = j

\* Event e of these logs is recorded after the staging of step n in the slot.
Staged(lg, K, slot, n, e) ==
  \E i \in 1 .. Len(lg[e.stream]) :
     /\ lg[e.stream][i].kind \in K /\ lg[e.stream][i].slot = slot /\ lg[e.stream][i].step = n
     /\ i <= e.at

\* Every job enqueued has been given a source and a target.
TrainIsStaged ==
  \A s \in Streams : \A i \in Positions(s) : log[s][i].kind = "train" =>
    \A K \in {SrcKinds, TgtKinds} : \E t \in Streams : \E j \in Positions(t) :
      log[t][j].kind \in K /\ log[t][j].slot = log[s][i].slot /\ log[t][j].step = log[s][i].step

\* The host's handles: one step in flight, and only streams without work are dropped.
HostInv ==
  /\ current = None \/ ready = None
  /\ current # None => TwoCalls
  /\ current # None \/ ready # None => launched > 0
  /\ stale # "none" => /\ current = None /\ ready = None
                       /\ \A s \in Side : done[s] = Len(log[s])
  /\ stale = "none" =>
       /\ mode = "serial" => fwdStream = NoStream /\ trnStream = NoStream
       /\ mode = "single" => fwdStream # NoStream /\ trnStream = fwdStream
       /\ mode = "dual" => fwdStream # NoStream /\ trnStream # NoStream /\ fwdStream # trnStream
  /\ \A s \in Side : s \notin {fwdStream, trnStream} => done[s] = Len(log[s])

\* What a side stream has still to do: it stages only as forward stream and trains only
\* as training stream, behind the done event of the slot, later steps than the main
\* stream has ever trained.
SideInv ==
  \A s \in Side : \A i \in done[s] + 1 .. Len(log[s]) :
    /\ log[s][i].kind \in StageKinds => s = fwdStream
    /\ log[s][i].kind = "train" =>
         /\ s = trnStream
         /\ LET e == event[<<"slot_train_done", log[s][i].slot>>] IN e.stream = s /\ i <= e.at
         /\ \A j \in Positions(Main) :
              log[Main][j].kind = "train" => log[Main][j].step < log[s][i].step

\* What the slot in flight has behind its events: a ready step is staged, the step half
\* staged is behind the training of what its slot held.
SlotInv ==
  /\ ready # None => /\ Staged(log, SrcKinds, ready, launched, event[<<"src_staged", ready>>])
                     /\ Staged(log, TgtKinds, ready, launched, event[<<"tgt_done", ready>>])
  /\ current # None =>
       /\ Staged(log, SrcKinds, current, launched, event[<<"src_staged", current>>])
       /\ \A s \in Streams : \A i \in Positions(s) :
            log[s][i].kind = "train" /\ log[s][i].slot = current =>
              Ordered(log, done, ForwardStream, Len(log[ForwardStream]) + 1, s, i)

\* The taps hold the rows of the last forward that ran, and forwards run in order.
TapInv ==
  /\ tap <= step
  /\ \A n \in 1 .. step : \E i \in Positions(Main) :
       log[Main][i].kind = "tap" /\ log[Main][i].step = n
  /\ \A i \in Positions(Main) : log[Main][i].kind = "tap" =>
       (i <= done[Main] <=> log[Main][i].step <= tap)

\* A buffer of the ring holds the latest step staged in its slot.
BufferInv(K, buffer) ==
  /\ \A s \in Streams : \A i \in 1 .. done[s] :
       log[s][i].kind \in K => log[s][i].step <= buffer[log[s][i].slot]
  /\ \A slot \in SlotIds : buffer[slot] # 0 =>
       \E s \in Streams : \E i \in 1 .. done[s] :
         log[s][i].kind \in K /\ log[s][i].slot = slot /\ log[s][i].step = buffer[slot]

\* The jobs trained are those whose kernels have run.
HistoryInv ==
  /\ \A s \in Streams : \A i \in Positions(s) : log[s][i].kind = "train" =>
       (i <= done[s] <=> log[s][i].step \in TrainedJobs)
  /\ TrainedJobs \subseteq Accepted

OrdInv == OrderInv /\ WaitsHeld /\ Placed /\ Unique /\ TrainIsStaged /\ HostInv /\ SideInv
           /\ SlotInv /\ TapInv /\ BufferInv(SrcKinds, src) /\ BufferInv(TgtKinds, tgt) /\ HistoryInv

\* A stream is given training jobs in the order of their steps.
TrainsAscend ==
  \A s \in Streams : \A i, j \in Positions(s) :
    log[s][i].kind = "train" /\ log[s][j].kind = "train" /\ i < j => log[s][i].step < log[s][j].step

\* Every operation the engine enqueues is ordered behind all it must follow, whichever
\* launches, modes, failures and reconfigurations came before.  With TypeOK, this is
\* inductive.
PipelineInv == OrdInv /\ TrainsAscend
IInv == TypeOK /\ OrdInv
=============================================================================
