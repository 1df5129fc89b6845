-------------------------- MODULE BundleAssembler --------------------------
(****************************************************************************)
(* The bundles a flow is delivered when its rows go out one frame at a time *)
(* (src/tllm/runtime/ports/assembler.py) and the frames they come from      *)
(* (build_decode_port_frames).                                              *)
(*                                                                          *)
(* A read names the port it takes (src: "source" or "target" for the two    *)
(* residual locators, "meta" for request metadata) and the entry it fills   *)
(* (its role).  A payload is the place it was taken from and its row.  A    *)
(* bundle maps the name of each entry to the payloads merged into it.       *)
(****************************************************************************)
EXTENDS OrderedSets, Sequences, SequencesExt, TLC

Payload(of, row) == [of |-> of, row |-> row]
Frame(src, of, row) == [src |-> src, payload |-> Payload(of, row)]

\* build_decode_port_frames for each tapped path in turn; request metadata accompanies
\* the rows of the first binding only.
FramesOf(bindings, rows) ==
  LET ofRow(b, i) == <<Frame(b.src, b.path, i)>>
                     \o (IF b.meta THEN <<Frame("meta", "meta", i)>> ELSE <<>>)
  IN  FlattenSeq([k \in DOMAIN bindings |->
                    FlattenSeq([i \in 1 .. rows |-> ofRow(bindings[k], i)])])

\* The group of a frame: bundle_key is empty ("row"), names the request, or only the
\* step and its phase.
GroupOf(flow, frame) == IF flow.key = "step" THEN 0 ELSE frame.payload.row
Aggregating(flow) == flow.key # "row"

Complete(flow, entries) == Cardinality(DOMAIN entries) >= Len(flow.reads)

NoEntries == [n \in {} |-> <<>>]

\* A dictionary after one assignment.
Put(dict, key, value) ==
  [k \in DOMAIN dict \cup {key} |-> IF k = key THEN value ELSE dict[k]]

Merged(flow, entries, name, payload) ==
  LET old == IF Aggregating(flow) /\ name \in DOMAIN entries THEN entries[name] ELSE <<>>
  IN  Put(entries, name, Append(old, payload))

\* push: the first read that takes the frame decides the entry; a bundle of a single row
\* leaves at once, an aggregated one waits for finalize_pending.
Push(flow, state, frame) ==
  LET takers == {k \in DOMAIN flow.reads : flow.reads[k].src = frame.src}
      read   == flow.reads[CHOOSE k \in takers : \A j \in takers : k <= j]
      group  == GroupOf(flow, frame)
      old    == IF group \in DOMAIN state.pending THEN state.pending[group] ELSE NoEntries
      new    == Merged(flow, old, read.name, frame.payload)
  IN  IF takers = {} THEN state
      ELSE IF Complete(flow, new) /\ ~Aggregating(flow)
      THEN [out |-> Append(state.out, new),
            pending |-> [g \in DOMAIN state.pending \ {group} |-> state.pending[g]]]
      ELSE [state EXCEPT !.pending = Put(@, group, new)]

\* finalize_pending: the complete groups, in the order of their rows.
Finalized(flow, pending) ==
  LET order == Ordered({g \in DOMAIN pending : Complete(flow, pending[g])})
  IN  [i \in DOMAIN order |-> pending[order[i]]]

Assemble(flow, frames) ==
  LET after[n \in 0 .. Len(frames)] ==
        IF n = 0 THEN [out |-> <<>>, pending |-> [g \in {} |-> NoEntries]]
        ELSE Push(flow, after[n - 1], frames[n])
      last == after[Len(frames)]
  IN  last.out \o Finalized(flow, last.pending)
=============================================================================
