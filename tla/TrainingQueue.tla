---------------------------- MODULE TrainingQueue ----------------------------
(***************************************************************************)
(* What the ESamp training pipeline promises its caller: the jobs it       *)
(* accepts are trained one at a time, each once, oldest first, and each on *)
(* the source and target rows of its own decode step.                      *)
(***************************************************************************)
EXTENDS Integers, Sequences

CONSTANT Jobs    \* the decode steps that may be accepted

VARIABLES
  queue,     \* decode steps accepted and not yet trained
  trained    \* the jobs trained, with the steps whose rows they read

\* The steps that were ever accepted.
Seen == queue \cup {trained[i].job : i \in DOMAIN trained}

Init == queue = {} /\ trained = <<>>

\* A step later than every step accepted before it joins the queue.
Accept(n) ==
  /\ \A k \in Seen : k < n
  /\ queue' = queue \cup {n}
  /\ UNCHANGED trained

\* The oldest step leaves the queue, trained on its own rows.
Train(n) ==
  /\ n \in queue /\ \A k \in queue : n <= k
  /\ trained' = Append(trained, [job |-> n, src |-> n, tgt |-> n])
  /\ queue' = queue \ {n}

Next == \E n \in Jobs : Accept(n) \/ Train(n)

Spec == Init /\ [][Next]_<<queue, trained>>
=============================================================================
