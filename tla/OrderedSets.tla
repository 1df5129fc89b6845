----------------------------- MODULE OrderedSets -----------------------------
(***************************************************************************)
(* Rows and requests come to the code as sets and are worked through in    *)
(* increasing order.                                                       *)
(***************************************************************************)
EXTENDS Integers, FiniteSets

\* A finite set of numbers as an increasing sequence.
Ordered(S) ==
  [i \in 1 .. Cardinality(S) |-> CHOOSE p \in S : Cardinality({q \in S : q <= p}) = i]
\* What a sequence holds at these positions, in its order.
Kept(s, positions) ==
  LET at == Ordered(positions) IN [k \in DOMAIN at |-> s[at[k]]]
=============================================================================
