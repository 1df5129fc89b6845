---------------------------- MODULE MCDecodeStep ----------------------------
EXTENDS DecodeStep, TLC
Symmetry == Permutations(Prompts)
=============================================================================
