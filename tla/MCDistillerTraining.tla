-------------------------- MODULE MCDistillerTraining --------------------------
EXTENDS DistillerTraining, TLC

Config(mode, cudagraph, everyStep, method, rows, slots) ==
  [mode |-> mode, cudagraph |-> cudagraph, everyStep |-> everyStep, method |-> method,
   rows |-> rows, slots |-> slots]

\* Two shapes of the bank that differ in the flush interval and the rows only, so that a
\* reconfiguration between them keeps the parameters; a bank with one slot; the shared model.
MCConfigs ==
  {Config("shared", TRUE, TRUE, "none", 1, 1),
   Config("model_bank", TRUE, TRUE, "ffn_fast_svd", 2, 2),
   Config("model_bank", TRUE, FALSE, "ffn_fast_svd", 1, 2),
   Config("model_bank", FALSE, TRUE, "none", 1, 1),
   Config("model_bank", TRUE, TRUE, "ridge_svd", 2, 2)}

Symmetry == Permutations(Prompts)
=============================================================================
