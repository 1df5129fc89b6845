--------------------------- MODULE MCSamplerBridge ---------------------------
EXTENDS SamplerBridge, TLC

CONSTANTS a, b, c

P(prompt, greedy, minp, seeded) ==
  [prompt |-> prompt, greedy |-> greedy, minp |-> minp, seeded |-> seeded]

\* Requests' parameters: temperatures alike or mixed, prompts shared or not.
Alike(greedy, shared) ==
  (a :> P(2, greedy, 1, TRUE)) @@ (b :> P(1, greedy, 0, FALSE))
    @@ (c :> P(IF shared THEN 2 ELSE 3, greedy, 2, FALSE))

Mixed ==
  {(a :> P(2, g, 1, TRUE)) @@ (b :> P(1, ~g, 2, FALSE)) @@ (c :> P(3, FALSE, 0, TRUE)) :
     g \in BOOLEAN}

Unseeded(params) == [r \in Requests |-> [params[r] EXCEPT !.seeded = FALSE]]

Setup(active, mode, backend, trainers, candidates, params) ==
  [active |-> active, mode |-> mode, backend |-> backend, trainers |-> trainers,
   candidates |-> candidates,
   tempered |-> TRUE, params |-> params]

Untempered(s) == [s EXCEPT !.tempered = FALSE]

PostFilter == {"post_filter_exact", "post_filter_dense_cache"}

\* Guidance off or without a temperature; batches of one temperature with every backend; mixed temperatures with
\* prompts of their own; one prompt of several with a trainer.
MCSetups ==
  {Setup(FALSE, "shared", "post_filter_exact", {}, FALSE, p) : p \in Mixed}
    \cup {Untempered(Setup(TRUE, "shared", "post_filter_exact", {}, FALSE, Alike(TRUE, FALSE)))}
    \cup {Setup(TRUE, m, k, {}, FALSE, Alike(g, s)) :
            m \in {"shared", "bank"}, k \in Backends, g, s \in BOOLEAN}
    \cup {Setup(TRUE, "bank", k, {}, TRUE, Unseeded(Alike(FALSE, s))) :
            k \in PostFilter, s \in BOOLEAN}
    \cup {Setup(TRUE, m, k, {}, FALSE, p) : m \in {"shared", "bank"}, k \in PostFilter, p \in Mixed}
    \cup {Setup(TRUE, "per_request", k, t, FALSE, p) :
            k \in Backends, t \in {{}, {2}}, p \in Mixed \cup {Alike(FALSE, TRUE), Alike(TRUE, TRUE)}}

\* All rows guided by dense logits at mixed temperatures.
MCMixedDense == {Setup(TRUE, "shared", "pre_filter_dense", {}, FALSE, p) : p \in Mixed}

\* Two trainers whose prompts come in another order than their rows.
MCPromptOrder ==
  {Setup(TRUE, "per_request", "post_filter_exact", {1, 2}, FALSE, Alike(FALSE, TRUE))}

\* Mixed temperatures with a prompt shared by two requests.
MCSharedMixed ==
  {Setup(TRUE, "bank", "post_filter_exact", {}, FALSE,
         (a :> P(2, TRUE, 1, TRUE)) @@ (b :> P(1, FALSE, 2, FALSE))
           @@ (c :> P(1, FALSE, 0, TRUE)))}
=============================================================================
