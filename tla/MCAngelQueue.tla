---------------------------- MODULE MCAngelQueue ----------------------------
(***************************************************************************)
(* AngelQueue for TLC.  Requests, payloads and workers are model values;   *)
(* no definition tells one from another, so they may be permuted in the    *)
(* runs that check no liveness property.                                   *)
(***************************************************************************)
EXTENDS AngelQueue, TLC

Symmetry ==
    Permutations(Producers) \cup Permutations(Readers) \cup Permutations(Ackers)
        \cup Permutations(Workers) \cup Permutations(Payloads)
=============================================================================
