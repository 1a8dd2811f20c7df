---------------------------- MODULE MCMoePrefetch ----------------------------
(* Instances of MoePrefetch. *)
EXTENDS MoePrefetch, TLC

CONSTANTS c1, c2, k1, k2

\* The workers of a pool and the callers are interchangeable in the runs that
\* check only invariants.
Interchangeable == Permutations(Workers) \cup Permutations(Callers)
=============================================================================
