----------------------------- MODULE MCDmaProxy -----------------------------
(* DmaProxy for TLC: no action tells one process from another. *)
EXTENDS DmaProxy, TLC

Symmetry == Permutations(Process)
=============================================================================
