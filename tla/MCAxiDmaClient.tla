--------------------------- MODULE MCAxiDmaClient ---------------------------
(* AxiDmaClient for TLC: no action tells one process from another. *)
EXTENDS AxiDmaClient, TLC

Symmetry == Permutations(Process)
=============================================================================
