--------------------------- MODULE MCVxdmaChannel ---------------------------
(***************************************************************************)
(* VxdmaChannel for TLC.  Clients and descriptors are interchangeable: no  *)
(* action and no invariant tells them apart.  The runs that check liveness *)
(* do not use the symmetry.                                                *)
(***************************************************************************)
EXTENDS VxdmaRefinement, TLC

Symmetry == Permutations(Client) \cup Permutations(Desc)
=============================================================================
