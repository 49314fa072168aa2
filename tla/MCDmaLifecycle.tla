--------------------------- MODULE MCDmaLifecycle ---------------------------
(* Instances of DmaLifecycle: the device tree lists the channels in the order of
   their ids, or has the first one only. *)
EXTENDS DmaLifecycle

MCTrees == {<<1>>, <<1, 2>>}
MCTreeFirst == {<<1>>}
MCTreesReversed == {<<2, 1>>}

\* The failures of probe whose error path works, and the others.
MCProbeFaults ==
  {<<"bad_node", 1>>, <<"bad_node", 2>>, <<"reset", 2>>, <<"irq", 2>>, <<"of_register", 0>>}
MCResetFails == {<<"reset", 1>>}
=============================================================================
