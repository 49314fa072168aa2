---------------------------- MODULE MCVxdmaPrep ----------------------------
(* Instances of VxdmaPrep: one entry that needs several segments, a list with an
   empty entry and with one at the limit of a segment, and cyclic buffers whose
   periods do and do not fill them. *)
EXTENDS VxdmaPrep

MCSgLists ==
  {<<[addr |-> 2, len |-> 7]>>,
   <<[addr |-> 10, len |-> 4], [addr |-> 0, len |-> 0], [addr |-> 1, len |-> 3]>>}

MCCyclicBufs ==
  {[addr |-> 0, buf_len |-> 8, period_len |-> 4],
   [addr |-> 3, buf_len |-> 5, period_len |-> 2]}
=============================================================================
