----------------------------- MODULE MCPlIpcore -----------------------------
(* Instances of PlIpcore: two cores share an id, one has another one, and the
   processes also ask for one that no core has. *)
EXTENDS PlIpcore

CONSTANTS led, led2, capctl

MCDev == {led, led2, capctl}
MCIdOf == [d \in MCDev |-> IF d = capctl THEN 1 ELSE 0]
=============================================================================
