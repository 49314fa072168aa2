---------------------------- MODULE MCVxhlsTest ----------------------------
(* An instance of VxhlsTest with one process that runs the test again and again. *)
EXTENDS VxhlsTest

CONSTANTS p1

MCProcess == {p1}
=============================================================================
