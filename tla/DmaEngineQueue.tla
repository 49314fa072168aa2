--------------------------- MODULE DmaEngineQueue ---------------------------
(***************************************************************************)
(* What a channel of the AXI DMA driver promises to its clients: the       *)
(* transactions are numbered when they are submitted, started in batches,  *)
(* completed in order, and their callbacks are run in order, once each.    *)
(* Four counters say all of it: transaction k is submitted when            *)
(* k <= submitted, and so on.                                              *)
(***************************************************************************)
EXTENDS Integers

VARIABLES submitted, started, completed, notified

queueVars == <<submitted, started, completed, notified>>

Init ==
  /\ submitted = 0 /\ started = 0 /\ completed = 0 /\ notified = 0

Submit ==
  /\ submitted' = submitted + 1
  /\ UNCHANGED <<started, completed, notified>>

\* Everything that is submitted is started as one batch, when the previous
\* batch is complete.
Start ==
  /\ completed = started /\ started < submitted
  /\ started' = submitted
  /\ UNCHANGED <<submitted, completed, notified>>

Complete ==
  /\ completed < started
  /\ completed' = completed + 1
  /\ UNCHANGED <<submitted, started, notified>>

Notify ==
  /\ notified < completed
  /\ notified' = notified + 1
  /\ UNCHANGED <<submitted, started, completed>>

Next == Submit \/ Start \/ Complete \/ Notify

Spec == Init /\ [][Next]_queueVars

\* What is started is completed and its callback is run.
FairSpec == Spec /\ WF_queueVars(Complete) /\ WF_queueVars(Notify)
=============================================================================
