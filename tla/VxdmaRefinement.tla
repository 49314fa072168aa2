-------------------------- MODULE VxdmaRefinement --------------------------
(***************************************************************************)
(* A channel of the driver implements DmaEngineQueue, as long as its       *)
(* clients only prepare, submit, issue and ask for the status of slave     *)
(* transactions, which is what vdmaproxy, axidma and vxdma_dev do between  *)
(* the request and the release of a channel.                               *)
(***************************************************************************)
EXTENDS VxdmaChannel

Queue == INSTANCE DmaEngineQueue WITH
  submitted <- cookie,
  started   <- cookie - Len(pending_list),
  completed <- completed_cookie,
  notified  <- notified

\* Each step of the channel is a step of the queue or changes none of its
\* counters (dma_cookie_assign, list_splice_tail_init, dma_cookie_complete and
\* the callback of the tasklet are its four actions).
ImplementsQueue == Queue!Spec

\* With a fair engine, interrupt and tasklet, the channel also completes and
\* reports every transaction that it starts.
ImplementsFairQueue == Queue!FairSpec
=============================================================================
