---------------------------- MODULE AxiDmaClient ----------------------------
(***************************************************************************)
(* The loop-back test of vxdma/vxdma_dev.c, which axidma/axidma.c runs     *)
(* once, when it is loaded: it requests a transmit and a receive channel,  *)
(* maps a buffer for each, submits a transfer on each, starts both, waits  *)
(* for the transmit one, unmaps, frees and releases.  Everything but the   *)
(* pointers to the buffers is static and unlocked, and vxdma_dev_ioctl     *)
(* does not keep a second process out.                                     *)
(*                                                                         *)
(* A channel has one transaction at a time (TransferExclusive is why), so  *)
(* its queue is the stage that transaction is in.  VxdmaChannel has the    *)
(* channel in full.  Releasing it frees the lists of descriptors and does  *)
(* not stop the engine.                                                    *)
(***************************************************************************)
EXTENDS Integers

CONSTANTS
  Process,  \* processes that have opened the device
  Nobody,
  Present,  \* the channels that are probed and unused by anyone else
  Faults    \* what may go wrong

Chan == {"tx", "rx"}
AllFaults == {"no_memory", "prep_error", "timeout"}

ASSUME ClientAssumption ==
  Nobody \notin Process /\ Present \subseteq Chan /\ Faults \subseteq AllFaults

VARIABLES
  dma_chan,  \* tx_chan and rx_chan are not NULL
  claimed,   \* the dmaengine core has handed the channel out
  cmp,       \* the counts of tx_cmp and rx_cmp
  cookie,    \* tx_cookie and rx_cookie are not error codes
  stage,     \* where the transaction of the channel is
  owner,     \* the process that has submitted it
  engine,    \* the process whose buffer the engine is transferring
  calling,   \* the tasklet has taken a descriptor to run its callback
  pc, expired, buffers, mapped  \* of each process

dmaVars == <<stage, owner, engine, calling>>
vars == <<dma_chan, claimed, cmp, cookie, dmaVars, pc, expired, buffers, mapped>>

Steps == {"idle", "request_tx", "request_rx", "check", "alloc", "map", "prep_rx",
          "prep_tx", "submit_error", "init_rx", "issue_rx", "init_tx", "issue_tx",
          "wait", "unmap", "kfree", "release_tx", "release_rx", "oops"}

\* Types; a completion counts the callback of the transfer it was initialised for
\* and at most one late one.
TypeOK ==
  /\ dma_chan \in [Chan -> BOOLEAN] /\ claimed \in [Chan -> BOOLEAN]
  /\ cmp \in [Chan -> 0 .. 2] /\ cookie \in [Chan -> BOOLEAN]
  /\ stage \in [Chan -> {"none", "pending", "active", "done"}]
  /\ owner \in [Chan -> Process \cup {Nobody}]
  /\ engine \in [Chan -> Process \cup {Nobody}]
  /\ calling \in [Chan -> BOOLEAN]
  /\ pc \in [Process -> Steps] /\ expired \in [Process -> BOOLEAN]
  /\ buffers \in [Process -> SUBSET Chan] /\ mapped \in [Process -> SUBSET Chan]

Init ==
  /\ dma_chan = [c \in Chan |-> FALSE] /\ claimed = [c \in Chan |-> FALSE]
  /\ cmp = [c \in Chan |-> 0] /\ cookie = [c \in Chan |-> TRUE]
  /\ stage = [c \in Chan |-> "none"] /\ owner = [c \in Chan |-> Nobody]
  /\ engine = [c \in Chan |-> Nobody] /\ calling = [c \in Chan |-> FALSE]
  /\ pc = [p \in Process |-> "idle"] /\ expired = [p \in Process |-> FALSE]
  /\ buffers = [p \in Process |-> {}] /\ mapped = [p \in Process |-> {}]

At(p, step) == pc[p] = step
Goto(p, step) == pc' = [pc EXCEPT ![p] = step]

\* A call through a pointer that is NULL ends the thread.
GotoUnlessNull(p, c, step) == Goto(p, IF dma_chan[c] THEN step ELSE "oops")
-----------------------------------------------------------------------------
(* vxaxidma_test: request the channels *)

Ioctl(p) ==
  /\ At(p, "idle") /\ Goto(p, "request_tx")
  /\ UNCHANGED <<dma_chan, claimed, cmp, cookie, dmaVars, expired, buffers, mapped>>

\* Bug variant: the channels are not private to the client.
RequestShared(p, c) ==
  /\ At(p, IF c = "tx" THEN "request_tx" ELSE "request_rx")
  /\ Goto(p, IF c = "tx" THEN "request_rx" ELSE "check")
  /\ dma_chan' = [dma_chan EXCEPT ![c] = c \in Present]
  /\ claimed' = [claimed EXCEPT ![c] = @ \/ c \in Present]
  /\ UNCHANGED <<cmp, cookie, dmaVars, expired, buffers, mapped>>

Request(p, c) ==
  /\ At(p, IF c = "tx" THEN "request_tx" ELSE "request_rx")
  /\ Goto(p, IF c = "tx" THEN "request_rx" ELSE "check")
  /\ dma_chan' = [dma_chan EXCEPT ![c] = c \in Present /\ ~claimed[c]]
  /\ claimed' = [claimed EXCEPT ![c] = @ \/ c \in Present]
  /\ UNCHANGED <<cmp, cookie, dmaVars, expired, buffers, mapped>>

\* A channel that was handed out stays so when the other one was not.
CheckChannels(p) ==
  /\ At(p, "check")
  /\ Goto(p, IF \A c \in Chan : dma_chan[c] THEN "alloc" ELSE "idle")
  /\ UNCHANGED <<dma_chan, claimed, cmp, cookie, dmaVars, expired, buffers, mapped>>
-----------------------------------------------------------------------------
(* axidma_test_transfer: the buffers and the transactions *)

AllocBuffers(p) ==
  /\ At(p, "alloc")
  /\ \E got \in SUBSET Chan :
       /\ got = Chan \/ "no_memory" \in Faults
       /\ buffers' = [buffers EXCEPT ![p] = @ \cup got]
       /\ Goto(p, IF got = Chan THEN "map" ELSE "release_tx")
  /\ UNCHANGED <<dma_chan, claimed, cmp, cookie, dmaVars, expired, mapped>>

MapBuffers(p) ==
  /\ At(p, "map")
  /\ Goto(p, IF \A c \in Chan : dma_chan[c] THEN "prep_rx" ELSE "oops")
  /\ mapped' = [mapped EXCEPT ![p] = Chan]
  /\ UNCHANGED <<dma_chan, claimed, cmp, cookie, dmaVars, expired, buffers>>

\* axidma_prep_buffer: prepare and submit; cookie is -EBUSY when that fails.
PrepBuffer(p, c) ==
  /\ At(p, IF c = "rx" THEN "prep_rx" ELSE "prep_tx")
  /\ GotoUnlessNull(p, c, IF c = "rx" THEN "prep_tx" ELSE "submit_error")
  /\ \/ /\ dma_chan[c]
        /\ stage' = [stage EXCEPT ![c] = "pending"]
        /\ owner' = [owner EXCEPT ![c] = p]
        /\ cookie' = [cookie EXCEPT ![c] = TRUE]
     \/ /\ dma_chan[c] /\ "prep_error" \in Faults
        /\ cookie' = [cookie EXCEPT ![c] = FALSE]
        /\ UNCHANGED <<stage, owner>>
     \/ ~dma_chan[c] /\ UNCHANGED <<cookie, stage, owner>>
  /\ UNCHANGED <<dma_chan, claimed, cmp, engine, calling, expired, buffers, mapped>>

\* Bug variant: a submission that fails is tried again.
SubmitErrorRetry(p) ==
  /\ At(p, "submit_error")
  /\ Goto(p, IF \A c \in Chan : cookie[c] THEN "init_rx" ELSE "prep_rx")
  /\ UNCHANGED <<dma_chan, claimed, cmp, cookie, dmaVars, expired, buffers, mapped>>

\* On an error both buffers stay mapped and allocated.
SubmitError(p) ==
  /\ At(p, "submit_error")
  /\ Goto(p, IF \A c \in Chan : cookie[c] THEN "init_rx" ELSE "release_tx")
  /\ UNCHANGED <<dma_chan, claimed, cmp, cookie, dmaVars, expired, buffers, mapped>>
-----------------------------------------------------------------------------
(* axidma_start_transfer, first for rx with NO_WAIT, then for tx with WAIT *)

InitCompletion(p, c) ==
  /\ At(p, IF c = "rx" THEN "init_rx" ELSE "init_tx")
  /\ GotoUnlessNull(p, c, IF c = "rx" THEN "issue_rx" ELSE "issue_tx")
  /\ cmp' = [cmp EXCEPT ![c] = 0]
  /\ UNCHANGED <<dma_chan, claimed, cookie, dmaVars, expired, buffers, mapped>>

\* The pending transaction of a channel goes to an engine that is not busy.
Started(c) ==
  IF stage[c] = "pending" /\ engine[c] = Nobody
  THEN /\ stage' = [stage EXCEPT ![c] = "active"]
       /\ engine' = [engine EXCEPT ![c] = owner[c]]
  ELSE UNCHANGED <<stage, engine>>

\* Bug variant: NO_WAIT for both.
IssuePendingNoWait(p, c) ==
  /\ At(p, IF c = "rx" THEN "issue_rx" ELSE "issue_tx")
  /\ Goto(p, IF c = "rx" THEN "init_tx" ELSE "unmap")
  /\ Started(c)
  /\ UNCHANGED <<dma_chan, claimed, cmp, cookie, owner, calling, expired, buffers,
                 mapped>>

IssuePending(p, c) ==
  /\ At(p, IF c = "rx" THEN "issue_rx" ELSE "issue_tx")
  /\ Goto(p, IF c = "rx" THEN "init_tx" ELSE "wait")
  /\ Started(c)
  /\ UNCHANGED <<dma_chan, claimed, cmp, cookie, owner, calling, expired, buffers,
                 mapped>>

WaitDone(p) ==
  /\ At(p, "wait") /\ cmp["tx"] > 0 /\ Goto(p, "unmap")
  /\ cmp' = [cmp EXCEPT !["tx"] = @ - 1]
  /\ expired' = [expired EXCEPT ![p] = FALSE]
  /\ UNCHANGED <<dma_chan, claimed, cookie, dmaVars, buffers, mapped>>

WaitTimeout(p) ==
  /\ At(p, "wait") /\ cmp["tx"] = 0 /\ "timeout" \in Faults /\ Goto(p, "unmap")
  /\ expired' = [expired EXCEPT ![p] = TRUE]
  /\ UNCHANGED <<dma_chan, claimed, cmp, cookie, dmaVars, buffers, mapped>>

\* dma_unmap_single for rx, then for tx.
Unmap(p) ==
  /\ At(p, "unmap")
  /\ Goto(p, IF \A c \in Chan : dma_chan[c] THEN "kfree" ELSE "oops")
  /\ mapped' = [mapped EXCEPT ![p] = IF ~dma_chan["rx"] THEN @
                                     ELSE IF ~dma_chan["tx"] THEN @ \ {"rx"} ELSE {}]
  /\ UNCHANGED <<dma_chan, claimed, cmp, cookie, dmaVars, expired, buffers>>

FreeBuffers(p) ==
  /\ At(p, "kfree") /\ Goto(p, "release_tx")
  /\ buffers' = [buffers EXCEPT ![p] = {}]
  /\ UNCHANGED <<dma_chan, claimed, cmp, cookie, dmaVars, expired, mapped>>

\* Bug variant: the receive channel is not released when rx_cookie is an error.
ReleaseUnlessError(p, c) ==
  /\ At(p, IF c = "tx" THEN "release_tx" ELSE "release_rx")
  /\ GotoUnlessNull(p, c, IF c = "tx" THEN "release_rx" ELSE "idle")
  /\ IF dma_chan[c] /\ cookie[c]
     THEN /\ claimed' = [claimed EXCEPT ![c] = FALSE]
          /\ stage' = [stage EXCEPT ![c] = "none"]
     ELSE UNCHANGED <<claimed, stage>>
  /\ UNCHANGED <<dma_chan, cmp, cookie, owner, engine, calling, expired, buffers, mapped>>

Release(p, c) ==
  /\ At(p, IF c = "tx" THEN "release_tx" ELSE "release_rx")
  /\ GotoUnlessNull(p, c, IF c = "tx" THEN "release_rx" ELSE "idle")
  /\ IF dma_chan[c]
     THEN /\ claimed' = [claimed EXCEPT ![c] = FALSE]
          /\ stage' = [stage EXCEPT ![c] = "none"]
     ELSE UNCHANGED <<claimed, stage>>
  /\ UNCHANGED <<dma_chan, cmp, cookie, owner, engine, calling, expired, buffers, mapped>>
-----------------------------------------------------------------------------
(* The channel *)

\* The interrupt handler completes what is active and starts what is pending.
EngineDone(c) ==
  /\ engine[c] # Nobody
  /\ stage' = [stage EXCEPT ![c] = IF @ = "active" THEN "done"
                                   ELSE IF @ = "pending" THEN "active" ELSE @]
  /\ engine' = [engine EXCEPT ![c] = IF stage[c] = "pending" THEN owner[c] ELSE Nobody]
  /\ UNCHANGED <<dma_chan, claimed, cmp, cookie, owner, calling, pc, expired, buffers,
                 mapped>>

Tasklet(c) ==
  /\ stage[c] = "done" /\ ~calling[c]
  /\ stage' = [stage EXCEPT ![c] = "none"]
  /\ calling' = [calling EXCEPT ![c] = TRUE]
  /\ UNCHANGED <<dma_chan, claimed, cmp, cookie, owner, engine, pc, expired, buffers,
                 mapped>>

SyncCallback(c) ==
  /\ calling[c]
  /\ calling' = [calling EXCEPT ![c] = FALSE]
  /\ cmp' = [cmp EXCEPT ![c] = @ + 1]
  /\ UNCHANGED <<dma_chan, claimed, cookie, stage, owner, engine, pc, expired, buffers,
                 mapped>>
-----------------------------------------------------------------------------
Transfer(p) ==
  \/ CheckChannels(p) \/ AllocBuffers(p) \/ MapBuffers(p) \/ SubmitError(p)
  \/ WaitDone(p) \/ WaitTimeout(p) \/ Unmap(p) \/ FreeBuffers(p)
  \/ \E c \in Chan : \/ Request(p, c) \/ PrepBuffer(p, c) \/ InitCompletion(p, c)
                     \/ IssuePending(p, c) \/ Release(p, c)

ChannelStep(c) == EngineDone(c) \/ Tasklet(c) \/ SyncCallback(c)

Next ==
  \/ \E p \in Process : Ioctl(p) \/ Transfer(p)
  \/ \E c \in Chan : ChannelStep(c)

Spec == Init /\ [][Next]_vars

\* A process goes on with the test it has begun, the engine ends each transfer,
\* and the kernel runs the handler and the tasklet.
FairSpec ==
  /\ Spec
  /\ \A p \in Process : WF_vars(Transfer(p))
  /\ \A c \in Chan : WF_vars(ChannelStep(c))
-----------------------------------------------------------------------------
(* Properties *)

\* The program points between the check of the channels and their release.
InTransfer(p) == pc[p] \notin {"idle", "request_tx", "request_rx", "check", "oops"}

\* tx_cmp, rx_cmp, the cookies and the handles are static: at most one process
\* is between the check of the channels and their release.  Only the core of
\* dmaengine keeps the others out, through pointers they share.
TransferExclusive == \A p, q \in Process : InTransfer(p) /\ InTransfer(q) => p = q

\* "Step 12, release the DMA channels back to the DMA engine": when no process
\* runs the test, no channel is handed out.
ChannelsReleased ==
  (\A p \in Process : pc[p] \in {"idle", "oops"}) => \A c \in Chan : ~claimed[c]

\* The transmit buffer is mapped for as long as the engine reads it.
TxMappedWhileDma == engine["tx"] # Nobody => "tx" \in mapped[engine["tx"]]

\* A process that is woken up, and not by its timer, has waited for the end of
\* its own transmit transfer.
WaitsForTransfer ==
  \A p \in Process : At(p, "unmap") /\ ~expired[p] => stage["tx"] \notin {"pending", "active"}

\* When every transfer ends in time, each test that has its channels ends.
TestEnds == \A p \in Process : At(p, "alloc") ~> At(p, "idle")
-----------------------------------------------------------------------------
(* Two more that the code does not have; the README says when TLC refutes them. *)

\* The receive buffer is mapped for as long as the engine writes it.
RxMappedWhileDma == engine["rx"] # Nobody => "rx" \in mapped[engine["rx"]]

\* Steps 10 and 11: when the test is over, its buffers are unmapped and freed.
BuffersFreed == \A p \in Process : At(p, "idle") => mapped[p] = {} /\ buffers[p] = {}
=============================================================================
