------------------------- MODULE AxiDmaClientProofs -------------------------
(***************************************************************************)
(* For every number of processes: at most one of them is in the transfer   *)
(* of the loop-back test.  The static pointer rx_chan is all that decides  *)
(* who goes on, and any process may overwrite it; it works because a       *)
(* request that fails makes the pointer NULL while the channel is handed   *)
(* out, and from then on nobody can release the channel or pass the check. *)
(*                                                                         *)
(* For one process and both channels, as the loop-back module runs the     *)
(* test at its init: the channels are given back, and, as long as no wait  *)
(* times out, the transmit buffer stays mapped while the engine reads it   *)
(* and each wait is ended by the callback of the transfer it is for.       *)
(***************************************************************************)
EXTENDS AxiDmaClient, TLAPS

\* The processes that have requested rx and not released it.
HasRequestedRx(p) == pc[p] = "check" \/ InTransfer(p)

Typed ==
  /\ dma_chan \in [Chan -> BOOLEAN] /\ claimed \in [Chan -> BOOLEAN]
  /\ pc \in [Process -> Steps]

\* While rx_chan points to the channel, at most one process has requested it,
\* and none when the core has it back.
PointerIsExclusive ==
  dma_chan["rx"] => /\ \A p, q \in Process : HasRequestedRx(p) /\ HasRequestedRx(q) => p = q
                    /\ ~claimed["rx"] => \A p \in Process : ~HasRequestedRx(p)

\* A channel is only handed out while it is present; a process that has
\* requested one that is free again found it absent.
FreeIsUnrequested ==
  "rx" \in Present /\ ~claimed["rx"] => \A p \in Process : ~HasRequestedRx(p)

IInv == Typed /\ PointerIsExclusive /\ FreeIsUnrequested /\ TransferExclusive

\* Nobody has requested anything at first.
LEMMA InitInv == Init => IInv
BY DEF Init, IInv, Typed, PointerIsExclusive, FreeIsUnrequested, TransferExclusive,
       InTransfer, HasRequestedRx, Chan, Steps

\* A step that leaves the pointer and the state of rx alone, and lets nobody
\* request the channel or enter the transfer, keeps the invariant.
LEMMA Quiet ==
  ASSUME IInv, Typed',
         dma_chan'["rx"] = dma_chan["rx"], claimed'["rx"] = claimed["rx"],
         \A p \in Process : HasRequestedRx(p)' => HasRequestedRx(p),
         \A p \in Process : InTransfer(p)' => InTransfer(p)
  PROVE  IInv'
<1>1. PointerIsExclusive'
  BY DEF IInv, PointerIsExclusive
<1>2. FreeIsUnrequested'
  BY DEF IInv, FreeIsUnrequested
<1>3. TransferExclusive'
  BY DEF IInv, TransferExclusive
<1> QED BY <1>1, <1>2, <1>3 DEF IInv

\* A step of p from a program point where it has requested rx to another one, or
\* out of the test, is such a step.
LEMMA Moves ==
  ASSUME IInv, NEW p \in Process, NEW to \in Steps,
         pc' = [pc EXCEPT ![p] = to], dma_chan' = dma_chan,
         claimed' \in [Chan -> BOOLEAN], claimed'["rx"] = claimed["rx"],
         InTransfer(p) \/ to \in {"idle", "request_tx", "request_rx", "oops"}
  PROVE  IInv'
<1>1. Typed'
  BY DEF IInv, Typed
<1>2. \A q \in Process : pc'[q] = IF q = p THEN to ELSE pc[q]
  BY DEF IInv, Typed
<1>3. \A q \in Process : HasRequestedRx(q)' => HasRequestedRx(q)
  BY <1>2 DEF HasRequestedRx, InTransfer
<1>4. \A q \in Process : InTransfer(q)' => InTransfer(q)
  BY <1>2 DEF InTransfer
<1> QED BY <1>1, <1>3, <1>4, Quiet

\* The request for rx: the pointer is set only when the channel is free, and then
\* nobody else has requested it.
LEMMA RequestRxInv ==
  ASSUME IInv, NEW p \in Process, Request(p, "rx")  PROVE IInv'
<1>1. /\ pc[p] = "request_rx" /\ pc' = [pc EXCEPT ![p] = "check"]
      /\ dma_chan' = [dma_chan EXCEPT !["rx"] = "rx" \in Present /\ ~claimed["rx"]]
      /\ claimed' = [claimed EXCEPT !["rx"] = @ \/ "rx" \in Present]
  BY DEF Request, At, Goto
<1>2. Typed'
  BY <1>1 DEF IInv, Typed, Chan, Steps
<1>3. /\ dma_chan'["rx"] <=> "rx" \in Present /\ ~claimed["rx"]
      /\ claimed'["rx"] <=> claimed["rx"] \/ "rx" \in Present
  BY <1>1 DEF IInv, Typed, Chan
<1>4. \A q \in Process : pc'[q] = IF q = p THEN "check" ELSE pc[q]
  BY <1>1 DEF IInv, Typed
<1>5. PointerIsExclusive'
  <2> SUFFICES ASSUME dma_chan'["rx"]
               PROVE  /\ \A q \in Process : HasRequestedRx(q)' => q = p
                      /\ claimed'["rx"]
    BY DEF PointerIsExclusive
  <2>1. \A q \in Process : ~HasRequestedRx(q)
    BY <1>3 DEF IInv, FreeIsUnrequested
  <2> QED BY <1>3, <1>4, <2>1 DEF HasRequestedRx, InTransfer
<1>6. FreeIsUnrequested'
  BY <1>3 DEF FreeIsUnrequested
<1>7. TransferExclusive'
  BY <1>4 DEF IInv, TransferExclusive, InTransfer
<1> QED BY <1>2, <1>5, <1>6, <1>7 DEF IInv

\* A request for tx does not touch rx.
LEMMA RequestTxInv ==
  ASSUME IInv, NEW p \in Process, Request(p, "tx")  PROVE IInv'
<1>1. /\ pc[p] = "request_tx" /\ pc' = [pc EXCEPT ![p] = "request_rx"]
      /\ dma_chan' = [dma_chan EXCEPT !["tx"] = "tx" \in Present /\ ~claimed["tx"]]
      /\ claimed' = [claimed EXCEPT !["tx"] = @ \/ "tx" \in Present]
  BY DEF Request, At, Goto
<1>2. Typed'
  BY <1>1 DEF IInv, Typed, Chan, Steps
<1>3. dma_chan'["rx"] = dma_chan["rx"] /\ claimed'["rx"] = claimed["rx"]
  BY <1>1 DEF IInv, Typed, Chan
<1>4. \A q \in Process : pc'[q] = IF q = p THEN "request_rx" ELSE pc[q]
  BY <1>1 DEF IInv, Typed
<1>5. \A q \in Process : HasRequestedRx(q)' => HasRequestedRx(q)
  BY <1>4 DEF HasRequestedRx, InTransfer
<1>6. \A q \in Process : InTransfer(q)' => InTransfer(q)
  BY <1>4 DEF InTransfer
<1> QED BY <1>2, <1>3, <1>5, <1>6, Quiet

\* The check lets a process go on only while both pointers are set, and then it
\* is the only one that has requested rx.
LEMMA CheckChannelsInv ==
  ASSUME IInv, NEW p \in Process, CheckChannels(p)  PROVE IInv'
<1>1. pc[p] = "check" /\ UNCHANGED <<dma_chan, claimed>>
  BY DEF CheckChannels, At
<1>2. CASE \A c \in Chan : dma_chan[c]
  <2>1. pc' = [pc EXCEPT ![p] = "alloc"]
    BY <1>2 DEF CheckChannels, Goto
  <2>2. Typed'
    BY <1>1, <2>1 DEF IInv, Typed, Steps
  <2>3. \A q \in Process : pc'[q] = IF q = p THEN "alloc" ELSE pc[q]
    BY <2>1 DEF IInv, Typed
  <2>4. \A q \in Process : HasRequestedRx(q)' <=> HasRequestedRx(q)
    BY <1>1, <2>3 DEF HasRequestedRx, InTransfer
  <2>5. \A q, r \in Process : HasRequestedRx(q) /\ HasRequestedRx(r) => q = r
    BY <1>2 DEF IInv, PointerIsExclusive, Chan
  <2>6. PointerIsExclusive'
    BY <1>1, <2>4 DEF IInv, PointerIsExclusive
  <2>7. FreeIsUnrequested'
    BY <1>1, <2>4 DEF IInv, FreeIsUnrequested
  <2>8. TransferExclusive'
    BY <2>4, <2>5 DEF TransferExclusive, HasRequestedRx
  <2> QED BY <2>2, <2>6, <2>7, <2>8 DEF IInv
<1>3. CASE ~ \A c \in Chan : dma_chan[c]
  <2>1. pc' = [pc EXCEPT ![p] = "idle"]
    BY <1>3 DEF CheckChannels, Goto
  <2> QED BY <1>1, <2>1, Moves DEF IInv, Typed, Steps
<1> QED BY <1>2, <1>3

\* A release gives the channel back only while the pointer is set: the process
\* that releases is then the only one that has requested it.
LEMMA ReleaseRxInv ==
  ASSUME IInv, NEW p \in Process, Release(p, "rx")  PROVE IInv'
<1>1. /\ pc[p] = "release_rx" /\ dma_chan' = dma_chan
      /\ pc' = [pc EXCEPT ![p] = IF dma_chan["rx"] THEN "idle" ELSE "oops"]
      /\ claimed' = IF dma_chan["rx"] THEN [claimed EXCEPT !["rx"] = FALSE] ELSE claimed
  BY DEF Release, At, Goto, GotoUnlessNull
<1>2. CASE ~dma_chan["rx"]
  <2>1. pc' = [pc EXCEPT ![p] = "oops"] /\ claimed' = claimed
    BY <1>1, <1>2
  <2>2. claimed' \in [Chan -> BOOLEAN] /\ InTransfer(p) /\ "oops" \in Steps
    BY <1>1, <2>1 DEF IInv, Typed, InTransfer, Steps
  <2> QED BY <1>1, <2>1, <2>2, Moves
<1>3. CASE dma_chan["rx"]
  <2>1. Typed'
    BY <1>1 DEF IInv, Typed, Chan, Steps
  <2>2. \A q \in Process : pc'[q] = IF q = p THEN "idle" ELSE pc[q]
    BY <1>1, <1>3 DEF IInv, Typed
  <2>3. HasRequestedRx(p)
    BY <1>1 DEF HasRequestedRx, InTransfer
  <2>4. \A q \in Process : ~HasRequestedRx(q)'
    BY <1>3, <2>2, <2>3 DEF IInv, PointerIsExclusive, HasRequestedRx, InTransfer
  <2>5. PointerIsExclusive' /\ FreeIsUnrequested'
    BY <2>4 DEF PointerIsExclusive, FreeIsUnrequested
  <2>6. TransferExclusive'
    BY <2>4 DEF TransferExclusive, HasRequestedRx
  <2> QED BY <2>1, <2>5, <2>6 DEF IInv
<1> QED BY <1>2, <1>3

\* The release of tx leaves rx alone.
LEMMA ReleaseTxInv ==
  ASSUME IInv, NEW p \in Process, Release(p, "tx")  PROVE IInv'
<1>1. /\ pc[p] = "release_tx" /\ dma_chan' = dma_chan
      /\ pc' = [pc EXCEPT ![p] = IF dma_chan["tx"] THEN "release_rx" ELSE "oops"]
      /\ claimed' = IF dma_chan["tx"] THEN [claimed EXCEPT !["tx"] = FALSE] ELSE claimed
  BY DEF Release, At, Goto, GotoUnlessNull
<1>2. claimed' \in [Chan -> BOOLEAN] /\ claimed'["rx"] = claimed["rx"]
  BY <1>1 DEF IInv, Typed, Chan
<1>3. InTransfer(p)
  BY <1>1 DEF InTransfer
<1>4. (IF dma_chan["tx"] THEN "release_rx" ELSE "oops") \in Steps
  BY DEF Steps
<1> QED BY <1>1, <1>2, <1>3, <1>4, Moves

\* Each step of a process keeps the invariant.
LEMMA TransferInv ==
  ASSUME IInv, NEW p \in Process, Ioctl(p) \/ Transfer(p)  PROVE IInv'
<1> USE DEF At, Goto, GotoUnlessNull, Steps
<1>0. claimed \in [Chan -> BOOLEAN]
  BY DEF IInv, Typed
<1>1. CASE Ioctl(p)
  BY <1>0, <1>1, Moves DEF Ioctl
<1>2. CASE CheckChannels(p)
  BY <1>2, CheckChannelsInv
<1>3. CASE AllocBuffers(p)
  <2>1. PICK got \in SUBSET Chan :
          pc' = [pc EXCEPT ![p] = IF got = Chan THEN "map" ELSE "release_tx"]
    BY <1>3 DEF AllocBuffers
  <2> QED BY <1>0, <1>3, <2>1, Moves DEF AllocBuffers, InTransfer
<1>4. CASE MapBuffers(p)
  BY <1>0, <1>4, Moves DEF MapBuffers, InTransfer
<1>5. CASE SubmitError(p)
  BY <1>0, <1>5, Moves DEF SubmitError, InTransfer
<1>6. CASE WaitDone(p)
  BY <1>0, <1>6, Moves DEF WaitDone, InTransfer
<1>7. CASE WaitTimeout(p)
  BY <1>0, <1>7, Moves DEF WaitTimeout, InTransfer
<1>8. CASE Unmap(p)
  BY <1>0, <1>8, Moves DEF Unmap, InTransfer
<1>9. CASE FreeBuffers(p)
  BY <1>0, <1>9, Moves DEF FreeBuffers, InTransfer
<1>10. ASSUME NEW c \in Chan, Request(p, c)  PROVE IInv'
  BY <1>10, RequestRxInv, RequestTxInv DEF Chan
<1>11. ASSUME NEW c \in Chan, PrepBuffer(p, c)  PROVE IInv'
  BY <1>0, <1>11, Moves DEF PrepBuffer, InTransfer
<1>12. ASSUME NEW c \in Chan, InitCompletion(p, c)  PROVE IInv'
  BY <1>0, <1>12, Moves DEF InitCompletion, InTransfer
<1>13. ASSUME NEW c \in Chan, IssuePending(p, c)  PROVE IInv'
  BY <1>0, <1>13, Moves DEF IssuePending, InTransfer
<1>14. ASSUME NEW c \in Chan, Release(p, c)  PROVE IInv'
  BY <1>14, ReleaseRxInv, ReleaseTxInv DEF Chan
<1> QED BY <1>1, <1>2, <1>3, <1>4, <1>5, <1>6, <1>7, <1>8, <1>9, <1>10, <1>11, <1>12,
           <1>13, <1>14 DEF Transfer

\* Every step keeps the invariant; those of the channels touch nothing it is about.
LEMMA NextInv == IInv /\ [Next]_vars => IInv'
<1> SUFFICES ASSUME IInv, [Next]_vars  PROVE IInv'
  OBVIOUS
<1>1. CASE \E p \in Process : Ioctl(p) \/ Transfer(p)
  BY <1>1, TransferInv
<1>2. CASE (\E c \in Chan : ChannelStep(c)) \/ UNCHANGED vars
  <2>1. UNCHANGED <<dma_chan, claimed, pc>>
    BY <1>2 DEF ChannelStep, EngineDone, Tasklet, SyncCallback, vars
  <2> QED BY <2>1 DEF IInv, Typed, PointerIsExclusive, FreeIsUnrequested,
                      TransferExclusive, HasRequestedRx, InTransfer
<1> QED BY <1>1, <1>2 DEF Next

\* At most one process is between the check of the channels and their release,
\* whatever the processes, the channels that are present and the faults: the
\* static completions, cookies and handles of vxdma_dev.c belong to one caller.
THEOREM ExclusiveTransfer == Spec => []TransferExclusive
<1>1. IInv => TransferExclusive
  BY DEF IInv
<1> QED BY <1>1, InitInv, NextInv, PTL DEF Spec
-----------------------------------------------------------------------------
(* One process *)

\* The test is only run by one process at a time, as vxdma_dev_ioctl expects, and
\* both channels are there.
OneProcess == \A p, q \in Process : p = q

\* What the process has of the channels at each point: the handles are valid from
\* the check on, and the channels are given back one after the other.
HasChannels(p) ==
  /\ pc[p] # "oops"
  /\ pc[p] \in {"idle", "request_tx"} => \A c \in Chan : ~claimed[c]
  /\ pc[p] = "request_rx" => dma_chan["tx"] /\ ~claimed["rx"]
  /\ HasRequestedRx(p) => \A c \in Chan : dma_chan[c]
  /\ pc[p] = "release_rx" => ~claimed["tx"]

ReleaseInv ==
  /\ Typed
  /\ \A p \in Process : HasChannels(p)
  /\ Process = {} => \A c \in Chan : ~claimed[c]

LEMMA ReleaseStep ==
  ASSUME OneProcess, Present = Chan, ReleaseInv, [Next]_vars
  PROVE  ReleaseInv'
<1> USE DEF ReleaseInv
<1>1. ASSUME NEW p \in Process, NEW to \in Steps, pc' = [pc EXCEPT ![p] = to],
             dma_chan' \in [Chan -> BOOLEAN], claimed' \in [Chan -> BOOLEAN],
             to # "oops",
             to \in {"idle", "request_tx"} => \A c \in Chan : ~claimed'[c],
             to = "request_rx" => dma_chan'["tx"] /\ ~claimed'["rx"],
             to \notin {"idle", "request_tx", "request_rx"} => \A c \in Chan : dma_chan'[c],
             to = "release_rx" => ~claimed'["tx"]
      PROVE  ReleaseInv'
  <2>1. Typed' /\ pc'[p] = to /\ \A q \in Process : q = p
    BY <1>1 DEF Typed, OneProcess
  <2> QED BY <1>1, <2>1 DEF HasChannels, HasRequestedRx, InTransfer
<1>2. ASSUME NEW p \in Process, NEW to \in Steps, pc' = [pc EXCEPT ![p] = to],
             InTransfer(p), UNCHANGED <<dma_chan, claimed>>,
             to \notin {"idle", "request_tx", "request_rx", "release_rx", "oops"}
      PROVE  ReleaseInv'
  <2>1. \A c \in Chan : dma_chan[c]
    BY <1>2 DEF HasChannels, HasRequestedRx
  <2> QED BY <1>1, <1>2, <2>1 DEF Typed
<1>3. ASSUME NEW p \in Process, Ioctl(p) \/ Transfer(p)
      PROVE  ReleaseInv'
  <2>1. HasChannels(p) /\ dma_chan \in [Chan -> BOOLEAN] /\ claimed \in [Chan -> BOOLEAN]
    BY DEF Typed
  <2>2. CASE Ioctl(p)
    BY <1>1, <2>1, <2>2 DEF Ioctl, At, Goto, HasChannels, Steps
  <2>3. CASE CheckChannels(p)
    <3>1. \A c \in Chan : dma_chan[c]
      BY <2>1, <2>3 DEF CheckChannels, At, HasChannels, HasRequestedRx
    <3> QED BY <1>1, <2>1, <2>3, <3>1 DEF CheckChannels, Goto, Steps
  <2>4. CASE AllocBuffers(p)
    <3>1. \E to \in {"map", "release_tx"} : pc' = [pc EXCEPT ![p] = to]
      BY <2>4 DEF AllocBuffers, Goto
    <3> QED BY <1>2, <2>4, <3>1 DEF AllocBuffers, At, InTransfer, Steps
  <2>5. CASE MapBuffers(p) \/ Unmap(p)
    <3>1. \A c \in Chan : dma_chan[c]
      BY <2>1, <2>5 DEF MapBuffers, Unmap, At, HasChannels, HasRequestedRx, InTransfer
    <3> QED BY <1>2, <2>5, <3>1 DEF MapBuffers, Unmap, At, Goto, InTransfer, Steps
  <2>6. CASE SubmitError(p) \/ WaitDone(p) \/ WaitTimeout(p) \/ FreeBuffers(p)
    BY <1>2, <2>6 DEF SubmitError, WaitDone, WaitTimeout, FreeBuffers, At, Goto, InTransfer, Steps
  <2>7. ASSUME NEW c \in Chan, PrepBuffer(p, c) \/ InitCompletion(p, c) \/ IssuePending(p, c)
        PROVE  ReleaseInv'
    <3>1. InTransfer(p) /\ dma_chan[c]
      BY <2>1, <2>7 DEF PrepBuffer, InitCompletion, IssuePending, At, HasChannels,
         HasRequestedRx, InTransfer
    <3> QED BY <1>2, <2>7, <3>1
            DEF PrepBuffer, InitCompletion, IssuePending, GotoUnlessNull, Goto, Steps
  <2>8. CASE Request(p, "tx")
    <3>1. /\ \A c \in Chan : ~claimed[c]
          /\ pc' = [pc EXCEPT ![p] = "request_rx"]
          /\ dma_chan' = [dma_chan EXCEPT !["tx"] = "tx" \in Present /\ ~claimed["tx"]]
          /\ claimed' = [claimed EXCEPT !["tx"] = @ \/ "tx" \in Present]
      BY <2>1, <2>8 DEF Request, At, Goto, HasChannels
    <3>2. /\ dma_chan' \in [Chan -> BOOLEAN] /\ claimed' \in [Chan -> BOOLEAN]
          /\ dma_chan'["tx"] /\ ~claimed'["rx"]
      BY <2>1, <3>1 DEF Chan
    <3> QED BY <1>1, <3>1, <3>2 DEF Steps
  <2>9. CASE Request(p, "rx")
    <3>1. /\ dma_chan["tx"] /\ ~claimed["rx"]
          /\ pc' = [pc EXCEPT ![p] = "check"]
          /\ dma_chan' = [dma_chan EXCEPT !["rx"] = "rx" \in Present /\ ~claimed["rx"]]
          /\ claimed' = [claimed EXCEPT !["rx"] = @ \/ "rx" \in Present]
      BY <2>1, <2>9 DEF Request, At, Goto, HasChannels
    <3>2. /\ dma_chan' \in [Chan -> BOOLEAN] /\ claimed' \in [Chan -> BOOLEAN]
          /\ \A c \in Chan : dma_chan'[c]
      BY <2>1, <3>1 DEF Chan
    <3> QED BY <1>1, <3>1, <3>2 DEF Steps
  <2>10. ASSUME NEW c \in Chan, Release(p, c)
         PROVE  ReleaseInv'
    <3>1. \A x \in Chan : dma_chan[x]
      BY <2>1, <2>10 DEF Release, At, HasChannels, HasRequestedRx, InTransfer
    <3>2. /\ dma_chan' = dma_chan
          /\ claimed' = [claimed EXCEPT ![c] = FALSE]
          /\ pc' = [pc EXCEPT ![p] = IF c = "tx" THEN "release_rx" ELSE "idle"]
          /\ c = "rx" => ~claimed["tx"]
      BY <2>1, <2>10, <3>1 DEF Release, At, GotoUnlessNull, Goto, HasChannels
    <3>3. /\ claimed' \in [Chan -> BOOLEAN]
          /\ c = "tx" => ~claimed'["tx"]
          /\ c = "rx" => \A x \in Chan : ~claimed'[x]
      BY <2>1, <3>2 DEF Chan
    <3>4. CASE c = "tx"
      BY <1>1, <2>1, <3>1, <3>2, <3>3, <3>4 DEF Steps
    <3>5. CASE c = "rx"
      BY <1>1, <2>1, <3>1, <3>2, <3>3, <3>5 DEF Steps
    <3> QED BY <3>4, <3>5 DEF Chan
  <2> QED BY <1>3, <2>2, <2>3, <2>4, <2>5, <2>6, <2>7, <2>8, <2>9, <2>10 DEF Transfer, Chan
<1>4. CASE (\E c \in Chan : ChannelStep(c)) \/ UNCHANGED vars
  <2>1. UNCHANGED <<dma_chan, claimed, pc>>
    BY <1>4 DEF ChannelStep, EngineDone, Tasklet, SyncCallback, vars
  <2> QED BY <2>1 DEF Typed, HasChannels, HasRequestedRx, InTransfer
<1> QED BY <1>3, <1>4 DEF Next

\* With both channels present, every way out of the test of one process gives both
\* back, whatever fails; and no handle that is used is NULL.
THEOREM ChannelsGivenBack ==
  ASSUME OneProcess, Present = Chan PROVE Spec => []ChannelsReleased
<1>1. Init => ReleaseInv
  BY DEF Init, ReleaseInv, Typed, HasChannels, HasRequestedRx, InTransfer, Chan, Steps
<1>2. ReleaseInv /\ [Next]_vars => ReleaseInv'
  BY ReleaseStep
<1>3. ReleaseInv => ChannelsReleased
  BY DEF ReleaseInv, HasChannels, ChannelsReleased
<1> QED BY <1>1, <1>2, <1>3, PTL DEF Spec
-----------------------------------------------------------------------------
(* The transmit buffer *)

\* The engine does not have the transmit channel and no callback is due.
TxQuiet == engine["tx"] = Nobody /\ ~calling["tx"]

\* The transmit transaction is submitted and not started.
TxSubmitted(p) == stage["tx"] = "pending" /\ owner["tx"] = p

\* From its start to its callback the transmit transfer is in one place, and the
\* completion is counted when it has left the last one.
TxOnItsWay(p) ==
  \/ stage["tx"] = "active" /\ engine["tx"] = p /\ ~calling["tx"] /\ cmp["tx"] = 0
  \/ stage["tx"] = "done" /\ TxQuiet /\ cmp["tx"] = 0
  \/ stage["tx"] = "none" /\ engine["tx"] = Nobody /\ calling["tx"] /\ cmp["tx"] = 0
  \/ stage["tx"] = "none" /\ TxQuiet /\ cmp["tx"] = 1

\* The transmit channel at each point of the test.
TxAt(p) ==
  /\ pc[p] # "wait" => TxQuiet
  /\ pc[p] = "wait" => TxOnItsWay(p)
  /\ pc[p] \in {"idle", "request_tx", "request_rx", "check", "alloc", "map", "prep_rx",
                "prep_tx", "unmap", "kfree", "release_rx"} => stage["tx"] = "none"
  /\ pc[p] \in {"submit_error", "release_tx"} => stage["tx"] \in {"none", "pending"}
  /\ pc[p] = "submit_error" => (cookie["tx"] => TxSubmitted(p))
  /\ pc[p] \in {"init_rx", "issue_rx", "init_tx", "issue_tx"} => TxSubmitted(p)
  /\ pc[p] = "issue_tx" => cmp["tx"] = 0
  /\ pc[p] \in {"prep_rx", "prep_tx", "submit_error", "init_rx", "issue_rx", "init_tx",
                "issue_tx", "wait"} => "tx" \in mapped[p]

TxTyped ==
  /\ cmp \in [Chan -> Int] /\ cookie \in [Chan -> BOOLEAN]
  /\ stage \in [Chan -> {"none", "pending", "active", "done"}]
  /\ owner \in [Chan -> Process \cup {Nobody}]
  /\ engine \in [Chan -> Process \cup {Nobody}]
  /\ calling \in [Chan -> BOOLEAN]
  /\ mapped \in [Process -> SUBSET Chan]

TxInv ==
  /\ ReleaseInv /\ TxTyped
  /\ \A p \in Process : TxAt(p)

LEMMA TxTypedStep ==
  ASSUME TxTyped, [Next]_vars  PROVE TxTyped'
<1> USE DEF TxTyped
<1>1. CASE UNCHANGED vars
  BY <1>1 DEF vars, dmaVars
<1>2. ASSUME NEW p \in Process, Ioctl(p) \/ CheckChannels(p) \/ AllocBuffers(p) \/ SubmitError(p)
                                \/ WaitTimeout(p) \/ FreeBuffers(p)
      PROVE  TxTyped'
  BY <1>2 DEF Ioctl, CheckChannels, AllocBuffers, SubmitError, WaitTimeout, FreeBuffers, dmaVars
<1>3. ASSUME NEW p \in Process, MapBuffers(p) \/ Unmap(p)
      PROVE  TxTyped'
  <2>1. \E m \in SUBSET Chan : mapped' = [mapped EXCEPT ![p] = m]
    BY <1>3 DEF MapBuffers, Unmap
  <2>2. mapped' \in [Process -> SUBSET Chan]
    BY <2>1
  <2> QED BY <1>3, <2>2 DEF MapBuffers, Unmap, dmaVars
<1>4. ASSUME NEW p \in Process, WaitDone(p)
      PROVE  TxTyped'
  <2>1. cmp' \in [Chan -> Int]
    BY <1>4 DEF WaitDone, Chan
  <2> QED BY <1>4, <2>1 DEF WaitDone, dmaVars
<1>5. ASSUME NEW p \in Process, NEW c \in Chan, Request(p, c)
      PROVE  TxTyped'
  BY <1>5 DEF Request, dmaVars
<1>6. ASSUME NEW p \in Process, NEW c \in Chan, PrepBuffer(p, c)
      PROVE  TxTyped'
  <2>1. /\ \E st \in {stage[c], "pending"} : stage' = [stage EXCEPT ![c] = st]
        /\ \E o \in {owner[c], p} : owner' = [owner EXCEPT ![c] = o]
        /\ \E ok \in BOOLEAN : cookie' = [cookie EXCEPT ![c] = ok]
    BY <1>6 DEF PrepBuffer
  <2>2. /\ stage' \in [Chan -> {"none", "pending", "active", "done"}]
        /\ owner' \in [Chan -> Process \cup {Nobody}]
        /\ cookie' \in [Chan -> BOOLEAN]
    BY <2>1
  <2> QED BY <1>6, <2>2 DEF PrepBuffer
<1>7. ASSUME NEW p \in Process, NEW c \in Chan, InitCompletion(p, c)
      PROVE  TxTyped'
  BY <1>7 DEF InitCompletion, dmaVars
<1>8. ASSUME NEW p \in Process, NEW c \in Chan, IssuePending(p, c)
      PROVE  TxTyped'
  BY <1>8 DEF IssuePending, Started
<1>9. ASSUME NEW p \in Process, NEW c \in Chan, Release(p, c)
      PROVE  TxTyped'
  BY <1>9 DEF Release
<1>10. ASSUME NEW c \in Chan, EngineDone(c)
       PROVE  TxTyped'
  <2>1. /\ \E st \in {"none", "pending", "active", "done"} : stage' = [stage EXCEPT ![c] = st]
        /\ \E o \in Process \cup {Nobody} : engine' = [engine EXCEPT ![c] = o]
    BY <1>10 DEF EngineDone
  <2> QED BY <1>10, <2>1 DEF EngineDone
<1>11. ASSUME NEW c \in Chan, Tasklet(c) \/ SyncCallback(c)
       PROVE  TxTyped'
  <2>1. CASE Tasklet(c)
    BY <2>1 DEF Tasklet
  <2>2. CASE SyncCallback(c)
    <3>1. cmp' \in [Chan -> Int] /\ calling' \in [Chan -> BOOLEAN]
      BY <2>2 DEF SyncCallback
    <3> QED BY <2>2, <3>1 DEF SyncCallback
  <2> QED BY <1>11, <2>1, <2>2
<1> QED BY <1>1, <1>2, <1>3, <1>4, <1>5, <1>6, <1>7, <1>8, <1>9, <1>10, <1>11
        DEF Next, Transfer, ChannelStep

\* A step of the process moves the transmit transaction along with it.
LEMMA TxTransfer ==
  ASSUME OneProcess, "timeout" \notin Faults, ClientAssumption, TxInv,
         NEW p \in Process, Ioctl(p) \/ Transfer(p)
  PROVE  TxAt(p)'
<1> USE DEF At, Goto, TxQuiet, TxSubmitted
<1>1. /\ TxAt(p) /\ HasChannels(p) /\ TxTyped
      /\ pc \in [Process -> Steps] /\ Nobody \notin Process
  BY DEF TxInv, ReleaseInv, Typed, ClientAssumption
<1>2. HasRequestedRx(p) => dma_chan["tx"] /\ dma_chan["rx"]
  BY <1>1 DEF HasChannels, Chan
<1>3. CASE Ioctl(p) \/ CheckChannels(p)
  BY <1>1, <1>3 DEF Ioctl, CheckChannels, TxAt, dmaVars
<1>4. CASE AllocBuffers(p)
  BY <1>1, <1>4 DEF AllocBuffers, TxAt, dmaVars
<1>5. CASE MapBuffers(p)
  <2>1. pc'[p] = "prep_rx" /\ mapped'[p] = Chan
    BY <1>1, <1>2, <1>5 DEF MapBuffers, HasRequestedRx, InTransfer, Chan, TxTyped
  <2> QED BY <1>1, <1>5, <2>1 DEF MapBuffers, TxAt, dmaVars, Chan
<1>6. CASE SubmitError(p)
  BY <1>1, <1>6 DEF SubmitError, TxAt, dmaVars, Chan
<1>7. CASE WaitDone(p)
  <2>1. stage["tx"] = "none" /\ TxQuiet
    BY <1>1, <1>7 DEF WaitDone, TxAt, TxOnItsWay
  <2> QED BY <1>1, <1>7, <2>1 DEF WaitDone, TxAt, dmaVars
<1>8. CASE WaitTimeout(p)
  BY <1>8 DEF WaitTimeout
<1>9. CASE Unmap(p) \/ FreeBuffers(p)
  <2>1. pc'[p] \in {"kfree", "release_tx"}
    BY <1>1, <1>2, <1>9 DEF Unmap, FreeBuffers, HasRequestedRx, InTransfer, Chan
  <2> QED BY <1>1, <1>9, <2>1 DEF Unmap, FreeBuffers, TxAt, dmaVars
<1>10. ASSUME NEW c \in Chan, Request(p, c)
       PROVE  TxAt(p)'
  <2>1. pc'[p] \in {"request_rx", "check"} /\ pc[p] \in {"request_tx", "request_rx"}
    BY <1>1, <1>10 DEF Request
  <2> QED BY <1>1, <1>10, <2>1 DEF Request, TxAt, dmaVars
<1>11. ASSUME NEW c \in Chan, PrepBuffer(p, c)
       PROVE  TxAt(p)'
  <2>1. dma_chan[c]
    BY <1>2, <1>11 DEF PrepBuffer, HasRequestedRx, InTransfer, Chan
  <2>2. CASE c = "rx"
    <3>1. /\ pc[p] = "prep_rx" /\ pc'[p] = "prep_tx"
          /\ stage'["tx"] = stage["tx"]
      BY <1>1, <1>11, <2>1, <2>2 DEF PrepBuffer, GotoUnlessNull, TxTyped, Chan
    <3>2. UNCHANGED <<engine, calling, mapped>>
      BY <1>11 DEF PrepBuffer
    <3> QED BY <1>1, <3>1, <3>2 DEF TxAt
  <2>3. CASE c = "tx"
    <3>1. /\ pc[p] = "prep_tx" /\ pc'[p] = "submit_error"
          /\ cookie'["tx"] => stage'["tx"] = "pending" /\ owner'["tx"] = p
          /\ stage'["tx"] \in {stage["tx"], "pending"}
      BY <1>1, <1>11, <2>1, <2>3 DEF PrepBuffer, GotoUnlessNull, TxTyped, Chan
    <3>2. UNCHANGED <<engine, calling, mapped>>
      BY <1>11 DEF PrepBuffer
    <3> QED BY <1>1, <3>1, <3>2 DEF TxAt
  <2> QED BY <2>2, <2>3 DEF Chan
<1>12. ASSUME NEW c \in Chan, InitCompletion(p, c)
       PROVE  TxAt(p)'
  <2>1. /\ pc[p] = IF c = "rx" THEN "init_rx" ELSE "init_tx"
        /\ pc'[p] = IF c = "rx" THEN "issue_rx" ELSE "issue_tx"
        /\ c = "tx" => cmp'["tx"] = 0
    BY <1>1, <1>2, <1>12 DEF InitCompletion, GotoUnlessNull, HasRequestedRx, InTransfer,
       TxTyped, Chan
  <2> QED BY <1>1, <1>12, <2>1 DEF InitCompletion, TxAt, dmaVars, Chan
<1>13. ASSUME NEW c \in Chan, IssuePending(p, c)
       PROVE  TxAt(p)'
  <2>1. CASE c = "rx"
    <3>1. /\ pc[p] = "issue_rx" /\ pc'[p] = "init_tx"
          /\ stage'["tx"] = stage["tx"] /\ engine'["tx"] = engine["tx"]
      BY <1>1, <1>13, <2>1 DEF IssuePending, Started, TxTyped, Chan
    <3> QED BY <1>1, <1>13, <3>1 DEF IssuePending, TxAt
  <2>2. CASE c = "tx"
    <3>1. /\ pc[p] = "issue_tx" /\ pc'[p] = "wait"
          /\ stage'["tx"] = "active" /\ engine'["tx"] = p
      BY <1>1, <1>13, <2>2 DEF IssuePending, Started, TxAt, TxTyped, Chan
    <3> QED BY <1>1, <1>13, <3>1 DEF IssuePending, TxAt, TxOnItsWay
  <2> QED BY <2>1, <2>2 DEF Chan
<1>14. ASSUME NEW c \in Chan, Release(p, c)
       PROVE  TxAt(p)'
  <2>1. dma_chan[c]
    BY <1>2, <1>14 DEF Release, HasRequestedRx, InTransfer, Chan
  <2>2. /\ pc[p] = IF c = "tx" THEN "release_tx" ELSE "release_rx"
        /\ pc'[p] = IF c = "tx" THEN "release_rx" ELSE "idle"
        /\ stage'["tx"] = IF c = "tx" THEN "none" ELSE stage["tx"]
    BY <1>1, <1>14, <2>1 DEF Release, GotoUnlessNull, TxTyped, Chan
  <2> QED BY <1>1, <1>14, <2>2 DEF Release, TxAt
<1> QED BY <1>3, <1>4, <1>5, <1>6, <1>7, <1>8, <1>9, <1>10, <1>11, <1>12, <1>13, <1>14
        DEF Transfer

\* A step of the channel moves the transmit transfer on its way.
LEMMA TxChannelStep ==
  ASSUME ClientAssumption, OneProcess, TxInv, NEW p \in Process, NEW c \in Chan, ChannelStep(c)
  PROVE  TxAt(p)'
<1> USE DEF TxQuiet, TxSubmitted, TxTyped
<1>1. TxAt(p) /\ TxTyped /\ Nobody \notin Process
  BY DEF TxInv, ClientAssumption
<1>2. UNCHANGED <<pc, cookie, owner, mapped>>
  BY DEF ChannelStep, EngineDone, Tasklet, SyncCallback
<1>3. CASE c = "rx"
  <2>1. /\ stage'["tx"] = stage["tx"] /\ engine'["tx"] = engine["tx"]
        /\ calling'["tx"] = calling["tx"] /\ cmp'["tx"] = cmp["tx"]
    BY <1>1, <1>3 DEF ChannelStep, EngineDone, Tasklet, SyncCallback, Chan
  <2> QED BY <1>1, <1>2, <2>1 DEF TxAt, TxOnItsWay
<1>4. CASE c = "tx"
  <2>1. CASE EngineDone(c)
    <3>1. pc[p] = "wait" /\ stage["tx"] = "active" /\ ~calling["tx"] /\ cmp["tx"] = 0
      BY <1>1, <1>4, <2>1 DEF EngineDone, TxAt, TxOnItsWay
    <3>2. /\ stage'["tx"] = "done" /\ engine'["tx"] = Nobody
          /\ calling' = calling /\ cmp' = cmp
      BY <1>1, <1>4, <2>1, <3>1 DEF EngineDone, Chan
    <3> QED BY <1>1, <1>2, <3>1, <3>2 DEF TxAt, TxOnItsWay
  <2>2. CASE Tasklet(c)
    <3>1. pc[p] \in Steps /\ pc[p] # "oops"
      BY DEF TxInv, ReleaseInv, Typed, HasChannels
    <3>2. pc[p] = "wait"
      BY <1>1, <1>4, <2>2, <3>1 DEF Tasklet, TxAt, Steps
    <3>3. engine["tx"] = Nobody /\ cmp["tx"] = 0
      BY <1>1, <1>4, <2>2, <3>2 DEF Tasklet, TxAt, TxOnItsWay
    <3>4. /\ stage'["tx"] = "none" /\ calling'["tx"]
          /\ engine' = engine /\ cmp' = cmp
      BY <1>1, <1>4, <2>2 DEF Tasklet, Chan
    <3> QED BY <1>1, <1>2, <3>2, <3>3, <3>4 DEF TxAt, TxOnItsWay
  <2>3. CASE SyncCallback(c)
    <3>1. pc[p] = "wait" /\ stage["tx"] = "none" /\ engine["tx"] = Nobody /\ cmp["tx"] = 0
      BY <1>1, <1>4, <2>3 DEF SyncCallback, TxAt, TxOnItsWay
    <3>2. /\ stage' = stage /\ engine' = engine
          /\ ~calling'["tx"] /\ cmp'["tx"] = 1
      BY <1>1, <1>4, <2>3, <3>1 DEF SyncCallback, Chan
    <3> QED BY <1>1, <1>2, <3>1, <3>2 DEF TxAt, TxOnItsWay
  <2> QED BY <2>1, <2>2, <2>3 DEF ChannelStep
<1> QED BY <1>3, <1>4 DEF Chan

\* With one process and no timeout the invariant of the transmit channel holds.
LEMMA TxInvariance ==
  ASSUME OneProcess, Present = Chan, "timeout" \notin Faults  PROVE Spec => []TxInv
<1>1. Init => TxInv
  BY DEF Init, TxInv, ReleaseInv, Typed, HasChannels, HasRequestedRx, InTransfer, Chan,
     Steps, TxTyped, TxAt, TxQuiet
<1>2. TxInv /\ [Next]_vars => TxInv'
  <2> SUFFICES ASSUME TxInv, [Next]_vars  PROVE TxInv'
    OBVIOUS
  <2>1. ReleaseInv' /\ TxTyped'
    BY ReleaseStep, TxTypedStep DEF TxInv
  <2>2. ASSUME NEW p \in Process  PROVE TxAt(p)'
    <3>1. CASE \E q \in Process : Ioctl(q) \/ Transfer(q)
      BY <3>1, ClientAssumption, TxTransfer DEF OneProcess
    <3>2. CASE \E c \in Chan : ChannelStep(c)
      BY <3>2, ClientAssumption, TxChannelStep
    <3>3. CASE UNCHANGED vars
      BY <3>3 DEF TxInv, vars, dmaVars, TxAt, TxOnItsWay, TxQuiet, TxSubmitted
    <3> QED BY <3>1, <3>2, <3>3 DEF Next
  <2> QED BY <2>1, <2>2 DEF TxInv
<1> QED BY <1>1, <1>2, PTL DEF Spec

\* One process, whatever else fails: unless a wait times out, the transmit buffer
\* stays mapped until the engine has finished with it.
THEOREM TxBufferMapped ==
  ASSUME OneProcess, Present = Chan, "timeout" \notin Faults
  PROVE  Spec => []TxMappedWhileDma
<1>1. TxInv => TxMappedWhileDma
  BY DEF TxInv, TxTyped, TxAt, TxQuiet, TxOnItsWay, TxMappedWhileDma, OneProcess, Chan
<1> QED BY <1>1, TxInvariance, PTL

\* And the process only goes on when its transmit transfer is over: the completion
\* it has waited for is that of its own transfer.
THEOREM WaitIsForTransfer ==
  ASSUME OneProcess, Present = Chan, "timeout" \notin Faults
  PROVE  Spec => []WaitsForTransfer
<1>1. TxInv => WaitsForTransfer
  BY DEF TxInv, TxAt, WaitsForTransfer, At
<1> QED BY <1>1, TxInvariance, PTL
=============================================================================
