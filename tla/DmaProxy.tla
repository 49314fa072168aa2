------------------------------ MODULE DmaProxy ------------------------------
(***************************************************************************)
(* One channel of the DMA proxy, vdmaproxy/dma_proxy.c: processes call     *)
(* ioctl on its device, which maps the shared buffer, starts a transfer of *)
(* it, waits for the callback and unmaps the buffer.  The completion, the  *)
(* cookie and the status are fields of the static struct dma_proxy_channel *)
(* and no lock protects them, so the steps of two processes interleave     *)
(* freely between any two accesses.                                        *)
(*                                                                         *)
(* The DMA engine below is DmaEngineQueue, which the channel of the driver *)
(* implements (VxdmaRefinement).  All mappings are of the one buffer of    *)
(* the interface and have the same handle, so the handle is left out.      *)
(***************************************************************************)
EXTENDS Integers, FiniteSets

CONSTANTS
  Process,        \* processes that have opened the device
  CachedBuffers,  \* the module parameter cached_buffers
  Faults,         \* what may go wrong
  MaxTransfers    \* bound: transactions submitted

AllFaults == {"timeout", "no_segment", "submit_error"}

ASSUME ProxyAssumption ==
  CachedBuffers \in BOOLEAN /\ Faults \subseteq AllFaults /\ MaxTransfers \in Nat

VARIABLES
  submitted, started, completed, notified,  \* the DMA channel
  cmp,        \* the count of struct completion
  cookie,     \* pchannel_p->cookie; an error code is -1
  status,     \* interface_p->status
  pc,         \* of each process: the next access in ioctl
  mine,       \* of each process: the cookie start_transfer got, or -1
  expired,    \* of each process: wait_for_completion_timeout returned 0
  unmapped    \* history: the cookies whose ioctl has unmapped the buffer

dmaVars == <<submitted, started, completed, notified>>
vars == <<dmaVars, cmp, cookie, status, pc, mine, expired, unmapped>>

Dma == INSTANCE DmaEngineQueue

Error == -1
Steps == {"idle", "transfer", "prep", "init_completion", "submit", "issue",
          "assign", "check", "busy", "wait", "result", "unmap"}

\* Types: a callback adds one to the count, so it is at most the number of
\* transactions, and the counters of the channel are in order.  A call that got
\* an error code goes on to unmap when another one stores a cookie in between.
TypeOK ==
  /\ submitted \in 0 .. MaxTransfers /\ started \in 0 .. submitted
  /\ completed \in 0 .. started /\ notified \in 0 .. completed
  /\ cmp \in 0 .. MaxTransfers
  /\ cookie \in Error .. MaxTransfers
  /\ status \in {"no_error", "busy", "timeout", "error"}
  /\ pc \in [Process -> Steps]
  /\ mine \in [Process -> Error .. MaxTransfers]
  /\ expired \in [Process -> BOOLEAN]
  /\ unmapped \subseteq Error .. MaxTransfers

Init ==
  /\ Dma!Init
  /\ cmp = 0 /\ cookie = 0 /\ status = "no_error"
  /\ pc = [p \in Process |-> "idle"]
  /\ mine = [p \in Process |-> 0]
  /\ expired = [p \in Process |-> FALSE]
  /\ unmapped = {}
-----------------------------------------------------------------------------
(* ioctl and transfer *)

At(p, step) == pc[p] = step
Goto(p, step) == pc' = [pc EXCEPT ![p] = step]

Ioctl(p) ==
  /\ At(p, "idle") /\ Goto(p, "transfer")
  /\ UNCHANGED <<dmaVars, cmp, cookie, status, mine, expired, unmapped>>

\* dma_map_single, or the bus address of the uncached buffer.
MapBuffer(p) ==
  /\ At(p, "transfer") /\ Goto(p, "prep")
  /\ UNCHANGED <<dmaVars, cmp, cookie, status, mine, expired, unmapped>>
-----------------------------------------------------------------------------
(* start_transfer *)

PrepSlave(p) ==
  /\ At(p, "prep") /\ submitted < MaxTransfers
  /\ Goto(p, "init_completion")
  /\ UNCHANGED <<dmaVars, cmp, cookie, status, mine, expired, unmapped>>

PrepSlaveError(p) ==
  /\ At(p, "prep") /\ "no_segment" \in Faults
  /\ mine' = [mine EXCEPT ![p] = Error]
  /\ Goto(p, "assign")
  /\ UNCHANGED <<dmaVars, cmp, cookie, status, expired, unmapped>>

InitCompletion(p) ==
  /\ At(p, "init_completion") /\ Goto(p, "submit")
  /\ cmp' = 0
  /\ UNCHANGED <<dmaVars, cookie, status, mine, expired, unmapped>>

Submit(p) ==
  /\ At(p, "submit") /\ Goto(p, "issue")
  /\ \/ /\ submitted < MaxTransfers
        /\ Dma!Submit
        /\ mine' = [mine EXCEPT ![p] = submitted']
     \/ /\ "submit_error" \in Faults
        /\ mine' = [mine EXCEPT ![p] = Error]
        /\ UNCHANGED dmaVars
  /\ UNCHANGED <<cmp, cookie, status, expired, unmapped>>

\* dma_async_issue_pending starts nothing while the engine is busy.
IssuePending(p) ==
  /\ At(p, "issue") /\ Goto(p, "assign")
  /\ \/ Dma!Start
     \/ ~(completed = started /\ started < submitted) /\ UNCHANGED dmaVars
  /\ UNCHANGED <<cmp, cookie, status, mine, expired, unmapped>>

\* Bug variant: the completion is initialised after the transfer is issued, as
\* in axidma/axidma.c.
AssignCookieLateInit(p) ==
  /\ At(p, "assign") /\ Goto(p, "check")
  /\ cookie' = mine[p] /\ cmp' = 0
  /\ UNCHANGED <<dmaVars, status, mine, expired, unmapped>>

AssignCookie(p) ==
  /\ At(p, "assign") /\ Goto(p, "check")
  /\ cookie' = mine[p]
  /\ UNCHANGED <<dmaVars, cmp, status, mine, expired, unmapped>>

\* dma_submit_error reads the field of the channel again.  On an error
\* transfer returns at once: the buffer stays mapped.
CheckCookie(p) ==
  /\ At(p, "check") /\ Goto(p, IF cookie = Error THEN "idle" ELSE "busy")
  /\ UNCHANGED <<dmaVars, cmp, cookie, status, mine, expired, unmapped>>
-----------------------------------------------------------------------------
(* wait_for_transfer *)

SetBusy(p) ==
  /\ At(p, "busy") /\ Goto(p, "wait")
  /\ status' = "busy"
  /\ UNCHANGED <<dmaVars, cmp, cookie, mine, expired, unmapped>>

\* A waiter that init_completion of another process has dropped from the wait
\* queue sees the count when its timer expires, so this may also come late.
WaitDone(p) ==
  /\ At(p, "wait") /\ cmp > 0 /\ Goto(p, "result")
  /\ cmp' = cmp - 1
  /\ expired' = [expired EXCEPT ![p] = FALSE]
  /\ UNCHANGED <<dmaVars, cookie, status, mine, unmapped>>

WaitTimeout(p) ==
  /\ At(p, "wait") /\ cmp = 0 /\ "timeout" \in Faults /\ Goto(p, "result")
  /\ expired' = [expired EXCEPT ![p] = TRUE]
  /\ UNCHANGED <<dmaVars, cmp, cookie, status, mine, unmapped>>

\* dma_async_is_tx_complete of the cookie that the channel holds now.
TxComplete == cookie <= completed

\* Bug variant: the result of the wait alone decides.
SetResultUnchecked(p) ==
  /\ At(p, "result") /\ Goto(p, IF CachedBuffers THEN "unmap" ELSE "idle")
  /\ status' = IF expired[p] THEN "timeout" ELSE "no_error"
  /\ UNCHANGED <<dmaVars, cmp, cookie, mine, expired, unmapped>>

SetResult(p) ==
  /\ At(p, "result") /\ Goto(p, IF CachedBuffers THEN "unmap" ELSE "idle")
  /\ status' = IF expired[p] THEN "timeout"
               ELSE IF TxComplete THEN "no_error" ELSE "error"
  /\ UNCHANGED <<dmaVars, cmp, cookie, mine, expired, unmapped>>

Unmap(p) ==
  /\ At(p, "unmap") /\ Goto(p, "idle")
  /\ unmapped' = unmapped \cup {mine[p]}
  /\ UNCHANGED <<dmaVars, cmp, cookie, status, mine, expired>>
-----------------------------------------------------------------------------
(* The DMA channel: it starts the next batch on its own when one is complete,
   and its tasklet runs sync_callback. *)

ChannelStart ==
  /\ Dma!Start
  /\ UNCHANGED <<cmp, cookie, status, pc, mine, expired, unmapped>>

ChannelComplete ==
  /\ Dma!Complete
  /\ UNCHANGED <<cmp, cookie, status, pc, mine, expired, unmapped>>

SyncCallback ==
  /\ Dma!Notify
  /\ cmp' = cmp + 1
  /\ UNCHANGED <<cookie, status, pc, mine, expired, unmapped>>
-----------------------------------------------------------------------------
Transfer(p) ==
  \/ MapBuffer(p)
  \/ PrepSlave(p) \/ PrepSlaveError(p) \/ InitCompletion(p) \/ Submit(p)
  \/ IssuePending(p) \/ AssignCookie(p) \/ CheckCookie(p)
  \/ SetBusy(p) \/ WaitDone(p) \/ WaitTimeout(p) \/ SetResult(p) \/ Unmap(p)

Next ==
  \/ \E p \in Process : Ioctl(p) \/ Transfer(p)
  \/ ChannelStart \/ ChannelComplete \/ SyncCallback

Spec == Init /\ [][Next]_vars

-----------------------------------------------------------------------------
(* Properties *)

\* When wait_for_transfer reports PROXY_NO_ERROR, the transfer that this call
\* of ioctl has submitted is complete, whatever woke it up.
ResultIsTrue ==
  [][\A p \in Process : At(p, "result") /\ pc'[p] # "result" /\ status' = "no_error"
       => mine[p] <= completed]_vars

\* wait_for_transfer only reports PROXY_TIMEOUT of a transfer whose callback
\* has not run: no wake-up is lost.
NoFalseTimeout ==
  [][\A p \in Process : At(p, "wait") /\ pc'[p] = "result" /\ expired'[p]
       => notified < mine[p]]_vars

\* A process that is woken up, and not by its timer, has waited for the end of
\* the transfer that it submitted.
BlocksUntilComplete ==
  \A p \in Process : At(p, "result") /\ ~expired[p] => mine[p] <= completed
-----------------------------------------------------------------------------
(* One more that the code does not have once a transfer has timed out. *)

\* A cached buffer stays mapped for the device until the transfer that uses it
\* is complete.
MappedWhileDma == \A k \in completed + 1 .. submitted : k \notin unmapped
=============================================================================
