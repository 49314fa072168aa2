---------------------------- MODULE VxdmaChannel ----------------------------
(***************************************************************************)
(* One channel of the AXI DMA driver, vxdma/vxdma.c: the descriptor and    *)
(* segment lists of struct xilinx_dma_chan, and the contexts that work on  *)
(* them concurrently on the two cores of the SoC:                          *)
(*                                                                         *)
(*   - threads of control (Client) that call the dmaengine operations of   *)
(*     the driver: prepare, submit, issue_pending, tx_status,              *)
(*     terminate_all, alloc_ and free_chan_resources;                      *)
(*   - the interrupt handler, the completion tasklet, and the DMA engine.  *)
(*                                                                         *)
(* A step is one critical section of chan->lock, or the code between two   *)
(* of them.  A critical section that loops over a list is one step for     *)
(* each descriptor, and "lock" holds its owner in between, because some    *)
(* code works on the same lists without taking the lock.                   *)
(*                                                                         *)
(* The engine and the cookie helpers of the kernel are not in src/: they   *)
(* are modelled from the registers the driver reads and writes.            *)
(***************************************************************************)
EXTENDS Integers, Sequences, FiniteSets, Functions, SequencesExt

CONSTANTS
  Client,       \* threads of control that share the channel
  Desc,         \* the transaction descriptors kzalloc can hand out
  NoDesc,       \* NULL
  NumDescs,     \* XILINX_DMA_NUM_DESCS, the segments of the pool
  CoalesceMax,  \* XILINX_DMA_COALESCE_MAX
  HasSg,        \* chan->has_sg
  Calls,        \* the optional dmaengine operations the clients call
  Faults,       \* the faults the hardware shows
  MaxSegs,      \* bound: segments of one transaction
  MaxCookie     \* bound: transactions prepared while the channel is open

PrepCalls == {"prep_slave_sg", "prep_dma_cyclic"}
AllCalls == PrepCalls \cup {"tx_status", "terminate_all", "free_chan_resources"}
AllFaults == {"dma_error", "start_timeout", "reset_timeout", "halt_timeout"}

ASSUME ConstantsAssumption ==
  /\ NoDesc \notin Desc
  /\ "irq" \notin Client /\ "none" \notin Client
  /\ NumDescs \in Nat \ {0}
  /\ CoalesceMax \in Nat /\ NumDescs <= CoalesceMax
  /\ HasSg \in BOOLEAN
  /\ Calls \subseteq AllCalls /\ Faults \subseteq AllFaults
  /\ MaxSegs \in Nat \ {0} /\ MaxCookie \in Nat

Seg == 0 .. NumDescs - 1

VARIABLES
  pending_list, active_list, done_list,  \* lists of descriptors
  desc,              \* the fields of each transaction descriptor
  live,              \* the descriptors that are allocated
  free_seg_list,     \* list of segments
  bd,                \* the hardware descriptor in each segment
  pool,              \* the memory of the segments is allocated
  chan,              \* the other fields of struct xilinx_dma_chan
  cookie, completed_cookie,  \* struct dma_chan
  notified,          \* history: the cookie of the last completion callback
  lock,              \* the owner of chan->lock
  pc, hand, need,    \* of each client: control, descriptor, segments to allocate
  irq,               \* control of the interrupt handler
  tasklet,           \* state of the completion tasklet
  eng                \* the DMA engine: registers and the walk in progress

listVars   == <<pending_list, active_list, done_list>>
descVars   == <<desc, live>>
memVars    == <<free_seg_list, bd, pool>>
cookieVars == <<cookie, completed_cookie, notified>>
clientVars == <<pc, hand, need>>
vars == <<listVars, descVars, memVars, chan, cookieVars, lock, clientVars,
          irq, tasklet, eng>>
-----------------------------------------------------------------------------
(* Types and initial values *)

Ctrl == [run : BOOLEAN, cyclic : BOOLEAN, coalesce : Nat, irqen : BOOLEAN]
ZeroCtrl == [run |-> FALSE, cyclic |-> FALSE, coalesce |-> 0, irqen |-> FALSE]

Bd == [next : Seg, state : {"clean", "filled", "cmplt"}, eop : BOOLEAN]
BlankDesc == [segs |-> <<>>, cyclic |-> FALSE, cookie |-> 0]

\* Bug variant: the ring is not closed.
RingBdOpen(s) == [next |-> s + 1, state |-> "clean", eop |-> FALSE]

\* The segments form a ring: the next_desc of each is the one that follows.
RingBd(s) == [next |-> (s + 1) % NumDescs, state |-> "clean", eop |-> FALSE]

ClientPc ==
  {"idle", "prep_slave_sg", "prep_dma_cyclic", "prep_error", "prepared",
   "check_err", "reset", "append", "bug", "status",
   "term_lock", "term_free", "term_cyclic", "rel_free", "rel_reset"}

ListsOK ==
  /\ pending_list \in Seq(Desc) /\ active_list \in Seq(Desc) /\ done_list \in Seq(Desc)
  /\ live \subseteq Desc
DescOK == desc \in [Desc -> [segs : Seq(Seg), cyclic : BOOLEAN, cookie : Nat]]
MemOK == free_seg_list \in Seq(Seg) /\ bd \in [Seg -> Bd] /\ pool \in BOOLEAN
ChanOK ==
  /\ chan \in [idle : BOOLEAN, err : BOOLEAN, cyclic : BOOLEAN,
               desc_pendingcount : Nat, ctrl_reg : Ctrl]
  /\ lock \in Client \cup {"irq", "none"}
CookiesOK == cookie \in Nat /\ completed_cookie \in Nat /\ notified \in Nat
ClientsOK ==
  /\ pc \in [Client -> ClientPc]
  /\ hand \in [Client -> Desc \cup {NoDesc}]
  /\ need \in [Client -> Nat]
HandlersOK ==
  /\ irq \in {"none", "ioc", "move"}
  /\ tasklet \in [sched : BOOLEAN, pc : {"idle", "loop", "callback", "cyclic"},
                  desc : Desc \cup {NoDesc}]
EngOK ==
  eng \in [cr : Ctrl, busy : BOOLEAN, cur : Seg, tail : Seg, left : Nat,
           ioc : BOOLEAN, err : BOOLEAN]

\* The kernel's lists hold descriptors and segments, registers and addresses
\* are in range.
TypeOK ==
  /\ ListsOK /\ DescOK /\ MemOK /\ ChanOK
  /\ CookiesOK /\ ClientsOK /\ HandlersOK /\ EngOK

\* The channel as xilinx_dma_chan_probe leaves it: reset, with empty lists.
Init ==
  /\ pending_list = <<>> /\ active_list = <<>> /\ done_list = <<>>
  /\ desc = [d \in Desc |-> BlankDesc]
  /\ live = {}
  /\ free_seg_list = <<>>
  /\ bd = [s \in Seg |-> RingBd(s)]
  /\ pool = FALSE
  /\ chan = [idle |-> TRUE, err |-> FALSE, cyclic |-> FALSE,
             desc_pendingcount |-> 0, ctrl_reg |-> ZeroCtrl]
  /\ cookie = 0 /\ completed_cookie = 0 /\ notified = 0
  /\ lock = "none"
  /\ pc = [c \in Client |-> "idle"]
  /\ hand = [c \in Client |-> NoDesc]
  /\ need = [c \in Client |-> 0]
  /\ irq = "none"
  /\ tasklet = [sched |-> FALSE, pc |-> "idle", desc |-> NoDesc]
  /\ eng = [cr |-> ZeroCtrl, busy |-> FALSE, cur |-> 0, tail |-> 0,
            left |-> 0, ioc |-> FALSE, err |-> FALSE]
-----------------------------------------------------------------------------
(* Segments and descriptors: allocate and free *)

Unlocked == lock = "none"

\* async_tx.phys of a descriptor, and its last segment.
Phys(d) == Head(desc[d].segs)
TailSegment(d) == Last(desc[d].segs)

\* Bug variant: next_desc is not saved across the memset.
CleanAll(b) == [next |-> 0, state |-> "clean", eop |-> FALSE]

\* xilinx_dma_clean_hw_desc keeps next_desc, also when append_desc_queue
\* changed it.
Clean(b) == [b EXCEPT !.state = "clean", !.eop = FALSE]

\* Bug variants: the segments go to the head of the free list, last first
\* (list_add for list_add_tail); kfree alone.
FreeTxDescriptorAtHead(d) ==
  /\ free_seg_list' = Reverse(desc[d].segs) \o free_seg_list
  /\ bd' = [s \in Seg |-> IF s \in Range(desc[d].segs) THEN Clean(bd[s]) ELSE bd[s]]
  /\ desc' = [desc EXCEPT ![d] = BlankDesc]
  /\ live' = live \ {d}
  /\ UNCHANGED pool

FreeTxDescriptorOnly(d) ==
  /\ desc' = [desc EXCEPT ![d] = BlankDesc]
  /\ live' = live \ {d}
  /\ UNCHANGED <<free_seg_list, bd, pool>>

\* xilinx_dma_free_tx_descriptor: the segments go to the tail of the free
\* list, in order, and the descriptor is freed.
FreeTxDescriptor(d) ==
  /\ free_seg_list' = free_seg_list \o desc[d].segs
  /\ bd' = [s \in Seg |-> IF s \in Range(desc[d].segs) THEN Clean(bd[s]) ELSE bd[s]]
  /\ desc' = [desc EXCEPT ![d] = BlankDesc]
  /\ live' = live \ {d}
  /\ UNCHANGED pool

Goto(c, label) == pc' = [pc EXCEPT ![c] = label]
Drop(c) == hand' = [hand EXCEPT ![c] = NoDesc]

\* A client owns the channel from dma_request_channel to dma_release_channel.
Claimed == pool /\ \A c \in Client : pc[c] \notin {"rel_free", "rel_reset"}

\* xilinx_dma_alloc_chan_resources.
AllocChanResources ==
  /\ ~pool
  /\ \A c \in Client : pc[c] = "idle"
  /\ pool' = TRUE
  /\ bd' = [s \in Seg |-> RingBd(s)]
  /\ free_seg_list' = free_seg_list \o [i \in 1 .. NumDescs |-> i - 1]
  /\ cookie' = 0 /\ completed_cookie' = 0 /\ notified' = 0
  /\ chan' = [chan EXCEPT !.ctrl_reg.irqen = TRUE]
  /\ eng' = [eng EXCEPT !.cr = chan'.ctrl_reg]
  /\ UNCHANGED <<listVars, descVars, lock, clientVars, irq, tasklet>>
-----------------------------------------------------------------------------
(* Prepare: xilinx_dma_prep_slave_sg and xilinx_dma_prep_dma_cyclic *)

PrepBegin(c, d, kind, n) ==
  /\ Claimed /\ pc[c] = "idle" /\ kind \in Calls \cap PrepCalls
  /\ cookie < MaxCookie
  /\ d \notin live
  /\ live' = live \cup {d}
  /\ hand' = [hand EXCEPT ![c] = d]
  /\ need' = [need EXCEPT ![c] = n]
  /\ Goto(c, kind)
  /\ UNCHANGED <<listVars, desc, memVars, chan, cookieVars, lock, irq, tasklet, eng>>

\* One round of the loop: xilinx_dma_alloc_tx_segment under the lock, then the
\* segment, which nobody else sees yet, is filled in and put on the descriptor.
PrepAlloc(c) ==
  /\ pc[c] \in PrepCalls /\ need[c] > 0 /\ Unlocked
  /\ free_seg_list # <<>>
  /\ LET s == Head(free_seg_list) IN
       /\ desc' = [desc EXCEPT ![hand[c]].segs = Append(@, s)]
       /\ bd' = [bd EXCEPT ![s].state = "filled"]
  /\ free_seg_list' = Tail(free_seg_list)
  /\ need' = [need EXCEPT ![c] = @ - 1]
  /\ UNCHANGED <<listVars, live, pool, chan, cookieVars, lock, pc, hand,
                 irq, tasklet, eng>>

PrepNoSegment(c) ==
  /\ pc[c] \in PrepCalls /\ need[c] > 0 /\ Unlocked
  /\ free_seg_list = <<>>
  /\ Goto(c, "prep_error")
  /\ need' = [need EXCEPT ![c] = 0]
  /\ UNCHANGED <<listVars, descVars, memVars, chan, cookieVars, lock, hand,
                 irq, tasklet, eng>>

\* Bug variant: the error label only returns NULL.
PrepErrorLeak(c) ==
  /\ pc[c] = "prep_error"
  /\ Goto(c, "idle") /\ Drop(c)
  /\ UNCHANGED <<listVars, descVars, memVars, chan, cookieVars, lock, need, irq,
                 tasklet, eng>>

\* The error label gives the segments back without taking the lock.
PrepError(c) ==
  /\ pc[c] = "prep_error"
  /\ FreeTxDescriptor(hand[c])
  /\ Goto(c, "idle") /\ Drop(c)
  /\ UNCHANGED <<listVars, chan, cookieVars, lock, need, irq, tasklet, eng>>

\* The last segment ends the packet; a cyclic descriptor switches the engine
\* to cyclic mode here, before it is submitted.
PrepEnd(c) ==
  LET cyclic == pc[c] = "prep_dma_cyclic" IN
  /\ pc[c] \in PrepCalls /\ need[c] = 0
  /\ bd' = [bd EXCEPT ![TailSegment(hand[c])].eop = TRUE]
  /\ desc' = [desc EXCEPT ![hand[c]].cyclic = cyclic]
  /\ chan' = [chan EXCEPT !.ctrl_reg.cyclic = @ \/ cyclic]
  /\ eng' = IF cyclic THEN [eng EXCEPT !.cr = chan'.ctrl_reg] ELSE eng
  /\ Goto(c, "prepared")
  /\ UNCHANGED <<listVars, live, free_seg_list, pool, cookieVars, lock, hand,
                 need, irq, tasklet>>
-----------------------------------------------------------------------------
(* Submit: xilinx_dma_tx_submit *)

SubmitBusy(c) ==
  /\ pc[c] = "prepared" /\ chan.cyclic
  /\ FreeTxDescriptor(hand[c])
  /\ Goto(c, "idle") /\ Drop(c)
  /\ UNCHANGED <<listVars, chan, cookieVars, lock, need, irq, tasklet, eng>>

\* Bug variant: no check of chan->cyclic.
SubmitNotBusyUnchecked(c) ==
  /\ pc[c] = "prepared"
  /\ Goto(c, "check_err")
  /\ UNCHANGED <<listVars, descVars, memVars, chan, cookieVars, lock, hand,
                 need, irq, tasklet, eng>>

SubmitNotBusy(c) ==
  /\ pc[c] = "prepared" /\ ~chan.cyclic
  /\ Goto(c, "check_err")
  /\ UNCHANGED <<listVars, descVars, memVars, chan, cookieVars, lock, hand,
                 need, irq, tasklet, eng>>

SubmitCheckErr(c) ==
  /\ pc[c] = "check_err"
  /\ Goto(c, IF chan.err THEN "reset" ELSE "append")
  /\ UNCHANGED <<listVars, descVars, memVars, chan, cookieVars, lock, hand,
                 need, irq, tasklet, eng>>

\* A reset stops the engine and clears its registers.
ResetEng == [eng EXCEPT !.cr = ZeroCtrl, !.busy = FALSE, !.cur = 0, !.tail = 0,
                        !.left = 0, !.ioc = FALSE, !.err = FALSE]

\* Bug variant: ctrl_reg is read after the reset.
SubmitResetReadAfter(c) ==
  /\ pc[c] = "reset"
  /\ eng' = ResetEng
  /\ chan' = [chan EXCEPT !.ctrl_reg = eng'.cr, !.err = FALSE]
  /\ Goto(c, "append")
  /\ UNCHANGED <<listVars, descVars, memVars, cookieVars, lock, hand, need,
                 irq, tasklet>>

\* xilinx_dma_chan_reset succeeds: neither idle nor the lists are touched.
SubmitReset(c) ==
  /\ pc[c] = "reset"
  /\ chan' = [chan EXCEPT !.ctrl_reg = eng.cr, !.err = FALSE]
  /\ eng' = ResetEng
  /\ Goto(c, "append")
  /\ UNCHANGED <<listVars, descVars, memVars, cookieVars, lock, hand, need,
                 irq, tasklet>>

\* The reset bit does not clear in time: the caller gets -EBUSY, and nobody
\* has the descriptor any more.
SubmitResetTimeout(c) ==
  /\ pc[c] = "reset" /\ "reset_timeout" \in Faults
  /\ chan' = [chan EXCEPT !.ctrl_reg = eng.cr]
  /\ Goto(c, "idle") /\ Drop(c)
  /\ UNCHANGED <<listVars, descVars, memVars, cookieVars, lock, need, irq,
                 tasklet, eng>>

\* The link append_desc_queue makes in hardware memory from the last pending
\* descriptor to the new one.
Linked(d) ==
  IF pending_list = <<>> THEN bd
  ELSE [bd EXCEPT ![TailSegment(Last(pending_list))].next = Phys(d)]

\* dma_cookie_assign and append_desc_queue; BUG() stops the caller inside the
\* critical section.
SubmitAppend(c) ==
  LET d == hand[c]
      count == chan.desc_pendingcount + 1
      bug == count > CoalesceMax
  IN
  /\ pc[c] = "append" /\ Unlocked
  /\ cookie' = cookie + 1
  /\ bd' = Linked(d)
  /\ pending_list' = Append(pending_list, d)
  /\ desc' = [desc EXCEPT ![d].cookie = cookie']
  /\ chan' = [chan EXCEPT !.desc_pendingcount = IF bug THEN CoalesceMax ELSE count,
                          !.cyclic = @ \/ (desc[d].cyclic /\ ~bug)]
  /\ lock' = IF bug THEN c ELSE "none"
  /\ Goto(c, IF bug THEN "bug" ELSE "idle") /\ Drop(c)
  /\ UNCHANGED <<active_list, done_list, live, free_seg_list, pool,
                 completed_cookie, notified, need, irq, tasklet, eng>>
-----------------------------------------------------------------------------
(* Start: xilinx_dma_start_transfer, called with the lock held *)

\* Bug variant: an interrupt after the first packet, not after the batch.
StartCtrlOne(ch) == [ch.ctrl_reg EXCEPT !.run = TRUE, !.coalesce = 1]

\* The value written to the control register before CURDESC, and by
\* xilinx_dma_start.
StartCtrl(ch) ==
  [ch.ctrl_reg EXCEPT !.run = TRUE,
                      !.coalesce = IF ch.desc_pendingcount <= CoalesceMax
                                   THEN ch.desc_pendingcount ELSE @]

\* With scatter-gather the engine walks from the first segment of the first
\* descriptor to the last segment of the last one; without, it is given the
\* first segment of the first descriptor only.
FirstSeg == Phys(Head(pending_list))
LastSeg == IF HasSg THEN TailSegment(Last(pending_list)) ELSE FirstSeg

\* Bug variant: idle is not reset.
StartedIdle(ch) ==
  [ch EXCEPT !.ctrl_reg = StartCtrl(ch), !.desc_pendingcount = 0]

\* The channel when the transfer is under way.
Started(ch) == [ch EXCEPT !.ctrl_reg = StartCtrl(ch), !.desc_pendingcount = 0,
                          !.idle = FALSE]

StartTransfer(ch) ==
  LET ctrl == StartCtrl(ch)
      on == [eng EXCEPT !.cr = ctrl, !.left = ctrl.coalesce]
  IN
  \/ /\ ch.err \/ pending_list = <<>> \/ ~ch.idle
     /\ chan' = ch
     /\ UNCHANGED <<pending_list, active_list, eng>>
  \/ /\ ~ch.err /\ pending_list # <<>> /\ ch.idle
     /\ eng' = [on EXCEPT !.busy = TRUE, !.cur = FirstSeg, !.tail = LastSeg]
     /\ active_list' = active_list \o pending_list
     /\ pending_list' = <<>>
     /\ chan' = Started(ch)
  \/ /\ ~ch.err /\ pending_list # <<>> /\ ch.idle
     /\ "start_timeout" \in Faults
     /\ eng' = on
     /\ chan' = [ch EXCEPT !.ctrl_reg = ctrl, !.err = TRUE]
     /\ UNCHANGED <<pending_list, active_list>>

\* xilinx_dma_issue_pending.
IssuePending(c) ==
  /\ Claimed /\ pc[c] = "idle" /\ Unlocked
  /\ StartTransfer(chan)
  /\ UNCHANGED <<done_list, descVars, memVars, cookieVars, lock, clientVars,
                 irq, tasklet>>
-----------------------------------------------------------------------------
(* The DMA engine: environment *)

\* It transfers the buffer of the current hardware descriptor, marks it
\* completed and goes on to next_desc, until the tail.  The interrupt on
\* completion comes when the coalesce count of packets is reached; without
\* scatter-gather, at the end of the buffer.
EngineTransfer ==
  LET b == bd[eng.cur]
      packet == b.eop \/ ~HasSg
      fire == packet /\ (eng.left <= 1 \/ ~HasSg)
      stop == eng.cur = eng.tail /\ ~(eng.cr.cyclic /\ HasSg)
  IN
  /\ eng.busy
  /\ b.state = "filled" \/ (eng.cr.cyclic /\ b.state = "cmplt")
  /\ bd' = [bd EXCEPT ![eng.cur].state = "cmplt"]
  /\ eng' = [eng EXCEPT !.left = IF fire THEN eng.cr.coalesce
                                 ELSE IF packet THEN @ - 1 ELSE @,
                        !.ioc = @ \/ fire,
                        !.busy = ~stop,
                        !.cur = IF stop THEN @ ELSE b.next]
  /\ UNCHANGED <<listVars, descVars, free_seg_list, pool, chan, cookieVars, lock,
                 clientVars, irq, tasklet>>

\* A descriptor that is not filled in, or a fault of the bus, stops the engine.
EngineError ==
  /\ eng.busy
  /\ \/ "dma_error" \in Faults
     \/ bd[eng.cur].state = "clean"
     \/ bd[eng.cur].state = "cmplt" /\ ~eng.cr.cyclic
  /\ eng' = [eng EXCEPT !.busy = FALSE, !.err = TRUE]
  /\ UNCHANGED <<listVars, descVars, memVars, chan, cookieVars, lock, clientVars,
                 irq, tasklet>>
-----------------------------------------------------------------------------
(* The interrupt handler: xilinx_dma_irq_handler *)

ScheduleTasklet == tasklet' = [tasklet EXCEPT !.sched = TRUE]

\* The status is read and acknowledged; an error is recorded without the lock.
IrqAck ==
  /\ irq = "none" /\ eng.cr.irqen /\ (eng.ioc \/ eng.err)
  /\ eng' = [eng EXCEPT !.ioc = FALSE, !.err = FALSE]
  /\ chan' = [chan EXCEPT !.err = @ \/ eng.err]
  /\ irq' = IF eng.ioc THEN "ioc" ELSE "none"
  /\ IF eng.ioc THEN UNCHANGED tasklet ELSE ScheduleTasklet
  /\ UNCHANGED <<listVars, descVars, memVars, cookieVars, lock, clientVars>>

IrqLock ==
  /\ irq = "ioc" /\ Unlocked
  /\ irq' = "move" /\ lock' = "irq"
  /\ UNCHANGED <<listVars, descVars, memVars, chan, cookieVars, clientVars,
                 tasklet, eng>>

\* dma_cookie_complete.
CompleteCookie(d) ==
  IF desc[d].cyclic THEN completed_cookie ELSE desc[d].cookie

\* Bug variant: list_add for list_add_tail.
IrqCompleteAtHead ==
  /\ irq = "move" /\ active_list # <<>>
  /\ active_list' = Tail(active_list)
  /\ done_list' = <<Head(active_list)>> \o done_list
  /\ completed_cookie' = CompleteCookie(Head(active_list))
  /\ UNCHANGED <<pending_list, descVars, memVars, chan, cookie, notified, lock,
                 clientVars, irq, tasklet, eng>>

\* One round of the loop of xilinx_dma_complete_descriptor.
IrqComplete ==
  /\ irq = "move" /\ active_list # <<>>
  /\ active_list' = Tail(active_list)
  /\ done_list' = Append(done_list, Head(active_list))
  /\ completed_cookie' = CompleteCookie(Head(active_list))
  /\ UNCHANGED <<pending_list, descVars, memVars, chan, cookie, notified, lock,
                 clientVars, irq, tasklet, eng>>

IrqRestartIdleLast ==
  /\ irq = "move" /\ active_list = <<>>
  /\ chan' = [chan EXCEPT !.idle = TRUE]
  /\ irq' = "none" /\ lock' = "none"
  /\ ScheduleTasklet
  /\ UNCHANGED <<listVars, descVars, memVars, cookieVars, clientVars, eng>>

\* The channel is idle again and the next batch is started; the tasklet is
\* scheduled after the unlock.
IrqRestart ==
  /\ irq = "move" /\ active_list = <<>>
  /\ StartTransfer([chan EXCEPT !.idle = TRUE])
  /\ irq' = "none" /\ lock' = "none"
  /\ ScheduleTasklet
  /\ UNCHANGED <<done_list, descVars, memVars, cookieVars, clientVars>>
-----------------------------------------------------------------------------
(* The completion tasklet: xilinx_dma_chan_desc_cleanup.  All clients set a
   callback; a descriptor without one gives the behaviours in which no other
   step comes between TaskletPop and TaskletFree. *)

TaskletUnchanged ==
  UNCHANGED <<pending_list, active_list, chan, cookie, completed_cookie, lock,
              clientVars, irq, eng>>

TaskletRun ==
  /\ tasklet.sched /\ tasklet.pc = "idle"
  /\ tasklet' = [tasklet EXCEPT !.sched = FALSE, !.pc = "loop"]
  /\ UNCHANGED <<done_list, descVars, memVars, notified>> /\ TaskletUnchanged

TaskletExit ==
  /\ tasklet.pc = "loop" /\ Unlocked /\ done_list = <<>>
  /\ tasklet' = [tasklet EXCEPT !.pc = "idle"]
  /\ UNCHANGED <<done_list, descVars, memVars, notified>> /\ TaskletUnchanged

\* xilinx_dma_chan_handle_cyclic: the descriptor stays on the list while the
\* callback runs without the lock.
TaskletCyclic ==
  /\ tasklet.pc = "loop" /\ Unlocked /\ done_list # <<>>
  /\ desc[Head(done_list)].cyclic
  /\ tasklet' = [tasklet EXCEPT !.pc = "cyclic"]
  /\ UNCHANGED <<done_list, descVars, memVars, notified>> /\ TaskletUnchanged

TaskletCyclicReturn ==
  /\ tasklet.pc = "cyclic" /\ Unlocked
  /\ tasklet' = [tasklet EXCEPT !.pc = "idle"]
  /\ UNCHANGED <<done_list, descVars, memVars, notified>> /\ TaskletUnchanged

\* Bug variants: no list_del; the last descriptor for the first one; cyclic
\* descriptors treated like the others.
TaskletPopKeep ==
  /\ tasklet.pc = "loop" /\ Unlocked /\ done_list # <<>>
  /\ ~desc[Head(done_list)].cyclic
  /\ notified' = desc[Head(done_list)].cookie
  /\ tasklet' = [tasklet EXCEPT !.pc = "callback", !.desc = Head(done_list)]
  /\ UNCHANGED <<done_list, descVars, memVars>> /\ TaskletUnchanged

TaskletPopLast ==
  /\ tasklet.pc = "loop" /\ Unlocked /\ done_list # <<>>
  /\ ~desc[Last(done_list)].cyclic
  /\ done_list' = Front(done_list)
  /\ notified' = desc[Last(done_list)].cookie
  /\ tasklet' = [tasklet EXCEPT !.pc = "callback", !.desc = Last(done_list)]
  /\ UNCHANGED <<descVars, memVars>> /\ TaskletUnchanged

TaskletPopCyclic ==
  /\ tasklet.pc = "loop" /\ Unlocked /\ done_list # <<>>
  /\ done_list' = Tail(done_list)
  /\ notified' = desc[Head(done_list)].cookie
  /\ tasklet' = [tasklet EXCEPT !.pc = "callback", !.desc = Head(done_list)]
  /\ UNCHANGED <<descVars, memVars>> /\ TaskletUnchanged

\* The first descriptor leaves the list, the lock is dropped and the callback
\* of the client runs.
TaskletPop ==
  /\ tasklet.pc = "loop" /\ Unlocked /\ done_list # <<>>
  /\ ~desc[Head(done_list)].cyclic
  /\ done_list' = Tail(done_list)
  /\ notified' = desc[Head(done_list)].cookie
  /\ tasklet' = [tasklet EXCEPT !.pc = "callback", !.desc = Head(done_list)]
  /\ UNCHANGED <<descVars, memVars>> /\ TaskletUnchanged

TaskletFree ==
  /\ tasklet.pc = "callback" /\ Unlocked
  /\ FreeTxDescriptor(tasklet.desc)
  /\ tasklet' = [tasklet EXCEPT !.pc = "loop", !.desc = NoDesc]
  /\ UNCHANGED <<done_list, notified>> /\ TaskletUnchanged
-----------------------------------------------------------------------------
(* Status: xilinx_dma_tx_status, of a transaction that is not complete *)

\* list_last_entry of the active list, read before the lock is taken.
StatusBegin(c) ==
  /\ "tx_status" \in Calls /\ Claimed /\ pc[c] = "idle"
  /\ completed_cookie < cookie
  /\ hand' = [hand EXCEPT ![c] = IF active_list = <<>> THEN NoDesc ELSE Last(active_list)]
  /\ Goto(c, "status")
  /\ UNCHANGED <<listVars, descVars, memVars, chan, cookieVars, lock, need, irq,
                 tasklet, eng>>

\* The walk over the segments of that descriptor, under the lock.
StatusWalk(c) ==
  /\ pc[c] = "status" /\ Unlocked
  /\ Goto(c, "idle") /\ Drop(c)
  /\ UNCHANGED <<listVars, descVars, memVars, chan, cookieVars, lock, need, irq,
                 tasklet, eng>>
-----------------------------------------------------------------------------
(* Stop: xilinx_dma_terminate_all and xilinx_dma_free_chan_resources *)

\* xilinx_dma_halt, without the lock.
TerminateHalt(c) ==
  /\ "terminate_all" \in Calls /\ Claimed /\ pc[c] = "idle"
  /\ \/ /\ chan' = [chan EXCEPT !.ctrl_reg.run = FALSE]
        /\ eng' = [eng EXCEPT !.cr = chan'.ctrl_reg, !.busy = FALSE]
     \/ /\ "halt_timeout" \in Faults
        /\ chan' = [chan EXCEPT !.ctrl_reg.run = FALSE, !.err = TRUE]
        /\ eng' = [eng EXCEPT !.cr = chan'.ctrl_reg]
  /\ Goto(c, "term_lock")
  /\ UNCHANGED <<listVars, descVars, memVars, cookieVars, lock, hand, need, irq,
                 tasklet>>

TerminateLock(c) ==
  /\ pc[c] = "term_lock" /\ Unlocked
  /\ lock' = c /\ Goto(c, "term_free")
  /\ UNCHANGED <<listVars, descVars, memVars, chan, cookieVars, hand, need, irq,
                 tasklet, eng>>

\* One round of xilinx_dma_free_desc_list: the pending list first, then the
\* done list, then the active list.
FreeDescriptors(c) ==
  /\ pc[c] \in {"term_free", "rel_free"}
  /\ \/ /\ pending_list # <<>>
        /\ FreeTxDescriptor(Head(pending_list))
        /\ pending_list' = Tail(pending_list)
        /\ UNCHANGED <<done_list, active_list>>
     \/ /\ pending_list = <<>> /\ done_list # <<>>
        /\ FreeTxDescriptor(Head(done_list))
        /\ done_list' = Tail(done_list)
        /\ UNCHANGED <<pending_list, active_list>>
     \/ /\ pending_list = <<>> /\ done_list = <<>> /\ active_list # <<>>
        /\ FreeTxDescriptor(Head(active_list))
        /\ active_list' = Tail(active_list)
        /\ UNCHANGED <<pending_list, done_list>>
  /\ UNCHANGED <<chan, cookieVars, lock, clientVars, irq, tasklet, eng>>

ListsEmpty == pending_list = <<>> /\ done_list = <<>> /\ active_list = <<>>

TerminateUnlock(c) ==
  /\ pc[c] = "term_free" /\ ListsEmpty
  /\ lock' = "none" /\ Goto(c, "term_cyclic")
  /\ UNCHANGED <<listVars, descVars, memVars, chan, cookieVars, hand, need, irq,
                 tasklet, eng>>

TerminateCyclic(c) ==
  /\ pc[c] = "term_cyclic"
  /\ IF chan.cyclic
     THEN /\ chan' = [chan EXCEPT !.ctrl_reg.cyclic = FALSE, !.cyclic = FALSE]
          /\ eng' = [eng EXCEPT !.cr = chan'.ctrl_reg]
     ELSE UNCHANGED <<chan, eng>>
  /\ Goto(c, "idle")
  /\ UNCHANGED <<listVars, descVars, memVars, cookieVars, lock, hand, need, irq,
                 tasklet>>

\* dma_release_channel of the last user: the engine is not halted.
ReleaseLock(c) ==
  /\ "free_chan_resources" \in Calls /\ pool
  /\ \A x \in Client : pc[x] = "idle"
  /\ Unlocked
  /\ lock' = c /\ Goto(c, "rel_free")
  /\ UNCHANGED <<listVars, descVars, memVars, chan, cookieVars, hand, need, irq,
                 tasklet, eng>>

ReleaseUnlock(c) ==
  /\ pc[c] = "rel_free" /\ ListsEmpty
  /\ lock' = "none" /\ Goto(c, "rel_reset")
  /\ UNCHANGED <<listVars, descVars, memVars, chan, cookieVars, hand, need, irq,
                 tasklet, eng>>

\* INIT_LIST_HEAD of the free list under the lock, then dma_free_coherent.
ReleaseFree(c) ==
  /\ pc[c] = "rel_reset" /\ Unlocked
  /\ free_seg_list' = <<>>
  /\ pool' = FALSE
  /\ Goto(c, "idle")
  /\ UNCHANGED <<listVars, descVars, bd, chan, cookieVars, lock, hand, need, irq,
                 tasklet, eng>>
-----------------------------------------------------------------------------
(* The specification *)

ClientStep(c) ==
  \/ \E d \in Desc, kind \in PrepCalls, n \in 1 .. MaxSegs : PrepBegin(c, d, kind, n)
  \/ PrepAlloc(c) \/ PrepNoSegment(c) \/ PrepError(c) \/ PrepEnd(c)
  \/ SubmitBusy(c) \/ SubmitNotBusy(c) \/ SubmitCheckErr(c)
  \/ SubmitReset(c) \/ SubmitResetTimeout(c) \/ SubmitAppend(c)
  \/ IssuePending(c)
  \/ StatusBegin(c) \/ StatusWalk(c)
  \/ TerminateHalt(c) \/ TerminateLock(c) \/ FreeDescriptors(c)
  \/ TerminateUnlock(c) \/ TerminateCyclic(c)
  \/ ReleaseLock(c) \/ ReleaseUnlock(c) \/ ReleaseFree(c)

Engine == EngineTransfer \/ EngineError
Irq == IrqAck \/ IrqLock \/ IrqComplete \/ IrqRestart
Tasklet == \/ TaskletRun \/ TaskletExit \/ TaskletCyclic \/ TaskletCyclicReturn
           \/ TaskletPop \/ TaskletFree

Next ==
  \/ AllocChanResources
  \/ \E c \in Client : ClientStep(c)
  \/ Engine \/ Irq \/ Tasklet

Spec == Init /\ [][Next]_vars

\* The engine works on, interrupts are taken, a scheduled tasklet runs.
Fairness == WF_vars(Engine) /\ WF_vars(Irq) /\ WF_vars(Tasklet)

FairSpec == Spec /\ Fairness
-----------------------------------------------------------------------------
(* Properties *)

\* The program points at which a client has a descriptor that is on no list.
Preparing == PrepCalls \cup {"prep_error", "prepared", "check_err", "reset", "append"}

Queued == Range(pending_list) \cup Range(active_list) \cup Range(done_list)
InHand == {hand[c] : c \in {x \in Client : pc[x] \in Preparing}}
InTasklet == {tasklet.desc} \ {NoDesc}

\* A descriptor is in one place at most, and only while it is allocated: once
\* on one list, with the client that prepares or submits it, or with the
\* tasklet that runs its callback.  So no descriptor is freed twice, and none
\* is used after it is freed (vxdma.c moves it between the owners with
\* list_del, list_add_tail and list_splice_tail_init).
DescOwnedOnce ==
  /\ IsInjective(pending_list) /\ IsInjective(active_list) /\ IsInjective(done_list)
  /\ Range(pending_list) \cap Range(active_list) = {}
  /\ Range(done_list) \cap (Range(pending_list) \cup Range(active_list)) = {}
  /\ \A c1, c2 \in Client :
       pc[c1] \in Preparing /\ pc[c2] \in Preparing /\ c1 # c2 => hand[c1] # hand[c2]
  /\ Queued \cap InHand = {} /\ Queued \cap InTasklet = {} /\ InHand \cap InTasklet = {}
  /\ Queued \cup InHand \cup InTasklet \subseteq live

\* A descriptor that is allocated is in one of these places, so that kfree
\* will be called for it.
DescNotLost == live \subseteq Queued \cup InHand \cup InTasklet

\* While the pool exists, each of its segments is on the free list or on one
\* descriptor, once: xilinx_dma_alloc_tx_segment and
\* xilinx_dma_free_tx_descriptor neither duplicate nor lose one.
SegConserved ==
  LET held(d) == Range(desc[d].segs) IN
  /\ IsInjective(free_seg_list)
  /\ \A d \in Desc : IsInjective(desc[d].segs) /\ held(d) \cap Range(free_seg_list) = {}
  /\ \A d1, d2 \in Desc : d1 # d2 => held(d1) \cap held(d2) = {}
  /\ Range(free_seg_list) \cup UNION {held(d) : d \in Desc} = IF pool THEN Seg ELSE {}

\* When the last user has released the channel, no list holds a descriptor:
\* xilinx_dma_free_descriptors empties all three.
ReleasedIsEmpty == ~pool => Queued = {}

\* The hardware segments of a list of descriptors, in order.
SegsOf(l) == FlattenSeq([i \in DOMAIN l |-> desc[l[i]].segs])
Chained(q) == \A i \in 1 .. Len(q) - 1 : bd[q[i]].next = q[i + 1]

\* next_desc, which is set once for the ring of segments and patched by
\* append_desc_queue, leads the engine through the segments of the pending
\* descriptors, and of the active ones, in the order of submission.
ChainsFollowLists ==
  /\ Chained(SegsOf(pending_list))
  /\ eng.busy => Chained(SegsOf(active_list))

\* The engine only works on segments of active descriptors that are filled in.
EngineInActive ==
  eng.busy => /\ \E d \in Range(active_list) : eng.cur \in Range(desc[d].segs)
              /\ bd[eng.cur].state = "filled"

\* A descriptor is only handed to the completion tasklet and to the callback
\* of its client when the engine has transferred every segment of it: one
\* interrupt stands for the whole batch (xilinx_dma_complete_descriptor).
CompletedWasTransferred ==
  \A d \in Range(done_list) \cup InTasklet :
    ~desc[d].cyclic => \A s \in Range(desc[d].segs) : bd[s].state = "cmplt"

\* When the channel is marked idle and no handler is at work, nothing is
\* active and the engine does not run, so that a new batch may be started.
IdleMeansDrained == chan.idle => active_list = <<>> /\ ~eng.busy

\* The channel is not marked busy unless something will mark it idle again: a
\* transfer in progress, a pending interrupt, or the interrupt handler.
BusyIsServed ==
  ~chan.idle /\ ~chan.err => eng.busy \/ eng.ioc \/ eng.err \/ irq # "none"

\* desc_pendingcount, which becomes the coalesce count of the engine, is the
\* number of pending descriptors.
PendingCountExact == chan.desc_pendingcount = Len(pending_list)

\* The interrupt that ends a transfer is enabled as long as the transfer runs
\* and the interrupt waits to be taken.
IrqNotLost == eng.busy \/ eng.ioc => eng.cr.irqen

\* Cookies number the transactions in the order of submission, and the lists
\* are consecutive runs of them: done, then active, then pending; the cookie of
\* the last callback and completed_cookie are where these runs begin.
Pipeline ==
  LET queue == done_list \o active_list \o pending_list IN
  /\ \A i \in DOMAIN queue : desc[queue[i]].cookie = notified + i
  /\ notified + Len(done_list) = completed_cookie
  /\ notified + Len(queue) = cookie

\* One client: nothing is queued behind a cyclic transaction, which never ends
\* (the -EBUSY of xilinx_dma_tx_submit).
CyclicIsLast ==
  LET queue == done_list \o active_list \o pending_list IN
  \A i \in DOMAIN queue : desc[queue[i]].cyclic => i = Len(queue)

\* A cyclic descriptor that is submitted leaves the lists by terminate_all or
\* release only: the tasklet runs its callback and never takes it off
\* (xilinx_dma_chan_desc_cleanup).
CyclicKept ==
  [][\A d \in Queued \ Queued' : desc[d].cyclic =>
       \E c \in Client : pc[c] \in {"term_free", "rel_free"}]_vars

\* tx_status walks the segments of a descriptor that exists: the one it found
\* on the active list before it took the lock is still allocated when it has it.
StatusSafe ==
  \A c \in Client : pc[c] = "status" /\ hand[c] # NoDesc /\ Unlocked => hand[c] \in live

\* Callbacks run in the order of submission, none is skipped and none is run
\* twice, however many clients submit (xilinx_dma_chan_desc_cleanup).
CallbackInOrder == [][notified' # notified => notified' = notified + 1]_vars

\* A transaction that is submitted while the channel is busy is transferred
\* and its callback is run, although nobody calls issue_pending again: the
\* interrupt handler starts the next batch.
Progress == \A k \in 1 .. MaxCookie : (cookie >= k /\ ~chan.idle) ~> (notified >= k)
-----------------------------------------------------------------------------
(* Two more that the code does not have; the README says when TLC refutes them. *)

\* BUG() in append_desc_queue is never reached.
NoBug == \A c \in Client : pc[c] # "bug"

\* A transaction that is not complete is found on the active list, so that
\* tx_status has a descriptor to walk.
StatusFinds == \A c \in Client : pc[c] = "status" => hand[c] # NoDesc
=============================================================================
