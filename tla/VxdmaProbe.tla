----------------------------- MODULE VxdmaProbe -----------------------------
(***************************************************************************)
(* How vxdma/vxdma.c brings its channels up and takes them down:           *)
(* xilinx_dma_probe, which probes each child of the device node, registers *)
(* with the dmaengine core and with the device tree, its error path,       *)
(* xilinx_dma_remove, and the translation of a channel number.  The driver *)
(* core runs one of them at a time; interrupts and clients come in between.*)
(*                                                                         *)
(* A channel is named by its id: 1 is memory to device, 2 is device to     *)
(* memory.  The array xdev->chan has MaxChans entries and is indexed with  *)
(* the id, so chan[2] is what follows the array, the flag has_sg.          *)
(***************************************************************************)
EXTENDS Integers, Sequences, FiniteSets

CONSTANTS
  Trees,        \* device trees: the ids of the child nodes in order
  ProbeFaults,  \* what may go wrong in probe, and for which child (0: for none)
  XlateArgs     \* channel numbers that other nodes of the device tree ask for

MaxChans == 2   \* XILINX_DMA_MAX_CHANS_PER_DEVICE
Id == {1, 2}
None == "none"
AllProbeFaults == {"bad_node", "reset", "irq", "of_register"} \X (Id \cup {0})

ASSUME ProbeAssumption ==
  /\ Trees \subseteq Seq(Id) /\ ProbeFaults \subseteq AllProbeFaults
  /\ XlateArgs \subseteq Nat

VARIABLES
  tree,      \* the device tree of the board
  driver,    \* where probe or remove is
  kid,       \* the child that probe has come to
  index,     \* i of the loops over xdev->chan
  array,     \* xdev->chan; NULL is 0
  sg,        \* xdev->has_sg: as the device tree says, or overwritten
  chan,      \* of each id: what the driver has set up
  dangling,  \* channels that were freed with their handler still requested
  stale,     \* pointers to channels that were freed: the id, and the client that has it
  owner,     \* the client that the dmaengine core has given the channel to
  crash      \* what has stopped the kernel

probeVars == <<tree, driver, kid, index, array, sg, chan, dangling, stale>>

Client == {"proxy", "of"}

NewChan == [mem |-> FALSE, lists |-> FALSE, irq |-> FALSE, listed |-> FALSE, sg |-> "tree"]

ProbeTypeOK ==
  /\ tree \in Trees
  /\ driver \in {"unbound", "child", "reset", "init", "irq", "list",
                 "of_register", "bound", "undo"}
  /\ kid \in Nat \ {0} /\ index \in 0 .. MaxChans
  /\ array \in [0 .. MaxChans - 1 -> Id \cup {0}] /\ sg \in {"tree", "junk"}
  /\ chan \in [Id -> [mem : BOOLEAN, lists : BOOLEAN, irq : BOOLEAN, listed : BOOLEAN,
                      sg : {"tree", "junk"}]]
  /\ dangling \subseteq Id /\ stale \subseteq Id \X Client
  /\ owner \in [Id -> Client \cup {None}]

ProbeInit ==
  /\ tree \in Trees
  /\ driver = "unbound" /\ kid = 1 /\ index = 0
  /\ array = [n \in 0 .. MaxChans - 1 |-> 0] /\ sg = "tree"
  /\ chan = [c \in Id |-> NewChan]
  /\ dangling = {} /\ stale = {} /\ owner = [c \in Id |-> None]

Driver(from, to) == driver = from /\ driver' = to
Fails(fault, c) == <<fault, c>> \in ProbeFaults
Child == tree[kid]
-----------------------------------------------------------------------------
(* xilinx_dma_probe and xilinx_dma_chan_probe *)

Probe ==
  /\ Driver("unbound", "child")
  /\ kid' = 1 /\ index' = 0
  /\ array' = [n \in 0 .. MaxChans - 1 |-> 0] /\ sg' = "tree"
  /\ UNCHANGED <<tree, chan, dangling, stale, owner, crash>>

\* The memory cannot be had, or the node lacks a property.
BadChild ==
  /\ Driver("child", "undo") /\ kid <= Len(tree) /\ Fails("bad_node", Child)
  /\ UNCHANGED <<tree, kid, index, array, sg, chan, dangling, stale, owner, crash>>

\* xdev->chan[chan->id] = chan
StoreChan ==
  /\ Driver("child", "reset") /\ kid <= Len(tree)
  /\ IF Child < MaxChans
     THEN array' = [array EXCEPT ![Child] = Child] /\ sg' = sg
     ELSE array' = array /\ sg' = "junk"
  /\ chan' = [chan EXCEPT ![Child] = [NewChan EXCEPT !.mem = TRUE, !.sg = sg]]
  /\ UNCHANGED <<tree, kid, index, dangling, stale, owner, crash>>

ResetChan ==
  /\ driver = "reset"
  /\ driver' \in {"init"} \cup (IF Fails("reset", Child) THEN {"undo"} ELSE {})
  /\ UNCHANGED <<tree, kid, index, array, sg, chan, dangling, stale, owner, crash>>

InitLists ==
  /\ Driver("init", "irq")
  /\ chan' = [chan EXCEPT ![Child].lists = TRUE]
  /\ UNCHANGED <<tree, kid, index, array, sg, dangling, stale, owner, crash>>

RequestIrq ==
  /\ driver = "irq"
  /\ driver' \in {"list"} \cup (IF Fails("irq", Child) THEN {"undo"} ELSE {})
  /\ chan' = [chan EXCEPT ![Child].irq = driver' = "list"]
  /\ UNCHANGED <<tree, kid, index, array, sg, dangling, stale, owner, crash>>

AddToChannels ==
  /\ Driver("list", "child")
  /\ chan' = [chan EXCEPT ![Child].listed = TRUE]
  /\ kid' = kid + 1
  /\ UNCHANGED <<tree, index, array, sg, dangling, stale, owner, crash>>

\* dma_async_device_register: from here on clients can request the channels.
Register ==
  /\ Driver("child", "of_register") /\ kid > Len(tree)
  /\ UNCHANGED <<tree, kid, index, array, sg, chan, dangling, stale, owner, crash>>

OfRegister ==
  /\ driver = "of_register"
  /\ driver' \in {"bound"} \cup (IF Fails("of_register", 0) THEN {"undo"} ELSE {})
  /\ UNCHANGED <<tree, kid, index, array, sg, chan, dangling, stale, owner, crash>>
-----------------------------------------------------------------------------
(* The error path of probe, and xilinx_dma_remove *)

\* Nothing asks whether a client has a channel.  The driver is part of the kernel, so
\* this is unbinding it from the device through sysfs.
Remove ==
  /\ Driver("bound", "undo")
  /\ index' = 0
  /\ UNCHANGED <<tree, kid, array, sg, chan, dangling, stale, owner, crash>>

\* Bug variant: the loop leaves the handler of the channel requested.
ChanRemoveKeepsIrq ==
  /\ driver = "undo" /\ index < MaxChans
  /\ index' = index + 1
  /\ LET c == array[index] IN
     IF c = 0 THEN UNCHANGED <<chan, crash>>
     ELSE /\ chan' = [chan EXCEPT ![c].listed = FALSE]
          /\ crash' = IF chan[c].listed THEN crash ELSE "list_del"
  /\ UNCHANGED <<tree, driver, kid, array, sg, dangling, stale, owner>>

\* xilinx_dma_chan_remove of an entry that is not NULL.  A channel whose probe has
\* failed is in the array but on no list, and list_del follows its zero pointers.
ChanRemove ==
  /\ driver = "undo" /\ index < MaxChans
  /\ index' = index + 1
  /\ LET c == array[index] IN
     IF c = 0 THEN UNCHANGED <<chan, crash>>
     ELSE /\ chan' = [chan EXCEPT ![c].irq = FALSE, ![c].listed = FALSE]
          /\ crash' = IF chan[c].listed THEN crash ELSE "list_del"
  /\ UNCHANGED <<tree, driver, kid, array, sg, dangling, stale, owner>>

\* The driver core frees what devm_kzalloc gave, the channels and xdev.  Handlers that
\* are still requested, and clients that have a channel, keep their pointers.
DevmRelease ==
  /\ Driver("undo", "unbound") /\ index = MaxChans
  /\ chan' = [c \in Id |-> NewChan] /\ owner' = [c \in Id |-> None]
  /\ dangling' = dangling \cup {c \in Id : chan[c].irq}
  /\ stale' = stale \cup {<<c, owner[c]>> : c \in {d \in Id : owner[d] # None}}
  /\ UNCHANGED <<tree, kid, index, array, sg, crash>>

\* The interrupt line is shared, so a handler is called from when it is requested on,
\* whoever raised the interrupt.  What it does to a channel is in VxdmaChannel.
Interrupt(c) ==
  /\ chan[c].irq \/ c \in dangling
  /\ crash' = IF c \in dangling THEN "stale_irq"
              ELSE IF ~chan[c].lists THEN "early_irq" ELSE crash
  /\ UNCHANGED <<probeVars, owner>>
-----------------------------------------------------------------------------
(* The clients of the dmaengine core *)

\* Bug variant: the entry of a channel is its number less one.
XlateFromOne(n) ==
  /\ driver = "bound" /\ n < MaxChans
  /\ LET c == array[n - 1] IN
     IF c = 0 THEN crash' = "xlate" /\ UNCHANGED owner
     ELSE owner[c] = None /\ owner' = [owner EXCEPT ![c] = "of"] /\ UNCHANGED crash
  /\ UNCHANGED probeVars

\* of_dma_xilinx_xlate.  A channel number from MaxChans on finds nothing.
Xlate(n) ==
  /\ driver = "bound" /\ n < MaxChans
  /\ LET c == array[n] IN
     IF c = 0 THEN crash' = "xlate" /\ UNCHANGED owner
     ELSE owner[c] = None /\ owner' = [owner EXCEPT ![c] = "of"] /\ UNCHANGED crash
  /\ UNCHANGED probeVars

OfRelease(c) ==
  /\ \/ owner[c] = "of" /\ owner' = [owner EXCEPT ![c] = None] /\ UNCHANGED crash
     \/ <<c, "of">> \in stale /\ crash' = "stale_client" /\ UNCHANGED owner
  /\ UNCHANGED probeVars

\* What dma_request_channel finds.
Available(c) ==
  driver \in {"of_register", "bound"} /\ chan[c].listed /\ owner[c] = None
-----------------------------------------------------------------------------
(* Properties *)

\* The interrupt handler is only requested for a channel that is allocated, with
\* its lock and lists initialised, and is freed before the channel is; but the
\* loops do not see the channel that was stored behind the array.
HandlerHasChannel ==
  /\ \A c \in Id : chan[c].irq => chan[c].mem /\ chan[c].lists
  /\ \A c \in dangling : c >= MaxChans

\* Each channel has the scatter-gather mode of the device tree.
SgAsInTree == \A c \in Id : chan[c].mem => chan[c].sg = "tree"
-----------------------------------------------------------------------------
(* Two more that the code does not have. *)

\* No handler is left behind for a channel that was freed.
NoDanglingHandler == dangling = {}

\* Channels are only freed when no client has them.
ClaimedIsLive == stale = {}
=============================================================================
