---------------------------- MODULE DmaProxyInit ----------------------------
(***************************************************************************)
(* How vdmaproxy/dma_proxy.c sets its two channels up and takes them down, *)
(* and what processes can do with their devices meanwhile.  create_channel *)
(* claims a channel of vxdma, makes the character device and allocates the *)
(* buffer; each step can fail, and each has its own way out.               *)
(*                                                                         *)
(* The proxy channel that asks for the direction of channel c is px[c]: 1  *)
(* is dma_proxy_tx and 2 is dma_proxy_rx.  DmaProxy has the ioctl in full. *)
(***************************************************************************)
EXTENDS VxdmaProbe

CONSTANTS
  Process,      \* processes that use the devices
  ProxyFaults,  \* what may go wrong
  OpenWhen,     \* the states of the module in which processes reach the devices
  MaxDma        \* transfers a channel has descriptors for

AllProxyFaults == {"region", "cdev", "class", "device", "buffer", "timeout"}

ASSUME ProxyAssumption ==
  /\ ProxyFaults \subseteq AllProxyFaults
  /\ OpenWhen \subseteq {"init", "loaded", "failed"}
  /\ IsFiniteSet(Process) /\ MaxDma \in Nat

VARIABLES
  module,      \* where dma_proxy_init or dma_proxy_exit is
  cached,      \* the parameter cached_buffers
  cur, step,   \* the channel and the step it has come to
  px,          \* of each channel, the fields of struct dma_proxy_channel
  class,       \* what local_class_p points to
  dma, done,   \* of each channel: transfers of its buffer in flight, and the completion
  file, map,   \* of each process: the channel it has open, and mapped; 0 for none
  busy         \* of each process: it is in the ioctl

userVars == <<file, map, busy>>
proxyVars == <<module, cached, cur, step, px, class, dma, done, userVars>>

NewPx == [chan |-> FALSE, region |-> FALSE, cdev |-> FALSE, node |-> "null", buf |-> FALSE]

ProxyTypeOK ==
  /\ module \in {"unloaded", "init", "loaded", "failed", "exit", "gone"}
  /\ cached \in BOOLEAN /\ cur \in Id
  /\ step \in {"request", "region", "cdev", "class", "device", "buffer",
               "exit_device", "exit_channel"}
  /\ px \in [Id -> [chan : BOOLEAN, region : BOOLEAN, cdev : BOOLEAN,
                    node : {"null", "device", "error"}, buf : BOOLEAN]]
  /\ class \in {"none", "live", "error", "destroyed"}
  /\ dma \in [Id -> Nat] /\ done \in [Id -> Nat]
  /\ file \in [Process -> Id \cup {0}] /\ map \in [Process -> Id \cup {0}]
  /\ busy \in [Process -> BOOLEAN]

ProxyInit ==
  /\ module = "unloaded" /\ cached \in BOOLEAN
  /\ cur = 1 /\ step = "request"
  /\ px = [c \in Id |-> NewPx] /\ class = "none"
  /\ dma = [c \in Id |-> 0] /\ done = [c \in Id |-> 0]
  /\ file = [p \in Process |-> 0] /\ map = [p \in Process |-> 0]
  /\ busy = [p \in Process |-> FALSE]

At(s) == module \in {"init", "exit"} /\ step = s
Broken(fault) == fault \in ProxyFaults

\* How a step of create_channel ends: with the next step, or by returning an error
\* from dma_proxy_init, which does not take the other channel down.
GoOn(s) == step' = s /\ UNCHANGED module
Fail == module' = "failed" /\ UNCHANGED step
-----------------------------------------------------------------------------
(* create_channel and cdevice_init *)

LoadModule ==
  /\ module = "unloaded" /\ module' = "init"
  /\ UNCHANGED <<probeVars, cached, cur, step, px, class, dma, done, userVars, owner, crash>>

\* dma_request_channel with xdma_filter_1, which tells the channels of the driver
\* apart by their direction.
RequestChannel ==
  /\ At("request")
  /\ IF Available(cur)
     THEN /\ owner' = [owner EXCEPT ![cur] = "proxy"]
          /\ px' = [px EXCEPT ![cur].chan = TRUE]
          /\ GoOn("region")
     ELSE Fail /\ UNCHANGED <<owner, px>>
  /\ UNCHANGED <<probeVars, cached, cur, class, dma, done, userVars, crash>>

AllocRegion ==
  /\ At("region")
  /\ \/ px' = [px EXCEPT ![cur].region = TRUE] /\ GoOn("cdev")
     \/ Broken("region") /\ Fail /\ UNCHANGED px
  /\ UNCHANGED <<probeVars, cached, cur, class, dma, done, userVars, owner, crash>>

\* Bug variant: without the label init_error1.
AddCdevKeepsRegion ==
  /\ At("cdev")
  /\ \/ px' = [px EXCEPT ![cur].cdev = TRUE] /\ GoOn("class")
     \/ Broken("cdev") /\ Fail /\ UNCHANGED px
  /\ UNCHANGED <<probeVars, cached, cur, class, dma, done, userVars, owner, crash>>

\* From cdev_add on the device can be opened.
AddCdev ==
  /\ At("cdev")
  /\ \/ px' = [px EXCEPT ![cur].cdev = TRUE] /\ GoOn("class")
     \/ Broken("cdev") /\ Fail /\ px' = [px EXCEPT ![cur].region = FALSE]
  /\ UNCHANGED <<probeVars, cached, cur, class, dma, done, userVars, owner, crash>>

\* The first channel makes the class.  The test that follows looks at another
\* pointer, so an error of class_create is not seen here.
CreateClass ==
  /\ At("class") /\ GoOn("device")
  /\ class' \in IF class # "none" THEN {class}
                ELSE {"live"} \cup (IF Broken("class") THEN {"error"} ELSE {})
  /\ UNCHANGED <<probeVars, cached, cur, px, dma, done, userVars, owner, crash>>

DeviceFails == class = "error" \/ Broken("device")

\* When device_create fails the class goes, and rc is still 0: init goes on.
CreateDevice ==
  /\ At("device")
  /\ \/ /\ class = "live" /\ px' = [px EXCEPT ![cur].node = "device"]
        /\ GoOn("buffer") /\ UNCHANGED <<class, crash>>
     \/ /\ class # "destroyed" /\ DeviceFails
        /\ px' = [px EXCEPT ![cur].node = "error", ![cur].cdev = FALSE,
                            ![cur].region = FALSE]
        /\ class' = IF class = "live" THEN "destroyed" ELSE class
        /\ GoOn("buffer") /\ UNCHANGED crash
     \/ class = "destroyed" /\ crash' = "class" /\ UNCHANGED <<px, class, step, module>>
  /\ UNCHANGED <<probeVars, cached, cur, dma, done, userVars, owner>>

\* The direction is set, the buffer allocated, and the other channel is next.
\* Uncached memory is managed by the device, which must be one.
AllocBuffer ==
  /\ At("buffer")
  /\ crash' = IF ~cached /\ px[cur].node = "error" THEN "dmam" ELSE crash
  /\ \/ /\ px' = [px EXCEPT ![cur].buf = TRUE]
        /\ IF cur = 1 THEN cur' = 2 /\ GoOn("request")
           ELSE module' = "loaded" /\ UNCHANGED <<cur, step>>
     \/ Broken("buffer") /\ Fail /\ UNCHANGED <<px, cur>>
  /\ UNCHANGED <<probeVars, cached, class, dma, done, userVars, owner>>
-----------------------------------------------------------------------------
(* dma_proxy_exit and cdevice_exit *)

\* Open files and the mappings made of them keep the module.
InUse == \E p \in Process : file[p] # 0 \/ map[p] # 0

UnloadModule ==
  /\ module = "loaded" /\ ~InUse
  /\ module' = "exit" /\ cur' = 1 /\ step' = "exit_device"
  /\ UNCHANGED <<probeVars, cached, px, class, dma, done, userVars, owner, crash>>

\* The loops over the channels.
ExitStep(next) ==
  IF cur = 1 THEN cur' = 2 /\ UNCHANGED <<module, step>>
  ELSE IF next = "gone" THEN module' = "gone" /\ UNCHANGED <<cur, step>>
  ELSE cur' = 1 /\ step' = next /\ UNCHANGED module

\* device_destroy, with the managed memory; the class with the last channel;
\* cdev_del and the region, which are gone already if device_create had failed.
ExitDevice ==
  /\ At("exit_device") /\ ExitStep("exit_channel")
  /\ px' = [px EXCEPT ![cur].node = "null", ![cur].cdev = FALSE, ![cur].region = FALSE,
                      ![cur].buf = @ /\ cached]
  /\ class' = IF cur = 2 THEN "destroyed" ELSE class
  /\ crash' = IF px[cur].node = "error" \/ class = "destroyed" THEN "exit" ELSE crash
  /\ UNCHANGED <<probeVars, cached, dma, done, userVars, owner>>

\* The proxy has a pointer to channel c, which was freed when vxdma was unbound.
Stale(c) == <<c, "proxy">> \in stale

FollowsStale == crash' = "stale_client" /\ UNCHANGED <<owner, proxyVars>>

\* Bug variant: the loop stops before the last channel.
ExitChannelNotLast ==
  /\ At("exit_channel")
  /\ \/ /\ ~Stale(cur) /\ ExitStep("gone")
        /\ owner' = [owner EXCEPT ![cur] = IF px[cur].chan /\ cur = 1 THEN None ELSE @]
        /\ px' = [px EXCEPT ![cur].chan = FALSE, ![cur].buf = FALSE]
        /\ UNCHANGED <<cached, class, dma, done, userVars, crash>>
     \/ Stale(cur) /\ FollowsStale
  /\ UNCHANGED probeVars

\* dma_release_channel and kfree.
ExitChannel ==
  /\ At("exit_channel")
  /\ \/ /\ ~Stale(cur) /\ ExitStep("gone")
        /\ owner' = [owner EXCEPT ![cur] = IF px[cur].chan THEN None ELSE @]
        /\ px' = [px EXCEPT ![cur].chan = FALSE, ![cur].buf = FALSE]
        /\ UNCHANGED <<cached, class, dma, done, userVars, crash>>
     \/ Stale(cur) /\ FollowsStale
  /\ UNCHANGED probeVars
-----------------------------------------------------------------------------
(* Processes *)

Rest == <<probeVars, module, cached, cur, step, px, class, owner>>

Open(p, c) ==
  /\ file[p] = 0 /\ px[c].cdev /\ module \in OpenWhen
  /\ file' = [file EXCEPT ![p] = c]
  /\ UNCHANGED <<Rest, dma, done, map, busy, crash>>

Close(p) ==
  /\ file[p] # 0 /\ ~busy[p]
  /\ file' = [file EXCEPT ![p] = 0]
  /\ UNCHANGED <<Rest, dma, done, map, busy, crash>>

\* The handler of mmap takes the page of the buffer without a look at the pointer.
Mmap(p) ==
  /\ file[p] # 0 /\ map[p] = 0 /\ ~busy[p]
  /\ map' = [map EXCEPT ![p] = file[p]]
  /\ crash' = IF px[file[p]].buf THEN crash ELSE "mmap"
  /\ UNCHANGED <<Rest, dma, done, file, busy>>

Munmap(p) ==
  /\ map[p] # 0
  /\ map' = [map EXCEPT ![p] = 0]
  /\ UNCHANGED <<Rest, dma, done, file, busy, crash>>

\* The ioctl reads interface_p->length first, and then uses the channel; it clears the
\* completion, which the processes at one channel share, and submits one transfer more.
Ioctl(p) ==
  /\ file[p] # 0 /\ ~busy[p]
  /\ LET c == file[p] IN
     \/ /\ ~Stale(c) /\ dma[c] < MaxDma
        /\ busy' = [busy EXCEPT ![p] = TRUE]
        /\ dma' = [dma EXCEPT ![c] = @ + 1] /\ done' = [done EXCEPT ![c] = 0]
        /\ crash' = IF px[c].buf /\ px[c].chan THEN crash ELSE "ioctl"
        /\ UNCHANGED <<Rest, file, map>>
     \/ Stale(c) /\ FollowsStale /\ UNCHANGED probeVars

\* Bug variant: the ioctl does not wait.
IoctlReturnAtOnce(p) ==
  /\ busy[p]
  /\ busy' = [busy EXCEPT ![p] = FALSE]
  /\ UNCHANGED <<Rest, dma, done, file, map, crash>>

\* One callback wakes one process, whoever has submitted the transfer.  The status is
\* asked of the channel, and the buffer unmapped for it.
IoctlReturn(p) ==
  /\ busy[p]
  /\ LET c == file[p] IN
     \/ /\ ~Stale(c)
        /\ \/ done[c] > 0 /\ done' = [done EXCEPT ![c] = @ - 1]
           \/ done[c] = 0 /\ Broken("timeout") /\ UNCHANGED done
        /\ busy' = [busy EXCEPT ![p] = FALSE]
        /\ UNCHANGED <<Rest, dma, file, map, crash>>
     \/ /\ Stale(c) /\ (done[c] > 0 \/ Broken("timeout"))
        /\ FollowsStale /\ UNCHANGED probeVars

\* The engine is done, and the handler and the tasklet are there to see it.
TransferDone(c) ==
  /\ dma[c] > 0 /\ owner[c] = "proxy" /\ chan[c].irq
  /\ dma' = [dma EXCEPT ![c] = @ - 1] /\ done' = [done EXCEPT ![c] = @ + 1]
  /\ UNCHANGED <<Rest, userVars, crash>>
-----------------------------------------------------------------------------
User(p) ==
  \/ \E c \in Id : Open(p, c)
  \/ Close(p) \/ Mmap(p) \/ Munmap(p) \/ Ioctl(p) \/ IoctlReturn(p)

Proxying ==
  \/ LoadModule \/ RequestChannel \/ AllocRegion \/ AddCdev \/ CreateClass
  \/ CreateDevice \/ AllocBuffer
  \/ UnloadModule \/ ExitDevice \/ ExitChannel
  \/ \E p \in Process : User(p)
  \/ \E c \in Id : TransferDone(c)
-----------------------------------------------------------------------------
(* Properties *)

Complete(c) == px[c].chan /\ px[c].region /\ px[c].cdev /\ px[c].node = "device" /\ px[c].buf

\* When dma_proxy_init has failed a channel is either complete and can be used, or
\* has no character device and no device number.
ErrorPathUndone ==
  module = "failed" => \A c \in Id : Complete(c) \/ (~px[c].region /\ ~px[c].cdev)

\* After a successful dma_proxy_init, dma_proxy_exit gives everything back.
ExitReleasesAll ==
  module = "gone" =>
    /\ class = "destroyed"
    /\ \A c \in Id : px[c] = NewPx /\ owner[c] # "proxy"

\* The class is there as long as one of the two devices is in it.
ClassOutlivesDevices == \A c \in Id : px[c].node = "device" => class = "live"

\* The pages of the buffer stay with it while a process has them mapped, and while
\* the engine of the channel has a transfer of them, also when several processes
\* share a channel and the callback of one wakes another; and the channel is not
\* released meanwhile.
BufferInUseIsAllocated ==
  /\ \A p \in Process : map[p] # 0 => px[map[p]].buf
  /\ \A c \in Id : dma[c] > 0 => px[c].buf /\ px[c].chan
-----------------------------------------------------------------------------
(* One more that the code does not have. *)

\* When dma_proxy_init fails no channel stays claimed.
FailedInitReleases == module = "failed" => \A c \in Id : owner[c] # "proxy"
=============================================================================
