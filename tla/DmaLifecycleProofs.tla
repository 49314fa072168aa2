------------------------- MODULE DmaLifecycleProofs -------------------------
(***************************************************************************)
(* For any device tree, any list of failures that the error paths handle,  *)
(* and any number of processes: what vxdma and vdmaproxy hold through      *)
(* probe, remove, init and exit.                                           *)
(*                                                                         *)
(* The invariant is made of two halves, one for each driver, that meet in  *)
(* "owner"; a step of one half leaves the variables of the other alone.    *)
(***************************************************************************)
EXTENDS DmaLifecycle, FiniteSetTheorems, TLAPS

\* dma_proxy_init has the memory it asks for; processes come when it is done; and
\* every transfer ends in time.
BufferComes == "buffer" \notin ProxyFaults
OpenedWhenDone == "init" \notin OpenWhen
TransfersEnd == "timeout" \notin ProxyFaults

\* Failures that lead to a crash do not occur: a channel in the array whose probe
\* fails before it is listed, and an error of class_create or device_create.  The
\* device trees have the first channel, and other nodes ask for that one.
ProbeIsHandled == \A c \in 0 .. MaxChans - 1, f \in {"reset", "irq"} : <<f, c>> \notin ProbeFaults
InitIsHandled == {"class", "device"} \cap ProxyFaults = {}
TreesHaveFirst ==
  0 \notin XlateArgs /\ \A t \in Trees : \E k \in DOMAIN t : t[k] = 1

Probing == driver \in {"reset", "init", "irq", "list"}
-----------------------------------------------------------------------------
(* The half of the engine driver *)

\* The entries of the array are in their place, and probe is at a child of the tree.
PlacesInv ==
  /\ Probing => kid <= Len(tree) /\ (Child < MaxChans => array[Child] = Child)
  /\ driver \notin {"unbound", "undo"} => index = 0
  /\ \A n \in 0 .. MaxChans - 1 : array[n] \in {0, n}

\* A handler belongs to a channel that is set up and that the loops will find; from
\* 1 on, what they have passed has no handler.
HandlerInv ==
  /\ driver = "unbound" => chan = [c \in Id |-> NewChan]
  /\ Probing => chan[Child].mem
  /\ driver \in {"irq", "list"} => chan[Child].lists
  /\ \A c \in Id : chan[c].irq => chan[c].mem /\ chan[c].lists
  /\ chan[1].irq => array[1] = 1
  /\ driver = "undo" /\ index = MaxChans => ~chan[1].irq
  /\ \A c \in dangling : c >= MaxChans

EngineInv == ProbeTypeOK /\ PlacesInv /\ HandlerInv

\* The proxy has claimed the channels that it has a pointer to, or the pointer is stale.
OwnedInv == \A c \in Id : px[c].chan <=> owner[c] = "proxy" \/ Stale(c)

\* The channels in the array are listed, but for the one being probed.
ListedInv ==
  /\ driver \in {"child", "of_register", "bound"} =>
       \A n \in 0 .. MaxChans - 1 : array[n] # 0 => chan[array[n]].listed
  /\ Probing =>
       \A n \in 0 .. MaxChans - 1 : array[n] # 0 => array[n] = Child \/ chan[array[n]].listed

\* What ChanRemove and Xlate will find.
FoundInv ==
  /\ driver = "undo" =>
       \A n \in 0 .. MaxChans - 1 :
         n >= index /\ array[n] # 0 => chan[array[n]].listed
  /\ driver \in {"of_register", "bound"} => kid > Len(tree)
  /\ driver \notin {"unbound", "undo"} =>
       \A k \in DOMAIN tree :
         (k < kid \/ (k = kid /\ driver # "child")) /\ tree[k] = 1 => array[1] = 1
-----------------------------------------------------------------------------
(* The half of the proxy *)

DeviceGone(c) == px[c].node = "null" /\ ~px[c].cdev /\ ~px[c].region

\* How far dma_proxy_exit has come.
ExitInv ==
  /\ module \in {"init", "unloaded"} => step \notin {"exit_device", "exit_channel"}
  /\ module = "exit" => step \in {"exit_device", "exit_channel"}
  /\ At("exit_device") => \A c \in Id : c < cur => DeviceGone(c)
  /\ At("exit_channel") =>
       /\ class = "destroyed"
       /\ \A c \in Id : DeviceGone(c) /\ (c < cur => px[c] = NewPx)
  /\ module = "gone" => class = "destroyed" /\ \A c \in Id : px[c] = NewPx

ProxyInv == ProxyTypeOK /\ OwnedInv /\ ExitInv

\* A channel can be used, or has no device left.
Settled(c) == Complete(c) \/ (~px[c].region /\ ~px[c].cdev)

\* How far create_channel has come.
CreateInv ==
  /\ module = "unloaded" => cur = 1 /\ step = "request" /\ \A c \in Id : px[c] = NewPx
  /\ module = "init" =>
       /\ \A c \in Id : (c < cur => Settled(c)) /\ (c > cur => px[c] = NewPx)
       /\ step \in {"request", "region"} => ~px[cur].region /\ ~px[cur].cdev
       /\ step = "cdev" => px[cur].region /\ ~px[cur].cdev
       /\ step \in {"class", "device"} => px[cur].region /\ px[cur].cdev
       /\ step = "buffer" =>
            IF px[cur].region \/ px[cur].cdev
            THEN px[cur].region /\ px[cur].cdev /\ px[cur].node = "device"
            ELSE TRUE
       /\ step # "request" => px[cur].chan
  /\ module \in {"loaded", "failed"} => \A c \in Id : Settled(c)

\* Files and mappings are of complete channels, and a transfer has its ioctl.
UsedInv ==
  \A p \in Process :
    /\ file[p] # 0 \/ map[p] # 0 => module \in {"loaded", "failed"}
    /\ file[p] # 0 => Complete(file[p])
    /\ map[p] # 0 => Complete(map[p])
    /\ busy[p] => file[p] # 0

\* Transfers in flight, and callbacks that no process has seen, have processes that wait.
Waiting(c) == {p \in Process : busy[p] /\ file[p] = c}
DmaInv == \A c \in Id : dma[c] + done[c] <= Cardinality(Waiting(c))

\* The class lives until the last device is destroyed.
ClassInv ==
  /\ module = "unloaded" => step = "request"
  /\ \A c \in Id : px[c].node # "error"
  /\ module # "gone" /\ ~At("exit_channel") => class \in {"none", "live"}
  /\ module = "init" /\ step \in {"device", "buffer"} => class = "live"
-----------------------------------------------------------------------------
(* Which half a step belongs to *)

LEMMA ProxyingFrame ==
  ASSUME Proxying
  PROVE  UNCHANGED probeVars /\ (UNCHANGED owner \/ RequestChannel \/ ExitChannel)
<1>1. CASE \/ LoadModule \/ AllocRegion \/ AddCdev \/ CreateClass \/ CreateDevice
           \/ AllocBuffer \/ UnloadModule \/ ExitDevice
  BY <1>1 DEF LoadModule, AllocRegion, AddCdev, CreateClass, CreateDevice, AllocBuffer,
              UnloadModule, ExitDevice
<1>2. CASE RequestChannel \/ ExitChannel
  BY <1>2 DEF RequestChannel, ExitChannel
<1>3. CASE (\E p \in Process : User(p)) \/ (\E c \in Id : TransferDone(c))
  BY <1>3 DEF User, Open, Close, Mmap, Munmap, Ioctl, IoctlReturn, TransferDone, Rest,
              FollowsStale
<1> QED BY <1>1, <1>2, <1>3 DEF Proxying

LEMMA DrivingFrame ==
  ASSUME Driving
  PROVE  UNCHANGED proxyVars
BY DEF Driving

\* What Driving says without its frame.
EngineStep ==
  \/ Probe \/ BadChild \/ StoreChan \/ ResetChan \/ InitLists \/ RequestIrq
  \/ AddToChannels \/ Register \/ OfRegister \/ Remove \/ ChanRemove \/ DevmRelease
  \/ \E c \in Id : Interrupt(c)
  \/ \E n \in XlateArgs : Xlate(n)
  \/ \E c \in Id : OfRelease(c)

LEMMA DrivingIsEngineStep ==
  ASSUME Driving
  PROVE  EngineStep
BY DEF Driving, EngineStep
-----------------------------------------------------------------------------
(* Engine driver *)

LEMMA ChildInId ==
  ASSUME ProbeTypeOK, kid <= Len(tree)
  PROVE  Child \in Id
<1>1. tree \in Seq(Id)
  BY ProbeAssumption DEF ProbeTypeOK
<1> QED BY <1>1 DEF Child, ProbeTypeOK

Chan == [mem : BOOLEAN, lists : BOOLEAN, irq : BOOLEAN, listed : BOOLEAN, sg : {"tree", "junk"}]

LEMMA ChanTyped ==
  ASSUME NEW ch \in [Id -> Chan], NEW c \in Id
  PROVE  /\ [ch EXCEPT ![c].listed = TRUE] \in [Id -> Chan]
         /\ [ch EXCEPT ![c].irq = FALSE, ![c].listed = FALSE] \in [Id -> Chan]
BY DEF Chan

LEMMA EngineInvStep ==
  ASSUME EngineInv, [Next]_vars
  PROVE  EngineInv'
<1> USE DEF EngineInv, MaxChans, Id
<1>1. CASE Probe
  BY <1>1 DEF Probe, Driver, ProbeTypeOK, PlacesInv, HandlerInv, Probing, NewChan
<1>2. CASE BadChild
  BY <1>2 DEF BadChild, Driver, ProbeTypeOK, PlacesInv, HandlerInv, Probing
<1>3. CASE StoreChan
  <2>1. Child \in Id /\ Child' = Child /\ kid' = kid /\ tree' = tree
    BY <1>3, ChildInId DEF StoreChan, Child
  <2>2. ProbeTypeOK'
    BY <1>3, <2>1 DEF StoreChan, Driver, ProbeTypeOK, NewChan
  <2>3. PlacesInv'
    BY <1>3, <2>1 DEF StoreChan, Driver, ProbeTypeOK, PlacesInv, Probing
  <2>4. HandlerInv'
    BY <1>3, <2>1 DEF StoreChan, Driver, ProbeTypeOK, HandlerInv, PlacesInv, Probing, NewChan
  <2> QED BY <2>2, <2>3, <2>4
<1>4. CASE ResetChan
  BY <1>4 DEF ResetChan, ProbeTypeOK, PlacesInv, HandlerInv, Probing, Child
<1>5. CASE InitLists
  <2>1. Child \in Id /\ Child' = Child /\ kid' = kid /\ tree' = tree
    BY <1>5, ChildInId DEF InitLists, Driver, PlacesInv, Probing, Child
  <2>2. ProbeTypeOK'
    BY <1>5, <2>1, ZenonT(40) DEF InitLists, Driver, ProbeTypeOK
  <2>3. PlacesInv'
    BY <1>5, <2>1 DEF InitLists, Driver, ProbeTypeOK, PlacesInv, Probing
  <2>4. HandlerInv'
    BY <1>5, <2>1 DEF InitLists, Driver, ProbeTypeOK, PlacesInv, HandlerInv, Probing
  <2> QED BY <2>2, <2>3, <2>4
<1>6. CASE RequestIrq
  <2>1. Child \in Id /\ Child' = Child /\ kid' = kid /\ tree' = tree
    BY <1>6, ChildInId DEF RequestIrq, PlacesInv, Probing, Child
  <2>2. ProbeTypeOK'
    BY <1>6, <2>1, ZenonT(40) DEF RequestIrq, ProbeTypeOK
  <2>3. PlacesInv'
    BY <1>6, <2>1 DEF RequestIrq, ProbeTypeOK, PlacesInv, Probing
  <2>4. HandlerInv'
    <3>1. driver = "irq" /\ driver' \in {"list", "undo"} /\ index = 0 /\ index' = index
      BY <1>6 DEF RequestIrq, PlacesInv
    <3>2. /\ chan' = [chan EXCEPT ![Child].irq = driver' = "list"]
          /\ UNCHANGED <<array, dangling>>
      BY <1>6 DEF RequestIrq
    <3>3. Child = 1 => array[1] = 1
      BY <3>1 DEF PlacesInv, Probing
    <3> QED BY <2>1, <3>1, <3>2, <3>3 DEF ProbeTypeOK, HandlerInv, Probing
  <2> QED BY <2>2, <2>3, <2>4
<1>7. CASE AddToChannels
  <2>1. Child \in Id /\ tree' = tree
    BY <1>7, ChildInId DEF AddToChannels, Driver, PlacesInv, Probing
  <2>2. ProbeTypeOK'
    <3>1. kid' \in Nat \ {0}
      BY <1>7 DEF AddToChannels, ProbeTypeOK
    <3>2. chan' = [chan EXCEPT ![Child].listed = TRUE]
      BY <1>7 DEF AddToChannels
    <3>3. chan' \in [Id -> Chan]
      BY <2>1, <3>2, ChanTyped DEF ProbeTypeOK, Chan
    <3> QED BY <1>7, <3>1, <3>3 DEF AddToChannels, Driver, ProbeTypeOK, Chan
  <2>3. PlacesInv'
    BY <1>7, <2>1 DEF AddToChannels, Driver, ProbeTypeOK, PlacesInv, Probing
  <2>4. HandlerInv'
    BY <1>7, <2>1 DEF AddToChannels, Driver, ProbeTypeOK, PlacesInv, HandlerInv, Probing
  <2> QED BY <2>2, <2>3, <2>4
<1>8. CASE Register \/ OfRegister \/ Remove
  <2>1. ProbeTypeOK'
    <3>1. /\ UNCHANGED <<tree, kid, array, sg, chan, dangling, stale, owner>>
          /\ index' \in {index, 0} /\ driver' \in {"of_register", "bound", "undo"}
      BY <1>8 DEF Register, OfRegister, Remove, Driver
    <3> QED BY <3>1 DEF ProbeTypeOK
  <2>2. PlacesInv'
    BY <1>8 DEF Register, OfRegister, Remove, Driver, ProbeTypeOK, PlacesInv, Probing
  <2>3. HandlerInv'
    <3>1. CASE Register
      BY <1>8, <3>1 DEF Register, Driver, ProbeTypeOK, PlacesInv, HandlerInv, Probing
    <3>2. CASE OfRegister
      BY <1>8, <3>2 DEF OfRegister, ProbeTypeOK, PlacesInv, HandlerInv, Probing
    <3>3. CASE Remove
      BY <1>8, <3>3 DEF Remove, Driver, ProbeTypeOK, PlacesInv, HandlerInv, Probing
    <3> QED BY <1>8, <3>1, <3>2, <3>3
  <2> QED BY <2>1, <2>2, <2>3
<1>9. CASE ChanRemove
  <2>1. ProbeTypeOK'
    <3>1. CASE array[index] = 0
      BY <1>9, <3>1 DEF ChanRemove, ProbeTypeOK
    <3>2. CASE array[index] # 0
      <4>1. array[index] \in Id /\ index' \in 0 .. MaxChans
        BY <1>9, <3>2 DEF ChanRemove, ProbeTypeOK
      <4>2. chan' = [chan EXCEPT ![array[index]].irq = FALSE, ![array[index]].listed = FALSE]
        BY <1>9, <3>2 DEF ChanRemove
      <4>3. chan' \in [Id -> Chan]
        BY <4>1, <4>2, ChanTyped DEF ProbeTypeOK, Chan
      <4> QED BY <1>9, <4>1, <4>3 DEF ChanRemove, ProbeTypeOK, Chan
    <3> QED BY <3>1, <3>2
  <2>2. PlacesInv'
    BY <1>9 DEF ChanRemove, ProbeTypeOK, PlacesInv, Probing
  <2>3. HandlerInv'
    BY <1>9 DEF ChanRemove, ProbeTypeOK, PlacesInv, HandlerInv, Probing
  <2> QED BY <2>1, <2>2, <2>3
<1>10. CASE DevmRelease
  <2>1. ProbeTypeOK'
    <3>1. stale' \subseteq Id \X Client
      BY <1>10 DEF DevmRelease, ProbeTypeOK
    <3>2. owner' \in [Id -> Client \cup {None}] /\ chan' \in [Id -> Chan]
      BY <1>10 DEF DevmRelease, NewChan, Chan
    <3> QED BY <1>10, <3>1, <3>2 DEF DevmRelease, Driver, ProbeTypeOK, Chan
  <2>2. PlacesInv'
    BY <1>10 DEF DevmRelease, Driver, ProbeTypeOK, PlacesInv, Probing
  <2>3. HandlerInv'
    BY <1>10 DEF DevmRelease, Driver, ProbeTypeOK, PlacesInv, HandlerInv, Probing, NewChan
  <2> QED BY <2>1, <2>2, <2>3
<1>11. CASE \/ \E c \in Id : Interrupt(c)
            \/ \E n \in XlateArgs : Xlate(n)
            \/ \E c \in Id : OfRelease(c)
  <2>1. UNCHANGED probeVars /\ owner' \in [Id -> Client \cup {None}]
    BY <1>11 DEF Interrupt, Xlate, OfRelease, ProbeTypeOK, Client
  <2> QED BY <2>1 DEF probeVars, ProbeTypeOK, PlacesInv, HandlerInv, Probing, Child
<1>12. CASE Proxying \/ UNCHANGED vars
  <2>1. UNCHANGED probeVars /\ (UNCHANGED owner \/ RequestChannel \/ ExitChannel)
    BY <1>12, ProxyingFrame DEF vars
  <2>2. owner' \in [Id -> Client \cup {None}]
    BY <2>1 DEF RequestChannel, ExitChannel, FollowsStale, ProbeTypeOK, Client
  <2> QED BY <2>1, <2>2 DEF probeVars, ProbeTypeOK, PlacesInv, HandlerInv, Probing, Child
<1> QED
  BY DrivingIsEngineStep, <1>1, <1>2, <1>3, <1>4, <1>5, <1>6, <1>7, <1>8, <1>9, <1>10, <1>11,
     <1>12 DEF Next, EngineStep

LEMMA EngineInvInit == Init => EngineInv
BY DEF Init, ProbeInit, EngineInv, ProbeTypeOK, PlacesInv, HandlerInv, Probing, MaxChans, Id,
       NewChan

LEMMA EngineInvAlways == Spec => []EngineInv
<1>1. EngineInv /\ [Next]_vars => EngineInv'
  BY EngineInvStep
<1> QED BY EngineInvInit, <1>1, PTL DEF Spec

\* An interrupt handler is never left on a channel that was freed, but for the one
\* stored behind the array, whatever the device tree is, whatever fails in probe, and
\* however the driver is unbound (vxdma.c:1055-1265).
THEOREM HandlersHaveChannels == Spec => []HandlerHasChannel
<1>1. EngineInv => HandlerHasChannel
  BY DEF EngineInv, HandlerInv, HandlerHasChannel
<1> QED BY EngineInvAlways, <1>1, PTL

LEMMA ListedInvStep ==
  ASSUME EngineInv, ListedInv, [Next]_vars
  PROVE  ListedInv'
<1> USE DEF ListedInv, Probing, MaxChans
<1>1. CASE Probe
  BY <1>1 DEF Probe, Driver
<1>2. CASE StoreChan
  <2>1. Child \in Id /\ Child' = Child
    BY <1>2, ChildInId DEF StoreChan, Child, EngineInv
  <2> QED BY <1>2, <2>1 DEF StoreChan, Driver, EngineInv, ProbeTypeOK, PlacesInv, NewChan, Id
<1>3. CASE InitLists \/ RequestIrq
  <2>1. Child \in Id /\ Child' = Child /\ driver \in {"init", "irq"}
    BY <1>3, ChildInId DEF InitLists, RequestIrq, Driver, EngineInv, PlacesInv, Child
  <2>2. UNCHANGED array /\ \A c \in Id : chan'[c].listed = chan[c].listed
    BY <1>3, <2>1 DEF InitLists, RequestIrq, EngineInv, ProbeTypeOK
  <2> QED BY <1>3, <2>1, <2>2 DEF InitLists, RequestIrq, Driver, EngineInv, PlacesInv, Id
<1>4. CASE AddToChannels
  <2>1. Child \in Id /\ driver = "list" /\ driver' = "child"
    BY <1>4, ChildInId DEF AddToChannels, Driver, EngineInv, PlacesInv
  <2>2. UNCHANGED array /\ chan' = [chan EXCEPT ![Child].listed = TRUE]
    BY <1>4 DEF AddToChannels
  <2>3. SUFFICES ASSUME NEW n \in 0 .. MaxChans - 1, array[n] # 0
                 PROVE  chan'[array[n]].listed
    BY <2>1, <2>2
  <2>4. array[n] \in Id /\ (array[n] = Child \/ chan[array[n]].listed)
    BY <2>1, <2>3 DEF EngineInv, PlacesInv, Id
  <2> QED BY <2>1, <2>2, <2>4 DEF EngineInv, ProbeTypeOK
<1>5. CASE ChanRemove
  BY <1>5 DEF ChanRemove
<1>6. CASE BadChild \/ Remove \/ DevmRelease
  BY <1>6 DEF BadChild, Remove, DevmRelease, Driver
<1>7. CASE ResetChan \/ Register \/ OfRegister
  BY <1>7 DEF ResetChan, Register, OfRegister, Driver, Child
<1>8. CASE \/ \E c \in Id : Interrupt(c)
           \/ \E n \in XlateArgs : Xlate(n)
           \/ \E c \in Id : OfRelease(c)
           \/ Proxying \/ UNCHANGED vars
  <2>1. UNCHANGED probeVars
    BY <1>8, ProxyingFrame DEF Interrupt, Xlate, OfRelease, vars
  <2> QED BY <2>1 DEF probeVars, Child
<1> QED
  BY DrivingIsEngineStep, <1>1, <1>2, <1>3, <1>4, <1>5, <1>6, <1>7, <1>8 DEF Next, EngineStep

LEMMA ListedAlways == Spec => []ListedInv
<1>1. Init => ListedInv
  BY DEF Init, ProbeInit, ListedInv, Probing
<1>2. EngineInv /\ ListedInv /\ [Next]_vars => ListedInv'
  BY ListedInvStep
<1> QED BY EngineInvAlways, <1>1, <1>2, PTL DEF Spec
-----------------------------------------------------------------------------
(* Proxy *)

Px == [chan : BOOLEAN, region : BOOLEAN, cdev : BOOLEAN,
       node : {"null", "device", "error"}, buf : BOOLEAN]

LEMMA PxTyped ==
  ASSUME NEW x \in [Id -> Px], NEW c \in Id
  PROVE  /\ [x EXCEPT ![c].chan = TRUE] \in [Id -> Px]
         /\ [x EXCEPT ![c].cdev = TRUE] \in [Id -> Px]
         /\ [x EXCEPT ![c].region = FALSE] \in [Id -> Px]
         /\ [x EXCEPT ![c].buf = TRUE] \in [Id -> Px]
         /\ [x EXCEPT ![c].chan = FALSE, ![c].buf = FALSE] \in [Id -> Px]
BY DEF Px

LEMMA PxCleared ==
  ASSUME NEW x \in [Id -> Px], NEW c \in Id, NEW b \in BOOLEAN
  PROVE  [x EXCEPT ![c].node = "null", ![c].cdev = FALSE, ![c].region = FALSE,
                   ![c].buf = @ /\ b] \in [Id -> Px]
<1>1. [x[c] EXCEPT !.node = "null", !.cdev = FALSE, !.region = FALSE] \in Px
  BY DEF Px
<1>2. [x[c] EXCEPT !.node = "null", !.cdev = FALSE, !.region = FALSE, !.buf = @ /\ b] \in Px
  BY <1>1 DEF Px
<1> QED BY <1>2

LEMMA ProxyTypeStep ==
  ASSUME ProxyTypeOK, [Next]_vars
  PROVE  ProxyTypeOK'
<1> USE DEF ProxyTypeOK, At, GoOn, Fail
<1>1. CASE LoadModule \/ UnloadModule
  BY <1>1 DEF LoadModule, UnloadModule, userVars, Id
<1>2. CASE RequestChannel
  <2>1. px' \in [Id -> Px]
    <3>1. px' = px \/ px' = [px EXCEPT ![cur].chan = TRUE]
      BY <1>2 DEF RequestChannel
    <3>2. px \in [Id -> Px] /\ cur \in Id
      BY DEF Px
    <3>3. /\ [px EXCEPT ![cur].chan = TRUE] \in [Id -> Px]
          /\ [px EXCEPT ![cur].buf = TRUE] \in [Id -> Px]
      BY <3>2, PxTyped, Zenon
    <3> QED BY <3>1, <3>2, <3>3, Zenon
  <2> QED BY <1>2, <2>1 DEF RequestChannel, userVars, Px
<1>3. CASE AllocRegion
  BY <1>3, ZenonT(40) DEF AllocRegion, userVars
<1>4. CASE AddCdev
  <2>1. px' = px \/ px' = [px EXCEPT ![cur].cdev = TRUE] \/ px' = [px EXCEPT ![cur].region = FALSE]
    BY <1>4 DEF AddCdev
  <2>2. px \in [Id -> Px] /\ cur \in Id
    BY DEF Px
  <2>3. px' \in [Id -> Px]
    <3>1. /\ [px EXCEPT ![cur].cdev = TRUE] \in [Id -> Px]
          /\ [px EXCEPT ![cur].region = FALSE] \in [Id -> Px]
      BY <2>2, PxTyped, Zenon
    <3> QED BY <2>1, <2>2, <3>1, Zenon
  <2> QED BY <1>4, <2>3 DEF AddCdev, userVars, Px
<1>5. CASE CreateClass
  BY <1>5 DEF CreateClass, userVars
<1>6. CASE CreateDevice
  BY <1>6 DEF CreateDevice, userVars
<1>7. CASE AllocBuffer
  <2>1. px' \in [Id -> Px]
    <3>1. px' = px \/ px' = [px EXCEPT ![cur].buf = TRUE]
      BY <1>7 DEF AllocBuffer
    <3>2. px \in [Id -> Px] /\ cur \in Id
      BY DEF Px
    <3>3. /\ [px EXCEPT ![cur].chan = TRUE] \in [Id -> Px]
          /\ [px EXCEPT ![cur].buf = TRUE] \in [Id -> Px]
      BY <3>2, PxTyped, Zenon
    <3> QED BY <3>1, <3>2, <3>3, Zenon
  <2>2. cur' \in Id
    BY <1>7 DEF AllocBuffer, Id
  <2> QED BY <1>7, <2>1, <2>2 DEF AllocBuffer, userVars, Px
<1>8. CASE ExitDevice
  <2>1. px' \in [Id -> Px]
    BY <1>8, PxCleared DEF ExitDevice, Px
  <2>2. cur' \in Id
    BY <1>8 DEF ExitDevice, ExitStep, Id
  <2> QED BY <1>8, <2>1, <2>2 DEF ExitDevice, ExitStep, userVars, Px
<1>9. CASE ExitChannel
  <2>1. CASE FollowsStale
    BY <2>1 DEF FollowsStale, proxyVars, userVars
  <2>2. CASE ~FollowsStale
    <3>1. px' \in [Id -> Px]
      <4>1. px \in [Id -> Px] /\ cur \in Id
        BY DEF Px
      <4>2. px' = [px EXCEPT ![cur].chan = FALSE, ![cur].buf = FALSE]
        BY <1>9, <2>2 DEF ExitChannel
      <4> QED BY <4>1, <4>2, PxTyped
    <3>2. cur' \in Id
      BY <1>9, <2>2 DEF ExitChannel, ExitStep, Id
    <3> QED BY <1>9, <2>2, <3>1, <3>2 DEF ExitChannel, ExitStep, userVars, Px
  <2> QED BY <2>1, <2>2
<1>10. CASE \E p \in Process : User(p)
  <2>1. PICK p \in Process : User(p)
    BY <1>10
  <2>2. CASE FollowsStale
    BY <2>2 DEF FollowsStale, proxyVars, userVars
  <2>3. CASE ~FollowsStale
    <3>1. UNCHANGED Rest
      BY <2>1, <2>3 DEF User, Open, Close, Mmap, Munmap, Ioctl, IoctlReturn
    <3>2. CASE (\E c \in Id : Open(p, c)) \/ Close(p) \/ Mmap(p) \/ Munmap(p)
      <4>1. file' \in [Process -> Id \cup {0}] /\ map' \in [Process -> Id \cup {0}]
        BY <3>2 DEF Open, Close, Mmap, Munmap
      <4> QED BY <3>1, <3>2, <4>1 DEF Open, Close, Mmap, Munmap, Rest
    <3>3. CASE Ioctl(p) \/ IoctlReturn(p)
      <4>1. UNCHANGED <<file, map>> /\ busy' \in [Process -> BOOLEAN]
        BY <2>3, <3>3 DEF Ioctl, IoctlReturn
      <4>2. Ioctl(p) => dma' \in [Id -> Nat] /\ done' \in [Id -> Nat]
        BY <2>3 DEF Ioctl
      <4>3. IoctlReturn(p) => dma' \in [Id -> Nat] /\ done' \in [Id -> Nat]
        BY <2>3 DEF IoctlReturn
      <4>4. dma' \in [Id -> Nat] /\ done' \in [Id -> Nat]
        BY <3>3, <4>2, <4>3
      <4> QED BY <3>1, <4>1, <4>4 DEF Rest
    <3> QED BY <2>1, <3>2, <3>3 DEF User
  <2> QED BY <2>2, <2>3
<1>11. CASE \E c \in Id : TransferDone(c)
  BY <1>11 DEF TransferDone, Rest, userVars
<1>12. CASE UNCHANGED proxyVars
  BY <1>12 DEF proxyVars, userVars
<1> QED
  BY DrivingFrame, <1>1, <1>2, <1>3, <1>4, <1>5, <1>6, <1>7, <1>8, <1>9, <1>10, <1>11, <1>12
  DEF Next, Proxying, vars

\* What a step of the processes and of the engine leaves alone.
LEMMA UsersFrame ==
  ASSUME (\E p \in Process : User(p)) \/ (\E c \in Id : TransferDone(c))
  PROVE  UNCHANGED Rest
BY DEF User, Open, Close, Mmap, Munmap, Ioctl, IoctlReturn, TransferDone, FollowsStale,
       proxyVars, Rest

\* The proxy only changes its pointer to a channel together with the owner.
LEMMA OwnedInvStep ==
  ASSUME ProxyTypeOK, EngineInv, OwnedInv, [Next]_vars
  PROVE  OwnedInv'
<1> USE DEF OwnedInv, Stale
<1>1. CASE RequestChannel
  <2>1. CASE Available(cur)
    <3>1. /\ owner' = [owner EXCEPT ![cur] = "proxy"] /\ UNCHANGED stale
          /\ px' = [px EXCEPT ![cur].chan = TRUE]
      BY <1>1, <2>1 DEF RequestChannel, probeVars
    <3> QED BY <3>1 DEF ProxyTypeOK, EngineInv, ProbeTypeOK
  <2>2. CASE ~Available(cur)
    BY <1>1, <2>2 DEF RequestChannel, probeVars
  <2> QED BY <2>1, <2>2
<1>2. CASE ExitChannel
  <2>1. CASE FollowsStale
    BY <1>2, <2>1 DEF ExitChannel, FollowsStale, proxyVars, probeVars
  <2>2. CASE ~FollowsStale
    <3>1. /\ ~Stale(cur) /\ UNCHANGED stale
          /\ owner' = [owner EXCEPT ![cur] = IF px[cur].chan THEN None ELSE @]
          /\ px' = [px EXCEPT ![cur].chan = FALSE, ![cur].buf = FALSE]
      BY <1>2, <2>2 DEF ExitChannel, probeVars
    <3>2. \A c \in Id : c # cur => owner'[c] = owner[c] /\ px'[c] = px[c]
      BY <3>1 DEF ProxyTypeOK, EngineInv, ProbeTypeOK
    <3>3. cur \in Id /\ ~px'[cur].chan /\ owner'[cur] # "proxy"
      BY <3>1 DEF ProxyTypeOK, EngineInv, ProbeTypeOK, None
    <3> QED BY <3>1, <3>2, <3>3
  <2> QED BY <2>1, <2>2
<1>3. CASE LoadModule \/ CreateClass \/ UnloadModule
  BY <1>3 DEF LoadModule, CreateClass, UnloadModule, probeVars
<1>4. CASE AllocRegion \/ AddCdev \/ CreateDevice \/ AllocBuffer \/ ExitDevice
  <2>1. UNCHANGED <<owner, stale>> /\ \A c \in Id : px'[c].chan = px[c].chan
    BY <1>4 DEF AllocRegion, AddCdev, CreateDevice, AllocBuffer, ExitDevice, ProxyTypeOK,
                probeVars
  <2> QED BY <2>1
<1>5. CASE (\E p \in Process : User(p)) \/ (\E c \in Id : TransferDone(c))
  BY <1>5, UsersFrame DEF Rest, probeVars
<1>6. CASE Driving
  <2>1. UNCHANGED px
    BY <1>6, DrivingFrame DEF proxyVars
  <2>2. \A c \in Id : owner'[c] = "proxy" \/ Stale(c)' <=> owner[c] = "proxy" \/ Stale(c)
    <3>1. CASE DevmRelease
      <4>1. \A c \in Id : owner'[c] = None
        BY <3>1 DEF DevmRelease
      <4>2. \A c \in Id : <<c, "proxy">> \in stale'
                           <=> <<c, "proxy">> \in stale \/ owner[c] = "proxy"
        BY <3>1 DEF DevmRelease, None
      <4> QED BY <4>1, <4>2 DEF None
    <3>2. CASE \E n \in XlateArgs : Xlate(n)
      <4>1. PICK n \in XlateArgs : Xlate(n)
        BY <3>2
      <4>2. UNCHANGED stale /\ (\/ UNCHANGED owner
                                \/ /\ owner[array[n]] = None
                                   /\ owner' = [owner EXCEPT ![array[n]] = "of"])
        BY <4>1 DEF Xlate, probeVars
      <4> QED BY <4>2 DEF EngineInv, ProbeTypeOK, None
    <3>3. CASE \E c \in Id : OfRelease(c)
      BY <3>3 DEF OfRelease, EngineInv, ProbeTypeOK, None, probeVars
    <3>4. CASE UNCHANGED <<owner, stale>>
      BY <3>4
    <3>5. CASE \/ Probe \/ BadChild \/ StoreChan \/ ResetChan \/ InitLists \/ RequestIrq
               \/ AddToChannels \/ Register \/ OfRegister \/ Remove \/ ChanRemove
               \/ \E c \in Id : Interrupt(c)
      BY <3>4, <3>5 DEF Probe, BadChild, StoreChan, ResetChan, InitLists, RequestIrq,
         AddToChannels, Register, OfRegister, Remove, ChanRemove, Interrupt, probeVars
    <3> QED
      BY <1>6, <3>1, <3>2, <3>3, <3>5, DrivingIsEngineStep DEF EngineStep
  <2> QED BY <2>1, <2>2
<1>7. CASE UNCHANGED vars
  BY <1>7 DEF vars, proxyVars, probeVars
<1> QED BY <1>1, <1>2, <1>3, <1>4, <1>5, <1>6, <1>7 DEF Next, Proxying

LEMMA ExitInvStep ==
  ASSUME ProxyTypeOK, ExitInv, [Next]_vars
  PROVE  ExitInv'
<1> USE DEF ExitInv, At, GoOn, Fail
<1>1. CASE LoadModule \/ UnloadModule
  BY <1>1 DEF LoadModule, UnloadModule, Id
<1>2. CASE RequestChannel
  BY <1>2 DEF RequestChannel
<1>3. CASE AllocRegion
  BY <1>3 DEF AllocRegion
<1>4. CASE AddCdev
  BY <1>4 DEF AddCdev
<1>5. CASE CreateClass
  BY <1>5 DEF CreateClass
<1>6. CASE CreateDevice
  BY <1>6 DEF CreateDevice
<1>7. CASE AllocBuffer
  BY <1>7 DEF AllocBuffer
<1>8. CASE ExitDevice
  <2>1. /\ cur \in Id /\ step = "exit_device" /\ module = "exit"
        /\ \A c \in Id : c < cur => DeviceGone(c)
    BY <1>8 DEF ExitDevice, ProxyTypeOK
  <2>2. \A c \in Id : DeviceGone(c)' <=> c = cur \/ DeviceGone(c)
    BY <1>8, <2>1 DEF ExitDevice, ProxyTypeOK, DeviceGone
  <2>3. CASE cur = 1
    BY <1>8, <2>1, <2>2, <2>3 DEF ExitDevice, ExitStep, Id
  <2>4. CASE cur = 2
    BY <1>8, <2>1, <2>2, <2>4 DEF ExitDevice, ExitStep, Id
  <2> QED BY <2>1, <2>3, <2>4 DEF Id
<1>9. CASE ExitChannel
  <2>1. CASE FollowsStale
    BY <2>1 DEF FollowsStale, proxyVars, DeviceGone
  <2>2. CASE ~FollowsStale
    <3>1. /\ cur \in Id /\ step = "exit_channel" /\ module = "exit" /\ class = "destroyed"
          /\ \A c \in Id : DeviceGone(c) /\ (c < cur => px[c] = NewPx)
      BY <1>9, <2>2 DEF ExitChannel, ProxyTypeOK
    <3>2. px'[cur] = NewPx
      <4>1. px' = [px EXCEPT ![cur].chan = FALSE, ![cur].buf = FALSE]
        BY <1>9, <2>2 DEF ExitChannel
      <4>2. DeviceGone(cur)
        BY <3>1
      <4> QED BY <3>1, <4>1, <4>2 DEF ProxyTypeOK, DeviceGone, NewPx
    <3>3. \A c \in Id : c # cur => px'[c] = px[c]
      BY <1>9, <2>2 DEF ExitChannel, ProxyTypeOK
    <3>4. \A c \in Id : DeviceGone(c)'
      BY <3>1, <3>2, <3>3 DEF DeviceGone, NewPx
    <3>5. CASE cur = 1
      BY <1>9, <2>2, <3>1, <3>2, <3>4, <3>5 DEF ExitChannel, ExitStep, Id
    <3>6. CASE cur = 2
      BY <1>9, <2>2, <3>1, <3>2, <3>3, <3>6 DEF ExitChannel, ExitStep, Id
    <3> QED BY <3>1, <3>5, <3>6 DEF Id
  <2> QED BY <2>1, <2>2
<1>10. CASE (\E p \in Process : User(p)) \/ (\E c \in Id : TransferDone(c))
  BY <1>10, UsersFrame DEF Rest, DeviceGone
<1>11. CASE UNCHANGED proxyVars
  BY <1>11 DEF proxyVars, DeviceGone
<1> QED
  BY DrivingFrame, <1>1, <1>2, <1>3, <1>4, <1>5, <1>6, <1>7, <1>8, <1>9, <1>10, <1>11
  DEF Next, Proxying, vars

LEMMA ProxyInvAlways == Spec => []ProxyInv
<1>1. Init => ProxyInv
  <2>1. Init => ProxyTypeOK
    BY DEF Init, ProxyInit, ProxyTypeOK, NewPx, Id
  <2>2. Init => OwnedInv
    BY DEF Init, ProbeInit, ProxyInit, OwnedInv, Stale, NewPx, None
  <2>3. Init => ExitInv
    BY DEF Init, ProxyInit, ExitInv, At
  <2> QED BY <2>1, <2>2, <2>3 DEF ProxyInv
<1>2. EngineInv /\ ProxyInv /\ [Next]_vars => ProxyInv'
  BY ProxyTypeStep, OwnedInvStep, ExitInvStep DEF ProxyInv
<1> QED BY EngineInvAlways, <1>1, <1>2, PTL DEF Spec

\* The variables of the two drivers keep their types.
THEOREM TypeCorrect == Spec => []TypeOK
<1>1. EngineInv /\ ProxyInv => TypeOK
  BY DEF EngineInv, ProxyInv, TypeOK
<1> QED BY EngineInvAlways, ProxyInvAlways, <1>1, PTL

\* dma_proxy_exit gives back what a successful dma_proxy_init had taken, whatever
\* processes did in between, and whatever becomes of the engine driver
\* (dma_proxy.c:365-596).
THEOREM ExitReleases == Spec => []ExitReleasesAll
<1>1. ProxyInv => ExitReleasesAll
  BY DEF ProxyInv, ExitInv, OwnedInv, ExitReleasesAll, NewPx
<1> QED BY ProxyInvAlways, <1>1, PTL
-----------------------------------------------------------------------------
(* The error path of dma_proxy_init, and the buffer *)

LEMMA CreateInvStep ==
  ASSUME BufferComes, ProxyTypeOK, ExitInv, CreateInv, [Next]_vars
  PROVE  CreateInv'
<1> USE DEF CreateInv, At, GoOn, Fail, Settled, Complete
<1>1. CASE LoadModule \/ UnloadModule
  BY <1>1 DEF LoadModule, UnloadModule, NewPx, Id
<1>2. CASE RequestChannel
  <2>1. module = "init" /\ step = "request" /\ cur \in Id
    BY <1>2 DEF RequestChannel, ProxyTypeOK, ExitInv
  <2>2. CASE Available(cur)
    <3>1. /\ px' = [px EXCEPT ![cur].chan = TRUE]
          /\ module' = module /\ cur' = cur /\ step' = "region"
      BY <1>2, <2>2 DEF RequestChannel
    <3>2. /\ \A c \in Id : c # cur => px'[c] = px[c]
          /\ px'[cur].chan /\ px'[cur].region = px[cur].region /\ px'[cur].cdev = px[cur].cdev
      BY <2>1, <3>1 DEF ProxyTypeOK
    <3> QED BY <2>1, <3>1, <3>2 DEF Id
  <2>3. CASE ~Available(cur)
    BY <1>2, <2>1, <2>3 DEF RequestChannel, NewPx, Id
  <2> QED BY <2>2, <2>3
<1>3. CASE AllocRegion
  <2>1. /\ module = "init" /\ step = "region" /\ cur \in Id /\ cur' = cur
        /\ px[cur].chan /\ ~px[cur].region /\ ~px[cur].cdev
    BY <1>3 DEF AllocRegion, ProxyTypeOK, ExitInv
  <2>2. CASE px' = [px EXCEPT ![cur].region = TRUE] /\ GoOn("cdev")
    <3>1. /\ \A c \in Id : c # cur => px'[c] = px[c]
          /\ px'[cur].chan /\ px'[cur].region /\ ~px'[cur].cdev
      BY <2>1, <2>2 DEF ProxyTypeOK
    <3> QED BY <2>1, <2>2, <3>1 DEF Id
  <2>3. CASE Fail /\ UNCHANGED px
    BY <2>1, <2>3 DEF NewPx, Id
  <2> QED BY <1>3, <2>2, <2>3 DEF AllocRegion
<1>4. CASE AddCdev
  <2>1. /\ module = "init" /\ step = "cdev" /\ cur \in Id /\ cur' = cur
        /\ px[cur].chan /\ px[cur].region /\ ~px[cur].cdev
    BY <1>4 DEF AddCdev, ProxyTypeOK, ExitInv
  <2>2. CASE px' = [px EXCEPT ![cur].cdev = TRUE] /\ GoOn("class")
    <3>1. /\ \A c \in Id : c # cur => px'[c] = px[c]
          /\ px'[cur].chan /\ px'[cur].region /\ px'[cur].cdev
      BY <2>1, <2>2 DEF ProxyTypeOK
    <3> QED BY <2>1, <2>2, <3>1 DEF Id
  <2>3. CASE Fail /\ px' = [px EXCEPT ![cur].region = FALSE]
    <3>1. /\ \A c \in Id : c # cur => px'[c] = px[c]
          /\ ~px'[cur].region /\ ~px'[cur].cdev
      BY <2>1, <2>3 DEF ProxyTypeOK
    <3>2. \A c \in Id : c = cur \/ Settled(c)
      BY <2>1 DEF NewPx, Id
    <3> QED BY <2>1, <2>3, <3>1, <3>2
  <2> QED BY <1>4, <2>2, <2>3 DEF AddCdev
<1>5. CASE CreateClass
  BY <1>5 DEF CreateClass
<1>6. CASE CreateDevice
  BY <1>6 DEF CreateDevice, ProxyTypeOK
<1>7. CASE AllocBuffer
  <2>1. /\ module = "init" /\ step = "buffer" /\ cur \in Id /\ px[cur].chan
        /\ px' = [px EXCEPT ![cur].buf = TRUE]
    BY <1>7 DEF AllocBuffer, ProxyTypeOK, ExitInv, BufferComes, Broken
  <2>2. /\ \A c \in Id : c # cur => px'[c] = px[c]
        /\ px'[cur].buf /\ px'[cur].chan /\ px'[cur].node = px[cur].node
        /\ px'[cur].region = px[cur].region /\ px'[cur].cdev = px[cur].cdev
    BY <2>1 DEF ProxyTypeOK
  <2>3. \A c \in Id : c <= cur => Settled(c)'
    <3> SUFFICES ASSUME NEW c \in Id, c <= cur
                 PROVE  Settled(c)'
      OBVIOUS
    <3>1. CASE c = cur
      BY <2>1, <2>2, <3>1
    <3>2. CASE c < cur
      BY <2>1, <2>2, <3>2
    <3> QED BY <2>1, <3>1, <3>2 DEF Id
  <2>4. CASE cur = 1
    BY <1>7, <2>1, <2>2, <2>3, <2>4 DEF AllocBuffer, BufferComes, Broken, NewPx, Id
  <2>5. CASE cur = 2
    BY <1>7, <2>1, <2>2, <2>3, <2>5 DEF AllocBuffer, BufferComes, Broken, Id
  <2> QED BY <2>1, <2>4, <2>5 DEF Id
<1>8. CASE ExitDevice \/ ExitChannel
  <2>1. CASE FollowsStale
    BY <2>1 DEF FollowsStale, proxyVars
  <2>2. CASE ~FollowsStale
    BY <1>8, <2>2 DEF ExitDevice, ExitChannel, ExitStep, ExitInv
  <2> QED BY <2>1, <2>2
<1>9. CASE (\E p \in Process : User(p)) \/ (\E c \in Id : TransferDone(c))
  BY <1>9, UsersFrame DEF Rest
<1>10. CASE UNCHANGED proxyVars
  BY <1>10 DEF proxyVars
<1> QED
  BY DrivingFrame, <1>1, <1>2, <1>3, <1>4, <1>5, <1>6, <1>7, <1>8, <1>9, <1>10
  DEF Next, Proxying, vars

LEMMA CreateAlways ==
  ASSUME BufferComes
  PROVE  Spec => []CreateInv
<1>1. Init => CreateInv
  BY DEF Init, ProxyInit, CreateInv
<1>2. ProxyInv /\ CreateInv /\ [Next]_vars => CreateInv'
  BY CreateInvStep DEF ProxyInv
<1> QED BY ProxyInvAlways, <1>1, <1>2, PTL DEF Spec

\* Wherever dma_proxy_init stops for an error, no channel is left half made
\* (dma_proxy.c:365-431, 451-558), unless it is the buffer that cannot be had.
THEOREM ErrorPathWorks ==
  ASSUME BufferComes
  PROVE  Spec => []ErrorPathUndone
<1>1. CreateInv => ErrorPathUndone
  BY DEF CreateInv, Settled, ErrorPathUndone
<1> QED BY CreateAlways, <1>1, PTL

LEMMA UsedInvStep ==
  ASSUME OpenedWhenDone, ProxyTypeOK, ExitInv, CreateInv, UsedInv, [Next]_vars
  PROVE  UsedInv'
<1> USE DEF UsedInv
<1>1. CASE \E p \in Process : User(p)
  <2>1. PICK p \in Process : User(p)
    BY <1>1
  <2>2. UNCHANGED <<px, module>>
    BY <1>1, UsersFrame DEF Rest
  <2>3. \A c \in Id : Complete(c)' <=> Complete(c)
    BY <2>2 DEF Complete
  <2>4. ASSUME NEW c \in Id, Open(p, c)
        PROVE  UsedInv'
    <3>1. module \in {"loaded", "failed"} /\ Complete(c)
      BY <2>4, ProxyAssumption DEF Open, OpenedWhenDone, CreateInv, Settled
    <3> QED BY <2>2, <2>3, <2>4, <3>1 DEF Open, ProxyTypeOK
  <2>5. CASE Close(p) \/ Mmap(p) \/ Munmap(p)
    BY <2>2, <2>3, <2>5 DEF Close, Mmap, Munmap, ProxyTypeOK
  <2>6. CASE Ioctl(p) \/ IoctlReturn(p)
    BY <2>2, <2>3, <2>6 DEF Ioctl, IoctlReturn, ProxyTypeOK, FollowsStale, proxyVars, userVars
  <2> QED BY <2>1, <2>4, <2>5, <2>6 DEF User
<1>2. CASE \E c \in Id : TransferDone(c)
  BY <1>2 DEF TransferDone, Rest, userVars, Complete
<1>3. CASE UnloadModule
  BY <1>3 DEF UnloadModule, InUse, userVars
<1>4. CASE \/ LoadModule \/ RequestChannel \/ AllocRegion \/ AddCdev \/ CreateClass
           \/ CreateDevice \/ AllocBuffer \/ ExitDevice \/ ExitChannel
  <2>1. module \notin {"loaded", "failed"} /\ UNCHANGED userVars
    BY <1>4 DEF LoadModule, RequestChannel, AllocRegion, AddCdev, CreateClass, CreateDevice,
                AllocBuffer, ExitDevice, ExitChannel, At, FollowsStale, proxyVars
  <2> QED BY <2>1 DEF userVars
<1>5. CASE UNCHANGED proxyVars
  BY <1>5 DEF proxyVars, userVars, Complete
<1> QED
  BY DrivingFrame, <1>1, <1>2, <1>3, <1>4, <1>5 DEF Next, Proxying, vars

LEMMA WaitingIsFinite ==
  ASSUME NEW c \in Id
  PROVE  IsFiniteSet(Waiting(c)) /\ Cardinality(Waiting(c)) \in Nat
<1>1. Waiting(c) \in SUBSET Process
  BY DEF Waiting
<1>2. IsFiniteSet(Waiting(c))
  BY <1>1, ProxyAssumption, FS_Subset
<1> QED BY <1>2, FS_CardinalityType

\* The process that enters the ioctl waits for the transfer it submits.
LEMMA IoctlWaits ==
  ASSUME ProxyTypeOK, DmaInv, NEW p \in Process, Ioctl(p), ~FollowsStale
  PROVE  DmaInv'
<1>1. PICK c \in Id : c = file[p]
  BY DEF Ioctl, ProxyTypeOK
<1>2. /\ ~busy[p] /\ busy' = [busy EXCEPT ![p] = TRUE] /\ UNCHANGED file
      /\ dma' = [dma EXCEPT ![c] = @ + 1] /\ done' = [done EXCEPT ![c] = 0]
  BY <1>1 DEF Ioctl
<1>3. Waiting(c)' = Waiting(c) \cup {p} /\ p \notin Waiting(c)
  BY <1>1, <1>2 DEF Waiting, ProxyTypeOK
<1>4. Cardinality(Waiting(c)') = Cardinality(Waiting(c)) + 1
  BY <1>3, WaitingIsFinite, FS_AddElement
<1>5. ASSUME NEW d \in Id, d # c
      PROVE  Waiting(d)' = Waiting(d) /\ dma'[d] = dma[d] /\ done'[d] = done[d]
  BY <1>1, <1>2, <1>5 DEF Waiting, ProxyTypeOK
<1>6. dma'[c] + done'[c] <= Cardinality(Waiting(c)')
  BY <1>2, <1>4, WaitingIsFinite DEF DmaInv, ProxyTypeOK
<1> QED BY <1>5, <1>6 DEF DmaInv

\* The process that returns has seen one callback.
LEMMA IoctlReturnSeesOne ==
  ASSUME TransfersEnd, ProxyTypeOK, UsedInv, DmaInv,
         NEW p \in Process, IoctlReturn(p), ~FollowsStale
  PROVE  DmaInv'
<1>1. PICK c \in Id : c = file[p]
  BY DEF IoctlReturn, UsedInv, ProxyTypeOK
<1>2. /\ busy[p] /\ busy' = [busy EXCEPT ![p] = FALSE] /\ UNCHANGED <<file, dma>>
      /\ done[c] > 0 /\ done' = [done EXCEPT ![c] = @ - 1]
  BY <1>1 DEF IoctlReturn, Broken, TransfersEnd
<1>3. Waiting(c)' = Waiting(c) \ {p} /\ p \in Waiting(c)
  BY <1>1, <1>2 DEF Waiting, ProxyTypeOK
<1>4. Cardinality(Waiting(c)') = Cardinality(Waiting(c)) - 1
  BY <1>3, WaitingIsFinite, FS_RemoveElement
<1>5. ASSUME NEW d \in Id, d # c
      PROVE  Waiting(d)' = Waiting(d) /\ dma'[d] = dma[d] /\ done'[d] = done[d]
  BY <1>1, <1>2, <1>5 DEF Waiting, ProxyTypeOK
<1>6. dma'[c] + done'[c] <= Cardinality(Waiting(c)')
  BY <1>2, <1>4, WaitingIsFinite DEF DmaInv, ProxyTypeOK
<1> QED BY <1>5, <1>6 DEF DmaInv

LEMMA DmaInvStep ==
  ASSUME TransfersEnd, ProxyTypeOK, UsedInv, DmaInv, [Next]_vars
  PROVE  DmaInv'
<1>1. CASE UNCHANGED proxyVars
  BY <1>1 DEF DmaInv, Waiting, proxyVars, userVars
<1>2. CASE (\E p \in Process : User(p)) /\ ~FollowsStale
  <2>1. PICK p \in Process : User(p)
    BY <1>2
  <2>2. CASE (\E c \in Id : Open(p, c)) \/ Close(p) \/ Mmap(p) \/ Munmap(p)
    <3>1. UNCHANGED <<dma, done>> /\ \A c \in Id : Waiting(c)' = Waiting(c)
      BY <2>2 DEF Open, Close, Mmap, Munmap, UsedInv, ProxyTypeOK, Waiting
    <3> QED BY <3>1 DEF DmaInv
  <2> QED BY <1>2, <2>1, <2>2, IoctlWaits, IoctlReturnSeesOne DEF User
<1>3. CASE \E c \in Id : TransferDone(c)
  <2>1. PICK c \in Id : TransferDone(c)
    BY <1>3
  <2>2. \A d \in Id : Waiting(d)' = Waiting(d) /\ dma'[d] + done'[d] = dma[d] + done[d]
    BY <2>1 DEF TransferDone, userVars, Waiting, ProxyTypeOK
  <2> QED BY <2>2 DEF DmaInv
<1>4. CASE /\ \/ LoadModule \/ RequestChannel \/ AllocRegion \/ AddCdev \/ CreateClass
              \/ CreateDevice \/ AllocBuffer \/ UnloadModule \/ ExitDevice \/ ExitChannel
           /\ ~FollowsStale
  <2>1. UNCHANGED <<dma, done, userVars>>
    BY <1>4 DEF LoadModule, RequestChannel, AllocRegion, AddCdev, CreateClass, CreateDevice,
                AllocBuffer, UnloadModule, ExitDevice, ExitChannel
  <2> QED BY <2>1 DEF DmaInv, Waiting, userVars
<1>5. FollowsStale => UNCHANGED proxyVars
  BY DEF FollowsStale
<1> QED
  BY DrivingFrame, <1>1, <1>2, <1>3, <1>4, <1>5 DEF Next, Proxying, vars

LEMMA UsedAlways ==
  ASSUME BufferComes, OpenedWhenDone
  PROVE  Spec => []UsedInv
<1>1. Init => UsedInv
  BY DEF Init, ProxyInit, UsedInv
<1>2. ProxyInv /\ CreateInv /\ UsedInv /\ [Next]_vars => UsedInv'
  BY UsedInvStep DEF ProxyInv
<1> QED BY ProxyInvAlways, CreateAlways, <1>1, <1>2, PTL DEF Spec

LEMMA DmaAlways ==
  ASSUME BufferComes, OpenedWhenDone, TransfersEnd
  PROVE  Spec => []DmaInv
<1>1. Init => DmaInv
  <2> SUFFICES ASSUME Init, NEW c \in Id
               PROVE  dma[c] + done[c] <= Cardinality(Waiting(c))
    BY DEF DmaInv
  <2> QED BY WaitingIsFinite DEF Init, ProxyInit
<1>2. ProxyInv /\ UsedInv /\ DmaInv /\ [Next]_vars => DmaInv'
  BY DmaInvStep DEF ProxyInv
<1> QED BY ProxyInvAlways, UsedAlways, <1>1, <1>2, PTL DEF Spec

\* For any number of processes that open, map, transfer, close and unmap in any order:
\* the buffer stays as long as it is mapped or the engine transfers it, and the proxy
\* does not give the channel back meanwhile, though the completion that a process waits
\* for may be another's (dma_proxy.c:138-349, 569-596).
THEOREM BufferOutlivesUse ==
  ASSUME BufferComes, OpenedWhenDone, TransfersEnd
  PROVE  Spec => []BufferInUseIsAllocated
<1>1. ProxyInv /\ UsedInv /\ DmaInv => BufferInUseIsAllocated
  <2> SUFFICES ASSUME ProxyInv, UsedInv, DmaInv
               PROVE  BufferInUseIsAllocated
    OBVIOUS
  <2>1. \A p \in Process : map[p] # 0 => px[map[p]].buf
    BY DEF UsedInv, Complete
  <2>2. ASSUME NEW c \in Id, dma[c] > 0
        PROVE  px[c].buf /\ px[c].chan
    <3>1. Cardinality(Waiting(c)) # 0
      BY <2>2, WaitingIsFinite DEF DmaInv, ProxyInv, ProxyTypeOK
    <3>2. PICK p \in Process : busy[p] /\ file[p] = c
      BY <3>1, FS_EmptySet DEF Waiting
    <3>3. Complete(c)
      BY <3>2 DEF UsedInv, Id
    <3> QED BY <3>3 DEF Complete
  <2> QED BY <2>1, <2>2 DEF BufferInUseIsAllocated
<1> QED BY ProxyInvAlways, UsedAlways, DmaAlways, <1>1, PTL
-----------------------------------------------------------------------------
(* No crash *)

LEMMA FoundInvStep ==
  ASSUME ProbeIsHandled, EngineInv, ListedInv, FoundInv, [Next]_vars
  PROVE  FoundInv'
<1> USE DEF FoundInv
<1>1. tree \in Seq(Id) /\ DOMAIN tree = 1 .. Len(tree) /\ kid \in Nat /\ index \in 0 .. MaxChans
  BY ProbeAssumption DEF EngineInv, ProbeTypeOK
<1>2. CASE Probe
  BY <1>1, <1>2 DEF Probe, Driver
<1>3. CASE BadChild
  BY <1>3 DEF BadChild, Driver, ListedInv
<1>4. CASE StoreChan
  <2>1. /\ driver = "child" /\ driver' = "reset" /\ UNCHANGED <<tree, kid>>
        /\ kid \in DOMAIN tree /\ Child \in Id
    BY <1>1, <1>4, ChildInId DEF StoreChan, Driver, EngineInv, ProbeTypeOK
  <2>2. array[1] = 1 => array'[1] = 1
    BY <1>4, <2>1 DEF StoreChan, EngineInv, ProbeTypeOK, MaxChans
  <2>3. tree[kid] = 1 => array'[1] = 1
    BY <1>4 DEF StoreChan, Child, EngineInv, ProbeTypeOK, MaxChans
  <2> QED BY <1>1, <2>1, <2>2, <2>3
<1>5. CASE ResetChan \/ RequestIrq
  <2>1. UNCHANGED <<tree, kid, index, array>>
    BY <1>5 DEF ResetChan, RequestIrq
  <2>2. CASE driver' = "undo"
    <3>1. Child \in Id /\ (<<"reset", Child>> \in ProbeFaults \/ <<"irq", Child>> \in ProbeFaults)
      BY <1>5, <2>2, ChildInId DEF ResetChan, RequestIrq, Fails, EngineInv, PlacesInv, Probing
    <3>2. Child \notin 0 .. MaxChans - 1
      BY <3>1 DEF ProbeIsHandled
    <3>3. ASSUME NEW n \in 0 .. MaxChans - 1, array[n] # 0
          PROVE  chan[array[n]].listed /\ array[n] # Child /\ array[n] \in Id
      <4>1. Probing /\ array[n] \in 0 .. MaxChans - 1 /\ array[n] \in Id
        BY <1>5, <3>3 DEF ResetChan, RequestIrq, Probing, EngineInv, PlacesInv, MaxChans, Id
      <4> QED BY <3>2, <3>3, <4>1 DEF ListedInv
    <3>4. \A c \in Id : c # Child => chan'[c] = chan[c]
      BY <1>5 DEF ResetChan, RequestIrq, EngineInv, ProbeTypeOK
    <3> QED BY <2>1, <2>2, <3>3, <3>4
  <2>3. CASE driver' # "undo"
    BY <1>5, <2>1, <2>3 DEF ResetChan, RequestIrq
  <2> QED BY <2>2, <2>3
<1>6. CASE InitLists
  BY <1>6 DEF InitLists, Driver
<1>7. CASE AddToChannels
  BY <1>1, <1>7 DEF AddToChannels, Driver
<1>8. CASE Register
  BY <1>8 DEF Register, Driver
<1>9. CASE OfRegister \/ Remove
  BY <1>9 DEF OfRegister, Remove, Driver, ListedInv
<1>10. CASE ChanRemove
  <2>1. driver = "undo" /\ driver' = "undo" /\ index' = index + 1 /\ UNCHANGED array
    BY <1>10 DEF ChanRemove
  <2>2. ASSUME NEW n \in 0 .. MaxChans - 1, n >= index + 1, array[n] # 0
        PROVE  chan'[array[n]].listed
    <3>1. array[n] = n /\ array[index] \in {0, index} /\ index \in 0 .. MaxChans - 1
      BY <1>1, <2>2 DEF EngineInv, PlacesInv, MaxChans
    <3>2. chan[n].listed /\ n \in Id /\ n # index
      BY <1>1, <2>1, <2>2, <3>1 DEF MaxChans, Id
    <3>3. chan'[n] = chan[n]
      BY <1>1, <1>10, <2>2, <3>1, <3>2 DEF ChanRemove, EngineInv, ProbeTypeOK
    <3> QED BY <3>1, <3>2, <3>3
  <2> QED BY <2>1, <2>2
<1>11. CASE DevmRelease
  BY <1>11 DEF DevmRelease, Driver
<1>12. CASE \/ \E c \in Id : Interrupt(c)
            \/ \E n \in XlateArgs : Xlate(n)
            \/ \E c \in Id : OfRelease(c)
            \/ Proxying \/ UNCHANGED vars
  <2>1. UNCHANGED probeVars
    BY <1>12, ProxyingFrame DEF Interrupt, Xlate, OfRelease, vars
  <2> QED BY <2>1 DEF probeVars
<1> QED
  BY DrivingIsEngineStep, <1>2, <1>3, <1>4, <1>5, <1>6, <1>7, <1>8, <1>9, <1>10, <1>11, <1>12
  DEF Next, EngineStep

LEMMA ClassInvStep ==
  ASSUME InitIsHandled, ProxyTypeOK, ExitInv, ClassInv, [Next]_vars
  PROVE  ClassInv'
<1> USE DEF ClassInv, At, GoOn, Fail
<1>1. CASE LoadModule \/ UnloadModule
  BY <1>1 DEF LoadModule, UnloadModule, ExitInv
<1>2. CASE RequestChannel
  <2>1. /\ module = "init" /\ step = "request" /\ UNCHANGED class
        /\ \A c \in Id : px'[c].node = px[c].node
    BY <1>2 DEF RequestChannel, ProxyTypeOK, ExitInv
  <2>2. (module' = module /\ step' = "region") \/ module' = "failed"
    BY <1>2 DEF RequestChannel
  <2> QED BY <2>1, <2>2
<1>3. CASE AllocRegion \/ AddCdev
  <2>1. /\ module = "init" /\ step \in {"region", "cdev"} /\ UNCHANGED class
        /\ \A c \in Id : px'[c].node = px[c].node
    BY <1>3 DEF AllocRegion, AddCdev, ProxyTypeOK, ExitInv
  <2>2. (module' = module /\ step' \in {"cdev", "class"}) \/ module' = "failed"
    BY <1>3 DEF AllocRegion, AddCdev
  <2> QED BY <2>1, <2>2
<1>4. CASE CreateClass
  BY <1>4 DEF CreateClass, InitIsHandled, Broken, ExitInv
<1>5. CASE CreateDevice
  <2>1. module = "init" /\ class = "live"
    BY <1>5 DEF CreateDevice, ExitInv
  <2>2. ~DeviceFails
    BY <2>1 DEF DeviceFails, Broken, InitIsHandled
  <2>3. px' = [px EXCEPT ![cur].node = "device"] /\ step' = "buffer" /\ UNCHANGED <<class, module>>
    BY <1>5, <2>1, <2>2 DEF CreateDevice
  <2> QED BY <2>1, <2>3 DEF ProxyTypeOK
<1>6. CASE AllocBuffer
  <2>1. /\ UNCHANGED class /\ module = "init" /\ class = "live"
        /\ module' \notin {"unloaded", "exit"}
    BY <1>6 DEF AllocBuffer, ExitInv
  <2>2. \A c \in Id : px'[c].node = px[c].node
    BY <1>6 DEF AllocBuffer, ProxyTypeOK
  <2> QED BY <2>1, <2>2
<1>7. CASE ExitDevice
  <2>1. module = "exit" /\ step = "exit_device" /\ class \in {"none", "live"}
    BY <1>7 DEF ExitDevice, ExitInv
  <2>2. /\ module' = "exit"
        /\ (cur = 1 /\ class' = class) \/ step' = "exit_channel"
    BY <1>7, <2>1 DEF ExitDevice, ExitStep
  <2>3. \A c \in Id : px'[c].node # "error"
    BY <1>7 DEF ExitDevice, ProxyTypeOK
  <2> QED BY <2>1, <2>2, <2>3
<1>8. CASE ExitChannel
  <2>1. module' = "gone" \/ (module' = "exit" /\ step' = "exit_channel")
    BY <1>8 DEF ExitChannel, ExitStep, ExitInv, FollowsStale, proxyVars
  <2>2. \A c \in Id : px'[c].node = px[c].node
    BY <1>8 DEF ExitChannel, ProxyTypeOK, FollowsStale, proxyVars
  <2> QED BY <2>1, <2>2
<1>9. CASE (\E p \in Process : User(p)) \/ (\E c \in Id : TransferDone(c))
  BY <1>9, UsersFrame DEF Rest
<1>10. CASE UNCHANGED proxyVars
  BY <1>10 DEF proxyVars
<1> QED
  BY DrivingFrame, <1>1, <1>2, <1>3, <1>4, <1>5, <1>6, <1>7, <1>8, <1>9, <1>10
  DEF Next, Proxying, vars

\* What the lists of failures and the device trees must be for the kernel not to crash.
Handled ==
  /\ BufferComes /\ OpenedWhenDone
  /\ ProbeIsHandled /\ InitIsHandled /\ TreesHaveFirst

CrashInv ==
  /\ EngineInv /\ ListedInv /\ FoundInv
  /\ ProxyInv /\ CreateInv /\ UsedInv /\ ClassInv

\* A pointer to a channel that was freed is followed: by a client that had claimed it,
\* or by the handler that was left requested.
ClientWasLeft == stale # {} /\ crash' = "stale_client"
HandlerWasLeft == dangling # {} /\ crash' = "stale_irq"

\* A process that maps the buffer, or starts a transfer, finds it and the channel.
LEMMA UserIsSafe ==
  ASSUME CrashInv, NEW p \in Process, User(p)
  PROVE  crash' = crash \/ ClientWasLeft
<1>1. file[p] # 0 => Complete(file[p])
  BY DEF CrashInv, UsedInv
<1>2. CASE Mmap(p)
  BY <1>1, <1>2 DEF Mmap, Complete
<1>3. CASE Ioctl(p)
  BY <1>1, <1>3 DEF Ioctl, Complete, FollowsStale, Stale, ClientWasLeft
<1>4. CASE IoctlReturn(p)
  BY <1>4 DEF IoctlReturn, FollowsStale, Stale, ClientWasLeft
<1>5. CASE (\E c \in Id : Open(p, c)) \/ Close(p) \/ Munmap(p)
  BY <1>5 DEF Open, Close, Munmap
<1> QED BY <1>2, <1>3, <1>4, <1>5 DEF User

\* The first channel is in the array when the driver is bound.
LEMMA XlateIsSafe ==
  ASSUME Handled, CrashInv, NEW n \in XlateArgs, Xlate(n)
  PROVE  crash' = crash
<1>1. n = 1 /\ driver = "bound"
  BY ProbeAssumption DEF Handled, TreesHaveFirst, Xlate, MaxChans
<1>2. tree \in Trees /\ tree \in Seq(Id) /\ kid > Len(tree) /\ kid \in Nat
  BY <1>1, ProbeAssumption DEF CrashInv, FoundInv, EngineInv, ProbeTypeOK
<1>3. PICK k \in DOMAIN tree : tree[k] = 1
  BY <1>2 DEF Handled, TreesHaveFirst
<1>4. k < kid
  BY <1>2, <1>3
<1>5. array[1] = 1
  BY <1>1, <1>3, <1>4 DEF CrashInv, FoundInv
<1> QED BY <1>1, <1>5 DEF Xlate

LEMMA CrashStep ==
  ASSUME Handled, CrashInv, [Next]_vars
  PROVE  crash' = crash \/ ClientWasLeft \/ HandlerWasLeft
<1>1. CASE Driving
  <2>1. CASE ChanRemove
    <3>1. driver = "undo" /\ index \in 0 .. MaxChans - 1
      BY <2>1 DEF ChanRemove, CrashInv, EngineInv, ProbeTypeOK, MaxChans
    <3>2. array[index] # 0 => chan[array[index]].listed
      BY <3>1 DEF CrashInv, FoundInv, MaxChans
    <3> QED BY <2>1, <3>2 DEF ChanRemove
  <2>2. CASE \E n \in XlateArgs : Xlate(n)
    BY <2>2, XlateIsSafe
  <2>3. CASE \E c \in Id : OfRelease(c)
    BY <2>3 DEF OfRelease, ClientWasLeft
  <2>4. CASE \E c \in Id : Interrupt(c)
    BY <2>4 DEF Interrupt, HandlerWasLeft, CrashInv, EngineInv, HandlerInv
  <2>5. CASE \/ Probe \/ BadChild \/ StoreChan \/ ResetChan \/ InitLists \/ RequestIrq
             \/ AddToChannels \/ Register \/ OfRegister \/ Remove \/ DevmRelease
    BY <2>5 DEF Probe, BadChild, StoreChan, ResetChan, InitLists, RequestIrq, AddToChannels,
       Register, OfRegister, Remove, DevmRelease
  <2> QED BY <1>1, DrivingIsEngineStep, <2>1, <2>2, <2>3, <2>4, <2>5 DEF EngineStep
<1>2. CASE \/ LoadModule \/ RequestChannel \/ AllocRegion \/ AddCdev \/ CreateClass
           \/ UnloadModule \/ \E c \in Id : TransferDone(c)
  BY <1>2 DEF LoadModule, RequestChannel, AllocRegion, AddCdev, CreateClass, UnloadModule,
     TransferDone
<1>3. CASE ExitChannel
  BY <1>3 DEF ExitChannel, FollowsStale, Stale, ClientWasLeft
<1>4. CASE CreateDevice
  <2>1. class # "destroyed"
    BY <1>4 DEF CreateDevice, At, CrashInv, ClassInv, ProxyInv, ExitInv
  <2> QED BY <1>4, <2>1 DEF CreateDevice
<1>5. CASE AllocBuffer
  <2>1. px[cur].node # "error"
    BY <1>5 DEF CrashInv, ClassInv, ProxyInv, ProxyTypeOK
  <2> QED BY <1>5, <2>1 DEF AllocBuffer
<1>6. CASE ExitDevice
  <2>1. px[cur].node # "error" /\ class # "destroyed"
    BY <1>6 DEF ExitDevice, At, CrashInv, ClassInv, ProxyInv, ProxyTypeOK, ExitInv
  <2> QED BY <1>6, <2>1 DEF ExitDevice
<1>7. CASE \E p \in Process : User(p)
  BY <1>7, UserIsSafe
<1>8. CASE UNCHANGED vars
  BY <1>8 DEF vars
<1> QED BY <1>1, <1>2, <1>3, <1>4, <1>5, <1>6, <1>7, <1>8 DEF Next, Proxying

LEMMA CrashAlways ==
  ASSUME Handled
  PROVE  Spec => []CrashInv
<1> USE DEF Handled
<1>1. Init => FoundInv /\ ClassInv
  BY DEF Init, ProbeInit, ProxyInit, FoundInv, ClassInv, NewPx, At
<1>2. /\ EngineInv /\ ListedInv /\ ProxyInv /\ (FoundInv /\ ClassInv) /\ [Next]_vars
      => (FoundInv /\ ClassInv)'
  BY FoundInvStep, ClassInvStep DEF ProxyInv
<1>3. /\ EngineInv /\ ListedInv /\ (FoundInv /\ ClassInv)
      /\ ProxyInv /\ CreateInv /\ UsedInv
      => CrashInv
  BY DEF CrashInv
<1> QED
  BY EngineInvAlways, ListedAlways, ProxyInvAlways, CreateAlways, UsedAlways,
     <1>1, <1>2, <1>3, PTL DEF Spec

\* Through every sequence of probing, loading, using, unbinding and unloading, with
\* interrupts at any time and the failures that have a way out that works, the kernel
\* only crashes on a pointer to a channel that was freed with a client or a handler
\* left: for all device trees that have the first channel, and any number of processes
\* (vxdma.c:1031-1268, dma_proxy.c:288-596).
THEOREM NothingElseCrashes ==
  ASSUME Handled
  PROVE  Spec => []OnlyStaleCrashes
<1>1. Init => OnlyStaleCrashes
  BY DEF Init, OnlyStaleCrashes
<1>2. CrashInv /\ OnlyStaleCrashes /\ [Next]_vars => OnlyStaleCrashes'
  BY CrashStep DEF OnlyStaleCrashes, ClientWasLeft, HandlerWasLeft
<1> QED BY CrashAlways, <1>1, <1>2, PTL DEF Spec
-----------------------------------------------------------------------------
(* As long as nobody unbinds the engine driver *)

\* of_dma_controller_register, the one step of probe that fails with the channels on
\* offer, works; and the channel stored behind the array is the last one probed.
ProbeKeeps ==
  /\ <<"of_register", 0>> \notin ProbeFaults
  /\ \A t \in Trees : \A k \in DOMAIN t : t[k] = 2 => k = Len(t)

\* Clients have channels of a driver that offers them, and when probe fails the loops
\* see every channel that has a handler.
KeptInv ==
  /\ stale = {} /\ dangling = {}
  /\ \A c \in Id : owner[c] # None => driver \in {"of_register", "bound"}
  /\ chan[2].irq =>
       \/ driver = "list" /\ Child = 2
       \/ driver = "child" /\ kid > Len(tree)
       \/ driver \in {"of_register", "bound"}

LEMMA KeptInvStep ==
  ASSUME ProbeKeeps, EngineInv, KeptInv, [Next]_vars, [~Remove]_vars
  PROVE  KeptInv'
<1> USE DEF KeptInv
<1>1. tree \in Trees /\ tree \in Seq(Id) /\ DOMAIN tree = 1 .. Len(tree) /\ kid \in Nat \ {0}
  BY ProbeAssumption DEF EngineInv, ProbeTypeOK
<1>2. CASE Probe
  BY <1>2 DEF Probe, Driver
<1>3. CASE BadChild
  BY <1>1, <1>3 DEF BadChild, Driver
<1>4. CASE StoreChan \/ ResetChan \/ InitLists
  <2>1. /\ driver \in {"child", "reset", "init"} /\ (driver = "child" => kid <= Len(tree))
        /\ UNCHANGED <<stale, dangling, owner>>
    BY <1>4 DEF StoreChan, ResetChan, InitLists, Driver
  <2>2. ~chan[2].irq
    BY <1>1, <2>1
  <2>3. ~chan'[2].irq
    <3>1. CASE StoreChan
      <4>1. chan' = [chan EXCEPT ![Child] = [NewChan EXCEPT !.mem = TRUE, !.sg = sg]]
        BY <3>1 DEF StoreChan
      <4> QED BY <2>2, <4>1 DEF EngineInv, ProbeTypeOK, NewChan, Id
    <3>2. CASE ResetChan
      BY <2>2, <3>2 DEF ResetChan
    <3>3. CASE InitLists
      <4>1. chan' = [chan EXCEPT ![Child].lists = TRUE]
        BY <3>3 DEF InitLists
      <4> QED BY <2>2, <4>1 DEF EngineInv, ProbeTypeOK, Id
    <3> QED BY <1>4, <3>1, <3>2, <3>3
  <2> QED BY <2>1, <2>3
<1>5. CASE RequestIrq
  <2>1. /\ driver = "irq" /\ UNCHANGED <<tree, kid, stale, dangling, owner>>
        /\ chan' = [chan EXCEPT ![Child].irq = driver' = "list"]
    BY <1>5 DEF RequestIrq
  <2>2. chan'[2].irq => Child = 2 /\ driver' = "list"
    BY <2>1 DEF EngineInv, ProbeTypeOK, Id
  <2> QED BY <2>1, <2>2 DEF Child
<1>6. CASE AddToChannels
  <2>1. /\ driver = "list" /\ driver' = "child" /\ kid <= Len(tree) /\ kid' = kid + 1
        /\ UNCHANGED <<tree, stale, dangling, owner>> /\ chan'[2].irq = chan[2].irq
    BY <1>6 DEF AddToChannels, Driver, EngineInv, ProbeTypeOK, PlacesInv, Probing, Id
  <2>2. chan[2].irq => kid = Len(tree)
    <3>1. kid \in DOMAIN tree
      BY <1>1, <2>1
    <3>2. tree[kid] = 2 => kid = Len(tree)
      BY <1>1, <3>1 DEF ProbeKeeps
    <3> QED BY <2>1, <3>2 DEF Child
  <2>3. chan'[2].irq => kid' > Len(tree')
    BY <1>1, <2>1, <2>2
  <2> QED BY <2>1, <2>3
<1>7. CASE Register \/ OfRegister
  BY <1>7 DEF Register, OfRegister, Driver, Fails, ProbeKeeps
<1>8. CASE Remove
  BY <1>8 DEF Remove, Driver, vars, probeVars
<1>9. CASE ChanRemove
  <2>1. driver = "undo" /\ UNCHANGED <<driver, stale, dangling, owner>>
    BY <1>9 DEF ChanRemove
  <2>2. ~chan'[2].irq
    BY <1>9, <2>1 DEF ChanRemove, EngineInv, ProbeTypeOK, Id
  <2> QED BY <2>1, <2>2
<1>10. CASE DevmRelease
  <2>1. driver = "undo" /\ index = MaxChans
    BY <1>10 DEF DevmRelease, Driver
  <2>2. \A c \in Id : owner[c] = None /\ ~chan[c].irq
    BY <2>1 DEF EngineInv, HandlerInv, Id
  <2> QED BY <1>10, <2>2 DEF DevmRelease, NewChan, Id
<1>11. CASE \E c \in Id : Interrupt(c)
  BY <1>11 DEF Interrupt, probeVars, Child
<1>12. CASE (\E n \in XlateArgs : Xlate(n)) \/ (\E c \in Id : OfRelease(c))
  <2>1. UNCHANGED probeVars
    BY <1>12 DEF Xlate, OfRelease
  <2>2. \A c \in Id : owner'[c] # None => owner[c] # None \/ driver = "bound"
    BY <1>12 DEF Xlate, OfRelease, EngineInv, ProbeTypeOK
  <2> QED BY <2>1, <2>2 DEF probeVars, Child
<1>13. CASE Proxying
  <2>1. UNCHANGED probeVars
    BY <1>13, ProxyingFrame
  <2>2. \A c \in Id : owner'[c] # None => owner[c] # None \/ driver \in {"of_register", "bound"}
    BY <1>13, ProxyingFrame DEF RequestChannel, ExitChannel, FollowsStale, Available,
       EngineInv, ProbeTypeOK
  <2> QED BY <2>1, <2>2 DEF probeVars, Child
<1>14. CASE UNCHANGED vars
  BY <1>14 DEF vars, probeVars, Child
<1> QED
  BY DrivingIsEngineStep, <1>2, <1>3, <1>4, <1>5, <1>6, <1>7, <1>8, <1>9, <1>10, <1>11,
     <1>12, <1>13, <1>14 DEF Next, EngineStep

\* If moreover nobody unbinds the engine driver, no crash is left at all: the proxy may
\* come, fail and go, and its users with it, on a driver that stays
\* (vxdma.c:1055-1253, dma_proxy.c:288-596).
THEOREM NothingCrashesIfKept ==
  ASSUME Handled, ProbeKeeps
  PROVE  Spec /\ [][~Remove]_vars => []NoCrash
<1>1. Init => KeptInv /\ NoCrash
  BY DEF Init, ProbeInit, KeptInv, NoCrash, NewChan, Id
<1>2. EngineInv /\ KeptInv /\ [Next]_vars /\ [~Remove]_vars => KeptInv'
  BY KeptInvStep
<1>3. CrashInv /\ KeptInv /\ NoCrash /\ [Next]_vars => NoCrash'
  BY CrashStep DEF NoCrash, KeptInv, ClientWasLeft, HandlerWasLeft
<1> QED BY EngineInvAlways, CrashAlways, <1>1, <1>2, <1>3, PTL DEF Spec
=============================================================================
