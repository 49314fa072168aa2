--------------------------- MODULE IntrDemoProofs ---------------------------
(***************************************************************************)
(* For any number of processes, whose pids may be used again: on one core  *)
(* the handler of the interrupt keeps the task of the last owner, and if   *)
(* processes give their registration back before they exit, that task      *)
(* runs.  The pointer is no reference, so this takes three facts that the  *)
(* code never states: the pid in pidOwner belongs to one running process,  *)
(* that process is registered, and one that is giving its registration     *)
(* back is no longer the owner.                                            *)
(***************************************************************************)
EXTENDS IntrDemo, TLAPS

\* One core is enough for the first result; the second one is about processes
\* that behave.
OneCore == Cores = 1
Behaved ==
  /\ Cores = 1 /\ Exit = "unregistered"
  /\ \A p \in Process : MayStore[p] \subseteq {PidOf[p], 0}

\* The steps of probe and of remove.
Driving ==
  Alloc \/ RequestRegion \/ Ioremap \/ RequestIrq \/ FreeIrq \/ ReleaseRegion \/ FreeDevice

LEMMA DrivingFrame ==
  ASSUME Driving
  PROVE  UNCHANGED <<module, taskVars, handlerVars, pc, registered>>
BY DEF Driving, Alloc, RequestRegion, Ioremap, RequestIrq, FreeIrq, ReleaseRegion, FreeDevice, Goto

Typed ==
  /\ pidOwner \in Int /\ current_task \in Process \cup {NoTask}
  /\ handler \in {"none", "owner", "cached", "find", "keep", "send"}
  /\ pc \in [Process -> {"new", "run", "register", "unregister", "exited"}]
  /\ registered \in [Process -> BOOLEAN]

\* What the handler has found is of the pid in pidOwner.
FoundIsOwner ==
  handler = "keep" => found \in Process /\ Running(found) /\ PidOf[found] = pidOwner

OwnerInv == Typed /\ FoundIsOwner /\ TaskIsOwner

LEMMA TypedStep ==
  ASSUME Typed, FoundIsOwner, [Next]_vars
  PROVE  Typed'
<1>1. CASE \E p \in Process : SetOwner(p)
  <2>1. PICK p \in Process : SetOwner(p)
    BY <1>1
  <2>2. MayStore[p] \subseteq Int
    BY DemoAssumption
  <2>3. pidOwner' \in Int /\ UNCHANGED <<current_task, handler>>
    BY <2>1, <2>2 DEF SetOwner, handlerVars
  <2>4. /\ pc' \in [Process -> {"new", "run", "register", "unregister", "exited"}]
        /\ registered' \in [Process -> BOOLEAN]
    BY <2>1 DEF SetOwner, Typed
  <2> QED BY <2>3, <2>4 DEF Typed
<1>2. CASE \E p \in Process : Start(p) \/ Terminate(p) \/ ClearTask(p)
  BY <1>2 DEF Start, Terminate, ClearTask, handlerVars, taskVars, Typed
<1>3. CASE Keep
  BY <1>3 DEF Keep, Handling, Typed, FoundIsOwner
<1>4. CASE Interrupt \/ CheckOwner \/ CheckCached \/ Find \/ Send
  BY <1>4 DEF Interrupt, CheckOwner, CheckCached, Find, Send, Handling, taskVars, Typed
<1>5. CASE InitModule \/ Driving \/ UNCHANGED vars
  BY <1>5, DrivingFrame DEF InitModule, vars, taskVars, handlerVars, Typed
<1> QED BY <1>1, <1>2, <1>3, <1>4, <1>5 DEF Next, Driving

\* On one core a process only moves while the handler is not running.
LEMMA FoundStep ==
  ASSUME OneCore, Typed, FoundIsOwner, [Next]_vars
  PROVE  FoundIsOwner'
<1>1. CASE \E p \in Process : SetOwner(p) \/ Start(p) \/ Terminate(p) \/ ClearTask(p)
  <2>1. handler = "none" /\ handler' = handler
    BY <1>1 DEF OneCore, OnCore, SetOwner, Start, Terminate, ClearTask, handlerVars
  <2> QED BY <2>1 DEF FoundIsOwner
<1>2. CASE Find
  BY <1>2 DEF Find, Handling, FoundIsOwner, Running, InIoctl, taskVars
<1>3. CASE Interrupt \/ CheckOwner \/ CheckCached \/ Keep \/ Send
  BY <1>3 DEF Interrupt, CheckOwner, CheckCached, Keep, Send, Handling, FoundIsOwner
<1>4. CASE InitModule \/ Driving \/ UNCHANGED vars
  BY <1>4, DrivingFrame DEF InitModule, vars, taskVars, handlerVars, FoundIsOwner, Running, InIoctl
<1> QED BY <1>1, <1>2, <1>3, <1>4 DEF Next, Driving

LEMMA OwnerStep ==
  ASSUME OneCore, OwnerInv, [Next]_vars
  PROVE  OwnerInv'
<1> USE DEF OwnerInv
<1>1. Typed' /\ FoundIsOwner'
  BY TypedStep, FoundStep
<1>2. CASE \E p \in Process : SetOwner(p)
  <2>1. PICK p \in Process : SetOwner(p)
    BY <1>2
  <2>2. InIoctl(p)' \/ pidOwner' = 0
    BY <2>1 DEF SetOwner, InIoctl, Typed
  <2> QED BY <1>1, <2>2 DEF TaskIsOwner
<1>3. CASE \E p \in Process : ClearTask(p)
  BY <1>1, <1>3 DEF ClearTask, TaskIsOwner
<1>4. CASE \E p \in Process : Start(p) \/ Terminate(p)
  <2>1. PICK p \in Process : Start(p) \/ Terminate(p)
    BY <1>4
  <2>2. /\ UNCHANGED <<pidOwner, current_task>>
        /\ \A q \in Process : InIoctl(q)' <=> InIoctl(q)
    BY <2>1 DEF Start, Terminate, taskVars, InIoctl, Typed
  <2> QED BY <1>1, <2>2 DEF TaskIsOwner
<1>5. CASE Keep
  BY <1>1, <1>5 DEF Keep, Handling, FoundIsOwner, TaskIsOwner
<1>6. CASE \/ InitModule \/ Driving \/ UNCHANGED vars
           \/ Interrupt \/ CheckOwner \/ CheckCached \/ Find \/ Send
  <2>1. UNCHANGED <<pidOwner, current_task, pc>>
    BY <1>6, DrivingFrame DEF InitModule, vars, taskVars, Interrupt, CheckOwner, CheckCached,
                              Find, Send
  <2> QED BY <1>1, <2>1 DEF TaskIsOwner, InIoctl
<1> QED BY <1>2, <1>3, <1>4, <1>5, <1>6 DEF Next, Driving

LEMMA OwnerInit == Init => OwnerInv
BY DEF Init, OwnerInv, Typed, FoundIsOwner, TaskIsOwner

\* On one core, whatever pids the processes store, whenever they exit and whether or
\* not the copy faults: signals go to the task of the pid that was registered last,
\* and to nobody when there is none (intrDemo.c:61-100, 219-227).
THEOREM SignalsGoToOwner ==
  ASSUME OneCore
  PROVE  Spec => []TaskIsOwner
<1>1. OwnerInv /\ [Next]_vars => OwnerInv'
  BY OwnerStep
<1>2. OwnerInv => TaskIsOwner
  BY DEF OwnerInv
<1> QED BY OwnerInit, <1>1, <1>2, PTL DEF Spec

(***************************************************************************)
(* The task that is kept runs.                                             *)
(***************************************************************************)

\* A pid belongs to one running process at a time.
OnePid ==
  \A p, q \in Process : Running(p) /\ Running(q) /\ PidOf[p] = PidOf[q] => p = q

\* The owner is there, and has not given its registration back.
OwnerIsRegistered ==
  /\ pidOwner # 0 => \E p \in Process : Running(p) /\ PidOf[p] = pidOwner /\ registered[p]
  /\ \A p \in Process : pc[p] = "unregister" => PidOf[p] # pidOwner

TaskIsRegistered ==
  current_task # NoTask => Running(current_task) /\ registered[current_task]

FoundHasPid == handler \in {"cached", "find", "keep"} => pidOwner # 0

RunningInv ==
  Typed /\ FoundIsOwner /\ FoundHasPid /\ OnePid /\ OwnerIsRegistered /\ TaskIsRegistered

LEMMA RunningStep ==
  ASSUME Behaved, RunningInv, [Next]_vars
  PROVE  RunningInv'
<1> USE DEF RunningInv
<1>1. Typed' /\ FoundIsOwner'
  BY TypedStep, FoundStep DEF Behaved, OneCore
<1>2. ASSUME NEW p \in Process, Start(p)
      PROVE  RunningInv'
  <2>1. /\ handler = "none" /\ handler' = "none" /\ ~Running(p)
        /\ UNCHANGED <<pidOwner, current_task, registered>>
        /\ pc' = [pc EXCEPT ![p] = "run"]
        /\ \A q \in Process : Running(q) => PidOf[q] # PidOf[p]
    BY <1>2 DEF Behaved, OnCore, Start, handlerVars, taskVars, Running, InIoctl
  <2>2. \A q \in Process : Running(q)' <=> Running(q) \/ q = p
    BY <2>1 DEF Running, InIoctl, Typed
  <2>3. OnePid'
    BY <2>1, <2>2 DEF OnePid
  <2>4. OwnerIsRegistered'
    BY <2>1, <2>2 DEF OwnerIsRegistered, Typed
  <2>5. TaskIsRegistered' /\ FoundHasPid'
    BY <2>1, <2>2 DEF TaskIsRegistered, FoundHasPid, Typed
  <2> QED BY <1>1, <2>3, <2>4, <2>5
<1>3. ASSUME NEW p \in Process, Terminate(p)
      PROVE  RunningInv'
  <2>1. /\ handler = "none" /\ handler' = "none" /\ ~registered[p]
        /\ UNCHANGED <<pidOwner, current_task, registered>>
        /\ pc' = [pc EXCEPT ![p] = "exited"]
    BY <1>3 DEF Behaved, OnCore, Terminate, handlerVars, taskVars
  <2>2. \A q \in Process : Running(q)' <=> Running(q) /\ q # p
    BY <1>3, <2>1 DEF Running, InIoctl, Typed
  <2>3. OnePid'
    BY <2>2 DEF OnePid
  <2>4. OwnerIsRegistered'
    BY <2>1, <2>2 DEF OwnerIsRegistered, Typed
  <2>5. TaskIsRegistered' /\ FoundHasPid'
    BY <2>1, <2>2 DEF TaskIsRegistered, FoundHasPid, Typed
  <2> QED BY <1>1, <2>3, <2>4, <2>5
<1>4. ASSUME NEW p \in Process, SetOwner(p)
      PROVE  RunningInv'
  <2>1. /\ handler = "none" /\ handler' = "none" /\ pc[p] = "run"
        /\ current_task' = current_task
    BY <1>4 DEF Behaved, OnCore, SetOwner, handlerVars
  <2>5. \A q \in Process : PidOf[q] \in Nat \ {0}
    BY DemoAssumption
  <2>2. \/ /\ pidOwner' = PidOf[p] /\ pc' = [pc EXCEPT ![p] = "register"]
           /\ registered' = [registered EXCEPT ![p] = TRUE]
        \/ /\ pidOwner' = 0 /\ pc' = [pc EXCEPT ![p] = "unregister"]
           /\ registered' = registered
        \/ pidOwner' = 0 /\ pc' = pc /\ registered' = registered
    <3>1. CASE "copy" \in Faults /\ pidOwner' = 0 /\ UNCHANGED <<pc, registered>>
      BY <3>1
    <3>2. ASSUME NEW pid \in MayStore[p],
                 pidOwner' = pid,
                 pc' = [pc EXCEPT ![p] = IF pid = PidOf[p] THEN "register" ELSE "unregister"],
                 registered' = [registered EXCEPT ![p] = @ \/ pid = PidOf[p]]
          PROVE  \/ /\ pidOwner' = PidOf[p] /\ pc' = [pc EXCEPT ![p] = "register"]
                    /\ registered' = [registered EXCEPT ![p] = TRUE]
                 \/ /\ pidOwner' = 0 /\ pc' = [pc EXCEPT ![p] = "unregister"]
                    /\ registered' = registered
      <4>1. pid = PidOf[p] \/ (pid = 0 /\ pid # PidOf[p])
        BY <2>5 DEF Behaved
      <4>2. registered \in [Process -> BOOLEAN]
        BY DEF Typed
      <4> QED BY <3>2, <4>1, <4>2
    <3> QED BY <1>4, <3>1, <3>2 DEF SetOwner
  <2>3. \A q \in Process : Running(q)' <=> Running(q)
    BY <2>1, <2>2 DEF Running, InIoctl, Typed
  <2>4. OnePid'
    BY <2>3 DEF OnePid
  <2>6. OwnerIsRegistered'
    <3>1. CASE pidOwner' = PidOf[p] /\ pc' = [pc EXCEPT ![p] = "register"]
               /\ registered' = [registered EXCEPT ![p] = TRUE]
      <4>1. Running(p)' /\ registered'[p] /\ PidOf[p] = pidOwner'
        BY <2>1, <2>3, <3>1 DEF Running, Typed
      <4>2. ASSUME NEW q \in Process, pc'[q] = "unregister"
            PROVE  PidOf[q] # pidOwner'
        <5>1. q # p /\ Running(q) /\ Running(p)
          BY <2>1, <3>1, <4>2 DEF Running, InIoctl, Typed
        <5> QED BY <3>1, <5>1 DEF OnePid
      <4> QED BY <4>1, <4>2 DEF OwnerIsRegistered
    <3>2. CASE pidOwner' = 0
      BY <2>5, <3>2 DEF OwnerIsRegistered
    <3> QED BY <2>2, <3>1, <3>2
  <2>7. TaskIsRegistered' /\ FoundHasPid'
    BY <2>1, <2>2, <2>3 DEF TaskIsRegistered, FoundHasPid, Typed
  <2> QED BY <1>1, <2>4, <2>6, <2>7
<1>5. ASSUME NEW p \in Process, ClearTask(p)
      PROVE  RunningInv'
  <2>1. /\ handler = "none" /\ handler' = "none" /\ InIoctl(p)
        /\ current_task' = NoTask /\ pidOwner' = pidOwner
        /\ registered' = [registered EXCEPT ![p] = pc[p] = "register"]
        /\ pc' = [pc EXCEPT ![p] = "run"]
    BY <1>5 DEF Behaved, OnCore, ClearTask, handlerVars
  <2>2. \A q \in Process : Running(q)' <=> Running(q)
    BY <2>1 DEF Running, InIoctl, Typed
  <2>3. OnePid'
    BY <2>2 DEF OnePid
  <2>4. OwnerIsRegistered'
    <3>1. ASSUME pidOwner # 0
          PROVE  \E q \in Process : Running(q)' /\ PidOf[q] = pidOwner /\ registered'[q]
      <4>1. PICK q \in Process : Running(q) /\ PidOf[q] = pidOwner /\ registered[q]
        BY <3>1 DEF OwnerIsRegistered
      <4>2. q = p => pc[p] = "register"
        BY <2>1, <4>1 DEF OwnerIsRegistered, InIoctl
      <4>3. registered'[q]
        BY <2>1, <4>1, <4>2 DEF Typed
      <4> QED BY <2>2, <4>1, <4>3
    <3> QED BY <2>1, <3>1 DEF OwnerIsRegistered, Typed
  <2>5. TaskIsRegistered' /\ FoundHasPid'
    BY <2>1 DEF TaskIsRegistered, FoundHasPid
  <2> QED BY <1>1, <2>3, <2>4, <2>5
<1>6. CASE Keep
  <2>1. /\ UNCHANGED <<pidOwner, pc, registered>> /\ current_task' = found
        /\ handler = "keep" /\ handler' = "send"
    BY <1>6 DEF Keep, Handling
  <2>2. found \in Process /\ Running(found) /\ PidOf[found] = pidOwner /\ pidOwner # 0
    BY <2>1 DEF FoundIsOwner, FoundHasPid
  <2>3. registered[found]
    BY <2>2 DEF OwnerIsRegistered, OnePid
  <2> QED BY <1>1, <2>1, <2>2, <2>3
          DEF OnePid, OwnerIsRegistered, TaskIsRegistered, FoundHasPid, Running, InIoctl
<1>7. CASE \/ InitModule \/ Driving \/ UNCHANGED vars
           \/ Interrupt \/ CheckOwner \/ CheckCached \/ Find \/ Send
  <2>1. UNCHANGED <<pidOwner, current_task, pc, registered>>
    BY <1>7, DrivingFrame DEF InitModule, vars, taskVars, Interrupt, CheckOwner, CheckCached,
                              Find, Send
  <2>2. FoundHasPid'
    BY <1>7, <2>1, DrivingFrame DEF InitModule, vars, handlerVars, Interrupt, CheckOwner,
                                    CheckCached, Find, Send, Handling, FoundHasPid
  <2> QED BY <1>1, <2>1, <2>2 DEF OnePid, OwnerIsRegistered, TaskIsRegistered, Running, InIoctl
<1> QED BY <1>2, <1>3, <1>4, <1>5, <1>6, <1>7 DEF Next, Driving

LEMMA RunningInit == Init => RunningInv
BY DEF Init, RunningInv, Typed, FoundIsOwner, FoundHasPid, OnePid, OwnerIsRegistered,
       TaskIsRegistered, Running, InIoctl

\* On one core, and as long as processes register only themselves and give the
\* registration back, with an ioctl that does not fail, before they exit: the pointer
\* that the handler keeps is to a task that runs, also when pids are used again and
\* when other calls of the ioctl fault (intrDemo.c:78-97, 219-227).
THEOREM KeptTaskRuns ==
  ASSUME Behaved
  PROVE  Spec => []TaskIsRunning
<1>1. RunningInv /\ [Next]_vars => RunningInv'
  BY RunningStep
<1>2. RunningInv => TaskIsRunning
  BY DEF RunningInv, TaskIsRegistered, TaskIsRunning
<1> QED BY RunningInit, <1>1, <1>2, PTL DEF Spec

(***************************************************************************)
(* The device, and the handler that never follows a pointer to nothing.    *)
(***************************************************************************)

\* What the driver has before each of its calls.  Only when no interrupt was got can
\* a bound device, or one at the label error3, be without the irq.
DeviceAt ==
  /\ driver = "unbound" => device \subseteq {"mapped"}
  /\ driver \in {"region", "error1", "free"} => device \ {"mapped"} = {"lp"}
  /\ driver \in {"ioremap", "irq", "error3", "error2", "release"} =>
       device \ {"mapped"} = {"lp", "region"}
  /\ driver = "bound" => {"lp", "region"} \subseteq device

DeviceInv ==
  /\ driver \in DriverSteps /\ device \subseteq Things
  /\ DeviceAt
  /\ driver = "bound" /\ "irq" \notin device => "no_irq" \in Faults
  /\ driver = "error3" => "request_irq" \in Faults

LEMMA DeviceStep ==
  ASSUME DeviceInv, [Next]_vars
  PROVE  DeviceInv'
<1> USE DEF DeviceInv, DeviceAt, DriverSteps, Things, Goto
<1>1. CASE Alloc
  BY <1>1 DEF Alloc
<1>2. CASE RequestRegion
  BY <1>2 DEF RequestRegion
<1>3. CASE Ioremap
  BY <1>3 DEF Ioremap
<1>4. CASE RequestIrq
  BY <1>4 DEF RequestIrq
<1>5. CASE FreeIrq
  BY <1>5 DEF FreeIrq
<1>6. CASE ReleaseRegion
  BY <1>6 DEF ReleaseRegion
<1>7. CASE FreeDevice
  BY <1>7 DEF FreeDevice
<1>8. CASE UNCHANGED <<driver, device>>
  BY <1>8
<1> QED
  BY <1>1, <1>2, <1>3, <1>4, <1>5, <1>6, <1>7, <1>8
     DEF Next, InitModule, Interrupt, CheckOwner, CheckCached, Find, Keep, Send,
         Start, Terminate, SetOwner, ClearTask, vars, devVars

LEMMA DeviceAlways == Spec => []DeviceInv
<1>1. Init => DeviceInv
  BY DEF Init, DeviceInv, DeviceAt, DriverSteps, Things
<1>2. DeviceInv /\ [Next]_vars => DeviceInv'
  BY DeviceStep
<1> QED BY <1>1, <1>2, PTL DEF Spec

\* Along the calls of egModule_probe, its labels and egModule_remove, whichever call
\* fails: a device that is unbound again has given back the irq, the region and its
\* memory (intrDemo.c:127-211).
THEOREM DeviceGivenBack == Spec => []UnboundHasNothing
<1>1. DeviceInv => UnboundHasNothing
  BY DEF DeviceInv, DeviceAt, UnboundHasNothing
<1> QED BY DeviceAlways, <1>1, PTL

\* And at every step between: what was got last is given back first, so that the
\* handler of an irq that is held has its region and its memory (intrDemo.c:127-211).
THEOREM HandlerHasDevice == Spec => []LastGotFirstBack
<1>1. DeviceInv => LastGotFirstBack
  BY DEF DeviceInv, DeviceAt, DriverSteps, Things, LastGotFirstBack
<1> QED BY DeviceAlways, <1>1, PTL

\* The device tree has an interrupt, and it can be requested.
IrqComes == {"request_irq", "no_irq"} \cap Faults = {}

\* When the handler is about to send there is a task to send to.
SendHasTask == handler = "send" => current_task # NoTask

LEMMA SendHasTaskStep ==
  ASSUME OneCore, RunningInv, SendHasTask, [Next]_vars
  PROVE  SendHasTask'
<1> USE DEF SendHasTask
<1>1. CASE Keep
  BY <1>1, DemoAssumption DEF Keep, Handling, RunningInv, FoundIsOwner
<1>2. CASE Interrupt \/ CheckOwner \/ CheckCached \/ Find \/ Send
  BY <1>2 DEF Interrupt, CheckOwner, CheckCached, Find, Send, Handling, taskVars
<1>3. CASE \E p \in Process : Start(p) \/ Terminate(p) \/ SetOwner(p) \/ ClearTask(p)
  BY <1>3 DEF OneCore, OnCore, Start, Terminate, SetOwner, ClearTask, handlerVars
<1>4. CASE InitModule \/ Driving \/ UNCHANGED vars
  BY <1>4, DrivingFrame DEF InitModule, vars, taskVars, handlerVars
<1> QED BY <1>1, <1>2, <1>3, <1>4 DEF Next, Driving

LEMMA NoCrashStep ==
  ASSUME IrqComes, DeviceInv, RunningInv, SendHasTask, NoCrash, [Next]_vars
  PROVE  NoCrash'
<1> USE DEF NoCrash
<1>1. CASE Alloc \/ RequestRegion \/ Ioremap \/ RequestIrq
  BY <1>1 DEF Alloc, RequestRegion, Ioremap, RequestIrq
<1>2. CASE FreeIrq \/ ReleaseRegion \/ FreeDevice
  BY <1>2 DEF FreeIrq, ReleaseRegion, FreeDevice, Goto, DeviceInv, DeviceAt, IrqComes
<1>3. CASE Send
  <2>1. current_task \in Process /\ Running(current_task)
    BY <1>3 DEF Send, Handling, SendHasTask, RunningInv, TaskIsRegistered, Typed
  <2> QED BY <1>3, <2>1 DEF Send
<1>4. CASE UNCHANGED crash
  BY <1>4
<1> QED
  BY <1>1, <1>2, <1>3, <1>4 DEF Next, InitModule, Interrupt, CheckOwner, CheckCached, Find, Keep,
     Start, Terminate, SetOwner, ClearTask, vars

\* Under the same conditions, and with an interrupt that can be requested: the handler
\* never sends to a task that is NULL or gone, and neither probe nor remove gives
\* back what was not got (intrDemo.c:61-100, 127-211).
THEOREM NothingCrashes ==
  ASSUME Behaved, IrqComes
  PROVE  Spec => []NoCrash
<1>1. RunningInv /\ [Next]_vars => RunningInv'
  BY RunningStep
<1>2. OneCore
  BY DEF Behaved, OneCore
<1>3. Init => SendHasTask /\ NoCrash
  BY DEF Init, SendHasTask, NoCrash
<1>4. RunningInv /\ SendHasTask /\ [Next]_vars => SendHasTask'
  BY <1>2, SendHasTaskStep
<1>5. DeviceInv /\ RunningInv /\ SendHasTask /\ NoCrash /\ [Next]_vars => NoCrash'
  BY NoCrashStep
<1> QED BY RunningInit, DeviceAlways, <1>1, <1>3, <1>4, <1>5, PTL DEF Spec
=============================================================================
