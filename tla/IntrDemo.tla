------------------------------ MODULE IntrDemo ------------------------------
(***************************************************************************)
(* intrDemo/intrDemo.c turns the interrupts of a device into signals for   *)
(* one process: an ioctl stores its pid in pidOwner and forgets the task,  *)
(* and the handler looks the task up at the first interrupt and keeps the  *)
(* pointer for the next ones.  No lock orders the two, and the pointer is  *)
(* no reference to the task.                                               *)
(*                                                                         *)
(* A process is named; its pid may have belonged to another one before.    *)
(***************************************************************************)
EXTENDS Integers, FiniteSets

CONSTANTS
  Process,    \* processes that open the device
  NoTask,     \* NULL
  PidOf,      \* of each process
  MayStore,   \* what each process may hand to the ioctl, which takes any int
  Cores,      \* 1 or 2: with one a handler is never interleaved with a process
  Exit,       \* processes exit "any" time, or when they have "unregistered"
  Faults      \* what may go wrong in init, in probe and in the ioctl

AllFaults == {"init", "mem_region", "ioremap", "request_irq", "no_irq", "copy"}

ASSUME DemoAssumption ==
  /\ NoTask \notin Process /\ PidOf \in [Process -> Nat \ {0}]
  /\ MayStore \in [Process -> SUBSET Int]
  /\ Cores \in {1, 2} /\ Exit \in {"any", "unregistered"}
  /\ Faults \subseteq AllFaults

VARIABLES
  module,        \* the module is not loaded yet, loaded, or has failed to
  driver,        \* the device is unbound or bound, or the next call of probe or remove
  device,        \* what the driver has got for the device and not given back
  pidOwner,
  current_task,
  handler,       \* step of send_signal in the interrupt handler
  found,         \* the task it has found
  pc,            \* of each process: not started, running, in the ioctl, or exited
  registered,    \* history: the process has asked for signals and not given them back
  crash

devVars == <<module, driver, device>>
taskVars == <<pidOwner, current_task>>
handlerVars == <<handler, found>>
vars == <<devVars, taskVars, handlerVars, pc, registered, crash>>

Things == {"lp", "region", "mapped", "irq"}
DriverSteps ==
  {"unbound", "region", "ioremap", "irq", "error3", "error2", "error1",
   "bound", "release", "free"}

TypeOK ==
  /\ module \in {"unloaded", "loaded", "failed"}
  /\ driver \in DriverSteps /\ device \subseteq Things
  /\ pidOwner \in Int /\ current_task \in Process \cup {NoTask}
  /\ handler \in {"none", "owner", "cached", "find", "keep", "send"}
  /\ found \in Process \cup {NoTask}
  /\ pc \in [Process -> {"new", "run", "register", "unregister", "exited"}]
  /\ registered \in [Process -> BOOLEAN]

Init ==
  /\ module = "unloaded" /\ driver = "unbound" /\ device = {}
  /\ pidOwner = 0 /\ current_task = NoTask
  /\ handler = "none" /\ found = NoTask
  /\ pc = [p \in Process |-> "new"]
  /\ registered = [p \in Process |-> FALSE]
  /\ crash = FALSE
-----------------------------------------------------------------------------
(* The module and the device *)

\* With one core the handler runs between two steps of a process.
OnCore == Cores = 2 \/ handler = "none"

\* The device node is made, and then the driver is registered.
InitModule ==
  /\ module = "unloaded"
  /\ \/ module' = "loaded"
     \/ "init" \in Faults /\ module' = "failed"
  /\ UNCHANGED <<driver, device, taskVars, handlerVars, pc, registered, crash>>

Goto(from, to) ==
  /\ OnCore /\ driver = from /\ driver' = to
  /\ UNCHANGED <<module, taskVars, handlerVars, pc, registered>>

\* egModule_probe.  One that finds no registers or no memory changes nothing.
Alloc ==
  /\ module = "loaded" /\ Goto("unbound", "region")
  /\ device' = device \cup {"lp"} /\ UNCHANGED crash

\* A region that was not released is refused.
RequestRegion ==
  /\ \/ /\ "region" \notin device /\ Goto("region", "ioremap")
        /\ device' = device \cup {"region"}
     \/ /\ "region" \in device \/ "mem_region" \in Faults
        /\ Goto("region", "error1") /\ UNCHANGED device
  /\ UNCHANGED crash

\* Bug variant: the label is the one that keeps the region.
IoremapKeepsRegion ==
  /\ \/ Goto("ioremap", "irq") /\ device' = device \cup {"mapped"}
     \/ "ioremap" \in Faults /\ Goto("ioremap", "error1") /\ UNCHANGED device
  /\ UNCHANGED crash

Ioremap ==
  /\ \/ Goto("ioremap", "irq") /\ device' = device \cup {"mapped"}
     \/ "ioremap" \in Faults /\ Goto("ioremap", "error2") /\ UNCHANGED device
  /\ UNCHANGED crash

\* Without an interrupt in the device tree probe succeeds.
RequestIrq ==
  /\ \/ Goto("irq", "bound") /\ device' = device \cup {"irq"}
     \/ "no_irq" \in Faults /\ Goto("irq", "bound") /\ UNCHANGED device
     \/ "request_irq" \in Faults /\ Goto("irq", "error3") /\ UNCHANGED device
  /\ UNCHANGED crash

\* Bug variant: nothing is freed.
FreeIrqNot ==
  /\ Goto("error3", "error2") \/ Goto("bound", "release")
  /\ UNCHANGED <<device, crash>>

\* The label error3, and the first call of egModule_remove; free_irq waits for the
\* handler.  The irq may be one that was refused, or what was in the memory of lp.
FreeIrq ==
  /\ Goto("error3", "error2") \/ Goto("bound", "release")
  /\ handler = "none"
  /\ device' = device \ {"irq"}
  /\ crash' = (crash \/ "irq" \notin device)

\* Neither the labels nor egModule_remove unmap the registers.
ReleaseRegion ==
  /\ Goto("error2", "error1") \/ Goto("release", "free")
  /\ device' = device \ {"region"}
  /\ crash' = (crash \/ "region" \notin device)

FreeDevice ==
  /\ Goto("error1", "unbound") \/ Goto("free", "unbound")
  /\ device' = device \ {"lp"}
  /\ crash' = (crash \/ "lp" \notin device)
-----------------------------------------------------------------------------
(* egModule_irq and send_signal *)

Handling(from, to) == handler = from /\ handler' = to

Interrupt ==
  /\ "irq" \in device /\ Handling("none", "owner")
  /\ UNCHANGED <<devVars, taskVars, found, pc, registered, crash>>

CheckOwner ==
  /\ Handling("owner", IF pidOwner = 0 THEN "none" ELSE "cached")
  /\ UNCHANGED <<devVars, taskVars, found, pc, registered, crash>>

CheckCached ==
  /\ Handling("cached", IF current_task = NoTask THEN "find" ELSE "send")
  /\ UNCHANGED <<devVars, taskVars, found, pc, registered, crash>>

InIoctl(p) == pc[p] \in {"register", "unregister"}
Running(p) == pc[p] = "run" \/ InIoctl(p)

\* find_vpid and pid_task: the process that has the pid now.
Find ==
  /\ LET tasks == {p \in Process : Running(p) /\ PidOf[p] = pidOwner} IN
     \/ tasks = {} /\ Handling("find", "none") /\ UNCHANGED found
     \/ \E p \in tasks : Handling("find", "keep") /\ found' = p
  /\ UNCHANGED <<devVars, taskVars, pc, registered, crash>>

Keep ==
  /\ Handling("keep", "send")
  /\ current_task' = found /\ found' = NoTask
  /\ UNCHANGED <<devVars, pidOwner, pc, registered, crash>>

\* send_sig_info follows current_task, which it reads once more.
Send ==
  /\ Handling("send", "none")
  /\ crash' = (crash \/ current_task \notin {p \in Process : Running(p)})
  /\ UNCHANGED <<devVars, taskVars, found, pc, registered>>
-----------------------------------------------------------------------------
(* Processes, and intrDemo_ioctl *)

Start(p) ==
  /\ OnCore /\ pc[p] = "new"
  /\ \A q \in Process : Running(q) => PidOf[q] # PidOf[p]
  /\ pc' = [pc EXCEPT ![p] = "run"]
  /\ UNCHANGED <<devVars, taskVars, handlerVars, registered, crash>>

Terminate(p) ==
  /\ OnCore /\ pc[p] = "run" /\ (Exit = "any" \/ ~registered[p])
  /\ pc' = [pc EXCEPT ![p] = "exited"]
  /\ UNCHANGED <<devVars, taskVars, handlerVars, registered, crash>>

\* copy_from_user to pidOwner itself.  A copy that faults leaves zero there, and the
\* ioctl returns -EFAULT with the task kept.
SetOwner(p) ==
  /\ OnCore /\ pc[p] = "run" /\ module = "loaded"
  /\ \/ \E pid \in MayStore[p] :
          /\ pidOwner' = pid
          /\ pc' = [pc EXCEPT ![p] = IF pid = PidOf[p] THEN "register" ELSE "unregister"]
          /\ registered' = [registered EXCEPT ![p] = @ \/ pid = PidOf[p]]
     \/ "copy" \in Faults /\ pidOwner' = 0 /\ UNCHANGED <<pc, registered>>
  /\ UNCHANGED <<devVars, current_task, handlerVars, crash>>

\* Bug variant: only a new owner makes the handler forget the task.
ClearTaskForOwner(p) ==
  /\ OnCore /\ InIoctl(p)
  /\ current_task' = IF pc[p] = "register" THEN NoTask ELSE current_task
  /\ registered' = [registered EXCEPT ![p] = pc[p] = "register"]
  /\ pc' = [pc EXCEPT ![p] = "run"]
  /\ UNCHANGED <<devVars, pidOwner, handlerVars, crash>>

\* Bug variant: the task of the owner before is kept.
ClearTaskNever(p) ==
  /\ OnCore /\ InIoctl(p)
  /\ registered' = [registered EXCEPT ![p] = pc[p] = "register"]
  /\ pc' = [pc EXCEPT ![p] = "run"]
  /\ UNCHANGED <<devVars, taskVars, handlerVars, crash>>

ClearTask(p) ==
  /\ OnCore /\ InIoctl(p)
  /\ current_task' = NoTask
  /\ registered' = [registered EXCEPT ![p] = pc[p] = "register"]
  /\ pc' = [pc EXCEPT ![p] = "run"]
  /\ UNCHANGED <<devVars, pidOwner, handlerVars, crash>>
-----------------------------------------------------------------------------
Next ==
  \/ InitModule
  \/ Alloc \/ RequestRegion \/ Ioremap \/ RequestIrq
  \/ FreeIrq \/ ReleaseRegion \/ FreeDevice
  \/ Interrupt \/ CheckOwner \/ CheckCached \/ Find \/ Keep \/ Send
  \/ \E p \in Process : Start(p) \/ Terminate(p) \/ SetOwner(p) \/ ClearTask(p)

Spec == Init /\ [][Next]_vars
-----------------------------------------------------------------------------
(* Properties *)

\* While no process is between the two stores of the ioctl: if there is an owner and
\* a task is kept, the task is the one with the owner's pid, so that signals go to
\* the last owner.  A copy that has faulted leaves a task and no owner, and then
\* the handler sends nothing.
TaskIsOwner ==
  (\A p \in Process : ~InIoctl(p)) /\ pidOwner # 0 /\ current_task # NoTask =>
    PidOf[current_task] = pidOwner

\* The task that is kept has not exited, provided that processes register only
\* themselves, and exit only after an ioctl that gave the registration back and
\* did not fail.
TaskIsRunning == current_task # NoTask => Running(current_task)

\* Every way out of probe through its labels, and remove, gives back the irq, the
\* region and the memory of the device, so that it can be probed again.
UnboundHasNothing == driver = "unbound" => device \subseteq {"mapped"}

\* At every step of probe and remove, what was got last is given back first: a
\* handler never has a region that is released or a device that is freed.
LastGotFirstBack ==
  /\ "irq" \in device => "region" \in device
  /\ "region" \in device => "lp" \in device

\* The handler never follows a pointer that is NULL or of a task that is gone, and
\* nothing is given back that was not got.
NoCrash == ~crash
-----------------------------------------------------------------------------
(* One more that the code does not have. *)

\* The registers are unmapped with the device.
UnboundIsUnmapped == driver = "unbound" => "mapped" \notin device
=============================================================================
