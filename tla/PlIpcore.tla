------------------------------ MODULE PlIpcore ------------------------------
(***************************************************************************)
(* The registry of IP cores, plIpcore/: the driver of commonIp.c puts each *)
(* core that the driver core binds to it on a list, and takes it off when  *)
(* it is unbound; an ioctl of plIpcore_dev.c looks a core up by its id and *)
(* reads or writes one of its registers.  Nothing locks the list or holds  *)
(* a reference, so the list is modelled store by store, and a process      *)
(* keeps the pointer it has found until it calls through it.               *)
(*                                                                         *)
(* Stores are seen in the order in which the code makes them, which the    *)
(* plain stores of list_add_tail do not promise to another processor.      *)
(***************************************************************************)
EXTENDS Integers, FiniteSets

CONSTANTS
  Dev,      \* the IP cores in the device tree
  Head,     \* plip_dev_list
  IdOf,     \* the id that the match table gives each core
  Thread,   \* threads in which the driver core binds and unbinds
  Process,  \* processes that have opened the device
  Asked,    \* ids that the processes ask for
  Addr,     \* register numbers that they give
  Words,    \* registers that a core has mapped
  Faults,   \* what may go wrong
  Races     \* what may come at the same time, or in another order

AllFaults == {"ioremap", "init"}
AllRaces == {"early_ioctl", "early_probe", "remove_in_use"}
Null == "null"
Poison == "poison"

ASSUME RegistryAssumption ==
  /\ Head \notin Dev /\ {Null, Poison} \cap (Dev \cup {Head}) = {}
  /\ IdOf \in [Dev -> Nat] /\ Asked \subseteq Nat /\ Addr \subseteq Nat /\ Words \in Nat
  /\ Faults \subseteq AllFaults /\ Races \subseteq AllRaces

VARIABLES
  init,        \* how far plipdev_init is
  next, prev,  \* of each list_head
  mem, ops, regs,  \* of each core: allocated; read and write set; ioremap was good
  bound,       \* platform_get_drvdata gives the device
  thread,      \* of each thread: step, core, and the last entry it has read
  pc, want, cur,   \* of each process: step, or "killed"; id asked for; pointer
  there,       \* history: cores on the list since the call of the process began
  crash        \* a store to the list has faulted

listVars == <<next, prev>>
devVars == <<mem, ops, regs, bound>>
callVars == <<pc, want, cur, there>>
vars == <<init, listVars, devVars, thread, callVars, crash>>

Node == Dev \cup {Head}
Pointer == Node \cup {Null, Poison}
IdleThread == [pc |-> "idle", dev |-> Head, tail |-> Null]

\* Pointers are to nodes or one of the two values that fault, and those of the
\* head are good once plip_init has run.
TypeOK ==
  /\ init \in {"region", "cdev", "list", "done", "failed"}
  /\ next \in [Node -> Pointer] /\ prev \in [Node -> Pointer]
  /\ init = "done" => {next[Head], prev[Head]} \subseteq Node
  /\ mem \in [Dev -> BOOLEAN] /\ ops \in [Dev -> BOOLEAN]
  /\ regs \in [Dev -> BOOLEAN] /\ bound \in [Dev -> BOOLEAN]
  /\ thread \in [Thread ->
       [pc : {"idle", "add", "tail", "new_next", "new_prev", "link", "ops",
              "del", "unlink", "poison", "free"},
        dev : Node, tail : Pointer]]
  /\ pc \in [Process -> {"idle", "walk", "found", "call", "killed"}]
  /\ want \in [Process -> Nat] /\ cur \in [Process -> Pointer]
  /\ there \in [Process -> SUBSET Dev]

Init ==
  /\ init = "region"
  /\ next = [n \in Node |-> Null] /\ prev = [n \in Node |-> Null]
  /\ mem = [d \in Dev |-> FALSE] /\ ops = [d \in Dev |-> FALSE]
  /\ regs = [d \in Dev |-> FALSE] /\ bound = [d \in Dev |-> FALSE]
  /\ thread = [t \in Thread |-> IdleThread]
  /\ pc = [p \in Process |-> "idle"] /\ want = [p \in Process |-> 0]
  /\ cur = [p \in Process |-> Null] /\ there = [p \in Process |-> {}]
  /\ crash = FALSE
-----------------------------------------------------------------------------
(* plipdev_init *)

\* The number, the class and the device: when one fails the list head is left as
\* it is, all zero.
InitDevice ==
  /\ init = "region"
  /\ init' \in {"cdev"} \cup (IF "init" \in Faults THEN {"failed"} ELSE {})
  /\ UNCHANGED <<listVars, devVars, thread, callVars, crash>>

\* The result of cdev_add is not looked at.
AddCdev ==
  /\ init = "cdev" /\ init' = "list"
  /\ UNCHANGED <<listVars, devVars, thread, callVars, crash>>

PlipInit ==
  /\ init = "list" /\ init' = "done"
  /\ next' = [next EXCEPT ![Head] = Head] /\ prev' = [prev EXCEPT ![Head] = Head]
  /\ UNCHANGED <<devVars, thread, callVars, crash>>
-----------------------------------------------------------------------------
(* plIpcore_probe: ipcore_device_register and list_add_tail *)

At(t, step) == thread[t].pc = step
Goto(t, step) == thread' = [thread EXCEPT ![t].pc = step]
Mine(t) == thread[t].dev
Untaken(d) == \A t \in Thread : Mine(t) # d

\* Storing through a pointer that is no list_head faults.
Store(link, at, value) == IF at \in Node THEN [link EXCEPT ![at] = value] ELSE link
Faulty(at) == crash \/ at \notin Node

\* plipcore_device_alloc, a failure of which leaves no trace, and the mapping, whose
\* error is not seen.  The device is zeroed, then its fields and list_head are set.
Register(t, d) ==
  /\ At(t, "idle") /\ ~bound[d] /\ Untaken(d)
  /\ init \in {"done", "failed"} \/ "early_probe" \in Races
  /\ mem' = [mem EXCEPT ![d] = TRUE] /\ ops' = [ops EXCEPT ![d] = FALSE]
  /\ \E good \in {TRUE} \cup (IF "ioremap" \in Faults THEN {FALSE} ELSE {}) :
       regs' = [regs EXCEPT ![d] = good]
  /\ bound' = [bound EXCEPT ![d] = TRUE]
  /\ next' = [next EXCEPT ![d] = d] /\ prev' = [prev EXCEPT ![d] = d]
  /\ thread' = [thread EXCEPT ![t] = [pc |-> "add", dev |-> d, tail |-> Null]]
  /\ UNCHANGED <<init, callVars, crash>>

ReadTail(t) ==
  /\ At(t, "add")
  /\ thread' = [thread EXCEPT ![t].pc = "tail", ![t].tail = prev[Head]]
  /\ UNCHANGED <<init, listVars, devVars, callVars, crash>>

\* Bug variant: the new entry is linked in before it points onwards.
StoreTailAndLink(t) ==
  /\ At(t, "tail") /\ Goto(t, "new_next")
  /\ prev' = [prev EXCEPT ![Head] = Mine(t)]
  /\ next' = Store(next, thread[t].tail, Mine(t))
  /\ UNCHANGED <<init, devVars, callVars, crash>>

StoreTail(t) ==
  /\ At(t, "tail") /\ Goto(t, "new_next")
  /\ prev' = [prev EXCEPT ![Head] = Mine(t)]
  /\ UNCHANGED <<init, next, devVars, callVars, crash>>

StoreNewNext(t) ==
  /\ At(t, "new_next") /\ Goto(t, "new_prev")
  /\ next' = [next EXCEPT ![Mine(t)] = Head]
  /\ UNCHANGED <<init, prev, devVars, callVars, crash>>

StoreNewPrev(t) ==
  /\ At(t, "new_prev") /\ Goto(t, "link")
  /\ prev' = [prev EXCEPT ![Mine(t)] = thread[t].tail]
  /\ UNCHANGED <<init, next, devVars, callVars, crash>>

\* From here on a process can find the device.
Link(t) ==
  /\ At(t, "link") /\ Goto(t, "ops")
  /\ next' = Store(next, thread[t].tail, Mine(t))
  /\ crash' = Faulty(thread[t].tail)
  /\ UNCHANGED <<init, prev, devVars, callVars>>

SetOps(t) ==
  /\ At(t, "ops")
  /\ ops' = [ops EXCEPT ![Mine(t)] = TRUE]
  /\ thread' = [thread EXCEPT ![t] = IdleThread]
  /\ UNCHANGED <<init, listVars, mem, regs, bound, callVars, crash>>
-----------------------------------------------------------------------------
(* plIpcore_remove: list_del and plipcore_device_free *)

Outside(p) == pc[p] \in {"idle", "killed"}
Removing == \E t \in Thread : thread[t].pc \in {"del", "unlink", "poison", "free"}

\* Bug variant: the device is freed and stays on the list.
RemoveWithoutUnlink(t, d) ==
  /\ At(t, "idle") /\ bound[d] /\ Untaken(d)
  /\ "remove_in_use" \in Races \/ \A p \in Process : Outside(p)
  /\ thread' = [thread EXCEPT ![t] = [pc |-> "free", dev |-> d, tail |-> Null]]
  /\ UNCHANGED <<init, listVars, devVars, callVars, crash>>

Remove(t, d) ==
  /\ At(t, "idle") /\ bound[d] /\ Untaken(d)
  /\ "remove_in_use" \in Races \/ \A p \in Process : Outside(p)
  /\ thread' = [thread EXCEPT ![t] = [pc |-> "del", dev |-> d, tail |-> Null]]
  /\ UNCHANGED <<init, listVars, devVars, callVars, crash>>

DelFromNext(t) ==
  /\ At(t, "del") /\ Goto(t, "unlink")
  /\ prev' = Store(prev, next[Mine(t)], prev[Mine(t)])
  /\ crash' = Faulty(next[Mine(t)])
  /\ UNCHANGED <<init, next, devVars, callVars>>

\* The device is off the list.
Unlink(t) ==
  /\ At(t, "unlink") /\ Goto(t, "poison")
  /\ next' = Store(next, prev[Mine(t)], next[Mine(t)])
  /\ crash' = Faulty(prev[Mine(t)])
  /\ there' = [p \in Process |-> there[p] \ {Mine(t)}]
  /\ UNCHANGED <<init, prev, devVars, pc, want, cur>>

PoisonLinks(t) ==
  /\ At(t, "poison") /\ Goto(t, "free")
  /\ next' = [next EXCEPT ![Mine(t)] = Poison] /\ prev' = [prev EXCEPT ![Mine(t)] = Poison]
  /\ UNCHANGED <<init, devVars, callVars, crash>>

Free(t) ==
  /\ At(t, "free")
  /\ mem' = [mem EXCEPT ![Mine(t)] = FALSE] /\ bound' = [bound EXCEPT ![Mine(t)] = FALSE]
  /\ thread' = [thread EXCEPT ![t] = IdleThread]
  /\ UNCHANGED <<init, listVars, ops, regs, callVars, crash>>
-----------------------------------------------------------------------------
(* plipdev_ioctl: ipcore_find_device, and the call of read or write *)

Linked == {d \in Dev : mem[d] /\ \A t \in Thread :
             Mine(t) = d => thread[t].pc \in {"ops", "del", "unlink"}}

\* When copy_from_user fails the id is whatever was on the stack: any.
Ioctl(p) ==
  /\ pc[p] = "idle"
  /\ init = "done" \/ (init = "list" /\ "early_ioctl" \in Races)
  /\ Removing => "remove_in_use" \in Races
  /\ \E id \in Asked : want' = [want EXCEPT ![p] = id]
  /\ pc' = [pc EXCEPT ![p] = "walk"]
  /\ cur' = [cur EXCEPT ![p] = next[Head]]
  /\ there' = [there EXCEPT ![p] = Linked]
  /\ UNCHANGED <<init, listVars, devVars, thread, crash>>

Leave(p, to) ==
  /\ pc' = [pc EXCEPT ![p] = to] /\ cur' = [cur EXCEPT ![p] = Null]
  /\ want' = [want EXCEPT ![p] = 0] /\ there' = [there EXCEPT ![p] = {}]

Return(p) == Leave(p, "idle")

NotFound(p) ==
  /\ pc[p] = "walk" /\ cur[p] = Head /\ Return(p)
  /\ UNCHANGED <<init, listVars, devVars, thread, crash>>

Usable(d) == d \in Dev /\ mem[d]

\* Bug variant: the loop tests for the end before the last entry.
WalkStopsEarly(p) ==
  /\ pc[p] = "walk" /\ Usable(cur[p])
  /\ IF IdOf[cur[p]] = want[p] /\ next[cur[p]] # Head
     THEN pc' = [pc EXCEPT ![p] = "found"] /\ UNCHANGED cur
     ELSE cur' = [cur EXCEPT ![p] = next[cur[p]]] /\ UNCHANGED pc
  /\ UNCHANGED <<init, listVars, devVars, thread, want, there, crash>>

\* The body of list_for_each_entry.
Walk(p) ==
  /\ pc[p] = "walk" /\ Usable(cur[p])
  /\ IF IdOf[cur[p]] = want[p]
     THEN pc' = [pc EXCEPT ![p] = "found"] /\ UNCHANGED cur
     ELSE cur' = [cur EXCEPT ![p] = next[cur[p]]] /\ UNCHANGED pc
  /\ UNCHANGED <<init, listVars, devVars, thread, want, there, crash>>

\* A device that has no operation yet is refused.
CheckOp(p) ==
  /\ pc[p] = "found" /\ Usable(cur[p])
  /\ IF ops[cur[p]] THEN pc' = [pc EXCEPT ![p] = "call"] /\ UNCHANGED <<cur, want, there>>
     ELSE Return(p)
  /\ UNCHANGED <<init, listVars, devVars, thread, crash>>

\* ip_core_read and ip_core_write access the word a behind the one that dev->data points
\* to, whatever a is: the byte address wraps at 2^32.  The access faults, and the process
\* is killed, when ioremap had failed or nothing is mapped there.
CallOp(p) ==
  /\ pc[p] = "call" /\ Usable(cur[p])
  /\ \E a \in Addr : Leave(p, IF regs[cur[p]] /\ a % 2^30 < Words THEN "idle" ELSE "killed")
  /\ UNCHANGED <<init, listVars, devVars, thread, crash>>

IoctlStep(p) == NotFound(p) \/ Walk(p) \/ CheckOp(p) \/ CallOp(p)
-----------------------------------------------------------------------------
Binding(t) ==
  \/ \E d \in Dev : Register(t, d) \/ Remove(t, d)
  \/ ReadTail(t) \/ StoreTail(t) \/ StoreNewNext(t) \/ StoreNewPrev(t) \/ Link(t)
  \/ SetOps(t)
  \/ DelFromNext(t) \/ Unlink(t) \/ PoisonLinks(t) \/ Free(t)

Next ==
  \/ InitDevice \/ AddCdev \/ PlipInit
  \/ \E t \in Thread : Binding(t)
  \/ \E p \in Process : Ioctl(p) \/ IoctlStep(p)

\* A process in the ioctl is never blocked.  Nothing is assumed of the threads that
\* bind devices, which may sleep in the middle.
Fairness == \A p \in Process : WF_vars(IoctlStep(p))

Spec == Init /\ [][Next]_vars
FairSpec == Spec /\ Fairness
-----------------------------------------------------------------------------
(* Properties *)

Quiet == init = "done" /\ \A t \in Thread : thread[t].pc \in {"idle", "ops"}

\* From the head along next, and back along prev, the list has the devices that
\* are registered, each once, whenever no thread is in the middle of it.
ListSound ==
  LET devs == {d \in Dev : mem[d]}
      along[n \in Nat] == IF n = 0 THEN Head ELSE next[along[n - 1]]
  IN Quiet =>
       /\ {along[n] : n \in 1 .. Cardinality(devs)} = devs
       /\ along[Cardinality(devs) + 1] = Head
       /\ \A n \in devs \cup {Head} : prev[next[n]] = n

\* A process or a thread that follows a pointer of the list finds a device or the head
\* there, and calls through a device that is.  Whether the access behind the call is to
\* a register that is mapped is another matter (AccessIsMapped).
NoFault ==
  /\ ~crash
  /\ \A p \in Process : ~Outside(p) => Usable(cur[p]) \/ (pc[p] = "walk" /\ cur[p] = Head)

\* The lookup ends at the head only when no device of that id has been on the list
\* all the time, however many were added behind the walk or ahead of it.
FindsRegistered ==
  \A p \in Process : pc[p] = "walk" /\ cur[p] = Head =>
    \A d \in there[p] : IdOf[d] # want[p]

\* Every ioctl comes to an end, even if the thread that is adding a device never goes on.
IoctlReturns == \A p \in Process : ~Outside(p) ~> Outside(p)
-----------------------------------------------------------------------------
(* One more that the code does not have. *)

\* No process is killed for an access to a register.
AccessIsMapped == \A p \in Process : pc[p] # "killed"
=============================================================================
