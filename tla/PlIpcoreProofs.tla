--------------------------- MODULE PlIpcoreProofs ---------------------------
(***************************************************************************)
(* The list of IP cores, for every set of cores and every number of        *)
(* processes that look them up while one thread binds and unbinds cores:   *)
(* no process follows a pointer to nowhere, and none misses a core that    *)
(* has been on the list all the time.                                      *)
(*                                                                         *)
(* The list is seen as a function L on 0 .. n + 1 with the head at both    *)
(* ends.  Along next it is whole after each store; back along prev it is   *)
(* not, while the thread is in the middle of list_add_tail or list_del.    *)
(***************************************************************************)
EXTENDS PlIpcore, TLAPS

\* The device is there before any core is bound and any process opens it, one thread
\* binds and unbinds, and unbinds only while no process is in the ioctl.
Orderly == (\A t, u \in Thread : t = u) /\ "init" \notin Faults /\ Races = {}

Adding(t) == thread[t].pc \in {"new_next", "new_prev", "link"}
Deleting(t) == thread[t].pc \in {"del", "unlink", "poison", "free"}
On(n, L, d) == \E i \in 1 .. n : L[i] = d

\* The nodes of the list in their order.
Nodes(n, L) ==
  /\ n \in Nat /\ L \in [0 .. n + 1 -> Node]
  /\ L[0] = Head /\ L[n + 1] = Head
  /\ \A i \in 1 .. n : L[i] \in Dev
  /\ \A i, j \in 1 .. n : L[i] = L[j] => i = j
  /\ \A d \in Dev : On(n, L, d) <=> d \in Linked

NextIs(n, L) == \A i \in 0 .. n : next[L[i]] = L[i + 1]

\* prev of the head is ahead while a core is being added, and prev of the successor
\* skips a core that is being taken off.
PrevIs(n, L) ==
  \A i \in 1 .. n + 1 :
    \/ prev[L[i]] = L[i - 1]
    \/ i = n + 1 /\ \E t \in Thread : Adding(t)
    \/ \E t \in Thread : At(t, "unlink") /\ L[i - 1] = Mine(t)

\* What the thread has stored so far.
ThreadAt(t, n, L) ==
  /\ Mine(t) = Head <=> At(t, "idle")
  /\ Mine(t) # Head => mem[Mine(t)]
  /\ At(t, "tail") \/ Adding(t) => thread[t].tail = L[n]
  /\ Adding(t) => prev[Head] = Mine(t)
  /\ thread[t].pc \in {"new_prev", "link"} => next[Mine(t)] = Head
  /\ At(t, "link") => prev[Mine(t)] = L[n]
  /\ At(t, "unlink") => \A k \in 1 .. n : L[k] = Mine(t) => prev[L[k + 1]] = L[k - 1]
  /\ Deleting(t) => \A p \in Process : Outside(p)

\* A process is at a node of the list, and what it looks for is not behind it.
ProcessAt(p, n, L) ==
  /\ Outside(p) => there[p] = {}
  /\ pc[p] = "walk" =>
       \E i \in 1 .. n + 1 :
         /\ cur[p] = L[i]
         /\ \A d \in there[p] : IdOf[d] = want[p] => \E j \in i .. n : L[j] = d
  /\ pc[p] \in {"found", "call"} => cur[p] \in Linked

Listed ==
  \E n \in Nat : \E L \in [0 .. n + 1 -> Node] :
    /\ Nodes(n, L) /\ NextIs(n, L) /\ PrevIs(n, L)
    /\ \A t \in Thread : ThreadAt(t, n, L)
    /\ \A p \in Process : ProcessAt(p, n, L)

\* Before plip_init has run there is no list, and nobody uses it.
Unlisted ==
  /\ \A t \in Thread : thread[t] = IdleThread
  /\ \A p \in Process : Outside(p) /\ there[p] = {}
  /\ \A d \in Dev : ~mem[d]

RegistryTyped ==
  /\ init \in {"region", "cdev", "list", "done"}
  /\ next \in [Node -> Pointer] /\ prev \in [Node -> Pointer]
  /\ mem \in [Dev -> BOOLEAN] /\ ops \in [Dev -> BOOLEAN]
  /\ regs \in [Dev -> BOOLEAN] /\ bound = mem
  /\ thread \in [Thread ->
       [pc : {"idle", "add", "tail", "new_next", "new_prev", "link", "ops",
              "del", "unlink", "poison", "free"},
        dev : Node, tail : Pointer]]
  /\ pc \in [Process -> {"idle", "walk", "found", "call", "killed"}]
  /\ want \in [Process -> Nat] /\ cur \in [Process -> Pointer]
  /\ there \in [Process -> SUBSET Dev]

RegistryInv ==
  /\ RegistryTyped /\ ~crash
  /\ init # "done" => Unlisted
  /\ init = "done" => Listed
-----------------------------------------------------------------------------
(* Types *)

USE DEF Outside

\* A thread that goes on to another step keeps its type.
LEMMA GotoTyped ==
  ASSUME RegistryTyped, NEW t \in Thread,
         NEW to \in {"idle", "add", "tail", "new_next", "new_prev", "link", "ops",
                     "del", "unlink", "poison", "free"},
         thread' = [thread EXCEPT ![t].pc = to]
  PROVE  /\ thread' \in [Thread ->
              [pc : {"idle", "add", "tail", "new_next", "new_prev", "link", "ops",
                     "del", "unlink", "poison", "free"},
               dev : Node, tail : Pointer]]
         /\ thread'[t].pc = to /\ thread'[t].dev = thread[t].dev /\ thread'[t].tail = thread[t].tail
BY DEF RegistryTyped

LEMMA TypedStep ==
  ASSUME RegistryAssumption, Orderly, RegistryTyped, [Next]_vars  PROVE RegistryTyped'
<1> USE DEF RegistryTyped
<1> DEFINE T == [pc : {"idle", "add", "tail", "new_next", "new_prev", "link", "ops",
                       "del", "unlink", "poison", "free"}, dev : Node, tail : Pointer]
<1>1. CASE UNCHANGED vars
  BY <1>1 DEF vars, listVars, devVars, callVars
<1>2. CASE InitDevice \/ AddCdev
  BY <1>2 DEF InitDevice, AddCdev, Orderly, listVars, devVars, callVars
<1>3. CASE PlipInit
  BY <1>3 DEF PlipInit, devVars, callVars, Node, Pointer
<1>4. ASSUME NEW t \in Thread, NEW d \in Dev, Register(t, d)
      PROVE  RegistryTyped'
  <2>1. d \in Node /\ d \in Pointer /\ Null \in Pointer
    BY DEF Node, Pointer
  <2>2. [pc |-> "add", dev |-> d, tail |-> Null] \in T
    BY <2>1
  <2>3. /\ next' \in [Node -> Pointer] /\ prev' \in [Node -> Pointer]
        /\ thread' \in [Thread -> T]
        /\ mem' \in [Dev -> BOOLEAN] /\ ops' \in [Dev -> BOOLEAN] /\ bound' = mem'
    BY <1>4, <2>1, <2>2 DEF Register
  <2>4. regs' \in [Dev -> BOOLEAN]
    BY <1>4 DEF Register
  <2> QED BY <1>4, <2>3, <2>4 DEF Register, callVars
<1>5. ASSUME NEW t \in Thread, NEW d \in Dev, Remove(t, d)
      PROVE  RegistryTyped'
  <2>1. [pc |-> "del", dev |-> d, tail |-> Null] \in T
    BY DEF Node, Pointer
  <2>2. thread' \in [Thread -> T]
    BY <1>5, <2>1 DEF Remove
  <2> QED BY <1>5, <2>2 DEF Remove, listVars, devVars, callVars
<1>6. ASSUME NEW t \in Thread, ReadTail(t)
      PROVE  RegistryTyped'
  <2>1. prev[Head] \in Pointer
    BY DEF Node
  <2>2. thread' \in [Thread -> T]
    <3> DEFINE th == [thread EXCEPT ![t].pc = "tail"]
    <3>1. th \in [Thread -> T]
      OBVIOUS
    <3>2. thread' = [th EXCEPT ![t].tail = prev[Head]]
      BY <1>6 DEF ReadTail
    <3> HIDE DEF th
    <3> QED BY <2>1, <3>1, <3>2, ZenonT(40)
  <2> QED BY <1>6, <2>2 DEF ReadTail, listVars, devVars, callVars
<1>7. ASSUME NEW t \in Thread,
             \/ StoreTail(t) \/ StoreNewNext(t) \/ StoreNewPrev(t) \/ Link(t)
             \/ DelFromNext(t) \/ Unlink(t) \/ PoisonLinks(t)
      PROVE  RegistryTyped'
  <2>1. \E to \in {"new_next", "new_prev", "link", "ops", "unlink", "poison", "free"} :
           thread' = [thread EXCEPT ![t].pc = to]
    BY <1>7 DEF StoreTail, StoreNewNext, StoreNewPrev, Link, DelFromNext, Unlink, PoisonLinks, Goto
  <2>2. thread' \in [Thread -> T]
    BY <2>1, GotoTyped
  <2>3. /\ Mine(t) \in Node /\ Mine(t) \in Pointer /\ Head \in Node /\ Head \in Pointer
        /\ thread[t].tail \in Pointer /\ Poison \in Pointer
        /\ next[Mine(t)] \in Pointer /\ prev[Mine(t)] \in Pointer
    BY DEF Mine, Node, Pointer
  <2>4. next' \in [Node -> Pointer]
    BY <1>7, <2>3 DEF StoreTail, StoreNewNext, StoreNewPrev, Link, DelFromNext, Unlink,
       PoisonLinks, Store
  <2>5. prev' \in [Node -> Pointer]
    BY <1>7, <2>3 DEF StoreTail, StoreNewNext, StoreNewPrev, Link, DelFromNext, Unlink,
       PoisonLinks, Store
  <2>6. there' \in [Process -> SUBSET Dev]
    BY <1>7 DEF StoreTail, StoreNewNext, StoreNewPrev, Link, DelFromNext, Unlink, PoisonLinks,
       callVars
  <2> QED BY <1>7, <2>2, <2>4, <2>5, <2>6 DEF StoreTail, StoreNewNext, StoreNewPrev, Link,
             DelFromNext, Unlink, PoisonLinks, devVars, callVars
<1>8. ASSUME NEW t \in Thread, SetOps(t) \/ Free(t)
      PROVE  RegistryTyped'
  <2>1. IdleThread \in T
    BY DEF IdleThread, Node, Pointer
  <2>2. thread' \in [Thread -> T]
    BY <1>8, <2>1 DEF SetOps, Free
  <2>3. CASE SetOps(t)
    BY <2>2, <2>3 DEF SetOps, listVars, callVars
  <2>4. CASE Free(t)
    <3>1. mem' = [mem EXCEPT ![Mine(t)] = FALSE] /\ bound' = mem'
      BY <2>4 DEF Free
    <3>2. mem' \in [Dev -> BOOLEAN] /\ \A d \in Dev : mem'[d] => mem[d]
      BY <3>1
    <3> QED BY <2>2, <2>4, <3>1, <3>2 DEF Free, listVars, callVars
  <2> QED BY <1>8, <2>3, <2>4
<1>9. ASSUME NEW p \in Process, Ioctl(p)
      PROVE  RegistryTyped'
  <2>1. PICK id \in Asked : want' = [want EXCEPT ![p] = id]
    BY <1>9 DEF Ioctl
  <2>2. want' \in [Process -> Nat] /\ id \in Nat
    BY <2>1 DEF RegistryAssumption
  <2>3. there' \in [Process -> SUBSET Dev] /\ cur' \in [Process -> Pointer]
    BY <1>9 DEF Ioctl, Linked, Node
  <2> QED BY <1>9, <2>2, <2>3 DEF Ioctl, listVars, devVars
<1>10. ASSUME NEW p \in Process, Leave(p, "idle") \/ Leave(p, "killed")
       PROVE  /\ pc' \in [Process -> {"idle", "walk", "found", "call", "killed"}]
              /\ want' \in [Process -> Nat] /\ cur' \in [Process -> Pointer]
              /\ there' \in [Process -> SUBSET Dev]
  <2>1. CASE Leave(p, "idle")
    BY <2>1 DEF Leave, Pointer
  <2>2. CASE Leave(p, "killed")
    BY <2>2 DEF Leave, Pointer
  <2> QED BY <1>10, <2>1, <2>2
<1>11. ASSUME NEW p \in Process, NotFound(p) \/ CheckOp(p) \/ CallOp(p)
       PROVE  RegistryTyped'
  <2>1. UNCHANGED <<init, listVars, devVars, thread>>
    BY <1>11 DEF NotFound, CheckOp, CallOp
  <2>2. CASE Leave(p, "idle") \/ Leave(p, "killed")
    BY <1>10, <2>1, <2>2 DEF listVars, devVars
  <2>3. CASE pc' = [pc EXCEPT ![p] = "call"] /\ UNCHANGED <<cur, want, there>>
    BY <2>1, <2>3 DEF listVars, devVars
  <2> QED BY <1>11, <2>2, <2>3 DEF NotFound, CheckOp, CallOp, Return
<1>12. ASSUME NEW p \in Process, Walk(p)
       PROVE  RegistryTyped'
  <2>1. next[cur[p]] \in Pointer
    BY <1>12 DEF Walk, Usable, Node
  <2>2. cur' \in [Process -> Pointer] /\ pc' \in [Process -> {"idle", "walk", "found", "call", "killed"}]
    BY <1>12, <2>1 DEF Walk
  <2> QED BY <1>12, <2>2 DEF Walk, listVars, devVars
<1> HIDE DEF RegistryTyped
<1> QED BY <1>1, <1>2, <1>3, <1>4, <1>5, <1>6, <1>7, <1>8, <1>9, <1>11, <1>12
        DEF Next, Binding, IoctlStep
-----------------------------------------------------------------------------
(* The list *)

\* The list with its nodes in the order L, and everybody's place in it.
ListIs(n, L) ==
  /\ Nodes(n, L) /\ NextIs(n, L) /\ PrevIs(n, L)
  /\ \A t \in Thread : ThreadAt(t, n, L)
  /\ \A p \in Process : ProcessAt(p, n, L)

LEMMA ListedIs == Listed <=> \E n \in Nat : \E L \in [0 .. n + 1 -> Node] : ListIs(n, L)
BY DEF Listed, ListIs

\* The nodes of the list are the head at its ends and the linked cores between them.
LEMMA PlaceOfHead ==
  ASSUME RegistryAssumption, NEW n \in Nat, NEW L \in [0 .. n + 1 -> Node], Nodes(n, L)
  PROVE  \A i \in 0 .. n + 1 : L[i] \in Node /\ (L[i] = Head <=> i \in {0, n + 1})
BY DEF Nodes, RegistryAssumption, Node

LEMMA PlaceOfCore ==
  ASSUME NEW n \in Nat, NEW L \in [0 .. n + 1 -> Node], Nodes(n, L)
  PROVE  /\ \A i \in 1 .. n : L[i] \in Linked
         /\ \A d \in Linked : d \in Dev /\ mem[d] /\ \E i \in 1 .. n : L[i] = d
BY DEF Nodes, On, Linked

\* A process in the ioctl finds everything as it was when the list, the memory and
\* the threads are.
LEMMA ProcessStep ==
  ASSUME RegistryAssumption, Orderly, RegistryTyped, ~crash,
         NEW n \in Nat, NEW L \in [0 .. n + 1 -> Node], ListIs(n, L),
         NEW p \in Process, Ioctl(p) \/ IoctlStep(p)
  PROVE  ListIs(n, L)' /\ ~crash'
<1> USE DEF Orderly
<1>1. /\ Nodes(n, L) /\ NextIs(n, L) /\ PrevIs(n, L)
      /\ \A t \in Thread : ThreadAt(t, n, L)
      /\ \A q \in Process : ProcessAt(q, n, L)
  BY DEF ListIs
<1>2. /\ UNCHANGED <<next, prev, mem, thread>>
      /\ \A q \in Process \ {p} : /\ pc'[q] = pc[q] /\ cur'[q] = cur[q]
                                  /\ want'[q] = want[q] /\ there'[q] = there[q]
  <2>1. UNCHANGED <<next, prev, mem, thread>>
    BY DEF Ioctl, IoctlStep, NotFound, Walk, CheckOp, CallOp, listVars, devVars
  <2>2. /\ \E x : pc' = [pc EXCEPT ![p] = x]
        /\ \E x : cur' = [cur EXCEPT ![p] = x]
        /\ \E x : want' = [want EXCEPT ![p] = x]
        /\ \E x : there' = [there EXCEPT ![p] = x]
    <3>1. /\ pc = [pc EXCEPT ![p] = pc[p]] /\ cur = [cur EXCEPT ![p] = cur[p]]
          /\ want = [want EXCEPT ![p] = want[p]] /\ there = [there EXCEPT ![p] = there[p]]
      BY DEF RegistryTyped
    <3>2. CASE Ioctl(p)
      BY <3>2 DEF Ioctl
    <3>3. CASE NotFound(p) \/ CallOp(p)
      BY <3>3 DEF NotFound, CallOp, Return, Leave
    <3>4. CASE Walk(p)
      BY <3>1, <3>4 DEF Walk
    <3>5. CASE CheckOp(p)
      BY <3>1, <3>5 DEF CheckOp, Return, Leave
    <3> QED BY <3>2, <3>3, <3>4, <3>5 DEF IoctlStep
  <2>3. \A q \in Process \ {p} : /\ pc'[q] = pc[q] /\ cur'[q] = cur[q]
                                 /\ want'[q] = want[q] /\ there'[q] = there[q]
    BY <2>2 DEF RegistryTyped
  <2> QED BY <2>1, <2>3
<1>3. Linked' = Linked
  BY <1>2 DEF Linked, Mine
<1>4. Nodes(n, L)' /\ NextIs(n, L)' /\ PrevIs(n, L)'
  BY <1>1, <1>2, <1>3 DEF Nodes, On, NextIs, PrevIs, Adding, At, Mine
<1>5. \A t \in Thread : ~Deleting(t)
  <2>1. CASE Ioctl(p)
    BY <2>1 DEF Ioctl, Removing, Deleting
  <2>2. CASE IoctlStep(p)
    <3>1. ~Outside(p)
      BY <2>2 DEF IoctlStep, NotFound, Walk, CheckOp, CallOp, Outside
    <3> QED BY <1>1, <3>1 DEF ThreadAt
  <2> QED BY <2>1, <2>2
<1>6. ASSUME NEW t \in Thread  PROVE ThreadAt(t, n, L)'
  <2>1. ~Deleting(t)'
    BY <1>2, <1>5 DEF Deleting
  <2> QED BY <1>1, <1>2, <2>1 DEF ThreadAt, Mine, At, Adding
<1>7. ASSUME NEW q \in Process \ {p}  PROVE ProcessAt(q, n, L)'
  BY <1>1, <1>2, <1>3, SMTT(40) DEF ProcessAt
<1>8. ProcessAt(p, n, L)' /\ ~crash'
  <2>0. \A i \in 0 .. n + 1 : L[i] \in Node /\ (L[i] = Head <=> i \in {0, n + 1})
    BY <1>1, PlaceOfHead
  <2>1. /\ \A i \in 1 .. n : L[i] \in Linked
        /\ \A d \in Linked : d \in Dev /\ mem[d] /\ \E i \in 1 .. n : L[i] = d
    BY <1>1, PlaceOfCore, SMTT(40)
  <2>2. CASE Ioctl(p)
    <3>1. /\ pc'[p] = "walk" /\ cur'[p] = next[Head] /\ there'[p] = Linked /\ crash' = crash
      BY <2>2 DEF Ioctl, RegistryTyped
    <3>2. cur'[p] = L[1]
      BY <1>1, <3>1 DEF NextIs, Nodes
    <3>3. \A d \in there'[p] : \E j \in 1 .. n : L[j] = d
      BY <2>1, <3>1
    <3>4. 1 \in 1 .. n + 1
      OBVIOUS
    <3>5. ProcessAt(p, n, L)'
      BY <3>1, <3>2, <3>3, <3>4 DEF ProcessAt
    <3> QED BY <3>1, <3>5
  <2>3. CASE Leave(p, "idle") \/ Leave(p, "killed")
    <3>1. pc'[p] \notin {"walk", "found", "call"} /\ there'[p] = {}
      BY <2>3 DEF Leave, RegistryTyped
    <3>2. ~crash'
      BY DEF Ioctl, IoctlStep, NotFound, Walk, CheckOp, CallOp
    <3>3. ProcessAt(p, n, L)'
      BY <3>1 DEF ProcessAt
    <3> QED BY <3>2, <3>3
  <2>4. CASE Walk(p)
    <3>1. PICK i \in 1 .. n + 1 :
             /\ cur[p] = L[i]
             /\ \A d \in there[p] : IdOf[d] = want[p] => \E j \in i .. n : L[j] = d
      BY <1>1, <2>4 DEF Walk, ProcessAt
    <3>2. i \in 1 .. n
      BY <2>0, <2>4, <3>1 DEF Walk, Usable, RegistryAssumption
    <3>3. CASE IdOf[cur[p]] = want[p]
      <4>1. pc'[p] = "found" /\ cur'[p] = cur[p] /\ crash' = crash
        BY <2>4, <3>3 DEF Walk, RegistryTyped
      <4> QED BY <1>3, <2>1, <3>1, <3>2, <4>1 DEF ProcessAt
    <3>4. CASE IdOf[cur[p]] # want[p]
      <4>1. /\ pc'[p] = "walk" /\ cur'[p] = L[i + 1] /\ crash' = crash
            /\ want'[p] = want[p] /\ there'[p] = there[p]
        <5>1. next[cur[p]] = L[i + 1]
          BY <1>1, <3>1, <3>2 DEF NextIs
        <5> QED BY <2>4, <3>4, <5>1 DEF Walk, RegistryTyped
      <4>2. ASSUME NEW d \in there[p], IdOf[d] = want[p]
            PROVE  \E j \in i + 1 .. n : L[j] = d
        <5>1. PICK j \in i .. n : L[j] = d
          BY <3>1, <4>2
        <5>2. j # i
          BY <3>1, <3>4, <4>2, <5>1
        <5> QED BY <3>2, <5>1, <5>2
      <4>3. i + 1 \in 1 .. n + 1
        BY <3>2
      <4> QED BY <4>1, <4>2, <4>3 DEF ProcessAt
    <3> QED BY <3>3, <3>4
  <2>5. CASE CheckOp(p) /\ ~Leave(p, "idle")
    <3>1. pc[p] = "found" /\ pc'[p] = "call" /\ cur' = cur /\ crash' = crash
      BY <2>5 DEF CheckOp, Return, RegistryTyped
    <3> QED BY <1>1, <1>3, <3>1 DEF ProcessAt
  <2> QED BY <2>2, <2>3, <2>4, <2>5 DEF IoctlStep, NotFound, CallOp, Return
<1> QED BY <1>4, <1>6, <1>7, <1>8 DEF ListIs

\* A step of the thread that leaves the nodes of the list as they are.
LEMMA SameNodes ==
  ASSUME Orderly, NEW n \in Nat, NEW L \in [0 .. n + 1 -> Node], ListIs(n, L),
         NEW t \in Thread, UNCHANGED callVars, Linked' = Linked,
         NextIs(n, L)', PrevIs(n, L)', ThreadAt(t, n, L)'
  PROVE  ListIs(n, L)'
<1>1. Nodes(n, L)'
  BY DEF ListIs, Nodes, On
<1>2. \A p \in Process : ProcessAt(p, n, L)'
  BY DEF ListIs, ProcessAt, callVars
<1>3. \A u \in Thread : ThreadAt(u, n, L)'
  BY DEF Orderly
<1> QED BY <1>1, <1>2, <1>3 DEF ListIs

\* What the invariant says of the only thread and of the node it is at.
LEMMA ThreadFacts ==
  ASSUME RegistryAssumption, Orderly, RegistryTyped,
         NEW n \in Nat, NEW L \in [0 .. n + 1 -> Node], ListIs(n, L), NEW t \in Thread
  PROVE  /\ \A u \in Thread : u = t
         /\ Nodes(n, L) /\ NextIs(n, L) /\ ThreadAt(t, n, L)
         /\ Mine(t) \in Node
         /\ Mine(t) = Head <=> thread[t].pc = "idle"
         /\ Mine(t) \in Linked <=> thread[t].pc \in {"ops", "del", "unlink"}
<1>1. \A u \in Thread : u = t
  BY DEF Orderly
<1>2. Nodes(n, L) /\ NextIs(n, L) /\ ThreadAt(t, n, L)
  BY DEF ListIs
<1>3. Mine(t) \in Node /\ thread[t].pc \in {"idle", "add", "tail", "new_next", "new_prev", "link",
                                           "ops", "del", "unlink", "poison", "free"}
  BY DEF RegistryTyped, Mine
<1>4. Mine(t) = Head <=> thread[t].pc = "idle"
  BY <1>2 DEF ThreadAt, At
<1>5. Mine(t) \in Linked <=> thread[t].pc \in {"ops", "del", "unlink"}
  BY <1>1, <1>2, <1>3, <1>4 DEF Linked, ThreadAt, Node, RegistryAssumption
<1> QED BY <1>1, <1>2, <1>3, <1>4, <1>5

\* A core that is not linked is not on the list.
LEMMA OffTheList ==
  ASSUME NEW n \in Nat, NEW L \in [0 .. n + 1 -> Node], Nodes(n, L),
         NEW d, d \notin Linked, d # Head
  PROVE  \A i \in 0 .. n + 1 : L[i] # d
<1> SUFFICES ASSUME NEW i \in 0 .. n + 1  PROVE L[i] # d
  OBVIOUS
<1>1. CASE i \in 1 .. n
  BY <1>1, PlaceOfCore
<1>2. CASE i = 0 \/ i = n + 1
  BY <1>2 DEF Nodes
<1> QED BY <1>1, <1>2

\* Back along prev the list is whole while the thread is not in the middle of it.
LEMMA PrevWhole ==
  ASSUME Orderly, NEW n \in Nat, NEW L \in [0 .. n + 1 -> Node], ListIs(n, L),
         NEW t \in Thread, ~Adding(t), ~At(t, "unlink")
  PROVE  \A i \in 1 .. n + 1 : prev[L[i]] = L[i - 1]
BY DEF Orderly, ListIs, PrevIs

\* A core that is registered is not on the list yet.
LEMMA RegisterStep ==
  ASSUME RegistryAssumption, Orderly, RegistryTyped, ~crash,
         NEW n \in Nat, NEW L \in [0 .. n + 1 -> Node], ListIs(n, L),
         NEW t \in Thread, NEW d \in Dev, Register(t, d)
  PROVE  ListIs(n, L)' /\ ~crash'
<1>0. At(t, "idle") /\ ~Adding(t) /\ ~At(t, "unlink")
  BY DEF Register, At, Adding
<1>1. /\ \A u \in Thread : u = t
      /\ Nodes(n, L) /\ NextIs(n, L) /\ Mine(t) = Head
      /\ \A i \in 1 .. n + 1 : prev[L[i]] = L[i - 1]
  <2>1. \A u \in Thread : u = t
    BY DEF Orderly
  <2>2. Nodes(n, L) /\ NextIs(n, L)
    BY DEF ListIs
  <2>3. Mine(t) = Head
    BY <1>0, ThreadFacts DEF At
  <2>4. \A i \in 1 .. n + 1 : prev[L[i]] = L[i - 1]
    BY <1>0, PrevWhole
  <2> QED BY <2>1, <2>2, <2>3, <2>4
<1>2. /\ thread'[t] = [pc |-> "add", dev |-> d, tail |-> Null]
      /\ next' = [next EXCEPT ![d] = d] /\ prev' = [prev EXCEPT ![d] = d]
      /\ mem' = [mem EXCEPT ![d] = TRUE] /\ ~mem[d]
      /\ UNCHANGED callVars /\ crash' = crash
  BY DEF Register, RegistryTyped
<1>3. /\ At(t, "add")' /\ Mine(t)' = d /\ d # Head
      /\ thread'[t].pc = "add"
  BY <1>2 DEF At, Mine, RegistryAssumption
<1>4. Linked' = Linked
  <2>1. Linked = {x \in Dev : mem[x]}
    BY <1>1 DEF Linked, RegistryAssumption
  <2>2. Linked' = {x \in Dev : mem'[x] /\ x # d}
    BY <1>1, <1>3 DEF Linked
  <2>3. \A x \in Dev : mem[x] <=> mem'[x] /\ x # d
    BY <1>2 DEF RegistryTyped
  <2> QED BY <2>1, <2>2, <2>3
<1>5. \A i \in 0 .. n + 1 : L[i] # d /\ L[i] \in Node
  <2>1. d \notin Linked
    BY <1>2 DEF Linked
  <2>2. \A i \in 0 .. n + 1 : L[i] # d
    <3>1. Nodes(n, L) /\ d # Head
      BY <1>1, <1>3
    <3> QED BY <2>1, <3>1, OffTheList
  <2>3. \A i \in 0 .. n + 1 : L[i] \in Node
    BY <1>1, PlaceOfHead
  <2> QED BY <2>2, <2>3
<1>6. NextIs(n, L)'
  BY <1>1, <1>2, <1>5 DEF NextIs, RegistryTyped
<1>7. PrevIs(n, L)'
  BY <1>1, <1>2, <1>5 DEF PrevIs, RegistryTyped
<1>8. ThreadAt(t, n, L)'
  BY <1>2, <1>3 DEF ThreadAt, Adding, Deleting, At, RegistryTyped
<1> QED BY <1>2, <1>4, <1>6, <1>7, <1>8, SameNodes

\* The stores of list_add_tail before the last one do not touch the next of a node.
LEMMA AddStep ==
  ASSUME RegistryAssumption, Orderly, RegistryTyped, ~crash,
         NEW n \in Nat, NEW L \in [0 .. n + 1 -> Node], ListIs(n, L),
         NEW t \in Thread, ReadTail(t) \/ StoreTail(t) \/ StoreNewNext(t) \/ StoreNewPrev(t)
  PROVE  ListIs(n, L)' /\ ~crash'
<1> DEFINE d == Mine(t)
<1>1. /\ \A u \in Thread : u = t
      /\ Nodes(n, L) /\ NextIs(n, L) /\ PrevIs(n, L) /\ ThreadAt(t, n, L)
      /\ d \in Node /\ thread[t].pc \in {"add", "tail", "new_next", "new_prev"}
  BY ThreadFacts DEF ReadTail, StoreTail, StoreNewNext, StoreNewPrev, At, ListIs
<1>2. /\ d # Head /\ mem[d] /\ d \in Dev
      /\ \A i \in 0 .. n + 1 : L[i] # d
  <2>1. d # Head /\ mem[d]
    BY <1>1 DEF ThreadAt, At
  <2>2. d \notin Linked
    BY <1>1, ThreadFacts
  <2> QED BY <1>1, <2>1, <2>2, OffTheList DEF Node
<1>3. /\ thread'[t].pc \in {"tail", "new_next", "new_prev", "link"}
      /\ Mine(t)' = d
      /\ UNCHANGED <<mem, callVars, crash>>
  BY <1>1 DEF ReadTail, StoreTail, StoreNewNext, StoreNewPrev, Goto, Mine, RegistryTyped, devVars
<1>4. Linked' = Linked
  BY <1>1, <1>3 DEF Linked
<1>5. \A i \in 0 .. n + 1 : L[i] \in Node /\ (L[i] = Head <=> i \in {0, n + 1})
  BY <1>1, PlaceOfHead
<1> USE DEF Goto, At
<1>6. CASE ReadTail(t)
  <2>1. /\ thread[t].pc = "add" /\ thread'[t].pc = "tail" /\ thread'[t].tail = prev[Head]
        /\ UNCHANGED <<next, prev>>
    BY <1>6 DEF ReadTail, RegistryTyped, listVars
  <2>2. \A i \in 1 .. n + 1 : prev[L[i]] = L[i - 1]
    BY <2>1, PrevWhole DEF Adding
  <2>3. prev[Head] = L[n]
    <3>1. n + 1 \in 1 .. n + 1 /\ (n + 1) - 1 = n
      OBVIOUS
    <3> QED BY <1>1, <2>2, <3>1 DEF Nodes
  <2>4. NextIs(n, L)' /\ PrevIs(n, L)'
    BY <1>1, <2>1, <2>2 DEF NextIs, PrevIs
  <2>5. ThreadAt(t, n, L)'
    BY <1>2, <1>3, <2>1, <2>3 DEF ThreadAt, Adding, Deleting
  <2> QED BY <1>3, <1>4, <2>4, <2>5, SameNodes
<1>7. CASE StoreTail(t)
  <2>1. /\ thread[t].pc = "tail" /\ thread'[t].pc = "new_next" /\ thread'[t].tail = thread[t].tail
        /\ next' = next /\ prev' = [prev EXCEPT ![Head] = d]
    BY <1>7 DEF StoreTail, RegistryTyped
  <2>2. \A i \in 1 .. n + 1 : prev[L[i]] = L[i - 1]
    BY <2>1, PrevWhole DEF Adding
  <2>3. prev'[Head] = d /\ \A i \in 1 .. n : prev'[L[i]] = L[i - 1]
    <3>1. \A i \in 1 .. n : i \in 1 .. n + 1 /\ i \notin {0, n + 1}
      OBVIOUS
    <3> QED BY <1>5, <2>1, <2>2, <3>1 DEF RegistryTyped, Node
  <2>4. NextIs(n, L)' /\ PrevIs(n, L)'
    BY <1>1, <2>1, <2>3 DEF NextIs, PrevIs, Adding
  <2>5. ThreadAt(t, n, L)'
    BY <1>1, <1>2, <1>3, <2>1, <2>3 DEF ThreadAt, Adding, Deleting
  <2> QED BY <1>3, <1>4, <2>4, <2>5, SameNodes
<1>8. CASE StoreNewNext(t)
  <2>1. /\ thread[t].pc = "new_next" /\ thread'[t].pc = "new_prev" /\ thread'[t].tail = thread[t].tail
        /\ prev' = prev /\ next' = [next EXCEPT ![d] = Head]
    BY <1>8 DEF StoreNewNext, RegistryTyped
  <2>2. next'[d] = Head /\ \A i \in 0 .. n : next'[L[i]] = next[L[i]]
    BY <1>1, <1>2, <1>5, <2>1 DEF RegistryTyped
  <2>3. NextIs(n, L)' /\ PrevIs(n, L)'
    BY <1>1, <2>1, <2>2 DEF NextIs, PrevIs, Adding
  <2>4. ThreadAt(t, n, L)'
    BY <1>1, <1>2, <1>3, <2>1, <2>2 DEF ThreadAt, Adding, Deleting
  <2> QED BY <1>3, <1>4, <2>3, <2>4, SameNodes
<1>9. CASE StoreNewPrev(t)
  <2>1. /\ thread[t].pc = "new_prev" /\ thread'[t].pc = "link" /\ thread'[t].tail = thread[t].tail
        /\ next' = next /\ prev' = [prev EXCEPT ![d] = thread[t].tail]
    BY <1>9 DEF StoreNewPrev, RegistryTyped
  <2>2. /\ prev'[d] = L[n] /\ prev'[Head] = prev[Head]
        /\ \A i \in 1 .. n + 1 : prev'[L[i]] = prev[L[i]]
    BY <1>1, <1>2, <1>5, <2>1 DEF RegistryTyped, ThreadAt, Adding, Node
  <2>3. NextIs(n, L)' /\ PrevIs(n, L)'
    BY <1>1, <2>1, <2>2 DEF NextIs, PrevIs, Adding
  <2>4. ThreadAt(t, n, L)'
    BY <1>1, <1>2, <1>3, <2>1, <2>2 DEF ThreadAt, Adding, Deleting
  <2> QED BY <1>3, <1>4, <2>3, <2>4, SameNodes
<1> QED BY <1>6, <1>7, <1>8, <1>9

\* The list has all that SetOps, Remove, DelFromNext, PoisonLinks and Free leave.
LEMMA KeepStep ==
  ASSUME RegistryAssumption, Orderly, RegistryTyped, ~crash,
         NEW n \in Nat, NEW L \in [0 .. n + 1 -> Node], ListIs(n, L), NEW t \in Thread,
         SetOps(t) \/ (\E d \in Dev : Remove(t, d)) \/ PoisonLinks(t) \/ Free(t)
  PROVE  ListIs(n, L)' /\ ~crash'
<1>1. /\ \A u \in Thread : u = t
      /\ Nodes(n, L) /\ NextIs(n, L) /\ ThreadAt(t, n, L)
      /\ Mine(t) \in Node
  BY ThreadFacts
<1>2. ~Adding(t) /\ ~At(t, "unlink")
  BY DEF SetOps, Remove, PoisonLinks, Free, At, Adding
<1>3. \A i \in 1 .. n + 1 : prev[L[i]] = L[i - 1]
  BY <1>2, PrevWhole
<1>4. UNCHANGED callVars /\ crash' = crash
  BY DEF SetOps, Remove, PoisonLinks, Free
<1>5. ASSUME UNCHANGED <<next, prev>>  PROVE NextIs(n, L)' /\ PrevIs(n, L)'
  BY <1>1, <1>3, <1>5 DEF NextIs, PrevIs
<1>6. CASE SetOps(t)
  <2>1. /\ thread[t].pc = "ops" /\ thread'[t] = IdleThread
        /\ UNCHANGED <<next, prev, mem>>
    BY <1>6 DEF SetOps, At, listVars, RegistryTyped
  <2>2. Linked' = Linked
    BY <1>1, <2>1 DEF Linked, Mine, IdleThread, RegistryAssumption
  <2>3. ThreadAt(t, n, L)'
    BY <2>1 DEF ThreadAt, Mine, At, Adding, Deleting, IdleThread
  <2> QED BY <1>4, <1>5, <2>1, <2>2, <2>3, SameNodes
<1>7. ASSUME NEW d \in Dev, Remove(t, d)  PROVE ListIs(n, L)'
  <2>1. /\ At(t, "idle") /\ thread'[t] = [pc |-> "del", dev |-> d, tail |-> Null]
        /\ mem[d] /\ \A p \in Process : Outside(p)
        /\ UNCHANGED <<next, prev, mem>>
    BY <1>7 DEF Remove, listVars, devVars, RegistryTyped, Orderly
  <2>2. Mine(t) = Head /\ d # Head
    BY <2>1, ThreadFacts DEF RegistryAssumption, At
  <2>3. Linked' = Linked
    BY <1>1, <2>1, <2>2 DEF Linked, Mine, RegistryAssumption
  <2>4. ThreadAt(t, n, L)'
    BY <1>4, <2>1, <2>2 DEF ThreadAt, Mine, At, Adding, Deleting, callVars
  <2> QED BY <1>4, <1>5, <2>1, <2>3, <2>4, SameNodes
<1>8. CASE PoisonLinks(t)
  <2>1. /\ thread[t].pc = "poison" /\ thread'[t].pc = "free" /\ Mine(t)' = Mine(t)
        /\ next' = [next EXCEPT ![Mine(t)] = Poison] /\ prev' = [prev EXCEPT ![Mine(t)] = Poison]
        /\ UNCHANGED mem
    BY <1>8 DEF PoisonLinks, At, Goto, Mine, devVars, RegistryTyped
  <2>2. Mine(t) # Head /\ \A i \in 0 .. n + 1 : L[i] # Mine(t)
    <3>1. Mine(t) # Head
      BY <2>1, ThreadFacts
    <3>2. Mine(t) \notin Linked
      BY <2>1, ThreadFacts
    <3> QED BY <1>1, <3>1, <3>2, OffTheList
  <2>3. \A i \in 0 .. n + 1 : next'[L[i]] = next[L[i]] /\ prev'[L[i]] = prev[L[i]]
    BY <1>1, <2>1, <2>2, PlaceOfHead DEF RegistryTyped
  <2>4. NextIs(n, L)' /\ PrevIs(n, L)'
    <3>1. \A i \in 0 .. n : i \in 0 .. n + 1 /\ next[L[i]] = L[i + 1]
      BY <1>1 DEF NextIs
    <3>2. \A i \in 1 .. n + 1 : i \in 0 .. n + 1
      OBVIOUS
    <3>3. \A i \in 0 .. n : next'[L[i]] = L[i + 1]
      BY <2>3, <3>1
    <3>4. \A i \in 1 .. n + 1 : prev'[L[i]] = L[i - 1]
      BY <1>3, <2>3, <3>2
    <3> QED BY <3>3, <3>4 DEF NextIs, PrevIs
  <2>5. Linked' = Linked
    BY <1>1, <2>1 DEF Linked
  <2>6. ThreadAt(t, n, L)'
    BY <1>1, <1>4, <2>1, <2>2 DEF ThreadAt, At, Adding, Deleting, callVars
  <2> QED BY <1>4, <2>4, <2>5, <2>6, SameNodes
<1>9. CASE Free(t)
  <2>1. /\ thread[t].pc = "free" /\ thread'[t] = IdleThread
        /\ UNCHANGED <<next, prev>> /\ mem' = [mem EXCEPT ![Mine(t)] = FALSE]
    BY <1>9 DEF Free, At, listVars, RegistryTyped
  <2>2. Linked' = Linked
    <3>1. Linked = {x \in Dev : mem[x] /\ x # Mine(t)}
      BY <1>1, <2>1 DEF Linked
    <3>2. Linked' = {x \in Dev : mem'[x]}
      BY <1>1, <2>1 DEF Linked, Mine, IdleThread, RegistryAssumption
    <3>3. \A x \in Dev : mem'[x] <=> mem[x] /\ x # Mine(t)
      BY <2>1 DEF RegistryTyped
    <3> QED BY <3>1, <3>2, <3>3
  <2>3. ThreadAt(t, n, L)'
    BY <2>1 DEF ThreadAt, Mine, At, Adding, Deleting, IdleThread
  <2> QED BY <1>4, <1>5, <2>1, <2>2, <2>3, SameNodes
<1> QED BY <1>4, <1>6, <1>7, <1>8, <1>9

\* A core that is taken off is at one place of the list.
LEMMA DelStep ==
  ASSUME RegistryAssumption, Orderly, RegistryTyped, ~crash,
         NEW n \in Nat, NEW L \in [0 .. n + 1 -> Node], ListIs(n, L),
         NEW t \in Thread, DelFromNext(t)
  PROVE  ListIs(n, L)' /\ ~crash'
<1> DEFINE d == Mine(t)
<1>1. /\ \A u \in Thread : u = t
      /\ Nodes(n, L) /\ NextIs(n, L) /\ ThreadAt(t, n, L)
      /\ thread[t].pc = "del" /\ d \in Linked
      /\ \A i \in 1 .. n + 1 : prev[L[i]] = L[i - 1]
  <2>1. thread[t].pc = "del" /\ ~Adding(t) /\ ~At(t, "unlink")
    BY DEF DelFromNext, At, Adding
  <2>2. \A i \in 1 .. n + 1 : prev[L[i]] = L[i - 1]
    BY <2>1, PrevWhole
  <2> QED BY <2>1, <2>2, ThreadFacts
<1>2. PICK k \in 1 .. n : L[k] = d
  BY <1>1, PlaceOfCore
<1>3. \A i \in 0 .. n + 1 : L[i] \in Node /\ (L[i] = Head <=> i \in {0, n + 1})
  BY <1>1, PlaceOfHead
<1>4. next[d] = L[k + 1] /\ prev[d] = L[k - 1] /\ d # Head
  <2>1. k \in 0 .. n /\ k \in 1 .. n + 1 /\ k \notin {0, n + 1} /\ k \in 0 .. n + 1
    OBVIOUS
  <2> QED BY <1>1, <1>2, <1>3, <2>1 DEF NextIs
<1>5. \A i \in 1 .. n + 1 : i # k + 1 => L[i] # L[k + 1]
  <2> SUFFICES ASSUME NEW i \in 1 .. n + 1, L[i] = L[k + 1], i # k + 1  PROVE FALSE
    OBVIOUS
  <2>1. CASE k = n
    BY <1>3, <2>1
  <2>2. CASE k # n /\ i = n + 1
    BY <1>3, <2>2
  <2>3. CASE k # n /\ i # n + 1
    <3>1. i \in 1 .. n /\ k + 1 \in 1 .. n
      BY <2>3
    <3> QED BY <1>1, <3>1 DEF Nodes
  <2> QED BY <2>1, <2>2, <2>3
<1>6. /\ prev' = [prev EXCEPT ![L[k + 1]] = L[k - 1]] /\ ~crash'
      /\ thread'[t].pc = "unlink" /\ Mine(t)' = d
      /\ UNCHANGED <<next, mem, callVars>>
  <2>1. L[k + 1] \in Node
    BY <1>3
  <2> QED BY <1>4, <2>1, ZenonT(40) DEF DelFromNext, Store, Faulty, Goto, Mine, devVars, RegistryTyped
<1>7. /\ prev'[L[k + 1]] = L[k - 1]
      /\ \A i \in 1 .. n + 1 : i # k + 1 => prev'[L[i]] = L[i - 1]
  BY <1>1, <1>3, <1>5, <1>6 DEF RegistryTyped
<1>8. NextIs(n, L)'
  BY <1>1, <1>6 DEF NextIs
<1>9. PrevIs(n, L)'
  <2> SUFFICES ASSUME NEW i \in 1 .. n + 1  PROVE prev'[L[i]] = L[i - 1] \/ L[i - 1] = d
    BY <1>6 DEF PrevIs, At
  <2> QED BY <1>2, <1>7
<1>10. Linked' = Linked
  BY <1>1, <1>6 DEF Linked
<1>11. ThreadAt(t, n, L)'
  <2>1. \A j \in 1 .. n : L[j] = d => j = k
    BY <1>1, <1>2 DEF Nodes
  <2> QED BY <1>1, <1>4, <1>6, <1>7, <2>1 DEF ThreadAt, At, Adding, Deleting, callVars
<1> QED BY <1>6, <1>8, <1>9, <1>10, <1>11, SameNodes

\* With the last store of list_add_tail the core is the last one of the list; those
\* who walk along it are where they were.
LEMMA LinkStep ==
  ASSUME RegistryAssumption, Orderly, RegistryTyped, ~crash,
         NEW n \in Nat, NEW L \in [0 .. n + 1 -> Node], ListIs(n, L),
         NEW t \in Thread, Link(t)
  PROVE  (\E m \in Nat : \E M \in [0 .. m + 1 -> Node] : ListIs(m, M)') /\ ~crash'
<1> DEFINE d == Mine(t)
<1>1. /\ \A u \in Thread : u = t
      /\ Nodes(n, L) /\ NextIs(n, L) /\ PrevIs(n, L) /\ ThreadAt(t, n, L)
      /\ thread[t].pc = "link" /\ d \in Node
      /\ d # Head /\ d \notin Linked /\ \A i \in 0 .. n + 1 : L[i] # d
  <2>1. thread[t].pc = "link"
    BY DEF Link, At
  <2>2. d # Head
    BY <2>1, ThreadFacts
  <2>3. d \notin Linked
    BY <2>1, ThreadFacts
  <2>4. \A i \in 0 .. n + 1 : L[i] # d
    BY <2>2, <2>3, OffTheList DEF ListIs
  <2> QED BY <2>1, <2>2, <2>3, <2>4, ThreadFacts DEF ListIs
<1>2. /\ d \in Dev /\ mem[d] /\ thread[t].tail = L[n]
      /\ next[d] = Head /\ prev[d] = L[n] /\ prev[Head] = d
  BY <1>1 DEF ThreadAt, At, Adding, Node
<1>3. \A i \in 0 .. n + 1 : L[i] \in Node /\ (L[i] = Head <=> i \in {0, n + 1})
  BY <1>1, PlaceOfHead
<1>4. /\ next' = [next EXCEPT ![L[n]] = d] /\ ~crash'
      /\ thread'[t].pc = "ops" /\ Mine(t)' = d
      /\ UNCHANGED <<prev, mem, callVars>>
  <2>1. L[n] \in Node
    <3>1. n \in 0 .. n + 1
      OBVIOUS
    <3> QED BY <1>3, <3>1
  <2>2. thread'[t].pc = "ops" /\ Mine(t)' = d
    BY DEF Link, Goto, Mine, RegistryTyped
  <2>3. next' = [next EXCEPT ![L[n]] = d] /\ ~crash'
    BY <1>2, <2>1 DEF Link, Store, Faulty
  <2>4. UNCHANGED <<prev, mem, callVars>>
    BY DEF Link, devVars
  <2> QED BY <2>2, <2>3, <2>4
<1>5. PICK m \in Nat : m = n + 1
  OBVIOUS
<1>6. PICK M \in [0 .. m + 1 -> Node] :
         M = [i \in 0 .. m + 1 |-> IF i \in 0 .. n THEN L[i] ELSE IF i = m THEN d ELSE Head]
  <2>1. Head \in Node
    BY DEF Node
  <2>2. \A i \in 0 .. n : L[i] \in Node
    OBVIOUS
  <2> QED BY <1>1, <1>5, <2>1, <2>2
<1>7. /\ \A i \in 0 .. n : M[i] = L[i]
      /\ M[m] = d /\ M[m + 1] = Head
  BY <1>5, <1>6
<1>8. \A x \in Dev : x \in Linked' <=> x \in Linked \/ x = d
  BY <1>1, <1>2, <1>4 DEF Linked
<1>9. \A x \in Dev : On(m, M, x) <=> On(n, L, x) \/ x = d
  <2> SUFFICES ASSUME NEW x \in Dev  PROVE On(m, M, x) <=> On(n, L, x) \/ x = d
    OBVIOUS
  <2>1. ASSUME NEW i \in 1 .. m, M[i] = x  PROVE On(n, L, x) \/ x = d
    <3>1. i = m \/ i \in 1 .. n
      BY <1>5
    <3> QED BY <1>7, <2>1, <3>1 DEF On
  <2>2. ASSUME NEW i \in 1 .. n, L[i] = x  PROVE On(m, M, x)
    <3>1. i \in 1 .. m /\ i \in 0 .. n
      BY <1>5
    <3> QED BY <1>7, <2>2, <3>1 DEF On
  <2>3. m \in 1 .. m
    BY <1>5
  <2> QED BY <1>7, <2>1, <2>2, <2>3 DEF On
<1>10. Nodes(m, M)'
  <2>1. M[0] = Head /\ M[m + 1] = Head
    BY <1>1, <1>7 DEF Nodes
  <2>2. \A i \in 1 .. m : M[i] \in Dev
    <3>1. \A i \in 1 .. m : i = m \/ (i \in 1 .. n /\ i \in 0 .. n)
      BY <1>5
    <3> QED BY <1>1, <1>2, <1>7, <3>1 DEF Nodes
  <2>3. ASSUME NEW i \in 1 .. m, NEW j \in 1 .. m, M[i] = M[j]  PROVE i = j
    <3>1. \A l \in 1 .. m : l = m \/ (l \in 1 .. n /\ l \in 0 .. n)
      BY <1>5
    <3>2. CASE i = m
      <4>1. M[j] = d
        BY <1>7, <2>3, <3>2
      <4> QED BY <1>1, <1>7, <3>1, <3>2, <4>1, SMTT(40)
    <3>3. CASE j = m
      <4>1. M[i] = d
        BY <1>7, <2>3, <3>3
      <4> QED BY <1>1, <1>7, <3>1, <3>3, <4>1, SMTT(40)
    <3>4. CASE i # m /\ j # m
      BY <1>1, <1>7, <2>3, <3>1, <3>4 DEF Nodes
    <3> QED BY <3>2, <3>3, <3>4
  <2>4. \A x \in Dev : On(m, M, x) <=> x \in Linked'
    BY <1>1, <1>8, <1>9 DEF Nodes
  <2> QED BY <2>1, <2>2, <2>3, <2>4 DEF Nodes, On
<1>11. NextIs(m, M)'
  <2> SUFFICES ASSUME NEW i \in 0 .. m  PROVE next'[M[i]] = M[i + 1]
    BY DEF NextIs
  <2>1. L[n] \in Node /\ L[n] # d
    <3>1. n \in 0 .. n + 1
      OBVIOUS
    <3> QED BY <1>1, <1>3, <3>1
  <2>2. CASE i \in 0 .. n - 1
    <3>1. i \in 0 .. n /\ i + 1 \in 0 .. n /\ i + 1 \in 1 .. n
      BY <2>2
    <3>2. L[i] # L[n] /\ L[i] \in Node
      <4>1. CASE i = 0
        <5>1. n \in 0 .. n + 1 /\ n \notin {0, n + 1} /\ 0 \in 0 .. n + 1
          BY <2>2
        <5> QED BY <1>3, <4>1, <5>1
      <4>2. CASE i # 0
        <5>1. i \in 1 .. n /\ n \in 1 .. n /\ i # n
          BY <2>2, <4>2
        <5> QED BY <1>1, <1>3, <5>1 DEF Nodes
      <4> QED BY <4>1, <4>2
    <3>3. next'[L[i]] = next[L[i]]
      BY <1>4, <2>1, <3>2 DEF RegistryTyped
    <3> QED BY <1>1, <1>7, <3>1, <3>3 DEF NextIs
  <2>3. CASE i = n
    <3>1. next'[L[n]] = d
      BY <1>4, <2>1 DEF RegistryTyped
    <3> QED BY <1>5, <1>7, <2>3, <3>1
  <2>4. CASE i = m
    <3>1. next'[d] = Head
      BY <1>1, <1>2, <1>4, <2>1 DEF RegistryTyped
    <3> QED BY <1>7, <2>4, <3>1
  <2> QED BY <1>5, <2>2, <2>3, <2>4
<1>12. PrevIs(m, M)'
  <2> SUFFICES ASSUME NEW i \in 1 .. m + 1  PROVE prev[M[i]] = M[i - 1]
    BY <1>4 DEF PrevIs
  <2>1. CASE i \in 1 .. n
    <3>1. i \in 0 .. n /\ i - 1 \in 0 .. n /\ i # n + 1 /\ i \in 1 .. n + 1
      BY <2>1
    <3>2. prev[L[i]] = L[i - 1]
      <4>1. ~At(t, "unlink")
        BY <1>1 DEF At
      <4> QED BY <1>1, <3>1, <4>1 DEF PrevIs
    <3> QED BY <1>7, <3>1, <3>2
  <2>2. CASE i = m
    <3>1. i - 1 = n
      BY <1>5, <2>2
    <3> QED BY <1>2, <1>7, <2>2, <3>1
  <2>3. CASE i = m + 1
    <3>1. i - 1 = m
      BY <2>3
    <3> QED BY <1>2, <1>7, <2>3, <3>1
  <2> QED BY <1>5, <2>1, <2>2, <2>3
<1>13. ASSUME NEW u \in Thread  PROVE ThreadAt(u, m, M)'
  BY <1>1, <1>2, <1>4 DEF ThreadAt, At, Adding, Deleting
<1>14. ASSUME NEW p \in Process  PROVE ProcessAt(p, m, M)'
  <2>1. ProcessAt(p, n, L) /\ UNCHANGED <<pc, cur, want, there>>
    BY <1>4 DEF ListIs, callVars
  <2>2. CASE pc[p] = "walk"
    <3>1. PICK i \in 1 .. n + 1 :
             /\ cur[p] = L[i]
             /\ \A x \in there[p] : IdOf[x] = want[p] => \E j \in i .. n : L[j] = x
      BY <2>1, <2>2 DEF ProcessAt
    <3>2. CASE i \in 1 .. n
      <4>1. /\ M[i] = cur[p] /\ i \in 1 .. m + 1
            /\ \A j \in i .. n : M[j] = L[j] /\ j \in i .. m
        <5>1. /\ i \in 0 .. n /\ i \in 1 .. m + 1
              /\ \A j \in i .. n : j \in 0 .. n /\ j \in i .. m
          BY <1>5, <3>2
        <5> QED BY <1>7, <3>1, <5>1
      <4>2. \A x \in there[p] : IdOf[x] = want[p] => \E j \in i .. m : M[j] = x
        BY <3>1, <4>1
      <4> QED BY <2>1, <2>2, <4>1, <4>2 DEF ProcessAt
    <3>3. CASE i = n + 1
      <4>1. \A x \in there[p] : IdOf[x] # want[p]
        BY <3>1, <3>3
      <4>2. cur[p] = M[m + 1] /\ m + 1 \in 1 .. m + 1
        BY <1>1, <1>7, <3>1, <3>3 DEF Nodes
      <4> QED BY <2>1, <2>2, <4>1, <4>2 DEF ProcessAt
    <3> QED BY <3>2, <3>3
  <2>3. CASE pc[p] # "walk"
    <3>1. pc[p] \in {"found", "call"} => cur[p] \in Linked'
      BY <1>8, <2>1 DEF ProcessAt, Linked
    <3> QED BY <2>1, <2>3, <3>1 DEF ProcessAt
  <2> QED BY <2>2, <2>3
<1> QED BY <1>4, <1>10, <1>11, <1>12, <1>13, <1>14 DEF ListIs

\* Before its last but one store list_del has made prev skip the core, and with that
\* store next does; nobody walks along the list.
LEMMA UnlinkStep ==
  ASSUME RegistryAssumption, Orderly, RegistryTyped, ~crash,
         NEW n \in Nat, NEW L \in [0 .. n + 1 -> Node], ListIs(n, L),
         NEW t \in Thread, Unlink(t)
  PROVE  (\E m \in Nat : \E M \in [0 .. m + 1 -> Node] : ListIs(m, M)') /\ ~crash'
<1> DEFINE d == Mine(t)
<1>1. /\ \A u \in Thread : u = t
      /\ Nodes(n, L) /\ NextIs(n, L) /\ PrevIs(n, L) /\ ThreadAt(t, n, L)
      /\ thread[t].pc = "unlink" /\ d \in Linked /\ d # Head
  <2>1. thread[t].pc = "unlink"
    BY DEF Unlink, At
  <2>2. d \in Linked
    BY <2>1, ThreadFacts
  <2>3. d # Head
    BY <2>1, ThreadFacts
  <2> QED BY <2>1, <2>2, <2>3, ThreadFacts DEF ListIs
<1>2. PICK k \in 1 .. n : L[k] = d
  BY <1>1, PlaceOfCore
<1>3. \A i \in 0 .. n + 1 : L[i] \in Node /\ (L[i] = Head <=> i \in {0, n + 1})
  BY <1>1, PlaceOfHead
<1>4. \A i \in 1 .. n : L[i] = d => i = k
  BY <1>1, <1>2 DEF Nodes
<1>5. \A i \in 0 .. n + 1 : L[i] = d => i = k
  BY <1>1, <1>3, <1>4
<1>6. /\ \A i \in 1 .. n + 1 : i # k + 1 => prev[L[i]] = L[i - 1]
      /\ prev[L[k + 1]] = L[k - 1]
  <2>1. ASSUME NEW i \in 1 .. n + 1, i # k + 1  PROVE prev[L[i]] = L[i - 1]
    <3>1. L[i - 1] # d
      <4>1. i - 1 \in 0 .. n + 1 /\ i - 1 # k
        BY <2>1
      <4> QED BY <1>5, <4>1
    <3>2. ~Adding(t)
      BY <1>1 DEF Adding
    <3> QED BY <1>1, <3>1, <3>2 DEF PrevIs
  <2>2. prev[L[k + 1]] = L[k - 1]
    BY <1>1, <1>2 DEF ThreadAt, At
  <2> QED BY <2>1, <2>2
<1>7. next[d] = L[k + 1] /\ prev[d] = L[k - 1] /\ L[k - 1] \in Node /\ L[k - 1] # d
  <2>1. /\ k \in 0 .. n /\ k \in 1 .. n + 1 /\ k # k + 1
        /\ k - 1 \in 0 .. n + 1 /\ k - 1 # k
    OBVIOUS
  <2> QED BY <1>1, <1>2, <1>3, <1>5, <1>6, <2>1 DEF NextIs
<1>8. /\ next' = [next EXCEPT ![L[k - 1]] = L[k + 1]] /\ ~crash'
      /\ thread'[t].pc = "poison" /\ Mine(t)' = d
      /\ UNCHANGED <<prev, mem, pc, want, cur>>
  <2>1. thread'[t].pc = "poison" /\ Mine(t)' = d
    BY DEF Unlink, Goto, Mine, RegistryTyped
  <2>2. next' = [next EXCEPT ![L[k - 1]] = L[k + 1]] /\ ~crash'
    BY <1>7 DEF Unlink, Store, Faulty
  <2>3. UNCHANGED <<prev, mem, pc, want, cur>>
    BY DEF Unlink, devVars
  <2> QED BY <2>1, <2>2, <2>3
<1>9. \A p \in Process : Outside(p)' /\ there'[p] = {}
  <2>1. \A p \in Process : Outside(p)
    BY <1>1 DEF ThreadAt, Deleting
  <2>2. \A p \in Process : there[p] = {}
    BY <2>1 DEF ListIs, ProcessAt
  <2> QED BY <1>8, <2>1, <2>2 DEF Unlink
<1>10. PICK m \in Nat : n = m + 1
  <2>1. n - 1 \in Nat /\ n = (n - 1) + 1
    OBVIOUS
  <2> QED BY <2>1
<1>11. PICK M \in [0 .. m + 1 -> Node] :
          M = [i \in 0 .. m + 1 |-> IF i < k THEN L[i] ELSE L[i + 1]]
  <2>1. \A i \in 0 .. m + 1 : i \in 0 .. n + 1 /\ i + 1 \in 0 .. n + 1
    BY <1>10
  <2>2. \A i \in 0 .. m + 1 : (IF i < k THEN L[i] ELSE L[i + 1]) \in Node
    BY <1>3, <2>1
  <2> QED BY <2>2
<1>12. /\ \A i \in 0 .. k - 1 : M[i] = L[i]
       /\ \A i \in k .. m + 1 : M[i] = L[i + 1]
  <2>1. /\ \A i \in 0 .. k - 1 : i \in 0 .. m + 1 /\ i < k
        /\ \A i \in k .. m + 1 : i \in 0 .. m + 1 /\ ~(i < k)
    BY <1>10
  <2> QED BY <1>11, <2>1
<1>13. \A x \in Dev : x \in Linked' <=> x \in Linked /\ x # d
  BY <1>1, <1>8 DEF Linked
<1>14. \A x \in Dev : On(m, M, x) <=> On(n, L, x) /\ x # d
  <2> SUFFICES ASSUME NEW x \in Dev  PROVE On(m, M, x) <=> On(n, L, x) /\ x # d
    OBVIOUS
  <2>1. ASSUME NEW i \in 1 .. m, M[i] = x  PROVE On(n, L, x) /\ x # d
    <3>1. CASE i < k
      <4>1. i \in 1 .. n /\ i \in 0 .. k - 1 /\ i # k
        BY <1>10, <3>1
      <4> QED BY <1>4, <1>12, <2>1, <4>1 DEF On
    <3>2. CASE ~(i < k)
      <4>1. i + 1 \in 1 .. n /\ i \in k .. m + 1 /\ i + 1 # k
        BY <1>10, <3>2
      <4> QED BY <1>4, <1>12, <2>1, <4>1 DEF On
    <3> QED BY <3>1, <3>2
  <2>2. ASSUME NEW i \in 1 .. n, L[i] = x, x # d  PROVE On(m, M, x)
    <3>1. i # k
      BY <1>2, <2>2
    <3>2. CASE i < k
      <4>1. i \in 1 .. m /\ i \in 0 .. k - 1
        BY <1>10, <3>2
      <4> QED BY <1>12, <2>2, <4>1 DEF On
    <3>3. CASE i > k
      <4>1. i - 1 \in 1 .. m /\ i - 1 \in k .. m + 1 /\ (i - 1) + 1 = i
        BY <1>10, <3>3
      <4> QED BY <1>12, <2>2, <4>1 DEF On
    <3> QED BY <3>1, <3>2, <3>3
  <2> QED BY <2>1, <2>2 DEF On
<1>15. Nodes(m, M)'
  <2>1. M[0] = Head /\ M[m + 1] = Head
    <3>1. 0 \in 0 .. k - 1 /\ m + 1 \in k .. m + 1 /\ (m + 1) + 1 = n + 1
      BY <1>10
    <3> QED BY <1>1, <1>12, <3>1 DEF Nodes
  <2>2. ASSUME NEW i \in 1 .. m  PROVE M[i] \in Dev
    <3>1. CASE i < k
      <4>1. i \in 1 .. n /\ i \in 0 .. k - 1
        BY <1>10, <3>1
      <4> QED BY <1>1, <1>12, <4>1 DEF Nodes
    <3>2. CASE ~(i < k)
      <4>1. i + 1 \in 1 .. n /\ i \in k .. m + 1
        BY <1>10, <3>2
      <4> QED BY <1>1, <1>12, <4>1 DEF Nodes
    <3> QED BY <3>1, <3>2
  <2>3. ASSUME NEW i \in 1 .. m, NEW j \in 1 .. m, M[i] = M[j]  PROVE i = j
    <3> DEFINE at(x) == IF x < k THEN x ELSE x + 1
    <3>1. ASSUME NEW x \in 1 .. m  PROVE at(x) \in 1 .. n /\ M[x] = L[at(x)]
      <4>1. CASE x < k
        <5>1. x \in 1 .. n /\ x \in 0 .. k - 1
          BY <1>10, <4>1
        <5> QED BY <1>12, <4>1, <5>1
      <4>2. CASE ~(x < k)
        <5>1. x + 1 \in 1 .. n /\ x \in k .. m + 1
          BY <1>10, <4>2
        <5> QED BY <1>12, <4>2, <5>1
      <4> QED BY <4>1, <4>2
    <3>2. at(i) = at(j)
      <4>1. at(i) \in 1 .. n /\ at(j) \in 1 .. n /\ L[at(i)] = L[at(j)]
        BY <2>3, <3>1
      <4>2. \A x, y \in 1 .. n : L[x] = L[y] => x = y
        BY <1>1 DEF Nodes
      <4> HIDE DEF at
      <4> QED BY <4>1, <4>2
    <3> QED BY <3>2
  <2>4. \A x \in Dev : On(m, M, x) <=> x \in Linked'
    BY <1>1, <1>13, <1>14 DEF Nodes
  <2> QED BY <2>1, <2>2, <2>3, <2>4 DEF Nodes, On
<1>16. NextIs(m, M)'
  <2> SUFFICES ASSUME NEW i \in 0 .. m  PROVE next'[M[i]] = M[i + 1]
    BY DEF NextIs
  <2>1. ASSUME NEW j \in 0 .. n, j # k - 1  PROVE next'[L[j]] = L[j + 1]
    <3>1. j \in 0 .. n + 1 /\ k - 1 \in 0 .. n + 1 /\ j # n + 1 /\ k - 1 # n + 1
      OBVIOUS
    <3>2. L[j] # L[k - 1] /\ L[j] \in Node
      <4>1. CASE j = 0 \/ k - 1 = 0
        BY <1>3, <2>1, <3>1, <4>1
      <4>2. CASE j # 0 /\ k - 1 # 0
        <5>1. j \in 1 .. n /\ k - 1 \in 1 .. n
          BY <4>2
        <5> QED BY <1>1, <1>3, <2>1, <3>1, <5>1 DEF Nodes
      <4> QED BY <4>1, <4>2
    <3> QED BY <1>1, <1>7, <1>8, <3>2 DEF NextIs, RegistryTyped
  <2>2. next'[L[k - 1]] = L[k + 1]
    BY <1>7, <1>8 DEF RegistryTyped
  <2>3. CASE i < k - 1
    <3>1. i \in 0 .. n /\ i \in 0 .. k - 1 /\ i + 1 \in 0 .. k - 1
      BY <1>10, <2>3
    <3> QED BY <1>12, <2>1, <2>3, <3>1
  <2>4. CASE i = k - 1
    <3>1. i \in 0 .. k - 1 /\ i + 1 \in k .. m + 1 /\ (i + 1) + 1 = k + 1
      BY <1>10, <2>4
    <3> QED BY <1>12, <2>2, <2>4, <3>1
  <2>5. CASE i > k - 1
    <3>1. i + 1 \in 0 .. n /\ i + 1 # k - 1 /\ i \in k .. m + 1 /\ i + 1 \in k .. m + 1
      BY <1>10, <2>5
    <3> QED BY <1>12, <2>1, <3>1
  <2> QED BY <2>3, <2>4, <2>5
<1>17. PrevIs(m, M)'
  <2> SUFFICES ASSUME NEW i \in 1 .. m + 1  PROVE prev[M[i]] = M[i - 1]
    BY <1>8 DEF PrevIs
  <2>1. CASE i < k
    <3>1. i \in 1 .. n + 1 /\ i # k + 1 /\ i \in 0 .. k - 1 /\ i - 1 \in 0 .. k - 1
      BY <1>10, <2>1
    <3> QED BY <1>6, <1>12, <3>1
  <2>2. CASE i = k
    <3>1. i \in k .. m + 1 /\ i - 1 \in 0 .. k - 1
      BY <1>10, <2>2
    <3> QED BY <1>6, <1>12, <2>2, <3>1
  <2>3. CASE i > k
    <3>1. /\ i + 1 \in 1 .. n + 1 /\ i + 1 # k + 1 /\ (i + 1) - 1 = i
          /\ i \in k .. m + 1 /\ i - 1 \in k .. m + 1 /\ (i - 1) + 1 = i
      BY <1>10, <2>3
    <3>2. prev[L[i + 1]] = L[i]
      BY <1>6, <3>1
    <3> QED BY <1>12, <3>1, <3>2
  <2> QED BY <2>1, <2>2, <2>3
<1>18. ASSUME NEW u \in Thread  PROVE ThreadAt(u, m, M)'
  BY <1>1, <1>8, <1>9 DEF ThreadAt, At, Adding, Deleting
<1>19. ASSUME NEW p \in Process  PROVE ProcessAt(p, m, M)'
  BY <1>9 DEF ProcessAt
<1> QED BY <1>8, <1>15, <1>16, <1>17, <1>18, <1>19 DEF ListIs
-----------------------------------------------------------------------------
(* The theorems *)

\* Nobody uses the registry before its list is there.
LEMMA UnlistedStep ==
  ASSUME RegistryAssumption, Orderly, RegistryTyped, ~crash, init # "done", Unlisted, Next
  PROVE  /\ ~crash'
         /\ init' # "done" => Unlisted'
         /\ init' = "done" => Listed'
<1>1. \A t \in Thread : ~Binding(t)
  <2> SUFFICES ASSUME NEW t \in Thread, Binding(t)  PROVE FALSE
    OBVIOUS
  <2>1. thread[t].pc = "idle" /\ \A d \in Dev : ~bound[d]
    BY DEF Unlisted, IdleThread, RegistryTyped
  <2>2. init \notin {"done", "failed"} /\ "early_probe" \notin Races
    BY DEF RegistryTyped, Orderly
  <2>3. ASSUME NEW d \in Dev, Register(t, d) \/ Remove(t, d)  PROVE FALSE
    BY <2>1, <2>2, <2>3 DEF Register, Remove
  <2>4. CASE \/ ReadTail(t) \/ StoreTail(t) \/ StoreNewNext(t) \/ StoreNewPrev(t) \/ Link(t)
             \/ SetOps(t) \/ DelFromNext(t) \/ Unlink(t) \/ PoisonLinks(t) \/ Free(t)
    BY <2>1, <2>4 DEF ReadTail, StoreTail, StoreNewNext, StoreNewPrev, Link, SetOps,
       DelFromNext, Unlink, PoisonLinks, Free, At
  <2> QED BY <2>3, <2>4 DEF Binding
<1>2. \A p \in Process : ~Ioctl(p) /\ ~IoctlStep(p)
  BY DEF Ioctl, IoctlStep, NotFound, Walk, CheckOp, CallOp, Unlisted, Orderly
<1>3. CASE InitDevice \/ AddCdev
  <2>1. init' # "done" /\ UNCHANGED <<mem, thread, pc, there, crash>>
    BY <1>3 DEF InitDevice, AddCdev, devVars, callVars, Orderly
  <2> QED BY <2>1 DEF Unlisted
<1>4. CASE PlipInit
  <2>1. /\ init' = "done" /\ UNCHANGED <<mem, thread, pc, there, crash>>
        /\ next'[Head] = Head /\ prev'[Head] = Head
    BY <1>4 DEF PlipInit, devVars, callVars, RegistryTyped, Node
  <2>2. PICK n \in Nat : n = 0
    OBVIOUS
  <2>3. PICK L \in [0 .. n + 1 -> Node] : \A i \in 0 .. n + 1 : L[i] = Head
    <3>1. [i \in 0 .. n + 1 |-> Head] \in [0 .. n + 1 -> Node]
      BY DEF Node
    <3> QED BY <3>1
  <2>4. Linked' = {}
    BY <2>1 DEF Unlisted, Linked
  <2>5. Nodes(n, L)'
    BY <2>2, <2>3, <2>4 DEF Nodes, On
  <2>6. NextIs(n, L)' /\ PrevIs(n, L)'
    BY <2>1, <2>2, <2>3 DEF NextIs, PrevIs
  <2>7. \A t \in Thread : ThreadAt(t, n, L)'
    BY <2>1 DEF ThreadAt, Unlisted, IdleThread, Mine, At, Adding, Deleting
  <2>8. \A p \in Process : ProcessAt(p, n, L)'
    BY <2>1 DEF ProcessAt, Unlisted
  <2>9. Listed'
    BY <2>5, <2>6, <2>7, <2>8 DEF Listed
  <2> QED BY <2>1, <2>9
<1> QED BY <1>1, <1>2, <1>3, <1>4 DEF Next

LEMMA RegistryStep ==
  ASSUME Orderly, RegistryInv, [Next]_vars  PROVE RegistryInv'
<1>1. RegistryTyped /\ RegistryTyped' /\ ~crash
  BY RegistryAssumption, TypedStep DEF RegistryInv
<1>2. CASE UNCHANGED vars
  <2>1. UNCHANGED <<init, next, prev, mem, thread, pc, want, cur, there, crash>>
    BY <1>2 DEF vars, listVars, devVars, callVars
  <2>2. Unlisted' <=> Unlisted
    BY <2>1 DEF Unlisted
  <2>3. Listed' <=> Listed
    <3>1. Linked' = Linked
      BY <2>1 DEF Linked, Mine
    <3> QED BY <2>1, <3>1 DEF Listed, Nodes, On, NextIs, PrevIs, ThreadAt, ProcessAt, Adding,
               Deleting, At, Mine
  <2> QED BY <1>1, <2>1, <2>2, <2>3 DEF RegistryInv
<1>3. CASE Next /\ init # "done"
  BY <1>1, <1>3, RegistryAssumption, UnlistedStep DEF RegistryInv
<1>4. CASE Next /\ init = "done"
  <2>1. PICK n \in Nat : \E L \in [0 .. n + 1 -> Node] : ListIs(n, L)
    BY <1>4, ListedIs DEF RegistryInv
  <2>2. PICK L \in [0 .. n + 1 -> Node] : ListIs(n, L)
    BY <2>1
  <2>3. ASSUME NEW t \in Thread, Binding(t)
        PROVE  (\E m \in Nat : \E M \in [0 .. m + 1 -> Node] : ListIs(m, M)') /\ ~crash'
               /\ init' = init
    <3>1. init' = init
      BY <2>3 DEF Binding, Register, Remove, ReadTail, StoreTail, StoreNewNext, StoreNewPrev,
         Link, SetOps, DelFromNext, Unlink, PoisonLinks, Free
    <3>2. CASE Link(t)
      BY <1>1, <2>2, <3>1, <3>2, RegistryAssumption, LinkStep
    <3>3. CASE Unlink(t)
      BY <1>1, <2>2, <3>1, <3>3, RegistryAssumption, UnlinkStep
    <3>4. CASE ~Link(t) /\ ~Unlink(t)
      <4>1. ListIs(n, L)' /\ ~crash'
        BY <1>1, <2>2, <2>3, <3>4, RegistryAssumption, RegisterStep, AddStep, KeepStep, DelStep
           DEF Binding
      <4> QED BY <3>1, <4>1
    <3> QED BY <3>2, <3>3, <3>4
  <2>4. ASSUME NEW p \in Process, Ioctl(p) \/ IoctlStep(p)
        PROVE  ListIs(n, L)' /\ ~crash' /\ init' = init
    <3>1. init' = init
      BY <2>4 DEF Ioctl, IoctlStep, NotFound, Walk, CheckOp, CallOp
    <3> QED BY <1>1, <2>2, <2>4, <3>1, RegistryAssumption, ProcessStep
  <2>5. (\E m \in Nat : \E M \in [0 .. m + 1 -> Node] : ListIs(m, M)') /\ ~crash' /\ init' = init
    <3>1. ~InitDevice /\ ~AddCdev /\ ~PlipInit
      BY <1>4 DEF InitDevice, AddCdev, PlipInit
    <3> QED BY <1>4, <2>3, <2>4, <3>1 DEF Next
  <2>6. Listed'
    BY <2>5 DEF Listed, ListIs
  <2> QED BY <1>1, <1>4, <2>5, <2>6 DEF RegistryInv
<1> QED BY <1>2, <1>3, <1>4

LEMMA RegistryInvariance == ASSUME Orderly PROVE Spec => []RegistryInv
<1>1. Init => RegistryInv
  <2> SUFFICES ASSUME Init  PROVE RegistryInv
    OBVIOUS
  <2>1. RegistryTyped
    BY DEF Init, RegistryTyped, Pointer, Node, IdleThread
  <2>2. Unlisted
    BY DEF Init, Unlisted
  <2> QED BY <2>1, <2>2 DEF Init, RegistryInv
<1>2. RegistryInv /\ [Next]_vars => RegistryInv'
  BY RegistryStep
<1> QED BY <1>1, <1>2, PTL DEF Spec

\* While one thread binds cores, and unbinds them when nobody is in the ioctl, a
\* process that walks along the list finds a device or the head behind every pointer, at
\* each of the stores of list_add_tail and list_del, whatever mappings are missing and
\* whatever addresses it gives (plIpcore.c:51-104, plIpcore_dev.c:38-99).
THEOREM WalksAreSafe == ASSUME Orderly PROVE Spec => []NoFault
<1>1. RegistryInv => NoFault
  <2> SUFFICES ASSUME RegistryInv, NEW p \in Process, ~Outside(p)
               PROVE  Usable(cur[p]) \/ (pc[p] = "walk" /\ cur[p] = Head)
    BY DEF RegistryInv, NoFault
  <2>1. Listed
    BY DEF RegistryInv, Unlisted
  <2>2. PICK n \in Nat : \E L \in [0 .. n + 1 -> Node] : ListIs(n, L)
    BY <2>1, ListedIs
  <2>3. PICK L \in [0 .. n + 1 -> Node] : ListIs(n, L)
    BY <2>2
  <2>4. Nodes(n, L) /\ ProcessAt(p, n, L)
    BY <2>3 DEF ListIs
  <2>5. CASE pc[p] = "walk"
    <3>1. PICK i \in 1 .. n + 1 : cur[p] = L[i]
      BY <2>4, <2>5 DEF ProcessAt
    <3>2. i \in 1 .. n => L[i] \in Linked
      BY <2>4, PlaceOfCore
    <3>3. i = n + 1 => L[i] = Head
      BY <2>4 DEF Nodes
    <3> QED BY <2>5, <3>1, <3>2, <3>3 DEF Usable, Linked
  <2>6. CASE pc[p] # "walk"
    <3>1. pc[p] \in {"found", "call"}
      BY <2>6 DEF RegistryInv, RegistryTyped
    <3> QED BY <2>4, <3>1 DEF ProcessAt, Usable, Linked
  <2> QED BY <2>5, <2>6
<1> QED BY <1>1, RegistryInvariance, PTL

\* And it misses no core that has been on the list since it began to look.
THEOREM LookupFinds == ASSUME Orderly PROVE Spec => []FindsRegistered
<1>1. RegistryInv => FindsRegistered
  <2> SUFFICES ASSUME RegistryInv, NEW p \in Process, pc[p] = "walk", cur[p] = Head,
                      NEW d \in there[p]
               PROVE  IdOf[d] # want[p]
    BY DEF FindsRegistered
  <2>1. Listed
    BY DEF RegistryInv, Unlisted
  <2>2. PICK n \in Nat : \E L \in [0 .. n + 1 -> Node] : ListIs(n, L)
    BY <2>1, ListedIs
  <2>3. PICK L \in [0 .. n + 1 -> Node] : ListIs(n, L)
    BY <2>2
  <2>4. Nodes(n, L) /\ ProcessAt(p, n, L)
    BY <2>3 DEF ListIs
  <2>5. PICK i \in 1 .. n + 1 :
           /\ cur[p] = L[i]
           /\ \A x \in there[p] : IdOf[x] = want[p] => \E j \in i .. n : L[j] = x
    BY <2>4 DEF ProcessAt
  <2>6. i = n + 1
    <3>1. i \in 0 .. n + 1 /\ i # 0
      OBVIOUS
    <3> QED BY <2>4, <2>5, <3>1, PlaceOfHead, RegistryAssumption
  <2> QED BY <2>5, <2>6
<1> QED BY <1>1, RegistryInvariance, PTL
=============================================================================
