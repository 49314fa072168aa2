# Formal models of petalinuxDriver

The repository holds Linux drivers for a Zynq board: a driver of the Xilinx AXI DMA engine
(`vxdma`), clients of it (`vdmaproxy`, `vxdma/vxdma_dev.c`, `axidma`, `vxhls`), and two small
drivers of IP cores (`plIpcore`, `intrDemo`). This directory holds TLA+ models of all of them,
in most detail of the DMA channel and the clients that share it, the TLC configurations that
check them, and proofs that TLAPS checks.

1. [Inventory](#1-inventory)
2. [Modules and how they correspond to the code](#2-modules-and-how-they-correspond-to-the-code)
3. [Runs, bounds and what they show](#3-runs-bounds-and-what-they-show)
4. [Where the code departs from what one would expect](#4-where-the-code-departs-from-what-one-would-expect)
5. [Assumptions: the hardware, the kernel, fairness](#5-assumptions-the-hardware-the-kernel-fairness)
6. [Proofs](#6-proofs)
7. [What is not modelled, and the plan](#7-what-is-not-modelled-and-the-plan)

## 1. Inventory

### AXI DMA channel: `vxdma/vxdma.c`, `vxdma/vxdma.h`

*State.* `struct xilinx_dma_chan`: three lists of transaction descriptors (`pending_list`,
`active_list`, `done_list`), the pool of hardware descriptors ("segments") with
`free_seg_list`, the flags `idle`, `err`, `cyclic`, the count `desc_pendingcount`, the saved
control register `ctrl_reg`, one spinlock. In the hardware descriptors: `next_desc`, which
makes a ring of the pool and is patched when transactions are chained, and `status`. In the
engine: control, status, CURDESC and TAILDESC registers. A segment has an address, a control
word (23 bits of length, and the flags for start and end of a packet) and the status word the
engine writes.

*Operations.* `alloc_chan_resources`, `prep_slave_sg`, `prep_dma_cyclic`, `tx_submit` (with
`chan_reset` and `append_desc_queue`), `issue_pending`, `tx_status`, `terminate_all`,
`free_chan_resources`; the interrupt handler (complete the active list, start the pending
one) and the tasklet (callbacks, free). They run concurrently: threads of control of the
clients, the handler on either core, the tasklet, the engine itself.

*Hard behaviour.* A descriptor goes from owner to owner in three contexts, and the lock is dropped for every callback. One interrupt stands for a whole batch. A transaction
submitted while the engine is busy is started by nobody but the next interrupt. Several
operations read or write the channel without the lock: the error path of prepare, the checks
of `cyclic` and `err` and the reset in `tx_submit`, the head of `tx_status`, the halt in
`terminate_all`.

*Correct means.* No descriptor or segment is freed twice, used after it is freed, or lost;
the chain of hardware descriptors always leads the engine through the descriptors of the
active list and no others; nothing is completed that was not transferred; callbacks run once
each, in order; `idle` is true exactly when the engine may be started; what is submitted to a
busy channel is transferred in the end.

### Probe, remove and translation: `vxdma/vxdma.c`

*State.* The array `chan[2]` of the device, and of each channel what has been set up: memory,
lists, interrupt, membership in the list of the dmaengine core. *Operations.*
`xilinx_dma_probe` with `chan_probe` for each child of the node, the error path,
`xilinx_dma_remove`, `of_dma_xilinx_xlate`. *Hard behaviour.* The channels are numbered 1 and 2
in an array of two; each step can fail and one error path serves them all; interrupts, on a shared
line, are on before the channel is in the list; clients hold channels when the driver is
unbound, which nothing prevents. *Correct means.* A handler never outlives its channel, a channel
in use stays, no list is followed that was not made. (The first two are not so: section 4.)

### DMA proxy: `vdmaproxy/dma_proxy.c`

*State.* For each of two channels a static `struct dma_proxy_channel`: the shared buffer and
its status word, one `struct completion`, one cookie. *Operations.* `ioctl` runs `transfer`:
map, `start_transfer`, `wait_for_transfer` (with a timeout), unmap; the callback completes the
completion; `mmap` gives user space the buffer. `create_channel` (request, `cdevice_init` in
five steps, allocate) and `exit` for the two channels in turn. *Hard behaviour.* No lock: two
processes that open the device share everything; after a timeout the transfer goes on and its
callback is still to come; a device can be opened before its buffer is there; init can stop
half-way. *Correct means.* The status word is true of the transfer of the caller, the call
blocks until that transfer is complete, the buffer stays mapped while the engine uses it and
allocated while a process has it; what init did is undone once, by its error path or by exit.

### Loop-back tests: `vxdma/vxdma_dev.c`, `axidma/axidma.c`

The same functions twice, as an ioctl and in `module_init` (`axidma` is commented out in the
Makefile). *State.* Static pointers to the two channels, completions, cookies, handles.
*Operations.* Request both channels, allocate and map two buffers, submit both, start both,
wait for one, unmap, free, release. *Hard behaviour.* The steps have error returns half-way;
a second process overwrites the static pointers; the tasklet may run a callback after the
channel was released. *Correct means.* Channels and buffers are given back, buffers are mapped
while the engine uses them, one test at a time uses the static data.

### HLS accelerator: `vxhls/vxhls.c`, `vxhls/vxhls_dev.c`

*State.* The static pointer `st` to the registers; channels, completions and cookies as in the
loop-back test; in the hardware, the matrices the accelerator has taken. *Operations.* Probe;
the ioctl, which starts the accelerator, sends two matrices one after the other and receives
their product. *Hard behaviour.* The accelerator pairs what it gets: a test that stops between
the two inputs leaves one behind. A timeout is not an error of the test, which goes on with a
second transaction on the channel. *Correct means.* The
output is the product of the caller's inputs, the test ends and gives back channels, mappings
and buffers. Commented out in the Makefile.

### IP cores: `plIpcore/`

*State.* `plip_dev_list`, a `struct ipcore_device` for each core. *Operations.* `plipdev_init`;
`plIpcore_probe` allocates, maps and adds a core, `plIpcore_remove` takes it off and frees it;
the ioctl searches the list and calls `read` or `write` of what it finds. *Hard behaviour.* No
lock and no reference: the list is walked while it is changed. The register number comes from
user space and is not checked. *Correct means.* The walk meets devices only, finds what has been
there all the time, and ends; an access is to a register that is mapped.

### Interrupt demo: `intrDemo/intrDemo.c`

*State.* `pidOwner`, `current_task`; what probe has got for the device. *Operations.* Init,
probe with four labels of its error path, remove, the ioctl that registers a process, the
handler that looks the task up once, keeps it and sends it a signal. *Hard behaviour.* The
pointer is no reference, pids are used again, the ioctl is two stores between which the handler
may come, the first of which may fault. *Correct means.* The signal goes to the process that registered last, never to one
that is gone; a device that is unbound can be bound again.

### How they interact

The clients call the channel through the dmaengine core of the kernel (request, prepare,
submit, issue_pending, is_tx_complete, release); the channel calls them back from its tasklet.
The loop-back test, the accelerator test and the proxy share no data but the channel. The
platform bus binds and unbinds the engine driver while the proxy is loaded and unloaded.
`plIpcore` and `intrDemo` are independent of the rest.

## 2. Modules and how they correspond to the code

| module | models |
|---|---|
| `VxdmaChannel` | one channel with its clients, handler, tasklet and engine |
| `DmaEngineQueue` | abstract: what a channel promises its clients |
| `VxdmaRefinement` | the refinement mapping from `VxdmaChannel` to `DmaEngineQueue` |
| `VxdmaPrep` | addresses, lengths, flags and residue: what a transaction transfers |
| `VxdmaProbe` | probe, error path, remove and translation of the engine driver |
| `DmaProxy` | one proxy channel and its processes, on top of `DmaEngineQueue` |
| `DmaProxyInit` | init, error paths and exit of the proxy, on top of `VxdmaProbe` |
| `DmaLifecycle` | the composition of the two |
| `AxiDmaClient` | the loop-back test, with any number of processes |
| `VxhlsTest` | the accelerator test, with the accelerator |
| `PlIpcore` | the registry of IP cores |
| `IntrDemo` | the interrupt that becomes a signal |
| `MC...` | for TLC: symmetry sets, instances of the constants |
| `VxdmaChannelProofs`, `VxdmaPrepProofs`, `DmaLifecycleProofs`, `DmaProxyProofs`, `AxiDmaClientProofs`, `VxhlsTestProofs`, `PlIpcoreProofs`, `IntrDemoProofs` | theorems |

**`VxdmaChannel`.** The variables have the names of the fields; `chan` is the record of the
scalar ones. `desc[d].segs` is the list of segments of a descriptor, `bd[s]` the hardware
descriptor in segment `s`. A step is one critical section of `chan->lock`, or the code
between two of them: prepare takes the lock once for each segment (`PrepAlloc`), `tx_submit`
is the test of `cyclic`, the test of `err`, the reset, and the locked part, each a step. A
critical section that loops over a list is one step for each descriptor while `lock` names
its holder, so that code which does not take the lock runs in between. `pc`, `hand` and
`need` are the program counter and the locals of each thread. `StartTransfer(ch)` is
`xilinx_dma_start_transfer`: its early returns, the writes to the control register, CURDESC
and TAILDESC in their order, and the failure of `xilinx_dma_start`. `EngineTransfer` and
`EngineError` are the hardware; a hardware descriptor that is already completed, or clean,
stops the engine with an error, which is what makes stale chains visible.
A channel is requested and released as a whole by its last user; `Claimed` says so.

**`DmaEngineQueue`.** Four counters: submitted, started, completed, notified. A batch is
started when the previous one is complete, and takes everything that is submitted.
`VxdmaRefinement` maps them to `cookie`, `cookie - Len(pending_list)`, `completed_cookie` and
the cookie of the last callback.

**`DmaProxy`.** One step for each access to the shared fields: `transfer`, `start_transfer`
and `wait_for_transfer` are thirteen actions for each process. The completion is its count.
`mine` is what `start_transfer` returned to this call, `cookie` the shared field; the
properties are about the difference. Buffers are all the one buffer of the interface.

**`AxiDmaClient`.** Program points of `vxaxidma_test` and `axidma_test_transfer`, the static
variables, and for each channel the stage of its one transaction, with the process whose
buffer the engine uses (`engine`). A call through a NULL channel pointer ends the thread
("oops"). Releasing a channel drops its transaction and does not stop the engine, as in
`VxdmaChannel`; a tasklet that has taken a descriptor still calls back (`calling`).

**`VxdmaPrep`.** The nested loops of `prep_slave_sg` (entries, pieces of an entry) and of
`prep_dma_cyclic` (periods, pieces of a period) have the same body, so one set of steps does
both, with the periods as the list: `AddSegment` is one pass of the inner loop, `NextEntry` of
the outer one. Control and status words are numbers, with the flags at their places above the
length field, whose width is the constant `MaxTransLen + 1`; `MaxTransLen` is 0x7FFFFF in the
code. `TxStatus`, `AddResidue` and `TxStatusReturn` are `xilinx_dma_tx_status`, one step for
each segment it reads while `Engine` writes. For a cookie that is complete it returns before it
reads anything; for every other one it adds up the last descriptor of the active list, whichever
transaction the cookie is of. Of a segment the model also keeps where it was
cut from and what the engine has left, as history.

**`VxdmaProbe`, `DmaProxyInit`, `DmaLifecycle`.** One step for each call that can fail, in the
order of the code, with `driver` and `step` as program counters. The array has the entries 0
and 1 and is indexed with the id, so the second channel is stored over `has_sg`, which follows
it. `owner` is where the two modules meet: the client that the dmaengine core has given a
channel to. `Remove` asks nobody, as `xilinx_dma_remove`: the driver is unbound through sysfs,
whoever uses its channels. `DevmRelease` then frees the channels; a handler that is still
requested is `dangling`, and a pointer that a client keeps is `stale`. `Interrupt` may come at any
time and calls every handler on the shared line, and each use of a channel by a client looks
whether it is stale. `crash` names the first use of a pointer that is not set or of something
freed, and stops the model. The result 0 of a failing `cdevice_init`, and the class that it destroys, are as in the code.
Processes open, map and use the devices; the ioctl is a call and a return here, since
`DmaProxy` has its steps. Transfers in flight on a channel and its completion are counts: two
processes on one channel have two transfers, and the callback of one may wake the other.

**`VxhlsTest`.** As `AxiDmaClient`, with one transfer at a time: `cur` is the buffer the test
has come to, and the same steps serve `a`, `b` and `out`. Since a test goes on after a timeout, a
channel may have several transactions, and is modelled with its three lists and what the engine
has been started with; callbacks come late as they do in `VxdmaChannel`. The accelerator
(`started`, `taken`, `Moves`) is external: once AP_START is set, which probe does first, it takes
matrices while it has fewer than two, and gives their product when it has two. `Probe` chooses
its result, which the code never sets. `clean` and `timely` are history: whether a test has
stopped after its first input or a wait for an output has timed out, and whether any wait has.

**`PlIpcore`.** The list is `next` and `prev` of each `list_head`, and `list_add_tail` and
`list_del` are the single stores of the kernel's functions, so that a walk sees every state
between them. `Register` and `Remove` are probe and remove up to the list, `Walk` is one pass
of `list_for_each_entry`, `CheckOp` and `CallOp` use the pointer that was found. `CallOp` accesses
the word that user space asks for, of a mapping of `Words` words or of the error that
ioremap returned; an access to nothing kills the process.

**`IntrDemo`.** Probe and remove are one step for each call, and the labels `error3`, `error2`
and `error1` are values of `driver` that fall through to the next; `device` is the set of what was
got. `send_signal` is split where the handler reads what the ioctl writes:
`CheckOwner`, `CheckCached`, `Find`, `Keep`, `Send`. With `Cores = 1` the handler runs between
two steps of a process and not the other way round. A process exits, and another may start
with its pid. The ioctl stores any of the numbers `MayStore`, or, when the copy faults, leaves
zero in `pidOwner` and the task as it was.

Definitions under the comment "Bug variant" are mutations of the definition that follows them:
each property is also checked to fail when the variant takes the place of the definition.
They are not part of the specifications.

## 3. Runs, bounds and what they show

All twelve runs pass.

| run | instance | checks |
|---|---|---|
| `channel_sg` | one client, 6 segments, transactions of 1 or 2, 4 cookies, engine errors, failing starts | the chain in hardware memory |
| `two_clients` | two clients, 2 descriptors, 2 segments, transactions of 1 or 2, 4 cookies, no faults, fair handlers | ownership, flags, order, refinement, progress |
| `stop` | one client, slave and cyclic transactions, status, terminate, every fault | segments and the cyclic rules |
| `release` | one client without scatter-gather, release and request at any time | descriptors |
| `prep` | segments of at most 3 bytes, 6 segments, lists of 7 and of 4, 0 and 3 bytes, periods that fill their buffer and that do not, 2 transactions | what is transferred, and its residue |
| `lifecycle` | trees with one and with both channels, unbinding at any time, interrupts, failures whose error path works, 2 processes, 2 transfers for each channel | binding and loading in every order |
| `proxy_one` | one process, four transfers, timeouts, failing prepare and submit | the status reported |
| `client_one` | one process, fair, errors of memory and prepare, no timeouts; deadlock checked | release, mapping, termination |
| `client_two` | two processes, timeouts | exclusion |
| `hls` | one process, fair, every fault | the product, mapping, termination |
| `registry` | 3 cores of which two have the same id, failures of ioremap, one thread that binds, 2 processes, one register mapped and one not; deadlock checked | the walk |
| `intr` | 2 processes and a third with the pid of the first, one core, failures of init, probe and the ioctl | who gets the signal, and the labels |

*`channel_sg`.* `ChainsFollowLists`: `next_desc` leads through the pending and the active
descriptors in order. The code keeps the ring order of the pool and the order of the free list
the same, relying on descriptors being freed in the order they were allocated; six segments
and four transactions of up to two make the pool wrap round, so that segments are handed out
again with their old links. Three descriptors of up to two never need more than the six
segments; a pool that runs out loses the property (section 4). `EngineInActive`: the engine
only meets filled segments of active descriptors. `CompletedWasTransferred`: the coalesce count, which is the number of pending
descriptors, and the single interrupt for a batch never complete a descriptor too early.
`IrqNotLost`: the interrupt stays enabled across the reset of `tx_submit`.

*`two_clients`.* `TypeOK`, `DescOwnedOnce`, `SegConserved`: ownership of descriptors and
segments, with fewer segments than two transactions of two need, so that prepare fails
half-way. `IdleMeansDrained`: an idle channel has nothing active. `Pipeline`: the three lists
are consecutive runs of cookies. `ImplementsFairQueue`: the channel implements
`DmaEngineQueue` with its fairness; in particular callbacks run in order, none twice and none
left out. `Progress`: what is submitted to a busy channel is called back for although nobody
calls issue_pending again.

*`stop`.* `SegConserved` when `terminate_all` comes at any moment, including between the
tasklet's list_del and its free. `CyclicIsLast`, `CyclicKept`: nothing queues behind a cyclic
transaction of the one client, and the tasklet never frees it. 3.3 million states, about a minute.

*`release`.* `DescNotLost`: however the channel is released, with the engine still running, no
descriptor is left that nobody frees.

*`prep`.* `EveryByteOnce`: the bytes that the segments of a queued transaction cover are those
of its scatter list, in order, and the periods of a cyclic one run through the buffer.
`CutInOrder`: why, segment by segment. `LengthsFit`: a length is not zero, does not run into
the flags, and is what has been done and what is left. `ResidueBetween`: the residue that
`tx_status` adds up while the engine goes on, with packets that end early, lies between what
was left when it began and when it ended.

*`lifecycle`.* `HandlerHasChannel`: an interrupt handler that remove can find has a channel with
lists behind it. `ErrorPathUndone`, `ExitReleasesAll`: what a failed and a successful init of the
proxy leave. `BufferInUseIsAllocated`: for processes that mapped it and for the engine.
`OnlyStaleCrashes`: over every order of binding, unbinding, loading, unloading, interrupts and
use, the kernel crashes for two reasons only, and they are the two that section 4 shows: a client
whose channel was freed by unbinding, and the handler of the second channel. 475 thousand states.

*`hls`.* `OutputIsOfInputs`: the product that is read is of the test's own inputs, in order, however
many waits for inputs time out, until a test stops after its first input or the wait for an output
times out. A test whose wait has timed out is not stopped (`vxhls_dev.c:208`, `327`) and reads
what is in the buffer, so nothing can be said of it. `MappedWhileDma`: up to the same moment an
engine has no output buffer that is not mapped, and no input either if no wait has timed out. `TestEnds`,
always: by its timer, when the accelerator is stuck. 853 thousand states, a minute.

*`registry`.* `NoFault`, `FindsRegistered`, `IoctlReturns`: while cores are added store by
store, and between removals. `NoFault` is about the pointers of the list, not about the register
behind it, which the code does not check (`AccessIsMapped`, section 4). The last one does not
assume that the thread that adds goes on. 467 thousand states, a minute.

*`intr`.* `TaskIsOwner`, `TaskIsRunning`: the handler's pointer is of the process that
registered last, if there is one, and that process runs. `UnboundHasNothing`,
`LastGotFirstBack`: through the labels of probe and through remove, whichever call fails, what
was got is given back, the last first.

*`proxy_one`.* `ResultIsTrue`: `wait_for_transfer` reports PROXY_NO_ERROR only of one's own complete
transfer, even when the callback of a timed-out one woke the caller. (A call whose submission
fails returns before that, `dma_proxy.c:232-235`, and leaves the status of the call before.) `NoFalseTimeout`: a timeout means
the callback has not run.

*`client_one`, `client_two`.* `ChannelsReleased`, `TxMappedWhileDma`, `TestEnds` for one
process; `TransferExclusive` for two: however the static pointers are
overwritten, at most one process is between their check and the release.
`client_two` turns the deadlock check off since two threads may both die of a NULL pointer.

*Why the bounds are enough.* Every conflict of the channel is between two contexts over one
descriptor or two neighbours in a list. Two descriptors give a batch of two and a batch
behind a batch; three, with six segments, give a batch of two behind an active one and a
chain that wraps. `MaxCookie` bounds the transactions of one period between request and
release; the ones that are complete leave nothing behind except the order of the free list
and the old links, which four transactions over six segments exercise. `CoalesceMax` equals
`NumDescs`, as in the header (both are 255), so the limit is in reach. In `prep` a segment of
three bytes cuts the entry of seven twice, with a rest, the entry of four once, and leaves the
one of three whole; six segments run out in the second transaction. In `lifecycle` there are
two channels, as in the hardware, and two processes, one to use a device while the other closes
it. In `registry` three cores give a first, a middle and a last entry, two of the same id a
second match; one register is mapped and one is not. Two transfers for each channel of
`lifecycle` are one for each process. The runs of the channel and of the proxy say `CHECK_DEADLOCK FALSE` because a
bound on cookies or transfers ends the behaviour, `hls`, `lifecycle` and `intr` because the
system may really stop (a NULL pointer, a crash, an init that failed).

*Not in the runs.* Each module also states its `TypeOK`, and some state more than a run
checks: `BusyIsServed`, `PendingCountExact`, `CallbackInOrder`, `ReleasedIsEmpty`
(`VxdmaChannel`), `WaitsForTransfer` (`AxiDmaClient`), `SgAsInTree`, `ClassOutlivesDevices`
(`DmaLifecycle`), `ListSound` (`PlIpcore`), `NoCrash` (`IntrDemo`), `ChannelsReleased`
(`VxhlsTest`). They hold of the same instances, but for `NoCrash`, which needs an interrupt that
is got; some of them come back in the next section.

## 4. Where the code departs from what one would expect

The modules also state properties that the code does not have, or has only without certain
faults, callers or interleavings, which the runs leave out. TLC refutes each with the constants
below; the counterexample is the interleaving the last column names. They are not runs: each
takes a copy of a configuration with these constants and the one property.

*The channel.* `N` stands for `NumDescs` and `CoalesceMax`; clients call `prep_slave_sg` with
one segment unless said otherwise, `MaxCookie` is 2 unless said otherwise.

| property of `VxdmaChannel` | constants | what happens |
|---|---|---|
| `BusyIsServed` | 1 client, N = 2, `dma_error` | the reset clears `err` and not `idle`: the channel never starts again (`vxdma.c:648`, `774`) |
| `BusyIsServed` | 1 client, N = 1, `terminate_all` | terminate halts the engine, its interrupt never comes, `idle` stays false (`vxdma.c:1013`) |
| `EngineInActive` | 2 clients, N = 4, MaxSegs 2 | two prepare calls interleave; the ring then leads the engine out of the transaction (`vxdma.c:844`) |
| `EngineInActive` | 1 client, N = 2, `terminate_all`, MaxCookie 3 | the handler restarts the engine between the halt and the freeing (`vxdma.c:1013-1017`) |
| `ChainsFollowLists` | 1 client, N = 3, 3 descriptors, MaxSegs 2, MaxCookie 4 | prepare runs out of segments; its error label returns those it took while the tasklet has an older transaction in its callback, whose segments come behind them: the free list is no longer in the order of the ring, and a later transaction is not chained (`vxdma.c:844`, `998`) |
| `SegConserved` | 1 client, N = 1, `free_chan_resources` | release while a callback runs: segments are put on the free list of a freed pool (`vxdma.c:398`) |
| `StatusSafe` | 1 client, N = 2, `tx_status` | `tx_status` finds a descriptor without the lock; it is freed before the walk (`vxdma.c:428`) |
| `StatusFinds` | 1 client, N = 1, `tx_status` | a transaction that is only submitted: the active list is empty (`vxdma.c:428`) |
| `NoBug` | 1 client, N = 1, `terminate_all` | `desc_pendingcount` survives terminate and reaches BUG() (`vxdma.c:750`) |
| `CompletedWasTransferred` | 1 client, N = 2, HasSg FALSE | a batch is completed when its first descriptor is transferred (`vxdma.c:582`) |
| `IrqNotLost` | 2 clients, N = 3, `start_timeout`, MaxCookie 3 | two resets in a row lose the interrupt enable (`vxdma.c:632`) |

*What is transferred.* With the constants of `prep`, and an empty entry or a cyclic buffer
shorter than its period for the first.

| property of `VxdmaPrep` | constants | what happens |
|---|---|---|
| `NeverWild` | SgLists {<<entry of length 0>>} | the head of an empty list is written to as a segment (`vxdma.c:883`) |
| `CyclicComplete` | as in `prep` | bytes after the last whole period are not transferred (`vxdma.c:924`) |

*Binding and loading.* With the constants of `lifecycle` but for those named.

| property of `DmaLifecycle` | constants | what happens |
|---|---|---|
| `NoDanglingHandler` | none changed | the second channel is stored behind the array, and its interrupt handler stays when it is freed (`vxdma.c:1113`) |
| `SgAsInTree` | Trees <- MCTreesReversed | the second channel overwrites `has_sg` before the first reads it |
| `NoCrash` | none changed, or Trees <- MCTreeFirst | the driver is unbound under the proxy, which then uses the channel (`vxdma.c:1255`); with two channels, the handler of the second is called after it was freed (`vxdma.c:1113`, `1133`, `1263`) |
| `ClaimedIsLive` | none changed | unbinding does not ask who uses the channels (`vxdma.c:1255`) |
| `OnlyStaleCrashes` | XlateArgs {0} | `chan[0]` is NULL, and is handed on (`vxdma.c:1169`) |
| `OnlyStaleCrashes` | ProbeFaults <- MCResetFails | the error path takes a channel off a list it was never on (`vxdma.c:1242`) |
| `OnlyStaleCrashes` | OpenWhen {"init", "loaded"} | the device is opened and used before its buffer is there (`dma_proxy.c:386`) |
| `OnlyStaleCrashes` | ProxyFaults {"buffer"}; {"device"}; {"class"} | a device without a buffer stays; a class is destroyed and used; exit takes down twice (`dma_proxy.c:417`) |
| `ErrorPathUndone` | ProxyFaults {"buffer"} | the device stays when its buffer cannot be had (`dma_proxy.c:512`) |
| `BufferInUseIsAllocated` | ProxyFaults {"timeout"} | exit frees what an engine still transfers (`dma_proxy.c:585`) |
| `FailedInitReleases` | none changed | an init that fails keeps its channel (`dma_proxy.c:487`) |

*Clients.*

| module, property | constants | what happens |
|---|---|---|
| `DmaProxy`, `BlocksUntilComplete` | 1 process, uncached, `timeout`, MaxTransfers 2 | the callback of a timed-out transfer ends the wait for the next one (`dma_proxy.c:147`) |
| `DmaProxy`, `MappedWhileDma` | 1 process, cached, `timeout` | the buffer is unmapped after a timeout (`dma_proxy.c:172`) |
| `DmaProxy`, `ResultIsTrue` | 2 processes | one is woken for the other and checks the other's cookie (`dma_proxy.c:230`) |
| `DmaProxy`, `NoFalseTimeout` | 2 processes, `timeout` | init_completion of one drops the wake-up of the other (`dma_proxy.c:124`) |
| `AxiDmaClient`, `RxMappedWhileDma` | 1 process | the receive transfer is not waited for (`vxdma_dev.c:176`) |
| `AxiDmaClient`, `TxMappedWhileDma`, `WaitsForTransfer` | 1 process, `timeout` | unmapped after a timeout; a late callback ends the next wait (`vxdma_dev.c:184`, `112`) |
| `AxiDmaClient`, `ChannelsReleased` | 1 process, Present {"tx"}; or 2 processes | a channel is kept for ever (`vxdma_dev.c:241`, `236`) |
| `AxiDmaClient`, `BuffersFreed` | 1 process, `prep_error` | both buffers stay mapped and allocated (`vxdma_dev.c:166`) |
| `VxhlsTest`, `OutputAlwaysOfInputs` | Faults {"prep_error"}; {"timeout"} | what a test has left in the accelerator is paired with what the next one sends (`vxhls_dev.c:320`, `208`) |
| `VxhlsTest`, `OutputIsOfInputs` | Process = {p1, p2}, Faults {"no_channel"} | a process that fails to get its channels releases those of the other, through the pointers they share (`vxhls_dev.c:346`) |
| `VxhlsTest`, `BuffersFreed` | Faults {"prep_error"}; {"no_memory"} | a buffer is freed while mapped, or not freed (`vxhls_dev.c:346`, `272`) |
| `VxhlsTest`, `RegistersMapped` | any | probe returns a variable nobody has set (`vxhls.c:93`) |

*IP cores.* With the constants of `registry` and `intr` but for those named.

| module, property | constants | what happens |
|---|---|---|
| `PlIpcore`, `NoFault` | Races {"remove_in_use"} | the ioctl follows or calls a core that was freed (`plIpcore_dev.c:47`) |
| `PlIpcore`, `FindsRegistered` | Races {"remove_in_use"} | the entry the walk stands on is removed and added again at the end |
| `PlIpcore`, `NoFault` | Races {"early_ioctl"}; {"early_probe"}; Faults {"init"} | the list head is still zero (`plIpcore_dev.c:135`) |
| `PlIpcore`, `AccessIsMapped` | Faults {} | the register number of user space is added to the mapping unchecked (`plIpcore_utils.c:6`, `13`) |
| `PlIpcore`, `AccessIsMapped` | Addr {0} | the error of ioremap is not seen and the pointer used (`plIpcore.c:85`) |
| `PlIpcore`, `ListSound`, `NoFault` | Thread {t1, t2}, Process {} or {p1} | two list_add_tail at the same time lose an entry (`plIpcore.c:54`) |
| `IntrDemo`, `NoCrash`, `TaskIsOwner`, `TaskIsRunning` | Cores 2 (for `NoCrash`, Faults as in the next row) | the handler keeps the task of the previous owner between the two stores of the ioctl (`intrDemo.c:95`) |
| `IntrDemo`, `TaskIsRunning`, `NoCrash` | Exit "any", Faults without "no_irq" and "request_irq" | the task has exited (`intrDemo.c:95`) |
| `IntrDemo`, `TaskIsRunning` | MayStore <- MCAnyPid | a process registers another, which exits without knowing (`intrDemo.c:220`) |
| `IntrDemo`, `NoCrash` | Faults {"no_irq"}; {"request_irq"} | an interrupt that was not got is freed (`intrDemo.c:165`) |
| `IntrDemo`, `UnboundIsUnmapped` | none changed | the mapping is not undone |

The test `pidOwner # 0` in `TaskIsOwner` is needed too: a copy that faults (`intrDemo.c:220`) leaves
zero in `pidOwner` and the task of the owner before in `current_task`. `TaskIsOwner` itself also holds
with MCAnyPid and Exit "any".

## 5. Assumptions: the hardware, the kernel, fairness

- *Engine.* Each write of TAILDESC makes it walk from CURDESC to TAILDESC along `next_desc`;
  the coalesce counter is reloaded when the control register is written; one packet for each
  descriptor (EOP on its last segment); a halt or reset stops it at once; an error stops it
  and raises the error interrupt, not the one on completion. In cyclic mode it ignores the
  tail. These are what the driver relies on.
- *Kernel.* `dma_cookie_assign` and `dma_cookie_complete` count as in the dmaengine core; the
  cookie field of a descriptor is kept after completion as history (the core zeroes it), for
  the properties only. A tasklet does not run twice at a time and may be scheduled while it
  runs; the interrupt is not delivered while its handler runs. A struct completion is its
  count. A timeout may come whenever the count is zero.
- *Clients.* Each transaction has a callback and at least one segment. A client that prepares
  also submits. It does not release a channel in the middle of its own call.
- *Excluded in the runs, refuted in section 4.* `lifecycle`: the failures whose error path is
  wrong, devices opened during init, timeouts of transfers. `registry`: a second thread that
  binds, unbinding during an ioctl, an ioctl before the list is made. `intr`: a second core,
  processes that register others, or exit without giving their registration back. `hls`: a second
  process, which nothing in `vxhls_ioctl` keeps away.
- *Platform.* `plIpcore`, `intrDemo`, `vxdma` and `vdmaproxy` are built into the kernel (`obj-y`),
  so their exit functions never run, and there is no module that a reference could keep: only
  sysfs unbinds a driver. `DmaProxyInit` models the exit of the proxy all the same, for a build as
  a module; what is said of exit (`ExitReleasesAll`, and the part of exit in `BufferInUseIsAllocated`)
  is of that build. The driver core binds and unbinds a device in one thread at a time.
- *Store order.* In `PlIpcore` stores are seen in the order of the code. The plain stores of
  `list_add_tail` do not promise that to the other core of the board's dual-core ARM: for that the
  code would need `list_add_tail_rcu`, or a lock. What is checked and proved of the walk is thus
  about the order of the code. The mutant `StoreTailAndLink`, which makes the entry reachable
  before its own `next` is stored, is what one such reordering amounts to: a walk comes to a
  pointer that is not set.
- *Arguments.* `prep_dma_cyclic` is not called with a period of 0.
- *Accelerator.* It takes two matrices, in the order in which they come, and no third before
  their product has been received.
- *Fairness.* `WF` on the engine, the interrupt handler and the tasklet in `VxdmaChannel`:
  hardware that works on, interrupts that are taken, a tasklet that the kernel runs once it is
  scheduled. None for clients: a client need not call anything. The engine may fail forever
  only where `dma_error` is a fault, and no liveness is claimed there. In `AxiDmaClient` and
  `VxhlsTest` also `WF` on each process once it is in the test: a kernel thread is scheduled. In `AxiDmaClient`
  `TestEnds` is checked without timeouts, so the wait can only end by the callback; in
  `VxhlsTest` the accelerator may block for ever, and the timer ends the wait. `PlIpcore` has
  `WF` on the steps of the ioctl, which never sleeps, and none on the threads that bind. Liveness runs use no
  symmetry.

## 6. Proofs

Eight modules hold the theorems, one beside each component. A theorem is about every value of
the constants that the module's assumptions allow, so about any number of clients, processes,
descriptors, segments or cores, and about every choice of calls and faults that its `ASSUME`
does not exclude. Such a hypothesis is there where the property is wrong without it, or the code
is not meant for it; section 4 has counterexamples for most.

### The channel: `VxdmaChannelProofs`

| theorem | states | for |
|---|---|---|
| `TypeCorrect`, `DescriptorsOwnedOnce` | `TypeOK`, `DescOwnedOnce` | all calls and faults |
| `SegmentsConserved` | `SegConserved` | all calls but the release (`NoRelease`) |
| `DescriptorsNotLost` | `DescNotLost` | all calls, no reset that times out |
| `CyclicStays` | `CyclicKept` | all calls and faults |
| `NothingBehindCyclic` | `CyclicIsLast` | one client, all calls and faults |
| `InterruptEnabled` | `IrqNotLost` | one client, all calls and faults |
| `QueueIsOrdered` | `Pipeline` | slave transactions (`SlaveOnly`), all faults |
| `ChannelImplementsQueue` | `ImplementsQueue` | the same |
| `CallbacksInOrder` | `CallbackInOrder` | the same |
| `ChainsKept` | `ChainsFollowLists` | one client, slave transactions, all faults but a reset that times out (`OnlyClient`); on runs in which the pool suffices (`[]PoolSuffices`) |
| `EngineStaysInActive` | `EngineInActive` | the same, with scatter-gather |
| `CompletedMeansTransferred` | `CompletedWasTransferred` | the same |
| `IdleIsDrained` | `IdleMeansDrained` | the same |
| `PoolNeverRunsOut` | `PoolSuffices` | slave transactions; the pool has `MaxSegs` segments for each descriptor (`PoolFits`) |
| `BatchesAreTransferred` | the four above it | `OnlyClient`, scatter-gather and `PoolFits`; nothing is asked of the run |

*Types and owners.* The inductive invariant is `IInv == TypeOK /\ Own /\ HaveSegs`, and neither
property is inductive alone. The type of `eng.cur`, `eng.tail` and `bd[s].next` needs `Phys(d)`
and `TailSegment(d)` to be segments, so queued descriptors must have segments (`HaveSegs`);
that holds since prepare puts them there before submission and since freeing a descriptor,
which empties it, never meets one that is queued, which is `Own`, the entry by entry form of
`DescOwnedOnce`. `Own` in turn needs the types. There is one lemma for each conjunct
(`TypeStep`, `OwnStep`, `SegsStep`) with one step for each action.

*The queue.* `SlaveOnly` says that clients only prepare slave transactions, submit, issue and
ask for the status, which is what `vdmaproxy`, `axidma` and `vxdma_dev` do. `QueueCases` sorts
the steps by what they do to the lists; `RunsInv` is `Pipeline` list by list, and needs
`IdleInv`: a batch is spliced onto an empty active list, since an idle channel has none. The
five steps that change the lists are then the four steps of `DmaEngineQueue`, two of them
being a stutter or a completion, so the channel implements the abstract queue
(`ChannelImplementsQueue`, the safety part of the refinement that `two_clients` checks with
fairness), and `CallbacksInOrder` follows.

*Segments and descriptors.* `SegsApart` and `SegsAccounted` are `SegConserved` in two parts;
`SegCases` says that only taking a segment, freeing a descriptor, and making and releasing the
pool move segments. `PlacedInv` says where each allocated descriptor is, and that the tasklet
has one only while it calls back. A reset that times out drops the descriptor of the caller
(`vxdma.c:774`), which is why `DescriptorsNotLost` excludes it.

*Cyclic transactions and the interrupt.* `CyclicAtEnd` and `CyclicFlag` follow the only cyclic
descriptor from prepare to the end of the queue, with `chan->cyclic` set from its submission
on; a second client could have passed the check before. `IrqEnabled` says that both copies of
the control register, the driver's and the engine's, have the enable bit whenever the engine is
at work, and that a reset copies it before it clears it; two resets in a row are what a second
client adds.

*Chains.* The code never sorts the free list. A segment is linked (`next_desc`) when the pool is
made, to the one that follows it there, and whatever is written later is the same. `RingInv`
says why that is enough: the segments of the transaction that the tasklet has, of the done, the active
and the pending list, of the descriptor in hand, and the free list, one after the other
(`PoolOrder`), go once round the ring. Taking a segment, queueing, starting, completing and
freeing each move a border of that order and change nothing in it. It needs that nobody else
takes segments in between (one client), that they are freed in turn (slave
transactions, a reset that succeeds), and that prepare does not give segments back while
older ones are still queued (`PoolSuffices`); section 4 has the run in which it does.
`PoolOrder` is a concatenation of lists of lists, so there are lemmas on `FlattenSeq`, a
recursive function. The library's induction theorems take an operator, which none of the
provers can instantiate; `Induction` and `SeqInduction` say the same of sets, and are proved
from the fact that finite sets are well-founded by inclusion.

*Batches.* `BatchInv` adds what the engine does with a chain. `SegStates` has the state of each
segment by the list its transaction is on. `PhaseInv` tells four phases apart: idle; busy, with
the engine at a segment of an active transaction, all before it completed and all from it on
filled (`AtWork`); done, with the interrupt raised or acknowledged; and dead, after an error.
`CountInv`: `desc_pendingcount` is the length of the pending list, so the interrupt comes after
the last transaction of the batch and not before. That the engine goes from the last segment
of a transaction to the first of the next, and stops at the last of the batch, is
`ChainsFollowLists` again. `PoolNeverRunsOut` counts: `SizeInv` bounds the segments of a
descriptor, and the one in hand has fewer than it asked for; were the free list empty, the
segments of the pool would fit into fewer places than there are (`FS_PigeonHole`).
`channel_sg` has three descriptors of at most two segments and a pool of six.

### The clients

- `AxiDmaClientProofs`. `ExclusiveTransfer`, for any number of processes and whichever channels
  are present: while `rx_chan` is set at most one process has requested rx and not released it
  (`PointerIsExclusive`), and a present channel which is free has been requested by nobody
  (`FreeIsUnrequested`). A request that fails makes the pointer NULL while the channel is handed
  out; from then on nobody passes the check and nobody can give the channel back.
  `ChannelsGivenBack`, for one process and both channels, as the module runs the test at its
  init: the invariant `ReleaseInv` has, for each label, which channels the process still holds.
  `TxBufferMapped` and `WaitIsForTransfer`, also without timeouts: `TxInv` puts the transmit
  transfer in one of four places between its start and its callback, and counts the
  completion only in the last.
- `DmaProxyProofs`. `TypeCorrect` for any number of processes: the count of the completion is
  at most the number of callbacks. `ResultsAreTrue` and `NoLostWakeUp` for one process, all
  errors and late timers: from the assignment to the return the channel holds the cookie of
  this call (`CookieAt`), and a submitted transfer has its callback ahead or has counted it
  (`WakeUpAt`). That the wake-up may be of an earlier transfer is allowed for.
- `VxhlsTestProofs`. `OutputIsRight` and `BuffersMapped`, for one process (`OneProcess`), all faults
  and all timeouts of inputs, up to the first half-way stop or timeout of an output. `HlsInv` says
  for each step what the accelerator has taken and what is still to be sent to it, in the order of the
  lists (`MatricesAt`, `InputsAt`), and which transactions the two channels hold (`ChannelAt`):
  after a timeout `a` and `b` may both be on their way, in that order. `OneProcess` is an
  assumption: nothing in `vxhls_ioctl` ensures it, and with two processes the product may be wrong
  (section 4).

### Prepare: `VxdmaPrepProofs`

For every limit of a segment (the code's 0x7FFFFF among them), every scatter list and cyclic
buffer, and any number of segments:

- `CutWithoutGaps`: `CutInOrder`. The invariant `CutInv` adds that a piece lies within its entry
  and that `sg_used` does not pass the end of the entry, without which `NextEntry` could leave
  bytes out.
- `EveryByteTransferred`: `EveryByteOnce`. `ByteInv` says, of the loop, that the segments hold
  the entries before this one and `sg_used` bytes of this one (`Covered`), and of what is queued
  that its segments hold its entries; marking segments and the engine leave the bytes alone.
  `PeriodsAreBlock` puts the periods of a cyclic buffer together.
- `ResidueIsBetween`: `ResidueBetween`. `WalkInv` compares sums over the segments before the
  walk: what it has added is no less than what is left of them, and with what is left of the
  others no more than was left at the start. `LeftLess` says what the engine does to such
  a sum, `ResidueOfSegment` that the masked difference of the two words is what is left
  whatever the flags and the borrow.
- `LengthsKeptApart`: `LengthsFit`. `FitInv` says of each word what it is made of: a control
  word is a length and a multiple of the field for the flags, a status word is 0 or the flag of
  completion and what has been done. `FieldOf` is the arithmetic. That `Finish` marks segments
  whose length fits comes from `CutInv`.

All rest on `PrepAssumption`: the limit is positive and so is a period. `Bytes` and `BytesLeft`
are recursive functions (`BytesUpTo`, `LeftUpTo`); that such a function exists is `StepwiseExists`,
and what holds of it follows by the same `Induction` on sets as in the channel.

### Binding and loading: `DmaLifecycleProofs`

The invariant has a half for each driver; a step of one leaves the variables of the other alone
(`ProxyingFrame`, `DrivingFrame`), and they meet in `owner`.

| theorem | states | for |
|---|---|---|
| `TypeCorrect`, `HandlersHaveChannels`, `ExitReleases` | `TypeOK`, `HandlerHasChannel`, `ExitReleasesAll` | all trees and failures |
| `ErrorPathWorks` | `ErrorPathUndone` | `BufferComes`: the buffer can be had |
| `BufferOutlivesUse` | `BufferInUseIsAllocated` | `BufferComes`, and `OpenedWhenDone`, `TransfersEnd`: no process before the end of init, no timeout |
| `NothingElseCrashes` | `OnlyStaleCrashes` | `Handled`: no process before the end of init, and the failures whose way out works (`BufferComes` among them); trees that have the first channel |
| `NothingCrashesIfKept` | `NoCrash` | `Handled`, and `ProbeKeeps`: nothing fails in probe once the channels are offered, and the second channel is the last child; in the behaviours without a step `Remove` |

`EngineInv` has the places of the array and what probe has done for the channel it is at;
`HandlerInv` in it says that the loops of remove and of the error path find every handler in
the array. `CreateInv` follows `create_channel`, `ExitInv` follows
`dma_proxy_exit`, `UsedInv` and `DmaInv` say that files, mappings and transfers are of channels
that are complete. For the crashes: `FoundInv` says what remove and translation will find in the
array, `ListedInv` which channels clients may get, `ClassInv` how long the class lives. `CrashStep`
is one lemma for both theorems: a step that crashes is one of a client that was left (`stale`) or
of a handler that was left (`dangling`). `NothingElseCrashes` is what remains when nothing is
assumed of unbinding, and `KeptInv` says that without it there is neither.

### IP cores and interrupts

- `PlIpcoreProofs`. `WalksAreSafe` and `LookupFinds`, for any set of cores, any failures of
  ioremap, any register numbers and any number of processes, under `Orderly`: one thread binds
  cores, unbinds them when nobody is in the ioctl, and starts when the list is made. The invariant
  says there is a sequence of nodes, from the head to the head, along which `next` leads after each
  store, and `prev` but for the one entry that the thread is at (`NextIs`, `PrevIs`); a walking
  process is at a node of it, with what it looks for not behind it (`ProcessAt`). The sequence
  changes with the single store that links or unlinks; the other stores of `list_add_tail` and
  `list_del` leave it (`LinkStep` and `UnlinkStep` against `AddStep`, `DelStep` and `KeepStep`).
  The theorems are of stores seen in their order (section 5).
- `IntrDemoProofs`. `SignalsGoToOwner`: on one core, whatever numbers the processes store, whenever
  they exit, and whether or not the copy faults; the owner can only change while the handler does
  not run, and `FoundIsOwner` says that what it has found is the owner's. `KeptTaskRuns`: also if
  processes register only themselves and give the registration back before they exit (`Behaved`); a
  pid belongs to one running process (`OnePid`), and the pid in `pidOwner` has a process, which is
  registered and is not giving its registration back (`OwnerIsRegistered`). A copy that faults
  leaves a task that is kept and no owner; its process is still registered
  (`TaskIsRegistered`). `DeviceGivenBack`, `HandlerHasDevice`: all failures; `DeviceAt` has, for each
  call and each label, what the device holds there. `NothingCrashes`: `Behaved`, and the interrupt
  was got (`IrqComes`).

### Only model-checked

- Liveness and fairness (`Progress`, `TestEnds`, `IoctlReturns`, the fairness of
  `ImplementsFairQueue`): temporal reasoning with ENABLED is out of the prover's reach.
- `IdleMeansDrained` with two clients (`two_clients`); the theorem is for one.
- `BusyIsServed`, `ListSound` and the other properties that no run checks (section 3) are not
  proved either. `ChainsFollowLists`, and what rests on it, is neither run nor proved with cyclic
  transactions and `terminate_all`.
- `VxdmaProbe` and `DmaProxyInit` have no proof module: their properties are proved of
  `DmaLifecycle`, which has all their steps.

Every invariant that a run checks is stated by a theorem.

## 7. What is not modelled, and the plan

- `VxdmaChannel` has no addresses and lengths, `VxdmaPrep` no lists and contexts; nothing checks
  them together, and the direction of a channel is in neither of the two.
- The splice of a descriptor's segments onto the free list without the lock is one step, so a
  list torn between two of its stores is not seen.
- The mode of the engine when slave and cyclic transactions are mixed: `prep_dma_cyclic` sets
  it when it prepares (`vxdma.c:984`).
- The registration of the character devices of `vxdma_dev` and `vxhls_dev`, which is like that
  of `plIpcore` but for its wrong labels; the internal test of the proxy, which is compiled out.
- Which register an access of `vxhls` reaches: reading counts bytes and writing counts words
  (`vxhls.c:41`), a matter of one line. The contents of buffers.
- The build files; user-space programs are not part of the repository.

Next, in this order:

1. `FreeSegList`: `free_seg_list` at the level of pointers, with the splices that do not take
   the lock.
2. Theorems: the chains and the batches with cyclic transactions and `terminate_all`, where the
   channel drains; the safety part of what `DmaProxy` uses of the abstract queue; the types of
   `VxdmaPrep` and `AxiDmaClient`.
3. The mode of the engine, in `VxdmaChannel`.
