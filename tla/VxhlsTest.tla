----------------------------- MODULE VxhlsTest -----------------------------
(***************************************************************************)
(* The test of the HLS accelerator, vxhls/vxhls_dev.c, and the driver that *)
(* maps its registers, vxhls/vxhls.c.  The test sends two matrices on the  *)
(* transmit channel, one after the other, and then receives the product.   *)
(* It waits for each transfer, with a timeout, and the accelerator takes   *)
(* what comes in turn: a test that stops half-way is felt by the next one. *)
(*                                                                         *)
(* As in AxiDmaClient the pointers, completions and cookies are static and *)
(* unlocked, and releasing a channel does not stop the engine.  But after  *)
(* a timeout the test goes on, so that a channel may have two transactions *)
(* and is modelled with its lists of them (VxdmaChannel has all of it).    *)
(***************************************************************************)
EXTENDS Integers, Sequences

CONSTANTS
  Process,  \* processes that have opened the device
  Faults    \* what may go wrong

AllFaults == {"no_state", "ioremap", "no_memory", "no_channel", "prep_error", "timeout"}

ASSUME HlsAssumption == Faults \subseteq AllFaults

Chan == {"tx", "rx"}
Buffer == {"a", "b", "out"}   \* input_a_dat, input_b_dat and ouput_dat
ChanOf(x) == IF x = "out" THEN "rx" ELSE "tx"

VARIABLES
  st,        \* the registers: no probe or no memory for it, mapped, an error, unmapped again
  started,   \* AP_START is set
  taken,     \* the matrices that the accelerator has taken in, the last product's gone
  dma_chan, claimed, cmp,   \* the pointers, the channels, the counts of completions
  pending, active, done,    \* the lists of transactions: of which process and buffer
  engine,    \* the transactions that the engine has been started with
  calling,   \* the tasklet has taken a descriptor to run its callback
  pc, cur,   \* of each process: where it is, and in the transfer of which buffer
  expired,   \* the last wait has timed out
  bufs, mapped,
  result,    \* the matrices of which the output is the product
  clean,     \* history: no test has stopped half-way or not waited for its output
  timely     \* history: no wait has timed out

accelVars == <<st, started, taken>>
dmaVars == <<pending, active, done, engine, calling>>
history == <<clean, timely>>
procVars == <<pc, cur, expired, bufs, mapped, result, history>>
vars == <<accelVars, dma_chan, claimed, cmp, dmaVars, procVars>>

Transaction == Process \X Buffer

\* Types; the accelerator holds two matrices at most, and a completion counts the
\* callbacks of both inputs and one of the test before.
TypeOK ==
  /\ st \in {"null", "no_state", "mapped", "error", "unmapped"}
  /\ started \in BOOLEAN /\ taken \in Seq({"a", "b"}) /\ Len(taken) <= 2
  /\ dma_chan \in [Chan -> BOOLEAN] /\ claimed \in [Chan -> BOOLEAN]
  /\ cmp \in [Chan -> 0 .. 3] /\ calling \in [Chan -> BOOLEAN]
  /\ \A list \in {pending, active, done, engine} : list \in [Chan -> Seq(Transaction)]
  /\ pc \in [Process -> {"idle", "alloc", "setup", "request_tx", "request_rx", "check",
       "map", "prep", "init", "issue", "wait", "unmap", "output",
       "err_tx", "err_rx", "end_tx", "end_rx", "kfree", "oops"}]
  /\ cur \in [Process -> Buffer] /\ expired \in [Process -> BOOLEAN]
  /\ bufs \in [Process -> SUBSET Buffer] /\ mapped \in [Process -> SUBSET Buffer]
  /\ result \in [Process -> Seq({"a", "b"})] /\ clean \in BOOLEAN /\ timely \in BOOLEAN

Init ==
  /\ st = "null" /\ started = FALSE /\ taken = <<>>
  /\ dma_chan = [c \in Chan |-> FALSE] /\ claimed = [c \in Chan |-> FALSE]
  /\ cmp = [c \in Chan |-> 0]
  /\ pending = [c \in Chan |-> <<>>] /\ active = [c \in Chan |-> <<>>]
  /\ done = [c \in Chan |-> <<>>] /\ engine = [c \in Chan |-> <<>>]
  /\ calling = [c \in Chan |-> FALSE]
  /\ pc = [p \in Process |-> "idle"] /\ cur = [p \in Process |-> "a"]
  /\ expired = [p \in Process |-> FALSE]
  /\ bufs = [p \in Process |-> {}] /\ mapped = [p \in Process |-> {}]
  /\ result = [p \in Process |-> <<>>] /\ clean = TRUE /\ timely = TRUE

At(p, step) == pc[p] = step
Goto(p, step) == pc' = [pc EXCEPT ![p] = step]
May(fault) == fault \in Faults
-----------------------------------------------------------------------------
(* vxhls_probe *)

\* That there is memory for the state is not looked at.  Probe already sets AP_START.
\* Its result is a variable that nothing has set: when it is not zero the driver core
\* unmaps the registers, and st keeps the pointer.  (vxhls_remove follows the NULL
\* pointer of private data that was never set, and changes nothing.)
Probe ==
  /\ st = "null"
  /\ \/ st' \in {"mapped", "unmapped"} /\ started' = TRUE
     \/ May("ioremap") /\ st' = "error" /\ UNCHANGED started
     \/ May("no_state") /\ st' = "no_state" /\ UNCHANGED started
  /\ UNCHANGED <<taken, dma_chan, claimed, cmp, dmaVars, procVars>>
-----------------------------------------------------------------------------
(* xhls_test: buffers, accelerator, channels *)

Ioctl(p) ==
  /\ At(p, "idle") /\ Goto(p, "alloc")
  /\ UNCHANGED <<accelVars, dma_chan, claimed, cmp, dmaVars, cur, expired, bufs, mapped,
                 result, history>>

\* Only the inputs are looked at, and what was allocated is not freed.
AllocBuffers(p) ==
  /\ At(p, "alloc")
  /\ \E got \in SUBSET Buffer :
       /\ got = Buffer \/ May("no_memory")
       /\ bufs' = [bufs EXCEPT ![p] = got]
       /\ Goto(p, IF {"a", "b"} \subseteq got THEN "setup" ELSE "idle")
  /\ UNCHANGED <<accelVars, dma_chan, claimed, cmp, dmaVars, cur, expired, mapped,
                 result, history>>

\* xhls_setup_accel sets AP_START and the automatic restart; the test goes on if the
\* accelerator is not ready.
SetupAccel(p) ==
  /\ At(p, "setup") /\ Goto(p, IF st = "mapped" THEN "request_tx" ELSE "oops")
  /\ started' = (started \/ st = "mapped")
  /\ UNCHANGED <<st, taken, dma_chan, claimed, cmp, dmaVars, cur, expired, bufs,
                 mapped, result, history>>

\* dma_request_channel: another client of the driver may have the channel.
Request(p, c) ==
  /\ At(p, IF c = "tx" THEN "request_tx" ELSE "request_rx")
  /\ Goto(p, IF c = "tx" THEN "request_rx" ELSE "check")
  /\ \E got \in {~claimed[c]} \cup (IF May("no_channel") THEN {FALSE} ELSE {}) :
       /\ dma_chan' = [dma_chan EXCEPT ![c] = got]
       /\ claimed' = [claimed EXCEPT ![c] = @ \/ got]
  /\ UNCHANGED <<accelVars, cmp, dmaVars, cur, expired, bufs, mapped, result, history>>

CheckChannels(p) ==
  /\ At(p, "check")
  /\ Goto(p, IF \A c \in Chan : dma_chan[c] THEN "map" ELSE "err_tx")
  /\ UNCHANGED <<accelVars, dma_chan, claimed, cmp, dmaVars, cur, expired, bufs, mapped,
                 result, history>>
-----------------------------------------------------------------------------
(* xhls_load_input for each input, and xhls_wait_output *)

MyChan(p) == ChanOf(cur[p])

\* A use of a pointer that is NULL ends the thread.
GotoUnlessNull(p, step) == Goto(p, IF dma_chan[MyChan(p)] THEN step ELSE "oops")

Map(p) ==
  /\ At(p, "map") /\ GotoUnlessNull(p, "prep")
  /\ mapped' = [mapped EXCEPT ![p] = IF dma_chan[MyChan(p)] THEN @ \cup {cur[p]} ELSE @]
  /\ UNCHANGED <<accelVars, dma_chan, claimed, cmp, dmaVars, cur, expired, bufs, result,
                 history>>

\* axidma_prep_buffer: prepare and submit.
PrepBuffer(p) ==
  /\ At(p, "prep") /\ GotoUnlessNull(p, "init")
  /\ IF dma_chan[MyChan(p)]
     THEN pending' = [pending EXCEPT ![MyChan(p)] = Append(@, <<p, cur[p]>>)]
     ELSE UNCHANGED pending
  /\ UNCHANGED <<accelVars, dma_chan, claimed, cmp, active, done, engine, calling, cur,
                 expired, bufs, mapped, result, history>>

\* An input that cannot be submitted ends the test; that the output cannot is not
\* looked at.  The buffer stays mapped.
PrepError(p) ==
  /\ At(p, "prep") /\ dma_chan[MyChan(p)] /\ May("prep_error")
  /\ Goto(p, IF cur[p] = "out" THEN "output" ELSE "err_tx")
  /\ clean' = (clean /\ cur[p] = "a")
  /\ UNCHANGED <<accelVars, dma_chan, claimed, cmp, dmaVars, cur, expired, bufs, mapped,
                 result, timely>>

InitCompletion(p) ==
  /\ At(p, "init") /\ GotoUnlessNull(p, "issue")
  /\ cmp' = [cmp EXCEPT ![MyChan(p)] = 0]
  /\ expired' = [expired EXCEPT ![p] = FALSE]
  /\ UNCHANGED <<accelVars, dma_chan, claimed, dmaVars, cur, bufs, mapped, result, history>>

\* The engine is started with what is pending, if it is idle.
IssuePending(p) ==
  LET c == MyChan(p) IN
  /\ At(p, "issue") /\ Goto(p, "wait")
  /\ IF engine[c] = <<>>
     THEN /\ engine' = [engine EXCEPT ![c] = pending[c]]
          /\ active' = [active EXCEPT ![c] = @ \o pending[c]]
          /\ pending' = [pending EXCEPT ![c] = <<>>]
     ELSE UNCHANGED <<pending, active, engine>>
  /\ UNCHANGED <<accelVars, dma_chan, claimed, cmp, done, calling, cur, expired, bufs,
                 mapped, result, history>>

\* Bug variant: the transfers of the inputs are not waited for.
WaitDoneNoWait(p) ==
  /\ At(p, "wait") /\ Goto(p, "unmap")
  /\ cmp[MyChan(p)] > 0 \/ cur[p] # "out"
  /\ cmp' = [cmp EXCEPT ![MyChan(p)] = IF @ > 0 THEN @ - 1 ELSE @]
  /\ UNCHANGED <<accelVars, dma_chan, claimed, dmaVars, cur, expired, bufs, mapped, result,
                 history>>

\* Bug variant: the transfer of the output is not waited for, as in AxiDmaClient.
WaitDoneNoWaitOut(p) ==
  /\ At(p, "wait") /\ Goto(p, "unmap")
  /\ cmp[MyChan(p)] > 0 \/ cur[p] = "out"
  /\ cmp' = [cmp EXCEPT ![MyChan(p)] = IF @ > 0 THEN @ - 1 ELSE @]
  /\ UNCHANGED <<accelVars, dma_chan, claimed, dmaVars, cur, expired, bufs, mapped, result,
                 history>>

WaitDone(p) ==
  /\ At(p, "wait") /\ Goto(p, "unmap")
  /\ cmp[MyChan(p)] > 0
  /\ cmp' = [cmp EXCEPT ![MyChan(p)] = @ - 1]
  /\ UNCHANGED <<accelVars, dma_chan, claimed, dmaVars, cur, expired, bufs, mapped, result,
                 history>>

\* Bug variant: wait_for_completion, which has no timeout.
WaitTimeoutNever(p) == FALSE /\ UNCHANGED vars

\* The test goes on as if the transfer had been done.
WaitTimeout(p) ==
  /\ At(p, "wait") /\ Goto(p, "unmap")
  /\ cmp[MyChan(p)] = 0 /\ May("timeout")
  /\ expired' = [expired EXCEPT ![p] = TRUE]
  /\ clean' = (clean /\ cur[p] # "out") /\ timely' = FALSE
  /\ UNCHANGED <<accelVars, dma_chan, claimed, cmp, dmaVars, cur, bufs, mapped, result>>

Unmap(p) ==
  /\ At(p, "unmap")
  /\ GotoUnlessNull(p, IF cur[p] = "out" THEN "output" ELSE "map")
  /\ IF dma_chan[MyChan(p)]
     THEN /\ mapped' = [mapped EXCEPT ![p] = @ \ {cur[p]}]
          /\ cur' = [cur EXCEPT ![p] = IF @ = "a" THEN "b" ELSE "out"]
     ELSE UNCHANGED <<mapped, cur>>
  /\ UNCHANGED <<accelVars, dma_chan, claimed, cmp, dmaVars, expired, bufs, result, history>>
-----------------------------------------------------------------------------
(* xhls_test: the output, and the two ways out *)

\* The output is read even if its buffer could not be allocated.
PrintOutput(p) ==
  /\ At(p, "output") /\ Goto(p, IF "out" \in bufs[p] THEN "end_tx" ELSE "oops")
  /\ UNCHANGED <<accelVars, dma_chan, claimed, cmp, dmaVars, cur, expired, bufs, mapped,
                 result, history>>

Released(c) ==
  /\ claimed' = [claimed EXCEPT ![c] = FALSE]
  /\ pending' = [pending EXCEPT ![c] = <<>>] /\ active' = [active EXCEPT ![c] = <<>>]
  /\ done' = [done EXCEPT ![c] = <<>>]

\* exit_err: the pointers are looked at first.
ReleaseIfSet(p, c) ==
  /\ At(p, IF c = "tx" THEN "err_tx" ELSE "err_rx")
  /\ Goto(p, IF c = "tx" THEN "err_rx" ELSE "kfree")
  /\ IF dma_chan[c] THEN Released(c) ELSE UNCHANGED <<claimed, pending, active, done>>
  /\ UNCHANGED <<accelVars, dma_chan, cmp, engine, calling, cur, expired, bufs,
                 mapped, result, history>>

\* exit_success.
Release(p, c) ==
  /\ At(p, IF c = "tx" THEN "end_tx" ELSE "end_rx")
  /\ Goto(p, IF ~dma_chan[c] THEN "oops" ELSE IF c = "tx" THEN "end_rx" ELSE "kfree")
  /\ IF dma_chan[c] THEN Released(c) ELSE UNCHANGED <<claimed, pending, active, done>>
  /\ UNCHANGED <<accelVars, dma_chan, cmp, engine, calling, cur, expired, bufs,
                 mapped, result, history>>

\* Buffers are freed whether they are mapped or not; what the process knew is gone.
FreeBuffers(p) ==
  /\ At(p, "kfree") /\ Goto(p, "idle")
  /\ bufs' = [bufs EXCEPT ![p] = {}] /\ result' = [result EXCEPT ![p] = <<>>]
  /\ cur' = [cur EXCEPT ![p] = "a"] /\ expired' = [expired EXCEPT ![p] = FALSE]
  /\ UNCHANGED <<accelVars, dma_chan, claimed, cmp, dmaVars, mapped, history>>
-----------------------------------------------------------------------------
(* The accelerator with the two engines, and the channels *)

\* The accelerator takes a matrix when it runs and has room, and its product can be
\* received when it has two.
Moves(c) ==
  IF c = "tx" THEN started /\ Len(taken) < 2 ELSE Len(taken) = 2

\* The engine has transferred the first of what it was started with.  After the last
\* the interrupt handler completes what is active and starts what is pending.
EngineDone(c) ==
  LET first == Head(engine[c])
      ended == Tail(engine[c]) = <<>>
  IN /\ engine[c] # <<>> /\ Moves(c)
     /\ taken' = IF c = "tx" THEN Append(taken, first[2]) ELSE <<>>
     /\ result' = IF c = "tx" THEN result ELSE [result EXCEPT ![first[1]] = taken]
     /\ IF ended
        THEN /\ engine' = [engine EXCEPT ![c] = pending[c]]
             /\ done' = [done EXCEPT ![c] = @ \o active[c]]
             /\ active' = [active EXCEPT ![c] = pending[c]]
             /\ pending' = [pending EXCEPT ![c] = <<>>]
        ELSE /\ engine' = [engine EXCEPT ![c] = Tail(@)]
             /\ UNCHANGED <<pending, active, done>>
     /\ UNCHANGED <<st, started, dma_chan, claimed, cmp, calling, pc, cur, expired, bufs,
                    mapped, history>>

Tasklet(c) ==
  /\ done[c] # <<>> /\ ~calling[c]
  /\ done' = [done EXCEPT ![c] = Tail(@)]
  /\ calling' = [calling EXCEPT ![c] = TRUE]
  /\ UNCHANGED <<accelVars, dma_chan, claimed, cmp, pending, active, engine, procVars>>

SyncCallback(c) ==
  /\ calling[c]
  /\ calling' = [calling EXCEPT ![c] = FALSE]
  /\ cmp' = [cmp EXCEPT ![c] = @ + 1]
  /\ UNCHANGED <<accelVars, dma_chan, claimed, pending, active, done, engine, procVars>>
-----------------------------------------------------------------------------
Test(p) ==
  \/ AllocBuffers(p) \/ SetupAccel(p) \/ CheckChannels(p)
  \/ Map(p) \/ PrepBuffer(p) \/ PrepError(p) \/ InitCompletion(p) \/ IssuePending(p)
  \/ WaitDone(p) \/ WaitTimeout(p) \/ Unmap(p) \/ PrintOutput(p) \/ FreeBuffers(p)
  \/ \E c \in Chan : Request(p, c) \/ ReleaseIfSet(p, c) \/ Release(p, c)

ChannelStep(c) == EngineDone(c) \/ Tasklet(c) \/ SyncCallback(c)

Next ==
  \/ Probe
  \/ \E p \in Process : Ioctl(p) \/ Test(p)
  \/ \E c \in Chan : ChannelStep(c)

Spec == Init /\ [][Next]_vars

\* A process goes on with the test it has begun, and its timer runs out; an engine
\* that can go on does, and the kernel runs the handler and the tasklet.
FairSpec ==
  /\ Spec
  /\ \A p \in Process : WF_vars(Test(p))
  /\ \A c \in Chan : WF_vars(ChannelStep(c))
-----------------------------------------------------------------------------
(* Properties *)

\* The output that a test reads is the product of its own two inputs, in their order,
\* whichever waits for inputs have timed out, in it or before.  That is so until a test
\* stops after its first input or the wait for an output times out (such a test goes on
\* to read its output all the same): what is left over in the accelerator, which has no
\* other way to know where a pair begins, then goes into later products.
OutputIsOfInputs ==
  \A p \in Process : At(p, "output") /\ clean => result[p] = <<"a", "b">>

\* An engine transfers no buffer that is not mapped, up to the same moment; for the
\* inputs, also until the first wait has timed out, as it is unmapped then.
MappedWhileDma ==
  \A c \in Chan : clean /\ (c = "tx" => timely) =>
    \A i \in DOMAIN engine[c] : engine[c][i][2] \in mapped[engine[c][i][1]]

\* Both ways out of the test give the channels back, whatever has failed.
ChannelsReleased ==
  (\A p \in Process : At(p, "idle")) => \A c \in Chan : ~claimed[c]

\* Each test ends, even when the accelerator takes no more matrices since the test
\* before it has stopped half-way: the timeouts see to that.
TestEnds == \A p \in Process : At(p, "alloc") ~> pc[p] \in {"idle", "oops"}
-----------------------------------------------------------------------------
(* Three more that the code does not have; the README says when TLC refutes them. *)

\* The output is right whatever happened to the tests before, if the wait for it has
\* not timed out.
OutputAlwaysOfInputs ==
  \A p \in Process : At(p, "output") /\ ~expired[p] => result[p] = <<"a", "b">>

\* When a test is over, its buffers are freed and unmapped.
BuffersFreed == \A p \in Process : At(p, "idle") => bufs[p] = {} /\ mapped[p] = {}

\* The registers are mapped as long as there is a pointer to them.
RegistersMapped == st \in {"null", "mapped"}
=============================================================================
