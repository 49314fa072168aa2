-------------------------- MODULE VxhlsTestProofs --------------------------
(***************************************************************************)
(* The test of the HLS accelerator, run again and again by one process     *)
(* under any faults, waits that time out among them.  Until a test stops   *)
(* between its first and its last transfer, or the wait for an output      *)
(* times out, the inputs of the test are in the accelerator, in the engine *)
(* and on the pending list in the order in which they were submitted, and  *)
(* the output is only received from both.                                  *)
(***************************************************************************)
EXTENDS VxhlsTest, SequenceTheorems, TLAPS

\* One process runs the test.  vxhls_ioctl does not see to that.
OneProcess == \A p, q \in Process : p = q

Preparing(p) == pc[p] \in {"idle", "alloc", "setup", "request_tx", "request_rx", "check"}
Transferring(p) == pc[p] \in {"map", "prep", "init", "issue", "wait", "unmap"}

\* The transaction of the buffer that the process is at.
Mine(p) == <<p, cur[p]>>

\* No transaction is on the channel, and no callback is due.
Resting(c) ==
  /\ pending[c] = <<>> /\ active[c] = <<>> /\ done[c] = <<>> /\ engine[c] = <<>>
  /\ ~calling[c]

Submitted(p, c) ==
  /\ pending[c] = <<Mine(p)>> /\ active[c] = <<>> /\ done[c] = <<>> /\ engine[c] = <<>>
  /\ ~calling[c]

\* From its start to its callback a transaction is in one place, and its completion is
\* counted when it has left the last one.
OnItsWay(p, c) ==
  /\ pending[c] = <<>>
  /\ \/ /\ active[c] = <<Mine(p)>> /\ engine[c] = <<Mine(p)>> /\ done[c] = <<>>
        /\ ~calling[c] /\ cmp[c] = 0
     \/ /\ active[c] = <<>> /\ engine[c] = <<>> /\ done[c] = <<Mine(p)>>
        /\ ~calling[c] /\ cmp[c] = 0
     \/ /\ active[c] = <<>> /\ engine[c] = <<>> /\ done[c] = <<>>
        /\ calling[c] /\ cmp[c] = 0
     \/ /\ active[c] = <<>> /\ engine[c] = <<>> /\ done[c] = <<>>
        /\ ~calling[c] /\ cmp[c] = 1

\* Nothing has happened that would leave a transaction on the channel.
Orderly(c) == clean /\ (c = "tx" => timely)

\* An orderly channel at each point of the test.
ChannelAt(p, c) ==
  /\ c # MyChan(p) \/ pc[p] \notin {"init", "issue", "wait"} => Resting(c)
  /\ c = MyChan(p) /\ pc[p] \in {"init", "issue"} => Submitted(p, c)
  /\ c = MyChan(p) /\ pc[p] = "issue" => cmp[c] = 0
  /\ c = MyChan(p) /\ pc[p] = "wait" => OnItsWay(p, c)

\* The output has been received.
Received(p) == cur[p] = "out" /\ (pc[p] = "unmap" \/ (pc[p] = "wait" /\ engine["rx"] = <<>>))

\* The inputs at each point of the test: taken in by the accelerator, in the engine,
\* and pending.
InputsAt(p, in, moving, waiting) ==
  LET a == <<p, "a">>
      b == <<p, "b">>
  IN IF ~Transferring(p) \/ Received(p) \/ (cur[p] = "a" /\ pc[p] \in {"map", "prep"})
     THEN in = <<>> /\ moving = <<>> /\ waiting = <<>>
     ELSE IF cur[p] = "a" /\ pc[p] \in {"init", "issue"}
     THEN in = <<>> /\ moving = <<>> /\ waiting = <<a>>
     ELSE IF cur[p] = "a" \/ (cur[p] = "b" /\ pc[p] \in {"map", "prep"})
     THEN /\ waiting = <<>>
          /\ (in = <<>> /\ moving = <<a>>) \/ (in = <<"a">> /\ moving = <<>>)
     ELSE \/ in = <<>> /\ moving = <<a>> /\ waiting = <<b>>
          \/ in = <<"a">> /\ moving = <<b>> /\ waiting = <<>>
          \/ in = <<"a", "b">> /\ moving = <<>> /\ waiting = <<>>
          \/ /\ in = <<"a">> /\ moving = <<>> /\ waiting = <<b>>
             /\ cur[p] = "b" /\ pc[p] \in {"init", "issue"}

MatricesAt(p) ==
  /\ InputsAt(p, taken, engine["tx"], pending["tx"])
  /\ pc[p] = "output" \/ Received(p) => result[p] = <<"a", "b">>

\* The pointers are good from the check to the end of the test, which begins with
\* the first input, and a buffer is mapped while it is transferred.
TestAt(p) ==
  /\ Transferring(p) \/ pc[p] \in {"output", "end_tx", "end_rx"} => \A c \in Chan : dma_chan[c]
  /\ Preparing(p) => cur[p] = "a"
  /\ pc[p] \in {"prep", "init", "issue", "wait"} => cur[p] \in mapped[p]

Steps == {"idle", "alloc", "setup", "request_tx", "request_rx", "check",
          "map", "prep", "init", "issue", "wait", "unmap", "output",
          "err_tx", "err_rx", "end_tx", "end_rx", "kfree", "oops"}

HlsTyped ==
  /\ taken \in Seq(Buffer)
  /\ dma_chan \in [Chan -> BOOLEAN] /\ cmp \in [Chan -> Int]
  /\ pending \in [Chan -> Seq(Transaction)] /\ active \in [Chan -> Seq(Transaction)]
  /\ done \in [Chan -> Seq(Transaction)] /\ engine \in [Chan -> Seq(Transaction)]
  /\ calling \in [Chan -> BOOLEAN]
  /\ pc \in [Process -> Steps] /\ cur \in [Process -> Buffer]
  /\ mapped \in [Process -> SUBSET Buffer] /\ result \in [Process -> Seq(Buffer)]

HlsAt(p) ==
  /\ TestAt(p)
  /\ clean => MatricesAt(p)
  /\ \A c \in Chan : Orderly(c) => ChannelAt(p, c)

HlsInv == HlsTyped /\ \A p \in Process : HlsAt(p)
-----------------------------------------------------------------------------
(* Lists of one transaction, and of matrices *)

LEMMA One ==
  ASSUME NEW d
  PROVE  /\ Append(<<>>, d) = <<d>> /\ Len(<<d>>) = 1 /\ Len(<<>>) = 0
         /\ Head(<<d>>) = d /\ Tail(<<d>>) = <<>> /\ <<d>> # <<>>
         /\ <<>> \o <<d>> = <<d>> /\ <<>> \o <<>> = <<>>
<1>1. Append(<<>>, d) = <<d>>
  OBVIOUS
<1>2. Len(<<d>>) = 1 /\ Len(<<>>) = 0
  OBVIOUS
<1>3. Head(<<d>>) = d
  OBVIOUS
<1>4. Tail(<<d>>) = <<>>
  OBVIOUS
<1>5. <<d>> # <<>>
  BY <1>2
<1>6. <<>> \o <<d>> = <<d>>
  BY ConcatEmptySeq, <<d>> \in Seq({d})
<1>7. <<>> \o <<>> = <<>>
  OBVIOUS
<1> QED BY <1>1, <1>2, <1>3, <1>4, <1>5, <1>6, <1>7

LEMMA Products ==
  /\ Append(<<>>, "a") = <<"a">> /\ Append(<<"a">>, "b") = <<"a", "b">>
  /\ Len(<<"a", "b">>) = 2 /\ Len(<<"a">>) = 1 /\ Len(<<>>) = 0
<1>1. Len(<<"a", "b">>) = 2
  OBVIOUS
<1>2. Len(<<"a">>) = 1
  OBVIOUS
<1>3. Len(<<>>) = 0
  OBVIOUS
<1>4. Append(<<>>, "a") = <<"a">>
  OBVIOUS
<1>5. Append(<<"a">>, "b") = <<"a", "b">>
  <2> DEFINE s == Append(<<"a">>, "b")
  <2>1. s \in Seq(Buffer) /\ <<"a", "b">> \in Seq(Buffer)
    BY AppendProperties DEF Buffer
  <2>2. Len(s) = 2 /\ s[1] = "a" /\ s[2] = "b"
    BY <1>2, AppendProperties DEF Buffer
  <2>3. Len(<<"a", "b">>) = 2 /\ <<"a", "b">>[1] = "a" /\ <<"a", "b">>[2] = "b"
    BY <1>1
  <2> HIDE DEF s
  <2>4. ASSUME NEW t \in Seq(Buffer), Len(t) = 2, t[1] = "a", t[2] = "b"
        PROVE  s = t
    <3>1. Len(s) = Len(t) /\ \A i \in 1 .. Len(s) : s[i] = t[i]
      BY <2>2, <2>4
    <3> QED BY <2>1, <2>4, <3>1, SeqEqual
  <2>5. s = <<"a", "b">>
    BY <2>1, <2>3, <2>4
  <2> QED BY <2>5 DEF s
<1> QED BY <1>1, <1>2, <1>3, <1>4, <1>5

-----------------------------------------------------------------------------
(* Types *)

LEMMA HlsTypedStep ==
  ASSUME HlsTyped, [Next]_vars  PROVE HlsTyped'
<1> USE DEF HlsTyped, Goto, GotoUnlessNull, Steps
<1>1. CASE UNCHANGED vars
  BY <1>1 DEF vars, accelVars, dmaVars, procVars
<1>2. CASE Probe
  BY <1>2 DEF Probe, dmaVars, procVars
<1>3. ASSUME NEW p \in Process,
             \/ Ioctl(p) \/ AllocBuffers(p) \/ SetupAccel(p) \/ CheckChannels(p)
             \/ PrepError(p) \/ WaitTimeout(p) \/ PrintOutput(p)
      PROVE  HlsTyped'
  <2>1. \E to \in Steps : pc' = [pc EXCEPT ![p] = to]
    BY <1>3 DEF Ioctl, AllocBuffers, SetupAccel, CheckChannels, PrepError, WaitTimeout, PrintOutput
  <2>2. UNCHANGED <<taken, dma_chan, cmp, dmaVars, cur, mapped, result>>
    BY <1>3 DEF Ioctl, AllocBuffers, SetupAccel, CheckChannels, PrepError, WaitTimeout,
       PrintOutput, accelVars
  <2> QED BY <2>1, <2>2 DEF dmaVars
<1>4. ASSUME NEW p \in Process, NEW c \in Chan, Request(p, c)
      PROVE  HlsTyped'
  <2>1. \E got \in BOOLEAN : dma_chan' = [dma_chan EXCEPT ![c] = got]
    <3>1. PICK got \in {~claimed[c]} \cup (IF May("no_channel") THEN {FALSE} ELSE {}) :
            dma_chan' = [dma_chan EXCEPT ![c] = got]
      BY <1>4 DEF Request
    <3>2. got \in BOOLEAN
      BY <3>1
    <3> QED BY <3>1, <3>2
  <2> QED BY <1>4, <2>1 DEF Request, accelVars, dmaVars
<1>5. ASSUME NEW p \in Process, Map(p)
      PROVE  HlsTyped'
  <2>1. \E m \in SUBSET Buffer : mapped' = [mapped EXCEPT ![p] = m]
    BY <1>5 DEF Map
  <2>2. mapped' \in [Process -> SUBSET Buffer]
    BY <2>1
  <2> QED BY <1>5, <2>2 DEF Map, accelVars, dmaVars
<1>6. ASSUME NEW p \in Process, PrepBuffer(p)
      PROVE  HlsTyped'
  <2>1. MyChan(p) \in Chan /\ <<p, cur[p]>> \in Transaction
    BY DEF MyChan, ChanOf, Chan, Transaction
  <2>2. Append(pending[MyChan(p)], <<p, cur[p]>>) \in Seq(Transaction)
    BY <2>1, AppendProperties
  <2>3. pending' \in [Chan -> Seq(Transaction)]
    BY <1>6, <2>2 DEF PrepBuffer
  <2> QED BY <1>6, <2>3 DEF PrepBuffer, accelVars
<1>7. ASSUME NEW p \in Process, InitCompletion(p)
      PROVE  HlsTyped'
  <2>1. MyChan(p) \in Chan
    BY DEF MyChan, ChanOf, Chan
  <2>2. cmp' \in [Chan -> Int]
    BY <1>7, <2>1 DEF InitCompletion
  <2> QED BY <1>7, <2>2 DEF InitCompletion, accelVars, dmaVars
<1>8. ASSUME NEW p \in Process, IssuePending(p)
      PROVE  HlsTyped'
  <2>1. MyChan(p) \in Chan
    BY DEF MyChan, ChanOf, Chan
  <2>2. active[MyChan(p)] \o pending[MyChan(p)] \in Seq(Transaction) /\ <<>> \in Seq(Transaction)
    BY <2>1, ConcatProperties
  <2>3. /\ pending' \in [Chan -> Seq(Transaction)] /\ active' \in [Chan -> Seq(Transaction)]
        /\ engine' \in [Chan -> Seq(Transaction)]
    BY <1>8, <2>1, <2>2 DEF IssuePending
  <2> QED BY <1>8, <2>3 DEF IssuePending, accelVars
<1>9. ASSUME NEW p \in Process, WaitDone(p)
      PROVE  HlsTyped'
  <2>1. MyChan(p) \in Chan
    BY DEF MyChan, ChanOf, Chan
  <2>2. cmp' \in [Chan -> Int]
    BY <1>9, <2>1 DEF WaitDone
  <2> QED BY <1>9, <2>2 DEF WaitDone, accelVars, dmaVars
<1>10. ASSUME NEW p \in Process, Unmap(p)
       PROVE  HlsTyped'
  <2>1. mapped' \in [Process -> SUBSET Buffer]
    <3>1. mapped[p] \ {cur[p]} \in SUBSET Buffer
      OBVIOUS
    <3> QED BY <1>10, <3>1 DEF Unmap
  <2>2. cur' \in [Process -> Buffer]
    BY <1>10 DEF Unmap, Buffer
  <2>3. \E to \in Steps : pc' = [pc EXCEPT ![p] = to]
    BY <1>10 DEF Unmap
  <2> QED BY <1>10, <2>1, <2>2, <2>3 DEF Unmap, accelVars, dmaVars
<1>11. ASSUME NEW p \in Process, NEW c \in Chan, ReleaseIfSet(p, c) \/ Release(p, c)
       PROVE  HlsTyped'
  <2>1. \E to \in Steps : pc' = [pc EXCEPT ![p] = to]
    BY <1>11 DEF ReleaseIfSet, Release
  <2>2. /\ pending' \in [Chan -> Seq(Transaction)] /\ active' \in [Chan -> Seq(Transaction)]
        /\ done' \in [Chan -> Seq(Transaction)]
    <3>1. \/ UNCHANGED <<pending, active, done>>
          \/ /\ pending' = [pending EXCEPT ![c] = <<>>] /\ active' = [active EXCEPT ![c] = <<>>]
             /\ done' = [done EXCEPT ![c] = <<>>]
      BY <1>11 DEF ReleaseIfSet, Release, Released
    <3>2. <<>> \in Seq(Transaction)
      OBVIOUS
    <3>3. CASE UNCHANGED <<pending, active, done>>
      BY <3>3
    <3>4. CASE /\ pending' = [pending EXCEPT ![c] = <<>>] /\ active' = [active EXCEPT ![c] = <<>>]
               /\ done' = [done EXCEPT ![c] = <<>>]
      BY <3>2, <3>4
    <3> QED BY <3>1, <3>3, <3>4
  <2> QED BY <1>11, <2>1, <2>2 DEF ReleaseIfSet, Release, accelVars
<1>12. ASSUME NEW p \in Process, FreeBuffers(p)
       PROVE  HlsTyped'
  <2>1. cur' \in [Process -> Buffer] /\ result' \in [Process -> Seq(Buffer)]
    BY <1>12 DEF FreeBuffers, Buffer
  <2> QED BY <1>12, <2>1 DEF FreeBuffers, accelVars, dmaVars
<1>13. ASSUME NEW c \in Chan, EngineDone(c)
       PROVE  HlsTyped'
  <2> DEFINE first == Head(engine[c])
  <2>1. engine[c] \in Seq(Transaction) /\ engine[c] # <<>>
    BY <1>13 DEF EngineDone
  <2>2. first \in Transaction /\ Tail(engine[c]) \in Seq(Transaction)
    BY <2>1, HeadTailProperties
  <2>3. first[1] \in Process /\ first[2] \in Buffer
    BY <2>2 DEF Transaction
  <2>4. /\ taken' = IF c = "tx" THEN Append(taken, first[2]) ELSE <<>>
        /\ result' = IF c = "tx" THEN result ELSE [result EXCEPT ![first[1]] = taken]
    BY <1>13 DEF EngineDone
  <2> HIDE DEF first
  <2>5. Append(taken, first[2]) \in Seq(Buffer)
    BY <2>3, AppendProperties
  <2>6. taken' \in Seq(Buffer) /\ result' \in [Process -> Seq(Buffer)]
    BY <2>3, <2>4, <2>5
  <2>7. done[c] \o active[c] \in Seq(Transaction) /\ <<>> \in Seq(Transaction)
    BY ConcatProperties
  <2>8. /\ pending' \in [Chan -> Seq(Transaction)] /\ active' \in [Chan -> Seq(Transaction)]
        /\ done' \in [Chan -> Seq(Transaction)] /\ engine' \in [Chan -> Seq(Transaction)]
    <3>1. \/ /\ engine' = [engine EXCEPT ![c] = pending[c]]
             /\ done' = [done EXCEPT ![c] = @ \o active[c]]
             /\ active' = [active EXCEPT ![c] = pending[c]]
             /\ pending' = [pending EXCEPT ![c] = <<>>]
          \/ /\ engine' = [engine EXCEPT ![c] = Tail(@)]
             /\ UNCHANGED <<pending, active, done>>
      BY <1>13 DEF EngineDone
    <3>2. CASE UNCHANGED <<pending, active, done>> /\ engine' = [engine EXCEPT ![c] = Tail(@)]
      BY <2>2, <3>2
    <3>3. CASE /\ engine' = [engine EXCEPT ![c] = pending[c]]
               /\ done' = [done EXCEPT ![c] = @ \o active[c]]
               /\ active' = [active EXCEPT ![c] = pending[c]]
               /\ pending' = [pending EXCEPT ![c] = <<>>]
      <4>1. pending[c] \in Seq(Transaction)
        OBVIOUS
      <4>2. done' \in [Chan -> Seq(Transaction)]
        BY <2>7, <3>3
      <4>3. engine' \in [Chan -> Seq(Transaction)] /\ active' \in [Chan -> Seq(Transaction)]
        BY <3>3, <4>1
      <4>4. pending' \in [Chan -> Seq(Transaction)]
        BY <2>7, <3>3
      <4> QED BY <4>2, <4>3, <4>4
    <3> QED BY <3>1, <3>2, <3>3
  <2> QED BY <1>13, <2>6, <2>8 DEF EngineDone
<1>14. ASSUME NEW c \in Chan, Tasklet(c)
       PROVE  HlsTyped'
  <2>1. Tail(done[c]) \in Seq(Transaction)
    BY <1>14, HeadTailProperties DEF Tasklet
  <2> QED BY <1>14, <2>1 DEF Tasklet, accelVars, procVars
<1>15. ASSUME NEW c \in Chan, SyncCallback(c)
       PROVE  HlsTyped'
  <2>1. cmp' \in [Chan -> Int]
    BY <1>15 DEF SyncCallback
  <2> QED BY <1>15, <2>1 DEF SyncCallback, accelVars, procVars
<1> QED BY <1>1, <1>2, <1>3, <1>4, <1>5, <1>6, <1>7, <1>8, <1>9, <1>10, <1>11, <1>12, <1>13,
           <1>14, <1>15 DEF Next, Test, ChannelStep
-----------------------------------------------------------------------------
(* The steps *)

\* What HlsInv says of the process p, and the channel that it uses.
LEMMA HlsOf ==
  ASSUME HlsInv, NEW p \in Process
  PROVE  /\ HlsTyped /\ HlsAt(p) /\ TestAt(p)
         /\ pc[p] \in Steps /\ cur[p] \in Buffer
         /\ MyChan(p) \in Chan
         /\ Transferring(p) => dma_chan[MyChan(p)]
BY DEF HlsInv, HlsTyped, HlsAt, TestAt, MyChan, ChanOf, Chan

\* A step of p to a point outside of the transfers.
LEMMA ToOutside ==
  ASSUME OneProcess, HlsTyped', NEW p \in Process, TestAt(p)', ~Transferring(p)',
         clean' => /\ taken' = <<>> /\ engine'["tx"] = <<>> /\ pending'["tx"] = <<>>
                   /\ pc'[p] = "output" => result'[p] = <<"a", "b">>,
         \A c \in Chan : Orderly(c)' => Resting(c)'
  PROVE  HlsInv'
<1>1. ~Received(p)' /\ pc'[p] \notin {"init", "issue", "wait"}
  BY DEF Transferring, Received
<1>2. clean' => MatricesAt(p)'
  BY <1>1 DEF MatricesAt, InputsAt
<1>3. \A c \in Chan : Orderly(c)' => ChannelAt(p, c)'
  BY <1>1 DEF ChannelAt
<1> QED BY <1>2, <1>3 DEF HlsInv, HlsAt, OneProcess

\* Where no transfer is being made the accelerator is empty, and so is a channel on
\* which nothing was left.
LEMMA RestsOutside ==
  ASSUME HlsInv, NEW p \in Process, ~Transferring(p)
  PROVE  /\ clean => taken = <<>> /\ engine["tx"] = <<>> /\ pending["tx"] = <<>>
         /\ \A c \in Chan : Orderly(c) => Resting(c)
BY HlsOf DEF HlsAt, ChannelAt, MatricesAt, InputsAt, Transferring

\* The steps between the points outside of the transfers.
LEMMA OutsideStep ==
  ASSUME OneProcess, HlsInv, HlsTyped', NEW p \in Process,
         \/ Ioctl(p) \/ AllocBuffers(p) \/ SetupAccel(p) \/ PrintOutput(p) \/ FreeBuffers(p)
         \/ \E c \in Chan : Request(p, c) \/ ReleaseIfSet(p, c) \/ Release(p, c)
         \/ (CheckChannels(p) /\ pc'[p] = "err_tx")
  PROVE  HlsInv'
<1> USE DEF At, Goto
<1>1. HlsTyped /\ TestAt(p) /\ pc[p] \in Steps
  BY HlsOf
<1>2. ~Transferring(p) /\ ~Transferring(p)' /\ pc'[p] # "output"
  <2>1. CASE Ioctl(p) \/ AllocBuffers(p) \/ SetupAccel(p) \/ PrintOutput(p) \/ FreeBuffers(p)
    BY <1>1, <2>1 DEF Ioctl, AllocBuffers, SetupAccel, PrintOutput, FreeBuffers, HlsTyped,
       Transferring
  <2>2. ASSUME NEW c \in Chan, Request(p, c) \/ ReleaseIfSet(p, c) \/ Release(p, c)
        PROVE  ~Transferring(p) /\ ~Transferring(p)' /\ pc'[p] # "output"
    <3>1. /\ pc[p] \in {"request_tx", "request_rx", "err_tx", "err_rx", "end_tx", "end_rx"}
          /\ pc'[p] \in {"request_rx", "check", "err_rx", "end_rx", "kfree", "oops"}
      BY <1>1, <2>2 DEF Request, ReleaseIfSet, Release, HlsTyped
    <3> QED BY <3>1 DEF Transferring
  <2>3. CASE CheckChannels(p) /\ pc'[p] = "err_tx"
    BY <1>1, <2>3 DEF CheckChannels, Transferring
  <2> QED BY <2>1, <2>2, <2>3
<1>3. UNCHANGED <<taken, engine, calling, clean, timely>>
  BY DEF Ioctl, AllocBuffers, SetupAccel, PrintOutput, FreeBuffers, Request, ReleaseIfSet,
     Release, CheckChannels, accelVars, dmaVars, history
<1>4. \/ UNCHANGED <<pending, active, done>>
      \/ \E c \in Chan : /\ pending' = [pending EXCEPT ![c] = <<>>]
                         /\ active' = [active EXCEPT ![c] = <<>>]
                         /\ done' = [done EXCEPT ![c] = <<>>]
  BY DEF Ioctl, AllocBuffers, SetupAccel, PrintOutput, FreeBuffers, Request, ReleaseIfSet,
     Release, Released, CheckChannels, dmaVars
<1>5. \A c \in Chan : /\ pending'[c] = pending[c] \/ pending'[c] = <<>>
                      /\ active'[c] = active[c] \/ active'[c] = <<>>
                      /\ done'[c] = done[c] \/ done'[c] = <<>>
  BY <1>1, <1>4 DEF HlsTyped
<1>6. clean' => taken' = <<>> /\ engine'["tx"] = <<>> /\ pending'["tx"] = <<>>
  BY <1>2, <1>3, <1>5, RestsOutside DEF Chan
<1>7. \A c \in Chan : Orderly(c)' => Resting(c)'
  BY <1>2, <1>3, <1>5, RestsOutside DEF Resting, Orderly
<1>8. TestAt(p)'
  <2>1. CASE Ioctl(p) \/ AllocBuffers(p) \/ SetupAccel(p)
    <3>1. /\ pc[p] \in {"idle", "alloc", "setup"} /\ UNCHANGED cur
          /\ pc'[p] \in {"idle", "alloc", "setup", "request_tx", "oops"}
      BY <1>1, <2>1 DEF Ioctl, AllocBuffers, SetupAccel, HlsTyped
    <3> QED BY <1>1, <3>1 DEF TestAt, Preparing, Transferring
  <2>2. CASE PrintOutput(p)
    BY <1>1, <2>2 DEF PrintOutput, TestAt, Preparing, Transferring, HlsTyped
  <2>3. CASE FreeBuffers(p)
    BY <1>1, <2>3 DEF FreeBuffers, TestAt, Preparing, Transferring, HlsTyped
  <2>4. ASSUME NEW c \in Chan, Request(p, c)
        PROVE  TestAt(p)'
    <3>1. pc'[p] \in {"request_rx", "check"} /\ pc[p] \in {"request_tx", "request_rx"} /\ cur' = cur
      BY <1>1, <2>4 DEF Request, HlsTyped
    <3> QED BY <1>1, <3>1 DEF TestAt, Preparing, Transferring
  <2>5. ASSUME NEW c \in Chan, ReleaseIfSet(p, c) \/ Release(p, c)
        PROVE  TestAt(p)'
    <3>1. /\ pc'[p] \in {"err_rx", "kfree", "oops"} \/ (pc[p] = "end_tx" /\ pc'[p] = "end_rx")
          /\ UNCHANGED <<dma_chan, cur>>
      BY <1>1, <2>5 DEF ReleaseIfSet, Release, HlsTyped
    <3> QED BY <1>1, <3>1 DEF TestAt, Preparing, Transferring
  <2>6. CASE CheckChannels(p) /\ pc'[p] = "err_tx"
    BY <2>6 DEF TestAt, Preparing, Transferring
  <2> QED BY <2>1, <2>2, <2>3, <2>4, <2>5, <2>6
<1> QED BY <1>2, <1>6, <1>7, <1>8, ToOutside

\* The test of the channels begins the transfers.
LEMMA BeginStep ==
  ASSUME OneProcess, HlsInv, HlsTyped', NEW p \in Process, CheckChannels(p),
         pc'[p] # "err_tx"
  PROVE  HlsInv'
<1>1. /\ pc[p] = "check" /\ pc'[p] = "map" /\ cur[p] = "a"
      /\ \A c \in Chan : dma_chan[c]
      /\ UNCHANGED <<taken, dma_chan, dmaVars, cur, clean, timely>>
  BY HlsOf DEF CheckChannels, At, Goto, HlsTyped, TestAt, Preparing, accelVars, history
<1>2. /\ clean => taken = <<>> /\ engine["tx"] = <<>> /\ pending["tx"] = <<>>
      /\ \A c \in Chan : Orderly(c) => Resting(c)
  BY <1>1, RestsOutside DEF Transferring
<1>3. TestAt(p)'
  BY <1>1 DEF TestAt, Preparing
<1>4. clean' => MatricesAt(p)'
  BY <1>1, <1>2 DEF MatricesAt, InputsAt, Received, dmaVars
<1>5. \A c \in Chan : Orderly(c)' => ChannelAt(p, c)'
  BY <1>1, <1>2 DEF ChannelAt, Resting, Orderly, dmaVars
<1> QED BY <1>3, <1>4, <1>5 DEF HlsInv, HlsAt, OneProcess

\* Only the first input may fail to be submitted without the test leaving something
\* behind.
LEMMA PrepErrorStep ==
  ASSUME OneProcess, HlsInv, HlsTyped', NEW p \in Process, PrepError(p)
  PROVE  HlsInv'
<1>1. /\ pc[p] = "prep" /\ pc'[p] \in {"output", "err_tx"}
      /\ clean' => clean /\ cur[p] = "a" /\ pc'[p] = "err_tx"
      /\ UNCHANGED <<taken, dma_chan, dmaVars, cur, mapped, timely>>
  BY HlsOf DEF PrepError, At, Goto, HlsTyped, accelVars
<1>2. TestAt(p)'
  BY <1>1, HlsOf DEF TestAt, Transferring, Preparing
<1>3. clean' => taken' = <<>> /\ engine'["tx"] = <<>> /\ pending'["tx"] = <<>>
  BY <1>1, HlsOf DEF HlsAt, MatricesAt, InputsAt, dmaVars
<1>4. \A c \in Chan : Orderly(c)' => Resting(c)'
  BY <1>1, HlsOf DEF HlsAt, ChannelAt, Resting, Orderly, dmaVars
<1> QED BY <1>1, <1>2, <1>3, <1>4, ToOutside DEF Transferring

\* The steps of a transfer before its start.
LEMMA PrepareStep ==
  ASSUME OneProcess, HlsInv, HlsTyped', NEW p \in Process,
         Map(p) \/ PrepBuffer(p) \/ InitCompletion(p)
  PROVE  HlsInv'
<1> USE DEF At, Goto, GotoUnlessNull
<1> DEFINE k == MyChan(p)
<1>1. /\ HlsTyped /\ TestAt(p) /\ k \in Chan /\ k' = k /\ cur[p] \in Buffer
      /\ UNCHANGED <<taken, dma_chan, active, done, engine, calling, cur, result, clean, timely>>
  BY HlsOf DEF Map, PrepBuffer, InitCompletion, accelVars, dmaVars, history, MyChan
<1>2. Transferring(p) /\ ~Received(p) /\ dma_chan[k]
  BY HlsOf DEF Map, PrepBuffer, InitCompletion, Transferring, Received
<1>3. \/ Map(p) /\ pc[p] = "map" /\ pc'[p] = "prep"
      \/ PrepBuffer(p) /\ pc[p] = "prep" /\ pc'[p] = "init"
      \/ InitCompletion(p) /\ pc[p] = "init" /\ pc'[p] = "issue"
  BY <1>1, <1>2 DEF Map, PrepBuffer, InitCompletion, HlsTyped
<1>4. Transferring(p)' /\ ~Received(p)'
  BY <1>3 DEF Transferring, Received
<1>5. TestAt(p)'
  <2>1. cur'[p] \in mapped'[p]
    <3>1. CASE Map(p)
      BY <1>1, <1>2, <3>1 DEF Map, HlsTyped
    <3>2. CASE PrepBuffer(p) \/ InitCompletion(p)
      BY <1>1, <1>3, <3>2 DEF PrepBuffer, InitCompletion, TestAt
    <3> QED BY <1>3, <3>1, <3>2
  <2> QED BY <1>1, <1>2, <1>3, <2>1 DEF TestAt, Transferring, Preparing
<1>6. CASE Map(p)
  <2>1. pc[p] = "map" /\ pc'[p] = "prep" /\ UNCHANGED pending
    BY <1>2, <1>3, <1>6 DEF Map, dmaVars
  <2>2. clean' => MatricesAt(p)'
    BY <1>1, <1>2, <1>4, <2>1, HlsOf DEF HlsAt, MatricesAt, InputsAt
  <2>3. \A c \in Chan : Orderly(c)' => ChannelAt(p, c)'
    BY <1>1, <2>1, HlsOf DEF HlsAt, ChannelAt, Resting, Orderly
  <2> QED BY <1>5, <2>2, <2>3 DEF HlsInv, HlsAt, OneProcess
<1>7. CASE PrepBuffer(p)
  <2>1. pc[p] = "prep" /\ pc'[p] = "init"
    BY <1>3, <1>7 DEF PrepBuffer, Map, InitCompletion
  <2>2. /\ pending'[k] = Append(pending[k], Mine(p))
        /\ \A c \in Chan \ {k} : pending'[c] = pending[c]
    BY <1>1, <1>2, <1>7 DEF PrepBuffer, HlsTyped, Mine
  <2>3. pending[k] = <<>> => pending'[k] = <<Mine(p)>>
    BY <2>2, One
  <2>4. clean' => MatricesAt(p)'
    <3>1. CASE cur[p] = "out"
      <4>1. pending'["tx"] = pending["tx"]
        BY <2>2, <3>1 DEF MyChan, ChanOf, Chan
      <4> QED BY <1>1, <1>2, <1>4, <2>1, <3>1, <4>1, HlsOf DEF HlsAt, MatricesAt, InputsAt
    <3>2. CASE cur[p] # "out"
      <4>1. k = "tx"
        BY <3>2 DEF MyChan, ChanOf
      <4>2. pending["tx"] = <<>> => pending'["tx"] = <<<<p, cur[p]>>>>
        BY <2>3, <4>1 DEF Mine
      <4> QED BY <1>1, <1>2, <1>4, <2>1, <3>2, <4>2, HlsOf DEF HlsAt, MatricesAt, InputsAt, Buffer
    <3> QED BY <3>1, <3>2
  <2>5. ASSUME NEW c \in Chan, Orderly(c)'  PROVE ChannelAt(p, c)'
    <3>1. Resting(c)
      BY <1>1, <2>1, <2>5, HlsOf DEF HlsAt, ChannelAt, Orderly
    <3>2. CASE c = k
      <4>1. pending'[c] = <<Mine(p)>>
        BY <2>3, <3>1, <3>2 DEF Resting
      <4>2. Submitted(p, c)'
        BY <1>1, <3>1, <4>1 DEF Submitted, Resting, Mine
      <4> QED BY <1>1, <2>1, <3>2, <4>2 DEF ChannelAt
    <3>3. CASE c # k
      <4>1. Resting(c)'
        BY <1>1, <2>2, <3>1, <3>3 DEF Resting
      <4> QED BY <1>1, <3>3, <4>1 DEF ChannelAt
    <3> QED BY <3>2, <3>3
  <2> QED BY <1>5, <2>4, <2>5 DEF HlsInv, HlsAt, OneProcess
<1>8. CASE InitCompletion(p)
  <2>1. pc[p] = "init" /\ pc'[p] = "issue" /\ cmp'[k] = 0 /\ UNCHANGED pending
    BY <1>1, <1>3, <1>8 DEF InitCompletion, Map, PrepBuffer, HlsTyped, dmaVars
  <2>2. clean' => MatricesAt(p)'
    BY <1>1, <1>2, <1>4, <2>1, HlsOf DEF HlsAt, MatricesAt, InputsAt
  <2>3. ASSUME NEW c \in Chan, Orderly(c)'  PROVE ChannelAt(p, c)'
    <3>1. ChannelAt(p, c)
      BY <1>1, <2>3, HlsOf DEF HlsAt, Orderly
    <3> QED BY <1>1, <2>1, <3>1 DEF ChannelAt, Resting, Submitted, Mine
  <2> QED BY <1>5, <2>2, <2>3 DEF HlsInv, HlsAt, OneProcess
<1> QED BY <1>6, <1>7, <1>8

\* The transfer starts, unless the engine is still at work on the input before.
LEMMA IssueStep ==
  ASSUME OneProcess, HlsInv, HlsTyped', NEW p \in Process, IssuePending(p)
  PROVE  HlsInv'
<1> DEFINE k == MyChan(p)
<1>1. /\ HlsTyped /\ TestAt(p) /\ k \in Chan /\ k' = k /\ cur[p] \in Buffer
      /\ pc[p] = "issue" /\ pc'[p] = "wait"
      /\ UNCHANGED <<taken, dma_chan, cmp, done, calling, cur, mapped, result, clean, timely>>
  BY HlsOf DEF HlsTyped, IssuePending, At, Goto, accelVars, MyChan, history
<1>2. TestAt(p)'
  BY <1>1 DEF TestAt, Transferring, Preparing
<1>3. \A c \in Chan \ {k} : UNCHANGED <<pending[c], active[c], engine[c]>>
  BY <1>1 DEF IssuePending, HlsTyped
<1>4. /\ engine[k] = <<>> => /\ pending'[k] = <<>> /\ engine'[k] = pending[k]
                            /\ active'[k] = active[k] \o pending[k]
      /\ engine[k] # <<>> => UNCHANGED <<pending[k], active[k], engine[k]>>
  BY <1>1 DEF IssuePending, HlsTyped
<1>5. ASSUME NEW c \in Chan, Orderly(c)'  PROVE ChannelAt(p, c)'
  <2>1. ChannelAt(p, c)
    BY <1>1, <1>5, HlsOf DEF HlsAt, Orderly
  <2>2. CASE c = k
    <3>1. Submitted(p, c) /\ cmp[c] = 0
      BY <1>1, <2>1, <2>2 DEF ChannelAt
    <3>2. /\ pending'[c] = <<>> /\ engine'[c] = <<Mine(p)>> /\ active'[c] = <<Mine(p)>>
      BY <1>4, <2>2, <3>1, One DEF Submitted
    <3>3. OnItsWay(p, c)'
      BY <1>1, <3>1, <3>2 DEF OnItsWay, Submitted, Mine
    <3> QED BY <1>1, <2>2, <3>3 DEF ChannelAt
  <2>3. CASE c # k
    <3>1. Resting(c)'
      BY <1>1, <1>3, <2>1, <2>3 DEF ChannelAt, Resting
    <3> QED BY <1>1, <2>3, <3>1 DEF ChannelAt
  <2> QED BY <2>2, <2>3
<1>6. ASSUME clean'  PROVE MatricesAt(p)'
  <2>1. MatricesAt(p) /\ Transferring(p) /\ Transferring(p)' /\ ~Received(p)
    BY <1>1, <1>6, HlsOf DEF HlsAt, Transferring, Received
  <2>2. CASE cur[p] = "out"
    <3>1. k = "rx"
      BY <2>2 DEF MyChan, ChanOf
    <3>2. engine'["rx"] # <<>>
      <4>1. Submitted(p, "rx")
        BY <1>1, <1>6, <3>1, HlsOf DEF HlsAt, ChannelAt, Orderly
      <4> QED BY <1>4, <3>1, <4>1, One DEF Submitted
    <3>3. UNCHANGED <<pending["tx"], engine["tx"]>>
      BY <1>3, <3>1 DEF Chan
    <3>4. ~Received(p)'
      BY <1>1, <3>2 DEF Received
    <3> QED BY <1>1, <2>1, <2>2, <3>3, <3>4 DEF MatricesAt, InputsAt
  <2>3. CASE cur[p] # "out"
    <3>1. k = "tx"
      BY <2>3 DEF MyChan, ChanOf
    <3>2. ~Received(p)'
      BY <1>1, <2>3 DEF Received
    <3>3. InputsAt(p, taken, engine["tx"], pending["tx"])
      BY <2>1 DEF MatricesAt
    <3>4. CASE engine["tx"] = <<>>
      <4>1. pending'["tx"] = <<>> /\ engine'["tx"] = pending["tx"]
        BY <1>4, <3>1, <3>4
      <4>2. <<>> # <<<<p, "a">>>> /\ <<>> # <<<<p, "b">>>>
        BY One
      <4>3. InputsAt(p, taken, engine["tx"], pending["tx"])'
        BY <1>1, <2>1, <2>3, <3>2, <3>3, <3>4, <4>1, <4>2 DEF InputsAt, Buffer
      <4> QED BY <1>1, <3>2, <4>3 DEF MatricesAt
    <3>5. CASE engine["tx"] # <<>>
      <4>1. UNCHANGED <<pending["tx"], engine["tx"]>>
        BY <1>1, <1>4, <3>1, <3>5
      <4>2. InputsAt(p, taken, engine["tx"], pending["tx"])'
        BY <1>1, <2>1, <2>3, <3>2, <3>3, <3>5, <4>1 DEF InputsAt, Buffer
      <4> QED BY <1>1, <3>2, <4>2 DEF MatricesAt
    <3> QED BY <3>4, <3>5
  <2> QED BY <2>2, <2>3
<1> QED BY <1>2, <1>5, <1>6 DEF HlsInv, HlsAt, OneProcess

\* The process goes on when its transfer is over, and by then the tasklet has run; or
\* its timer has run out, and then the channel is not orderly any more.
LEMMA WaitStep ==
  ASSUME OneProcess, HlsInv, HlsTyped', NEW p \in Process, WaitDone(p) \/ WaitTimeout(p)
  PROVE  HlsInv'
<1> DEFINE k == MyChan(p)
<1>1. /\ HlsTyped /\ TestAt(p) /\ k \in Chan /\ k' = k /\ cur[p] \in Buffer
      /\ pc[p] = "wait" /\ pc'[p] = "unmap"
      /\ UNCHANGED <<taken, dma_chan, dmaVars, cur, mapped, result>>
  BY HlsOf DEF HlsTyped, WaitDone, WaitTimeout, At, Goto, accelVars, MyChan
<1>2. /\ clean' => clean /\ (cmp[k] > 0 \/ cur[p] # "out")
      /\ timely' => timely /\ cmp[k] > 0
  <2>1. CASE WaitDone(p)
    BY <2>1, Zenon DEF WaitDone, history
  <2>2. CASE WaitTimeout(p)
    BY <2>2, Zenon DEF WaitTimeout
  <2> QED BY <2>1, <2>2
<1>3. TestAt(p)'
  BY <1>1 DEF TestAt, Transferring, Preparing
<1>4. ASSUME NEW c \in Chan, Orderly(c)'  PROVE ChannelAt(p, c)'
  <2>1. Orderly(c) /\ ChannelAt(p, c) /\ UNCHANGED <<pending, active, done, engine, calling>>
    BY <1>1, <1>2, <1>4, HlsOf DEF HlsAt, Orderly, dmaVars
  <2>2. CASE c = k
    <3>1. cmp[c] > 0
      <4>1. cur[p] # "out" => c = "tx"
        BY <2>2 DEF MyChan, ChanOf
      <4> QED BY <1>2, <1>4, <2>2, <4>1 DEF Orderly
    <3>2. Resting(c)
      BY <1>1, <2>1, <2>2, <3>1 DEF ChannelAt, OnItsWay, Resting
    <3> QED BY <1>1, <2>1, <3>2 DEF ChannelAt, Resting
  <2>3. CASE c # k
    BY <1>1, <2>1, <2>3 DEF ChannelAt, Resting
  <2> QED BY <2>2, <2>3
<1>5. ASSUME clean'  PROVE MatricesAt(p)'
  <2>1. clean /\ MatricesAt(p) /\ UNCHANGED <<pending, engine>>
    BY <1>1, <1>2, <1>5, HlsOf DEF HlsAt, dmaVars
  <2>2. cur[p] = "out" => engine["rx"] = <<>>
    <3>1. SUFFICES ASSUME cur[p] = "out"  PROVE engine["rx"] = <<>>
      OBVIOUS
    <3>2. k = "rx" /\ cmp[k] > 0
      BY <1>2, <1>5, <3>1 DEF MyChan, ChanOf
    <3>3. ChannelAt(p, "rx")
      BY <2>1, HlsOf DEF HlsAt, Orderly, Chan
    <3> QED BY <1>1, <3>2, <3>3 DEF ChannelAt, OnItsWay
  <2>3. Received(p)' <=> Received(p)
    BY <1>1, <2>1, <2>2 DEF Received
  <2> QED BY <1>1, <2>1, <2>3 DEF MatricesAt, InputsAt, Transferring
<1> QED BY <1>3, <1>4, <1>5 DEF HlsInv, HlsAt, OneProcess

\* The next transfer, or the output, comes when an orderly channel rests.
LEMMA UnmapStep ==
  ASSUME OneProcess, HlsInv, HlsTyped', NEW p \in Process, Unmap(p)
  PROVE  HlsInv'
<1>1. /\ HlsTyped /\ TestAt(p) /\ pc[p] = "unmap" /\ dma_chan[MyChan(p)] /\ cur[p] \in Buffer
      /\ pc'[p] = IF cur[p] = "out" THEN "output" ELSE "map"
      /\ cur'[p] = IF cur[p] = "a" THEN "b" ELSE "out"
      /\ UNCHANGED <<taken, dma_chan, dmaVars, result, clean, timely>>
  BY HlsOf DEF HlsTyped, Unmap, At, Goto, GotoUnlessNull, accelVars, Transferring, history
<1>2. TestAt(p)'
  BY <1>1 DEF TestAt, Transferring, Preparing
<1>3. ASSUME NEW c \in Chan, Orderly(c)'  PROVE ChannelAt(p, c)'
  <2>1. Resting(c) /\ UNCHANGED <<pending, active, done, engine, calling>>
    BY <1>1, <1>3, HlsOf DEF HlsAt, ChannelAt, Orderly, dmaVars
  <2> QED BY <1>1, <2>1 DEF ChannelAt, Resting
<1>4. ASSUME clean'  PROVE MatricesAt(p)'
  <2>1. MatricesAt(p) /\ UNCHANGED <<pending, engine>>
    BY <1>1, <1>4, HlsOf DEF HlsAt, dmaVars
  <2>2. Transferring(p) /\ (Received(p) <=> cur[p] = "out") /\ ~Received(p)'
    BY <1>1 DEF Received, Transferring
  <2>3. pc'[p] = "output" => ~Transferring(p)' /\ cur[p] = "out"
    BY <1>1 DEF Transferring
  <2>4. pc'[p] # "output" => Transferring(p)' /\ pc'[p] = "map" /\ cur[p] \in {"a", "b"}
    BY <1>1 DEF Transferring, Buffer
  <2>5. InputsAt(p, taken, engine["tx"], pending["tx"])'
    BY <1>1, <2>1, <2>2, <2>3, <2>4 DEF MatricesAt, InputsAt
  <2> QED BY <1>1, <2>1, <2>2, <2>3, <2>5 DEF MatricesAt
<1> QED BY <1>2, <1>3, <1>4 DEF HlsInv, HlsAt, OneProcess

\* The accelerator takes in the inputs in their order, and its product is received
\* when it has both.
LEMMA EngineStep ==
  ASSUME HlsInv, HlsTyped', NEW p \in Process, NEW c \in Chan, EngineDone(c)
  PROVE  HlsAt(p)'
<1>1. /\ HlsTyped /\ HlsAt(p) /\ cur[p] \in Buffer /\ engine[c] # <<>> /\ Moves(c)
      /\ UNCHANGED <<dma_chan, cmp, calling, pc, cur, mapped, clean, timely>>
  BY HlsOf DEF EngineDone, history
<1>2. /\ TestAt(p)' /\ Transferring(p)' = Transferring(p)
      /\ MyChan(p)' = MyChan(p) /\ Mine(p)' = Mine(p)
  BY <1>1, HlsOf DEF TestAt, Transferring, Preparing, MyChan, Mine
<1>3. \A x \in Chan \ {c} : UNCHANGED <<pending[x], active[x], done[x], engine[x]>>
  BY <1>1 DEF EngineDone, HlsTyped
<1>4. Tail(engine[c]) = <<>> =>
        /\ engine'[c] = pending[c] /\ pending'[c] = <<>>
        /\ active'[c] = pending[c] /\ done'[c] = done[c] \o active[c]
  <2> SUFFICES ASSUME Tail(engine[c]) = <<>>
               PROVE  /\ engine'[c] = pending[c] /\ pending'[c] = <<>>
                      /\ active'[c] = pending[c] /\ done'[c] = done[c] \o active[c]
    OBVIOUS
  <2>1. /\ engine' = [engine EXCEPT ![c] = pending[c]]
        /\ done' = [done EXCEPT ![c] = @ \o active[c]]
        /\ active' = [active EXCEPT ![c] = pending[c]]
        /\ pending' = [pending EXCEPT ![c] = <<>>]
    BY DEF EngineDone
  <2> QED BY <1>1, <2>1 DEF HlsTyped
<1>5. /\ c = "tx" => taken' = Append(taken, Head(engine["tx"])[2]) /\ result' = result
      /\ c = "rx" => /\ taken' = <<>>
                     /\ result' = [result EXCEPT ![Head(engine["rx"])[1]] = taken]
  BY DEF EngineDone
<1>6. ASSUME NEW x \in Chan, Orderly(x)  PROVE ChannelAt(p, x)'
  <2>1. ChannelAt(p, x)
    BY <1>1, <1>6 DEF HlsAt
  <2>2. CASE x = c
    <3>1. /\ x = MyChan(p) /\ pc[p] = "wait" /\ pending[x] = <<>> /\ cmp[x] = 0
          /\ active[x] = <<Mine(p)>> /\ engine[x] = <<Mine(p)>> /\ done[x] = <<>> /\ ~calling[x]
      BY <1>1, <2>1, <2>2 DEF ChannelAt, OnItsWay, Resting, Submitted
    <3>2. /\ engine'[x] = <<>> /\ pending'[x] = <<>> /\ active'[x] = <<>>
          /\ done'[x] = <<Mine(p)>>
      BY <1>4, <2>2, <3>1, One
    <3>3. OnItsWay(p, x)'
      BY <1>1, <1>2, <3>1, <3>2 DEF OnItsWay
    <3> QED BY <1>1, <1>2, <3>1, <3>3 DEF ChannelAt
  <2>3. CASE x # c
    BY <1>1, <1>2, <1>3, <2>1, <2>3 DEF ChannelAt, OnItsWay, Resting, Submitted
  <2> QED BY <2>2, <2>3
<1>7. ASSUME clean, c = "tx"  PROVE MatricesAt(p)'
  <2> DEFINE a == <<p, "a">>
             b == <<p, "b">>
  <2>1. /\ MatricesAt(p) /\ UNCHANGED <<engine["rx"], result>>
    BY <1>1, <1>3, <1>5, <1>7 DEF HlsAt, Chan
  <2>2. Received(p)' = Received(p)
    BY <1>1, <2>1 DEF Received
  <2>3. /\ Transferring(p) /\ ~Received(p)
        /\ ~(cur[p] = "a" /\ pc[p] \in {"map", "prep", "init", "issue"})
    BY <1>1, <1>7, <2>1 DEF MatricesAt, InputsAt
  <2>4. a[2] = "a" /\ b[2] = "b"
    OBVIOUS
  <2>5. CASE taken = <<>> /\ engine["tx"] = <<a>>
    <3>1. /\ taken' = <<"a">> /\ engine'["tx"] = pending["tx"] /\ pending'["tx"] = <<>>
      BY <1>4, <1>5, <1>7, <2>4, <2>5, One
    <3>2. InputsAt(p, taken, engine["tx"], pending["tx"])'
      BY <1>1, <1>2, <2>1, <2>2, <2>3, <2>5, <3>1, Products DEF MatricesAt, InputsAt
    <3> QED BY <1>1, <2>1, <2>2, <3>2 DEF MatricesAt
  <2>6. CASE taken = <<"a">> /\ engine["tx"] = <<b>>
    <3>1. /\ taken' = <<"a", "b">> /\ engine'["tx"] = pending["tx"] /\ pending'["tx"] = <<>>
      BY <1>4, <1>5, <1>7, <2>4, <2>6, One, Products
    <3>2. InputsAt(p, taken, engine["tx"], pending["tx"])'
      BY <1>1, <1>2, <2>1, <2>2, <2>3, <2>6, <3>1, Products DEF MatricesAt, InputsAt
    <3> QED BY <1>1, <2>1, <2>2, <3>2 DEF MatricesAt
  <2>7. (taken = <<>> /\ engine["tx"] = <<a>>) \/ (taken = <<"a">> /\ engine["tx"] = <<b>>)
    BY <1>1, <1>7, <2>1, <2>3 DEF MatricesAt, InputsAt
  <2> QED BY <2>5, <2>6, <2>7
<1>8. ASSUME clean, c = "rx"  PROVE MatricesAt(p)'
  <2>1. MatricesAt(p) /\ ChannelAt(p, "rx") /\ Len(taken) = 2
    BY <1>1, <1>8 DEF HlsAt, Orderly, Moves, Chan
  <2>2. /\ MyChan(p) = "rx" /\ pc[p] = "wait" /\ engine["rx"] = <<Mine(p)>> /\ pending["rx"] = <<>>
    BY <1>1, <1>8, <2>1 DEF ChannelAt, OnItsWay, Resting, Submitted, Chan
  <2>3. cur[p] = "out"
    BY <2>2 DEF MyChan, ChanOf
  <2>4. Transferring(p) /\ ~Received(p)
    BY <1>1, <1>8, <2>2 DEF Transferring, Received
  <2>5. taken = <<"a", "b">> /\ engine["tx"] = <<>> /\ pending["tx"] = <<>>
    <3>1. taken # <<>> /\ taken # <<"a">>
      BY <2>1, Products
    <3> QED BY <2>1, <2>2, <2>3, <2>4, <3>1 DEF MatricesAt, InputsAt
  <2>6. Head(engine["rx"])[1] = p /\ engine'["rx"] = <<>>
    BY <1>4, <1>8, <2>2, One DEF Mine
  <2>7. taken' = <<>> /\ result'[p] = <<"a", "b">>
    BY <1>1, <1>5, <1>8, <2>5, <2>6 DEF HlsTyped
  <2>8. Received(p)' /\ UNCHANGED <<engine["tx"], pending["tx"]>>
    BY <1>1, <1>3, <1>8, <2>2, <2>3, <2>6 DEF Received, Chan
  <2> QED BY <2>5, <2>7, <2>8 DEF MatricesAt, InputsAt
<1> QED BY <1>1, <1>2, <1>6, <1>7, <1>8 DEF HlsAt, Chan, Orderly

\* The tasklet and its callback finish the transfer that the process waits for.
LEMMA CallbackStep ==
  ASSUME HlsInv, HlsTyped', NEW p \in Process, NEW c \in Chan, Tasklet(c) \/ SyncCallback(c)
  PROVE  HlsAt(p)'
<1>1. /\ HlsTyped /\ HlsAt(p)
      /\ UNCHANGED <<taken, dma_chan, pending, active, engine, pc, cur, mapped, result, clean,
                     timely>>
  BY HlsOf DEF Tasklet, SyncCallback, accelVars, procVars, history
<1>2. TestAt(p)' /\ (clean' => MatricesAt(p)')
  BY <1>1 DEF HlsAt, TestAt, Transferring, Preparing, MatricesAt, InputsAt, Received
<1>3. \A x \in Chan \ {c} : UNCHANGED <<done[x], calling[x], cmp[x]>>
  BY <1>1 DEF Tasklet, SyncCallback, HlsTyped
<1>4. ASSUME NEW x \in Chan, Orderly(x)  PROVE ChannelAt(p, x)'
  <2>1. ChannelAt(p, x)
    BY <1>1, <1>4 DEF HlsAt
  <2>2. CASE x # c
    BY <1>1, <1>3, <2>1, <2>2 DEF ChannelAt, OnItsWay, Resting, Submitted, MyChan, Mine
  <2>3. CASE x = c
    <3>1. x = MyChan(p) /\ pc[p] = "wait" /\ OnItsWay(p, x)
      <4>1. done[x] # <<>> \/ calling[x]
        BY <2>3 DEF Tasklet, SyncCallback
      <4> QED BY <1>1, <2>1, <4>1 DEF ChannelAt, Resting, Submitted
    <3>2. CASE Tasklet(c)
      <4>1. /\ done[x] = <<Mine(p)>> /\ cmp[x] = 0
            /\ active[x] = <<>> /\ engine[x] = <<>> /\ pending[x] = <<>>
        BY <2>3, <3>1, <3>2 DEF Tasklet, OnItsWay
      <4>2. done'[x] = <<>> /\ calling'[x] /\ cmp'[x] = cmp[x]
        BY <1>1, <2>3, <3>2, <4>1, One DEF Tasklet, HlsTyped
      <4>3. OnItsWay(p, x)'
        BY <1>1, <4>1, <4>2 DEF OnItsWay
      <4> QED BY <1>1, <3>1, <4>3 DEF ChannelAt, MyChan
    <3>3. CASE SyncCallback(c)
      <4>1. /\ done[x] = <<>> /\ cmp[x] = 0
            /\ active[x] = <<>> /\ engine[x] = <<>> /\ pending[x] = <<>>
        BY <2>3, <3>1, <3>3 DEF SyncCallback, OnItsWay
      <4>2. done'[x] = <<>> /\ ~calling'[x] /\ cmp'[x] = 1
        BY <1>1, <2>3, <3>3, <4>1 DEF SyncCallback, HlsTyped
      <4>3. OnItsWay(p, x)'
        BY <1>1, <4>1, <4>2 DEF OnItsWay
      <4> QED BY <1>1, <3>1, <4>3 DEF ChannelAt, MyChan
    <3> QED BY <3>2, <3>3
  <2> QED BY <2>2, <2>3
<1> QED BY <1>1, <1>2, <1>4 DEF HlsAt, Orderly

\* Every step keeps the invariant.
LEMMA HlsStep ==
  ASSUME OneProcess, HlsInv, [Next]_vars  PROVE HlsInv'
<1>1. HlsTyped'
  BY HlsTypedStep DEF HlsInv
<1>2. ASSUME NEW p \in Process, Ioctl(p) \/ Test(p)
      PROVE  HlsInv'
  BY <1>1, <1>2, OutsideStep, BeginStep, PrepareStep, PrepErrorStep, IssueStep, WaitStep, UnmapStep
     DEF Test
<1>3. CASE \E c \in Chan : ChannelStep(c)
  BY <1>1, <1>3, EngineStep, CallbackStep DEF HlsInv, ChannelStep
<1>4. CASE Probe \/ UNCHANGED vars
  <2>1. UNCHANGED <<taken, dma_chan, cmp, pending, active, done, engine, calling, pc, cur,
                    mapped, result, clean, timely>>
    BY <1>4 DEF Probe, vars, accelVars, dmaVars, procVars, history
  <2>2. ASSUME NEW p \in Process  PROVE HlsAt(p)'
    <3>1. HlsAt(p)
      BY HlsOf
    <3>2. TestAt(p)' /\ (clean' => MatricesAt(p)')
      BY <2>1, <3>1 DEF HlsAt, TestAt, Transferring, Preparing, MatricesAt, InputsAt, Received
    <3>3. ASSUME NEW c \in Chan, Orderly(c)'  PROVE ChannelAt(p, c)'
      BY <2>1, <3>1, <3>3 DEF HlsAt, ChannelAt, OnItsWay, Resting, Submitted, MyChan, Mine, Orderly
    <3> QED BY <3>2, <3>3 DEF HlsAt
  <2> QED BY <1>1, <2>2 DEF HlsInv
<1> QED BY <1>2, <1>3, <1>4 DEF Next

LEMMA HlsInvariance == ASSUME OneProcess PROVE Spec => []HlsInv
<1>1. Init => HlsInv
  <2> SUFFICES ASSUME Init  PROVE HlsInv
    OBVIOUS
  <2>1. HlsTyped
    BY DEF Init, HlsTyped, Buffer, Steps, Chan
  <2>2. ASSUME NEW p \in Process  PROVE HlsAt(p)
    BY DEF Init, HlsAt, TestAt, ChannelAt, MatricesAt, InputsAt, Transferring, Preparing,
       Received, Resting, Chan
  <2> QED BY <2>1, <2>2 DEF HlsInv
<1>2. HlsInv /\ [Next]_vars => HlsInv'
  BY HlsStep
<1> QED BY <1>1, <1>2, PTL DEF Spec

\* Of one process the output is the product of the two inputs of the same test, in
\* their order, whatever fails and whichever waits for inputs time out, until a test
\* stops after its first input or the wait for an output times out.
THEOREM OutputIsRight == ASSUME OneProcess PROVE Spec => []OutputIsOfInputs
<1>1. HlsInv => OutputIsOfInputs
  BY DEF HlsInv, HlsAt, MatricesAt, OutputIsOfInputs, At
<1> QED BY <1>1, HlsInvariance, PTL

\* Until then an engine transfers no buffer that has been unmapped, an input only if
\* no wait has timed out.
THEOREM BuffersMapped == ASSUME OneProcess PROVE Spec => []MappedWhileDma
<1>1. HlsInv => MappedWhileDma
  <2> SUFFICES ASSUME HlsInv, NEW c \in Chan, Orderly(c), NEW i \in DOMAIN engine[c]
               PROVE  engine[c][i][2] \in mapped[engine[c][i][1]]
    BY DEF MappedWhileDma, Orderly
  <2>1. engine[c] \in Seq(Transaction) /\ engine[c][i] \in Transaction
    BY DEF HlsInv, HlsTyped
  <2>2. PICK q \in Process : engine[c][i][1] = q
    BY <2>1 DEF Transaction
  <2>3. HlsAt(q) /\ ChannelAt(q, c)
    BY DEF HlsInv, HlsAt
  <2>4. engine[c] # <<>>
    OBVIOUS
  <2>5. pc[q] = "wait" /\ engine[c] = <<Mine(q)>>
    BY <2>3, <2>4 DEF ChannelAt, OnItsWay, Resting, Submitted
  <2>6. engine[c][i] = Mine(q)
    BY <2>5
  <2> QED BY <2>3, <2>5, <2>6 DEF HlsAt, TestAt, Mine
<1> QED BY <1>1, HlsInvariance, PTL
=============================================================================
