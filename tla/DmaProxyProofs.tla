--------------------------- MODULE DmaProxyProofs ---------------------------
(***************************************************************************)
(* The DMA proxy.  The types hold for any number of processes; what a call *)
(* of ioctl reports is right when one process uses the channel, which is   *)
(* how the driver is meant to be used: with two, the cookie and the        *)
(* completion of the channel may be those of the other call.               *)
(***************************************************************************)
EXTENDS DmaProxy, TLAPS

\* One process uses the channel at a time.
OneProcess == \A p, q \in Process : p = q

\* TypeOK and the one fact its bound on cmp rests on: each callback has had a
\* transaction of its own.
ProxyTyped ==
  /\ TypeOK
  /\ cmp <= notified

\* The channel holds the cookie of this call from the assignment until ioctl returns,
\* and the call gets past the check only with one that is not an error code.
CookieAt(p) ==
  /\ pc[p] \in {"check", "busy", "wait", "result", "unmap"} => cookie = mine[p]
  /\ pc[p] \in {"busy", "wait", "result", "unmap"} => mine[p] # Error

\* Once submitted, the transfer of this call has its callback ahead, or has counted it.
WakeUpAt(p) ==
  pc[p] \in {"issue", "assign", "check", "busy", "wait"} /\ mine[p] # Error
    => cmp > 0 \/ notified < mine[p]

ProxyInv ==
  /\ ProxyTyped
  /\ \A p \in Process : CookieAt(p) /\ WakeUpAt(p)
-----------------------------------------------------------------------------
(* Types *)

LEMMA TypedInit == ASSUME ProxyAssumption, Init PROVE ProxyTyped
BY DEF ProxyAssumption, Init, Dma!Init, ProxyTyped, TypeOK, Error, Steps

\* The operations of the channel keep its counters in order.
LEMMA CountersStep ==
  ASSUME ProxyAssumption, ProxyTyped,
         \/ submitted < MaxTransfers /\ Dma!Submit
         \/ Dma!Start
         \/ Dma!Complete
  PROVE  /\ submitted' \in 0 .. MaxTransfers /\ started' \in 0 .. submitted'
         /\ completed' \in 0 .. started' /\ notified' \in 0 .. completed'
         /\ notified' = notified /\ completed <= completed'
<1>1. CASE submitted < MaxTransfers /\ Dma!Submit
  BY <1>1 DEF ProxyAssumption, ProxyTyped, TypeOK, Dma!Submit
<1>2. CASE Dma!Start
  BY <1>2 DEF ProxyAssumption, ProxyTyped, TypeOK, Dma!Start
<1>3. CASE Dma!Complete
  BY <1>3 DEF ProxyAssumption, ProxyTyped, TypeOK, Dma!Complete
<1> QED BY <1>1, <1>2, <1>3

\* A process that goes on to another step keeps the type of pc.
LEMMA GotoTyped ==
  ASSUME ProxyTyped, NEW p \in Process, NEW step \in Steps, Goto(p, step)
  PROVE  /\ pc' \in [Process -> Steps] /\ pc'[p] = step
         /\ \A q \in Process : q # p => pc'[q] = pc[q]
BY DEF ProxyTyped, TypeOK, Goto

LEMMA TypedStep ==
  ASSUME ProxyAssumption, ProxyTyped, [Next]_vars  PROVE ProxyTyped'
<1>0. /\ {"idle", "transfer", "prep", "init_completion", "submit", "issue", "assign",
          "check", "busy", "wait", "result", "unmap"} \subseteq Steps
      /\ submitted \in Int /\ started \in Int /\ completed \in Int /\ notified \in Int
      /\ cmp \in Int /\ MaxTransfers \in Nat /\ Error = -1
  BY DEF Steps, ProxyTyped, TypeOK, ProxyAssumption, Error
<1>1. CASE UNCHANGED vars
  BY <1>1 DEF vars, dmaVars, ProxyTyped, TypeOK
<1>2. ASSUME NEW p \in Process, Ioctl(p) \/ Transfer(p)  PROVE ProxyTyped'
  <2>1. CASE \/ Ioctl(p) \/ MapBuffer(p) \/ PrepSlave(p) \/ CheckCookie(p)
    <3>1. \E step \in Steps : Goto(p, step)
      BY <1>0, <2>1 DEF Ioctl, MapBuffer, PrepSlave, CheckCookie
    <3>2. UNCHANGED <<dmaVars, cmp, cookie, status, mine, expired, unmapped>>
      BY <2>1 DEF Ioctl, MapBuffer, PrepSlave, CheckCookie
    <3> QED BY <3>1, <3>2, GotoTyped DEF dmaVars, ProxyTyped, TypeOK
  <2>2. CASE PrepSlaveError(p)
    <3>1. pc' \in [Process -> Steps]
      BY <1>0, <2>2, GotoTyped DEF PrepSlaveError
    <3>2. mine' \in [Process -> Error .. MaxTransfers]
      BY <1>0, <2>2 DEF PrepSlaveError, ProxyTyped, TypeOK
    <3> QED BY <2>2, <3>1, <3>2 DEF PrepSlaveError, dmaVars, ProxyTyped, TypeOK
  <2>3. CASE InitCompletion(p)
    <3>1. pc' \in [Process -> Steps]
      BY <1>0, <2>3, GotoTyped DEF InitCompletion
    <3> QED BY <1>0, <2>3, <3>1 DEF InitCompletion, dmaVars, ProxyTyped, TypeOK
  <2>4. CASE Submit(p)
    <3>1. pc' \in [Process -> Steps]
      BY <1>0, <2>4, GotoTyped DEF Submit
    <3>2. /\ submitted' \in 0 .. MaxTransfers /\ started' \in 0 .. submitted'
          /\ completed' \in 0 .. started' /\ notified' \in 0 .. completed'
          /\ notified' = notified
      BY <2>4, CountersStep DEF Submit, dmaVars, ProxyTyped, TypeOK
    <3>3. mine' \in [Process -> Error .. MaxTransfers]
      BY <1>0, <2>4, <3>2 DEF Submit, ProxyTyped, TypeOK
    <3> QED BY <2>4, <3>1, <3>2, <3>3 DEF Submit, ProxyTyped, TypeOK
  <2>5. CASE IssuePending(p)
    <3>1. pc' \in [Process -> Steps]
      BY <1>0, <2>5, GotoTyped DEF IssuePending
    <3>2. /\ submitted' \in 0 .. MaxTransfers /\ started' \in 0 .. submitted'
          /\ completed' \in 0 .. started' /\ notified' \in 0 .. completed'
          /\ notified' = notified
      BY <2>5, CountersStep DEF IssuePending, dmaVars, ProxyTyped, TypeOK
    <3> QED BY <2>5, <3>1, <3>2 DEF IssuePending, ProxyTyped, TypeOK
  <2>6. CASE AssignCookie(p)
    <3>1. pc' \in [Process -> Steps]
      BY <1>0, <2>6, GotoTyped DEF AssignCookie
    <3>2. cookie' \in Error .. MaxTransfers
      BY <2>6 DEF AssignCookie, ProxyTyped, TypeOK
    <3> QED BY <2>6, <3>1, <3>2 DEF AssignCookie, dmaVars, ProxyTyped, TypeOK
  <2>7. CASE SetBusy(p) \/ SetResult(p)
    <3>1. pc' \in [Process -> Steps]
      BY <1>0, <2>7, GotoTyped DEF SetBusy, SetResult
    <3>2. status' \in {"no_error", "busy", "timeout", "error"}
      BY <2>7 DEF SetBusy, SetResult
    <3> QED BY <2>7, <3>1, <3>2 DEF SetBusy, SetResult, dmaVars, ProxyTyped, TypeOK
  <2>8. CASE WaitDone(p) \/ WaitTimeout(p)
    <3>1. pc' \in [Process -> Steps]
      BY <1>0, <2>8, GotoTyped DEF WaitDone, WaitTimeout
    <3>2. expired' \in [Process -> BOOLEAN]
      BY <2>8 DEF WaitDone, WaitTimeout, ProxyTyped, TypeOK
    <3>3. cmp' \in 0 .. MaxTransfers /\ cmp' <= notified
      BY <1>0, <2>8 DEF WaitDone, WaitTimeout, ProxyTyped, TypeOK
    <3> QED
      BY <2>8, <3>1, <3>2, <3>3 DEF WaitDone, WaitTimeout, dmaVars, ProxyTyped, TypeOK
  <2>9. CASE Unmap(p)
    <3>1. pc' \in [Process -> Steps]
      BY <1>0, <2>9, GotoTyped DEF Unmap
    <3>2. unmapped' \subseteq Error .. MaxTransfers
      BY <2>9 DEF Unmap, ProxyTyped, TypeOK
    <3> QED BY <2>9, <3>1, <3>2 DEF Unmap, dmaVars, ProxyTyped, TypeOK
  <2> QED BY <1>2, <2>1, <2>2, <2>3, <2>4, <2>5, <2>6, <2>7, <2>8, <2>9 DEF Transfer
<1>3. CASE ChannelStart \/ ChannelComplete
  <2>1. /\ submitted' \in 0 .. MaxTransfers /\ started' \in 0 .. submitted'
        /\ completed' \in 0 .. started' /\ notified' \in 0 .. completed'
        /\ notified' = notified
    BY <1>3, CountersStep DEF ChannelStart, ChannelComplete
  <2> QED BY <1>3, <2>1 DEF ChannelStart, ChannelComplete, ProxyTyped, TypeOK
<1>4. CASE SyncCallback
  <2>1. /\ notified' = notified + 1 /\ notified < completed /\ cmp' = cmp + 1
        /\ UNCHANGED <<submitted, started, completed, cookie, status, pc, mine, expired, unmapped>>
    BY <1>4 DEF SyncCallback, Dma!Notify
  <2>2. notified' \in 0 .. completed' /\ cmp' \in 0 .. MaxTransfers /\ cmp' <= notified'
    BY <1>0, <2>1 DEF ProxyTyped, TypeOK
  <2> QED BY <2>1, <2>2 DEF ProxyTyped, TypeOK
<1> QED BY <1>1, <1>2, <1>3, <1>4 DEF Next

\* The variables of the driver and the counters of its channel have their types, for
\* any number of processes and all errors: the count of the completion is never more
\* than the callbacks that sync_callback was called for.
THEOREM TypeCorrect ==
  ASSUME ProxyAssumption  PROVE Spec => []TypeOK
<1>1. Init => ProxyTyped BY TypedInit
<1>2. ProxyTyped /\ [Next]_vars => ProxyTyped' BY TypedStep
<1>3. ProxyTyped => TypeOK BY DEF ProxyTyped
<1> QED BY <1>1, <1>2, <1>3, PTL DEF Spec
-----------------------------------------------------------------------------
(* One process *)

LEMMA OneProcessInit == ASSUME ProxyAssumption, Init PROVE ProxyInv
BY TypedInit DEF Init, ProxyInv, CookieAt, WakeUpAt

LEMMA OneProcessStep ==
  ASSUME ProxyAssumption, OneProcess, ProxyInv, [Next]_vars  PROVE ProxyInv'
<1>0. /\ {"idle", "transfer", "prep", "init_completion", "submit", "issue", "assign",
          "check", "busy", "wait", "result", "unmap"} \subseteq Steps
      /\ ProxyTyped /\ ProxyTyped'
  BY TypedStep DEF ProxyInv, Steps
<1>1. CASE UNCHANGED vars
  BY <1>0, <1>1 DEF vars, dmaVars, ProxyInv, CookieAt, WakeUpAt
<1>2. ASSUME NEW p \in Process, Ioctl(p) \/ Transfer(p)  PROVE ProxyInv'
  <2>0. \A q \in Process : q = p
    BY DEF OneProcess
  <2>1. CookieAt(p) /\ WakeUpAt(p) /\ pc \in [Process -> Steps] /\ mine \in [Process -> Int]
    BY <1>0 DEF ProxyInv, ProxyTyped, TypeOK, Error
  <2>2. CASE Ioctl(p) \/ MapBuffer(p) \/ PrepSlave(p) \/ PrepSlaveError(p) \/ InitCompletion(p)
    <3>1. pc'[p] \in {"transfer", "prep", "init_completion", "assign", "submit"}
      BY <1>0, <2>1, <2>2
      DEF Ioctl, MapBuffer, PrepSlave, PrepSlaveError, InitCompletion, Goto
    <3>2. pc'[p] = "assign" => mine'[p] = Error
      BY <1>0, <2>1, <2>2
      DEF Ioctl, MapBuffer, PrepSlave, PrepSlaveError, InitCompletion, Goto
    <3> QED BY <1>0, <2>0, <3>1, <3>2 DEF ProxyInv, CookieAt, WakeUpAt
  <2>3. CASE Submit(p)
    <3>1. pc'[p] = "issue"
      BY <2>1, <2>3 DEF Submit, Goto
    <3>2. mine'[p] # Error => notified' < mine'[p]
      <4>1. CASE submitted < MaxTransfers /\ Dma!Submit /\ mine' = [mine EXCEPT ![p] = submitted']
        <5>1. mine'[p] = submitted + 1 /\ notified' = notified
          BY <2>1, <4>1 DEF Dma!Submit
        <5> QED BY <1>0, <5>1 DEF ProxyTyped, TypeOK
      <4>2. CASE mine' = [mine EXCEPT ![p] = Error]
        BY <2>1, <4>2
      <4> QED BY <2>3, <4>1, <4>2 DEF Submit
    <3> QED BY <1>0, <2>0, <3>1, <3>2 DEF ProxyInv, CookieAt, WakeUpAt
  <2>4. CASE IssuePending(p)
    <3>1. pc[p] = "issue" /\ pc'[p] = "assign" /\ UNCHANGED <<cmp, mine, notified>>
      BY <2>1, <2>4 DEF IssuePending, Goto, At, Dma!Start, dmaVars
    <3> QED BY <1>0, <2>0, <2>1, <3>1 DEF ProxyInv, CookieAt, WakeUpAt
  <2>5. CASE AssignCookie(p)
    <3>1. /\ pc[p] = "assign" /\ pc'[p] = "check" /\ cookie' = mine[p]
          /\ UNCHANGED <<cmp, mine, notified>>
      BY <2>1, <2>5 DEF AssignCookie, Goto, At, dmaVars
    <3> QED BY <1>0, <2>0, <2>1, <3>1 DEF ProxyInv, CookieAt, WakeUpAt
  <2>6. CASE CheckCookie(p)
    <3>1. /\ pc[p] = "check" /\ pc'[p] = IF cookie = Error THEN "idle" ELSE "busy"
          /\ UNCHANGED <<cookie, cmp, mine, notified>>
      BY <2>1, <2>6 DEF CheckCookie, Goto, At, dmaVars
    <3> QED BY <1>0, <2>0, <2>1, <3>1 DEF ProxyInv, CookieAt, WakeUpAt
  <2>7. CASE SetBusy(p)
    <3>1. /\ pc[p] = "busy" /\ pc'[p] = "wait"
          /\ UNCHANGED <<cookie, cmp, mine, notified>>
      BY <2>1, <2>7 DEF SetBusy, Goto, At, dmaVars
    <3> QED BY <1>0, <2>0, <2>1, <3>1 DEF ProxyInv, CookieAt, WakeUpAt
  <2>8. CASE WaitDone(p) \/ WaitTimeout(p) \/ SetResult(p) \/ Unmap(p)
    <3>1. /\ pc[p] \in {"wait", "result", "unmap"} /\ pc'[p] \in {"result", "unmap", "idle"}
          /\ UNCHANGED <<cookie, mine>>
      BY <2>1, <2>8 DEF WaitDone, WaitTimeout, SetResult, Unmap, Goto, At
    <3> QED BY <1>0, <2>0, <2>1, <3>1 DEF ProxyInv, CookieAt, WakeUpAt
  <2> QED BY <1>2, <2>2, <2>3, <2>4, <2>5, <2>6, <2>7, <2>8 DEF Transfer
<1>3. CASE ChannelStart \/ ChannelComplete
  <2>1. UNCHANGED <<cookie, cmp, mine, notified, pc>>
    BY <1>3 DEF ChannelStart, ChannelComplete, Dma!Start, Dma!Complete
  <2> QED BY <1>0, <2>1 DEF ProxyInv, CookieAt, WakeUpAt
<1>4. CASE SyncCallback
  <2>1. cmp' = cmp + 1 /\ UNCHANGED <<cookie, mine, pc>>
    BY <1>4 DEF SyncCallback
  <2>2. cmp' > 0
    BY <1>0, <2>1 DEF ProxyTyped, TypeOK
  <2> QED BY <1>0, <2>1, <2>2 DEF ProxyInv, CookieAt, WakeUpAt
<1> QED BY <1>1, <1>2, <1>3, <1>4 DEF Next

LEMMA OneProcessInvariance ==
  ASSUME ProxyAssumption, OneProcess  PROVE Spec => []ProxyInv
<1>1. Init => ProxyInv BY OneProcessInit
<1>2. ProxyInv /\ [Next]_vars => ProxyInv' BY OneProcessStep
<1> QED BY <1>1, <1>2, PTL DEF Spec

\* Which action of a single process leaves a step.
LEMMA LeavesResult ==
  ASSUME OneProcess, ProxyInv, [Next]_vars, NEW p \in Process,
         At(p, "result"), pc'[p] # "result"
  PROVE  SetResult(p)
<1>1. PICK q \in Process : Ioctl(q) \/ Transfer(q)
  BY DEF Next, vars, At, ChannelStart, ChannelComplete, SyncCallback
<1>2. q = p BY DEF OneProcess
<1> QED
  BY <1>1, <1>2 DEF Transfer, At, Ioctl, MapBuffer, PrepSlave, PrepSlaveError, InitCompletion,
     Submit, IssuePending, AssignCookie, CheckCookie, SetBusy, WaitDone, WaitTimeout, Unmap

LEMMA LeavesWait ==
  ASSUME OneProcess, ProxyInv, [Next]_vars, NEW p \in Process,
         At(p, "wait"), pc'[p] = "result"
  PROVE  WaitDone(p) \/ WaitTimeout(p)
<1>1. PICK q \in Process : Ioctl(q) \/ Transfer(q)
  BY DEF Next, vars, At, ChannelStart, ChannelComplete, SyncCallback
<1>2. q = p BY DEF OneProcess
<1> QED
  BY <1>1, <1>2 DEF Transfer, At, Ioctl, MapBuffer, PrepSlave, PrepSlaveError, InitCompletion,
     Submit, IssuePending, AssignCookie, CheckCookie, SetBusy, SetResult, Unmap

\* For one process and all errors, late timers included: when wait_for_transfer reports
\* PROXY_NO_ERROR, the transfer that this call of ioctl submitted is complete.  The
\* wake-up may be of an earlier transfer that timed out; what makes the result true is
\* that the channel still holds the cookie of this call when it is asked about.
THEOREM ResultsAreTrue ==
  ASSUME ProxyAssumption, OneProcess  PROVE Spec => ResultIsTrue
<1>1. ProxyInv /\ [Next]_vars
      => [\A p \in Process : At(p, "result") /\ pc'[p] # "result" /\ status' = "no_error"
           => mine[p] <= completed]_vars
  <2> SUFFICES ASSUME ProxyInv, [Next]_vars, NEW p \in Process,
                      At(p, "result"), pc'[p] # "result", status' = "no_error"
               PROVE  mine[p] <= completed
    OBVIOUS
  <2>1. SetResult(p) BY LeavesResult
  <2>2. cookie = mine[p] BY DEF ProxyInv, CookieAt, At
  <2> QED BY <2>1, <2>2 DEF SetResult, TxComplete
<1> QED BY <1>1, OneProcessInvariance, PTL DEF Spec, ResultIsTrue

\* For one process and all errors: wait_for_transfer reports PROXY_TIMEOUT only of a
\* transfer whose callback has not run.  init_completion comes before the submit, so
\* the callback of this transfer cannot be wiped out, however early it is.
THEOREM NoLostWakeUp ==
  ASSUME ProxyAssumption, OneProcess  PROVE Spec => NoFalseTimeout
<1>1. ProxyInv /\ [Next]_vars
      => [\A p \in Process : At(p, "wait") /\ pc'[p] = "result" /\ expired'[p]
           => notified < mine[p]]_vars
  <2> SUFFICES ASSUME ProxyInv, [Next]_vars, NEW p \in Process,
                      At(p, "wait"), pc'[p] = "result", expired'[p]
               PROVE  notified < mine[p]
    OBVIOUS
  <2>1. WaitDone(p) \/ WaitTimeout(p) BY LeavesWait
  <2>2. ~WaitDone(p) BY DEF WaitDone, ProxyInv, ProxyTyped, TypeOK
  <2>3. cmp = 0 BY <2>1, <2>2 DEF WaitTimeout
  <2>4. mine[p] # Error BY DEF ProxyInv, CookieAt, At
  <2>5. WakeUpAt(p) BY DEF ProxyInv
  <2> QED BY <2>3, <2>4, <2>5 DEF WakeUpAt, At
<1> QED BY <1>1, OneProcessInvariance, PTL DEF Spec, NoFalseTimeout
=============================================================================
