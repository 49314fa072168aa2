---------------------------- MODULE DmaLifecycle ----------------------------
(***************************************************************************)
(* The driver of the DMA engine and its client come and go independently:  *)
(* VxdmaProbe and DmaProxyInit meet at the channels that the dmaengine     *)
(* core hands out ("owner").  A crash stops the kernel.                    *)
(***************************************************************************)
EXTENDS DmaProxyInit

vars == <<probeVars, owner, crash, proxyVars>>

Init == ProbeInit /\ ProxyInit /\ crash = "none"

\* The steps of VxdmaProbe.
Driving ==
  \/ Probe /\ UNCHANGED proxyVars
  \/ BadChild /\ UNCHANGED proxyVars
  \/ StoreChan /\ UNCHANGED proxyVars
  \/ ResetChan /\ UNCHANGED proxyVars
  \/ InitLists /\ UNCHANGED proxyVars
  \/ RequestIrq /\ UNCHANGED proxyVars
  \/ AddToChannels /\ UNCHANGED proxyVars
  \/ Register /\ UNCHANGED proxyVars
  \/ OfRegister /\ UNCHANGED proxyVars
  \/ Remove /\ UNCHANGED proxyVars
  \/ ChanRemove /\ UNCHANGED proxyVars
  \/ DevmRelease /\ UNCHANGED proxyVars
  \/ \E c \in Id : Interrupt(c) /\ UNCHANGED proxyVars
  \/ \E n \in XlateArgs : Xlate(n) /\ UNCHANGED proxyVars
  \/ \E c \in Id : OfRelease(c) /\ UNCHANGED proxyVars

Next == crash = "none" /\ (Driving \/ Proxying)

Spec == Init /\ [][Next]_vars

TypeOK == ProbeTypeOK /\ ProxyTypeOK

\* Over every order of binding, unbinding, loading, unloading and use, with interrupts
\* at any time: the kernel only crashes in a client whose channel was freed under it,
\* or in a handler that was left requested for a channel that was freed.  No list is
\* followed before it is made, no entry of the array that is not set, no class, device
\* or buffer that is gone or was never got.
OnlyStaleCrashes == crash \in {"none", "stale_client", "stale_irq"}
-----------------------------------------------------------------------------
(* One more that the code has only if nobody unbinds the engine driver. *)

NoCrash == crash = "none"
=============================================================================
