------------------------ MODULE VxdmaChannelProofs ------------------------
(***************************************************************************)
(* What is proved of a channel of the driver, for every set of clients and *)
(* descriptors, every size of the pool and every choice of calls and       *)
(* faults, unless a theorem says which it needs:                           *)
(*  - its variables keep their types, and a descriptor has one owner;      *)
(*  - the three lists are the queue of DmaEngineQueue, and its callbacks   *)
(*    come in order;                                                       *)
(*  - segments and descriptors are neither lost nor doubled;               *)
(*  - a cyclic transaction stays, and nothing is queued behind it;         *)
(*  - the interrupt stays enabled while the engine is at work;             *)
(*  - next_desc leads the hardware through the transactions in the order   *)
(*    of the lists;                                                        *)
(*  - the engine works on what is active and filled in, a transaction      *)
(*    completes when all of it is transferred, and idle means drained.     *)
(*                                                                         *)
(* Types and owners are proved together.  That CURDESC, TAILDESC and       *)
(* next_desc are addresses of segments needs descriptors that have         *)
(* segments; that a queued descriptor keeps its segments needs that no     *)
(* client and no tasklet holds it as well.                                 *)
(***************************************************************************)
EXTENDS VxdmaRefinement, SequenceTheorems, FiniteSetTheorems, WellFoundedInduction, TLAPS

-----------------------------------------------------------------------------
(* Lists.  Facts about the operations of the kernel's lists, as sequences:
   what list_add_tail, list_del of the first entry and list_splice_tail_init do
   to the set of entries, and that they keep the entries distinct. *)

\* The entries of a list have the type of its entries.
LEMMA RangeType ==
  ASSUME NEW S, NEW l \in Seq(S)
  PROVE  Range(l) \subseteq S
BY DEF Range

\* The empty list has no entries.
LEMMA EmptyList == Range(<<>>) = {} /\ IsInjective(<<>>)
BY DEF Range, IsInjective

\* list_add_tail adds the new entry to the set of entries.
LEMMA AppendList ==
  ASSUME NEW S, NEW l \in Seq(S), NEW e \in S
  PROVE  /\ Append(l, e) \in Seq(S) /\ Append(l, e) # <<>>
         /\ Range(Append(l, e)) = Range(l) \cup {e}
         /\ IsInjective(l) /\ e \notin Range(l) => IsInjective(Append(l, e))
<1>1. /\ Append(l, e) \in Seq(S) /\ Append(l, e) # <<>>
      /\ Len(Append(l, e)) = Len(l) + 1
      /\ \A i \in 1 .. Len(l) : Append(l, e)[i] = l[i]
      /\ Append(l, e)[Len(l) + 1] = e
  BY AppendProperties
<1>2. Len(l) \in Nat /\ DOMAIN l = 1 .. Len(l)
      /\ DOMAIN Append(l, e) = 1 .. Len(l) + 1
  BY <1>1, LenProperties
<1>3. Range(Append(l, e)) = Range(l) \cup {e}
  BY <1>1, <1>2 DEF Range
<1>4. ASSUME IsInjective(l), e \notin Range(l)
      PROVE  IsInjective(Append(l, e))
  BY <1>1, <1>2, <1>4 DEF Range, IsInjective
<1> QED BY <1>1, <1>3, <1>4

\* list_del of the first entry takes it, and nothing else, out of the set.
LEMMA TailList ==
  ASSUME NEW S, NEW l \in Seq(S), l # <<>>
  PROVE  /\ Tail(l) \in Seq(S) /\ Head(l) \in S
         /\ Range(l) = {Head(l)} \cup Range(Tail(l))
         /\ IsInjective(l) => Head(l) \notin Range(Tail(l)) /\ IsInjective(Tail(l))
<1>1. /\ Head(l) \in S /\ Tail(l) \in Seq(S) /\ Len(Tail(l)) = Len(l) - 1
      /\ \A i \in 1 .. Len(Tail(l)) : Tail(l)[i] = l[i + 1]
  BY HeadTailProperties
<1>2. Len(l) \in Nat \ {0} /\ DOMAIN l = 1 .. Len(l)
      /\ DOMAIN Tail(l) = 1 .. Len(l) - 1
  BY <1>1, LenProperties, EmptySeq
<1>3. Head(l) = l[1]
  BY <1>2
<1>4. Range(l) \subseteq {Head(l)} \cup Range(Tail(l))
  <2> SUFFICES ASSUME NEW i \in 1 .. Len(l), i # 1
               PROVE  l[i] \in Range(Tail(l))
    BY <1>2, <1>3 DEF Range
  <2> i - 1 \in 1 .. Len(l) - 1 /\ l[i] = Tail(l)[i - 1]
    BY <1>1, <1>2
  <2> QED BY <1>2 DEF Range
<1>5. {Head(l)} \cup Range(Tail(l)) \subseteq Range(l)
  BY <1>1, <1>2, <1>3 DEF Range
<1>6. ASSUME IsInjective(l)
      PROVE  Head(l) \notin Range(Tail(l)) /\ IsInjective(Tail(l))
  <2>1. \A i \in 1 .. Len(l) - 1 : i + 1 \in 1 .. Len(l) /\ i + 1 # 1
    BY <1>2
  <2> QED BY <1>1, <1>2, <1>3, <1>6, <2>1 DEF Range, IsInjective
<1> QED BY <1>1, <1>4, <1>5, <1>6

\* list_splice_tail_init joins the sets of entries.
LEMMA ConcatList ==
  ASSUME NEW S, NEW l \in Seq(S), NEW m \in Seq(S)
  PROVE  /\ l \o m \in Seq(S)
         /\ Range(l \o m) = Range(l) \cup Range(m)
         /\ IsInjective(l) /\ IsInjective(m) /\ Range(l) \cap Range(m) = {}
              => IsInjective(l \o m)
<1>1. /\ l \o m \in Seq(S) /\ Len(l \o m) = Len(l) + Len(m)
      /\ \A i \in 1 .. Len(l) + Len(m) :
           (l \o m)[i] = IF i <= Len(l) THEN l[i] ELSE m[i - Len(l)]
  BY ConcatProperties
<1>2. Len(l) \in Nat /\ Len(m) \in Nat /\ DOMAIN l = 1 .. Len(l)
      /\ DOMAIN m = 1 .. Len(m) /\ DOMAIN (l \o m) = 1 .. Len(l) + Len(m)
  BY <1>1, LenProperties
<1>3. Range(l \o m) = Range(l) \cup Range(m)
  BY RangeConcatenation
<1>4. ASSUME IsInjective(l), IsInjective(m), Range(l) \cap Range(m) = {}
      PROVE  IsInjective(l \o m)
  <2>1. \A i \in 1 .. Len(l), j \in 1 .. Len(m) : l[i] # m[j]
    BY <1>2, <1>4 DEF Range
  <2>2. SUFFICES ASSUME NEW i \in 1 .. Len(l) + Len(m), NEW j \in 1 .. Len(l) + Len(m),
                        (l \o m)[i] = (l \o m)[j]
                 PROVE  i = j
    BY <1>2 DEF IsInjective
  <2>3. CASE i <= Len(l) /\ j <= Len(l)
    BY <1>1, <1>2, <1>4, <2>2, <2>3 DEF IsInjective
  <2>4. CASE i > Len(l) /\ j > Len(l)
    <3>1. i - Len(l) \in 1 .. Len(m) /\ j - Len(l) \in 1 .. Len(m)
          /\ m[i - Len(l)] = m[j - Len(l)]
      BY <1>1, <1>2, <2>2, <2>4
    <3> QED BY <1>2, <1>4, <3>1 DEF IsInjective
  <2>5. CASE i <= Len(l) /\ j > Len(l)
    BY <1>1, <1>2, <2>1, <2>2, <2>5
  <2>6. CASE i > Len(l) /\ j <= Len(l)
    BY <1>1, <1>2, <2>1, <2>2, <2>6
  <2> QED BY <1>2, <2>3, <2>4, <2>5, <2>6
<1> QED BY <1>1, <1>3, <1>4

\* The first and the last entry of a list that is not empty.
LEMMA EndsOfList ==
  ASSUME NEW S, NEW l \in Seq(S), l # <<>>
  PROVE  /\ Head(l) \in S /\ Head(l) \in Range(l)
         /\ Last(l) \in S /\ Last(l) \in Range(l)
<1>1. Len(l) \in Nat \ {0} /\ DOMAIN l = 1 .. Len(l)
  BY LenProperties, EmptySeq
<1>2. 1 \in DOMAIN l /\ Len(l) \in DOMAIN l /\ Head(l) = l[1] /\ Last(l) = l[Len(l)]
  BY <1>1 DEF Last
<1> QED BY <1>2, RangeType DEF Range
-----------------------------------------------------------------------------
(* Types and owners. *)

\* DescOwnedOnce entry by entry: the lists have distinct entries, and a
\* descriptor outside of them has one owner.
ListsDistinct ==
  /\ IsInjective(pending_list) /\ IsInjective(active_list) /\ IsInjective(done_list)
  /\ Range(pending_list) \cap Range(active_list) = {}
  /\ Range(done_list) \cap (Range(pending_list) \cup Range(active_list)) = {}

OneOwner ==
  /\ Queued \subseteq live
  /\ \A c \in Client : pc[c] \in Preparing =>
       hand[c] \in live /\ hand[c] \notin Queued /\ hand[c] # tasklet.desc
  /\ \A c1, c2 \in Client :
       pc[c1] \in Preparing /\ pc[c2] \in Preparing /\ c1 # c2 => hand[c1] # hand[c2]
  /\ tasklet.desc # NoDesc => tasklet.desc \in live /\ tasklet.desc \notin Queued
  /\ tasklet.pc = "callback" => tasklet.desc # NoDesc

Own == ListsDistinct /\ OneOwner

\* Descriptors that the engine may be given have segments.
Submitting == {"prepared", "check_err", "reset", "append"}
HaveSegs ==
  /\ \A d \in Range(pending_list) \cup Range(active_list) : desc[d].segs # <<>>
  /\ \A c \in Client : pc[c] \in Submitting => desc[hand[c]].segs # <<>>
  /\ \A c \in Client : pc[c] \in PrepCalls => need[c] > 0 \/ desc[hand[c]].segs # <<>>

IInv == TypeOK /\ Own /\ HaveSegs

\* The entry by entry form implies the property that the runs check.
LEMMA OwnMeansOwnedOnce == Own => DescOwnedOnce
BY DEF Own, ListsDistinct, OneOwner, DescOwnedOnce, InHand, InTasklet

USE ConstantsAssumption

\* The channel as it is after the probe satisfies the invariant.
LEMMA InitInv == Init => IInv
<1> SUFFICES ASSUME Init PROVE IInv
  OBVIOUS
<1>1. 0 \in Seg /\ \A s \in Seg : (s + 1) % NumDescs \in Seg
  BY DEF Seg
<1>2. ListsOK /\ DescOK
  BY EmptySeq DEF Init, ListsOK, DescOK, BlankDesc
<1>3. MemOK
  BY <1>1, EmptySeq DEF Init, MemOK, RingBd, Bd
<1>4. ChanOK /\ CookiesOK
  BY DEF Init, ChanOK, CookiesOK, ZeroCtrl, Ctrl
<1>5. ClientsOK /\ HandlersOK
  BY DEF Init, ClientsOK, HandlersOK, ClientPc
<1>6. EngOK
  BY <1>1 DEF Init, EngOK, ZeroCtrl, Ctrl
<1>7. Own
  BY EmptyList DEF Init, Own, ListsDistinct, OneOwner, Queued, Preparing, PrepCalls
<1>8. HaveSegs
  BY EmptyList DEF Init, HaveSegs, Submitting, PrepCalls
<1> QED BY <1>2, <1>3, <1>4, <1>5, <1>6, <1>7, <1>8 DEF IInv, TypeOK

-----------------------------------------------------------------------------
(* Type correctness of each step *)

ChanType == [idle : BOOLEAN, err : BOOLEAN, cyclic : BOOLEAN,
             desc_pendingcount : Nat, ctrl_reg : Ctrl]

\* The descriptor that a client prepares or submits exists.
LEMMA HandInDesc ==
  ASSUME TypeOK, Own, NEW c \in Client, pc[c] \in Preparing
  PROVE  hand[c] \in Desc
BY DEF TypeOK, ListsOK, Own, OneOwner

\* The first and last segment of a descriptor that has segments.
LEMMA SegsOfDesc ==
  ASSUME DescOK, NEW d \in Desc, desc[d].segs # <<>>
  PROVE  Phys(d) \in Seg /\ TailSegment(d) \in Seg
<1>1. desc[d].segs \in Seq(Seg)
  BY DEF DescOK
<1> QED BY <1>1, EndsOfList DEF Phys, TailSegment

\* xilinx_dma_free_tx_descriptor keeps the types, and the other descriptors.
LEMMA FreeStep ==
  ASSUME DescOK, MemOK, live \subseteq Desc, NEW d \in Desc, FreeTxDescriptor(d)
  PROVE  /\ DescOK' /\ MemOK'
         /\ live' = live \ {d} /\ live' \subseteq Desc
         /\ \A e \in Desc \ {d} : desc'[e] = desc[e]
<1>1. DescOK'
  BY EmptySeq DEF FreeTxDescriptor, DescOK, BlankDesc
<1>2. free_seg_list' \in Seq(Seg)
  BY ConcatProperties DEF FreeTxDescriptor, DescOK, MemOK
<1>3. bd' \in [Seg -> Bd]
  BY DEF FreeTxDescriptor, MemOK, Clean, Bd
<1>4. /\ live' = live \ {d} /\ pool' = pool
      /\ \A e \in Desc \ {d} : desc'[e] = desc[e]
  BY DEF FreeTxDescriptor, DescOK
<1> QED BY <1>1, <1>2, <1>3, <1>4 DEF MemOK

\* xilinx_dma_start_transfer keeps the types.
LEMMA StartStep ==
  ASSUME TypeOK, HaveSegs, NEW ch \in ChanType, StartTransfer(ch)
  PROVE  /\ chan' \in ChanType /\ EngOK'
         /\ pending_list' \in Seq(Desc) /\ active_list' \in Seq(Desc)
<1>1. StartCtrl(ch) \in Ctrl
  BY DEF StartCtrl, ChanType, Ctrl
<1>2. Started(ch) \in ChanType
  BY <1>1 DEF Started, ChanType
<1>3. CASE UNCHANGED <<pending_list, active_list, eng>> /\ chan' = ch
  BY <1>3 DEF TypeOK, ListsOK, EngOK
<1>4. CASE /\ pending_list # <<>>
           /\ eng' = [[eng EXCEPT !.cr = StartCtrl(ch), !.left = StartCtrl(ch).coalesce]
                        EXCEPT !.busy = TRUE, !.cur = FirstSeg, !.tail = LastSeg]
           /\ active_list' = active_list \o pending_list
           /\ pending_list' = <<>>
           /\ chan' = Started(ch)
  <2>1. /\ Head(pending_list) \in Desc /\ Last(pending_list) \in Desc
        /\ desc[Head(pending_list)].segs # <<>> /\ desc[Last(pending_list)].segs # <<>>
    BY <1>4, EndsOfList DEF TypeOK, ListsOK, HaveSegs
  <2>2. FirstSeg \in Seg /\ LastSeg \in Seg
    BY <2>1, SegsOfDesc DEF TypeOK, FirstSeg, LastSeg
  <2>3. EngOK'
    BY <1>1, <1>4, <2>2 DEF TypeOK, EngOK, Ctrl
  <2>4. pending_list' \in Seq(Desc) /\ active_list' \in Seq(Desc)
    BY <1>4, ConcatProperties, EmptySeq DEF TypeOK, ListsOK
  <2> QED BY <1>2, <1>4, <2>3, <2>4
<1>5. CASE /\ eng' = [eng EXCEPT !.cr = StartCtrl(ch), !.left = StartCtrl(ch).coalesce]
           /\ chan' = [ch EXCEPT !.ctrl_reg = StartCtrl(ch), !.err = TRUE]
           /\ UNCHANGED <<pending_list, active_list>>
  <2>1. EngOK'
    BY <1>1, <1>5 DEF TypeOK, EngOK, Ctrl
  <2>2. chan' \in ChanType
    BY <1>1, <1>5 DEF ChanType
  <2> QED BY <1>5, <2>1, <2>2 DEF TypeOK, ListsOK
<1> QED BY <1>3, <1>4, <1>5 DEF StartTransfer

\* Every step keeps the types.
LEMMA TypeStep == IInv /\ [Next]_vars => TypeOK'
<1> SUFFICES ASSUME TypeOK, Own, HaveSegs, [Next]_vars PROVE TypeOK'
  BY DEF IInv
<1> USE DEF TypeOK
<1>1. CASE AllocChanResources
  <2>1. [i \in 1 .. NumDescs |-> i - 1] \in Seq(Seg)
    BY IsASeq DEF Seg
  <2>2. \A s \in Seg : (s + 1) % NumDescs \in Seg
    BY DEF Seg
  <2>3. MemOK'
    BY <1>1, <2>1, <2>2, ConcatProperties DEF AllocChanResources, MemOK, RingBd, Bd
  <2>4. ChanOK' /\ CookiesOK' /\ EngOK'
    BY <1>1 DEF AllocChanResources, ChanOK, CookiesOK, EngOK, Ctrl
  <2>5. ListsOK' /\ DescOK' /\ ClientsOK' /\ HandlersOK'
    BY <1>1 DEF AllocChanResources, listVars, descVars, memVars, cookieVars, clientVars,
       ListsOK, DescOK, ClientsOK, HandlersOK
  <2> QED BY <2>1, <2>2, <2>3, <2>4, <2>5
<1>2. ASSUME NEW c \in Client, NEW d \in Desc, NEW kind \in PrepCalls, NEW n \in 1 .. MaxSegs, PrepBegin(c, d, kind, n)
      PROVE  TypeOK'
  <2>1. ListsOK' /\ ClientsOK'
    BY <1>2 DEF PrepBegin, listVars, ListsOK, PrepCalls, ClientsOK, Goto, ClientPc
  <2>2. DescOK' /\ MemOK' /\ ChanOK' /\ CookiesOK' /\ HandlersOK' /\ EngOK'
    BY <1>2 DEF PrepBegin, listVars, descVars, memVars, cookieVars, clientVars,
       DescOK, MemOK, ChanOK, CookiesOK, HandlersOK, EngOK
  <2> QED BY <2>1, <2>2
<1>3. ASSUME NEW c \in Client, PrepAlloc(c)
      PROVE  TypeOK'
  <2>1. hand[c] \in Desc
    BY <1>3, HandInDesc DEF PrepAlloc, Preparing
  <2>2. Head(free_seg_list) \in Seg /\ Tail(free_seg_list) \in Seq(Seg)
    BY <1>3, HeadTailProperties DEF PrepAlloc, MemOK
  <2>3. Append(desc[hand[c]].segs, Head(free_seg_list)) \in Seq(Seg)
    BY <2>1, <2>2, AppendProperties DEF DescOK
  <2>4. DescOK'
    BY <1>3, <2>1, <2>3 DEF PrepAlloc, DescOK
  <2>5. MemOK'
    BY <1>3, <2>2 DEF PrepAlloc, MemOK, Bd
  <2>6. ClientsOK'
    BY <1>3 DEF PrepAlloc, ClientsOK
  <2>7. ListsOK' /\ ChanOK' /\ CookiesOK' /\ HandlersOK' /\ EngOK'
    BY <1>3 DEF PrepAlloc, listVars, descVars, memVars, cookieVars, clientVars,
       ListsOK, ChanOK, CookiesOK, HandlersOK, EngOK
  <2> QED BY <2>1, <2>2, <2>3, <2>4, <2>5, <2>6, <2>7
<1>4. ASSUME NEW c \in Client, PrepNoSegment(c)
      PROVE  TypeOK'
  <2>1. ClientsOK'
    BY <1>4 DEF PrepNoSegment, ClientsOK, Goto, ClientPc
  <2>2. ListsOK' /\ DescOK' /\ MemOK' /\ ChanOK' /\ CookiesOK' /\ HandlersOK' /\ EngOK'
    BY <1>4 DEF PrepNoSegment, listVars, descVars, memVars, cookieVars, clientVars,
       ListsOK, DescOK, MemOK, ChanOK, CookiesOK, HandlersOK, EngOK
  <2> QED BY <2>1, <2>2
<1>5. ASSUME NEW c \in Client, PrepError(c)
      PROVE  TypeOK'
  <2>1. hand[c] \in Desc
    BY <1>5, HandInDesc DEF PrepError, Preparing
  <2>2. ListsOK' /\ DescOK' /\ MemOK'
    BY <1>5, <2>1, FreeStep DEF PrepError, ListsOK, listVars
  <2>3. ClientsOK'
    BY <1>5 DEF PrepError, Drop, ClientsOK, Goto, ClientPc
  <2>4. ChanOK' /\ CookiesOK' /\ HandlersOK' /\ EngOK'
    BY <1>5 DEF PrepError, listVars, descVars, memVars, cookieVars, clientVars,
       ChanOK, CookiesOK, HandlersOK, EngOK
  <2> QED BY <2>1, <2>2, <2>3, <2>4
<1>6. ASSUME NEW c \in Client, SubmitBusy(c)
      PROVE  TypeOK'
  <2>1. hand[c] \in Desc
    BY <1>6, HandInDesc DEF SubmitBusy, Preparing
  <2>2. ListsOK' /\ DescOK' /\ MemOK'
    BY <1>6, <2>1, FreeStep DEF SubmitBusy, ListsOK, listVars
  <2>3. ClientsOK'
    BY <1>6 DEF SubmitBusy, Drop, ClientsOK, Goto, ClientPc
  <2>4. ChanOK' /\ CookiesOK' /\ HandlersOK' /\ EngOK'
    BY <1>6 DEF SubmitBusy, listVars, descVars, memVars, cookieVars, clientVars,
       ChanOK, CookiesOK, HandlersOK, EngOK
  <2> QED BY <2>1, <2>2, <2>3, <2>4
<1>7. ASSUME NEW c \in Client, PrepEnd(c)
      PROVE  TypeOK'
  <2>1. DescOK'
    BY <1>7, ZenonT(40) DEF PrepEnd, DescOK
  <2>2. MemOK'
    BY <1>7 DEF PrepEnd, MemOK, Bd
  <2>3. ChanOK' /\ EngOK'
    BY <1>7 DEF PrepEnd, ChanOK, EngOK, Ctrl
  <2>4. ClientsOK'
    BY <1>7 DEF PrepEnd, ClientsOK, Goto, ClientPc
  <2>5. ListsOK' /\ CookiesOK' /\ HandlersOK'
    BY <1>7 DEF PrepEnd, listVars, descVars, memVars, cookieVars, clientVars,
       ListsOK, CookiesOK, HandlersOK
  <2> QED BY <2>1, <2>2, <2>3, <2>4, <2>5
<1>8. ASSUME NEW c \in Client, SubmitNotBusy(c)
      PROVE  TypeOK'
  <2>1. ClientsOK'
    BY <1>8 DEF SubmitNotBusy, ClientsOK, Goto, ClientPc
  <2>2. ListsOK' /\ DescOK' /\ MemOK' /\ ChanOK' /\ CookiesOK' /\ HandlersOK' /\ EngOK'
    BY <1>8 DEF SubmitNotBusy, listVars, descVars, memVars, cookieVars, clientVars,
       ListsOK, DescOK, MemOK, ChanOK, CookiesOK, HandlersOK, EngOK
  <2> QED BY <2>1, <2>2
<1>9. ASSUME NEW c \in Client, SubmitCheckErr(c)
      PROVE  TypeOK'
  <2>1. ClientsOK'
    BY <1>9 DEF SubmitCheckErr, ClientsOK, Goto, ClientPc
  <2>2. ListsOK' /\ DescOK' /\ MemOK' /\ ChanOK' /\ CookiesOK' /\ HandlersOK' /\ EngOK'
    BY <1>9 DEF SubmitCheckErr, listVars, descVars, memVars, cookieVars, clientVars,
       ListsOK, DescOK, MemOK, ChanOK, CookiesOK, HandlersOK, EngOK
  <2> QED BY <2>1, <2>2
<1>10. ASSUME NEW c \in Client, SubmitReset(c)
      PROVE  TypeOK'
  <2>1. 0 \in Seg
    BY DEF Seg
  <2>2. ChanOK'
    BY <1>10 DEF SubmitReset, ChanOK, EngOK, Ctrl
  <2>3. EngOK'
    BY <1>10, <2>1 DEF SubmitReset, ResetEng, ZeroCtrl, EngOK, Ctrl
  <2>4. ClientsOK'
    BY <1>10 DEF SubmitReset, ClientsOK, Goto, ClientPc
  <2>5. ListsOK' /\ DescOK' /\ MemOK' /\ CookiesOK' /\ HandlersOK'
    BY <1>10 DEF SubmitReset, listVars, descVars, memVars, cookieVars, clientVars,
       ListsOK, DescOK, MemOK, CookiesOK, HandlersOK
  <2> QED BY <2>1, <2>2, <2>3, <2>4, <2>5
<1>11. ASSUME NEW c \in Client, SubmitResetTimeout(c)
      PROVE  TypeOK'
  <2>1. ChanOK'
    BY <1>11 DEF SubmitResetTimeout, ChanOK, EngOK
  <2>2. ClientsOK'
    BY <1>11 DEF SubmitResetTimeout, Drop, ClientsOK, Goto, ClientPc
  <2>3. ListsOK' /\ DescOK' /\ MemOK' /\ CookiesOK' /\ HandlersOK' /\ EngOK'
    BY <1>11 DEF SubmitResetTimeout, listVars, descVars, memVars, cookieVars, clientVars,
       ListsOK, DescOK, MemOK, CookiesOK, HandlersOK, EngOK
  <2> QED BY <2>1, <2>2, <2>3
<1>12. ASSUME NEW c \in Client, SubmitAppend(c)
      PROVE  TypeOK'
  <2>1. hand[c] \in Desc
    BY <1>12, HandInDesc DEF SubmitAppend, Preparing
  <2>2. Phys(hand[c]) \in Seg
    BY <1>12, <2>1, SegsOfDesc DEF SubmitAppend, HaveSegs, Submitting
  <2>3. ListsOK'
    BY <1>12, <2>1, AppendProperties DEF SubmitAppend, ListsOK
  <2>4. CookiesOK'
    BY <1>12 DEF SubmitAppend, CookiesOK
  <2>5. DescOK'
    <3>1. desc' = [desc EXCEPT ![hand[c]].cookie = cookie'] /\ cookie' \in Nat
      BY <1>12, <2>4 DEF SubmitAppend, CookiesOK
    <3> QED BY <2>1, <3>1 DEF DescOK
  <2>6. MemOK'
    BY <1>12, <2>1, <2>2 DEF SubmitAppend, Linked, MemOK, Bd
  <2>7. ChanOK'
    <3>1. desc[hand[c]].cyclic \in BOOLEAN
      BY <2>1 DEF DescOK
    <3>2. lock' \in {c, "none"}
      BY <1>12 DEF SubmitAppend
    <3>3. chan'.desc_pendingcount \in Nat /\ chan'.cyclic \in BOOLEAN
      BY <1>12, <3>1 DEF SubmitAppend, ChanOK
    <3>4. chan' = [chan EXCEPT !.desc_pendingcount = chan'.desc_pendingcount,
                               !.cyclic = chan'.cyclic]
      BY <1>12 DEF SubmitAppend, ChanOK
    <3>5. chan' \in ChanType
      BY <3>3, <3>4 DEF ChanOK, ChanType
    <3> QED BY <3>2, <3>5 DEF ChanOK, ChanType
  <2>8. ClientsOK'
    BY <1>12 DEF SubmitAppend, Drop, ClientsOK, Goto, ClientPc
  <2>9. HandlersOK' /\ EngOK'
    BY <1>12 DEF SubmitAppend, listVars, descVars, memVars, cookieVars, clientVars,
       HandlersOK, EngOK
  <2> QED BY <2>1, <2>2, <2>3, <2>4, <2>5, <2>6, <2>7, <2>8, <2>9
<1>13. ASSUME NEW c \in Client, IssuePending(c)
      PROVE  TypeOK'
  <2>1. chan \in ChanType
    BY DEF ChanOK, ChanType
  <2>2. ListsOK'
    BY <1>13, <2>1, StartStep DEF IssuePending, ListsOK, descVars
  <2>3. ChanOK' /\ EngOK'
    BY <1>13, <2>1, StartStep DEF IssuePending, ChanOK, ChanType
  <2>4. DescOK' /\ MemOK' /\ CookiesOK' /\ ClientsOK' /\ HandlersOK'
    BY <1>13 DEF IssuePending, listVars, descVars, memVars, cookieVars, clientVars,
       DescOK, MemOK, CookiesOK, ClientsOK, HandlersOK
  <2> QED BY <2>1, <2>2, <2>3, <2>4
<1>14. ASSUME NEW c \in Client, StatusBegin(c)
      PROVE  TypeOK'
  <2>1. ClientsOK'
    BY <1>14, EndsOfList DEF StatusBegin, ListsOK, ClientsOK, Goto, ClientPc
  <2>2. ListsOK' /\ DescOK' /\ MemOK' /\ ChanOK' /\ CookiesOK' /\ HandlersOK' /\ EngOK'
    BY <1>14 DEF StatusBegin, listVars, descVars, memVars, cookieVars, clientVars,
       ListsOK, DescOK, MemOK, ChanOK, CookiesOK, HandlersOK, EngOK
  <2> QED BY <2>1, <2>2
<1>15. ASSUME NEW c \in Client, StatusWalk(c)
      PROVE  TypeOK'
  <2>1. ClientsOK'
    BY <1>15 DEF StatusWalk, Drop, ClientsOK, Goto, ClientPc
  <2>2. ListsOK' /\ DescOK' /\ MemOK' /\ ChanOK' /\ CookiesOK' /\ HandlersOK' /\ EngOK'
    BY <1>15 DEF StatusWalk, listVars, descVars, memVars, cookieVars, clientVars,
       ListsOK, DescOK, MemOK, ChanOK, CookiesOK, HandlersOK, EngOK
  <2> QED BY <2>1, <2>2
<1>16. ASSUME NEW c \in Client, TerminateHalt(c)
      PROVE  TypeOK'
  <2>1. ChanOK'
    <3>1. [chan.ctrl_reg EXCEPT !.run = FALSE] \in Ctrl
      BY DEF ChanOK, Ctrl
    <3> QED BY <1>16, <3>1 DEF TerminateHalt, ChanOK
  <2>2. EngOK'
    <3>1. chan'.ctrl_reg \in Ctrl
      BY <2>1 DEF ChanOK
    <3> QED BY <1>16, <3>1 DEF TerminateHalt, EngOK, Ctrl
  <2>3. ClientsOK'
    BY <1>16 DEF TerminateHalt, ClientsOK, Goto, ClientPc
  <2>4. ListsOK' /\ DescOK' /\ MemOK' /\ CookiesOK' /\ HandlersOK'
    BY <1>16 DEF TerminateHalt, listVars, descVars, memVars, cookieVars, clientVars,
       ListsOK, DescOK, MemOK, CookiesOK, HandlersOK
  <2> QED BY <2>1, <2>2, <2>3, <2>4
<1>17. ASSUME NEW c \in Client, TerminateLock(c)
      PROVE  TypeOK'
  <2>1. ChanOK' /\ ClientsOK'
    BY <1>17 DEF TerminateLock, ChanOK, ClientsOK, Goto, ClientPc
  <2>2. ListsOK' /\ DescOK' /\ MemOK' /\ CookiesOK' /\ HandlersOK' /\ EngOK'
    BY <1>17 DEF TerminateLock, listVars, descVars, memVars, cookieVars, clientVars,
       ListsOK, DescOK, MemOK, CookiesOK, HandlersOK, EngOK
  <2> QED BY <2>1, <2>2
<1>18. ASSUME NEW c \in Client, FreeDescriptors(c)
      PROVE  TypeOK'
  <2>1. ListsOK' /\ DescOK' /\ MemOK'
    <3>1. CASE pending_list # <<>> /\ FreeTxDescriptor(Head(pending_list))
             /\ pending_list' = Tail(pending_list) /\ UNCHANGED <<done_list, active_list>>
      BY <3>1, TailList, FreeStep DEF ListsOK
    <3>2. CASE done_list # <<>> /\ FreeTxDescriptor(Head(done_list))
             /\ done_list' = Tail(done_list) /\ UNCHANGED <<pending_list, active_list>>
      BY <3>2, TailList, FreeStep DEF ListsOK
    <3>3. CASE active_list # <<>> /\ FreeTxDescriptor(Head(active_list))
             /\ active_list' = Tail(active_list) /\ UNCHANGED <<pending_list, done_list>>
      BY <3>3, TailList, FreeStep DEF ListsOK
    <3> QED BY <1>18, <3>1, <3>2, <3>3 DEF FreeDescriptors
  <2>2. ChanOK' /\ CookiesOK' /\ ClientsOK' /\ HandlersOK' /\ EngOK'
    BY <1>18 DEF FreeDescriptors, listVars, descVars, memVars, cookieVars, clientVars,
       ChanOK, CookiesOK, ClientsOK, HandlersOK, EngOK
  <2> QED BY <2>1, <2>2
<1>19. ASSUME NEW c \in Client, TerminateUnlock(c)
      PROVE  TypeOK'
  <2>1. ChanOK' /\ ClientsOK'
    BY <1>19 DEF TerminateUnlock, ChanOK, ClientsOK, Goto, ClientPc
  <2>2. ListsOK' /\ DescOK' /\ MemOK' /\ CookiesOK' /\ HandlersOK' /\ EngOK'
    BY <1>19 DEF TerminateUnlock, listVars, descVars, memVars, cookieVars, clientVars,
       ListsOK, DescOK, MemOK, CookiesOK, HandlersOK, EngOK
  <2> QED BY <2>1, <2>2
<1>20. ASSUME NEW c \in Client, TerminateCyclic(c)
      PROVE  TypeOK'
  <2>1. ChanOK'
    <3>1. [chan.ctrl_reg EXCEPT !.cyclic = FALSE] \in Ctrl
      BY DEF ChanOK, Ctrl
    <3> QED BY <1>20, <3>1 DEF TerminateCyclic, ChanOK
  <2>2. EngOK'
    <3>1. chan'.ctrl_reg \in Ctrl
      BY <2>1 DEF ChanOK
    <3> QED BY <1>20, <3>1 DEF TerminateCyclic, EngOK, Ctrl
  <2>3. ClientsOK'
    BY <1>20 DEF TerminateCyclic, ClientsOK, Goto, ClientPc
  <2>4. ListsOK' /\ DescOK' /\ MemOK' /\ CookiesOK' /\ HandlersOK'
    BY <1>20 DEF TerminateCyclic, listVars, descVars, memVars, cookieVars, clientVars,
       ListsOK, DescOK, MemOK, CookiesOK, HandlersOK
  <2> QED BY <2>1, <2>2, <2>3, <2>4
<1>21. ASSUME NEW c \in Client, ReleaseLock(c)
      PROVE  TypeOK'
  <2>1. ChanOK' /\ ClientsOK'
    BY <1>21 DEF ReleaseLock, ChanOK, ClientsOK, Goto, ClientPc
  <2>2. ListsOK' /\ DescOK' /\ MemOK' /\ CookiesOK' /\ HandlersOK' /\ EngOK'
    BY <1>21 DEF ReleaseLock, listVars, descVars, memVars, cookieVars, clientVars,
       ListsOK, DescOK, MemOK, CookiesOK, HandlersOK, EngOK
  <2> QED BY <2>1, <2>2
<1>22. ASSUME NEW c \in Client, ReleaseUnlock(c)
      PROVE  TypeOK'
  <2>1. ChanOK' /\ ClientsOK'
    BY <1>22 DEF ReleaseUnlock, ChanOK, ClientsOK, Goto, ClientPc
  <2>2. ListsOK' /\ DescOK' /\ MemOK' /\ CookiesOK' /\ HandlersOK' /\ EngOK'
    BY <1>22 DEF ReleaseUnlock, listVars, descVars, memVars, cookieVars, clientVars,
       ListsOK, DescOK, MemOK, CookiesOK, HandlersOK, EngOK
  <2> QED BY <2>1, <2>2
<1>23. ASSUME NEW c \in Client, ReleaseFree(c)
      PROVE  TypeOK'
  <2>1. MemOK'
    BY <1>23, EmptySeq DEF ReleaseFree, MemOK
  <2>2. ClientsOK'
    BY <1>23 DEF ReleaseFree, ClientsOK, Goto, ClientPc
  <2>3. ListsOK' /\ DescOK' /\ ChanOK' /\ CookiesOK' /\ HandlersOK' /\ EngOK'
    BY <1>23 DEF ReleaseFree, listVars, descVars, memVars, cookieVars, clientVars,
       ListsOK, DescOK, ChanOK, CookiesOK, HandlersOK, EngOK
  <2> QED BY <2>1, <2>2, <2>3
<1>24. CASE EngineTransfer
  <2>1. MemOK'
    BY <1>24 DEF EngineTransfer, MemOK, EngOK, Bd
  <2>2. EngOK'
    <3>1. bd[eng.cur].next \in Seg /\ eng.cr.coalesce \in Nat
      BY DEF MemOK, EngOK, Bd, Ctrl
    <3>2. eng'.left \in Nat
      BY <1>24, <3>1 DEF EngineTransfer, EngOK
    <3>3. eng'.ioc \in BOOLEAN /\ eng'.busy \in BOOLEAN
      BY <1>24 DEF EngineTransfer, EngOK
    <3>4. eng'.cur \in Seg
      BY <1>24, <3>1 DEF EngineTransfer, EngOK
    <3>5. eng' = [eng EXCEPT !.left = eng'.left, !.ioc = eng'.ioc,
                             !.busy = eng'.busy, !.cur = eng'.cur]
      BY <1>24 DEF EngineTransfer, EngOK
    <3> QED BY <3>2, <3>3, <3>4, <3>5 DEF EngOK
  <2>3. ListsOK' /\ DescOK' /\ ChanOK' /\ CookiesOK' /\ ClientsOK' /\ HandlersOK'
    BY <1>24, SMTT(40) DEF EngineTransfer, listVars, descVars, memVars, cookieVars, clientVars,
       ListsOK, DescOK, ChanOK, CookiesOK, ClientsOK, HandlersOK
  <2> QED BY <2>1, <2>2, <2>3
<1>25. CASE EngineError
  <2>1. EngOK'
    BY <1>25 DEF EngineError, EngOK
  <2>2. ListsOK' /\ DescOK' /\ MemOK' /\ ChanOK' /\ CookiesOK' /\ ClientsOK' /\ HandlersOK'
    BY <1>25, SMTT(40) DEF EngineError, listVars, descVars, memVars, cookieVars, clientVars,
       ListsOK, DescOK, MemOK, ChanOK, CookiesOK, ClientsOK, HandlersOK
  <2> QED BY <2>1, <2>2
<1>26. CASE IrqAck
  <2>1. ChanOK' /\ EngOK'
    BY <1>26 DEF IrqAck, ChanOK, EngOK
  <2>2. HandlersOK'
    BY <1>26 DEF IrqAck, ScheduleTasklet, HandlersOK
  <2>3. ListsOK' /\ DescOK' /\ MemOK' /\ CookiesOK' /\ ClientsOK'
    BY <1>26 DEF IrqAck, listVars, descVars, memVars, cookieVars, clientVars,
       ListsOK, DescOK, MemOK, CookiesOK, ClientsOK
  <2> QED BY <2>1, <2>2, <2>3
<1>27. CASE IrqLock
  <2>1. ChanOK' /\ HandlersOK'
    BY <1>27 DEF IrqLock, ChanOK, HandlersOK
  <2>2. ListsOK' /\ DescOK' /\ MemOK' /\ CookiesOK' /\ ClientsOK' /\ EngOK'
    BY <1>27 DEF IrqLock, listVars, descVars, memVars, cookieVars, clientVars,
       ListsOK, DescOK, MemOK, CookiesOK, ClientsOK, EngOK
  <2> QED BY <2>1, <2>2
<1>28. CASE IrqComplete
  <2>1. Head(active_list) \in Desc /\ Tail(active_list) \in Seq(Desc)
    BY <1>28, TailList DEF IrqComplete, ListsOK
  <2>2. ListsOK'
    <3>1. Append(done_list, Head(active_list)) \in Seq(Desc)
      BY <2>1, AppendProperties DEF ListsOK
    <3> QED BY <1>28, <2>1, <3>1 DEF IrqComplete, ListsOK, descVars
  <2>3. CookiesOK'
    BY <1>28, <2>1 DEF IrqComplete, CompleteCookie, DescOK, CookiesOK
  <2>4. DescOK' /\ MemOK' /\ ChanOK' /\ ClientsOK' /\ HandlersOK' /\ EngOK'
    BY <1>28 DEF IrqComplete, listVars, descVars, memVars, cookieVars, clientVars,
       DescOK, MemOK, ChanOK, ClientsOK, HandlersOK, EngOK
  <2> QED BY <2>1, <2>2, <2>3, <2>4
<1>29. CASE IrqRestart
  <2>1. [chan EXCEPT !.idle = TRUE] \in ChanType
    BY DEF ChanOK, ChanType
  <2>2. ListsOK'
    BY <1>29, <2>1, StartStep DEF IrqRestart, ListsOK, descVars
  <2>3. ChanOK' /\ EngOK'
    BY <1>29, <2>1, StartStep DEF IrqRestart, ChanOK, ChanType
  <2>4. HandlersOK'
    BY <1>29 DEF IrqRestart, ScheduleTasklet, HandlersOK
  <2>5. DescOK' /\ MemOK' /\ CookiesOK' /\ ClientsOK'
    BY <1>29 DEF IrqRestart, listVars, descVars, memVars, cookieVars, clientVars,
       DescOK, MemOK, CookiesOK, ClientsOK
  <2> QED BY <2>1, <2>2, <2>3, <2>4, <2>5
<1>30. CASE TaskletRun
  <2>1. HandlersOK'
    BY <1>30 DEF TaskletRun, TaskletUnchanged, HandlersOK
  <2>2. ListsOK' /\ DescOK' /\ MemOK' /\ ChanOK' /\ CookiesOK' /\ ClientsOK' /\ EngOK'
    BY <1>30 DEF TaskletRun, TaskletUnchanged, listVars, descVars, memVars, cookieVars, clientVars,
       ListsOK, DescOK, MemOK, ChanOK, CookiesOK, ClientsOK, EngOK
  <2> QED BY <2>1, <2>2
<1>31. CASE TaskletExit
  <2>1. HandlersOK'
    BY <1>31 DEF TaskletExit, TaskletUnchanged, HandlersOK
  <2>2. ListsOK' /\ DescOK' /\ MemOK' /\ ChanOK' /\ CookiesOK' /\ ClientsOK' /\ EngOK'
    BY <1>31 DEF TaskletExit, TaskletUnchanged, listVars, descVars, memVars, cookieVars, clientVars,
       ListsOK, DescOK, MemOK, ChanOK, CookiesOK, ClientsOK, EngOK
  <2> QED BY <2>1, <2>2
<1>32. CASE TaskletCyclic
  <2>1. HandlersOK'
    BY <1>32 DEF TaskletCyclic, TaskletUnchanged, HandlersOK
  <2>2. ListsOK' /\ DescOK' /\ MemOK' /\ ChanOK' /\ CookiesOK' /\ ClientsOK' /\ EngOK'
    BY <1>32 DEF TaskletCyclic, TaskletUnchanged, listVars, descVars, memVars, cookieVars, clientVars,
       ListsOK, DescOK, MemOK, ChanOK, CookiesOK, ClientsOK, EngOK
  <2> QED BY <2>1, <2>2
<1>33. CASE TaskletCyclicReturn
  <2>1. HandlersOK'
    BY <1>33 DEF TaskletCyclicReturn, TaskletUnchanged, HandlersOK
  <2>2. ListsOK' /\ DescOK' /\ MemOK' /\ ChanOK' /\ CookiesOK' /\ ClientsOK' /\ EngOK'
    BY <1>33 DEF TaskletCyclicReturn, TaskletUnchanged, listVars, descVars, memVars, cookieVars, clientVars,
       ListsOK, DescOK, MemOK, ChanOK, CookiesOK, ClientsOK, EngOK
  <2> QED BY <2>1, <2>2
<1>34. CASE TaskletPop
  <2>1. Head(done_list) \in Desc /\ Tail(done_list) \in Seq(Desc)
    BY <1>34, TailList DEF TaskletPop, ListsOK
  <2>2. ListsOK'
    BY <1>34, <2>1 DEF TaskletPop, TaskletUnchanged, descVars, ListsOK
  <2>3. CookiesOK'
    BY <1>34, <2>1 DEF TaskletPop, TaskletUnchanged, DescOK, CookiesOK
  <2>4. HandlersOK'
    BY <1>34, <2>1 DEF TaskletPop, TaskletUnchanged, HandlersOK
  <2>5. DescOK' /\ MemOK' /\ ChanOK' /\ ClientsOK' /\ EngOK'
    BY <1>34 DEF TaskletPop, TaskletUnchanged, listVars, descVars, memVars, cookieVars, clientVars,
       DescOK, MemOK, ChanOK, ClientsOK, EngOK
  <2> QED BY <2>1, <2>2, <2>3, <2>4, <2>5
<1>35. CASE TaskletFree
  <2>1. tasklet.desc \in Desc
    BY <1>35 DEF TaskletFree, Own, OneOwner, ListsOK
  <2>2. ListsOK' /\ DescOK' /\ MemOK'
    BY <1>35, <2>1, FreeStep DEF TaskletFree, TaskletUnchanged, ListsOK
  <2>3. HandlersOK'
    BY <1>35 DEF TaskletFree, TaskletUnchanged, HandlersOK
  <2>4. ChanOK' /\ CookiesOK' /\ ClientsOK' /\ EngOK'
    BY <1>35 DEF TaskletFree, TaskletUnchanged, listVars, descVars, memVars, cookieVars, clientVars,
       ChanOK, CookiesOK, ClientsOK, EngOK
  <2> QED BY <2>1, <2>2, <2>3, <2>4
<1>36. CASE UNCHANGED vars
  BY <1>36 DEF vars, listVars, descVars, memVars, cookieVars, clientVars,
     ListsOK, DescOK, MemOK, ChanOK, CookiesOK, ClientsOK, HandlersOK, EngOK
<1> QED
  BY <1>1, <1>2, <1>3, <1>4, <1>5, <1>6, <1>7, <1>8, <1>9, <1>10, <1>11,
     <1>12, <1>13, <1>14, <1>15, <1>16, <1>17, <1>18, <1>19, <1>20,
     <1>21, <1>22, <1>23, <1>24, <1>25, <1>26, <1>27, <1>28, <1>29,
     <1>30, <1>31, <1>32, <1>33, <1>34, <1>35, <1>36
  DEF Next, ClientStep, Engine, Irq, Tasklet

-----------------------------------------------------------------------------
(* One owner for each descriptor *)

\* A step that leaves the lists and the descriptors alone, and in which no
\* client takes a descriptor, changes no owner.
LEMMA OwnFrame ==
  ASSUME Own, UNCHANGED <<listVars, live>>,
         tasklet'.desc = tasklet.desc,
         tasklet'.pc = "callback" => tasklet.pc = "callback",
         \A c \in Client : pc'[c] \in Preparing =>
           pc[c] \in Preparing /\ hand'[c] = hand[c]
  PROVE  Own'
<1>1. ListsDistinct' /\ Queued' = Queued
  BY DEF Own, ListsDistinct, Queued, listVars
<1>2. OneOwner'
  BY <1>1 DEF Own, OneOwner
<1> QED BY <1>1, <1>2 DEF Own

\* A client that gives its descriptor back frees it, and nobody else has it.
LEMMA OwnFreeHand ==
  ASSUME TypeOK, Own, UNCHANGED <<listVars, tasklet>>,
         NEW c \in Client, pc[c] \in Preparing,
         pc' = [pc EXCEPT ![c] = "idle"], hand' = [hand EXCEPT ![c] = NoDesc],
         live' = live \ {hand[c]}
  PROVE  Own'
<1>1. ListsDistinct' /\ Queued' = Queued
  BY DEF Own, ListsDistinct, Queued, listVars
<1>2. \A x \in Client : pc'[x] \in Preparing =>
        pc[x] \in Preparing /\ x # c /\ hand'[x] = hand[x]
  BY DEF TypeOK, ClientsOK, Preparing, PrepCalls
<1>3. OneOwner'
  BY <1>1, <1>2 DEF Own, OneOwner
<1> QED BY <1>1, <1>3 DEF Own

\* Starting a transfer moves the pending descriptors behind the active ones.
LEMMA OwnStart ==
  ASSUME TypeOK, Own, NEW ch, StartTransfer(ch), UNCHANGED <<done_list, live, pc, hand>>,
         tasklet'.desc = tasklet.desc, tasklet'.pc = tasklet.pc
  PROVE  Own'
<1>1. CASE UNCHANGED <<pending_list, active_list>>
  BY <1>1, OwnFrame DEF listVars
<1>2. CASE active_list' = active_list \o pending_list /\ pending_list' = <<>>
  <2>1. /\ Range(active_list') = Range(active_list) \cup Range(pending_list)
        /\ IsInjective(active_list')
        /\ Range(pending_list') = {} /\ IsInjective(pending_list')
    BY <1>2, ConcatList, EmptyList DEF TypeOK, ListsOK, Own, ListsDistinct
  <2>2. ListsDistinct' /\ Queued' = Queued
    BY <2>1 DEF Own, ListsDistinct, Queued
  <2>3. OneOwner'
    BY <2>2 DEF Own, OneOwner
  <2> QED BY <2>2, <2>3 DEF Own
<1> QED BY <1>1, <1>2 DEF StartTransfer

\* Every step leaves each descriptor with one owner at most.
LEMMA OwnStep == IInv /\ [Next]_vars => Own'
<1> SUFFICES ASSUME TypeOK, Own, HaveSegs, [Next]_vars PROVE Own'
  BY DEF IInv
<1> USE DEF Preparing, PrepCalls
<1>1. CASE AllocChanResources
  BY <1>1, OwnFrame DEF AllocChanResources, TypeOK, HandlersOK,
     listVars, descVars, memVars, clientVars
<1>2. ASSUME NEW c \in Client, NEW d \in Desc, NEW kind \in PrepCalls, NEW n \in 1 .. MaxSegs, PrepBegin(c, d, kind, n)
      PROVE  Own'
  <2>1. ListsDistinct' /\ Queued' = Queued
    BY <1>2 DEF PrepBegin, Own, ListsDistinct, Queued, listVars
  <2>2. d \notin live /\ live' = live \cup {d} /\ tasklet' = tasklet /\ d # NoDesc
    BY <1>2 DEF PrepBegin
  <2>3. /\ pc[c] = "idle" /\ pc'[c] = kind /\ hand'[c] = d
        /\ \A x \in Client \ {c} : pc'[x] = pc[x] /\ hand'[x] = hand[x]
    BY <1>2 DEF PrepBegin, Goto, TypeOK, ClientsOK
  <2>4. d \notin Queued /\ d # tasklet.desc
    BY <2>2 DEF Own, OneOwner
  <2>5. OneOwner'
    BY <2>1, <2>2, <2>3, <2>4 DEF Own, OneOwner
  <2> QED BY <2>1, <2>5 DEF Own
<1>3. ASSUME NEW c \in Client, PrepAlloc(c)
      PROVE  Own'
  BY <1>3, OwnFrame DEF PrepAlloc, Goto, Drop, TypeOK, ClientsOK,
     listVars, descVars, memVars, clientVars
<1>4. ASSUME NEW c \in Client, PrepNoSegment(c)
      PROVE  Own'
  BY <1>4, OwnFrame DEF PrepNoSegment, Goto, Drop, TypeOK, ClientsOK,
     listVars, descVars, memVars, clientVars
<1>5. ASSUME NEW c \in Client, PrepError(c)
      PROVE  Own'
  BY <1>5, OwnFreeHand DEF PrepError, FreeTxDescriptor, Goto, Drop
<1>6. ASSUME NEW c \in Client, SubmitBusy(c)
      PROVE  Own'
  BY <1>6, OwnFreeHand DEF SubmitBusy, FreeTxDescriptor, Goto, Drop
<1>7. ASSUME NEW c \in Client, PrepEnd(c)
      PROVE  Own'
  BY <1>7, OwnFrame DEF PrepEnd, Goto, Drop, TypeOK, ClientsOK,
     listVars, descVars, memVars, clientVars
<1>8. ASSUME NEW c \in Client, SubmitNotBusy(c)
      PROVE  Own'
  BY <1>8, OwnFrame DEF SubmitNotBusy, Goto, Drop, TypeOK, ClientsOK,
     listVars, descVars, memVars, clientVars
<1>9. ASSUME NEW c \in Client, SubmitCheckErr(c)
      PROVE  Own'
  BY <1>9, OwnFrame DEF SubmitCheckErr, Goto, Drop, TypeOK, ClientsOK,
     listVars, descVars, memVars, clientVars
<1>10. ASSUME NEW c \in Client, SubmitReset(c)
      PROVE  Own'
  BY <1>10, OwnFrame DEF SubmitReset, Goto, Drop, TypeOK, ClientsOK,
     listVars, descVars, memVars, clientVars
<1>11. ASSUME NEW c \in Client, SubmitResetTimeout(c)
      PROVE  Own'
  BY <1>11, OwnFrame DEF SubmitResetTimeout, Goto, Drop, TypeOK, ClientsOK,
     listVars, descVars, memVars, clientVars
<1>12. ASSUME NEW c \in Client, SubmitAppend(c)
      PROVE  Own'
  <2>1. hand[c] \in Desc /\ hand[c] \notin Queued /\ hand[c] # tasklet.desc /\ hand[c] \in live
    BY <1>12 DEF SubmitAppend, TypeOK, ListsOK, Own, OneOwner
  <2>2. /\ pending_list' = Append(pending_list, hand[c])
        /\ UNCHANGED <<active_list, done_list, live, tasklet>>
    BY <1>12 DEF SubmitAppend
  <2>3. /\ Range(pending_list') = Range(pending_list) \cup {hand[c]}
        /\ IsInjective(pending_list')
    BY <2>1, <2>2, AppendList DEF TypeOK, ListsOK, Own, ListsDistinct, Queued
  <2>4. ListsDistinct' /\ Queued' = Queued \cup {hand[c]}
    BY <2>1, <2>2, <2>3 DEF Own, ListsDistinct, Queued
  <2>5. /\ pc[c] = "append" /\ pc'[c] \notin Preparing
        /\ \A x \in Client \ {c} : pc'[x] = pc[x] /\ hand'[x] = hand[x]
    BY <1>12 DEF SubmitAppend, Goto, Drop, TypeOK, ClientsOK
  <2>6. OneOwner'
    BY <2>1, <2>2, <2>4, <2>5 DEF Own, OneOwner
  <2> QED BY <2>4, <2>6 DEF Own
<1>13. ASSUME NEW c \in Client, IssuePending(c)
      PROVE  Own'
  BY <1>13, OwnStart DEF IssuePending, descVars, clientVars
<1>14. ASSUME NEW c \in Client, StatusBegin(c)
      PROVE  Own'
  BY <1>14, OwnFrame DEF StatusBegin, Goto, Drop, TypeOK, ClientsOK,
     listVars, descVars, memVars, clientVars
<1>15. ASSUME NEW c \in Client, StatusWalk(c)
      PROVE  Own'
  BY <1>15, OwnFrame DEF StatusWalk, Goto, Drop, TypeOK, ClientsOK,
     listVars, descVars, memVars, clientVars
<1>16. ASSUME NEW c \in Client, TerminateHalt(c)
      PROVE  Own'
  BY <1>16, OwnFrame DEF TerminateHalt, Goto, Drop, TypeOK, ClientsOK,
     listVars, descVars, memVars, clientVars
<1>17. ASSUME NEW c \in Client, TerminateLock(c)
      PROVE  Own'
  BY <1>17, OwnFrame DEF TerminateLock, Goto, Drop, TypeOK, ClientsOK,
     listVars, descVars, memVars, clientVars
<1>18. ASSUME NEW c \in Client, FreeDescriptors(c)
      PROVE  Own'
  <2>1. UNCHANGED <<pc, hand, tasklet>>
    BY <1>18 DEF FreeDescriptors, clientVars
  <2>2. CASE /\ pending_list # <<>> /\ FreeTxDescriptor(Head(pending_list))
            /\ pending_list' = Tail(pending_list) /\ UNCHANGED <<done_list, active_list>>
    <3>1. /\ Range(pending_list) = {Head(pending_list)} \cup Range(pending_list')
          /\ Head(pending_list) \notin Range(pending_list') /\ IsInjective(pending_list')
      BY <2>2, TailList DEF TypeOK, ListsOK, Own, ListsDistinct
    <3>2. ListsDistinct' /\ Queued' = Queued \ {Head(pending_list)}
      BY <2>2, <3>1 DEF Own, ListsDistinct, Queued
    <3>3. live' = live \ {Head(pending_list)} /\ Head(pending_list) \in Queued
      BY <2>2, <3>1 DEF FreeTxDescriptor, Queued
    <3>4. OneOwner'
      BY <2>1, <3>2, <3>3 DEF Own, OneOwner
    <3> QED BY <3>2, <3>4 DEF Own
  <2>3. CASE /\ done_list # <<>> /\ FreeTxDescriptor(Head(done_list))
            /\ done_list' = Tail(done_list) /\ UNCHANGED <<pending_list, active_list>>
    <3>1. /\ Range(done_list) = {Head(done_list)} \cup Range(done_list')
          /\ Head(done_list) \notin Range(done_list') /\ IsInjective(done_list')
      BY <2>3, TailList DEF TypeOK, ListsOK, Own, ListsDistinct
    <3>2. ListsDistinct' /\ Queued' = Queued \ {Head(done_list)}
      BY <2>3, <3>1 DEF Own, ListsDistinct, Queued
    <3>3. live' = live \ {Head(done_list)} /\ Head(done_list) \in Queued
      BY <2>3, <3>1 DEF FreeTxDescriptor, Queued
    <3>4. OneOwner'
      BY <2>1, <3>2, <3>3 DEF Own, OneOwner
    <3> QED BY <3>2, <3>4 DEF Own
  <2>4. CASE /\ active_list # <<>> /\ FreeTxDescriptor(Head(active_list))
            /\ active_list' = Tail(active_list) /\ UNCHANGED <<pending_list, done_list>>
    <3>1. /\ Range(active_list) = {Head(active_list)} \cup Range(active_list')
          /\ Head(active_list) \notin Range(active_list') /\ IsInjective(active_list')
      BY <2>4, TailList DEF TypeOK, ListsOK, Own, ListsDistinct
    <3>2. ListsDistinct' /\ Queued' = Queued \ {Head(active_list)}
      BY <2>4, <3>1 DEF Own, ListsDistinct, Queued
    <3>3. live' = live \ {Head(active_list)} /\ Head(active_list) \in Queued
      BY <2>4, <3>1 DEF FreeTxDescriptor, Queued
    <3>4. OneOwner'
      BY <2>1, <3>2, <3>3 DEF Own, OneOwner
    <3> QED BY <3>2, <3>4 DEF Own
  <2> QED BY <1>18, <2>2, <2>3, <2>4 DEF FreeDescriptors
<1>19. ASSUME NEW c \in Client, TerminateUnlock(c)
      PROVE  Own'
  BY <1>19, OwnFrame DEF TerminateUnlock, Goto, Drop, TypeOK, ClientsOK,
     listVars, descVars, memVars, clientVars
<1>20. ASSUME NEW c \in Client, TerminateCyclic(c)
      PROVE  Own'
  BY <1>20, OwnFrame DEF TerminateCyclic, Goto, Drop, TypeOK, ClientsOK,
     listVars, descVars, memVars, clientVars
<1>21. ASSUME NEW c \in Client, ReleaseLock(c)
      PROVE  Own'
  BY <1>21, OwnFrame DEF ReleaseLock, Goto, Drop, TypeOK, ClientsOK,
     listVars, descVars, memVars, clientVars
<1>22. ASSUME NEW c \in Client, ReleaseUnlock(c)
      PROVE  Own'
  BY <1>22, OwnFrame DEF ReleaseUnlock, Goto, Drop, TypeOK, ClientsOK,
     listVars, descVars, memVars, clientVars
<1>23. ASSUME NEW c \in Client, ReleaseFree(c)
      PROVE  Own'
  BY <1>23, OwnFrame DEF ReleaseFree, Goto, Drop, TypeOK, ClientsOK,
     listVars, descVars, memVars, clientVars
<1>24. CASE EngineTransfer
  BY <1>24, OwnFrame DEF EngineTransfer, TypeOK, HandlersOK,
     listVars, descVars, memVars, clientVars
<1>25. CASE EngineError
  BY <1>25, OwnFrame DEF EngineError, TypeOK, HandlersOK,
     listVars, descVars, memVars, clientVars
<1>26. CASE IrqAck
  BY <1>26, OwnFrame DEF IrqAck, ScheduleTasklet, TypeOK, HandlersOK,
     listVars, descVars, memVars, clientVars
<1>27. CASE IrqLock
  BY <1>27, OwnFrame DEF IrqLock, TypeOK, HandlersOK,
     listVars, descVars, memVars, clientVars
<1>28. CASE IrqComplete
  <2>1. /\ active_list' = Tail(active_list)
        /\ done_list' = Append(done_list, Head(active_list))
        /\ UNCHANGED <<pending_list, live, pc, hand, tasklet>>
    BY <1>28 DEF IrqComplete, descVars, clientVars
  <2>2. /\ Head(active_list) \in Desc
        /\ Range(active_list) = {Head(active_list)} \cup Range(active_list')
        /\ Head(active_list) \notin Range(active_list') /\ IsInjective(active_list')
    BY <1>28, <2>1, TailList DEF IrqComplete, TypeOK, ListsOK, Own, ListsDistinct
  <2>3. /\ Range(done_list') = Range(done_list) \cup {Head(active_list)}
        /\ IsInjective(done_list')
    BY <2>1, <2>2, AppendList DEF TypeOK, ListsOK, Own, ListsDistinct
  <2>4. ListsDistinct' /\ Queued' = Queued
    BY <2>1, <2>2, <2>3 DEF Own, ListsDistinct, Queued
  <2>5. OneOwner'
    BY <2>1, <2>4 DEF Own, OneOwner
  <2> QED BY <2>4, <2>5 DEF Own
<1>29. CASE IrqRestart
  BY <1>29, OwnStart DEF IrqRestart, ScheduleTasklet, TypeOK, HandlersOK, descVars, clientVars
<1>30. CASE TaskletRun
  BY <1>30, OwnFrame DEF TaskletRun, TaskletUnchanged, TypeOK, HandlersOK,
     listVars, descVars, memVars, clientVars
<1>31. CASE TaskletExit
  BY <1>31, OwnFrame DEF TaskletExit, TaskletUnchanged, TypeOK, HandlersOK,
     listVars, descVars, memVars, clientVars
<1>32. CASE TaskletCyclic
  BY <1>32, OwnFrame DEF TaskletCyclic, TaskletUnchanged, TypeOK, HandlersOK,
     listVars, descVars, memVars, clientVars
<1>33. CASE TaskletCyclicReturn
  BY <1>33, OwnFrame DEF TaskletCyclicReturn, TaskletUnchanged, TypeOK, HandlersOK,
     listVars, descVars, memVars, clientVars
<1>34. CASE TaskletPop
  <2>1. /\ done_list' = Tail(done_list)
        /\ UNCHANGED <<pending_list, active_list, live, pc, hand>>
        /\ tasklet'.pc = "callback" /\ tasklet'.desc = Head(done_list)
    BY <1>34 DEF TaskletPop, TaskletUnchanged, descVars, clientVars, TypeOK, HandlersOK
  <2>2. /\ Head(done_list) \in Desc
        /\ Range(done_list) = {Head(done_list)} \cup Range(done_list')
        /\ Head(done_list) \notin Range(done_list') /\ IsInjective(done_list')
    BY <1>34, <2>1, TailList DEF TaskletPop, TypeOK, ListsOK, Own, ListsDistinct
  <2>3. ListsDistinct' /\ Queued' = Queued \ {Head(done_list)}
    BY <2>1, <2>2 DEF Own, ListsDistinct, Queued
  <2>4. Head(done_list) \in Queued /\ Head(done_list) # NoDesc
    BY <2>2 DEF Queued
  <2>5. OneOwner'
    BY <2>1, <2>3, <2>4 DEF Own, OneOwner
  <2> QED BY <2>3, <2>5 DEF Own
<1>35. CASE TaskletFree
  <2>1. /\ UNCHANGED <<listVars, pc, hand>> /\ live' = live \ {tasklet.desc}
        /\ tasklet'.pc = "loop" /\ tasklet'.desc = NoDesc
        /\ tasklet.pc = "callback"
    BY <1>35 DEF TaskletFree, TaskletUnchanged, FreeTxDescriptor, listVars, clientVars,
       TypeOK, HandlersOK
  <2>2. ListsDistinct' /\ Queued' = Queued
    BY <2>1 DEF Own, ListsDistinct, Queued, listVars
  <2>3. OneOwner'
    <3>1. tasklet.desc # NoDesc /\ tasklet.desc \notin Queued
      BY <2>1 DEF Own, OneOwner
    <3>2. \A c \in Client : pc[c] \in Preparing => hand[c] # NoDesc
      BY HandInDesc
    <3> QED BY <2>1, <2>2, <3>1, <3>2 DEF Own, OneOwner
  <2> QED BY <2>2, <2>3 DEF Own
<1>36. CASE UNCHANGED vars
  BY <1>36, OwnFrame DEF vars, descVars, clientVars
<1> QED
  BY <1>1, <1>2, <1>3, <1>4, <1>5, <1>6, <1>7, <1>8, <1>9, <1>10, <1>11,
     <1>12, <1>13, <1>14, <1>15, <1>16, <1>17, <1>18, <1>19, <1>20,
     <1>21, <1>22, <1>23, <1>24, <1>25, <1>26, <1>27, <1>28, <1>29,
     <1>30, <1>31, <1>32, <1>33, <1>34, <1>35, <1>36
  DEF Next, ClientStep, Engine, Irq, Tasklet
-----------------------------------------------------------------------------
(* Descriptors keep their segments *)

\* A step that only takes descriptors off the lists and frees descriptors
\* that nobody has afterwards leaves segments on all the others.
LEMMA SegsFrame ==
  ASSUME HaveSegs, Own',
         Range(pending_list') \cup Range(active_list')
           \subseteq Range(pending_list) \cup Range(active_list),
         \A d \in live' : desc[d].segs # <<>> => desc'[d].segs # <<>>,
         \A c \in Client : pc'[c] \in Submitting =>
           pc[c] \in Submitting /\ hand'[c] = hand[c],
         \A c \in Client : pc'[c] \in PrepCalls =>
           pc[c] \in PrepCalls /\ hand'[c] = hand[c] /\ need'[c] = need[c]
  PROVE  HaveSegs'
<1>1. /\ Range(pending_list') \cup Range(active_list') \subseteq live'
      /\ \A c \in Client : pc'[c] \in Submitting \cup PrepCalls => hand'[c] \in live'
  BY DEF Own, OneOwner, Queued, Preparing, Submitting
<1> QED BY <1>1 DEF HaveSegs

\* xilinx_dma_free_tx_descriptor leaves the descriptors that stay allocated
\* alone.
LEMMA SegsFree ==
  ASSUME TypeOK, NEW d, FreeTxDescriptor(d)
  PROVE  \A e \in live' : desc'[e] = desc[e]
BY DEF FreeTxDescriptor, TypeOK, DescOK, ListsOK

\* A step in which a client only moves on, to a point where it has no
\* descriptor or has the one it had before.
LEMMA SegsMove ==
  ASSUME TypeOK, HaveSegs, Own', UNCHANGED <<pending_list, active_list, need>>,
         \A e \in live' : desc'[e] = desc[e],
         NEW c \in Client,
         pc'[c] \notin PrepCalls,
         pc'[c] \in Submitting => pc[c] \in Submitting /\ hand'[c] = hand[c],
         \A x \in Client \ {c} : pc'[x] = pc[x] /\ hand'[x] = hand[x]
  PROVE  HaveSegs'
BY SegsFrame

\* Starting a transfer puts no new descriptor on the lists.
LEMMA SegsStart ==
  ASSUME TypeOK, HaveSegs, Own', NEW ch, StartTransfer(ch),
         UNCHANGED <<desc, pc, hand, need>>
  PROVE  HaveSegs'
<1>1. Range(pending_list') \cup Range(active_list')
        = Range(pending_list) \cup Range(active_list)
  <2>1. CASE UNCHANGED <<pending_list, active_list>>
    BY <2>1
  <2>2. CASE active_list' = active_list \o pending_list /\ pending_list' = <<>>
    BY <2>2, ConcatList, EmptyList DEF TypeOK, ListsOK
  <2> QED BY <2>1, <2>2 DEF StartTransfer
<1> QED BY <1>1, SegsFrame

\* The descriptors that the engine may be given have segments after each step.
LEMMA SegsStep == IInv /\ [Next]_vars => HaveSegs'
<1> SUFFICES ASSUME TypeOK, Own, HaveSegs, Own', [Next]_vars PROVE HaveSegs'
  BY OwnStep DEF IInv
<1> USE DEF Submitting, PrepCalls
<1>1. CASE AllocChanResources
  BY <1>1, SegsFrame DEF AllocChanResources, listVars, descVars, clientVars
<1>2. ASSUME NEW c \in Client, NEW d \in Desc, NEW kind \in PrepCalls, NEW n \in 1 .. MaxSegs, PrepBegin(c, d, kind, n)
      PROVE  HaveSegs'
  <2>1. /\ UNCHANGED <<pending_list, active_list, desc>>
        /\ pc' = [pc EXCEPT ![c] = kind] /\ hand' = [hand EXCEPT ![c] = d]
        /\ need' = [need EXCEPT ![c] = n]
    BY <1>2 DEF PrepBegin, Goto, listVars
  <2>2. need'[c] > 0
    BY <2>1 DEF TypeOK, ClientsOK
  <2>3. \A x \in Client \ {c} : pc'[x] = pc[x] /\ hand'[x] = hand[x] /\ need'[x] = need[x]
    BY <2>1 DEF TypeOK, ClientsOK
  <2>4. pc'[c] = kind
    BY <2>1 DEF TypeOK, ClientsOK
  <2> QED BY <2>1, <2>2, <2>3, <2>4 DEF HaveSegs
<1>3. ASSUME NEW c \in Client, PrepAlloc(c)
      PROVE  HaveSegs'
  <2>1. /\ UNCHANGED <<pending_list, active_list, pc, hand>>
        /\ desc' = [desc EXCEPT ![hand[c]].segs = Append(@, Head(free_seg_list))]
        /\ need' = [need EXCEPT ![c] = @ - 1]
        /\ pc[c] \in PrepCalls
    BY <1>3 DEF PrepAlloc, listVars
  <2>2. hand[c] \in Desc /\ Head(free_seg_list) \in Seg
    BY <1>3, HandInDesc, EndsOfList DEF PrepAlloc, Preparing, TypeOK, MemOK
  <2>3. desc'[hand[c]].segs # <<>>
    BY <2>1, <2>2, AppendList DEF TypeOK, DescOK
  <2>4. \A e \in Desc \ {hand[c]} : desc'[e] = desc[e]
    BY <2>1 DEF TypeOK, DescOK
  <2>5. \A d \in Desc : desc[d].segs # <<>> => desc'[d].segs # <<>>
    BY <2>3, <2>4
  <2>6. /\ Range(pending_list) \cup Range(active_list) \subseteq Desc
        /\ \A x \in Client : pc[x] \in Submitting \cup PrepCalls => hand[x] \in Desc
    BY HandInDesc, RangeType DEF TypeOK, ListsOK, Preparing
  <2>7. \A x \in Client \ {c} : need'[x] = need[x]
    BY <2>1 DEF TypeOK, ClientsOK
  <2> QED BY <2>1, <2>3, <2>5, <2>6, <2>7 DEF HaveSegs
<1>4. ASSUME NEW c \in Client, PrepNoSegment(c)
      PROVE  HaveSegs'
  <2>1. /\ UNCHANGED <<pending_list, active_list, desc, hand>>
        /\ pc' = [pc EXCEPT ![c] = "prep_error"] /\ need' = [need EXCEPT ![c] = 0]
    BY <1>4 DEF PrepNoSegment, Goto, listVars, descVars
  <2>2. \A x \in Client : pc'[x] \in Submitting \cup PrepCalls =>
          x # c /\ pc'[x] = pc[x] /\ need'[x] = need[x]
    BY <2>1 DEF TypeOK, ClientsOK
  <2> QED BY <2>1, <2>2, SegsFrame
<1>5. ASSUME NEW c \in Client, PrepError(c)
      PROVE  HaveSegs'
  <2>1. /\ UNCHANGED <<pending_list, active_list, need>>
        /\ pc'[c] = "idle" /\ \A x \in Client \ {c} : pc'[x] = pc[x] /\ hand'[x] = hand[x]
    BY <1>5 DEF PrepError, Goto, Drop, listVars, clientVars, TypeOK, ClientsOK
  <2>2. \A e \in live' : desc'[e] = desc[e]
    BY <1>5, SegsFree DEF PrepError, descVars
  <2> QED BY <2>1, <2>2, SegsMove
<1>6. ASSUME NEW c \in Client, SubmitBusy(c)
      PROVE  HaveSegs'
  <2>1. /\ UNCHANGED <<pending_list, active_list, need>>
        /\ pc'[c] = "idle" /\ \A x \in Client \ {c} : pc'[x] = pc[x] /\ hand'[x] = hand[x]
    BY <1>6 DEF SubmitBusy, Goto, Drop, listVars, clientVars, TypeOK, ClientsOK
  <2>2. \A e \in live' : desc'[e] = desc[e]
    BY <1>6, SegsFree DEF SubmitBusy, descVars
  <2> QED BY <2>1, <2>2, SegsMove
<1>7. ASSUME NEW c \in Client, PrepEnd(c)
      PROVE  HaveSegs'
  <2>1. /\ UNCHANGED <<pending_list, active_list, hand, need>>
        /\ pc[c] \in PrepCalls /\ need[c] = 0
        /\ pc' = [pc EXCEPT ![c] = "prepared"]
    BY <1>7 DEF PrepEnd, Goto, listVars
  <2>2. \A e \in Desc : desc'[e].segs = desc[e].segs
    BY <1>7 DEF PrepEnd, TypeOK, DescOK
  <2>3. /\ Range(pending_list) \cup Range(active_list) \subseteq Desc
        /\ \A x \in Client : pc[x] \in Submitting \cup PrepCalls => hand[x] \in Desc
    BY HandInDesc, RangeType DEF TypeOK, ListsOK, Preparing
  <2>4. /\ pc'[c] = "prepared" /\ desc[hand[c]].segs # <<>>
        /\ \A x \in Client \ {c} : pc'[x] = pc[x]
    BY <2>1 DEF HaveSegs, TypeOK, ClientsOK
  <2> QED BY <2>1, <2>2, <2>3, <2>4 DEF HaveSegs
<1>8. ASSUME NEW c \in Client, SubmitNotBusy(c)
      PROVE  HaveSegs'
  BY <1>8, SegsMove DEF SubmitNotBusy, Goto, listVars, descVars, TypeOK, ClientsOK
<1>9. ASSUME NEW c \in Client, SubmitCheckErr(c)
      PROVE  HaveSegs'
  <2>1. /\ UNCHANGED <<pending_list, active_list, desc, hand, need>>
        /\ pc[c] = "check_err"
        /\ pc'[c] \in {"reset", "append"} /\ \A x \in Client \ {c} : pc'[x] = pc[x]
    BY <1>9 DEF SubmitCheckErr, Goto, listVars, descVars, TypeOK, ClientsOK
  <2> QED BY <2>1, SegsMove
<1>10. ASSUME NEW c \in Client, SubmitReset(c)
      PROVE  HaveSegs'
  BY <1>10, SegsMove DEF SubmitReset, Goto, listVars, descVars, TypeOK, ClientsOK
<1>11. ASSUME NEW c \in Client, SubmitResetTimeout(c)
      PROVE  HaveSegs'
  <2>1. /\ UNCHANGED <<pending_list, active_list, need>>
        /\ pc'[c] = "idle" /\ \A x \in Client \ {c} : pc'[x] = pc[x] /\ hand'[x] = hand[x]
    BY <1>11 DEF SubmitResetTimeout, Goto, Drop, listVars, clientVars, TypeOK, ClientsOK
  <2>2. \A e \in live' : desc'[e] = desc[e]
    BY <1>11 DEF SubmitResetTimeout, descVars
  <2> QED BY <2>1, <2>2, SegsMove
<1>12. ASSUME NEW c \in Client, SubmitAppend(c)
      PROVE  HaveSegs'
  <2>1. hand[c] \in Desc /\ desc[hand[c]].segs # <<>>
    BY <1>12, HandInDesc DEF SubmitAppend, Preparing, HaveSegs
  <2>2. /\ pending_list' = Append(pending_list, hand[c])
        /\ desc' = [desc EXCEPT ![hand[c]].cookie = cookie + 1]
        /\ UNCHANGED <<active_list, need>>
    BY <1>12 DEF SubmitAppend
  <2>3. Range(pending_list') = Range(pending_list) \cup {hand[c]}
    BY <2>1, <2>2, AppendList DEF TypeOK, ListsOK
  <2>4. \A e \in Desc : desc'[e].segs = desc[e].segs
    BY <2>2 DEF TypeOK, DescOK
  <2>5. /\ Range(pending_list) \cup Range(active_list) \subseteq Desc
        /\ \A x \in Client : pc[x] \in Submitting \cup PrepCalls => hand[x] \in Desc
    BY HandInDesc, RangeType DEF TypeOK, ListsOK, Preparing
  <2>6. /\ pc'[c] \notin Submitting \cup PrepCalls
        /\ \A x \in Client \ {c} : pc'[x] = pc[x] /\ hand'[x] = hand[x]
    BY <1>12 DEF SubmitAppend, Goto, Drop, TypeOK, ClientsOK
  <2> QED BY <2>1, <2>2, <2>3, <2>4, <2>5, <2>6 DEF HaveSegs
<1>13. ASSUME NEW c \in Client, IssuePending(c)
      PROVE  HaveSegs'
  BY <1>13, SegsStart DEF IssuePending, descVars, clientVars
<1>14. ASSUME NEW c \in Client, StatusBegin(c)
      PROVE  HaveSegs'
  <2>1. /\ UNCHANGED <<pending_list, active_list, need>>
        /\ pc'[c] = "status" /\ \A x \in Client \ {c} : pc'[x] = pc[x] /\ hand'[x] = hand[x]
    BY <1>14 DEF StatusBegin, Goto, Drop, listVars, clientVars, TypeOK, ClientsOK
  <2>2. \A e \in live' : desc'[e] = desc[e]
    BY <1>14 DEF StatusBegin, descVars
  <2> QED BY <2>1, <2>2, SegsMove
<1>15. ASSUME NEW c \in Client, StatusWalk(c)
      PROVE  HaveSegs'
  <2>1. /\ UNCHANGED <<pending_list, active_list, need>>
        /\ pc'[c] = "idle" /\ \A x \in Client \ {c} : pc'[x] = pc[x] /\ hand'[x] = hand[x]
    BY <1>15 DEF StatusWalk, Goto, Drop, listVars, clientVars, TypeOK, ClientsOK
  <2>2. \A e \in live' : desc'[e] = desc[e]
    BY <1>15 DEF StatusWalk, descVars
  <2> QED BY <2>1, <2>2, SegsMove
<1>16. ASSUME NEW c \in Client, TerminateHalt(c)
      PROVE  HaveSegs'
  <2>1. /\ UNCHANGED <<pending_list, active_list, need>>
        /\ pc'[c] = "term_lock" /\ \A x \in Client \ {c} : pc'[x] = pc[x] /\ hand'[x] = hand[x]
    BY <1>16 DEF TerminateHalt, Goto, Drop, listVars, clientVars, TypeOK, ClientsOK
  <2>2. \A e \in live' : desc'[e] = desc[e]
    BY <1>16 DEF TerminateHalt, descVars
  <2> QED BY <2>1, <2>2, SegsMove
<1>17. ASSUME NEW c \in Client, TerminateLock(c)
      PROVE  HaveSegs'
  BY <1>17, SegsMove DEF TerminateLock, Goto, Drop, listVars, descVars, clientVars, TypeOK, ClientsOK
<1>18. ASSUME NEW c \in Client, FreeDescriptors(c)
      PROVE  HaveSegs'
  <2>1. UNCHANGED <<pc, hand, need>> /\ \A e \in live' : desc'[e] = desc[e]
    BY <1>18, SegsFree DEF FreeDescriptors, clientVars
  <2>2. \/ pending_list # <<>> /\ pending_list' = Tail(pending_list) /\ active_list' = active_list
        \/ pending_list' = pending_list /\ active_list' = active_list
        \/ active_list # <<>> /\ active_list' = Tail(active_list) /\ pending_list' = pending_list
    BY <1>18 DEF FreeDescriptors
  <2>3. /\ pending_list # <<>> => Range(Tail(pending_list)) \subseteq Range(pending_list)
        /\ active_list # <<>> => Range(Tail(active_list)) \subseteq Range(active_list)
    BY TailList DEF TypeOK, ListsOK
  <2>4. Range(pending_list') \cup Range(active_list')
          \subseteq Range(pending_list) \cup Range(active_list)
    BY <2>2, <2>3
  <2> QED BY <2>1, <2>4, SegsFrame
<1>19. ASSUME NEW c \in Client, TerminateUnlock(c)
      PROVE  HaveSegs'
  BY <1>19, SegsMove DEF TerminateUnlock, Goto, Drop, listVars, descVars, clientVars, TypeOK, ClientsOK
<1>20. ASSUME NEW c \in Client, TerminateCyclic(c)
      PROVE  HaveSegs'
  <2>1. /\ UNCHANGED <<pending_list, active_list, need>>
        /\ pc'[c] = "idle" /\ \A x \in Client \ {c} : pc'[x] = pc[x] /\ hand'[x] = hand[x]
    BY <1>20 DEF TerminateCyclic, Goto, Drop, listVars, clientVars, TypeOK, ClientsOK
  <2>2. \A e \in live' : desc'[e] = desc[e]
    BY <1>20 DEF TerminateCyclic, descVars
  <2> QED BY <2>1, <2>2, SegsMove
<1>21. ASSUME NEW c \in Client, ReleaseLock(c)
      PROVE  HaveSegs'
  BY <1>21, SegsMove DEF ReleaseLock, Goto, Drop, listVars, descVars, clientVars, TypeOK, ClientsOK
<1>22. ASSUME NEW c \in Client, ReleaseUnlock(c)
      PROVE  HaveSegs'
  BY <1>22, SegsMove DEF ReleaseUnlock, Goto, Drop, listVars, descVars, clientVars, TypeOK, ClientsOK
<1>23. ASSUME NEW c \in Client, ReleaseFree(c)
      PROVE  HaveSegs'
  BY <1>23, SegsMove DEF ReleaseFree, Goto, Drop, listVars, descVars, clientVars, TypeOK, ClientsOK
<1>24. CASE EngineTransfer
  BY <1>24, SegsFrame DEF EngineTransfer, listVars, descVars, clientVars
<1>25. CASE EngineError
  BY <1>25, SegsFrame DEF EngineError, listVars, descVars, clientVars
<1>26. CASE IrqAck
  BY <1>26, SegsFrame DEF IrqAck, listVars, descVars, clientVars
<1>27. CASE IrqLock
  BY <1>27, SegsFrame DEF IrqLock, listVars, descVars, clientVars
<1>28. CASE IrqComplete
  <2>1. /\ active_list # <<>> /\ active_list' = Tail(active_list)
        /\ UNCHANGED <<pending_list, desc, live, pc, hand, need>>
    BY <1>28 DEF IrqComplete, descVars, clientVars
  <2>2. Range(active_list') \subseteq Range(active_list)
    BY <2>1, TailList DEF TypeOK, ListsOK
  <2> QED BY <2>1, <2>2, SegsFrame
<1>29. CASE IrqRestart
  BY <1>29, SegsStart DEF IrqRestart, descVars, clientVars
<1>30. CASE TaskletRun
  BY <1>30, SegsFrame DEF TaskletRun, TaskletUnchanged, listVars, descVars, clientVars
<1>31. CASE TaskletExit
  BY <1>31, SegsFrame DEF TaskletExit, TaskletUnchanged, listVars, descVars, clientVars
<1>32. CASE TaskletCyclic
  BY <1>32, SegsFrame DEF TaskletCyclic, TaskletUnchanged, listVars, descVars, clientVars
<1>33. CASE TaskletCyclicReturn
  BY <1>33, SegsFrame DEF TaskletCyclicReturn, TaskletUnchanged, listVars, descVars, clientVars
<1>34. CASE TaskletPop
  BY <1>34, SegsFrame DEF TaskletPop, TaskletUnchanged, listVars, descVars, clientVars
<1>35. CASE TaskletFree
  BY <1>35, SegsFrame, SegsFree DEF TaskletFree, TaskletUnchanged, listVars, clientVars
<1>36. CASE UNCHANGED vars
  BY <1>36, SegsFrame DEF vars, listVars, descVars, clientVars
<1> QED
  BY <1>1, <1>2, <1>3, <1>4, <1>5, <1>6, <1>7, <1>8, <1>9, <1>10, <1>11,
     <1>12, <1>13, <1>14, <1>15, <1>16, <1>17, <1>18, <1>19, <1>20,
     <1>21, <1>22, <1>23, <1>24, <1>25, <1>26, <1>27, <1>28, <1>29,
     <1>30, <1>31, <1>32, <1>33, <1>34, <1>35, <1>36
  DEF Next, ClientStep, Engine, Irq, Tasklet

-----------------------------------------------------------------------------
(* Theorems about types and owners *)

\* The inductive invariant: TypeOK and Own need each other, and the address
\* that start_transfer writes to CURDESC needs HaveSegs.
THEOREM Invariance == Spec => []IInv
<1>1. Init => IInv
  BY InitInv
<1>2. IInv /\ [Next]_vars => IInv'
  BY TypeStep, OwnStep, SegsStep DEF IInv
<1> QED BY <1>1, <1>2, PTL DEF Spec

\* The lists of a channel only ever hold descriptors, the segment chains and
\* the engine's registers only ever hold addresses of segments of the pool, and
\* desc_pendingcount never falls below zero: whatever the number of clients
\* and whatever they call, in every interleaving with the interrupt handler
\* and the tasklet.
THEOREM TypeCorrect == Spec => []TypeOK
<1>1. IInv => TypeOK
  BY DEF IInv
<1> QED BY <1>1, Invariance, PTL

\* A descriptor is never on two lists, never twice on one, never freed while
\* a list, a client or the tasklet still holds it: the critical sections of
\* chan->lock hand each descriptor from one owner to the next.
THEOREM DescriptorsOwnedOnce == Spec => []DescOwnedOnce
<1>1. IInv => DescOwnedOnce
  BY OwnMeansOwnedOnce DEF IInv
<1> QED BY <1>1, Invariance, PTL
-----------------------------------------------------------------------------
(* The order of the transactions: the three lists are seen as the queue of
   DmaEngineQueue. *)

\* The steps that change the lists, the descriptors or the cookies, and what the
\* others leave alone: a descriptor that is not queued changes at most.
QueueSame == UNCHANGED <<listVars, cookieVars>>
OneUnqueuedChanges ==
  QueueSame /\ \E d \in Desc \ Queued : \A e \in Desc \ {d} : desc'[e] = desc[e]
Starting ==
  \E ch \in ChanType : /\ ch = chan \/ active_list = <<>>
                       /\ StartTransfer(ch)
                       /\ UNCHANGED <<done_list, desc, cookieVars>>

LEMMA StatusSteps ==
  ASSUME NEW c \in Client,
         \/ \E d \in Desc, kind \in PrepCalls, n \in 1 .. MaxSegs : PrepBegin(c, d, kind, n)
         \/ PrepNoSegment(c) \/ SubmitNotBusy(c) \/ SubmitCheckErr(c) \/ SubmitReset(c)
         \/ SubmitResetTimeout(c) \/ StatusBegin(c) \/ StatusWalk(c)
         \/ TerminateHalt(c) \/ TerminateLock(c) \/ TerminateUnlock(c) \/ TerminateCyclic(c)
         \/ ReleaseLock(c) \/ ReleaseUnlock(c) \/ ReleaseFree(c)
  PROVE  QueueSame /\ UNCHANGED desc
BY DEF QueueSame, PrepBegin, PrepNoSegment, SubmitNotBusy, SubmitCheckErr, SubmitReset,
       SubmitResetTimeout, StatusBegin, StatusWalk, TerminateHalt, TerminateLock,
       TerminateUnlock, TerminateCyclic, ReleaseLock, ReleaseUnlock, ReleaseFree, descVars

LEMMA HandlerSteps ==
  ASSUME \/ EngineTransfer \/ EngineError \/ IrqAck \/ IrqLock
         \/ TaskletRun \/ TaskletExit \/ TaskletCyclic \/ TaskletCyclicReturn
         \/ UNCHANGED vars
  PROVE  QueueSame /\ UNCHANGED desc
BY DEF QueueSame, EngineTransfer, EngineError, IrqAck, IrqLock, TaskletRun, TaskletExit,
       TaskletCyclic, TaskletCyclicReturn, TaskletUnchanged, vars, descVars, listVars, cookieVars

LEMMA StartSteps ==
  ASSUME TypeOK, (\E c \in Client : IssuePending(c)) \/ IrqRestart
  PROVE  Starting
<1>1. ASSUME NEW c \in Client, IssuePending(c)
      PROVE  Starting
  BY <1>1 DEF IssuePending, Starting, descVars, TypeOK, ChanOK, ChanType
<1>2. CASE IrqRestart
  <2>1. [chan EXCEPT !.idle = TRUE] \in ChanType
    BY DEF TypeOK, ChanOK, ChanType
  <2> QED BY <1>2, <2>1 DEF IrqRestart, Starting, descVars
<1> QED BY <1>1, <1>2

LEMMA QueueCases ==
  ASSUME IInv, [Next]_vars
  PROVE  \/ QueueSame /\ UNCHANGED desc
         \/ OneUnqueuedChanges
         \/ AllocChanResources
         \/ \E c \in Client : SubmitAppend(c)
         \/ Starting
         \/ IrqComplete
         \/ TaskletPop
         \/ \E c \in Client : FreeDescriptors(c)
<1> USE DEF IInv
<1>1. ASSUME NEW c \in Client, PrepAlloc(c) \/ PrepEnd(c)
      PROVE  OneUnqueuedChanges
  <2>1. pc[c] \in Preparing
    BY <1>1 DEF PrepAlloc, PrepEnd, Preparing, PrepCalls
  <2>2. hand[c] \in Desc \ Queued
    BY <2>1, HandInDesc DEF Own, OneOwner
  <2>3. \A e \in Desc \ {hand[c]} : desc'[e] = desc[e]
    BY <1>1, <2>2 DEF PrepAlloc, PrepEnd, TypeOK, DescOK
  <2> QED BY <1>1, <2>2, <2>3 DEF PrepAlloc, PrepEnd, OneUnqueuedChanges, QueueSame
<1>2. ASSUME NEW c \in Client, PrepError(c) \/ SubmitBusy(c)
      PROVE  OneUnqueuedChanges
  <2>1. pc[c] \in Preparing
    BY <1>2 DEF PrepError, SubmitBusy, Preparing
  <2>2. hand[c] \in Desc \ Queued
    BY <2>1, HandInDesc DEF Own, OneOwner
  <2>3. \A e \in Desc \ {hand[c]} : desc'[e] = desc[e]
    BY <1>2, <2>2, FreeStep DEF PrepError, SubmitBusy, TypeOK, ListsOK
  <2> QED BY <1>2, <2>2, <2>3 DEF PrepError, SubmitBusy, OneUnqueuedChanges, QueueSame
<1>3. CASE TaskletFree
  <2>1. tasklet.desc \in Desc \ Queued
    BY <1>3 DEF TaskletFree, TypeOK, ListsOK, Own, OneOwner
  <2>2. \A e \in Desc \ {tasklet.desc} : desc'[e] = desc[e]
    BY <1>3, <2>1, FreeStep DEF TaskletFree, TypeOK, ListsOK
  <2> QED BY <1>3, <2>1, <2>2
          DEF TaskletFree, TaskletUnchanged, OneUnqueuedChanges, QueueSame, listVars, cookieVars
<1> QED
  BY StatusSteps, HandlerSteps, StartSteps, <1>1, <1>2, <1>3
  DEF Next, ClientStep, Engine, Irq, Tasklet
-----------------------------------------------------------------------------
(* The lists are consecutive runs of cookies *)

\* Clients only prepare and submit slave transactions, issue them and ask for their
\* status, as vdmaproxy, axidma and vxdma_dev do.
SlaveOnly == Calls \subseteq {"prep_slave_sg", "tx_status"}

\* Then nobody is in the other operations, no descriptor is cyclic, and until
\* the pool is allocated nothing has happened.
SlaveInv ==
  /\ \A c \in Client :
       pc[c] \notin {"prep_dma_cyclic", "term_lock", "term_free", "term_cyclic",
                     "rel_free", "rel_reset"}
  /\ \A d \in Desc : ~desc[d].cyclic
  /\ ~pool => /\ \A c \in Client : pc[c] = "idle"
              /\ Queued = {} /\ cookie = 0 /\ completed_cookie = 0 /\ notified = 0

\* Pipeline, list by list.
RunsInv ==
  /\ \A i \in DOMAIN done_list : desc[done_list[i]].cookie = notified + i
  /\ \A i \in DOMAIN active_list : desc[active_list[i]].cookie = completed_cookie + i
  /\ \A i \in DOMAIN pending_list :
       desc[pending_list[i]].cookie = completed_cookie + Len(active_list) + i
  /\ notified + Len(done_list) = completed_cookie
  /\ completed_cookie + Len(active_list) + Len(pending_list) = cookie

\* An idle channel has nothing active, whatever clients call.
IdleInv == chan.idle => active_list = <<>>

QInv == IInv /\ SlaveInv /\ RunsInv /\ IdleInv

LEMMA InitQueue == Init => SlaveInv /\ RunsInv /\ IdleInv
BY EmptyList DEF Init, SlaveInv, RunsInv, IdleInv, Queued, BlankDesc

\* The active list only grows when start_transfer marks the channel busy.
LEMMA IdleStep ==
  ASSUME IInv, IdleInv, [Next]_vars
  PROVE  IdleInv'
<1>1. ASSUME NEW ch \in ChanType, StartTransfer(ch), ch = chan \/ active_list = <<>>
      PROVE  IdleInv'
  <2>1. CASE /\ chan' \in {ch, [ch EXCEPT !.ctrl_reg = StartCtrl(ch), !.err = TRUE]}
             /\ UNCHANGED active_list
    BY <1>1, <2>1 DEF ChanType, IdleInv
  <2>2. CASE chan' = Started(ch)
    BY <2>2 DEF ChanType, Started, IdleInv
  <2> QED BY <1>1, <2>1, <2>2 DEF StartTransfer
<1>2. ASSUME NEW c \in Client, IssuePending(c)
      PROVE  IdleInv'
  BY <1>1, <1>2 DEF IssuePending, IInv, TypeOK, ChanOK, ChanType
<1>3. CASE IrqRestart
  BY <1>1, <1>3 DEF IrqRestart, IInv, TypeOK, ChanOK, ChanType
<1>4. CASE IrqComplete
  BY <1>4 DEF IrqComplete, IdleInv
<1>5. ASSUME NEW c \in Client, FreeDescriptors(c)
      PROVE  IdleInv'
  BY <1>5 DEF FreeDescriptors, IdleInv
<1>6. ASSUME UNCHANGED active_list, chan'.idle = chan.idle
      PROVE  IdleInv'
  BY <1>6 DEF IdleInv
<1>7. ASSUME NEW c \in Client,
             \/ \E d \in Desc, kind \in PrepCalls, n \in 1 .. MaxSegs : PrepBegin(c, d, kind, n)
             \/ PrepAlloc(c) \/ PrepNoSegment(c) \/ PrepError(c) \/ SubmitBusy(c)
             \/ SubmitNotBusy(c) \/ SubmitCheckErr(c) \/ StatusBegin(c) \/ StatusWalk(c)
             \/ TerminateLock(c) \/ TerminateUnlock(c)
             \/ ReleaseLock(c) \/ ReleaseUnlock(c) \/ ReleaseFree(c)
      PROVE  IdleInv'
  BY <1>6, <1>7 DEF PrepBegin, PrepAlloc, PrepNoSegment, PrepError, SubmitBusy, SubmitNotBusy,
     SubmitCheckErr, StatusBegin, StatusWalk, TerminateLock, TerminateUnlock, ReleaseLock,
     ReleaseUnlock, ReleaseFree, listVars
<1>8. ASSUME NEW c \in Client,
             \/ PrepEnd(c) \/ SubmitReset(c) \/ SubmitResetTimeout(c) \/ SubmitAppend(c)
             \/ TerminateHalt(c) \/ TerminateCyclic(c)
      PROVE  IdleInv'
  BY <1>6, <1>8 DEF PrepEnd, SubmitReset, SubmitResetTimeout, SubmitAppend, TerminateHalt,
     TerminateCyclic, listVars, IInv, TypeOK, ChanOK
<1>9. CASE AllocChanResources \/ IrqAck
  BY <1>6, <1>9 DEF AllocChanResources, IrqAck, listVars, IInv, TypeOK, ChanOK
<1>10. CASE Engine \/ IrqLock \/ Tasklet \/ UNCHANGED vars
  BY <1>6, <1>10 DEF Engine, Tasklet, EngineTransfer, EngineError, IrqLock, TaskletRun,
     TaskletExit, TaskletCyclic, TaskletCyclicReturn, TaskletPop, TaskletFree,
     TaskletUnchanged, vars, listVars
<1> QED BY <1>2, <1>3, <1>4, <1>5, <1>7, <1>8, <1>9, <1>10 DEF Next, ClientStep, Irq

\* The calls that the clients do not make leave these program points unused.
OtherPc == {"prep_dma_cyclic", "term_lock", "term_free", "term_cyclic", "rel_free", "rel_reset"}

\* What a step of a client does to its program counter, and to the pool.
LEMMA SlaveSteps ==
  ASSUME SlaveOnly, SlaveInv, TypeOK, NEW c \in Client, ClientStep(c)
  PROVE  /\ pool /\ pool' = pool
         /\ \/ pc' = pc
            \/ \E l \in ClientPc \ OtherPc : pc' = [pc EXCEPT ![c] = l]
<1> USE DEF OtherPc
<1>1. /\ pc[c] # "idle" => pool
      /\ pc[c] \notin OtherPc
  BY DEF SlaveInv
<1>2. ASSUME NEW d \in Desc, NEW kind \in PrepCalls, NEW n \in 1 .. MaxSegs,
             PrepBegin(c, d, kind, n)
      PROVE  /\ pool /\ pool' = pool
             /\ \E l \in ClientPc \ OtherPc : pc' = [pc EXCEPT ![c] = l]
  <2>1. kind = "prep_slave_sg"
    BY <1>2 DEF PrepBegin, PrepCalls, SlaveOnly
  <2> QED BY <1>2, <2>1 DEF PrepBegin, Goto, Claimed, memVars, ClientPc
<1>3. CASE PrepAlloc(c) \/ IssuePending(c)
  BY <1>1, <1>3 DEF PrepAlloc, IssuePending, PrepCalls, Claimed, memVars, clientVars
<1>4. CASE PrepNoSegment(c) \/ PrepError(c) \/ PrepEnd(c) \/ SubmitBusy(c)
  BY <1>1, <1>4 DEF PrepNoSegment, PrepError, PrepEnd, SubmitBusy, PrepCalls, Goto, ClientPc,
     memVars, FreeTxDescriptor
<1>5. CASE SubmitNotBusy(c) \/ SubmitCheckErr(c) \/ SubmitReset(c)
           \/ SubmitResetTimeout(c) \/ SubmitAppend(c)
  BY <1>1, <1>5 DEF SubmitNotBusy, SubmitCheckErr, SubmitReset, SubmitResetTimeout,
     SubmitAppend, Goto, ClientPc, memVars
<1>6. CASE StatusBegin(c) \/ StatusWalk(c)
  BY <1>1, <1>6 DEF StatusBegin, StatusWalk, Claimed, Goto, ClientPc, memVars
<1>7. ~(\/ TerminateHalt(c) \/ TerminateLock(c) \/ FreeDescriptors(c) \/ TerminateUnlock(c)
        \/ TerminateCyclic(c) \/ ReleaseLock(c) \/ ReleaseUnlock(c) \/ ReleaseFree(c))
  BY <1>1 DEF SlaveOnly, TerminateHalt, TerminateLock, FreeDescriptors, TerminateUnlock,
     TerminateCyclic, ReleaseLock, ReleaseUnlock, ReleaseFree
<1> QED BY <1>2, <1>3, <1>4, <1>5, <1>6, <1>7 DEF ClientStep

\* The handlers leave the clients and the pool alone.
LEMMA HandlersLeave ==
  ASSUME Engine \/ Irq \/ Tasklet \/ UNCHANGED vars
  PROVE  pc' = pc /\ pool' = pool /\ hand' = hand /\ need' = need
BY DEF Engine, Irq, Tasklet, EngineTransfer, EngineError, IrqAck, IrqLock, IrqComplete,
   IrqRestart, TaskletRun, TaskletExit, TaskletCyclic, TaskletCyclicReturn, TaskletPop,
   TaskletFree, TaskletUnchanged, FreeTxDescriptor, vars, memVars, clientVars

\* No descriptor becomes cyclic.
LEMMA NoneCyclic ==
  ASSUME IInv, SlaveInv, [Next]_vars
  PROVE  \A d \in Desc : ~desc'[d].cyclic
<1> USE DEF IInv
<1>1. \A d \in Desc : ~desc[d].cyclic
  BY DEF SlaveInv
<1>2. ASSUME NEW d \in Desc, FreeTxDescriptor(d)
      PROVE  \A e \in Desc : ~desc'[e].cyclic
  BY <1>1, <1>2 DEF FreeTxDescriptor, TypeOK, DescOK, BlankDesc
<1>3. ASSUME NEW c \in Client, PrepAlloc(c) \/ PrepEnd(c) \/ SubmitAppend(c)
      PROVE  \A e \in Desc : ~desc'[e].cyclic
  <2>1. pc[c] # "prep_dma_cyclic" /\ pc[c] \in Preparing
    BY <1>3 DEF SlaveInv, PrepAlloc, PrepEnd, SubmitAppend, Preparing
  <2>2. hand[c] \in Desc
    BY <2>1, HandInDesc
  <2>3. \/ \E q : desc' = [desc EXCEPT ![hand[c]].segs = q]
        \/ desc' = [desc EXCEPT ![hand[c]].cyclic = FALSE]
        \/ \E k : desc' = [desc EXCEPT ![hand[c]].cookie = k]
    BY <1>3, <2>1 DEF PrepAlloc, PrepEnd, SubmitAppend
  <2> QED BY <1>1, <2>2, <2>3 DEF TypeOK, DescOK
<1>4. ASSUME NEW c \in Client, PrepError(c) \/ SubmitBusy(c)
      PROVE  \A e \in Desc : ~desc'[e].cyclic
  <2>1. hand[c] \in Desc
    BY <1>4, HandInDesc DEF PrepError, SubmitBusy, Preparing
  <2> QED BY <1>2, <1>4, <2>1 DEF PrepError, SubmitBusy
<1>5. CASE TaskletFree
  <2>1. tasklet.desc \in Desc
    BY <1>5 DEF TaskletFree, TypeOK, ListsOK, Own, OneOwner
  <2> QED BY <1>2, <1>5, <2>1 DEF TaskletFree
<1>6. ASSUME NEW c \in Client, FreeDescriptors(c)
      PROVE  \A e \in Desc : ~desc'[e].cyclic
  BY <1>6 DEF FreeDescriptors, SlaveInv
<1>7. ASSUME UNCHANGED desc
      PROVE  \A e \in Desc : ~desc'[e].cyclic
  BY <1>1, <1>7
<1>8. ASSUME NEW c \in Client, IssuePending(c)
      PROVE  UNCHANGED desc
  BY <1>8 DEF IssuePending, descVars
<1>9. CASE AllocChanResources \/ IrqComplete \/ IrqRestart \/ TaskletPop
  BY <1>7, <1>9 DEF AllocChanResources, IrqComplete, IrqRestart, TaskletPop, descVars
<1> QED
  BY StatusSteps, HandlerSteps, <1>3, <1>4, <1>5, <1>6, <1>7, <1>8, <1>9
  DEF Next, ClientStep, Engine, Irq, Tasklet

\* Until the pool is allocated the lists stay empty.
LEMMA SlaveStep ==
  ASSUME SlaveOnly, IInv, SlaveInv, [Next]_vars
  PROVE  SlaveInv'
<1> USE DEF IInv
<1>1. \A c \in Client : pc'[c] \notin OtherPc
  <2>1. \A c \in Client : pc[c] \notin OtherPc
    BY DEF SlaveInv, OtherPc
  <2>2. ASSUME NEW c \in Client, ClientStep(c)
        PROVE  \A x \in Client : pc'[x] \notin OtherPc
    BY SlaveSteps, <2>1, <2>2 DEF TypeOK, ClientsOK
  <2>3. CASE AllocChanResources
    BY <2>1, <2>3 DEF AllocChanResources, clientVars
  <2> QED BY <2>1, <2>2, <2>3, HandlersLeave DEF Next
<1>2. ASSUME ~pool'
      PROVE  /\ \A c \in Client : pc'[c] = "idle"
             /\ Queued' = {} /\ cookie' = 0 /\ completed_cookie' = 0 /\ notified' = 0
  <2>1. \A c \in Client : ~ClientStep(c)
    BY <1>2, SlaveSteps
  <2>2. ~AllocChanResources
    BY <1>2 DEF AllocChanResources
  <2>3. Engine \/ Irq \/ Tasklet \/ UNCHANGED vars
    BY <2>1, <2>2 DEF Next
  <2>4. ~pool /\ pc' = pc
    BY <1>2, <2>3, HandlersLeave
  <2>5. /\ \A c \in Client : pc[c] = "idle"
        /\ Queued = {} /\ cookie = 0 /\ completed_cookie = 0 /\ notified = 0
    BY <2>4 DEF SlaveInv
  <2>6. pending_list = <<>> /\ active_list = <<>> /\ done_list = <<>>
    BY <2>5, EndsOfList DEF Queued, TypeOK, ListsOK
  <2>7. QueueSame
    BY <2>3, <2>6, HandlerSteps
    DEF Engine, Irq, Tasklet, IrqComplete, IrqRestart, StartTransfer, TaskletPop, TaskletFree,
        TaskletUnchanged, QueueSame, listVars, cookieVars
  <2> QED BY <2>4, <2>5, <2>7 DEF QueueSame, listVars, cookieVars, Queued
<1> QED BY <1>1, <1>2, NoneCyclic DEF SlaveInv, OtherPc

-----------------------------------------------------------------------------
(* The steps of the queue *)

\* xilinx_dma_tx_submit: the new descriptor is the last pending one and has the
\* next cookie.
LEMMA RunsSubmit ==
  ASSUME IInv, RunsInv, NEW c \in Client, SubmitAppend(c)
  PROVE  RunsInv'
<1> USE DEF IInv
<1>1. pc[c] = "append" /\ pc[c] \in Preparing
  BY DEF SubmitAppend, Preparing
<1>2. hand[c] \in Desc /\ hand[c] \notin Queued
  BY <1>1, HandInDesc DEF Own, OneOwner
<1>3. /\ pending_list' = Append(pending_list, hand[c])
      /\ desc' = [desc EXCEPT ![hand[c]].cookie = cookie + 1]
      /\ cookie' = cookie + 1
      /\ UNCHANGED <<active_list, done_list, completed_cookie, notified>>
  BY DEF SubmitAppend
<1>4. /\ Len(pending_list') = Len(pending_list) + 1
      /\ \A i \in 1 .. Len(pending_list) : pending_list'[i] = pending_list[i]
      /\ pending_list'[Len(pending_list) + 1] = hand[c]
      /\ pending_list' \in Seq(Desc)
  BY <1>2, <1>3, AppendProperties DEF TypeOK, ListsOK
<1>5. /\ DOMAIN pending_list = 1 .. Len(pending_list) /\ Len(pending_list) \in Nat
      /\ DOMAIN pending_list' = 1 .. Len(pending_list) + 1
      /\ Len(active_list) \in Nat
  BY <1>4, LenProperties DEF TypeOK, ListsOK
<1>6. /\ \A d \in Queued : desc'[d].cookie = desc[d].cookie
      /\ desc'[hand[c]].cookie = cookie + 1
  BY <1>2, <1>3, RangeType DEF TypeOK, ListsOK, DescOK, Queued
<1>7. /\ \A i \in DOMAIN done_list : done_list[i] \in Queued
      /\ \A i \in DOMAIN active_list : active_list[i] \in Queued
      /\ \A i \in DOMAIN pending_list : pending_list[i] \in Queued
  BY DEF Queued, Range
<1>8. /\ completed_cookie + Len(active_list) + Len(pending_list) = cookie
      /\ cookie \in Nat /\ completed_cookie \in Nat
  BY DEF RunsInv, TypeOK, CookiesOK
<1>9. \A i \in DOMAIN pending_list' :
        desc'[pending_list'[i]].cookie = completed_cookie + Len(active_list) + i
  <2> SUFFICES ASSUME NEW i \in 1 .. Len(pending_list) + 1
               PROVE  desc'[pending_list'[i]].cookie = completed_cookie + Len(active_list) + i
    BY <1>5
  <2>1. CASE i \in 1 .. Len(pending_list)
    BY <2>1, <1>4, <1>5, <1>6, <1>7 DEF RunsInv
  <2>2. CASE i = Len(pending_list) + 1
    <3>1. desc'[pending_list'[i]].cookie = cookie + 1
      BY <2>2, <1>4, <1>6
    <3> QED BY <2>2, <1>5, <1>8, <3>1
  <2> QED BY <1>5, <2>1, <2>2
<1>10. /\ \A i \in DOMAIN done_list : desc'[done_list[i]].cookie = notified + i
       /\ \A i \in DOMAIN active_list : desc'[active_list[i]].cookie = completed_cookie + i
  BY <1>6, <1>7 DEF RunsInv
<1>11. completed_cookie + Len(active_list) + Len(pending_list') = cookie'
  BY <1>3, <1>4, <1>5, <1>8
<1> QED BY <1>3, <1>9, <1>10, <1>11 DEF RunsInv

\* xilinx_dma_start_transfer: the pending run becomes the active one.
LEMMA RunsStart ==
  ASSUME IInv, RunsInv, IdleInv, Starting
  PROVE  RunsInv'
<1> USE DEF IInv
<1>1. CASE UNCHANGED <<pending_list, active_list>>
  BY <1>1 DEF Starting, RunsInv, cookieVars
<1>2. CASE /\ active_list = <<>>
           /\ pending_list' = <<>> /\ active_list' = active_list \o pending_list
  <2>1. active_list' = pending_list
    BY <1>2, ConcatEmptySeq DEF TypeOK, ListsOK
  <2> QED BY <1>2, <2>1 DEF Starting, RunsInv, cookieVars, TypeOK, CookiesOK, ListsOK
<1> QED BY <1>1, <1>2 DEF Starting, StartTransfer, IdleInv

\* xilinx_dma_complete_descriptor: the first active descriptor, which has the
\* next cookie, becomes the last completed one.
LEMMA RunsComplete ==
  ASSUME IInv, SlaveInv, RunsInv, IrqComplete
  PROVE  RunsInv' /\ completed_cookie' = completed_cookie + 1
<1> USE DEF IInv
<1>1. /\ active_list # <<>> /\ active_list' = Tail(active_list)
      /\ done_list' = Append(done_list, Head(active_list))
      /\ completed_cookie' = CompleteCookie(Head(active_list))
      /\ UNCHANGED <<pending_list, desc, cookie, notified>>
  BY DEF IrqComplete, descVars
<1>2. /\ active_list \in Seq(Desc) /\ done_list \in Seq(Desc) /\ pending_list \in Seq(Desc)
      /\ Len(active_list) \in Nat \ {0} /\ Len(done_list) \in Nat /\ Len(pending_list) \in Nat
      /\ DOMAIN active_list = 1 .. Len(active_list)
      /\ DOMAIN done_list = 1 .. Len(done_list)
      /\ DOMAIN pending_list = 1 .. Len(pending_list)
      /\ completed_cookie \in Nat /\ notified \in Nat
  BY <1>1, LenProperties, EmptySeq DEF TypeOK, ListsOK, CookiesOK
<1>3. Head(active_list) = active_list[1] /\ Head(active_list) \in Desc
  BY <1>1, <1>2, HeadTailProperties
<1>4. desc[Head(active_list)].cookie = completed_cookie + 1
  BY <1>2, <1>3 DEF RunsInv
<1>5. completed_cookie' = completed_cookie + 1
  BY <1>1, <1>3, <1>4 DEF SlaveInv, CompleteCookie
<1>6. /\ Len(active_list') = Len(active_list) - 1
      /\ \A i \in 1 .. Len(active_list) - 1 : active_list'[i] = active_list[i + 1]
      /\ DOMAIN active_list' = 1 .. Len(active_list) - 1
  BY <1>1, <1>2, HeadTailProperties, LenProperties
<1>7. /\ Len(done_list') = Len(done_list) + 1
      /\ \A i \in 1 .. Len(done_list) : done_list'[i] = done_list[i]
      /\ done_list'[Len(done_list) + 1] = Head(active_list)
      /\ DOMAIN done_list' = 1 .. Len(done_list) + 1
  BY <1>1, <1>2, <1>3, AppendProperties, LenProperties
<1>8. notified + Len(done_list) = completed_cookie
  BY DEF RunsInv
<1>9. \A i \in DOMAIN done_list' : desc[done_list'[i]].cookie = notified + i
  <2> SUFFICES ASSUME NEW i \in 1 .. Len(done_list) + 1
               PROVE  desc[done_list'[i]].cookie = notified + i
    BY <1>7
  <2>1. CASE i \in 1 .. Len(done_list)
    BY <2>1, <1>2, <1>7 DEF RunsInv
  <2>2. CASE i = Len(done_list) + 1
    <3>1. desc[done_list'[i]].cookie = completed_cookie + 1
      BY <2>2, <1>4, <1>7
    <3> QED BY <2>2, <1>2, <1>8, <3>1
  <2> QED BY <1>2, <2>1, <2>2
<1>10. \A i \in DOMAIN active_list' :
         desc[active_list'[i]].cookie = completed_cookie + 1 + i
  <2> SUFFICES ASSUME NEW i \in 1 .. Len(active_list) - 1
               PROVE  desc[active_list'[i]].cookie = completed_cookie + 1 + i
    BY <1>6
  <2>1. i + 1 \in DOMAIN active_list
    BY <1>2
  <2>2. desc[active_list[i + 1]].cookie = completed_cookie + (i + 1)
    BY <2>1 DEF RunsInv
  <2> QED BY <1>2, <1>6, <2>2
<1>11. \A i \in DOMAIN pending_list :
         desc[pending_list[i]].cookie = completed_cookie + 1 + (Len(active_list) - 1) + i
  <2>1. \A i \in DOMAIN pending_list :
          desc[pending_list[i]].cookie = completed_cookie + Len(active_list) + i
    BY DEF RunsInv
  <2> QED BY <1>2, <2>1
<1>12. completed_cookie + Len(active_list) + Len(pending_list) = cookie
  BY DEF RunsInv
<1>13. /\ notified + Len(done_list') = completed_cookie + 1
       /\ completed_cookie + 1 + Len(active_list') + Len(pending_list) = cookie
  <2>1. Len(active_list') = Len(active_list) - 1 /\ Len(done_list') = Len(done_list) + 1
    BY <1>6, <1>7
  <2>2. notified + Len(done_list') = completed_cookie + 1
    BY <1>2, <1>8, <2>1
  <2>3. completed_cookie + 1 + Len(active_list') + Len(pending_list) = cookie
    BY <1>2, <1>12, <2>1
  <2> QED BY <2>2, <2>3
<1> QED BY <1>1, <1>5, <1>6, <1>9, <1>10, <1>11, <1>13 DEF RunsInv

\* xilinx_dma_chan_desc_cleanup: the callback of the first completed descriptor,
\* which has the cookie after that of the last callback.
LEMMA RunsPop ==
  ASSUME IInv, RunsInv, TaskletPop
  PROVE  RunsInv' /\ notified' = notified + 1
<1> USE DEF IInv
<1>1. /\ done_list # <<>> /\ done_list' = Tail(done_list)
      /\ notified' = desc[Head(done_list)].cookie
      /\ UNCHANGED <<pending_list, active_list, desc, cookie, completed_cookie>>
  BY DEF TaskletPop, TaskletUnchanged, descVars
<1>2. /\ done_list \in Seq(Desc) /\ Len(done_list) \in Nat \ {0}
      /\ DOMAIN done_list = 1 .. Len(done_list) /\ notified \in Nat
  BY <1>1, LenProperties, EmptySeq DEF TypeOK, ListsOK, CookiesOK
<1>3. Head(done_list) = done_list[1]
  BY <1>1, <1>2, HeadTailProperties
<1>4. notified' = notified + 1
  BY <1>1, <1>2, <1>3 DEF RunsInv
<1>5. /\ Len(done_list') = Len(done_list) - 1
      /\ \A i \in 1 .. Len(done_list) - 1 : done_list'[i] = done_list[i + 1]
      /\ DOMAIN done_list' = 1 .. Len(done_list) - 1
  BY <1>1, <1>2, HeadTailProperties, LenProperties
<1>6. \A i \in DOMAIN done_list' : desc[done_list'[i]].cookie = notified + 1 + i
  <2> SUFFICES ASSUME NEW i \in 1 .. Len(done_list) - 1
               PROVE  desc[done_list'[i]].cookie = notified + 1 + i
    BY <1>5
  <2>1. i + 1 \in DOMAIN done_list
    BY <1>2
  <2>2. desc[done_list[i + 1]].cookie = notified + (i + 1)
    BY <2>1 DEF RunsInv
  <2> QED BY <1>2, <1>5, <2>2
<1>7. notified + Len(done_list) = completed_cookie
  BY DEF RunsInv
<1>8. notified + 1 + Len(done_list') = completed_cookie
  BY <1>2, <1>5, <1>7
<1> QED BY <1>1, <1>4, <1>6, <1>8 DEF RunsInv

\* The steps that leave the queue alone.
LEMMA RunsSame ==
  ASSUME IInv, RunsInv, QueueSame, \A d \in Queued : desc'[d] = desc[d]
  PROVE  RunsInv'
BY DEF RunsInv, QueueSame, listVars, cookieVars, Queued, Range

LEMMA RunsStep ==
  ASSUME SlaveOnly, QInv, [Next]_vars
  PROVE  RunsInv'
<1> USE DEF QInv
<1>1. CASE QueueSame /\ UNCHANGED desc
  BY <1>1, RunsSame
<1>2. CASE OneUnqueuedChanges
  <2>1. Queued \subseteq Desc
    BY RangeType DEF IInv, TypeOK, ListsOK, Queued
  <2> QED BY <1>2, <2>1, RunsSame DEF OneUnqueuedChanges
<1>3. CASE AllocChanResources
  <2>1. Queued = {} /\ cookie = 0 /\ completed_cookie = 0 /\ notified = 0
    BY <1>3 DEF AllocChanResources, SlaveInv
  <2> QED BY <1>3, <2>1, RunsSame DEF AllocChanResources, QueueSame, listVars, cookieVars, descVars
<1>4. ASSUME NEW c \in Client, FreeDescriptors(c) PROVE FALSE
  BY <1>4 DEF SlaveInv, FreeDescriptors
<1> QED BY <1>1, <1>2, <1>3, <1>4, QueueCases, RunsSubmit, RunsStart, RunsComplete, RunsPop

-----------------------------------------------------------------------------
(* Theorems about the queue *)

\* While no client terminates, releases or prepares a cyclic transfer, the
\* lists are consecutive runs of cookies.
THEOREM QueueInvariance == ASSUME SlaveOnly PROVE Spec => []QInv
<1>1. Init => QInv
  BY InitInv, InitQueue DEF QInv
<1>2. QInv /\ [Next]_vars => QInv'
  BY TypeStep, OwnStep, SegsStep, SlaveStep, RunsStep, IdleStep DEF QInv, IInv
<1> QED BY <1>1, <1>2, PTL DEF Spec

\* The whole queue, from the list by list form.
LEMMA RunsMeanPipeline ==
  ASSUME TypeOK, RunsInv
  PROVE  Pipeline
<1> DEFINE front == done_list \o active_list
           queue == front \o pending_list
           nd == Len(done_list)
           na == Len(active_list)
           np == Len(pending_list)
<1>1. /\ done_list \in Seq(Desc) /\ active_list \in Seq(Desc) /\ pending_list \in Seq(Desc)
      /\ nd \in Nat /\ na \in Nat /\ np \in Nat
      /\ DOMAIN done_list = 1 .. nd /\ DOMAIN active_list = 1 .. na
      /\ DOMAIN pending_list = 1 .. np
      /\ notified \in Nat /\ completed_cookie \in Nat
  BY LenProperties DEF TypeOK, ListsOK, CookiesOK
<1>2. /\ front \in Seq(Desc) /\ Len(front) = nd + na
      /\ \A i \in 1 .. nd + na : front[i] = IF i <= nd THEN done_list[i] ELSE active_list[i - nd]
  BY <1>1, ConcatProperties
<1>3. /\ queue \in Seq(Desc) /\ Len(queue) = nd + na + np
      /\ \A i \in 1 .. nd + na + np :
           queue[i] = IF i <= nd + na THEN front[i] ELSE pending_list[i - (nd + na)]
  BY <1>1, <1>2, ConcatProperties
<1>4. DOMAIN queue = 1 .. nd + na + np
  BY <1>3, LenProperties
<1>5. /\ \A i \in 1 .. nd : desc[done_list[i]].cookie = notified + i
      /\ \A i \in 1 .. na : desc[active_list[i]].cookie = notified + nd + i
      /\ \A i \in 1 .. np : desc[pending_list[i]].cookie = notified + nd + na + i
      /\ notified + nd = completed_cookie
      /\ notified + nd + na + np = cookie
  BY <1>1 DEF RunsInv
<1>6. ASSUME NEW i \in DOMAIN queue
      PROVE  desc[queue[i]].cookie = notified + i
  <2>1. CASE i <= nd
    BY <1>1, <1>2, <1>3, <1>4, <1>5, <2>1
  <2>2. CASE i > nd /\ i <= nd + na
    <3>1. i - nd \in 1 .. na /\ queue[i] = active_list[i - nd]
      BY <1>1, <1>2, <1>3, <1>4, <2>2
    <3>2. desc[queue[i]].cookie = notified + nd + (i - nd)
      BY <1>5, <3>1
    <3> QED BY <1>1, <1>4, <3>2
  <2>3. CASE i > nd + na
    <3>1. i - (nd + na) \in 1 .. np /\ queue[i] = pending_list[i - (nd + na)]
      BY <1>1, <1>3, <1>4, <2>3
    <3>2. desc[queue[i]].cookie = notified + nd + na + (i - (nd + na))
      BY <1>5, <3>1
    <3> QED BY <1>1, <1>4, <3>2
  <2> QED BY <1>1, <1>4, <2>1, <2>2, <2>3
<1>7. notified + Len(queue) = cookie
  BY <1>1, <1>3, <1>5
<1> HIDE DEF front, nd, na, np
<1> QED BY <1>5, <1>6, <1>7 DEF Pipeline, front, nd

\* Transactions are submitted, started, completed and called back in the order
\* of their cookies, none twice and none left out: for every number of clients,
\* every size of the pool, with and without scatter-gather and whatever faults
\* the hardware shows.
THEOREM QueueIsOrdered == ASSUME SlaveOnly PROVE Spec => []Pipeline
<1>1. QInv => Pipeline
  BY RunsMeanPipeline DEF QInv, IInv
<1> QED BY <1>1, QueueInvariance, PTL

\* What a step does to the four counters.
LEMMA CounterStep ==
  ASSUME SlaveOnly, QInv, [Next]_vars
  PROVE  /\ [Queue!Next]_(Queue!queueVars)
         /\ notified' # notified => notified' = notified + 1
<1> USE DEF QInv
<1> DEFINE started == cookie - Len(pending_list)
<1>1. /\ Len(pending_list) \in Nat /\ Len(active_list) \in Nat /\ Len(done_list) \in Nat
      /\ cookie \in Nat /\ completed_cookie \in Nat /\ notified \in Nat
      /\ notified + Len(done_list) = completed_cookie
      /\ completed_cookie + Len(active_list) + Len(pending_list) = cookie
  BY LenProperties DEF IInv, TypeOK, ListsOK, CookiesOK, RunsInv
<1>2. CASE QueueSame
  BY <1>2 DEF QueueSame, listVars, cookieVars, Queue!queueVars
<1>3. CASE AllocChanResources
  BY <1>3 DEF AllocChanResources, SlaveInv, listVars, Queue!queueVars
<1>4. ASSUME NEW c \in Client, SubmitAppend(c)
      PROVE  Queue!Submit /\ notified' = notified
  <2>1. hand[c] \in Desc
    BY <1>4, HandInDesc DEF SubmitAppend, Preparing, IInv
  <2>2. /\ cookie' = cookie + 1 /\ pending_list' = Append(pending_list, hand[c])
        /\ UNCHANGED <<completed_cookie, notified>>
    BY <1>4 DEF SubmitAppend
  <2>3. Len(pending_list') = Len(pending_list) + 1
    BY <2>1, <2>2, AppendProperties DEF IInv, TypeOK, ListsOK
  <2> QED BY <1>1, <2>2, <2>3 DEF Queue!Submit
<1>5. CASE Starting
  <2>1. UNCHANGED cookieVars
    BY <1>5 DEF Starting
  <2>2. CASE UNCHANGED pending_list
    BY <2>1, <2>2 DEF cookieVars, Queue!queueVars
  <2>3. CASE pending_list # <<>> /\ pending_list' = <<>> /\ active_list = <<>>
    <3>1. Len(pending_list) > 0 /\ Len(active_list) = 0 /\ Len(pending_list') = 0
      BY <1>1, <2>3, EmptySeq DEF IInv, TypeOK, ListsOK
    <3>2. Queue!Start
      BY <1>1, <2>1, <3>1 DEF Queue!Start, cookieVars
    <3> QED BY <2>1, <3>2 DEF Queue!Next, cookieVars
  <2> QED BY <1>5, <2>2, <2>3 DEF Starting, StartTransfer, IdleInv
<1>6. CASE IrqComplete
  <2>1. Len(active_list) > 0
    BY <1>1, <1>6, EmptySeq DEF IrqComplete, IInv, TypeOK, ListsOK
  <2>2. completed_cookie' = completed_cookie + 1
    BY <1>6, RunsComplete
  <2>3. UNCHANGED <<pending_list, cookie, notified>>
    BY <1>6 DEF IrqComplete
  <2>4. Queue!Complete
    BY <1>1, <2>1, <2>2, <2>3 DEF Queue!Complete
  <2> QED BY <2>3, <2>4 DEF Queue!Next
<1>7. CASE TaskletPop
  <2>1. Len(done_list) > 0
    BY <1>1, <1>7, EmptySeq DEF TaskletPop, IInv, TypeOK, ListsOK
  <2>2. notified' = notified + 1
    BY <1>7, RunsPop
  <2>3. UNCHANGED <<pending_list, cookie, completed_cookie>>
    BY <1>7 DEF TaskletPop, TaskletUnchanged
  <2>4. Queue!Notify
    BY <1>1, <2>1, <2>2, <2>3 DEF Queue!Notify
  <2> QED BY <2>2, <2>4 DEF Queue!Next
<1>8. ASSUME NEW c \in Client, FreeDescriptors(c) PROVE FALSE
  BY <1>8 DEF SlaveInv, FreeDescriptors
<1> QED BY <1>2, <1>3, <1>4, <1>5, <1>6, <1>7, <1>8, QueueCases DEF OneUnqueuedChanges, Queue!Next

\* The safety part of the refinement: every behaviour of a channel is one of the
\* four counters of DmaEngineQueue.
THEOREM ChannelImplementsQueue == ASSUME SlaveOnly PROVE Spec => ImplementsQueue
<1>1. Init => Queue!Init
  <2> SUFFICES ASSUME Init PROVE Queue!Init
    OBVIOUS
  <2>1. Len(pending_list) = 0 /\ cookie = 0 /\ completed_cookie = 0 /\ notified = 0
    BY EmptySeq DEF Init
  <2> QED BY <2>1 DEF Queue!Init
<1>2. QInv /\ [Next]_vars => [Queue!Next]_(Queue!queueVars)
  BY CounterStep
<1> QED BY <1>1, <1>2, QueueInvariance, PTL DEF Spec, ImplementsQueue, Queue!Spec

\* No callback is skipped and none is run twice.
THEOREM CallbacksInOrder == ASSUME SlaveOnly PROVE Spec => CallbackInOrder
<1>1. QInv /\ [Next]_vars => [notified' # notified => notified' = notified + 1]_vars
  BY CounterStep
<1> QED BY <1>1, QueueInvariance, PTL DEF Spec, CallbackInOrder

-----------------------------------------------------------------------------
(* The segments of the pool *)

\* The steps that move segments: xilinx_dma_alloc_tx_segment, which takes one
\* off the free list, xilinx_dma_free_tx_descriptor, which gives them back, and
\* the allocation and release of the pool.
SegsStay ==
  UNCHANGED <<free_seg_list, pool>> /\ \A d \in Desc : desc'[d].segs = desc[d].segs

LEMMA SegCases ==
  ASSUME IInv, [Next]_vars
  PROVE  \/ SegsStay
         \/ AllocChanResources
         \/ \E c \in Client : PrepAlloc(c)
         \/ \E d \in Desc : FreeTxDescriptor(d)
         \/ \E c \in Client : ReleaseFree(c)
<1> USE DEF IInv
<1>1. ASSUME UNCHANGED <<free_seg_list, pool, desc>>
      PROVE  SegsStay
  BY <1>1 DEF SegsStay
<1>2. ASSUME NEW c \in Client,
             \/ \E d \in Desc, kind \in PrepCalls, n \in 1 .. MaxSegs : PrepBegin(c, d, kind, n)
             \/ PrepNoSegment(c) \/ SubmitNotBusy(c) \/ SubmitCheckErr(c) \/ SubmitReset(c)
             \/ SubmitResetTimeout(c) \/ IssuePending(c) \/ StatusBegin(c) \/ StatusWalk(c)
             \/ TerminateHalt(c) \/ TerminateLock(c) \/ TerminateUnlock(c)
             \/ TerminateCyclic(c) \/ ReleaseLock(c) \/ ReleaseUnlock(c)
      PROVE  UNCHANGED <<free_seg_list, pool, desc>>
  BY <1>2 DEF PrepBegin, PrepNoSegment, SubmitNotBusy, SubmitCheckErr, SubmitReset,
     SubmitResetTimeout, IssuePending, StatusBegin, StatusWalk, TerminateHalt, TerminateLock,
     TerminateUnlock, TerminateCyclic, ReleaseLock, ReleaseUnlock, descVars, memVars
<1>3. ASSUME NEW c \in Client, PrepEnd(c) \/ SubmitAppend(c)
      PROVE  SegsStay
  <2>1. hand[c] \in Desc
    BY <1>3, HandInDesc DEF PrepEnd, SubmitAppend, Preparing
  <2>2. UNCHANGED <<free_seg_list, pool>>
    BY <1>3 DEF PrepEnd, SubmitAppend
  <2>3. CASE PrepEnd(c)
    <3>1. desc' = [desc EXCEPT ![hand[c]].cyclic = (pc[c] = "prep_dma_cyclic")]
      BY <2>3 DEF PrepEnd
    <3> QED BY <2>1, <2>2, <3>1 DEF SegsStay, TypeOK, DescOK
  <2>4. CASE SubmitAppend(c)
    <3>1. desc' = [desc EXCEPT ![hand[c]].cookie = cookie + 1]
      BY <2>4 DEF SubmitAppend
    <3> QED BY <2>1, <2>2, <3>1 DEF SegsStay, TypeOK, DescOK
  <2> QED BY <1>3, <2>3, <2>4
<1>4. ASSUME NEW c \in Client, PrepError(c) \/ SubmitBusy(c)
      PROVE  \E d \in Desc : FreeTxDescriptor(d)
  BY <1>4, HandInDesc DEF PrepError, SubmitBusy, Preparing
<1>5. ASSUME NEW c \in Client, FreeDescriptors(c)
      PROVE  \E d \in Desc : FreeTxDescriptor(d)
  BY <1>5, EndsOfList DEF FreeDescriptors, TypeOK, ListsOK
<1>6. CASE TaskletFree
  BY <1>6 DEF TaskletFree, TypeOK, ListsOK, Own, OneOwner
<1>7. CASE EngineTransfer \/ EngineError \/ Irq \/ TaskletRun \/ TaskletExit
           \/ TaskletCyclic \/ TaskletCyclicReturn \/ TaskletPop \/ UNCHANGED vars
  BY <1>1, <1>7 DEF EngineTransfer, EngineError, Irq, IrqAck, IrqLock, IrqComplete, IrqRestart,
     TaskletRun, TaskletExit, TaskletCyclic, TaskletCyclicReturn, TaskletPop,
     vars, descVars, memVars
<1> QED
  BY <1>1, <1>2, <1>3, <1>4, <1>5, <1>6, <1>7 DEF Next, ClientStep, Engine, Tasklet

\* SegConserved, with a name for the segments of a descriptor.
Held(d) == Range(desc[d].segs)
SegsApart ==
  /\ IsInjective(free_seg_list)
  /\ \A d \in Desc : IsInjective(desc[d].segs)
  /\ \A d \in Desc : Held(d) \cap Range(free_seg_list) = {}
  /\ \A d1, d2 \in Desc : d1 # d2 => Held(d1) \cap Held(d2) = {}
SegsAccounted ==
  Range(free_seg_list) \cup UNION {Held(d) : d \in Desc} = IF pool THEN Seg ELSE {}

\* A segment that is given back was nobody else's.
LEMMA SegsGivenBack ==
  ASSUME TypeOK, SegsApart, SegsAccounted, NEW d \in Desc, FreeTxDescriptor(d)
  PROVE  SegsApart' /\ SegsAccounted'
<1>1. /\ free_seg_list' = free_seg_list \o desc[d].segs /\ pool' = pool
      /\ desc'[d].segs = <<>> /\ \A e \in Desc \ {d} : desc'[e] = desc[e]
  BY DEF FreeTxDescriptor, TypeOK, DescOK, BlankDesc
<1>2. free_seg_list \in Seq(Seg) /\ desc[d].segs \in Seq(Seg)
  BY DEF TypeOK, MemOK, DescOK
<1>3. /\ Range(free_seg_list') = Range(free_seg_list) \cup Held(d)
      /\ IsInjective(free_seg_list')
  BY <1>1, <1>2, ConcatList DEF Held, SegsApart
<1>4. /\ Held(d)' = {} /\ IsInjective(desc'[d].segs)
      /\ \A e \in Desc \ {d} : Held(e)' = Held(e) /\ desc'[e].segs = desc[e].segs
  BY <1>1, EmptyList DEF Held
<1>5. SegsApart'
  BY <1>3, <1>4 DEF SegsApart
<1>6. SegsAccounted'
  <2>1. UNION {Held(e) : e \in Desc} = Held(d) \cup UNION {Held(e) : e \in Desc \ {d}}
    OBVIOUS
  <2>2. UNION {Held(e)' : e \in Desc} = UNION {Held(e) : e \in Desc \ {d}}
    BY <1>4
  <2> QED BY <1>1, <1>3, <2>1, <2>2 DEF SegsAccounted
<1> QED BY <1>5, <1>6

\* A segment that is taken was on the free list only.
LEMMA SegTaken ==
  ASSUME TypeOK, Own, SegsApart, SegsAccounted, NEW c \in Client, PrepAlloc(c)
  PROVE  SegsApart' /\ SegsAccounted'
<1>1. PICK h \in Desc : h = hand[c]
  BY HandInDesc DEF PrepAlloc, Preparing
<1>2. PICK s \in Seg : s = Head(free_seg_list)
  BY EndsOfList DEF PrepAlloc, TypeOK, MemOK
<1>3. /\ free_seg_list # <<>> /\ free_seg_list \in Seq(Seg) /\ desc[h].segs \in Seq(Seg)
  BY DEF PrepAlloc, TypeOK, MemOK, DescOK
<1>4. /\ Range(free_seg_list) = {s} \cup Range(Tail(free_seg_list))
      /\ s \notin Range(Tail(free_seg_list)) /\ IsInjective(Tail(free_seg_list))
  BY <1>2, <1>3, TailList DEF SegsApart
<1>5. /\ free_seg_list' = Tail(free_seg_list) /\ pool' = pool
      /\ desc'[h].segs = Append(desc[h].segs, s)
      /\ \A e \in Desc \ {h} : desc'[e].segs = desc[e].segs
  BY <1>1, <1>2 DEF PrepAlloc, TypeOK, DescOK
<1>6. s \notin Held(h) /\ IsInjective(desc[h].segs)
  BY <1>4 DEF SegsApart
<1>7. /\ Range(Append(desc[h].segs, s)) = Held(h) \cup {s}
      /\ IsInjective(Append(desc[h].segs, s))
  BY <1>3, <1>6, AppendList DEF Held
<1>8. /\ Held(h)' = Held(h) \cup {s} /\ IsInjective(desc'[h].segs)
      /\ \A e \in Desc \ {h} : Held(e)' = Held(e)
  BY <1>5, <1>7 DEF Held
<1>9. SegsApart'
  <2>1. IsInjective(free_seg_list') /\ \A d \in Desc : IsInjective(desc'[d].segs)
    BY <1>4, <1>5, <1>8 DEF SegsApart
  <2>2. \A d \in Desc : Held(d)' \cap Range(free_seg_list') = {}
    BY <1>4, <1>5, <1>8 DEF SegsApart
  <2>3. \A d \in Desc : s \notin Held(d)
    BY <1>4 DEF SegsApart
  <2>4. \A d \in Desc \ {h} : (Held(h) \cup {s}) \cap Held(d) = {}
    BY <2>3 DEF SegsApart
  <2>5. \A d1, d2 \in Desc : d1 # d2 => Held(d1)' \cap Held(d2)' = {}
    BY <1>8, <2>4 DEF SegsApart
  <2> QED BY <2>1, <2>2, <2>5 DEF SegsApart
<1>10. SegsAccounted'
  BY <1>4, <1>5, <1>8 DEF SegsAccounted
<1> QED BY <1>9, <1>10

\* Each segment of a new pool is on the free list, once.
LEMMA SegsAllocated ==
  ASSUME TypeOK, SegsApart, SegsAccounted, AllocChanResources
  PROVE  SegsApart' /\ SegsAccounted'
<1> DEFINE ring == [i \in 1 .. NumDescs |-> i - 1]
<1>1. /\ free_seg_list' = free_seg_list \o ring /\ desc' = desc /\ ~pool /\ pool'
  BY DEF AllocChanResources, descVars
<1>2. /\ free_seg_list \in Seq(Seg) /\ Range(free_seg_list) = {}
      /\ \A d \in Desc : Held(d) = {}
  BY <1>1 DEF SegsAccounted, TypeOK, MemOK
<1>3. free_seg_list = <<>>
  BY <1>2, EndsOfList
<1>4. ring \in Seq(Seg)
  BY ConstantsAssumption, IsASeq DEF Seg
<1>5. free_seg_list' = ring
  BY <1>1, <1>3, <1>4, ConcatEmptySeq
<1>6. Range(ring) = Seg
  <2>1. ASSUME NEW s \in Seg PROVE s + 1 \in 1 .. NumDescs /\ ring[s + 1] = s
    BY <2>1, ConstantsAssumption DEF Seg
  <2>2. DOMAIN ring = 1 .. NumDescs /\ \A i \in 1 .. NumDescs : ring[i] \in Seg
    BY ConstantsAssumption DEF Seg
  <2> QED BY <2>1, <2>2 DEF Range
<1>7. IsInjective(ring)
  BY DEF IsInjective
<1> HIDE DEF ring
<1>8. \A d \in Desc : Held(d)' = {} /\ desc'[d].segs = desc[d].segs
  BY <1>1, <1>2 DEF Held
<1> QED BY <1>1, <1>5, <1>6, <1>7, <1>8 DEF SegsApart, SegsAccounted

\* A channel that is never released.
NoRelease == "free_chan_resources" \notin Calls
NotReleasing == \A c \in Client : pc[c] \notin {"rel_free", "rel_reset"}

LEMMA NotReleasingStep ==
  ASSUME NoRelease, TypeOK, NotReleasing, [Next]_vars
  PROVE  NotReleasing'
<1>1. ASSUME NEW c \in Client, ClientStep(c)
      PROVE  \/ pc' = pc
             \/ \E l \in ClientPc \ {"rel_free", "rel_reset"} : pc' = [pc EXCEPT ![c] = l]
  <2>1. CASE \/ \E d \in Desc, kind \in PrepCalls, n \in 1 .. MaxSegs : PrepBegin(c, d, kind, n)
             \/ PrepAlloc(c) \/ PrepNoSegment(c) \/ PrepError(c) \/ PrepEnd(c)
    BY <2>1 DEF PrepBegin, PrepAlloc, PrepNoSegment, PrepError, PrepEnd, Goto, PrepCalls, ClientPc
  <2>2. CASE \/ SubmitBusy(c) \/ SubmitNotBusy(c) \/ SubmitCheckErr(c) \/ SubmitReset(c)
             \/ SubmitResetTimeout(c) \/ SubmitAppend(c)
    BY <2>2 DEF SubmitBusy, SubmitNotBusy, SubmitCheckErr, SubmitReset, SubmitResetTimeout,
       SubmitAppend, Goto, ClientPc
  <2>3. CASE \/ IssuePending(c) \/ StatusBegin(c) \/ StatusWalk(c) \/ TerminateHalt(c)
             \/ TerminateLock(c) \/ TerminateUnlock(c) \/ TerminateCyclic(c)
             \/ FreeDescriptors(c)
    BY <2>3 DEF IssuePending, StatusBegin, StatusWalk, TerminateHalt, TerminateLock,
       TerminateUnlock, TerminateCyclic, FreeDescriptors, Goto, ClientPc, clientVars
  <2>4. ~(ReleaseLock(c) \/ ReleaseUnlock(c) \/ ReleaseFree(c))
    BY DEF NoRelease, NotReleasing, ReleaseLock, ReleaseUnlock, ReleaseFree
  <2> QED BY <1>1, <2>1, <2>2, <2>3, <2>4 DEF ClientStep
<1>2. CASE AllocChanResources
  BY <1>2 DEF AllocChanResources, clientVars, NotReleasing
<1> QED BY <1>1, <1>2, HandlersLeave DEF Next, NotReleasing, TypeOK, ClientsOK

LEMMA SegsInvariance ==
  ASSUME NoRelease
  PROVE  Spec => [](SegsApart /\ SegsAccounted)
<1> DEFINE SInv == IInv /\ NotReleasing /\ SegsApart /\ SegsAccounted
<1>1. Init => SInv
  <2> SUFFICES ASSUME Init PROVE NotReleasing /\ SegsApart /\ SegsAccounted
    BY InitInv
  <2>1. \A d \in Desc : desc[d].segs = <<>>
    BY DEF Init, BlankDesc
  <2> QED BY <2>1, EmptyList DEF Init, NotReleasing, SegsApart, SegsAccounted, Held
<1>2. SInv /\ [Next]_vars => SInv'
  <2> SUFFICES ASSUME SInv, [Next]_vars PROVE SInv'
    OBVIOUS
  <2>1. IInv' /\ NotReleasing'
    BY TypeStep, OwnStep, SegsStep, NotReleasingStep DEF IInv
  <2>2. CASE SegsStay
    <3>1. \A d \in Desc : Held(d)' = Held(d) /\ desc'[d].segs = desc[d].segs
      BY <2>2 DEF SegsStay, Held
    <3> QED BY <2>1, <2>2, <3>1 DEF SegsStay, SegsApart, SegsAccounted
  <2>3. ASSUME NEW c \in Client, ReleaseFree(c) PROVE FALSE
    BY <2>3 DEF ReleaseFree, NotReleasing
  <2> QED BY <2>1, <2>2, <2>3, SegCases, SegsGivenBack, SegTaken, SegsAllocated DEF IInv
<1>3. SInv => SegsApart /\ SegsAccounted
  OBVIOUS
<1> QED BY <1>1, <1>2, <1>3, PTL DEF Spec

\* While the pool exists, each of its segments is on the free list or on one
\* descriptor, once.
THEOREM SegmentsConserved == ASSUME NoRelease PROVE Spec => []SegConserved
<1>1. SegsApart /\ SegsAccounted => SegConserved
  BY DEF SegsApart, SegsAccounted, SegConserved, Held
<1> QED BY <1>1, SegsInvariance, PTL

-----------------------------------------------------------------------------
(* The descriptors *)

\* list_add_tail adds one, list_splice_tail_init loses none.
LEMMA QueuedSubmit ==
  ASSUME IInv, NEW c \in Client, SubmitAppend(c)
  PROVE  hand[c] \in Desc /\ Queued' = Queued \cup {hand[c]}
<1>1. hand[c] \in Desc
  BY HandInDesc DEF SubmitAppend, Preparing, IInv
<1>2. /\ pending_list' = Append(pending_list, hand[c])
      /\ UNCHANGED <<active_list, done_list>>
  BY DEF SubmitAppend
<1>3. Range(pending_list') = Range(pending_list) \cup {hand[c]}
  BY <1>1, <1>2, AppendList DEF IInv, TypeOK, ListsOK
<1> QED BY <1>1, <1>2, <1>3 DEF Queued

LEMMA QueuedKept ==
  ASSUME TypeOK, QueueSame \/ AllocChanResources \/ Starting \/ IrqComplete
  PROVE  Queued' = Queued
<1>1. /\ pending_list \in Seq(Desc) /\ active_list \in Seq(Desc) /\ done_list \in Seq(Desc)
  BY DEF TypeOK, ListsOK
<1>2. CASE QueueSame
  BY <1>2 DEF QueueSame, listVars, Queued
<1>3. CASE AllocChanResources
  BY <1>3 DEF AllocChanResources, listVars, Queued
<1>4. CASE Starting
  <2>1. done_list' = done_list
    BY <1>4 DEF Starting
  <2>2. CASE UNCHANGED <<pending_list, active_list>>
    BY <2>1, <2>2 DEF Queued
  <2>3. CASE active_list' = active_list \o pending_list /\ pending_list' = <<>>
    <3>1. Range(active_list') = Range(active_list) \cup Range(pending_list)
      BY <1>1, <2>3, ConcatList
    <3> QED BY <2>1, <2>3, <3>1, EmptyList DEF Queued
  <2> QED BY <1>4, <2>2, <2>3 DEF Starting, StartTransfer
<1>5. CASE IrqComplete
  <2>1. /\ active_list # <<>> /\ active_list' = Tail(active_list)
        /\ done_list' = Append(done_list, Head(active_list))
        /\ pending_list' = pending_list
    BY <1>5 DEF IrqComplete
  <2>2. /\ Range(active_list) = {Head(active_list)} \cup Range(active_list')
        /\ Head(active_list) \in Desc
    BY <1>1, <2>1, TailList
  <2>3. Range(done_list') = Range(done_list) \cup {Head(active_list)}
    BY <1>1, <2>1, <2>2, AppendList
  <2> QED BY <2>1, <2>2, <2>3 DEF Queued
<1> QED BY <1>2, <1>3, <1>4, <1>5

\* The tasklet takes the first completed one off.
LEMMA QueuedPop ==
  ASSUME TypeOK, TaskletPop
  PROVE  Queued = Queued' \cup {Head(done_list)}
<1>1. /\ done_list # <<>> /\ done_list' = Tail(done_list)
      /\ UNCHANGED <<pending_list, active_list>>
  BY DEF TaskletPop, TaskletUnchanged
<1>2. Range(done_list) = {Head(done_list)} \cup Range(done_list')
  BY <1>1, TailList DEF TypeOK, ListsOK
<1> QED BY <1>1, <1>2 DEF Queued

\* xilinx_dma_free_desc_list takes the first one off and frees it.
LEMMA QueuedFree ==
  ASSUME TypeOK, NEW c \in Client, FreeDescriptors(c)
  PROVE  \E d \in Desc : FreeTxDescriptor(d) /\ Queued = Queued' \cup {d}
<1>1. /\ pending_list \in Seq(Desc) /\ active_list \in Seq(Desc) /\ done_list \in Seq(Desc)
  BY DEF TypeOK, ListsOK
<1>2. ASSUME NEW l \in Seq(Desc), l # <<>>
      PROVE  Head(l) \in Desc /\ Range(l) = {Head(l)} \cup Range(Tail(l))
  BY <1>2, TailList
<1>3. CASE /\ pending_list # <<>> /\ FreeTxDescriptor(Head(pending_list))
           /\ pending_list' = Tail(pending_list) /\ UNCHANGED <<done_list, active_list>>
  <2>1. Queued = Queued' \cup {Head(pending_list)}
    BY <1>1, <1>2, <1>3 DEF Queued
  <2> QED BY <1>1, <1>2, <1>3, <2>1
<1>4. CASE /\ done_list # <<>> /\ FreeTxDescriptor(Head(done_list))
           /\ done_list' = Tail(done_list) /\ UNCHANGED <<pending_list, active_list>>
  <2>1. Queued = Queued' \cup {Head(done_list)}
    BY <1>1, <1>2, <1>4 DEF Queued
  <2> QED BY <1>1, <1>2, <1>4, <2>1
<1>5. CASE /\ active_list # <<>> /\ FreeTxDescriptor(Head(active_list))
           /\ active_list' = Tail(active_list) /\ UNCHANGED <<pending_list, done_list>>
  <2>1. Queued = Queued' \cup {Head(active_list)}
    BY <1>1, <1>2, <1>5 DEF Queued
  <2> QED BY <1>1, <1>2, <1>5, <2>1
<1> QED BY <1>3, <1>4, <1>5 DEF FreeDescriptors

\* The tasklet runs the callback of a cyclic descriptor and leaves it on the
\* list: only terminate_all and release take it off.
THEOREM CyclicStays == Spec => CyclicKept
<1>1. IInv /\ [Next]_vars =>
        [\A d \in Queued \ Queued' : desc[d].cyclic =>
           \E c \in Client : pc[c] \in {"term_free", "rel_free"}]_vars
  <2> SUFFICES ASSUME IInv, [Next]_vars, NEW d \in Queued \ Queued', desc[d].cyclic
               PROVE  \E c \in Client : pc[c] \in {"term_free", "rel_free"}
    OBVIOUS
  <2>1. ~TaskletPop
    BY QueuedPop DEF TaskletPop, IInv
  <2>2. \E c \in Client : FreeDescriptors(c)
    BY <2>1, QueueCases, QueuedKept, QueuedSubmit DEF OneUnqueuedChanges, IInv
  <2> QED BY <2>2 DEF FreeDescriptors
<1> QED BY <1>1, Invariance, PTL DEF Spec, CyclicKept

\* An allocated descriptor is queued, in the hand of a client, or with the
\* tasklet, which has one during a callback only.
Placed(d) ==
  \/ d \in Queued
  \/ \E c \in Client : pc[c] \in Preparing /\ hand[c] = d
  \/ tasklet.desc = d
PlacedInv ==
  /\ \A d \in live : Placed(d)
  /\ tasklet.pc # "callback" => tasklet.desc = NoDesc

\* A step that frees nothing a list, a client or the tasklet keeps.
LEMMA PlacedFrame ==
  ASSUME PlacedInv, NEW S, live' \subseteq live \ S,
         Queued \subseteq Queued' \cup S,
         \A c \in Client : pc[c] \in Preparing /\ hand[c] \notin S =>
           hand[c] \in Queued' \/ (pc'[c] \in Preparing /\ hand'[c] = hand[c]),
         tasklet.desc \in S \cup Queued' \/ tasklet'.desc = tasklet.desc \/ tasklet.desc = NoDesc,
         NoDesc \notin live,
         tasklet'.pc # "callback" => tasklet'.desc = NoDesc
  PROVE  PlacedInv'
BY DEF PlacedInv, Placed

\* When no reset times out, every descriptor that is allocated will be freed:
\* by the tasklet, by terminate_all or release, or by the client that has it.
LEMMA PlacedStep ==
  ASSUME "reset_timeout" \notin Faults, IInv, PlacedInv, [Next]_vars
  PROVE  PlacedInv'
<1> USE DEF IInv
<1>1. NoDesc \notin live
  BY ConstantsAssumption DEF TypeOK, ListsOK
<1>2. tasklet.pc # "callback" => tasklet.desc = NoDesc
  BY DEF PlacedInv
<1>3. ASSUME live' \subseteq live, Queued \subseteq Queued', UNCHANGED tasklet,
             \A c \in Client : pc[c] \in Preparing =>
               hand[c] \in Queued' \/ (pc'[c] \in Preparing /\ hand'[c] = hand[c])
      PROVE  PlacedInv'
  BY <1>1, <1>2, <1>3 DEF PlacedInv, Placed
<1>4. ASSUME NEW c \in Client, NEW d \in Desc, NEW kind \in PrepCalls,
             NEW n \in 1 .. MaxSegs, PrepBegin(c, d, kind, n)
      PROVE  PlacedInv'
  <2>1. /\ live' = live \cup {d} /\ pc[c] = "idle"
        /\ pc' = [pc EXCEPT ![c] = kind] /\ hand' = [hand EXCEPT ![c] = d]
        /\ UNCHANGED <<listVars, tasklet>>
    BY <1>4 DEF PrepBegin, Goto
  <2>2. /\ pc'[c] \in Preparing /\ hand'[c] = d
        /\ \A x \in Client : pc[x] \in Preparing =>
             pc'[x] \in Preparing /\ hand'[x] = hand[x]
    BY <2>1 DEF Preparing, PrepCalls, TypeOK, ClientsOK
  <2> QED BY <1>2, <2>1, <2>2 DEF PlacedInv, Placed, Queued, listVars
<1>5. ASSUME NEW c \in Client,
             \/ PrepAlloc(c) \/ PrepNoSegment(c) \/ PrepEnd(c)
             \/ SubmitNotBusy(c) \/ SubmitCheckErr(c) \/ SubmitReset(c)
      PROVE  PlacedInv'
  <2>1. UNCHANGED <<listVars, live, hand, tasklet>>
    BY <1>5 DEF PrepAlloc, PrepNoSegment, PrepEnd, SubmitNotBusy, SubmitCheckErr, SubmitReset,
       descVars
  <2>2. pc' = pc \/ \E l \in Preparing : pc' = [pc EXCEPT ![c] = l]
    BY <1>5 DEF PrepAlloc, PrepNoSegment, PrepEnd, SubmitNotBusy, SubmitCheckErr, SubmitReset,
       Goto, Preparing
  <2>3. \A x \in Client : pc[x] \in Preparing => pc'[x] \in Preparing
    BY <2>2 DEF TypeOK, ClientsOK
  <2> QED BY <1>3, <2>1, <2>3 DEF Queued, listVars
<1>6. ASSUME NEW c \in Client, PrepError(c) \/ SubmitBusy(c)
      PROVE  PlacedInv'
  <2>1. /\ UNCHANGED <<listVars, tasklet>> /\ live' = live \ {hand[c]}
        /\ pc' = [pc EXCEPT ![c] = "idle"] /\ hand' = [hand EXCEPT ![c] = NoDesc]
    BY <1>6 DEF PrepError, SubmitBusy, Goto, Drop, FreeTxDescriptor
  <2>2. \A x \in Client : pc[x] \in Preparing /\ hand[x] # hand[c] =>
          pc'[x] \in Preparing /\ hand'[x] = hand[x]
    BY <2>1 DEF TypeOK, ClientsOK
  <2> QED BY <1>1, <1>2, <2>1, <2>2, PlacedFrame DEF Queued, listVars
<1>7. ASSUME NEW c \in Client, SubmitAppend(c)
      PROVE  PlacedInv'
  <2>1. Queued' = Queued \cup {hand[c]}
    BY <1>7, QueuedSubmit
  <2>2. /\ hand' = [hand EXCEPT ![c] = NoDesc] /\ UNCHANGED <<live, tasklet>>
        /\ \E l \in ClientPc : pc' = [pc EXCEPT ![c] = l]
    BY <1>7 DEF SubmitAppend, Drop, Goto, ClientPc
  <2>3. \A x \in Client \ {c} : pc'[x] = pc[x] /\ hand'[x] = hand[x]
    BY <2>2 DEF TypeOK, ClientsOK
  <2> QED BY <1>3, <2>1, <2>2, <2>3
<1>8. ASSUME NEW c \in Client,
             \/ StatusBegin(c) \/ StatusWalk(c) \/ TerminateHalt(c) \/ TerminateLock(c)
             \/ TerminateUnlock(c) \/ TerminateCyclic(c)
             \/ ReleaseLock(c) \/ ReleaseUnlock(c) \/ ReleaseFree(c)
      PROVE  PlacedInv'
  <2>1. UNCHANGED <<listVars, live, tasklet>> /\ pc[c] \notin Preparing
    BY <1>8 DEF StatusBegin, StatusWalk, TerminateHalt, TerminateLock, TerminateUnlock,
       TerminateCyclic, ReleaseLock, ReleaseUnlock, ReleaseFree, Preparing, PrepCalls, descVars
  <2>2. /\ \E l \in ClientPc : pc' = [pc EXCEPT ![c] = l]
        /\ hand' = hand \/ \E d \in Desc \cup {NoDesc} : hand' = [hand EXCEPT ![c] = d]
    <3>1. active_list # <<>> => Last(active_list) \in Desc
      BY EndsOfList DEF TypeOK, ListsOK
    <3> QED BY <1>8, <3>1 DEF StatusBegin, StatusWalk, TerminateHalt, TerminateLock,
            TerminateUnlock, TerminateCyclic, ReleaseLock, ReleaseUnlock, ReleaseFree,
            Goto, Drop, ClientPc
  <2>3. \A x \in Client \ {c} : pc'[x] = pc[x] /\ hand'[x] = hand[x]
    BY <2>2 DEF TypeOK, ClientsOK
  <2> QED BY <1>3, <2>1, <2>3 DEF Queued, listVars
<1>9. CASE (\E c \in Client : IssuePending(c)) \/ IrqComplete \/ IrqRestart
  <2>1. /\ UNCHANGED <<live, pc, hand>> /\ tasklet'.desc = tasklet.desc
        /\ tasklet'.pc = tasklet.pc
    BY <1>9 DEF IssuePending, IrqComplete, IrqRestart, ScheduleTasklet, descVars, clientVars,
       TypeOK, HandlersOK
  <2>2. Queued' = Queued
    BY <1>9, StartSteps, QueuedKept
  <2> QED BY <1>1, <1>2, <2>1, <2>2, PlacedFrame
<1>10. ASSUME NEW c \in Client, FreeDescriptors(c)
       PROVE  PlacedInv'
  <2>1. UNCHANGED <<pc, hand, tasklet>>
    BY <1>10 DEF FreeDescriptors, clientVars
  <2>2. PICK d \in Desc : FreeTxDescriptor(d) /\ Queued = Queued' \cup {d}
    BY <1>10, QueuedFree
  <2>3. live' = live \ {d}
    BY <2>2 DEF FreeTxDescriptor
  <2> QED BY <1>1, <1>2, <2>1, <2>2, <2>3 DEF PlacedInv, Placed
<1>11. CASE TaskletPop
  <2>1. /\ tasklet.pc = "loop" /\ tasklet'.desc = Head(done_list) /\ tasklet'.pc = "callback"
        /\ UNCHANGED <<live, pc, hand>>
    BY <1>11 DEF TaskletPop, TaskletUnchanged, descVars, clientVars, TypeOK, HandlersOK
  <2>2. Queued = Queued' \cup {Head(done_list)}
    BY <1>11, QueuedPop
  <2> QED BY <1>1, <1>2, <2>1, <2>2 DEF PlacedInv, Placed
<1>12. CASE TaskletFree
  <2>1. /\ live' = live \ {tasklet.desc} /\ tasklet'.desc = NoDesc
        /\ UNCHANGED <<listVars, pc, hand>>
    BY <1>12 DEF TaskletFree, TaskletUnchanged, FreeTxDescriptor, listVars, clientVars,
       TypeOK, HandlersOK
  <2> QED BY <1>1, <1>2, <2>1 DEF PlacedInv, Placed, Queued, listVars
<1>13. CASE AllocChanResources \/ Engine \/ UNCHANGED vars
  <2>1. UNCHANGED <<listVars, live, pc, hand, tasklet>>
    BY <1>13 DEF AllocChanResources, Engine, EngineTransfer, EngineError, vars, descVars,
       clientVars
  <2> QED BY <1>3, <2>1 DEF Queued, listVars
<1>14. CASE IrqAck \/ IrqLock \/ TaskletRun \/ TaskletExit \/ TaskletCyclic \/ TaskletCyclicReturn
  <2>1. /\ UNCHANGED <<listVars, live, pc, hand>> /\ tasklet'.desc = tasklet.desc
        /\ tasklet'.pc = "callback" => tasklet.pc = "callback"
        /\ tasklet.pc = "callback" => tasklet'.pc = "callback"
    BY <1>14 DEF IrqAck, IrqLock, TaskletRun, TaskletExit, TaskletCyclic, TaskletCyclicReturn,
       TaskletUnchanged, ScheduleTasklet, listVars, descVars, clientVars, TypeOK, HandlersOK
  <2> QED BY <1>1, <1>2, <2>1 DEF PlacedInv, Placed, Queued, listVars
<1>15. ASSUME NEW c \in Client, SubmitResetTimeout(c) PROVE FALSE
  BY <1>15 DEF SubmitResetTimeout
<1> QED
  BY <1>4, <1>5, <1>6, <1>7, <1>8, <1>9, <1>10, <1>11, <1>12, <1>13, <1>14, <1>15
  DEF Next, ClientStep, Irq, Tasklet

LEMMA PlacedInvariance ==
  ASSUME "reset_timeout" \notin Faults
  PROVE  Spec => [](IInv /\ PlacedInv)
<1>1. Init => IInv /\ PlacedInv
  BY InitInv DEF Init, PlacedInv
<1>2. (IInv /\ PlacedInv) /\ [Next]_vars => (IInv /\ PlacedInv)'
  BY TypeStep, OwnStep, SegsStep, PlacedStep DEF IInv
<1> QED BY <1>1, <1>2, PTL DEF Spec

\* No descriptor is lost, whatever the number of clients and whatever they call.
THEOREM DescriptorsNotLost ==
  ASSUME "reset_timeout" \notin Faults PROVE Spec => []DescNotLost
<1>1. IInv /\ PlacedInv => DescNotLost
  BY ConstantsAssumption
  DEF PlacedInv, Placed, DescNotLost, InHand, InTasklet, IInv, TypeOK, ListsOK
<1> QED BY <1>1, PlacedInvariance, PTL

-----------------------------------------------------------------------------
(* Cyclic transactions of one client *)

\* At most the last entry of the list is in C.
LastOnly(l, C) == \A i \in DOMAIN l : l[i] \in C => i = Len(l)

LEMMA LastOnlyTail ==
  ASSUME NEW S, NEW C, NEW l \in Seq(S), l # <<>>, LastOnly(l, C)
  PROVE  /\ LastOnly(Tail(l), C)
         /\ Tail(l) # <<>> => Head(l) \notin C
<1>1. /\ Len(l) \in Nat \ {0} /\ DOMAIN l = 1 .. Len(l) /\ Head(l) = l[1]
      /\ Tail(l) \in Seq(S) /\ Len(Tail(l)) = Len(l) - 1
      /\ \A i \in 1 .. Len(Tail(l)) : Tail(l)[i] = l[i + 1]
  BY HeadTailProperties, LenProperties, EmptySeq
<1>2. DOMAIN Tail(l) = 1 .. Len(l) - 1
  BY <1>1, LenProperties
<1>3. LastOnly(Tail(l), C)
  <2> SUFFICES ASSUME NEW i \in 1 .. Len(l) - 1, l[i + 1] \in C PROVE i = Len(l) - 1
    BY <1>1, <1>2 DEF LastOnly
  <2>1. i + 1 \in DOMAIN l
    BY <1>1
  <2>2. i + 1 = Len(l)
    BY <2>1 DEF LastOnly
  <2>3. Len(l) \in Nat /\ i \in Nat
    BY <1>1
  <2> QED BY <2>2, <2>3
<1>4. ASSUME Tail(l) # <<>> PROVE Head(l) \notin C
  <2>1. Len(l) # 1
    BY <1>1, <1>4, EmptySeq
  <2> QED BY <1>1, <2>1 DEF LastOnly
<1> QED BY <1>3, <1>4

LEMMA LastOnlyAppend ==
  ASSUME NEW S, NEW C, NEW l \in Seq(S), NEW e \in S, Range(l) \cap C = {}
  PROVE  LastOnly(Append(l, e), C)
<1>1. /\ Len(l) \in Nat /\ DOMAIN l = 1 .. Len(l)
      /\ Append(l, e) \in Seq(S) /\ Len(Append(l, e)) = Len(l) + 1
      /\ \A i \in 1 .. Len(l) : Append(l, e)[i] = l[i]
  BY AppendProperties, LenProperties
<1>2. DOMAIN Append(l, e) = 1 .. Len(l) + 1
  BY <1>1, LenProperties
<1>3. \A i \in 1 .. Len(l) : l[i] \notin C
  BY <1>1 DEF Range
<1>4. \A i \in 1 .. Len(l) + 1 : i \notin 1 .. Len(l) => i = Len(l) + 1
  BY <1>1
<1> QED BY <1>1, <1>2, <1>3, <1>4 DEF LastOnly

LEMMA LastOnlyConcat ==
  ASSUME NEW S, NEW C, NEW l \in Seq(S), NEW m \in Seq(S),
         LastOnly(l, C), LastOnly(m, C), m # <<>> => Range(l) \cap C = {}
  PROVE  LastOnly(l \o m, C)
<1>1. CASE m = <<>>
  BY <1>1, ConcatEmptySeq
<1>2. CASE Range(l) \cap C = {}
  <2>1. /\ Len(l) \in Nat /\ Len(m) \in Nat /\ DOMAIN l = 1 .. Len(l)
        /\ DOMAIN m = 1 .. Len(m)
        /\ l \o m \in Seq(S) /\ Len(l \o m) = Len(l) + Len(m)
        /\ \A i \in 1 .. Len(l) + Len(m) :
             (l \o m)[i] = IF i <= Len(l) THEN l[i] ELSE m[i - Len(l)]
    BY ConcatProperties, LenProperties
  <2>2. DOMAIN (l \o m) = 1 .. Len(l) + Len(m)
    BY <2>1, LenProperties
  <2> SUFFICES ASSUME NEW i \in 1 .. Len(l) + Len(m), (l \o m)[i] \in C
               PROVE  i = Len(l) + Len(m)
    BY <2>1, <2>2 DEF LastOnly
  <2>3. i > Len(l)
    BY <1>2, <2>1 DEF Range
  <2>4. i - Len(l) \in DOMAIN m /\ m[i - Len(l)] \in C
    BY <2>1, <2>3
  <2>5. i - Len(l) = Len(m)
    BY <2>4 DEF LastOnly
  <2> QED BY <2>1, <2>5
<1> QED BY <1>1, <1>2

LEMMA LastOnlyLess ==
  ASSUME NEW l, NEW C, NEW D, LastOnly(l, C), Range(l) \cap D \subseteq C
  PROVE  LastOnly(l, D)
BY DEF LastOnly, Range

\* CyclicIsLast, list by list.
Cyclic == {d \in Desc : desc[d].cyclic}
CyclicAtEnd ==
  /\ LastOnly(pending_list, Cyclic) /\ LastOnly(active_list, Cyclic) /\ LastOnly(done_list, Cyclic)
  /\ pending_list # <<>> => Range(active_list) \cap Cyclic = {}
  /\ pending_list # <<>> \/ active_list # <<>> => Range(done_list) \cap Cyclic = {}

\* chan->cyclic is set as long as a cyclic transaction is queued, unless BUG()
\* has stopped the only client; so it is not set when another one is queued.
Checked == {"check_err", "reset", "append"}
CyclicFlag ==
  /\ Queued \cap Cyclic # {} => chan.cyclic \/ \E c \in Client : pc[c] = "bug"
  /\ \A c \in Client : pc[c] \in Checked => ~chan.cyclic
  /\ \A c \in Client : pc[c] = "term_cyclic" => Queued = {}

OneClient == \A x, y \in Client : x = y

\* The descriptors that a step makes cyclic are not queued.
LEMMA CyclicSame ==
  ASSUME IInv, [Next]_vars
  PROVE  Queued \cap Cyclic' \subseteq Cyclic
<1> USE DEF IInv
<1>1. Queued \subseteq Desc
  BY RangeType DEF TypeOK, ListsOK, Queued
<1>2. CASE \A d \in Queued : desc'[d] = desc[d]
  BY <1>1, <1>2 DEF Cyclic
<1>3. ASSUME NEW c \in Client, SubmitAppend(c)
      PROVE  \A d \in Queued : desc'[d] = desc[d]
  <2>1. hand[c] \notin Queued
    BY <1>3 DEF SubmitAppend, Preparing, Own, OneOwner
  <2> QED BY <1>1, <1>3, <2>1 DEF SubmitAppend, TypeOK, DescOK
<1>4. ASSUME NEW d \in Desc, FreeTxDescriptor(d)
      PROVE  Cyclic' \subseteq Cyclic
  BY <1>4 DEF FreeTxDescriptor, TypeOK, DescOK, Cyclic, BlankDesc
<1>5. CASE AllocChanResources \/ Starting \/ IrqComplete \/ TaskletPop
  BY <1>2, <1>5 DEF AllocChanResources, Starting, IrqComplete, TaskletPop, descVars
<1>6. CASE OneUnqueuedChanges
  BY <1>1, <1>2, <1>6 DEF OneUnqueuedChanges
<1> QED BY <1>2, <1>3, <1>4, <1>5, <1>6, QueueCases, QueuedFree

\* A transaction is only appended when none that is queued is cyclic.
LEMMA AppendBehindNone ==
  ASSUME OneClient, CyclicFlag, NEW c \in Client, SubmitAppend(c)
  PROVE  Queued \cap Cyclic = {}
<1>1. pc[c] = "append" /\ \A x \in Client : pc[x] # "bug"
  BY DEF SubmitAppend, OneClient
<1> QED BY <1>1 DEF CyclicFlag, Checked

LEMMA AtEndStep ==
  ASSUME OneClient, IInv, CyclicAtEnd, CyclicFlag, [Next]_vars
  PROVE  CyclicAtEnd'
<1> USE DEF IInv
<1>1. /\ pending_list \in Seq(Desc) /\ active_list \in Seq(Desc) /\ done_list \in Seq(Desc)
  BY DEF TypeOK, ListsOK
<1>2. Queued \cap Cyclic' \subseteq Cyclic
  BY CyclicSame
<1>3. /\ LastOnly(pending_list, Cyclic') /\ LastOnly(active_list, Cyclic')
      /\ LastOnly(done_list, Cyclic')
      /\ pending_list # <<>> => Range(active_list) \cap Cyclic' = {}
      /\ pending_list # <<>> \/ active_list # <<>> => Range(done_list) \cap Cyclic' = {}
  BY <1>2, LastOnlyLess DEF CyclicAtEnd, Queued
<1> HIDE DEF IInv
<1>4. CASE QueueSame \/ AllocChanResources
  BY <1>3, <1>4 DEF QueueSame, AllocChanResources, listVars, CyclicAtEnd
<1>5. ASSUME NEW c \in Client, SubmitAppend(c)
      PROVE  CyclicAtEnd'
  <2>1. Queued \cap Cyclic' = {}
    BY <1>2, <1>5, AppendBehindNone
  <2>2. /\ hand[c] \in Desc
        /\ pending_list' = Append(pending_list, hand[c])
        /\ UNCHANGED <<active_list, done_list>>
    BY <1>5, QueuedSubmit DEF SubmitAppend
  <2>3. LastOnly(pending_list', Cyclic')
    BY <1>1, <2>1, <2>2, LastOnlyAppend DEF Queued
  <2> QED BY <1>3, <2>1, <2>2, <2>3 DEF CyclicAtEnd, Queued
<1>6. CASE Starting
  <2>1. done_list' = done_list
    BY <1>6 DEF Starting
  <2>2. CASE UNCHANGED <<pending_list, active_list>>
    BY <1>3, <2>1, <2>2 DEF CyclicAtEnd
  <2>3. CASE /\ pending_list # <<>>
             /\ active_list' = active_list \o pending_list /\ pending_list' = <<>>
    <3>1. LastOnly(active_list', Cyclic')
      BY <1>1, <1>3, <2>3, LastOnlyConcat
    <3>2. LastOnly(pending_list', Cyclic')
      BY <2>3 DEF LastOnly
    <3> QED BY <1>3, <2>1, <2>3, <3>1, <3>2 DEF CyclicAtEnd
  <2> QED BY <1>6, <2>2, <2>3 DEF Starting, StartTransfer
<1>7. CASE IrqComplete
  <2>1. /\ active_list # <<>> /\ active_list' = Tail(active_list)
        /\ done_list' = Append(done_list, Head(active_list))
        /\ pending_list' = pending_list
    BY <1>7 DEF IrqComplete
  <2>2. /\ LastOnly(active_list', Cyclic')
        /\ active_list' # <<>> => Head(active_list) \notin Cyclic'
    BY <1>1, <1>3, <2>1, LastOnlyTail
  <2>3. /\ Range(active_list) = {Head(active_list)} \cup Range(active_list')
        /\ Head(active_list) \in Desc
    BY <1>1, <2>1, TailList
  <2>4. LastOnly(done_list', Cyclic')
    BY <1>1, <1>3, <2>1, <2>3, LastOnlyAppend
  <2>5. Range(done_list') = Range(done_list) \cup {Head(active_list)}
    BY <1>1, <2>1, <2>3, AppendList
  <2> QED BY <1>3, <2>1, <2>2, <2>3, <2>4, <2>5 DEF CyclicAtEnd
<1>8. ASSUME NEW l \in Seq(Desc), l # <<>>
      PROVE  /\ Range(Tail(l)) \subseteq Range(l)
             /\ LastOnly(l, Cyclic') => LastOnly(Tail(l), Cyclic')
  BY <1>8, TailList, LastOnlyTail
<1>9. CASE TaskletPop
  <2>1. /\ done_list # <<>> /\ done_list' = Tail(done_list)
        /\ UNCHANGED <<pending_list, active_list>>
    BY <1>9 DEF TaskletPop, TaskletUnchanged
  <2> QED BY <1>1, <1>3, <1>8, <2>1 DEF CyclicAtEnd
<1>10. ASSUME NEW c \in Client, FreeDescriptors(c)
       PROVE  CyclicAtEnd'
  <2>1. CASE /\ pending_list # <<>> /\ pending_list' = Tail(pending_list)
             /\ UNCHANGED <<done_list, active_list>>
    BY <1>1, <1>3, <1>8, <2>1 DEF CyclicAtEnd
  <2>2. CASE /\ done_list # <<>> /\ done_list' = Tail(done_list)
             /\ UNCHANGED <<pending_list, active_list>>
    BY <1>1, <1>3, <1>8, <2>2 DEF CyclicAtEnd
  <2>3. CASE /\ active_list # <<>> /\ active_list' = Tail(active_list)
             /\ UNCHANGED <<pending_list, done_list>>
    BY <1>1, <1>3, <1>8, <2>3 DEF CyclicAtEnd
  <2> QED BY <1>10, <2>1, <2>2, <2>3 DEF FreeDescriptors
<1> QED BY <1>4, <1>5, <1>6, <1>7, <1>9, <1>10, QueueCases DEF OneUnqueuedChanges

\* What the steps of the client do to its program counter and to chan->cyclic.
LEMMA FlagStep ==
  ASSUME OneClient, IInv, CyclicFlag, [Next]_vars
  PROVE  CyclicFlag'
<1> USE DEF IInv
<1>1. ASSUME ~ \E c \in Client : SubmitAppend(c)
      PROVE  Queued' \subseteq Queued /\ Queued' \cap Cyclic' \subseteq Queued \cap Cyclic
  <2>1. Queued' \subseteq Queued
    BY <1>1, QueueCases, QueuedKept, QueuedPop, QueuedFree DEF OneUnqueuedChanges
  <2> QED BY <2>1, CyclicSame
<1>2. ASSUME UNCHANGED pc, chan'.cyclic = chan.cyclic
      PROVE  CyclicFlag'
  <2>1. ~ \E c \in Client : SubmitAppend(c)
    BY <1>2 DEF SubmitAppend, Goto, TypeOK, ClientsOK
  <2> QED BY <1>1, <1>2, <2>1 DEF CyclicFlag
<1>3. ASSUME NEW c \in Client, NEW l \in ClientPc, pc[c] # "bug",
             pc' = [pc EXCEPT ![c] = l], chan'.cyclic = chan.cyclic,
             l \in Checked => ~chan.cyclic, l = "term_cyclic" => ListsEmpty,
             ~ \E x \in Client : SubmitAppend(x)
      PROVE  CyclicFlag'
  <2>1. \A x \in Client : x = c /\ pc'[x] = l
    BY <1>3 DEF OneClient, TypeOK, ClientsOK
  <2>2. Queued \cap Cyclic # {} => chan.cyclic
    BY <1>3, <2>1 DEF CyclicFlag
  <2>3. ListsEmpty => Queued = {}
    BY EmptyList DEF ListsEmpty, Queued
  <2> QED BY <1>1, <1>3, <2>1, <2>2, <2>3 DEF CyclicFlag
<1>4. ASSUME NEW c \in Client, ClientStep(c), pc[c] # "append"
      PROVE  ~ \E x \in Client : SubmitAppend(x)
  BY <1>4 DEF OneClient, SubmitAppend
<1>5. ASSUME NEW c \in Client, SubmitAppend(c)
      PROVE  CyclicFlag'
  <2>1. /\ Queued' = Queued \cup {hand[c]} /\ hand[c] \in Desc
        /\ Queued \cap Cyclic = {} /\ Queued \cap Cyclic' \subseteq Cyclic
    BY <1>5, QueuedSubmit, AppendBehindNone, CyclicSame
  <2>2. desc'[hand[c]].cyclic = desc[hand[c]].cyclic
    BY <1>5, <2>1 DEF SubmitAppend, TypeOK, DescOK
  <2>3. \/ pc' = [pc EXCEPT ![c] = "bug"]
        \/ /\ pc' = [pc EXCEPT ![c] = "idle"]
           /\ desc[hand[c]].cyclic => chan'.cyclic
    BY <1>5 DEF SubmitAppend, Goto, TypeOK, ChanOK
  <2>4. \A x \in Client : x = c /\ pc'[x] = pc'[c]
    BY DEF OneClient
  <2>5. pc'[c] = "bug" \/ (pc'[c] = "idle" /\ (desc[hand[c]].cyclic => chan'.cyclic))
    BY <2>3 DEF TypeOK, ClientsOK
  <2>6. Queued' \cap Cyclic' # {} => hand[c] \in Cyclic'
    BY <2>1
  <2>7. hand[c] \in Cyclic' => desc[hand[c]].cyclic
    BY <2>2 DEF Cyclic
  <2> QED BY <2>4, <2>5, <2>6, <2>7 DEF CyclicFlag, Checked
<1>6. ASSUME NEW c \in Client, TerminateCyclic(c)
      PROVE  CyclicFlag'
  <2>1. Queued = {} /\ pc' = [pc EXCEPT ![c] = "idle"]
    BY <1>6 DEF TerminateCyclic, Goto, CyclicFlag
  <2>2. \A x \in Client : pc'[x] = "idle"
    BY <2>1 DEF OneClient, TypeOK, ClientsOK
  <2>3. Queued' = {}
    BY <2>1, <1>6 DEF TerminateCyclic, Queued, listVars
  <2> QED BY <2>2, <2>3 DEF CyclicFlag, Checked
<1>7. ASSUME NEW c \in Client, ClientStep(c), ~SubmitAppend(c), ~TerminateCyclic(c)
      PROVE  \/ UNCHANGED pc /\ chan'.cyclic = chan.cyclic
             \/ \E l \in ClientPc :
                  /\ pc[c] \notin {"bug", "append"}
                  /\ pc' = [pc EXCEPT ![c] = l] /\ chan'.cyclic = chan.cyclic
                  /\ l \in Checked => ~chan.cyclic
                  /\ l = "term_cyclic" => ListsEmpty
  <2>1. CASE \/ \E d \in Desc, kind \in PrepCalls, n \in 1 .. MaxSegs : PrepBegin(c, d, kind, n)
             \/ PrepAlloc(c) \/ PrepNoSegment(c) \/ PrepError(c) \/ PrepEnd(c)
             \/ SubmitBusy(c) \/ SubmitNotBusy(c) \/ SubmitResetTimeout(c)
    BY <2>1 DEF PrepBegin, PrepAlloc, PrepNoSegment, PrepError, PrepEnd, SubmitBusy,
       SubmitNotBusy, SubmitResetTimeout, Goto, PrepCalls, ClientPc, Checked, TypeOK, ChanOK
  <2>2. CASE SubmitCheckErr(c) \/ SubmitReset(c)
    <3>1. ~chan.cyclic
      BY <2>2 DEF SubmitCheckErr, SubmitReset, CyclicFlag, Checked
    <3> QED BY <2>2, <3>1 DEF SubmitCheckErr, SubmitReset, Goto, ClientPc, Checked, TypeOK, ChanOK
  <2>3. CASE IssuePending(c) \/ FreeDescriptors(c)
    BY <2>3 DEF IssuePending, FreeDescriptors, StartTransfer, Started, clientVars, TypeOK, ChanOK
  <2>4. CASE \/ StatusBegin(c) \/ StatusWalk(c) \/ TerminateHalt(c) \/ TerminateLock(c)
             \/ TerminateUnlock(c) \/ ReleaseLock(c) \/ ReleaseUnlock(c) \/ ReleaseFree(c)
    BY <2>4 DEF StatusBegin, StatusWalk, TerminateHalt, TerminateLock, TerminateUnlock,
       ReleaseLock, ReleaseUnlock, ReleaseFree, Goto, ClientPc, Checked, TypeOK, ChanOK
  <2> QED BY <1>7, <2>1, <2>2, <2>3, <2>4 DEF ClientStep
<1>8. ASSUME AllocChanResources \/ Engine \/ Irq \/ Tasklet \/ UNCHANGED vars
      PROVE  UNCHANGED pc /\ chan'.cyclic = chan.cyclic
  <2>1. CASE AllocChanResources
    BY <2>1 DEF AllocChanResources, clientVars, TypeOK, ChanOK
  <2>2. CASE IrqAck \/ IrqRestart
    BY <2>2 DEF IrqAck, IrqRestart, StartTransfer, Started, clientVars, TypeOK, ChanOK
  <2>3. CASE Engine \/ IrqLock \/ IrqComplete \/ Tasklet \/ UNCHANGED vars
    BY <2>3 DEF Engine, EngineTransfer, EngineError, IrqLock, IrqComplete, Tasklet, TaskletRun,
       TaskletExit, TaskletCyclic, TaskletCyclicReturn, TaskletPop, TaskletFree,
       TaskletUnchanged, vars, clientVars
  <2> QED BY <1>8, <2>1, <2>2, <2>3 DEF Irq
<1> QED BY <1>2, <1>3, <1>4, <1>5, <1>6, <1>7, <1>8 DEF Next

LEMMA AtEndMeansLast ==
  ASSUME TypeOK, CyclicAtEnd
  PROVE  CyclicIsLast
<1> DEFINE front == done_list \o active_list
           queue == front \o pending_list
<1>1. /\ pending_list \in Seq(Desc) /\ active_list \in Seq(Desc) /\ done_list \in Seq(Desc)
  BY DEF TypeOK, ListsOK
<1>2. front \in Seq(Desc) /\ LastOnly(front, Cyclic)
      /\ Range(front) = Range(done_list) \cup Range(active_list)
  BY <1>1, LastOnlyConcat, ConcatList DEF CyclicAtEnd
<1>3. queue \in Seq(Desc) /\ LastOnly(queue, Cyclic)
  BY <1>1, <1>2, LastOnlyConcat, ConcatProperties DEF CyclicAtEnd
<1> HIDE DEF front
<1> QED BY <1>3, LenProperties DEF CyclicIsLast, LastOnly, Cyclic, front

\* A channel with one client never has a transaction behind a cyclic one, whatever
\* the client calls, in every interleaving with the interrupt handler and the
\* tasklet and whatever faults the hardware shows.
THEOREM NothingBehindCyclic == ASSUME OneClient PROVE Spec => []CyclicIsLast
<1> DEFINE CInv == IInv /\ CyclicAtEnd /\ CyclicFlag
<1>1. Init => CInv
  <2> SUFFICES ASSUME Init PROVE CyclicAtEnd /\ CyclicFlag
    BY InitInv
  <2> QED BY EmptyList, EmptySeq DEF Init, CyclicAtEnd, CyclicFlag, LastOnly, Queued, Checked
<1>2. CInv /\ [Next]_vars => CInv'
  BY TypeStep, OwnStep, SegsStep, AtEndStep, FlagStep DEF IInv
<1>3. CInv => CyclicIsLast
  BY AtEndMeansLast DEF IInv
<1> QED BY <1>1, <1>2, <1>3, PTL DEF Spec
-----------------------------------------------------------------------------
(* The interrupt on completion, of a channel with one client *)

\* While the channel is allocated or any work is left over, ctrl_reg has the
\* interrupts enabled; the register has too, while the engine has something to
\* report, so that a reset reads an enabled value back.
EngActive == eng.busy \/ eng.ioc \/ eng.err
IrqEnabled ==
  /\ pool \/ irq # "none" \/ chan.err \/ EngActive => chan.ctrl_reg.irqen
  /\ chan.err \/ EngActive => eng.cr.irqen
ClientAllocated ==
  \A c \in Client : (pc[c] # "idle" => pool) /\ (pc[c] = "reset" => chan.err)

LEMMA StartEnables ==
  ASSUME TypeOK, IrqEnabled, NEW ch \in ChanType, StartTransfer(ch),
         ch.ctrl_reg.irqen, ch.err = chan.err
  PROVE  /\ chan'.ctrl_reg.irqen
         /\ chan'.err \/ EngActive' => eng'.cr.irqen
         /\ chan.err => chan'.err
<1>1. StartCtrl(ch).irqen = ch.ctrl_reg.irqen
  BY DEF StartCtrl, ChanType, Ctrl
<1>2. CASE UNCHANGED eng /\ chan' = ch
  BY <1>2 DEF IrqEnabled, EngActive
<1>3. CASE ~ch.err /\ eng'.cr = StartCtrl(ch) /\ chan' = Started(ch)
  BY <1>1, <1>3 DEF Started, ChanType
<1>4. CASE /\ ~ch.err /\ eng'.cr = StartCtrl(ch)
           /\ chan' = [ch EXCEPT !.ctrl_reg = StartCtrl(ch), !.err = TRUE]
  BY <1>1, <1>4 DEF ChanType
<1> QED BY <1>2, <1>3, <1>4 DEF StartTransfer, TypeOK, EngOK

LEMMA IrqEnabledStep ==
  ASSUME OneClient, TypeOK, IrqEnabled, ClientAllocated, [Next]_vars
  PROVE  IrqEnabled' /\ ClientAllocated'
<1>1. ASSUME UNCHANGED <<chan, eng>>, pool' => pool, irq' # "none" => irq # "none"
      PROVE  IrqEnabled'
  BY <1>1 DEF IrqEnabled, EngActive
<1>2. ASSUME NEW c \in Client, pool, pool', NEW l \in ClientPc,
             pc' = [pc EXCEPT ![c] = l], l = "reset" => chan'.err
      PROVE  ClientAllocated'
  <2>1. \A x \in Client : pc'[x] = l
    BY <1>2 DEF OneClient, TypeOK, ClientsOK
  <2> QED BY <1>2, <2>1 DEF ClientAllocated
<1>3. ASSUME NEW c \in Client, ClientStep(c)
      PROVE  IrqEnabled' /\ ClientAllocated'
  <2>1. CASE \/ \E d \in Desc, kind \in PrepCalls, n \in 1 .. MaxSegs : PrepBegin(c, d, kind, n)
             \/ PrepAlloc(c) \/ PrepNoSegment(c) \/ PrepError(c) \/ SubmitBusy(c)
             \/ SubmitNotBusy(c) \/ SubmitCheckErr(c) \/ StatusBegin(c) \/ StatusWalk(c)
             \/ TerminateLock(c) \/ FreeDescriptors(c) \/ TerminateUnlock(c)
             \/ ReleaseLock(c) \/ ReleaseUnlock(c)
    <3>1. UNCHANGED <<chan, eng, irq, pool>>
      BY <2>1 DEF PrepBegin, PrepAlloc, PrepNoSegment, PrepError, SubmitBusy, SubmitNotBusy,
         SubmitCheckErr, StatusBegin, StatusWalk, TerminateLock, FreeDescriptors,
         TerminateUnlock, ReleaseLock, ReleaseUnlock, FreeTxDescriptor, memVars
    <3>2. /\ \/ pc' = pc
             \/ \E l \in ClientPc : pc' = [pc EXCEPT ![c] = l] /\ (l = "reset" => chan.err)
          /\ pool
      BY <2>1 DEF PrepBegin, PrepAlloc, PrepNoSegment, PrepError, SubmitBusy, SubmitNotBusy,
         SubmitCheckErr, StatusBegin, StatusWalk, TerminateLock, FreeDescriptors,
         TerminateUnlock, ReleaseLock, ReleaseUnlock, clientVars, Goto, ClientPc, PrepCalls,
         Claimed, ClientAllocated
    <3> QED BY <1>1, <1>2, <3>1, <3>2 DEF ClientAllocated
  <2>2. CASE PrepEnd(c)
    <3>1. /\ chan'.ctrl_reg.irqen = chan.ctrl_reg.irqen /\ chan'.err = chan.err
          /\ eng'.cr = chan'.ctrl_reg \/ eng' = eng
          /\ eng'.busy = eng.busy /\ eng'.ioc = eng.ioc /\ eng'.err = eng.err
          /\ UNCHANGED <<irq, pool>> /\ pool /\ pc' = [pc EXCEPT ![c] = "prepared"]
      BY <2>2 DEF PrepEnd, Goto, TypeOK, ChanOK, Ctrl, EngOK, ClientAllocated, PrepCalls
    <3> QED BY <1>2, <3>1 DEF IrqEnabled, EngActive, ClientPc
  <2>3. CASE SubmitReset(c)
    <3>1. /\ pc[c] = "reset" /\ pc' = [pc EXCEPT ![c] = "append"]
          /\ chan'.ctrl_reg = eng.cr /\ ~chan'.err
          /\ ~eng'.busy /\ ~eng'.ioc /\ ~eng'.err /\ pool' = pool
      BY <2>3 DEF SubmitReset, ResetEng, Goto, memVars, TypeOK, ChanOK, EngOK
    <3>2. chan.err /\ pool
      BY <3>1 DEF ClientAllocated
    <3> QED BY <1>2, <3>1, <3>2 DEF IrqEnabled, EngActive, ClientPc
  <2>4. CASE SubmitResetTimeout(c)
    <3>1. /\ pc[c] = "reset" /\ pc' = [pc EXCEPT ![c] = "idle"]
          /\ chan'.ctrl_reg = eng.cr /\ chan'.err = chan.err
          /\ UNCHANGED <<eng, irq, pool>>
      BY <2>4 DEF SubmitResetTimeout, Goto, memVars, TypeOK, ChanOK
    <3>2. chan.err /\ pool
      BY <3>1 DEF ClientAllocated
    <3> QED BY <1>2, <3>1, <3>2 DEF IrqEnabled, EngActive, ClientPc
  <2>5. CASE SubmitAppend(c)
    <3>1. /\ chan'.ctrl_reg = chan.ctrl_reg /\ chan'.err = chan.err
          /\ UNCHANGED <<eng, irq, pool>> /\ pc[c] = "append"
          /\ \E l \in {"bug", "idle"} : pc' = [pc EXCEPT ![c] = l]
      BY <2>5 DEF SubmitAppend, Goto, TypeOK, ChanOK
    <3>2. pool
      BY <3>1 DEF ClientAllocated
    <3> QED BY <1>2, <3>1, <3>2 DEF IrqEnabled, EngActive, ClientPc
  <2>6. CASE IssuePending(c)
    <3>1. /\ StartTransfer(chan) /\ chan \in ChanType /\ pool /\ pc[c] = "idle"
          /\ UNCHANGED <<pc, irq, pool>>
      BY <2>6 DEF IssuePending, Claimed, clientVars, memVars, TypeOK, ChanOK, ChanType
    <3>2. chan'.ctrl_reg.irqen /\ (chan'.err \/ EngActive' => eng'.cr.irqen)
      BY <3>1, StartEnables DEF IrqEnabled
    <3>3. \A x \in Client : pc[x] = "idle"
      BY <3>1 DEF OneClient
    <3> QED BY <3>1, <3>2, <3>3 DEF IrqEnabled, ClientAllocated
  <2>7. CASE TerminateHalt(c)
    <3>1. /\ pool /\ UNCHANGED <<irq, pool>> /\ pc' = [pc EXCEPT ![c] = "term_lock"]
          /\ chan'.ctrl_reg = [chan.ctrl_reg EXCEPT !.run = FALSE]
      BY <2>7 DEF TerminateHalt, Claimed, Goto, memVars, TypeOK, ChanOK
    <3>2. eng'.cr = chan'.ctrl_reg
      BY <2>7 DEF TerminateHalt, TypeOK, EngOK
    <3>3. chan'.ctrl_reg.irqen = chan.ctrl_reg.irqen
      BY <3>1 DEF TypeOK, ChanOK, Ctrl
    <3> QED BY <1>2, <3>1, <3>2, <3>3 DEF IrqEnabled, ClientPc
  <2>8. CASE TerminateCyclic(c)
    <3>1. /\ UNCHANGED <<irq, pool>> /\ pc[c] = "term_cyclic" /\ pc' = [pc EXCEPT ![c] = "idle"]
      BY <2>8 DEF TerminateCyclic, Goto, memVars
    <3>2. pool
      BY <3>1 DEF ClientAllocated
    <3>3. CASE UNCHANGED <<chan, eng>>
      BY <1>1, <1>2, <3>1, <3>2, <3>3 DEF ClientPc
    <3>4. CASE /\ chan' = [chan EXCEPT !.ctrl_reg.cyclic = FALSE, !.cyclic = FALSE]
               /\ eng' = [eng EXCEPT !.cr = chan'.ctrl_reg]
      <4>1. /\ chan'.ctrl_reg = [chan.ctrl_reg EXCEPT !.cyclic = FALSE]
            /\ eng'.cr = chan'.ctrl_reg
        BY <3>4 DEF TypeOK, ChanOK, EngOK
      <4>2. chan'.ctrl_reg.irqen = chan.ctrl_reg.irqen
        BY <4>1 DEF TypeOK, ChanOK, Ctrl
      <4> QED BY <1>2, <3>1, <3>2, <4>1, <4>2 DEF IrqEnabled, ClientPc
    <3> QED BY <2>8, <3>3, <3>4 DEF TerminateCyclic
  <2>9. CASE ReleaseFree(c)
    <3>1. /\ UNCHANGED <<chan, eng, irq>> /\ ~pool' /\ pc' = [pc EXCEPT ![c] = "idle"]
      BY <2>9 DEF ReleaseFree, Goto
    <3>2. \A x \in Client : pc'[x] = "idle"
      BY <3>1 DEF OneClient, TypeOK, ClientsOK
    <3> QED BY <1>1, <3>1, <3>2 DEF ClientAllocated
  <2> QED BY <1>3, <2>1, <2>2, <2>3, <2>4, <2>5, <2>6, <2>7, <2>8, <2>9 DEF ClientStep
<1>4. CASE AllocChanResources
  <2>1. /\ chan'.ctrl_reg.irqen /\ eng'.cr = chan'.ctrl_reg
        /\ \A c \in Client : pc'[c] = "idle"
    BY <1>4 DEF AllocChanResources, clientVars, TypeOK, ChanOK, Ctrl, EngOK
  <2> QED BY <2>1 DEF IrqEnabled, ClientAllocated
<1>5. CASE Engine
  <2>1. /\ UNCHANGED <<chan, irq, pool, pc>> /\ eng.busy /\ eng'.cr = eng.cr
    BY <1>5 DEF Engine, EngineTransfer, EngineError, memVars, clientVars, TypeOK, EngOK
  <2> QED BY <2>1 DEF IrqEnabled, EngActive, ClientAllocated
<1>6. CASE IrqAck
  <2>1. /\ UNCHANGED <<pool, pc>> /\ EngActive /\ eng'.cr = eng.cr
        /\ chan'.ctrl_reg = chan.ctrl_reg /\ (chan.err => chan'.err)
    BY <1>6 DEF IrqAck, EngActive, memVars, clientVars, TypeOK, EngOK, ChanOK
  <2> QED BY <2>1 DEF IrqEnabled, EngActive, ClientAllocated
<1>7. CASE IrqRestart
  <2>1. PICK ch \in ChanType : ch = [chan EXCEPT !.idle = TRUE]
    BY DEF TypeOK, ChanOK, ChanType
  <2>2. /\ StartTransfer(ch) /\ irq = "move" /\ irq' = "none" /\ UNCHANGED <<pc, pool>>
        /\ ch.ctrl_reg = chan.ctrl_reg /\ ch.err = chan.err
    BY <1>7, <2>1 DEF IrqRestart, memVars, clientVars, TypeOK, ChanOK
  <2>3. chan'.ctrl_reg.irqen /\ (chan'.err \/ EngActive' => eng'.cr.irqen) /\ (chan.err => chan'.err)
    BY <2>2, StartEnables DEF IrqEnabled
  <2> QED BY <2>2, <2>3 DEF IrqEnabled, ClientAllocated
<1>8. CASE IrqLock \/ IrqComplete \/ Tasklet \/ UNCHANGED vars
  <2>1. /\ UNCHANGED <<chan, eng, pool, pc>> /\ (irq' # "none" => irq # "none")
    BY <1>8 DEF IrqLock, IrqComplete, Tasklet, TaskletRun, TaskletExit, TaskletCyclic,
       TaskletCyclicReturn, TaskletPop, TaskletFree, TaskletUnchanged, FreeTxDescriptor,
       vars, memVars, clientVars
  <2> QED BY <1>1, <2>1 DEF ClientAllocated
<1> QED BY <1>3, <1>4, <1>5, <1>6, <1>7, <1>8 DEF Next, Irq

\* The interrupt that ends a transfer is enabled while the transfer runs and until
\* the interrupt is taken: a channel with one client never waits for an
\* interrupt that cannot come.
THEOREM InterruptEnabled == ASSUME OneClient PROVE Spec => []IrqNotLost
<1> DEFINE EInv == IInv /\ IrqEnabled /\ ClientAllocated
<1>1. Init => EInv
  BY InitInv DEF Init, IrqEnabled, EngActive, ClientAllocated
<1>2. EInv /\ [Next]_vars => EInv'
  BY TypeStep, OwnStep, SegsStep, IrqEnabledStep DEF IInv
<1>3. EInv => IrqNotLost
  BY DEF IrqEnabled, EngActive, IrqNotLost
<1> QED BY <1>1, <1>2, <1>3, PTL DEF Spec

-----------------------------------------------------------------------------
(* Induction.  A set that holds 0 and the successor of each of its numbers holds
   all: otherwise the intervals 1 .. k up to the numbers k it lacks have a smallest
   one.  The induction theorems of the library are about operators; this one is
   about sets, which is what the provers can instantiate. *)

\* From here on, the assumption on the constants is cited where it is needed.
HIDE ConstantsAssumption

LEMMA Induction ==
  ASSUME NEW S, 0 \in S, \A n \in Nat : n \in S => n + 1 \in S
  PROVE  Nat \subseteq S
<1> SUFFICES ASSUME NEW m \in Nat, m \notin S  PROVE FALSE
  OBVIOUS
<1> DEFINE T == {1 .. k : k \in Nat \ S}
<1>1. T \subseteq FiniteSubsetsOf(Nat)
  <2> SUFFICES ASSUME NEW k \in Nat PROVE IsFiniteSet(1 .. k) /\ 1 .. k \subseteq Nat
    BY DEF FiniteSubsetsOf
  <2> QED BY FS_Interval
<1>2. T # {}
  OBVIOUS
<1>3. PICK x \in T : \A y \in T : <<y, x>> \notin StrictSubsetOrdering(Nat)
  <2>1. IsWellFoundedOn(StrictSubsetOrdering(Nat), FiniteSubsetsOf(Nat))
    BY FS_StrictSubsetOrderingWellFounded
  <2> HIDE DEF T
  <2> QED BY <1>1, <1>2, <2>1, WFMin
<1>4. PICK k \in Nat \ S : x = 1 .. k
  OBVIOUS
<1>5. k - 1 \in Nat \ S
  OBVIOUS
<1>6. 1 .. k - 1 \in T /\ 1 .. k - 1 \subseteq 1 .. k /\ k \notin 1 .. k - 1 /\ k \in 1 .. k
  BY <1>5
<1>7. <<1 .. k - 1, 1 .. k>> \in StrictSubsetOrdering(Nat)
  <2>1. \A a, b \in SUBSET Nat : a \subseteq b /\ a # b => <<a, b>> \in StrictSubsetOrdering(Nat)
    BY DEF StrictSubsetOrdering
  <2>2. 1 .. k - 1 # 1 .. k
    BY <1>6
  <2>3. 1 .. k - 1 \in SUBSET Nat /\ 1 .. k \in SUBSET Nat
    BY <1>5
  <2> QED BY <1>6, <2>1, <2>2, <2>3, Zenon
<1> QED BY <1>3, <1>4, <1>6, <1>7

\* The same for sequences: a set that holds the empty one and what Append makes of its
\* members holds all.
LEMMA SeqInduction ==
  ASSUME NEW S, NEW T, <<>> \in T, \A q \in Seq(S), e \in S : q \in T => Append(q, e) \in T
  PROVE  Seq(S) \subseteq T
<1> DEFINE N == {n \in Nat : \A q \in Seq(S) : Len(q) = n => q \in T}
<1>1. 0 \in N
  BY EmptySeq
<1>2. ASSUME NEW n \in Nat, n \in N
      PROVE  n + 1 \in N
  <2> SUFFICES ASSUME NEW q \in Seq(S), Len(q) = n + 1 PROVE q \in T
    OBVIOUS
  <2>1. q # <<>>
    BY EmptySeq
  <2>2. PICK r \in Seq(S), e \in S : q = Append(r, e)
    BY <2>1, SequenceEmptyOrAppend
  <2>3. Len(r) = n
    BY <2>2, AppendProperties, LenProperties
  <2> QED BY <1>2, <2>2, <2>3
<1>3. Nat \subseteq N
  <2> HIDE DEF N
  <2> QED BY <1>1, <1>2, Induction
<1> QED BY <1>3, LenProperties

-----------------------------------------------------------------------------
(* FlattenSeq, the concatenation of a sequence of sequences *)

\* f is the function that FlattenSeq defines by recursion.
Flattens(f, q) == f = [i \in 1 .. Len(q) |-> IF i = 1 THEN q[i] ELSE f[i - 1] \o q[i]]

LEMMA FlattenExists ==
  ASSUME NEW S, NEW q \in Seq(Seq(S))
  PROVE  \E f : Flattens(f, q)
<1> DEFINE To(n, f) == f = [i \in 1 .. n |-> IF i = 1 THEN q[i] ELSE f[i - 1] \o q[i]]
           N == {n \in Nat : \E f : To(n, f)}
<1>1. 0 \in N
  <2>1. To(0, [i \in 1 .. 0 |-> i])
    OBVIOUS
  <2> QED BY <2>1
<1>2. ASSUME NEW n \in Nat, n \in N
      PROVE  n + 1 \in N
  <2>1. PICK f : To(n, f)
    BY <1>2
  <2> DEFINE g == [i \in 1 .. n + 1 |->
                     IF i = n + 1 THEN (IF i = 1 THEN q[i] ELSE f[n] \o q[i]) ELSE f[i]]
  <2>2. To(n + 1, g)
    <3>1. \A i \in 1 .. n : f[i] = IF i = 1 THEN q[i] ELSE f[i - 1] \o q[i]
      BY <2>1
    <3>2. \A i \in 1 .. n + 1 : g[i] = IF i = 1 THEN q[i] ELSE g[i - 1] \o q[i]
      BY <3>1
    <3> QED BY <3>2
  <2>3. \E h : To(n + 1, h)
    <3> HIDE DEF g, To
    <3> QED BY <2>2
  <2> HIDE DEF To
  <2> QED BY <2>3
<1>3. Nat \subseteq N
  <2> HIDE DEF N
  <2> QED BY <1>1, <1>2, Induction
<1>4. Len(q) \in N
  BY <1>3, LenProperties
<1> QED BY <1>4 DEF Flattens

LEMMA FlattenIs ==
  ASSUME NEW S, NEW q \in Seq(Seq(S)), q # <<>>
  PROVE  \E f : Flattens(f, q) /\ FlattenSeq(q) = f[Len(q)]
<1>1. Len(q) # 0
  BY EmptySeq
<1> DEFINE g == CHOOSE f : f = [i \in 1 .. Len(q) |-> IF i = 1 THEN q[i] ELSE f[i - 1] \o q[i]]
<1>2. FlattenSeq(q) = g[Len(q)]
  BY <1>1 DEF FlattenSeq
<1>3. Flattens(g, q)
  <2>1. \E f : f = [i \in 1 .. Len(q) |-> IF i = 1 THEN q[i] ELSE f[i - 1] \o q[i]]
    BY FlattenExists DEF Flattens
  <2> QED BY <2>1 DEF Flattens
<1> QED BY <1>2, <1>3

\* What it is for a sequence and for one that is longer agrees.
LEMMA FlattenAgrees ==
  ASSUME NEW q, NEW r, Len(q) \in Nat, Len(r) \in Nat, Len(q) <= Len(r),
         \A i \in 1 .. Len(q) : q[i] = r[i],
         NEW f, NEW g, Flattens(f, q), Flattens(g, r)
  PROVE  \A i \in 1 .. Len(q) : f[i] = g[i]
<1> DEFINE N == {n \in Nat : n \in 1 .. Len(q) => f[n] = g[n]}
<1>1. 0 \in N
  OBVIOUS
<1>2. ASSUME NEW n \in Nat, n \in N
      PROVE  n + 1 \in N
  <2> SUFFICES ASSUME n + 1 \in 1 .. Len(q) PROVE f[n + 1] = g[n + 1]
    OBVIOUS
  <2>1. n + 1 \in 1 .. Len(r)
    OBVIOUS
  <2>2. /\ f[n + 1] = IF n + 1 = 1 THEN q[n + 1] ELSE f[n] \o q[n + 1]
        /\ g[n + 1] = IF n + 1 = 1 THEN r[n + 1] ELSE g[n] \o r[n + 1]
    <3>1. PICK k \in 1 .. Len(q) : k = n + 1 /\ k - 1 = n
      OBVIOUS
    <3>2. f[k] = IF k = 1 THEN q[k] ELSE f[k - 1] \o q[k]
      BY DEF Flattens
    <3>3. g[k] = IF k = 1 THEN r[k] ELSE g[k - 1] \o r[k]
      BY <2>1, <3>1 DEF Flattens
    <3> QED BY <3>1, <3>2, <3>3
  <2>3. n + 1 # 1 => n \in 1 .. Len(q)
    OBVIOUS
  <2> QED BY <1>2, <2>2, <2>3
<1>3. Nat \subseteq N
  <2> HIDE DEF N
  <2> QED BY <1>1, <1>2, Induction
<1> QED BY <1>3

LEMMA FlattenEmpty == FlattenSeq(<<>>) = <<>>
<1>1. Len(<<>>) = 0
  BY EmptySeq
<1> QED BY <1>1 DEF FlattenSeq

LEMMA FlattenAppend ==
  ASSUME NEW S, NEW q \in Seq(Seq(S)), NEW e \in Seq(S)
  PROVE  FlattenSeq(Append(q, e)) = FlattenSeq(q) \o e
<1> DEFINE r == Append(q, e)
<1>1. /\ r \in Seq(Seq(S)) /\ r # <<>> /\ Len(r) = Len(q) + 1 /\ Len(q) \in Nat
      /\ \A i \in 1 .. Len(q) : r[i] = q[i]
      /\ r[Len(q) + 1] = e
  BY AppendProperties, LenProperties
<1> HIDE DEF r
<1>2. PICK g : Flattens(g, r) /\ FlattenSeq(r) = g[Len(r)]
  BY <1>1, FlattenIs
<1>3. g[Len(r)] = IF Len(r) = 1 THEN r[Len(r)] ELSE g[Len(q)] \o r[Len(r)]
  <2>1. Len(r) \in 1 .. Len(r) /\ Len(r) - 1 = Len(q)
    BY <1>1
  <2> QED BY <1>2, <2>1 DEF Flattens
<1>4. CASE q = <<>>
  <2>1. Len(r) = 1
    BY <1>1, <1>4, EmptySeq
  <2> QED BY <1>1, <1>2, <1>3, <1>4, <2>1, FlattenEmpty, ConcatEmptySeq DEF r
<1>5. CASE q # <<>>
  <2>1. Len(q) \in 1 .. Len(q) /\ Len(r) # 1
    BY <1>1, <1>5, EmptySeq
  <2>2. PICK f : Flattens(f, q) /\ FlattenSeq(q) = f[Len(q)]
    BY <1>5, FlattenIs
  <2>3. f[Len(q)] = g[Len(q)]
    <3>1. Len(q) <= Len(r) /\ \A i \in 1 .. Len(q) : q[i] = r[i]
      BY <1>1
    <3>2. Flattens(f, q) /\ Flattens(g, r) /\ Len(q) \in Nat /\ Len(r) \in Nat
      BY <1>1, <1>2, <2>2
    <3>3. \A i \in 1 .. Len(q) : f[i] = g[i]
      BY <3>1, <3>2, FlattenAgrees
    <3> QED BY <2>1, <3>3
  <2> QED BY <1>1, <1>2, <1>3, <2>1, <2>2, <2>3 DEF r
<1> QED BY <1>4, <1>5

LEMMA FlattenType ==
  ASSUME NEW S, NEW q \in Seq(Seq(S))
  PROVE  FlattenSeq(q) \in Seq(S)
<1> DEFINE T == {r \in Seq(Seq(S)) : FlattenSeq(r) \in Seq(S)}
<1>1. <<>> \in T
  BY EmptySeq, FlattenEmpty
<1>2. ASSUME NEW r \in Seq(Seq(S)), NEW e \in Seq(S), r \in T
      PROVE  Append(r, e) \in T
  BY <1>2, FlattenAppend, AppendProperties, ConcatProperties
<1>3. Seq(Seq(S)) \subseteq T
  <2> HIDE DEF T
  <2> QED BY <1>1, <1>2, SeqInduction
<1> QED BY <1>3

\* Concatenation is associative; Append is concatenation with one element.
LEMMA ConcatIsAssociative ==
  ASSUME NEW S
  PROVE  \A a, b, c \in Seq(S) : (a \o b) \o c = a \o (b \o c)
BY ConcatAssociative

LEMMA ConcatAppend ==
  ASSUME NEW S, NEW q \in Seq(S), NEW t \in Seq(S), NEW e \in S
  PROVE  q \o Append(t, e) = Append(q \o t, e)
<1>1. <<e>> \in Seq(S) /\ q \o t \in Seq(S)
  BY ConcatProperties
<1>2. Append(t, e) = t \o <<e>> /\ Append(q \o t, e) = (q \o t) \o <<e>>
  BY <1>1, AppendIsConcat
<1>3. (q \o t) \o <<e>> = q \o (t \o <<e>>)
  <2>1. \A c \in Seq(S) : (q \o t) \o c = q \o (t \o c)
    BY ConcatIsAssociative
  <2> QED BY <1>1, <2>1
<1> QED BY <1>2, <1>3

LEMMA FlattenConcat ==
  ASSUME NEW S, NEW q \in Seq(Seq(S)), NEW r \in Seq(Seq(S))
  PROVE  FlattenSeq(q \o r) = FlattenSeq(q) \o FlattenSeq(r)
<1> DEFINE T == {t \in Seq(Seq(S)) : FlattenSeq(q \o t) = FlattenSeq(q) \o FlattenSeq(t)}
<1>0. \A x, y, z \in Seq(S) : (x \o y) \o z = x \o (y \o z)
  BY ConcatIsAssociative, SMTT(40)
<1>1. <<>> \in T
  BY EmptySeq, FlattenEmpty, FlattenType, ConcatEmptySeq
<1>2. ASSUME NEW t \in Seq(Seq(S)), NEW e \in Seq(S), t \in T
      PROVE  Append(t, e) \in T
  <2>1. q \o Append(t, e) = Append(q \o t, e)
    BY ConcatAppend
  <2>2. FlattenSeq(Append(q \o t, e)) = FlattenSeq(q \o t) \o e
    BY FlattenAppend, ConcatProperties
  <2>3. (FlattenSeq(q) \o FlattenSeq(t)) \o e = FlattenSeq(q) \o (FlattenSeq(t) \o e)
    <3>1. FlattenSeq(q) \in Seq(S) /\ FlattenSeq(t) \in Seq(S)
      BY FlattenType
    <3>2. \A x, y \in Seq(S) : (x \o y) \o e = x \o (y \o e)
      BY <1>0
    <3> QED BY <3>1, <3>2
  <2> QED BY <1>2, <2>1, <2>2, <2>3, FlattenAppend, AppendProperties
<1>3. Seq(Seq(S)) \subseteq T
  <2> HIDE DEF T
  <2> QED BY <1>1, <1>2, SeqInduction
<1> QED BY <1>3

-----------------------------------------------------------------------------
(* The segments of a list of descriptors *)

\* Concatenation is associative, for lists of segments and of descriptors.
LEMMA SegAssoc == \A a, b, c \in Seq(Seg) : (a \o b) \o c = a \o (b \o c)
BY ConcatIsAssociative

LEMMA DescAssoc == \A a, b, c \in Seq(Desc) : (a \o b) \o c = a \o (b \o c)
BY ConcatIsAssociative

LEMMA SegAssoc4 ==
  ASSUME NEW q \in Seq(Seg), NEW b \in Seq(Seg), NEW f \in Seq(Seg), NEW a \in Seq(Seg)
  PROVE  (q \o (b \o f)) \o a = q \o (b \o (f \o a)) /\ q \o (b \o (f \o a)) \in Seq(Seg)
<1>1. b \o f \in Seq(Seg) /\ f \o a \in Seq(Seg) /\ b \o (f \o a) \in Seq(Seg)
  BY ConcatProperties
<1>2. (q \o (b \o f)) \o a = q \o ((b \o f) \o a)
  <2>1. \A z \in Seq(Seg) : (q \o z) \o a = q \o (z \o a)
    BY SegAssoc, ZenonT(30)
  <2> QED BY <1>1, <2>1
<1>3. (b \o f) \o a = b \o (f \o a)
  BY SegAssoc, ZenonT(30)
<1>4. q \o (b \o (f \o a)) \in Seq(Seg)
  BY <1>1, ConcatProperties
<1> QED BY <1>2, <1>3, <1>4

SegLists(l) == [i \in DOMAIN l |-> desc[l[i]].segs]

LEMMA SegListsType ==
  ASSUME DescOK, NEW l \in Seq(Desc)
  PROVE  /\ SegLists(l) \in Seq(Seq(Seg)) /\ Len(SegLists(l)) = Len(l)
         /\ SegsOf(l) = FlattenSeq(SegLists(l)) /\ SegsOf(l) \in Seq(Seg)
<1>1. Len(l) \in Nat /\ DOMAIN l = 1 .. Len(l) /\ \A i \in 1 .. Len(l) : l[i] \in Desc
  BY LenProperties, ElementOfSeq
<1>2. \A i \in 1 .. Len(l) : desc[l[i]].segs \in Seq(Seg)
  BY <1>1 DEF DescOK
<1>3. [i \in 1 .. Len(l) |-> desc[l[i]].segs] \in Seq(Seq(Seg))
  BY <1>1, <1>2, IsASeq
<1>4. SegLists(l) = [i \in 1 .. Len(l) |-> desc[l[i]].segs]
  BY <1>1 DEF SegLists
<1>5. Len(SegLists(l)) = Len(l)
  BY <1>1, <1>3, <1>4, LenProperties
<1>6. SegsOf(l) = FlattenSeq(SegLists(l))
  BY DEF SegsOf, SegLists
<1> QED BY <1>3, <1>4, <1>5, <1>6, FlattenType

LEMMA SegsOfEmpty == SegsOf(<<>>) = <<>>
<1>1. SegLists(<<>>) = <<>>
  BY EmptySeq DEF SegLists
<1> QED BY <1>1, FlattenEmpty DEF SegsOf, SegLists

LEMMA SegsOfConcat ==
  ASSUME DescOK, NEW l \in Seq(Desc), NEW m \in Seq(Desc)
  PROVE  SegsOf(l \o m) = SegsOf(l) \o SegsOf(m)
<1>1. /\ l \o m \in Seq(Desc) /\ Len(l \o m) = Len(l) + Len(m)
      /\ \A i \in 1 .. Len(l) + Len(m) : (l \o m)[i] = IF i <= Len(l) THEN l[i] ELSE m[i - Len(l)]
  BY ConcatProperties
<1>2. /\ Len(l) \in Nat /\ Len(m) \in Nat /\ DOMAIN l = 1 .. Len(l) /\ DOMAIN m = 1 .. Len(m)
      /\ DOMAIN (l \o m) = 1 .. Len(l) + Len(m)
  BY <1>1, LenProperties
<1>3. /\ SegLists(l) \in Seq(Seq(Seg)) /\ SegLists(m) \in Seq(Seq(Seg))
      /\ Len(SegLists(l)) = Len(l) /\ Len(SegLists(m)) = Len(m)
      /\ SegLists(l \o m) \in Seq(Seq(Seg)) /\ Len(SegLists(l \o m)) = Len(l) + Len(m)
  BY <1>1, SegListsType
<1> DEFINE x == SegLists(l) \o SegLists(m)
<1>4. /\ x \in Seq(Seq(Seg)) /\ Len(x) = Len(l) + Len(m)
      /\ \A i \in 1 .. Len(l) + Len(m) :
           x[i] = IF i <= Len(l) THEN SegLists(l)[i] ELSE SegLists(m)[i - Len(l)]
  <2>1. ASSUME NEW u \in Seq(Seq(Seg)), NEW v \in Seq(Seq(Seg))
        PROVE  /\ u \o v \in Seq(Seq(Seg)) /\ Len(u \o v) = Len(u) + Len(v)
               /\ \A i \in 1 .. Len(u) + Len(v) :
                    (u \o v)[i] = IF i <= Len(u) THEN u[i] ELSE v[i - Len(u)]
    BY ConcatProperties
  <2>2. PICK u \in Seq(Seq(Seg)), v \in Seq(Seq(Seg)) : u = SegLists(l) /\ v = SegLists(m)
    BY <1>3
  <2>3. Len(u) = Len(l) /\ Len(v) = Len(m) /\ x = u \o v
    BY <1>3, <2>2
  <2>4. /\ x \in Seq(Seq(Seg)) /\ Len(x) = Len(l) + Len(m)
        /\ \A i \in 1 .. Len(l) + Len(m) : x[i] = IF i <= Len(l) THEN u[i] ELSE v[i - Len(l)]
    <3>1. /\ u \o v \in Seq(Seq(Seg)) /\ Len(u \o v) = Len(u) + Len(v)
          /\ \A i \in 1 .. Len(u) + Len(v) : (u \o v)[i] = IF i <= Len(u) THEN u[i] ELSE v[i - Len(u)]
      BY <2>1
    <3> HIDE DEF x
    <3>2. /\ x \in Seq(Seq(Seg)) /\ Len(x) = Len(u) + Len(v)
          /\ \A i \in 1 .. Len(u) + Len(v) : x[i] = IF i <= Len(u) THEN u[i] ELSE v[i - Len(u)]
      BY <2>3, <3>1, Zenon
    <3> QED BY <2>3, <3>2, Zenon
  <2> HIDE DEF x
  <2> QED BY <2>2, <2>4
<1>5. \A i \in 1 .. Len(l) + Len(m) : SegLists(l \o m)[i] = x[i]
  <2> HIDE DEF x
  <2> TAKE i \in 1 .. Len(l) + Len(m)
  <2>1. SegLists(l \o m)[i] = desc[(l \o m)[i]].segs
    BY <1>2 DEF SegLists
  <2>2. CASE i <= Len(l)
    <3>1. i \in 1 .. Len(l)
      BY <1>2, <2>2
    <3>2. SegLists(l)[i] = desc[l[i]].segs
      BY <1>2, <3>1 DEF SegLists
    <3> QED BY <1>1, <1>4, <2>1, <2>2, <3>2
  <2>3. CASE ~(i <= Len(l))
    <3>1. i - Len(l) \in 1 .. Len(m)
      BY <1>2, <2>3
    <3>2. SegLists(m)[i - Len(l)] = desc[m[i - Len(l)]].segs
      BY <1>2, <3>1 DEF SegLists
    <3> QED BY <1>1, <1>4, <2>1, <2>3, <3>2
  <2> QED BY <2>2, <2>3
<1>6. SegLists(l \o m) = x
  <2> HIDE DEF x
  <2> QED BY <1>3, <1>4, <1>5, SeqEqual
<1>7. FlattenSeq(x) = FlattenSeq(SegLists(l)) \o FlattenSeq(SegLists(m))
  BY <1>3, FlattenConcat
<1> HIDE DEF x
<1> QED BY <1>1, <1>6, <1>7, SegListsType

LEMMA SegsOfOne ==
  ASSUME DescOK, NEW d \in Desc
  PROVE  SegsOf(<<d>>) = desc[d].segs
<1>1. SegLists(<<d>>) = <<desc[d].segs>>
  BY DEF SegLists
<1>2. desc[d].segs \in Seq(Seg)
  BY DEF DescOK
<1>3. <<desc[d].segs>> = Append(<<>>, desc[d].segs)
  OBVIOUS
<1>4. FlattenSeq(Append(<<>>, desc[d].segs)) = FlattenSeq(<<>>) \o desc[d].segs
  BY <1>2, FlattenAppend, EmptySeq
<1>5. SegsOf(<<d>>) = FlattenSeq(SegLists(<<d>>))
  BY DEF SegsOf, SegLists
<1> QED BY <1>1, <1>2, <1>3, <1>4, <1>5, FlattenEmpty, ConcatEmptySeq

LEMMA SegsOfAppend ==
  ASSUME DescOK, NEW l \in Seq(Desc), NEW d \in Desc
  PROVE  SegsOf(Append(l, d)) = SegsOf(l) \o desc[d].segs
<1>1. <<d>> \in Seq(Desc) /\ Append(l, d) = l \o <<d>>
  BY AppendIsConcat
<1> QED BY <1>1, SegsOfConcat, SegsOfOne

LEMMA SegsOfHead ==
  ASSUME DescOK, NEW l \in Seq(Desc), l # <<>>
  PROVE  SegsOf(l) = desc[Head(l)].segs \o SegsOf(Tail(l))
<1>1. /\ Head(l) \in Desc /\ Tail(l) \in Seq(Desc) /\ <<Head(l)>> \in Seq(Desc)
      /\ l = <<Head(l)>> \o Tail(l)
  BY HeadTailProperties
<1>2. SegsOf(<<Head(l)>> \o Tail(l)) = SegsOf(<<Head(l)>>) \o SegsOf(Tail(l))
  BY <1>1, SegsOfConcat
<1> QED BY <1>1, <1>2, SegsOfOne

\* Descriptors that keep their segments do.
LEMMA SegsOfSame ==
  ASSUME NEW l \in Seq(Desc), \A d \in Range(l) : desc'[d].segs = desc[d].segs
  PROVE  SegsOf(l)' = SegsOf(l)
<1>1. [i \in DOMAIN l |-> desc'[l[i]].segs] = [i \in DOMAIN l |-> desc[l[i]].segs]
  BY DEF Range
<1> QED BY <1>1 DEF SegsOf

-----------------------------------------------------------------------------
(* The ring *)

\* The successor in the ring, as chan_probe or alloc_chan_resources links it.
Following(s) == (s + 1) % NumDescs
Run(q) == \A i \in 1 .. Len(q) - 1 : q[i + 1] = Following(q[i])
Ring(q) == Run(q) /\ (q # <<>> => q[1] = Following(q[Len(q)]))

LEMMA RunConcat ==
  ASSUME NEW a \in Seq(Seg), NEW b \in Seq(Seg), Run(a \o b)
  PROVE  /\ Run(a) /\ Run(b)
         /\ a # <<>> /\ b # <<>> => b[1] = Following(a[Len(a)])
<1>1. /\ Len(a \o b) = Len(a) + Len(b) /\ Len(a) \in Nat /\ Len(b) \in Nat
      /\ \A i \in 1 .. Len(a) + Len(b) : (a \o b)[i] = IF i <= Len(a) THEN a[i] ELSE b[i - Len(a)]
  BY ConcatProperties, LenProperties
<1>2. \A i \in 1 .. Len(a) + Len(b) - 1 : (a \o b)[i + 1] = Following((a \o b)[i])
  BY <1>1 DEF Run
<1>3. ASSUME NEW i \in 1 .. Len(a) - 1
      PROVE  a[i + 1] = Following(a[i])
  <2>1. i \in 1 .. Len(a) + Len(b) - 1 /\ i + 1 \in 1 .. Len(a) /\ i \in 1 .. Len(a)
    BY <1>1
  <2>2. (a \o b)[i + 1] = a[i + 1] /\ (a \o b)[i] = a[i]
    BY <1>1, <2>1
  <2> QED BY <1>2, <2>1, <2>2
<1>4. ASSUME NEW i \in 1 .. Len(b) - 1
      PROVE  b[i + 1] = Following(b[i])
  <2>1. PICK k \in 1 .. Len(a) + Len(b) - 1 : k = Len(a) + i /\ k > Len(a) /\ k - Len(a) = i
                                               /\ (k + 1) - Len(a) = i + 1
    BY <1>1
  <2>2. (a \o b)[k + 1] = b[i + 1] /\ (a \o b)[k] = b[i]
    BY <1>1, <2>1
  <2> QED BY <1>2, <2>1, <2>2
<1>5. ASSUME a # <<>>, b # <<>>
      PROVE  b[1] = Following(a[Len(a)])
  <2>1. Len(a) > 0 /\ Len(b) > 0
    BY <1>1, <1>5, EmptySeq
  <2>2. PICK k \in 1 .. Len(a) + Len(b) - 1 : k = Len(a) /\ (k + 1) - Len(a) = 1
    BY <1>1, <2>1
  <2>3. (a \o b)[k + 1] = b[1] /\ (a \o b)[k] = a[Len(a)]
    BY <1>1, <2>1, <2>2
  <2> QED BY <1>2, <2>2, <2>3
<1> QED BY <1>3, <1>4, <1>5 DEF Run

\* A ring may be cut anywhere.
LEMMA RingRotate ==
  ASSUME NEW a \in Seq(Seg), NEW b \in Seq(Seg), Ring(a \o b)
  PROVE  Ring(b \o a)
<1>1. CASE a = <<>>
  BY <1>1, ConcatEmptySeq
<1>2. CASE b = <<>>
  BY <1>2, ConcatEmptySeq
<1>3. CASE a # <<>> /\ b # <<>>
  <2>1. /\ Len(a) \in Nat \ {0} /\ Len(b) \in Nat \ {0}
        /\ Len(a \o b) = Len(a) + Len(b) /\ Len(b \o a) = Len(a) + Len(b)
    BY <1>3, EmptySeq, ConcatProperties
  <2>2. \A i \in 1 .. Len(a) + Len(b) : (a \o b)[i] = IF i <= Len(a) THEN a[i] ELSE b[i - Len(a)]
    BY ConcatProperties
  <2>3. \A i \in 1 .. Len(b) + Len(a) : (b \o a)[i] = IF i <= Len(b) THEN b[i] ELSE a[i - Len(b)]
    BY ConcatProperties
  <2>4. /\ Run(a) /\ Run(b) /\ b[1] = Following(a[Len(a)])
    BY <1>3, RunConcat DEF Ring
  <2>5. a[1] = Following(b[Len(b)])
    <3>1. (a \o b)[1] = a[1] /\ (a \o b)[Len(a) + Len(b)] = b[Len(b)]
      BY <2>1, <2>2
    <3>2. a \o b # <<>>
      BY <1>3, ConcatEqualIffEmpty
    <3> QED BY <2>1, <3>1, <3>2 DEF Ring
  <2>6. ASSUME NEW i \in 1 .. Len(a) + Len(b) - 1
        PROVE  (b \o a)[i + 1] = Following((b \o a)[i])
    <3>1. CASE i < Len(b)
      <4>1. i \in 1 .. Len(b) - 1 /\ i + 1 <= Len(b) /\ i <= Len(b)
        BY <2>1, <3>1
      <4> QED BY <2>1, <2>3, <2>4, <4>1 DEF Run
    <3>2. CASE i = Len(b)
      <4>1. (b \o a)[i + 1] = a[1] /\ (b \o a)[i] = b[Len(b)]
        BY <2>1, <2>3, <3>2
      <4> QED BY <2>5, <4>1
    <3>3. CASE i > Len(b)
      <4>0. PICK m \in Nat, n \in Nat : m = Len(a) /\ n = Len(b)
        BY <2>1
      <4>1. PICK k \in 1 .. Len(a) - 1 : k = i - Len(b) /\ k + 1 = (i + 1) - Len(b)
        <5>1. i - n \in 1 .. m - 1 /\ (i - n) + 1 = (i + 1) - n
          BY <3>3, <4>0
        <5> QED BY <4>0, <5>1
      <4>2. (b \o a)[i + 1] = a[k + 1] /\ (b \o a)[i] = a[k]
        BY <2>1, <2>3, <3>3, <4>1
      <4> QED BY <2>4, <4>1, <4>2 DEF Run
    <3> QED BY <2>1, <3>1, <3>2, <3>3
  <2>7. (b \o a)[1] = b[1] /\ (b \o a)[Len(a) + Len(b)] = a[Len(a)]
    BY <2>1, <2>3
  <2> QED BY <2>1, <2>4, <2>6, <2>7 DEF Ring, Run
<1> QED BY <1>1, <1>2, <1>3

-----------------------------------------------------------------------------
(* The order in which segments are reused *)

\* The queue of a channel, and all segments in the order in which they will be on
\* the free list again: those of the tasklet's descriptor, of the queue, of the
\* descriptor that the client prepares, and the free ones.
InFlight == done_list \o active_list \o pending_list
TaskletSegs == IF tasklet.desc = NoDesc THEN <<>> ELSE desc[tasklet.desc].segs
HandSegs(c) == IF pc[c] \in Preparing THEN desc[hand[c]].segs ELSE <<>>
PoolOrder(c) == TaskletSegs \o (SegsOf(InFlight) \o (HandSegs(c) \o free_seg_list))

LEMMA PartsType ==
  ASSUME IInv, NEW c \in Client
  PROVE  /\ InFlight \in Seq(Desc) /\ Range(InFlight) = Queued
         /\ SegsOf(InFlight) \in Seq(Seg) /\ TaskletSegs \in Seq(Seg)
         /\ HandSegs(c) \in Seq(Seg) /\ free_seg_list \in Seq(Seg)
<1> USE DEF IInv
<1>1. /\ done_list \in Seq(Desc) /\ active_list \in Seq(Desc) /\ pending_list \in Seq(Desc)
      /\ free_seg_list \in Seq(Seg) /\ \A d \in Desc : desc[d].segs \in Seq(Seg)
  BY DEF TypeOK, ListsOK, MemOK, DescOK
<1>2. /\ done_list \o active_list \in Seq(Desc)
      /\ Range(done_list \o active_list) = Range(done_list) \cup Range(active_list)
  BY <1>1, ConcatList, ConcatProperties
<1>3. /\ InFlight \in Seq(Desc)
      /\ Range(InFlight) = Range(done_list \o active_list) \cup Range(pending_list)
  <2>1. PICK a \in Seq(Desc) : a = done_list \o active_list
    BY <1>2
  <2>2. /\ a \o pending_list \in Seq(Desc)
        /\ Range(a \o pending_list) = Range(a) \cup Range(pending_list)
    BY <1>1, ConcatList, ConcatProperties
  <2> QED BY <2>1, <2>2 DEF InFlight
<1>4. Range(InFlight) = Queued
  BY <1>2, <1>3 DEF Queued
<1>5. SegsOf(InFlight) \in Seq(Seg)
  BY <1>3, SegListsType DEF TypeOK
<1>6. TaskletSegs \in Seq(Seg)
  BY <1>1, EmptySeq DEF TaskletSegs, TypeOK, HandlersOK
<1>7. HandSegs(c) \in Seq(Seg)
  BY <1>1, HandInDesc, EmptySeq DEF HandSegs
<1> QED BY <1>1, <1>3, <1>4, <1>5, <1>6, <1>7

\* Neither start_transfer nor the handler changes the order of the queue.
LEMMA InFlightKept ==
  ASSUME IInv, QueueSame \/ AllocChanResources \/ Starting \/ IrqComplete
  PROVE  InFlight' = InFlight
<1>0. done_list \in Seq(Desc) /\ active_list \in Seq(Desc) /\ pending_list \in Seq(Desc)
  BY DEF IInv, TypeOK, ListsOK
<1>1. CASE QueueSame \/ AllocChanResources
  BY <1>1 DEF QueueSame, AllocChanResources, listVars, InFlight
<1>2. CASE Starting
  <2>1. CASE UNCHANGED <<pending_list, active_list>>
    BY <1>2, <2>1 DEF Starting, InFlight
  <2>2. CASE active_list' = active_list \o pending_list /\ pending_list' = <<>>
    <3>1. InFlight' = (done_list \o (active_list \o pending_list)) \o <<>>
      BY <1>2, <2>2 DEF Starting, InFlight
    <3>2. done_list \o (active_list \o pending_list) \in Seq(Desc)
      BY <1>0, ConcatProperties
    <3>3. InFlight' = done_list \o (active_list \o pending_list)
      BY <3>1, <3>2, ConcatEmptySeq
    <3> QED BY <1>0, <3>3, DescAssoc DEF InFlight
  <2> QED BY <1>2, <2>1, <2>2 DEF Starting, StartTransfer
<1>3. CASE IrqComplete
  <2>1. /\ active_list # <<>> /\ active_list' = Tail(active_list)
        /\ done_list' = Append(done_list, Head(active_list))
        /\ pending_list' = pending_list
    BY <1>3 DEF IrqComplete
  <2>2. /\ Head(active_list) \in Desc /\ Tail(active_list) \in Seq(Desc)
        /\ <<Head(active_list)>> \in Seq(Desc)
        /\ active_list = <<Head(active_list)>> \o Tail(active_list)
    BY <1>0, <2>1, HeadTailProperties
  <2>3. done_list' = done_list \o <<Head(active_list)>>
    BY <1>0, <2>1, <2>2, AppendIsConcat
  <2>4. done_list' \o active_list' = done_list \o active_list
    <3>1. \A x, y \in Seq(Desc) : (done_list \o x) \o y = done_list \o (x \o y)
      BY <1>0, DescAssoc
    <3>2. (done_list \o <<Head(active_list)>>) \o Tail(active_list)
            = done_list \o (<<Head(active_list)>> \o Tail(active_list))
      BY <2>2, <3>1
    <3> QED BY <2>1, <2>2, <2>3, <3>2
  <2> QED BY <2>1, <2>4 DEF InFlight
<1> QED BY <1>1, <1>2, <1>3

\* Submission puts a descriptor behind the others, the tasklet takes the first one.
LEMMA InFlightSubmit ==
  ASSUME IInv, NEW c \in Client, SubmitAppend(c)
  PROVE  InFlight' = Append(InFlight, hand[c])
<1>0. /\ done_list \in Seq(Desc) /\ active_list \in Seq(Desc) /\ pending_list \in Seq(Desc)
      /\ hand[c] \in Desc
  BY HandInDesc DEF IInv, TypeOK, ListsOK, SubmitAppend, Preparing
<1>1. /\ pending_list' = Append(pending_list, hand[c])
      /\ UNCHANGED <<active_list, done_list>>
  BY DEF SubmitAppend
<1>2. /\ done_list \o active_list \in Seq(Desc) /\ <<hand[c]>> \in Seq(Desc)
      /\ InFlight \in Seq(Desc)
  BY <1>0, ConcatProperties DEF InFlight
<1>3. pending_list' = pending_list \o <<hand[c]>> /\ Append(InFlight, hand[c]) = InFlight \o <<hand[c]>>
  BY <1>0, <1>1, <1>2, AppendIsConcat
<1>4. (done_list \o active_list) \o (pending_list \o <<hand[c]>>)
        = ((done_list \o active_list) \o pending_list) \o <<hand[c]>>
  BY <1>0, <1>2, DescAssoc
<1> QED BY <1>1, <1>3, <1>4 DEF InFlight

LEMMA InFlightPop ==
  ASSUME IInv, TaskletPop
  PROVE  /\ InFlight' \in Seq(Desc) /\ Head(done_list) \in Desc
         /\ InFlight = <<Head(done_list)>> \o InFlight'
<1>0. done_list \in Seq(Desc) /\ active_list \in Seq(Desc) /\ pending_list \in Seq(Desc)
  BY DEF IInv, TypeOK, ListsOK
<1>1. /\ done_list # <<>> /\ done_list' = Tail(done_list)
      /\ UNCHANGED <<pending_list, active_list>>
  BY DEF TaskletPop, TaskletUnchanged
<1>2. PICK x \in Seq(Desc), t \in Seq(Desc) :
        /\ x = <<Head(done_list)>> /\ t = Tail(done_list) /\ Head(done_list) \in Desc
        /\ done_list = x \o t
  <2>1. /\ Head(done_list) \in Desc /\ Tail(done_list) \in Seq(Desc)
        /\ <<Head(done_list)>> \in Seq(Desc)
        /\ done_list = <<Head(done_list)>> \o Tail(done_list)
    BY <1>0, <1>1, HeadTailProperties
  <2> QED BY <2>1
<1>3. /\ t \o active_list \in Seq(Desc)
      /\ (t \o active_list) \o pending_list \in Seq(Desc)
  BY <1>0, ConcatProperties
<1>4. (x \o t) \o active_list = x \o (t \o active_list)
  BY <1>0, <1>2, DescAssoc
<1>5. (x \o (t \o active_list)) \o pending_list = x \o ((t \o active_list) \o pending_list)
  BY <1>0, <1>2, <1>3, DescAssoc
<1>6. InFlight' = (t \o active_list) \o pending_list
  BY <1>1, <1>2 DEF InFlight
<1> QED BY <1>2, <1>3, <1>4, <1>5, <1>6 DEF InFlight

\* PoolOrder is a ring in the order of the pool, and next_desc of each segment leads to
\* the next one of it.
RingInv(c) ==
  /\ Ring(PoolOrder(c))
  /\ \A s \in Seg : bd[s].next = Following(s)
  /\ \A d \in Desc \ live : desc[d].segs = <<>>
  /\ pc[c] # "prep_error" /\ ~chan.cyclic

\* What is known of the channel already.
ChainBase == QInv /\ PlacedInv /\ SegsApart /\ SegsAccounted

\* A client that prepares finds a segment.
PoolSuffices ==
  \A c \in Client : pc[c] \in PrepCalls /\ need[c] > 0 => free_seg_list # <<>>

\* Descriptors that are queued or with the tasklet keep their segments, and so does the
\* one in hand: the order of the pool is the same.
LEMMA OrderSame ==
  ASSUME IInv, NEW c \in Client, InFlight' = InFlight,
         \A d \in Desc : desc'[d].segs = desc[d].segs,
         free_seg_list' = free_seg_list, tasklet'.desc = tasklet.desc,
         HandSegs(c)' = HandSegs(c)
  PROVE  PoolOrder(c)' = PoolOrder(c)
<1>1. TaskletSegs' = TaskletSegs
  BY DEF TaskletSegs, IInv, TypeOK, HandlersOK
<1>2. PICK l \in Seq(Desc) : l = InFlight
  BY PartsType
<1>3. \A i \in DOMAIN l : desc'[l[i]].segs = desc[l[i]].segs
  BY ElementOfSeq, LenProperties
<1>4. [i \in DOMAIN l |-> desc'[l[i]].segs] = [i \in DOMAIN l |-> desc[l[i]].segs]
  BY <1>3
<1>5. SegsOf(InFlight)' = SegsOf(InFlight)
  BY <1>2, <1>4 DEF SegsOf
<1> QED BY <1>1, <1>5 DEF PoolOrder

\* Taking a segment moves it from the free list to the descriptor in hand.
LEMMA OrderTaken ==
  ASSUME IInv, NEW c \in Client, PrepAlloc(c)
  PROVE  PoolOrder(c)' = PoolOrder(c)
<1> USE DEF IInv
<1>1. PICK h \in Desc : h = hand[c] /\ h \notin Queued /\ h # tasklet.desc
  BY HandInDesc DEF PrepAlloc, Preparing, Own, OneOwner
<1>2. PICK s \in Seg, f \in Seq(Seg), x \in Seq(Seg) :
        /\ s = Head(free_seg_list) /\ f = Tail(free_seg_list) /\ x = <<s>>
        /\ free_seg_list = x \o f
  <2>1. free_seg_list \in Seq(Seg) /\ free_seg_list # <<>>
    BY DEF PrepAlloc, TypeOK, MemOK
  <2>2. /\ Head(free_seg_list) \in Seg /\ Tail(free_seg_list) \in Seq(Seg)
        /\ <<Head(free_seg_list)>> \in Seq(Seg)
        /\ free_seg_list = <<Head(free_seg_list)>> \o Tail(free_seg_list)
    BY <2>1, HeadTailProperties
  <2> QED BY <2>2
<1>3. PICK q \in Seq(Seg) : q = desc[h].segs
  BY DEF TypeOK, DescOK
<1>4. /\ free_seg_list' = f /\ pc' = pc /\ hand' = hand /\ tasklet' = tasklet
      /\ desc'[h].segs = Append(q, s)
      /\ \A e \in Desc \ {h} : desc'[e].segs = desc[e].segs
  BY <1>1, <1>2, <1>3 DEF PrepAlloc, TypeOK, DescOK
<1>5. HandSegs(c) = q /\ HandSegs(c)' = q \o x
  <2>1. Append(q, s) = q \o x
    BY <1>2, <1>3, AppendIsConcat
  <2>2. pc[c] \in Preparing
    BY DEF PrepAlloc, Preparing
  <2> QED BY <1>1, <1>3, <1>4, <2>1, <2>2 DEF HandSegs
<1>6. HandSegs(c)' \o free_seg_list' = HandSegs(c) \o free_seg_list
  BY <1>2, <1>4, <1>5, SegAssoc
<1>7. TaskletSegs' = TaskletSegs
  BY <1>1, <1>4 DEF TaskletSegs, TypeOK, HandlersOK
<1>8. InFlight' = InFlight
  BY InFlightKept DEF PrepAlloc, QueueSame
<1>9. PICK l \in Seq(Desc) : l = InFlight /\ Range(l) = Queued
  BY PartsType
<1>10. \A i \in DOMAIN l : desc'[l[i]].segs = desc[l[i]].segs
  <2>1. \A i \in DOMAIN l : l[i] \in Desc /\ l[i] \in Range(l)
    BY ElementOfSeq, LenProperties DEF Range
  <2> QED BY <1>1, <1>4, <1>9, <2>1
<1>11. SegsOf(InFlight)' = SegsOf(InFlight)
  BY <1>8, <1>9, <1>10 DEF SegsOf
<1> QED BY <1>6, <1>7, <1>11 DEF PoolOrder

\* Submission moves the segments in hand to the end of the queue.
LEMMA OrderSubmitted ==
  ASSUME IInv, NEW c \in Client, SubmitAppend(c)
  PROVE  PoolOrder(c)' = PoolOrder(c)
<1> USE DEF IInv
<1>1. PICK h \in Desc : h = hand[c]
  BY HandInDesc DEF SubmitAppend, Preparing
<1>2. PICK l \in Seq(Desc) : l = InFlight
  BY PartsType
<1>3. /\ free_seg_list' = free_seg_list /\ tasklet' = tasklet
      /\ pc[c] \in Preparing /\ pc'[c] \notin Preparing
      /\ \A e \in Desc : desc'[e].segs = desc[e].segs
  <2>1. desc' = [desc EXCEPT ![h].cookie = cookie + 1]
    BY <1>1 DEF SubmitAppend
  <2>2. \A e \in Desc : desc'[e].segs = desc[e].segs
    BY <2>1 DEF TypeOK, DescOK
  <2> QED BY <2>2 DEF SubmitAppend, Goto, Preparing, PrepCalls, TypeOK, ClientsOK
<1>4. HandSegs(c) = desc[h].segs /\ HandSegs(c)' = <<>>
  BY <1>1, <1>3 DEF HandSegs
<1>5. TaskletSegs' = TaskletSegs
  BY <1>3 DEF TaskletSegs, TypeOK, HandlersOK
<1>6. InFlight' = Append(l, h)
  BY <1>1, <1>2, InFlightSubmit
<1>7. SegsOf(InFlight)' = SegsOf(Append(l, h))
  <2>1. PICK m \in Seq(Desc) : m = Append(l, h)
    BY AppendProperties
  <2>2. \A i \in DOMAIN m : desc'[m[i]].segs = desc[m[i]].segs
    BY <1>3, ElementOfSeq, LenProperties
  <2>3. [i \in DOMAIN m |-> desc'[m[i]].segs] = [i \in DOMAIN m |-> desc[m[i]].segs]
    BY <2>2
  <2> QED BY <1>6, <2>1, <2>3 DEF SegsOf
<1>8. SegsOf(Append(l, h)) = SegsOf(l) \o desc[h].segs
  BY SegsOfAppend DEF TypeOK
<1>9. SegsOf(InFlight)' = SegsOf(InFlight) \o HandSegs(c)
  BY <1>2, <1>4, <1>7, <1>8
<1>10. /\ SegsOf(InFlight) \in Seq(Seg) /\ HandSegs(c) \in Seq(Seg)
       /\ free_seg_list \in Seq(Seg)
  BY PartsType
<1>11. HandSegs(c)' \o free_seg_list' = free_seg_list
  BY <1>3, <1>4, <1>10, ConcatEmptySeq
<1>12. (SegsOf(InFlight) \o HandSegs(c)) \o free_seg_list
         = SegsOf(InFlight) \o (HandSegs(c) \o free_seg_list)
  BY <1>10, SegAssoc
<1> QED BY <1>5, <1>9, <1>11, <1>12 DEF PoolOrder

\* The tasklet takes the first segments of the queue with it,
LEMMA OrderPopped ==
  ASSUME IInv, PlacedInv, NEW c \in Client, TaskletPop
  PROVE  PoolOrder(c)' = PoolOrder(c)
<1> USE DEF IInv
<1>1. PICK h \in Desc, l \in Seq(Desc) :
        h = Head(done_list) /\ l = InFlight' /\ InFlight = <<h>> \o l
  BY InFlightPop
<1>2. /\ tasklet.desc = NoDesc /\ tasklet'.desc = h
      /\ UNCHANGED <<desc, free_seg_list, pc, hand>>
  BY <1>1 DEF TaskletPop, TaskletUnchanged, PlacedInv, descVars, memVars, clientVars, TypeOK,
     HandlersOK
<1>3. TaskletSegs = <<>> /\ TaskletSegs' = desc[h].segs
  BY <1>1, <1>2, ConstantsAssumption DEF TaskletSegs
<1>4. SegsOf(InFlight)' = SegsOf(l)
  BY <1>1, <1>2 DEF SegsOf
<1>5. SegsOf(InFlight) = desc[h].segs \o SegsOf(l)
  <2>1. <<h>> \in Seq(Desc)
    OBVIOUS
  <2>2. SegsOf(<<h>> \o l) = SegsOf(<<h>>) \o SegsOf(l) /\ SegsOf(<<h>>) = desc[h].segs
    BY <2>1, SegsOfConcat, SegsOfOne DEF TypeOK
  <2> QED BY <1>1, <2>2
<1>6. PICK x \in Seq(Seg), y \in Seq(Seg), z \in Seq(Seg) :
        x = desc[h].segs /\ y = SegsOf(l) /\ z = HandSegs(c) \o free_seg_list
  <2>1. HandSegs(c) \o free_seg_list \in Seq(Seg)
    BY PartsType, ConcatProperties
  <2> QED BY <2>1, SegListsType DEF TypeOK, DescOK
<1>7. HandSegs(c)' \o free_seg_list' = z
  BY <1>2, <1>6 DEF HandSegs
<1>8. (x \o y) \o z = x \o (y \o z) /\ (x \o y) \o z \in Seq(Seg)
  BY SegAssoc, ConcatProperties
<1>9. PoolOrder(c) = (x \o y) \o z
  BY <1>3, <1>5, <1>6, <1>8, ConcatEmptySeq DEF PoolOrder
<1> QED BY <1>3, <1>4, <1>6, <1>7, <1>8, <1>9 DEF PoolOrder

\* and gives them back behind the last of the free ones, which turns the ring.
LEMMA OrderFreed ==
  ASSUME IInv, NEW c \in Client, TaskletFree, Ring(PoolOrder(c))
  PROVE  Ring(PoolOrder(c)')
<1> USE DEF IInv
<1>1. PICK h \in Desc : h = tasklet.desc /\ h \notin Queued
  BY DEF TaskletFree, TypeOK, ListsOK, Own, OneOwner
<1>2. PICK a \in Seq(Seg), q \in Seq(Seg), b \in Seq(Seg), f \in Seq(Seg) :
        /\ a = desc[h].segs /\ q = SegsOf(InFlight) /\ b = HandSegs(c) /\ f = free_seg_list
  BY PartsType DEF TypeOK, DescOK
<1>3. /\ free_seg_list' = f \o a /\ tasklet'.desc = NoDesc
      /\ \A e \in Desc \ {h} : desc'[e].segs = desc[e].segs
      /\ pc' = pc /\ hand' = hand
  BY <1>1, <1>2 DEF TaskletFree, FreeTxDescriptor, TaskletUnchanged, clientVars, TypeOK,
     HandlersOK, DescOK
<1>4. TaskletSegs = a /\ TaskletSegs' = <<>>
  BY <1>1, <1>2, <1>3, ConstantsAssumption DEF TaskletSegs
<1>5. HandSegs(c)' = b
  BY <1>1, <1>2, <1>3, HandInDesc DEF HandSegs, Own, OneOwner
<1>6. InFlight' = InFlight
  BY InFlightKept DEF TaskletFree, TaskletUnchanged, QueueSame, listVars, cookieVars
<1>7. PICK l \in Seq(Desc) : l = InFlight /\ Range(l) = Queued
  BY PartsType
<1>8. \A i \in DOMAIN l : desc'[l[i]].segs = desc[l[i]].segs
  <2>1. \A i \in DOMAIN l : l[i] \in Desc /\ l[i] \in Range(l)
    BY ElementOfSeq, LenProperties DEF Range
  <2> QED BY <1>1, <1>3, <1>7, <2>1
<1>9. SegsOf(InFlight)' = q
  BY <1>2, <1>6, <1>7, <1>8 DEF SegsOf
<1>10. PICK r \in Seq(Seg) : r = q \o (b \o f)
  BY ConcatProperties
<1>11. Ring(a \o r)
  BY <1>2, <1>4, <1>10 DEF PoolOrder
<1>12. Ring(r \o a)
  BY <1>11, RingRotate
<1>13. (q \o (b \o f)) \o a = q \o (b \o (f \o a)) /\ q \o (b \o (f \o a)) \in Seq(Seg)
  BY SegAssoc4
<1>14. PoolOrder(c)' = r \o a
  BY <1>3, <1>4, <1>5, <1>9, <1>10, <1>13, ConcatEmptySeq DEF PoolOrder
<1> QED BY <1>12, <1>14

\* A new pool is a ring.
LEMMA OrderMade ==
  ASSUME IInv, SlaveInv, SegsAccounted, NEW c \in Client, AllocChanResources
  PROVE  Ring(PoolOrder(c)')
<1> USE DEF IInv
<1>1. /\ ~pool /\ desc' = desc /\ tasklet' = tasklet /\ pc' = pc /\ hand' = hand
      /\ free_seg_list' = free_seg_list \o [i \in 1 .. NumDescs |-> i - 1]
  BY DEF AllocChanResources, descVars, clientVars
<1>2. /\ free_seg_list \in Seq(Seg) /\ Range(free_seg_list) = {}
      /\ \A d \in Desc : Range(desc[d].segs) = {} /\ desc[d].segs \in Seq(Seg)
  <2>1. Range(free_seg_list) \cup UNION {Held(d) : d \in Desc} = {}
    BY <1>1 DEF SegsAccounted
  <2>2. \A d \in Desc : Held(d) \subseteq UNION {Held(e) : e \in Desc}
    OBVIOUS
  <2>3. Range(free_seg_list) = {} /\ \A d \in Desc : Held(d) = {}
    BY <2>1, <2>2
  <2> QED BY <2>3 DEF Held, TypeOK, MemOK, DescOK
<1>3. free_seg_list = <<>> /\ \A d \in Desc : desc[d].segs = <<>>
  BY <1>2, EndsOfList
<1>4. InFlight = <<>>
  <2>1. Queued = {}
    BY <1>1 DEF SlaveInv
  <2> QED BY <2>1, PartsType, EndsOfList
<1>5. InFlight' = <<>>
  BY <1>4, InFlightKept
<1>6. SegsOf(InFlight)' = <<>>
  <2>1. SegsOf(InFlight)' = SegsOf(<<>>)
    BY <1>1, <1>5 DEF SegsOf
  <2> QED BY <2>1, SegsOfEmpty
<1>7. TaskletSegs' = <<>> /\ HandSegs(c)' = <<>>
  <2>1. pc[c] = "idle"
    BY DEF AllocChanResources
  <2> QED BY <1>1, <1>3, <2>1 DEF TaskletSegs, HandSegs, Preparing, PrepCalls, TypeOK, HandlersOK
<1>8. PICK r \in Seq(Seg) : r = [i \in 1 .. NumDescs |-> i - 1]
  <2>1. [i \in 1 .. NumDescs |-> i - 1] \in Seq(Seg)
    BY ConstantsAssumption, IsASeq DEF Seg
  <2> QED BY <2>1
<1>9. PoolOrder(c)' = r
  <2>1. free_seg_list' = r
    BY <1>1, <1>3, <1>8, ConcatEmptySeq
  <2> QED BY <1>6, <1>7, <1>8, <2>1, ConcatEmptySeq DEF PoolOrder
<1>10. Len(r) = NumDescs /\ \A i \in 1 .. NumDescs : r[i] = i - 1
  BY <1>8, LenProperties, ConstantsAssumption
<1>11. \A k \in 1 .. NumDescs - 1 : k % NumDescs = k
  BY ConstantsAssumption
<1>12. NumDescs % NumDescs = 0
  BY ConstantsAssumption
<1>13. Run(r)
  <2> SUFFICES ASSUME NEW i \in 1 .. Len(r) - 1 PROVE r[i + 1] = Following(r[i])
    BY DEF Run
  <2>1. /\ i \in 1 .. NumDescs - 1 /\ i \in 1 .. NumDescs /\ i + 1 \in 1 .. NumDescs
        /\ (i + 1) - 1 = i /\ (i - 1) + 1 = i
    BY <1>10, ConstantsAssumption
  <2>2. r[i + 1] = i /\ r[i] = i - 1
    BY <1>10, <2>1
  <2> QED BY <1>11, <2>1, <2>2 DEF Following
<1>14. r[1] = Following(r[Len(r)])
  <2>1. 1 \in 1 .. NumDescs /\ NumDescs \in 1 .. NumDescs /\ (NumDescs - 1) + 1 = NumDescs
    BY ConstantsAssumption
  <2>2. r[1] = 0 /\ r[Len(r)] = NumDescs - 1
    BY <1>10, <2>1
  <2> QED BY <1>12, <2>1, <2>2 DEF Following
<1> QED BY <1>9, <1>13, <1>14 DEF Ring

\* One client that has the channel for itself, as a driver that requests it has.
OnlyClient(c) == Client = {c} /\ SlaveOnly /\ "reset_timeout" \notin Faults

\* The steps that such a client can take.
LEMMA OneSlaveStep ==
  ASSUME NEW c \in Client, OnlyClient(c), QInv, RingInv(c), PoolSuffices, [Next]_vars
  PROVE  \/ AllocChanResources
         \/ \E d \in Desc, kind \in PrepCalls, n \in 1 .. MaxSegs : PrepBegin(c, d, kind, n)
         \/ PrepAlloc(c) \/ PrepEnd(c) \/ SubmitNotBusy(c) \/ SubmitCheckErr(c)
         \/ SubmitReset(c) \/ SubmitAppend(c) \/ IssuePending(c) \/ StatusBegin(c)
         \/ StatusWalk(c)
         \/ Engine \/ Irq \/ Tasklet \/ UNCHANGED vars
<1>1. pc[c] \notin OtherPc /\ "terminate_all" \notin Calls /\ "free_chan_resources" \notin Calls
  BY DEF QInv, SlaveInv, OtherPc, OnlyClient, SlaveOnly
<1>2. ~(\/ TerminateHalt(c) \/ TerminateLock(c) \/ FreeDescriptors(c) \/ TerminateUnlock(c)
        \/ TerminateCyclic(c) \/ ReleaseLock(c) \/ ReleaseUnlock(c) \/ ReleaseFree(c))
  BY <1>1 DEF OtherPc, TerminateHalt, TerminateLock, FreeDescriptors, TerminateUnlock,
     TerminateCyclic, ReleaseLock, ReleaseUnlock, ReleaseFree
<1>3. ~(PrepNoSegment(c) \/ PrepError(c) \/ SubmitBusy(c) \/ SubmitResetTimeout(c))
  BY DEF PrepNoSegment, PrepError, SubmitBusy, SubmitResetTimeout, OnlyClient, RingInv, PoolSuffices
<1>4. \A x \in Client : x = c
  BY DEF OnlyClient
<1> QED BY <1>2, <1>3, <1>4 DEF Next, ClientStep

\* The order of the pool, through every step.
LEMMA OrderStep ==
  ASSUME NEW c \in Client, OnlyClient(c), ChainBase, RingInv(c), PoolSuffices, [Next]_vars
  PROVE  Ring(PoolOrder(c)')
<1> USE DEF ChainBase, QInv
<1>1. ASSUME InFlight' = InFlight, \A d \in Desc : desc'[d].segs = desc[d].segs,
             free_seg_list' = free_seg_list, tasklet'.desc = tasklet.desc,
             HandSegs(c)' = HandSegs(c)
      PROVE  Ring(PoolOrder(c)')
  BY <1>1, OrderSame DEF RingInv
<1>2. ASSUME NEW d \in Desc, NEW kind \in PrepCalls, NEW n \in 1 .. MaxSegs,
             PrepBegin(c, d, kind, n)
      PROVE  Ring(PoolOrder(c)')
  <2>1. InFlight' = InFlight
    BY <1>2, InFlightKept DEF PrepBegin, QueueSame
  <2>2. /\ pc[c] \notin Preparing /\ d \in Desc \ live /\ hand'[c] = d
        /\ UNCHANGED <<desc, free_seg_list, tasklet>>
    BY <1>2 DEF PrepBegin, Preparing, PrepCalls, memVars, IInv, TypeOK, ClientsOK
  <2>3. HandSegs(c) = <<>> /\ HandSegs(c)' = <<>>
    BY <2>2 DEF HandSegs, RingInv
  <2> QED BY <1>1, <2>1, <2>2, <2>3
<1>3. CASE SubmitNotBusy(c) \/ SubmitCheckErr(c) \/ SubmitReset(c) \/ StatusBegin(c) \/ StatusWalk(c)
  <2>1. QueueSame /\ UNCHANGED desc
    BY <1>3, StatusSteps
  <2>2. InFlight' = InFlight
    BY <2>1, InFlightKept
  <2>3. UNCHANGED <<free_seg_list, tasklet>>
    BY <1>3 DEF SubmitNotBusy, SubmitCheckErr, SubmitReset, StatusBegin, StatusWalk, memVars
  <2>4. CASE SubmitNotBusy(c) \/ SubmitCheckErr(c) \/ SubmitReset(c)
    <3>1. pc[c] \in Preparing /\ pc'[c] \in Preparing /\ hand' = hand
      BY <2>4 DEF SubmitNotBusy, SubmitCheckErr, SubmitReset, Goto, Preparing, PrepCalls, IInv,
         TypeOK, ClientsOK
    <3>2. HandSegs(c)' = HandSegs(c)
      BY <2>1, <3>1 DEF HandSegs
    <3> QED BY <1>1, <2>1, <2>2, <2>3, <3>2
  <2>5. CASE StatusBegin(c) \/ StatusWalk(c)
    <3>1. pc[c] \notin Preparing /\ pc'[c] \notin Preparing
      BY <2>5 DEF StatusBegin, StatusWalk, Goto, Preparing, PrepCalls, IInv, TypeOK, ClientsOK
    <3>2. HandSegs(c)' = HandSegs(c)
      BY <3>1 DEF HandSegs
    <3> QED BY <1>1, <2>1, <2>2, <2>3, <3>2
  <2> QED BY <1>3, <2>4, <2>5
<1>4. CASE PrepEnd(c)
  <2>1. PICK h \in Desc : h = hand[c]
    BY <1>4, HandInDesc DEF PrepEnd, Preparing, IInv
  <2>2. desc' = [desc EXCEPT ![h].cyclic = (pc[c] = "prep_dma_cyclic")]
    BY <1>4, <2>1 DEF PrepEnd
  <2>3. \A d \in Desc : desc'[d].segs = desc[d].segs
    BY <2>2 DEF IInv, TypeOK, DescOK
  <2>4. /\ pc[c] \in Preparing /\ pc'[c] \in Preparing /\ hand' = hand
        /\ UNCHANGED <<free_seg_list, tasklet>>
    BY <1>4 DEF PrepEnd, Goto, Preparing, IInv, TypeOK, ClientsOK
  <2>5. HandSegs(c)' = HandSegs(c)
    BY <2>1, <2>3, <2>4 DEF HandSegs
  <2>6. InFlight' = InFlight
    BY <1>4, InFlightKept DEF PrepEnd, QueueSame
  <2> QED BY <1>1, <2>3, <2>4, <2>5, <2>6
<1>5. CASE IssuePending(c) \/ IrqRestart
  <2>1. InFlight' = InFlight /\ UNCHANGED desc
    BY <1>5, StartSteps, InFlightKept DEF Starting, IInv
  <2>2. /\ UNCHANGED <<free_seg_list, pc, hand>> /\ tasklet'.desc = tasklet.desc
    BY <1>5 DEF IssuePending, IrqRestart, ScheduleTasklet, memVars, clientVars, IInv, TypeOK, HandlersOK
  <2>3. HandSegs(c)' = HandSegs(c)
    BY <2>1, <2>2 DEF HandSegs
  <2> QED BY <1>1, <2>1, <2>2, <2>3
<1>6. CASE EngineTransfer \/ EngineError \/ IrqAck \/ IrqLock \/ TaskletRun \/ TaskletExit
           \/ TaskletCyclic \/ TaskletCyclicReturn \/ UNCHANGED vars
  <2>1. InFlight' = InFlight /\ UNCHANGED desc
    BY <1>6, HandlerSteps, InFlightKept
  <2>2. /\ UNCHANGED free_seg_list /\ tasklet'.desc = tasklet.desc
    BY <1>6 DEF EngineTransfer, EngineError, IrqAck, IrqLock, TaskletRun, TaskletExit,
       TaskletCyclic, TaskletCyclicReturn, ScheduleTasklet, vars, memVars, IInv, TypeOK, HandlersOK
  <2>3. UNCHANGED <<pc, hand>>
    BY <1>6, HandlersLeave DEF Engine, Irq, Tasklet
  <2>4. HandSegs(c)' = HandSegs(c)
    BY <2>1, <2>3 DEF HandSegs
  <2> QED BY <1>1, <2>1, <2>2, <2>4
<1>7. CASE IrqComplete
  <2>1. InFlight' = InFlight
    BY <1>7, InFlightKept
  <2>2. UNCHANGED <<desc, free_seg_list, tasklet, pc, hand>>
    BY <1>7 DEF IrqComplete, descVars, memVars, clientVars
  <2>3. HandSegs(c)' = HandSegs(c)
    BY <2>2 DEF HandSegs
  <2> QED BY <1>1, <2>1, <2>2, <2>3
<1>8. CASE PrepAlloc(c) \/ SubmitAppend(c) \/ TaskletPop
  BY <1>8, OrderTaken, OrderSubmitted, OrderPopped DEF RingInv
<1>9. CASE TaskletFree \/ AllocChanResources
  BY <1>9, OrderFreed, OrderMade DEF RingInv
<1> QED BY <1>2, <1>3, <1>4, <1>5, <1>6, <1>7, <1>8, <1>9, OneSlaveStep DEF Engine, Irq, Tasklet

\* A run along which next_desc leads is a chain.
LEMMA RunIsChain ==
  ASSUME NEW q \in Seq(Seg), Run(q), \A s \in Seg : bd[s].next = Following(s)
  PROVE  Chained(q)
<1> SUFFICES ASSUME NEW i \in 1 .. Len(q) - 1 PROVE bd[q[i]].next = q[i + 1]
  BY DEF Chained
<1>1. Len(q) \in Nat
  BY LenProperties
<1>2. i \in 1 .. Len(q)
  BY <1>1
<1> QED BY <1>2, ElementOfSeq DEF Run

LEMMA InFlightSplit ==
  ASSUME IInv
  PROVE  InFlight = done_list \o (active_list \o pending_list)
<1>1. done_list \in Seq(Desc) /\ active_list \in Seq(Desc) /\ pending_list \in Seq(Desc)
  BY DEF IInv, TypeOK, ListsOK
<1> QED BY <1>1, DescAssoc DEF InFlight

\* The queue, and what the client has in hand behind it, are pieces of the ring.
LEMMA RunOfTail ==
  ASSUME NEW u \in Seq(Seg), NEW v \in Seq(Seg), NEW w \in Seq(Seg), NEW h \in Seq(Seg),
         Run((u \o (v \o w)) \o h)
  PROVE  Run(w \o h)
<1>1. (v \o w) \o h = v \o (w \o h)
  BY SegAssoc
<1>2. v \o w \in Seq(Seg) /\ w \o h \in Seq(Seg) /\ v \o (w \o h) \in Seq(Seg)
  BY ConcatProperties
<1>3. (u \o (v \o w)) \o h = u \o ((v \o w) \o h)
  <2>1. \A z \in Seq(Seg) : (u \o z) \o h = u \o (z \o h)
    BY SegAssoc
  <2> QED BY <1>2, <2>1
<1>4. Run(u \o (v \o (w \o h)))
  BY <1>1, <1>3
<1>5. Run(v \o (w \o h))
  BY <1>2, <1>4, RunConcat
<1> QED BY <1>2, <1>5, RunConcat

LEMMA RunsOfRing ==
  ASSUME IInv, NEW c \in Client, Ring(PoolOrder(c))
  PROVE  /\ Run(SegsOf(InFlight) \o HandSegs(c))
         /\ Run(SegsOf(InFlight)) /\ Run(SegsOf(active_list \o pending_list))
         /\ Run(SegsOf(active_list)) /\ Run(SegsOf(pending_list))
         /\ Run(SegsOf(pending_list) \o HandSegs(c))
<1>1. PICK t \in Seq(Seg), q \in Seq(Seg), h \in Seq(Seg), f \in Seq(Seg) :
        t = TaskletSegs /\ q = SegsOf(InFlight) /\ h = HandSegs(c) /\ f = free_seg_list
  BY PartsType
<1>2. PICK r \in Seq(Seg), x \in Seq(Seg) : r = q \o (h \o f) /\ x = q \o h
  BY ConcatProperties
<1>3. Run(t \o r)
  BY <1>1, <1>2 DEF PoolOrder, Ring
<1>4. Run(r)
  BY <1>3, RunConcat
<1>5. r = x \o f
  <2>1. (q \o h) \o f = q \o (h \o f)
    BY SegAssoc, ZenonT(30)
  <2> QED BY <1>2, <2>1
<1>6. Run(x)
  BY <1>4, <1>5, RunConcat
<1>7. Run(q)
  BY <1>2, <1>6, RunConcat
<1>8. PICK d \in Seq(Desc), a \in Seq(Desc), p \in Seq(Desc) :
        d = done_list /\ a = active_list /\ p = pending_list
  BY DEF IInv, TypeOK, ListsOK
<1>9. PICK m \in Seq(Desc) : m = a \o p
  BY ConcatProperties
<1>10. InFlight = d \o m
  BY <1>8, <1>9, InFlightSplit
<1>11. /\ SegsOf(d \o m) = SegsOf(d) \o SegsOf(m) /\ SegsOf(a \o p) = SegsOf(a) \o SegsOf(p)
       /\ SegsOf(d) \in Seq(Seg) /\ SegsOf(m) \in Seq(Seg)
       /\ SegsOf(a) \in Seq(Seg) /\ SegsOf(p) \in Seq(Seg)
  BY SegsOfConcat, SegListsType DEF IInv, TypeOK
<1>12. Run(SegsOf(d) \o SegsOf(m))
  BY <1>1, <1>7, <1>10, <1>11
<1>13. Run(SegsOf(m))
  BY <1>11, <1>12, RunConcat
<1>14. Run(SegsOf(a) \o SegsOf(p))
  BY <1>9, <1>11, <1>13
<1>15. Run(SegsOf(a)) /\ Run(SegsOf(p))
  BY <1>11, <1>14, RunConcat
<1>16. Run(SegsOf(p) \o h)
  <2>1. SegsOf(m) = SegsOf(a) \o SegsOf(p)
    BY <1>9, <1>11
  <2>2. Run((SegsOf(d) \o (SegsOf(a) \o SegsOf(p))) \o h)
    BY <1>1, <1>2, <1>6, <1>10, <1>11, <2>1
  <2> QED BY <1>11, <2>2, RunOfTail
<1> QED BY <1>1, <1>2, <1>6, <1>7, <1>8, <1>9, <1>13, <1>15, <1>16

-----------------------------------------------------------------------------
(* next_desc is never changed *)

LEMMA FrontAndLast ==
  ASSUME NEW S, NEW l \in Seq(S), l # <<>>
  PROVE  \E m \in Seq(S) : l = m \o <<Last(l)>>
<1>1. PICK n \in Nat : n + 1 = Len(l)
  <2>1. Len(l) \in Nat \ {0}
    BY LenProperties, EmptySeq
  <2>2. Len(l) - 1 \in Nat /\ (Len(l) - 1) + 1 = Len(l)
    BY <2>1
  <2> QED BY <2>2
<1>2. \A i \in 1 .. n : l[i] \in S
  BY <1>1, ElementOfSeq
<1>3. [i \in 1 .. n |-> l[i]] \in Seq(S)
  BY <1>2, IsASeq
<1>4. PICK m \in Seq(S) : m = [i \in 1 .. n |-> l[i]]
  BY <1>3
<1>5. Len(m) = n /\ \A i \in 1 .. n : m[i] = l[i]
  BY <1>4, LenProperties
<1>6. Last(l) = l[n + 1] /\ Last(l) \in S
  BY <1>1, EndsOfList DEF Last
<1>7. PICK k \in Seq(S) : k = Append(m, Last(l))
  BY <1>6, AppendProperties
<1>8. /\ Len(k) = n + 1 /\ k[n + 1] = Last(l) /\ \A i \in 1 .. n : k[i] = m[i]
  BY <1>5, <1>6, <1>7, AppendProperties
<1>9. \A i \in 1 .. n + 1 : i \in 1 .. n \/ i = n + 1
  OBVIOUS
<1>10. \A i \in 1 .. n + 1 : k[i] = l[i]
  BY <1>5, <1>6, <1>8, <1>9
<1>11. k = l
  BY <1>1, <1>8, <1>10, SeqEqual
<1> QED BY <1>6, <1>7, <1>11, AppendIsConcat

\* The tail of a ring that two pieces leave out.
LEMMA RunTail ==
  ASSUME NEW x \in Seq(Seg), NEW a \in Seq(Seg), NEW b \in Seq(Seg), Run((x \o a) \o b),
         a # <<>>, b # <<>>
  PROVE  Head(b) = Following(Last(a))
<1>1. x \o (a \o b) = (x \o a) \o b /\ a \o b \in Seq(Seg)
  BY SegAssoc, ConcatProperties
<1>2. Run(x \o (a \o b))
  BY <1>1
<1>3. Run(a \o b)
  BY <1>1, <1>2, RunConcat
<1>4. b[1] = Following(a[Len(a)])
  BY <1>3, RunConcat
<1>5. Head(b) = b[1]
  BY HeadTailProperties
<1> QED BY <1>4, <1>5 DEF Last

\* append_desc_queue writes the link that is there already.
LEMMA LinkIsThere ==
  ASSUME IInv, NEW c \in Client, RingInv(c), SubmitAppend(c)
  PROVE  bd' = bd
<1> USE DEF IInv
<1>1. PICK h \in Desc : h = hand[c]
  BY HandInDesc DEF SubmitAppend, Preparing
<1>2. CASE pending_list = <<>>
  BY <1>2 DEF SubmitAppend, Linked
<1>3. CASE pending_list # <<>>
  <2>1. PICK d \in Desc, m \in Seq(Desc) : d = Last(pending_list) /\ pending_list = m \o <<d>>
    <3>1. pending_list \in Seq(Desc)
      BY DEF TypeOK, ListsOK
    <3> QED BY <1>3, <3>1, FrontAndLast, EndsOfList
  <2>2. d \in Range(pending_list)
    BY <1>3, <2>1, EndsOfList DEF TypeOK, ListsOK
  <2>3. PICK a \in Seq(Seg), b \in Seq(Seg), x \in Seq(Seg) :
          a = desc[d].segs /\ b = desc[h].segs /\ x = SegsOf(m)
    BY SegListsType DEF TypeOK, DescOK
  <2>4. a # <<>> /\ b # <<>>
    BY <1>1, <2>2, <2>3 DEF HaveSegs, Submitting, SubmitAppend
  <2>5. SegsOf(pending_list) = x \o a
    <3>1. SegsOf(Append(m, d)) = SegsOf(m) \o desc[d].segs
      BY SegsOfAppend DEF TypeOK
    <3>2. Append(m, d) = m \o <<d>>
      BY AppendIsConcat
    <3> QED BY <2>1, <2>3, <3>1, <3>2
  <2>6. HandSegs(c) = b
    BY <1>1, <2>3 DEF HandSegs, SubmitAppend, Preparing
  <2>7. Run((x \o a) \o b)
    <3>1. Run(SegsOf(pending_list) \o HandSegs(c))
      BY RunsOfRing DEF RingInv
    <3> QED BY <2>5, <2>6, <3>1
  <2>8. Head(b) = Following(Last(a))
    BY <2>4, <2>7, RunTail
  <2>9. Last(a) \in Seg
    BY <2>4, EndsOfList
  <2>10. bd[Last(a)].next = Head(b)
    BY <2>8, <2>9 DEF RingInv
  <2>11. bd' = [bd EXCEPT ![Last(a)].next = Head(b)]
    BY <1>1, <1>3, <2>1, <2>3 DEF SubmitAppend, Linked, TailSegment, Phys
  <2>12. [bd EXCEPT ![Last(a)].next = Head(b)] = bd
    BY <2>9, <2>10 DEF TypeOK, MemOK, Bd
  <2> QED BY <2>11, <2>12
<1> QED BY <1>2, <1>3

\* So next_desc stays as it was set up.
LEMMA NextStep ==
  ASSUME NEW c \in Client, OnlyClient(c), ChainBase, RingInv(c), PoolSuffices, [Next]_vars
  PROVE  \A s \in Seg : bd'[s].next = Following(s)
<1> USE DEF ChainBase, QInv, IInv
<1>1. \A s \in Seg : bd[s].next = Following(s)
  BY DEF RingInv
<1>2. CASE AllocChanResources
  BY <1>2 DEF AllocChanResources, RingBd, Following
<1>3. CASE SubmitAppend(c)
  BY <1>1, <1>3, LinkIsThere
<1>4. CASE EngineTransfer
  <2>1. bd' = [bd EXCEPT ![eng.cur].state = "cmplt"]
    BY <1>4 DEF EngineTransfer
  <2> QED BY <1>1, <2>1 DEF TypeOK, MemOK, Bd
<1>5. CASE PrepAlloc(c)
  <2>1. bd' = [bd EXCEPT ![Head(free_seg_list)].state = "filled"]
    BY <1>5 DEF PrepAlloc
  <2> QED BY <1>1, <2>1 DEF TypeOK, MemOK, Bd
<1>6. CASE PrepEnd(c)
  <2>1. bd' = [bd EXCEPT ![TailSegment(hand[c])].eop = TRUE]
    BY <1>6 DEF PrepEnd
  <2> QED BY <1>1, <2>1 DEF TypeOK, MemOK, Bd
<1>7. CASE TaskletFree
  <2>1. bd' = [s \in Seg |-> IF s \in Range(desc[tasklet.desc].segs) THEN Clean(bd[s]) ELSE bd[s]]
    BY <1>7 DEF TaskletFree, FreeTxDescriptor
  <2>2. \A s \in Seg : Clean(bd[s]).next = bd[s].next
    <3>1. \A s \in Seg : bd[s] \in Bd
      BY DEF TypeOK, MemOK
    <3> QED BY <3>1 DEF Bd, Clean
  <2>3. \A s \in Seg : bd'[s].next = bd[s].next
    BY <2>1, <2>2
  <2> QED BY <1>1, <2>3
<1>8. ASSUME UNCHANGED bd
      PROVE  \A s \in Seg : bd'[s].next = Following(s)
  BY <1>1, <1>8
<1>9. CASE SubmitNotBusy(c) \/ SubmitCheckErr(c) \/ SubmitReset(c) \/ IssuePending(c)
           \/ StatusBegin(c) \/ StatusWalk(c)
           \/ \E d \in Desc, kind \in PrepCalls, n \in 1 .. MaxSegs : PrepBegin(c, d, kind, n)
  BY <1>8, <1>9 DEF SubmitNotBusy, SubmitCheckErr, SubmitReset, IssuePending, StatusBegin,
     StatusWalk, PrepBegin, memVars
<1>10. CASE EngineError \/ Irq \/ TaskletRun \/ TaskletExit \/ TaskletCyclic
            \/ TaskletCyclicReturn \/ TaskletPop \/ UNCHANGED vars
  BY <1>8, <1>10 DEF EngineError, Irq, IrqAck, IrqLock, IrqComplete, IrqRestart, TaskletRun,
     TaskletExit, TaskletCyclic, TaskletCyclicReturn, TaskletPop, vars, memVars
<1> QED BY <1>2, <1>3, <1>4, <1>5, <1>6, <1>7, <1>9, <1>10, OneSlaveStep DEF Engine, Tasklet

\* A descriptor that is not allocated has no segments; prepare has not failed.
LEMMA OtherStep ==
  ASSUME NEW c \in Client, OnlyClient(c), ChainBase, RingInv(c), PoolSuffices, [Next]_vars
  PROVE  /\ \A d \in Desc \ live' : desc'[d].segs = <<>>
         /\ pc'[c] # "prep_error" /\ ~chan'.cyclic
<1> USE DEF ChainBase, QInv, IInv
<1>1. /\ \A d \in Desc \ live : desc[d].segs = <<>>
      /\ pc[c] # "prep_error" /\ ~chan.cyclic
  BY DEF RingInv
<1>2. pc'[c] # "prep_error"
  <2>1. CASE Engine \/ Irq \/ Tasklet \/ UNCHANGED vars
    BY <1>1, <2>1, HandlersLeave
  <2>2. CASE AllocChanResources \/ PrepAlloc(c) \/ IssuePending(c)
    BY <1>1, <2>2 DEF AllocChanResources, PrepAlloc, IssuePending, clientVars
  <2>3. CASE PrepEnd(c) \/ SubmitNotBusy(c) \/ SubmitCheckErr(c) \/ SubmitReset(c)
             \/ SubmitAppend(c) \/ StatusBegin(c) \/ StatusWalk(c)
    BY <2>3 DEF PrepEnd, SubmitNotBusy, SubmitCheckErr, SubmitReset, SubmitAppend, StatusBegin,
       StatusWalk, Goto, TypeOK, ClientsOK
  <2>4. ASSUME NEW d \in Desc, NEW kind \in PrepCalls, NEW n \in 1 .. MaxSegs,
               PrepBegin(c, d, kind, n)
        PROVE  pc'[c] # "prep_error"
    BY <2>4 DEF PrepBegin, PrepCalls, Goto, TypeOK, ClientsOK
  <2> QED BY <2>1, <2>2, <2>3, <2>4, OneSlaveStep
<1>3. ~chan'.cyclic
  <2>1. ASSUME NEW ch \in ChanType, ~ch.cyclic, StartTransfer(ch)
        PROVE  ~chan'.cyclic
    BY <2>1 DEF StartTransfer, Started, ChanType
  <2>2. CASE IssuePending(c)
    BY <1>1, <2>1, <2>2 DEF IssuePending, TypeOK, ChanOK, ChanType
  <2>3. CASE IrqRestart
    <3>1. [chan EXCEPT !.idle = TRUE] \in ChanType /\ ~[chan EXCEPT !.idle = TRUE].cyclic
      BY <1>1 DEF TypeOK, ChanOK, ChanType
    <3> QED BY <2>1, <2>3, <3>1 DEF IrqRestart
  <2>4. CASE SubmitAppend(c)
    <3>1. ~desc[hand[c]].cyclic
      BY <2>4, HandInDesc DEF SubmitAppend, Preparing, SlaveInv
    <3> QED BY <1>1, <2>4, <3>1 DEF SubmitAppend, TypeOK, ChanOK
  <2>5. CASE AllocChanResources \/ PrepEnd(c) \/ SubmitReset(c) \/ IrqAck
    BY <1>1, <2>5 DEF AllocChanResources, PrepEnd, SubmitReset, IrqAck, TypeOK, ChanOK
  <2>6. CASE PrepAlloc(c) \/ SubmitNotBusy(c) \/ SubmitCheckErr(c) \/ StatusBegin(c) \/ StatusWalk(c)
             \/ \E d \in Desc, kind \in PrepCalls, n \in 1 .. MaxSegs : PrepBegin(c, d, kind, n)
    BY <1>1, <2>6 DEF PrepAlloc, SubmitNotBusy, SubmitCheckErr, StatusBegin, StatusWalk, PrepBegin
  <2>7. CASE Engine \/ IrqLock \/ IrqComplete \/ Tasklet \/ UNCHANGED vars
    BY <1>1, <2>7 DEF Engine, EngineTransfer, EngineError, IrqLock, IrqComplete, Tasklet,
       TaskletRun, TaskletExit, TaskletCyclic, TaskletCyclicReturn, TaskletPop, TaskletFree,
       TaskletUnchanged, vars
  <2> QED BY <2>2, <2>3, <2>4, <2>5, <2>6, <2>7, OneSlaveStep DEF Irq
<1>4. \A d \in Desc \ live' : desc'[d].segs = <<>>
  <2>1. CASE PrepAlloc(c)
    <3>1. hand[c] \in live /\ live' = live
      BY <2>1 DEF PrepAlloc, Preparing, Own, OneOwner
    <3> QED BY <1>1, <2>1, <3>1 DEF PrepAlloc, TypeOK, DescOK
  <2>2. CASE PrepEnd(c) \/ SubmitAppend(c)
    <3>1. hand[c] \in live /\ live' = live
      BY <2>2 DEF PrepEnd, SubmitAppend, Preparing, Own, OneOwner
    <3> QED BY <1>1, <2>2, <3>1 DEF PrepEnd, SubmitAppend, TypeOK, DescOK
  <2>3. CASE TaskletFree
    BY <1>1, <2>3 DEF TaskletFree, FreeTxDescriptor, BlankDesc, TypeOK, DescOK
  <2>4. ASSUME UNCHANGED desc, live \subseteq live'
        PROVE  \A d \in Desc \ live' : desc'[d].segs = <<>>
    BY <1>1, <2>4
  <2>5. CASE AllocChanResources \/ SubmitNotBusy(c) \/ SubmitCheckErr(c) \/ SubmitReset(c)
             \/ IssuePending(c) \/ StatusBegin(c) \/ StatusWalk(c)
             \/ \E d \in Desc, kind \in PrepCalls, n \in 1 .. MaxSegs : PrepBegin(c, d, kind, n)
    BY <2>4, <2>5 DEF AllocChanResources, SubmitNotBusy, SubmitCheckErr, SubmitReset,
       IssuePending, StatusBegin, StatusWalk, PrepBegin, descVars
  <2>6. CASE Engine \/ Irq \/ TaskletRun \/ TaskletExit \/ TaskletCyclic
             \/ TaskletCyclicReturn \/ TaskletPop \/ UNCHANGED vars
    BY <2>4, <2>6 DEF Engine, EngineTransfer, EngineError, Irq, IrqAck, IrqLock, IrqComplete,
       IrqRestart, TaskletRun, TaskletExit, TaskletCyclic, TaskletCyclicReturn, TaskletPop,
       vars, descVars
  <2> QED BY <2>1, <2>2, <2>3, <2>5, <2>6, OneSlaveStep DEF Tasklet
<1> QED BY <1>2, <1>3, <1>4

LEMMA RingStep ==
  ASSUME NEW c \in Client, OnlyClient(c), ChainBase, RingInv(c), PoolSuffices, [Next]_vars
  PROVE  RingInv(c)'
BY OrderStep, NextStep, OtherStep DEF RingInv

\* All that earlier sections have proved of such a channel.
LEMMA ChainBaseAlways ==
  ASSUME NEW c \in Client, OnlyClient(c)
  PROVE  Spec => []ChainBase
<1>1. NoRelease /\ "reset_timeout" \notin Faults /\ SlaveOnly
  BY DEF OnlyClient, SlaveOnly, NoRelease
<1>2. (Spec => []QInv) /\ (Spec => [](IInv /\ PlacedInv)) /\ (Spec => [](SegsApart /\ SegsAccounted))
  BY <1>1, QueueInvariance, PlacedInvariance, SegsInvariance
<1> QED BY <1>2, PTL DEF ChainBase

-----------------------------------------------------------------------------
(* The theorem about chains *)

LEMMA RingInit ==
  ASSUME NEW c \in Client, Init
  PROVE  RingInv(c)
<1>1. TaskletSegs = <<>> /\ HandSegs(c) = <<>>
  BY DEF Init, TaskletSegs, HandSegs, Preparing, PrepCalls
<1>2. <<>> \o <<>> = <<>>
  BY ConcatProperties, EmptySeq
<1>3. InFlight = <<>>
  BY <1>2 DEF Init, InFlight
<1>4. PoolOrder(c) = <<>>
  BY <1>1, <1>2, <1>3, SegsOfEmpty DEF PoolOrder, Init
<1>5. Ring(<<>>)
  BY EmptySeq DEF Ring, Run
<1>6. \A s \in Seg : bd[s].next = Following(s)
  BY DEF Init, RingBd, Following
<1>7. /\ \A d \in Desc \ live : desc[d].segs = <<>>
      /\ pc[c] # "prep_error" /\ ~chan.cyclic
  BY DEF Init, BlankDesc
<1> QED BY <1>4, <1>5, <1>6, <1>7 DEF RingInv

LEMMA RingFollows ==
  ASSUME NEW c \in Client, ChainBase, RingInv(c)
  PROVE  ChainsFollowLists
<1> USE DEF ChainBase, QInv, IInv
<1>1. Run(SegsOf(active_list)) /\ Run(SegsOf(pending_list))
  BY RunsOfRing DEF RingInv
<1>2. SegsOf(active_list) \in Seq(Seg) /\ SegsOf(pending_list) \in Seq(Seg)
  BY SegListsType DEF TypeOK, ListsOK
<1>3. \A s \in Seg : bd[s].next = Following(s)
  BY DEF RingInv
<1> QED BY <1>1, <1>2, <1>3, RunIsChain DEF ChainsFollowLists

LEMMA RingInvariance ==
  ASSUME NEW c \in Client, OnlyClient(c)
  PROVE  Spec /\ []PoolSuffices => [](ChainBase /\ RingInv(c))
<1>1. Init => RingInv(c)
  BY RingInit
<1>2. ChainBase /\ RingInv(c) /\ PoolSuffices /\ [Next]_vars => RingInv(c)'
  BY RingStep
<1>3. Spec => []ChainBase
  BY ChainBaseAlways
<1> QED BY <1>1, <1>2, <1>3, PTL DEF Spec

\* A client that only calls prep_slave_sg and tx_status, alone, on hardware whose reset
\* succeeds and with a pool that does not run out: next_desc leads the hardware through
\* the queued transactions, and the active ones, in the order of the lists
\* (append_desc_queue, xilinx_dma_prep_slave_sg).
THEOREM ChainsKept ==
  ASSUME NEW c \in Client, OnlyClient(c)
  PROVE  Spec /\ []PoolSuffices => []ChainsFollowLists
<1>1. ChainBase /\ RingInv(c) => ChainsFollowLists
  BY RingFollows
<1> QED BY <1>1, RingInvariance, PTL

-----------------------------------------------------------------------------
(* Transactions of the active list follow each other in the ring *)

\* A list of descriptors whose segments follow each other in the ring, within a
\* descriptor and from one to the next.
Adjacent(l) ==
  /\ \A i \in DOMAIN l : Run(desc[l[i]].segs)
  /\ \A i \in DOMAIN l : i + 1 \in DOMAIN l =>
       Head(desc[l[i + 1]].segs) = Following(Last(desc[l[i]].segs))
Filled(l) == \A i \in DOMAIN l : desc[l[i]].segs # <<>>

LEMMA AdjacentAppend ==
  ASSUME DescOK, NEW l \in Seq(Desc), NEW d \in Desc, Adjacent(l), Filled(Append(l, d)),
         Run(SegsOf(Append(l, d)))
  PROVE  Adjacent(Append(l, d))
<1>1. /\ Len(l) \in Nat /\ DOMAIN l = 1 .. Len(l)
      /\ DOMAIN Append(l, d) = 1 .. Len(l) + 1
      /\ \A i \in 1 .. Len(l) : Append(l, d)[i] = l[i]
      /\ Append(l, d)[Len(l) + 1] = d
  BY AppendProperties, LenProperties
<1>2. PICK x \in Seq(Seg), b \in Seq(Seg) : x = SegsOf(l) /\ b = desc[d].segs
  BY SegListsType DEF DescOK
<1>3. Run(x \o b)
  BY <1>2, SegsOfAppend
<1>4. Run(b)
  BY <1>3, RunConcat
<1>5. \A i \in 1 .. Len(l) + 1 : Run(desc[Append(l, d)[i]].segs)
  <2>1. \A i \in 1 .. Len(l) : Run(desc[Append(l, d)[i]].segs)
    BY <1>1 DEF Adjacent
  <2>2. Run(desc[Append(l, d)[Len(l) + 1]].segs)
    BY <1>1, <1>2, <1>4
  <2>3. \A i \in 1 .. Len(l) + 1 : i \in 1 .. Len(l) \/ i = Len(l) + 1
    BY <1>1
  <2> QED BY <2>1, <2>2, <2>3
<1>6. b # <<>>
  <2>1. Len(l) + 1 \in DOMAIN Append(l, d)
    BY <1>1
  <2>2. desc[Append(l, d)[Len(l) + 1]].segs # <<>>
    BY <2>1 DEF Filled
  <2> QED BY <1>1, <1>2, <2>2
<1>7. CASE l = <<>>
  <2>1. Len(l) = 0
    BY <1>7, EmptySeq
  <2>2. \A i \in 1 .. Len(l) + 1 : i + 1 \notin 1 .. Len(l) + 1
    BY <2>1
  <2> QED BY <1>1, <1>5, <2>2 DEF Adjacent
<1>8. CASE l # <<>>
  <2>1. PICK m \in Seq(Desc) : l = m \o <<Last(l)>>
    BY <1>8, FrontAndLast
  <2>2. PICK e \in Desc : e = Last(l) /\ e = l[Len(l)] /\ Len(l) \in 1 .. Len(l)
    <3>1. Len(l) > 0
      BY <1>1, <1>8, EmptySeq
    <3> QED BY <1>1, <1>8, <3>1, EndsOfList DEF Last
  <2>3. PICK y \in Seq(Seg), a \in Seq(Seg) : y = SegsOf(m) /\ a = desc[e].segs
    BY SegListsType DEF DescOK
  <2>4. x = y \o a
    BY <1>2, <2>1, <2>2, <2>3, SegsOfAppend, AppendIsConcat
  <2>5. a # <<>>
    BY <1>1, <2>2, <2>3 DEF Filled
  <2>6. Head(b) = Following(Last(a))
    BY <1>3, <1>6, <2>4, <2>5, RunTail
  <2>7. ASSUME NEW i \in 1 .. Len(l) + 1, i + 1 \in 1 .. Len(l) + 1
        PROVE  Head(desc[Append(l, d)[i + 1]].segs) = Following(Last(desc[Append(l, d)[i]].segs))
    <3>1. CASE i = Len(l)
      BY <1>1, <1>2, <2>2, <2>3, <2>6, <3>1
    <3>2. CASE i # Len(l)
      <4>1. i \in 1 .. Len(l) /\ i + 1 \in 1 .. Len(l)
        <5>1. Len(l) \in Nat
          BY <1>1
        <5> QED BY <2>7, <3>2, <5>1
      <4> QED BY <1>1, <4>1 DEF Adjacent
    <3> QED BY <3>1, <3>2
  <2> QED BY <1>1, <1>5, <2>7 DEF Adjacent
<1> QED BY <1>7, <1>8

LEMMA RunIsAdjacent ==
  ASSUME DescOK, NEW l \in Seq(Desc), Filled(l), Run(SegsOf(l))
  PROVE  Adjacent(l)
<1> DEFINE T == {m \in Seq(Desc) : Filled(m) /\ Run(SegsOf(m)) => Adjacent(m)}
<1>1. <<>> \in T
  BY EmptySeq DEF Adjacent
<1>2. ASSUME NEW m \in Seq(Desc), NEW d \in Desc, m \in T
      PROVE  Append(m, d) \in T
  <2>1. Append(m, d) \in Seq(Desc)
    BY AppendProperties
  <2>2. SUFFICES ASSUME Filled(Append(m, d)), Run(SegsOf(Append(m, d)))
                 PROVE  Adjacent(Append(m, d))
    BY <2>1
  <2>3. /\ DOMAIN m = 1 .. Len(m) /\ Len(m) \in Nat /\ DOMAIN Append(m, d) = 1 .. Len(m) + 1
        /\ \A i \in 1 .. Len(m) : Append(m, d)[i] = m[i]
    BY AppendProperties, LenProperties
  <2>4. Filled(m)
    BY <2>2, <2>3 DEF Filled
  <2>5. Run(SegsOf(m))
    <3>1. SegsOf(m) \in Seq(Seg) /\ desc[d].segs \in Seq(Seg)
      BY SegListsType DEF DescOK
    <3>2. Run(SegsOf(m) \o desc[d].segs)
      BY <2>2, SegsOfAppend
    <3> QED BY <3>1, <3>2, RunConcat
  <2> QED BY <1>2, <2>2, <2>4, <2>5, AdjacentAppend
<1>3. Seq(Desc) \subseteq T
  <2> HIDE DEF T
  <2> QED BY <1>1, <1>2, SeqInduction
<1> QED BY <1>3

-----------------------------------------------------------------------------
(* The life of a batch *)

(* What the hardware descriptors of a transaction look like, from prepare to the
   callback. *)

EopAtEnd(d) == \A j \in DOMAIN desc[d].segs : bd[desc[d].segs[j]].eop <=> j = Len(desc[d].segs)
InState(d, state) == \A s \in Held(d) : bd[s].state = state
Ready(d) == EopAtEnd(d) /\ InState(d, "filled")
Transferred(d) == InState(d, "cmplt")

\* Of the transactions that the engine does not work on.
SegStates(c) ==
  /\ \A s \in Range(free_seg_list) : ~bd[s].eop
  /\ pc[c] = "prep_slave_sg" => \A s \in Held(hand[c]) : bd[s].state = "filled" /\ ~bd[s].eop
  /\ pc[c] \in Submitting => Ready(hand[c])
  /\ \A d \in Range(pending_list) : Ready(d)
  /\ \A d \in Range(done_list) : Transferred(d)
  /\ tasklet.desc # NoDesc => Transferred(tasklet.desc)

\* The engine is at segment j of the i-th active transaction.
AtWork(i, j) ==
  LET q == desc[active_list[i]].segs IN
  /\ eng.cur = q[j] /\ eng.left = Len(active_list) - i + 1
  /\ EopAtEnd(active_list[i])
  /\ \A k \in DOMAIN q : bd[q[k]].state = IF k < j THEN "cmplt" ELSE "filled"
  /\ \A k \in DOMAIN active_list :
       /\ k < i => Transferred(active_list[k])
       /\ k > i => Ready(active_list[k])

\* The life of a batch: none, at work, transferred, and aborted by an error.
IdlePhase ==
  chan.idle /\ active_list = <<>> /\ ~eng.busy /\ ~eng.ioc /\ ~eng.err /\ irq = "none"
BusyPhase ==
  /\ ~chan.idle /\ ~chan.err /\ eng.busy /\ ~eng.ioc /\ ~eng.err /\ irq = "none"
  /\ active_list # <<>> /\ eng.tail = TailSegment(Last(active_list))
  /\ \E i \in DOMAIN active_list : \E j \in DOMAIN desc[active_list[i]].segs : AtWork(i, j)
DonePhase ==
  /\ ~chan.idle /\ ~chan.err /\ ~eng.busy /\ ~eng.err /\ (eng.ioc <=> irq = "none")
  /\ \A d \in Range(active_list) : Transferred(d)
DeadPhase == ~chan.idle /\ ~eng.busy /\ ~eng.ioc /\ irq = "none"

PhaseInv == IdlePhase \/ BusyPhase \/ DonePhase \/ DeadPhase

CountInv(c) ==
  /\ ~chan.ctrl_reg.cyclic /\ ~eng.cr.cyclic
  /\ chan.desc_pendingcount <= CoalesceMax
  /\ pc[c] # "bug" => chan.desc_pendingcount = Len(pending_list)
  /\ pc[c] = "bug" => lock = c
  /\ irq = "move" => lock = "irq"
  /\ pc[c] = "reset" => chan.err

\* A transaction whose segments no step writes.
LEMMA SameState ==
  ASSUME NEW d, desc'[d].segs = desc[d].segs, \A s \in Held(d) : bd'[s] = bd[s]
  PROVE  /\ Held(d)' = Held(d) /\ (EopAtEnd(d)' <=> EopAtEnd(d))
         /\ (Ready(d)' <=> Ready(d)) /\ (Transferred(d)' <=> Transferred(d))
<1>1. Held(d)' = Held(d)
  BY DEF Held
<1>2. EopAtEnd(d)' <=> EopAtEnd(d)
  <2>1. \A j \in DOMAIN desc[d].segs : desc[d].segs[j] \in Held(d)
    BY DEF Held, Range
  <2> QED BY <2>1 DEF EopAtEnd
<1>3. \A st : InState(d, st)' <=> InState(d, st)
  BY <1>1 DEF InState
<1> QED BY <1>1, <1>2, <1>3 DEF Ready, Transferred

\* A batch that a step leaves alone.
LEMMA PhaseFrame ==
  ASSUME PhaseInv, UNCHANGED <<active_list, irq>>,
         chan'.idle = chan.idle, chan'.err = chan.err,
         eng'.busy = eng.busy, eng'.ioc = eng.ioc, eng'.err = eng.err,
         eng'.cur = eng.cur, eng'.tail = eng.tail, eng'.left = eng.left,
         active_list \in Seq(Desc),
         \A d \in Range(active_list) :
           desc'[d].segs = desc[d].segs /\ \A s \in Held(d) : bd'[s] = bd[s]
  PROVE  PhaseInv'
<1>1. \A d \in Range(active_list) :
        /\ EopAtEnd(d)' <=> EopAtEnd(d)
        /\ Ready(d)' <=> Ready(d)
        /\ Transferred(d)' <=> Transferred(d)
  BY SameState
<1>2. \A i \in DOMAIN active_list : active_list[i] \in Range(active_list)
  BY DEF Range
<1>3. CASE IdlePhase
  BY <1>3 DEF IdlePhase, PhaseInv
<1>4. CASE BusyPhase
  <2>0. PICK i \in DOMAIN active_list : \E j \in DOMAIN desc[active_list[i]].segs : AtWork(i, j)
    BY <1>4 DEF BusyPhase
  <2>1. PICK j \in DOMAIN desc[active_list[i]].segs : AtWork(i, j)
    BY <2>0
  <2>2. /\ desc'[active_list[i]].segs = desc[active_list[i]].segs
        /\ \A k \in DOMAIN desc[active_list[i]].segs :
             bd'[desc[active_list[i]].segs[k]] = bd[desc[active_list[i]].segs[k]]
    BY <1>2 DEF Held, Range
  <2>3. AtWork(i, j)'
    BY <1>1, <1>2, <2>1, <2>2 DEF AtWork
  <2>4. TailSegment(Last(active_list))' = TailSegment(Last(active_list))
    <3>1. Last(active_list) \in Range(active_list)
      BY <1>4, EndsOfList DEF BusyPhase
    <3> QED BY <3>1 DEF TailSegment
  <2>5. BusyPhase'
    BY <1>4, <2>2, <2>3, <2>4 DEF BusyPhase
  <2> QED BY <2>5 DEF PhaseInv
<1>5. CASE DonePhase
  <2>1. DonePhase'
    BY <1>1, <1>5 DEF DonePhase
  <2> QED BY <2>1 DEF PhaseInv
<1>6. CASE DeadPhase
  BY <1>6 DEF DeadPhase, PhaseInv
<1> QED BY <1>3, <1>4, <1>5, <1>6 DEF PhaseInv

\* Steps that write no segment.
LEMMA StatesQuiet ==
  ASSUME NEW c, SegStates(c), UNCHANGED <<desc, bd, free_seg_list>>,
         \A d \in Range(pending_list') : Ready(d),
         \A d \in Range(done_list') : Transferred(d),
         tasklet'.desc # NoDesc => Transferred(tasklet'.desc),
         pc'[c] = "prep_slave_sg" =>
           \/ Held(hand'[c]) = {}
           \/ pc[c] = "prep_slave_sg" /\ hand'[c] = hand[c],
         pc'[c] \in Submitting => pc[c] \in Submitting /\ hand'[c] = hand[c]
  PROVE  SegStates(c)'
<1>1. \A d : /\ Held(d)' = Held(d) /\ (Ready(d)' <=> Ready(d))
             /\ (Transferred(d)' <=> Transferred(d))
  BY SameState
<1>2. \A s \in Range(free_seg_list') : ~bd'[s].eop
  BY DEF SegStates
<1>3. pc'[c] = "prep_slave_sg" => \A s \in Range(desc'[hand'[c]].segs) : bd'[s].state = "filled" /\ ~bd'[s].eop
  BY DEF SegStates, Held
<1>4. pc'[c] \in Submitting => Ready(hand[c])' /\ hand'[c] = hand[c]
  BY <1>1 DEF SegStates
<1> QED BY <1>1, <1>2, <1>3, <1>4 DEF SegStates, Held

\* The steps of a client that write no segment.
LEMMA StatesClient ==
  ASSUME NEW c \in Client, OnlyClient(c), ChainBase, RingInv(c), SegStates(c),
         \/ \E d \in Desc, kind \in PrepCalls, n \in 1 .. MaxSegs : PrepBegin(c, d, kind, n)
         \/ SubmitNotBusy(c) \/ SubmitCheckErr(c) \/ SubmitReset(c) \/ IssuePending(c)
         \/ StatusBegin(c) \/ StatusWalk(c)
  PROVE  SegStates(c)'
<1> USE DEF ChainBase, QInv, IInv
<1>1. /\ \A d \in Range(pending_list) : Ready(d)
      /\ \A d \in Range(done_list) : Transferred(d)
      /\ tasklet.desc # NoDesc => Transferred(tasklet.desc)
  BY DEF SegStates
<1>2. ASSUME NEW d \in Desc, NEW kind \in PrepCalls, NEW n \in 1 .. MaxSegs,
             PrepBegin(c, d, kind, n)
      PROVE  SegStates(c)'
  <2>1. UNCHANGED <<desc, bd, free_seg_list, pending_list, done_list, tasklet>>
    BY <1>2 DEF PrepBegin, listVars, memVars
  <2>2. kind = "prep_slave_sg" /\ pc'[c] = kind /\ hand'[c] = d
    BY <1>2 DEF PrepBegin, OnlyClient, SlaveOnly, PrepCalls, Goto, TypeOK, ClientsOK
  <2>3. desc[d].segs = <<>>
    BY <1>2 DEF PrepBegin, RingInv
  <2>4. Held(hand'[c]) = {}
    BY <2>2, <2>3, EmptyList DEF Held
  <2>5. pc'[c] \notin Submitting
    BY <2>2 DEF Submitting
  <2> QED BY <1>1, <2>1, <2>4, <2>5, StatesQuiet
<1>3. CASE SubmitNotBusy(c) \/ SubmitCheckErr(c) \/ SubmitReset(c)
  <2>1. UNCHANGED <<desc, bd, free_seg_list, pending_list, done_list, tasklet, hand>>
    BY <1>3 DEF SubmitNotBusy, SubmitCheckErr, SubmitReset, listVars, descVars, memVars
  <2>2. pc[c] \in Submitting /\ pc'[c] # "prep_slave_sg"
    BY <1>3 DEF SubmitNotBusy, SubmitCheckErr, SubmitReset, Submitting, Goto, TypeOK, ClientsOK
  <2> QED BY <1>1, <2>1, <2>2, StatesQuiet
<1>4. CASE IssuePending(c) \/ StatusBegin(c) \/ StatusWalk(c)
  <2>1. UNCHANGED <<desc, bd, free_seg_list, done_list, tasklet>>
    BY <1>4 DEF IssuePending, StatusBegin, StatusWalk, listVars, descVars, memVars
  <2>2. Range(pending_list') \subseteq Range(pending_list)
    BY <1>4, EmptyList DEF IssuePending, StartTransfer, StatusBegin, StatusWalk, listVars
  <2>3. pc'[c] \notin Submitting /\ pc'[c] # "prep_slave_sg"
    BY <1>4 DEF IssuePending, StatusBegin, StatusWalk, Submitting, Goto, clientVars, TypeOK,
       ClientsOK
  <2> QED BY <1>1, <2>1, <2>2, <2>3, StatesQuiet
<1> QED BY <1>2, <1>3, <1>4

\* The steps of the handlers that write no segment.
LEMMA StatesHandler ==
  ASSUME NEW c \in Client, ChainBase, SegStates(c), PhaseInv,
         \/ EngineError \/ Irq \/ UNCHANGED vars
         \/ TaskletRun \/ TaskletExit \/ TaskletCyclic \/ TaskletCyclicReturn \/ TaskletPop
  PROVE  SegStates(c)'
<1> USE DEF ChainBase, QInv, IInv
<1>1. /\ \A d \in Range(pending_list) : Ready(d)
      /\ \A d \in Range(done_list) : Transferred(d)
      /\ tasklet.desc # NoDesc => Transferred(tasklet.desc)
  BY DEF SegStates
<1>2. UNCHANGED <<desc, bd, free_seg_list, pc, hand>>
  BY DEF EngineError, Irq, IrqAck, IrqLock, IrqComplete, IrqRestart, TaskletRun, TaskletExit,
     TaskletCyclic, TaskletCyclicReturn, TaskletPop, TaskletUnchanged, vars, descVars, memVars,
     clientVars
<1>3. ASSUME \A d \in Range(pending_list') : Ready(d),
             \A d \in Range(done_list') : Transferred(d),
             tasklet'.desc # NoDesc => Transferred(tasklet'.desc)
      PROVE  SegStates(c)'
  BY <1>2, <1>3, StatesQuiet
<1>4. CASE EngineError \/ IrqAck \/ IrqLock \/ TaskletRun \/ TaskletExit \/ TaskletCyclic
           \/ TaskletCyclicReturn \/ UNCHANGED vars
  <2>1. pending_list' = pending_list /\ done_list' = done_list /\ tasklet'.desc = tasklet.desc
    BY <1>4 DEF EngineError, IrqAck, IrqLock, TaskletRun, TaskletExit, TaskletCyclic,
       TaskletCyclicReturn, TaskletUnchanged, ScheduleTasklet, vars, listVars, TypeOK, HandlersOK
  <2> QED BY <1>1, <1>3, <2>1
<1>5. CASE IrqRestart
  <2>1. done_list' = done_list /\ tasklet'.desc = tasklet.desc
    BY <1>5 DEF IrqRestart, ScheduleTasklet, TypeOK, HandlersOK
  <2>2. Range(pending_list') \subseteq Range(pending_list)
    BY <1>5, EmptyList DEF IrqRestart, StartTransfer
  <2> QED BY <1>1, <1>3, <2>1, <2>2
<1>6. CASE IrqComplete
  <2>1. /\ pending_list' = pending_list /\ tasklet' = tasklet /\ irq = "move"
        /\ active_list # <<>> /\ done_list' = Append(done_list, Head(active_list))
    BY <1>6 DEF IrqComplete
  <2>2. Head(active_list) \in Range(active_list) /\ Head(active_list) \in Desc
    BY <2>1, EndsOfList DEF TypeOK, ListsOK
  <2>3. Range(done_list') = Range(done_list) \cup {Head(active_list)}
    BY <2>1, <2>2, AppendList DEF TypeOK, ListsOK
  <2>4. Transferred(Head(active_list))
    BY <2>1, <2>2 DEF PhaseInv, IdlePhase, BusyPhase, DonePhase, DeadPhase
  <2> QED BY <1>1, <1>3, <2>1, <2>3, <2>4
<1>7. CASE TaskletPop
  <2>1. /\ pending_list' = pending_list /\ tasklet'.desc = Head(done_list)
        /\ done_list # <<>> /\ done_list' = Tail(done_list)
    BY <1>7 DEF TaskletPop, TaskletUnchanged, TypeOK, HandlersOK
  <2>2. Range(done_list) = {Head(done_list)} \cup Range(Tail(done_list))
    BY <2>1, TailList DEF TypeOK, ListsOK
  <2> QED BY <1>1, <1>3, <2>1, <2>2
<1> QED BY <1>4, <1>5, <1>6, <1>7 DEF Irq

\* A transaction that is not the one in hand is not written by prepare.
LEMMA StatesTaken ==
  ASSUME NEW c \in Client, OnlyClient(c), ChainBase, SegStates(c), PrepAlloc(c)
  PROVE  SegStates(c)'
<1> USE DEF ChainBase, QInv, IInv
<1>1. PICK h \in Desc : h = hand[c] /\ h \notin Queued /\ h # tasklet.desc
  BY HandInDesc DEF PrepAlloc, Preparing, Own, OneOwner
<1>2. PICK s \in Seg : s = Head(free_seg_list) /\ s \in Range(free_seg_list)
  BY EndsOfList DEF PrepAlloc, TypeOK, MemOK
<1>3. /\ bd' = [bd EXCEPT ![s].state = "filled"]
      /\ desc' = [desc EXCEPT ![h].segs = Append(@, s)]
      /\ free_seg_list' = Tail(free_seg_list) /\ free_seg_list # <<>>
      /\ UNCHANGED <<pending_list, done_list, tasklet, pc, hand>>
  BY <1>1, <1>2 DEF PrepAlloc, listVars
<1>4. /\ bd'[s].state = "filled" /\ bd'[s].eop = bd[s].eop
      /\ \A r \in Seg \ {s} : bd'[r] = bd[r]
  BY <1>3 DEF TypeOK, MemOK, Bd
<1>5. ASSUME NEW d \in Desc \ {h}
      PROVE  (Ready(d)' <=> Ready(d)) /\ (Transferred(d)' <=> Transferred(d))
  <2>1. desc'[d].segs = desc[d].segs
    BY <1>3 DEF TypeOK, DescOK
  <2>2. Held(d) \subseteq Seg \ {s}
    BY <1>2, RangeType DEF SegsApart, Held, TypeOK, DescOK
  <2> QED BY <1>4, <2>1, <2>2, SameState
<1>6. pc[c] = "prep_slave_sg"
  BY DEF PrepAlloc, PrepCalls, SlaveInv
<1>7. ~bd[s].eop
  BY <1>2 DEF SegStates
<1>8. \A r \in Range(free_seg_list') : ~bd'[r].eop
  <2>1. Range(free_seg_list') \subseteq Range(free_seg_list) /\ Range(free_seg_list) \subseteq Seg
    BY <1>3, TailList, RangeType DEF TypeOK, MemOK
  <2>2. \A r \in Range(free_seg_list) : ~bd[r].eop
    BY DEF SegStates
  <2>3. \A r \in Seg : bd'[r].eop = bd[r].eop
    BY <1>4
  <2> QED BY <2>1, <2>2, <2>3
<1>9. \A r \in Range(desc'[h].segs) : bd'[r].state = "filled" /\ ~bd'[r].eop
  <2>1. desc'[h].segs = Append(desc[h].segs, s) /\ desc[h].segs \in Seq(Seg)
    BY <1>3 DEF TypeOK, DescOK
  <2>2. Range(desc'[h].segs) = Held(h) \cup {s} /\ Held(h) \subseteq Seg
    BY <2>1, AppendList, RangeType DEF Held
  <2>3. \A r \in Held(h) : bd[r].state = "filled" /\ ~bd[r].eop
    BY <1>1, <1>6 DEF SegStates
  <2> QED BY <1>4, <1>7, <2>2, <2>3
<1>10. pc'[c] \notin Submitting
  BY <1>3, <1>6 DEF Submitting
<1>11. /\ \A d \in Range(pending_list') \cup Range(done_list') : d \in Desc \ {h}
       /\ tasklet'.desc # NoDesc => tasklet'.desc \in Desc \ {h}
  BY <1>1, <1>3, RangeType DEF Queued, TypeOK, ListsOK, HandlersOK
<1>12. /\ \A d \in Range(pending_list') : Ready(d)'
       /\ \A d \in Range(done_list') : Transferred(d)'
       /\ tasklet'.desc # NoDesc => Transferred(tasklet.desc)' /\ tasklet' = tasklet
  <2>1. /\ \A d \in Range(pending_list') : Ready(d)
        /\ \A d \in Range(done_list') : Transferred(d)
        /\ tasklet'.desc # NoDesc => Transferred(tasklet.desc)
    BY <1>3 DEF SegStates
  <2> QED BY <1>3, <1>5, <1>11, <2>1
<1>13. hand'[c] = h
  BY <1>1, <1>3
<1>14. pc'[c] = "prep_slave_sg" => \A r \in Held(hand[c])' : bd'[r].state = "filled" /\ ~bd'[r].eop
  BY <1>9, <1>13 DEF Held
<1> QED BY <1>8, <1>10, <1>12, <1>14 DEF SegStates

\* The end of packet is set in the last segment.
LEMMA StatesEnded ==
  ASSUME NEW c \in Client, OnlyClient(c), ChainBase, SegStates(c), PrepEnd(c)
  PROVE  SegStates(c)'
<1> USE DEF ChainBase, QInv, IInv
<1>1. PICK h \in Desc : h = hand[c] /\ h \notin Queued /\ h # tasklet.desc
  BY HandInDesc DEF PrepEnd, Preparing, Own, OneOwner
<1>2. pc[c] = "prep_slave_sg" /\ desc[h].segs # <<>>
  <2>1. pc[c] = "prep_slave_sg" /\ need[c] = 0
    BY DEF PrepEnd, PrepCalls, SlaveInv
  <2> QED BY <1>1, <2>1 DEF HaveSegs, PrepCalls
<1>3. PICK q \in Seq(Seg), s \in Seg :
        q = desc[h].segs /\ s = Last(q) /\ s = q[Len(q)] /\ s \in Held(h) /\ q # <<>>
  <2>1. desc[h].segs \in Seq(Seg)
    BY DEF TypeOK, DescOK
  <2> QED BY <1>2, <2>1, EndsOfList DEF Held, Last
<1>4. /\ bd' = [bd EXCEPT ![s].eop = TRUE]
      /\ desc' = [desc EXCEPT ![h].cyclic = FALSE]
      /\ pc'[c] = "prepared"
      /\ UNCHANGED <<free_seg_list, pending_list, done_list, tasklet, hand>>
  BY <1>1, <1>2, <1>3 DEF PrepEnd, TailSegment, listVars, Goto, TypeOK, ClientsOK
<1>5. /\ bd'[s].state = bd[s].state /\ bd'[s].eop
      /\ \A r \in Seg \ {s} : bd'[r] = bd[r]
  BY <1>4 DEF TypeOK, MemOK, Bd
<1>6. \A d \in Desc : desc'[d].segs = desc[d].segs
  BY <1>4 DEF TypeOK, DescOK
<1>7. ASSUME NEW d \in Desc \ {h}
      PROVE  (Ready(d)' <=> Ready(d)) /\ (Transferred(d)' <=> Transferred(d))
  <2>1. Held(d) \subseteq Seg \ {s}
    <3>1. Held(d) \cap Held(h) = {}
      BY DEF SegsApart
    <3>2. Held(d) \subseteq Seg
      BY RangeType DEF Held, TypeOK, DescOK
    <3> QED BY <1>3, <3>1, <3>2
  <2> QED BY <1>5, <1>6, <2>1, SameState
<1>8. \A r \in Range(free_seg_list') : ~bd'[r].eop
  <2>1. \A r \in Range(free_seg_list) : r # s /\ r \in Seg /\ ~bd[r].eop
    BY <1>3, RangeType DEF SegsApart, SegStates, TypeOK, MemOK
  <2> QED BY <1>4, <1>5, <2>1
<1>9. \A r \in Held(h) : bd[r].state = "filled" /\ ~bd[r].eop
  BY <1>1, <1>2 DEF SegStates
<1>10. Ready(h)'
  <2>1. Held(h) \subseteq Seg
    BY <1>3, RangeType DEF Held
  <2>2. Held(h)' = Held(h)
    BY <1>6 DEF Held
  <2>3. InState(h, "filled")'
    BY <1>5, <1>9, <2>1, <2>2 DEF InState
  <2>4. DOMAIN q = 1 .. Len(q) /\ Len(q) \in DOMAIN q
    <3>1. Len(q) \in Nat /\ Len(q) # 0
      BY <1>3, LenProperties, EmptySeq
    <3> QED BY <3>1, LenProperties
  <2>5. \A j \in DOMAIN q : j # Len(q) => q[j] # s
    BY <1>3, <2>4 DEF SegsApart, IsInjective
  <2>6. \A j \in DOMAIN q : q[j] \in Held(h) /\ q[j] \in Seg
    BY <1>3, <2>1 DEF Held, Range
  <2>7. \A j \in DOMAIN q : bd'[q[j]].eop <=> j = Len(q)
    BY <1>3, <1>5, <1>9, <2>5, <2>6
  <2>8. EopAtEnd(h)'
    BY <1>3, <1>6, <2>7 DEF EopAtEnd
  <2> QED BY <2>3, <2>8 DEF Ready
<1>11. /\ \A d \in Range(pending_list') \cup Range(done_list') : d \in Desc \ {h}
       /\ tasklet'.desc # NoDesc => tasklet'.desc \in Desc \ {h}
  BY <1>1, <1>4, RangeType DEF Queued, TypeOK, ListsOK, HandlersOK
<1>12. /\ \A d \in Range(pending_list') : Ready(d)'
       /\ \A d \in Range(done_list') : Transferred(d)'
       /\ tasklet'.desc # NoDesc => Transferred(tasklet.desc)' /\ tasklet' = tasklet
  <2>1. /\ \A d \in Range(pending_list') : Ready(d)
        /\ \A d \in Range(done_list') : Transferred(d)
        /\ tasklet'.desc # NoDesc => Transferred(tasklet.desc)
    BY <1>4 DEF SegStates
  <2> QED BY <1>4, <1>7, <1>11, <2>1
<1>13. Ready(hand[c])' /\ pc'[c] # "prep_slave_sg"
  BY <1>1, <1>4, <1>10 DEF Ready, EopAtEnd, InState, Held
<1> QED BY <1>8, <1>12, <1>13 DEF SegStates

\* append_desc_queue only writes what is there.
LEMMA StatesSubmitted ==
  ASSUME NEW c \in Client, ChainBase, RingInv(c), SegStates(c), SubmitAppend(c)
  PROVE  SegStates(c)'
<1> USE DEF ChainBase, QInv, IInv
<1>1. PICK h \in Desc : h = hand[c]
  BY HandInDesc DEF SubmitAppend, Preparing
<1>2. bd' = bd
  BY LinkIsThere
<1>3. /\ \A d \in Desc : desc'[d].segs = desc[d].segs
      /\ pending_list' = Append(pending_list, h)
      /\ UNCHANGED <<free_seg_list, done_list, tasklet>>
      /\ pc[c] = "append" /\ pc'[c] \in {"bug", "idle"}
  BY <1>1 DEF SubmitAppend, Goto, TypeOK, DescOK, ClientsOK
<1>4. \A d \in Desc : (Ready(d)' <=> Ready(d)) /\ (Transferred(d)' <=> Transferred(d))
  BY <1>2, <1>3, SameState
<1>5. /\ Range(pending_list') = Range(pending_list) \cup {h}
      /\ Range(pending_list) \subseteq Desc /\ Range(done_list) \subseteq Desc
  BY <1>3, AppendList, RangeType DEF TypeOK, ListsOK
<1>6. Ready(h)
  BY <1>1, <1>3 DEF SegStates, Submitting
<1>7. \A d \in Range(pending_list') : Ready(d)'
  BY <1>4, <1>5, <1>6 DEF SegStates
<1>8. \A d \in Range(done_list') : Transferred(d)'
  BY <1>3, <1>4, <1>5 DEF SegStates
<1>9. tasklet'.desc # NoDesc => Transferred(tasklet.desc)' /\ tasklet' = tasklet
  <2>1. tasklet.desc # NoDesc => Transferred(tasklet.desc) /\ tasklet.desc \in Desc
    BY DEF SegStates, TypeOK, HandlersOK
  <2> QED BY <1>3, <1>4, <2>1
<1>10. \A s \in Range(free_seg_list') : ~bd'[s].eop
  BY <1>2, <1>3 DEF SegStates
<1>11. pc'[c] \notin Submitting /\ pc'[c] # "prep_slave_sg"
  BY <1>3 DEF Submitting
<1> QED BY <1>7, <1>8, <1>9, <1>10, <1>11 DEF SegStates

\* The segments that the tasklet frees are nobody else's.
LEMMA StatesFreed ==
  ASSUME NEW c \in Client, ChainBase, SegStates(c), TaskletFree
  PROVE  SegStates(c)'
<1> USE DEF ChainBase, QInv, IInv
<1>1. PICK h \in Desc : h = tasklet.desc /\ h \notin Queued
                        /\ (pc[c] \in Preparing => hand[c] # h)
  BY DEF TaskletFree, Own, OneOwner, TypeOK, HandlersOK
<1>2. /\ bd' = [s \in Seg |-> IF s \in Held(h) THEN Clean(bd[s]) ELSE bd[s]]
      /\ desc' = [desc EXCEPT ![h] = BlankDesc]
      /\ free_seg_list' = free_seg_list \o desc[h].segs
      /\ tasklet'.desc = NoDesc
      /\ UNCHANGED <<pending_list, done_list, pc, hand>>
  BY <1>1 DEF TaskletFree, FreeTxDescriptor, TaskletUnchanged, clientVars, Held, TypeOK, HandlersOK
<1>3. ASSUME NEW d \in Desc \ {h}
      PROVE  (Ready(d)' <=> Ready(d)) /\ (Transferred(d)' <=> Transferred(d)) /\ Held(d)' = Held(d)
             /\ \A s \in Held(d) : bd'[s] = bd[s]
  <2>1. desc'[d].segs = desc[d].segs
    BY <1>2 DEF TypeOK, DescOK
  <2>2. Held(d) \subseteq Seg /\ Held(d) \cap Held(h) = {}
    BY RangeType DEF SegsApart, Held, TypeOK, DescOK
  <2>3. \A s \in Held(d) : bd'[s] = bd[s]
    BY <1>2, <2>2
  <2> QED BY <2>1, <2>3, SameState
<1>4. \A s \in Range(free_seg_list') : ~bd'[s].eop
  <2>1. Range(free_seg_list') = Range(free_seg_list) \cup Held(h) /\ Range(free_seg_list') \subseteq Seg
    BY <1>2, ConcatList, RangeType DEF Held, TypeOK, MemOK, DescOK
  <2>2. \A s \in Held(h) : s \in Seg => ~bd'[s].eop
    BY <1>2 DEF Clean, TypeOK, MemOK, Bd
  <2>3. \A s \in Range(free_seg_list) : s \notin Held(h) /\ ~bd[s].eop
    BY DEF SegsApart, SegStates
  <2> QED BY <1>2, <2>1, <2>2, <2>3
<1>5. /\ \A d \in Range(pending_list') \cup Range(done_list') : d \in Desc \ {h}
      /\ pc[c] \in Preparing => hand[c] \in Desc \ {h}
  BY <1>1, <1>2, RangeType, HandInDesc DEF Queued, TypeOK, ListsOK
<1>6. /\ \A d \in Range(pending_list') : Ready(d)'
      /\ \A d \in Range(done_list') : Transferred(d)'
  BY <1>2, <1>3, <1>5 DEF SegStates
<1>7. pc'[c] \in Submitting => Ready(hand[c])' /\ hand' = hand
  BY <1>2, <1>3, <1>5 DEF SegStates, Submitting, Preparing
<1>8. pc'[c] = "prep_slave_sg" => \A s \in Range(desc'[hand'[c]].segs) : bd'[s].state = "filled" /\ ~bd'[s].eop
  <2>1. pc[c] = "prep_slave_sg" => hand[c] \in Desc \ {h}
    BY <1>5 DEF Preparing, PrepCalls
  <2>2. pc[c] = "prep_slave_sg" => \A s \in Held(hand[c]) : bd[s].state = "filled" /\ ~bd[s].eop
    BY DEF SegStates
  <2>3. pc[c] = "prep_slave_sg" => Range(desc'[hand'[c]].segs) = Held(hand[c])
    <3>1. pc[c] = "prep_slave_sg" => desc'[hand[c]].segs = desc[hand[c]].segs
      BY <1>2, <2>1 DEF TypeOK, DescOK
    <3> QED BY <1>2, <3>1 DEF Held
  <2>4. pc[c] = "prep_slave_sg" => \A s \in Held(hand[c]) : bd'[s] = bd[s]
    BY <1>3, <2>1
  <2> QED BY <1>2, <2>2, <2>3, <2>4
<1>9. hand' = hand
  BY <1>2
<1> QED BY <1>2, <1>4, <1>6, <1>7, <1>8, <1>9 DEF SegStates, Ready, InState, EopAtEnd, Held

\* A channel without a pool has no segments to lose.
LEMMA NoPoolNoSegs ==
  ASSUME ChainBase, ~pool
  PROVE  Range(free_seg_list) = {} /\ \A d \in Desc : Held(d) = {}
BY DEF ChainBase, SegsAccounted

LEMMA StatesAllocated ==
  ASSUME NEW c \in Client, ChainBase, SegStates(c), AllocChanResources
  PROVE  SegStates(c)'
<1> USE DEF ChainBase, QInv, IInv
<1>1. /\ ~pool /\ pc[c] = "idle" /\ UNCHANGED <<pending_list, done_list, desc, tasklet, pc, hand>>
      /\ bd' = [s \in Seg |-> RingBd(s)]
      /\ free_seg_list' = free_seg_list \o [i \in 1 .. NumDescs |-> i - 1]
  BY DEF AllocChanResources, listVars, descVars, clientVars
<1>2. \A d \in Desc : (Ready(d)' <=> Ready(d)) /\ (Transferred(d)' <=> Transferred(d))
  <2>1. \A d \in Desc : Held(d) = {}
    BY <1>1, NoPoolNoSegs
  <2> QED BY <1>1, <2>1, SameState
<1>3. Range(free_seg_list') \subseteq Seg
  BY TypeStep, RangeType DEF TypeOK, MemOK, Next
<1>4. \A s \in Range(free_seg_list') : ~bd'[s].eop
  BY <1>1, <1>3 DEF RingBd
<1>5. /\ Range(pending_list) \subseteq Desc /\ Range(done_list) \subseteq Desc
      /\ tasklet.desc # NoDesc => tasklet.desc \in Desc
  BY RangeType DEF TypeOK, ListsOK, HandlersOK
<1>6. pc'[c] \notin Submitting /\ pc'[c] # "prep_slave_sg"
  BY <1>1 DEF Submitting
<1>7. \A d \in Range(pending_list') : Ready(d)'
  BY <1>1, <1>2, <1>5 DEF SegStates
<1>8. \A d \in Range(done_list') : Transferred(d)'
  BY <1>1, <1>2, <1>5 DEF SegStates
<1>9. tasklet'.desc # NoDesc => Transferred(tasklet.desc)' /\ tasklet' = tasklet
  BY <1>1, <1>2, <1>5 DEF SegStates
<1> QED BY <1>4, <1>6, <1>7, <1>8, <1>9 DEF SegStates

\* The engine writes a segment of an active transaction.
LEMMA EngineWrites ==
  ASSUME ChainBase, PhaseInv, EngineTransfer
  PROVE  \E i \in DOMAIN active_list :
           /\ active_list[i] \in Desc /\ active_list[i] \in Range(active_list)
           /\ \E j \in DOMAIN desc[active_list[i]].segs : AtWork(i, j)
           /\ eng.cur \in Held(active_list[i]) /\ eng.cur \in Seg
           /\ bd' = [bd EXCEPT ![eng.cur].state = "cmplt"]
<1> USE DEF ChainBase, QInv, IInv
<1>1. BusyPhase
  BY DEF EngineTransfer, PhaseInv, IdlePhase, DonePhase, DeadPhase
<1>2. PICK i \in DOMAIN active_list : \E j \in DOMAIN desc[active_list[i]].segs : AtWork(i, j)
  BY <1>1 DEF BusyPhase
<1>3. PICK j \in DOMAIN desc[active_list[i]].segs : AtWork(i, j)
  BY <1>2
<1>4. active_list[i] \in Range(active_list) /\ active_list[i] \in Desc
  <2>1. active_list[i] \in Range(active_list)
    BY DEF Range
  <2> QED BY <2>1, RangeType DEF TypeOK, ListsOK
<1>5. eng.cur \in Held(active_list[i])
  BY <1>3 DEF AtWork, Held, Range
<1>6. eng.cur \in Seg
  BY DEF TypeOK, EngOK
<1> QED BY <1>2, <1>4, <1>5, <1>6 DEF EngineTransfer

LEMMA StatesTransferred ==
  ASSUME NEW c \in Client, ChainBase, SegStates(c), PhaseInv, EngineTransfer
  PROVE  SegStates(c)'
<1> USE DEF ChainBase, QInv, IInv
<1>1. PICK h \in Desc : /\ h \in Range(active_list) /\ eng.cur \in Held(h) /\ eng.cur \in Seg
                        /\ bd' = [bd EXCEPT ![eng.cur].state = "cmplt"]
  BY EngineWrites
<1>2. UNCHANGED <<desc, free_seg_list, pending_list, done_list, tasklet, pc, hand>>
  BY DEF EngineTransfer, listVars, descVars, clientVars
<1>3. /\ \A s \in Seg : bd'[s].eop = bd[s].eop
      /\ \A s \in Seg \ {eng.cur} : bd'[s] = bd[s]
  BY <1>1 DEF TypeOK, MemOK, Bd
<1>4. ASSUME NEW d \in Desc \ {h}
      PROVE  /\ (Ready(d)' <=> Ready(d)) /\ (Transferred(d)' <=> Transferred(d))
             /\ \A s \in Held(d) : bd'[s] = bd[s]
  <2>1. Held(d) \subseteq Seg /\ Held(d) \cap Held(h) = {}
    BY RangeType DEF SegsApart, Held, TypeOK, DescOK
  <2>2. \A s \in Held(d) : bd'[s] = bd[s]
    BY <1>1, <1>3, <2>1
  <2> QED BY <1>2, <2>2, SameState
<1>5. /\ \A d \in Range(pending_list) \cup Range(done_list) : d \in Desc \ {h}
      /\ pc[c] \in Preparing => hand[c] \in Desc \ {h}
      /\ tasklet.desc # NoDesc => tasklet.desc \in Desc \ {h}
  <2>1. Range(pending_list) \subseteq Desc /\ Range(done_list) \subseteq Desc
    BY RangeType DEF TypeOK, ListsOK
  <2>2. h \notin Range(pending_list) /\ h \notin Range(done_list) /\ h \in Queued
    BY <1>1 DEF Own, ListsDistinct, Queued
  <2>3. pc[c] \in Preparing => hand[c] \in Desc /\ hand[c] # h
    BY <2>2, HandInDesc DEF Own, OneOwner
  <2>4. tasklet.desc # NoDesc => tasklet.desc \in Desc /\ tasklet.desc # h
    BY <2>2 DEF Own, OneOwner, TypeOK, HandlersOK
  <2> QED BY <2>1, <2>2, <2>3, <2>4
<1>6. \A s \in Range(free_seg_list') : ~bd'[s].eop
  <2>1. Range(free_seg_list) \subseteq Seg /\ \A s \in Range(free_seg_list) : ~bd[s].eop
    BY RangeType DEF SegStates, TypeOK, MemOK
  <2> QED BY <1>2, <1>3, <2>1
<1>7. /\ \A d \in Range(pending_list') : Ready(d)'
      /\ \A d \in Range(done_list') : Transferred(d)'
  BY <1>2, <1>4, <1>5 DEF SegStates
<1>8. tasklet'.desc # NoDesc => Transferred(tasklet.desc)' /\ tasklet' = tasklet
  BY <1>2, <1>4, <1>5 DEF SegStates
<1>9. pc'[c] \in Submitting => Ready(hand[c])' /\ hand' = hand
  BY <1>2, <1>4, <1>5 DEF SegStates, Submitting, Preparing
<1>10. pc'[c] = "prep_slave_sg" => \A s \in Held(hand[c])' : bd'[s].state = "filled" /\ ~bd'[s].eop
  <2>1. pc[c] = "prep_slave_sg" => \A s \in Held(hand[c]) : bd'[s] = bd[s]
    BY <1>4, <1>5 DEF Preparing, PrepCalls
  <2>2. pc[c] = "prep_slave_sg" => \A s \in Held(hand[c]) : bd[s].state = "filled" /\ ~bd[s].eop
    BY DEF SegStates
  <2>3. Held(hand[c])' = Held(hand[c])
    BY <1>2 DEF Held
  <2> QED BY <1>2, <2>1, <2>2, <2>3
<1> QED BY <1>6, <1>7, <1>8, <1>9, <1>10 DEF SegStates

LEMMA StatesStep ==
  ASSUME NEW c \in Client, OnlyClient(c), ChainBase, RingInv(c), PoolSuffices, SegStates(c),
         PhaseInv, [Next]_vars
  PROVE  SegStates(c)'
<1>1. QInv
  BY DEF ChainBase
<1>2. CASE AllocChanResources \/ PrepAlloc(c) \/ PrepEnd(c) \/ SubmitAppend(c)
  BY <1>2, StatesAllocated, StatesTaken, StatesEnded, StatesSubmitted
<1>3. CASE EngineTransfer \/ TaskletFree
  BY <1>3, StatesTransferred, StatesFreed
<1>4. CASE \/ \E d \in Desc, kind \in PrepCalls, n \in 1 .. MaxSegs : PrepBegin(c, d, kind, n)
           \/ SubmitNotBusy(c) \/ SubmitCheckErr(c) \/ SubmitReset(c) \/ IssuePending(c)
           \/ StatusBegin(c) \/ StatusWalk(c)
  BY <1>4, StatesClient
<1>5. CASE \/ EngineError \/ Irq \/ UNCHANGED vars
           \/ TaskletRun \/ TaskletExit \/ TaskletCyclic \/ TaskletCyclicReturn \/ TaskletPop
  BY <1>5, StatesHandler
<1> QED BY <1>1, <1>2, <1>3, <1>4, <1>5, OneSlaveStep DEF Engine, Tasklet

\* start_transfer takes the whole pending list, and its count.
LEMMA CountStart ==
  ASSUME TypeOK, NEW ch \in ChanType, StartTransfer(ch),
         ~ch.ctrl_reg.cyclic, ~eng.cr.cyclic, ch.desc_pendingcount <= CoalesceMax,
         ch.desc_pendingcount = Len(pending_list)
  PROVE  /\ ~chan'.ctrl_reg.cyclic /\ ~eng'.cr.cyclic
         /\ chan'.desc_pendingcount <= CoalesceMax
         /\ chan'.desc_pendingcount = Len(pending_list')
         /\ ch.err => chan'.err
<1>1. StartCtrl(ch) \in Ctrl /\ ~StartCtrl(ch).cyclic
  BY DEF StartCtrl, ChanType, Ctrl
<1>2. CASE chan' = ch /\ UNCHANGED <<pending_list, active_list, eng>>
  BY <1>2
<1>3. CASE /\ ~ch.err /\ pending_list' = <<>> /\ chan' = Started(ch)
           /\ eng' = [[eng EXCEPT !.cr = StartCtrl(ch), !.left = StartCtrl(ch).coalesce]
                        EXCEPT !.busy = TRUE, !.cur = FirstSeg, !.tail = LastSeg]
  <2>1. ~chan'.ctrl_reg.cyclic /\ chan'.desc_pendingcount = 0
    BY <1>1, <1>3 DEF Started, ChanType
  <2>2. ~eng'.cr.cyclic
    BY <1>1, <1>3 DEF TypeOK, EngOK
  <2>3. 0 <= CoalesceMax /\ Len(<<>>) = 0
    BY ConstantsAssumption, EmptySeq
  <2> QED BY <1>3, <2>1, <2>2, <2>3
<1>4. CASE /\ ~ch.err /\ eng' = [eng EXCEPT !.cr = StartCtrl(ch), !.left = StartCtrl(ch).coalesce]
           /\ chan' = [ch EXCEPT !.ctrl_reg = StartCtrl(ch), !.err = TRUE]
           /\ UNCHANGED <<pending_list, active_list>>
  <2>1. /\ ~chan'.ctrl_reg.cyclic /\ chan'.desc_pendingcount = ch.desc_pendingcount
    BY <1>1, <1>4 DEF ChanType
  <2>2. ~eng'.cr.cyclic
    BY <1>1, <1>4 DEF TypeOK, EngOK
  <2> QED BY <1>4, <2>1, <2>2
<1> QED BY <1>2, <1>3, <1>4 DEF StartTransfer

LEMMA CountStep ==
  ASSUME NEW c \in Client, OnlyClient(c), ChainBase, RingInv(c), PoolSuffices, CountInv(c),
         [Next]_vars
  PROVE  CountInv(c)'
<1> USE DEF ChainBase, QInv, IInv
<1>0. c # "irq" /\ c # "none"
  BY ConstantsAssumption
<1>1. CASE IssuePending(c)
  <2>1. /\ pc[c] = "idle" /\ StartTransfer(chan)
        /\ UNCHANGED <<lock, pc, irq>>
    BY <1>1 DEF IssuePending, clientVars
  <2>2. /\ ~chan'.ctrl_reg.cyclic /\ ~eng'.cr.cyclic /\ chan'.desc_pendingcount <= CoalesceMax
        /\ chan'.desc_pendingcount = Len(pending_list')
    BY <2>1, CountStart DEF CountInv, TypeOK, ChanOK, ChanType
  <2> QED BY <2>1, <2>2 DEF CountInv
<1>2. CASE IrqRestart
  <2>1. PICK ch \in ChanType : ch = [chan EXCEPT !.idle = TRUE]
    BY DEF TypeOK, ChanOK, ChanType
  <2>2. /\ StartTransfer(ch) /\ irq' = "none" /\ irq = "move" /\ lock = "irq" /\ pc' = pc
    BY <1>2, <2>1 DEF IrqRestart, clientVars, CountInv
  <2>3. pc[c] # "bug"
    BY <1>0, <2>2 DEF CountInv
  <2>4. /\ ~ch.ctrl_reg.cyclic /\ ~eng.cr.cyclic /\ ch.desc_pendingcount <= CoalesceMax
        /\ ch.desc_pendingcount = Len(pending_list) /\ ch.err = chan.err
    BY <2>1, <2>3 DEF CountInv, TypeOK, ChanOK
  <2>5. /\ ~chan'.ctrl_reg.cyclic /\ ~eng'.cr.cyclic /\ chan'.desc_pendingcount <= CoalesceMax
        /\ chan'.desc_pendingcount = Len(pending_list') /\ (ch.err => chan'.err)
    BY <2>2, <2>4, CountStart
  <2> QED BY <2>2, <2>3, <2>4, <2>5 DEF CountInv
<1>3. CASE SubmitAppend(c)
  <2>1. /\ pending_list' = Append(pending_list, hand[c]) /\ lock = "none" /\ pc[c] = "append"
        /\ UNCHANGED <<irq, eng>>
    BY <1>3 DEF SubmitAppend, Unlocked
  <2>2. Len(pending_list') = Len(pending_list) + 1
    <3>1. hand[c] \in Desc /\ pending_list \in Seq(Desc)
      BY <2>1, HandInDesc DEF Preparing, TypeOK, ListsOK
    <3> QED BY <2>1, <3>1, AppendProperties
  <2>3. chan'.ctrl_reg = chan.ctrl_reg
    BY <1>3 DEF SubmitAppend, TypeOK, ChanOK
  <2>4. chan.desc_pendingcount = Len(pending_list) /\ irq # "move"
    BY <2>1 DEF CountInv
  <2>5. CASE chan.desc_pendingcount + 1 > CoalesceMax
    <3>1. chan'.desc_pendingcount = CoalesceMax /\ lock' = c /\ pc'[c] = "bug"
      BY <1>3, <2>5 DEF SubmitAppend, Goto, TypeOK, ChanOK, ClientsOK
    <3> QED BY <2>1, <2>3, <2>4, <3>1, ConstantsAssumption DEF CountInv
  <2>6. CASE ~(chan.desc_pendingcount + 1 > CoalesceMax)
    <3>1. /\ chan'.desc_pendingcount = chan.desc_pendingcount + 1 /\ pc'[c] = "idle"
      BY <1>3, <2>6 DEF SubmitAppend, Goto, TypeOK, ChanOK, ClientsOK
    <3>2. chan'.desc_pendingcount <= CoalesceMax
      BY <2>6, <3>1, ConstantsAssumption DEF TypeOK, ChanOK
    <3> QED BY <2>1, <2>2, <2>3, <2>4, <3>1, <3>2 DEF CountInv
  <2> QED BY <2>5, <2>6
<1>4. CASE AllocChanResources \/ PrepAlloc(c) \/ StatusBegin(c) \/ StatusWalk(c)
           \/ \E d \in Desc, kind \in PrepCalls, n \in 1 .. MaxSegs : PrepBegin(c, d, kind, n)
  <2>1. /\ chan'.ctrl_reg.cyclic = chan.ctrl_reg.cyclic /\ chan'.err = chan.err
        /\ chan'.desc_pendingcount = chan.desc_pendingcount
        /\ eng'.cr.cyclic = eng.cr.cyclic \/ eng'.cr.cyclic = chan.ctrl_reg.cyclic
    BY <1>4 DEF AllocChanResources, PrepAlloc, StatusBegin, StatusWalk, PrepBegin, TypeOK, ChanOK,
       EngOK, Ctrl
  <2>2. /\ UNCHANGED <<pending_list, lock, irq>>
        /\ pc[c] # "bug" /\ pc'[c] # "bug" /\ pc'[c] # "reset"
    BY <1>4 DEF AllocChanResources, PrepAlloc, StatusBegin, StatusWalk, PrepBegin, PrepCalls,
       listVars, clientVars, Goto, TypeOK, ClientsOK
  <2> QED BY <2>1, <2>2 DEF CountInv
<1>5. CASE PrepEnd(c)
  <2>1. pc[c] = "prep_slave_sg"
    BY <1>5 DEF PrepEnd, PrepCalls, SlaveInv
  <2>2. /\ chan'.ctrl_reg.cyclic = chan.ctrl_reg.cyclic
        /\ chan'.desc_pendingcount = chan.desc_pendingcount /\ eng' = eng
        /\ pc'[c] = "prepared" /\ UNCHANGED <<pending_list, lock, irq>>
    BY <1>5, <2>1 DEF PrepEnd, listVars, Goto, TypeOK, ClientsOK, ChanOK, Ctrl
  <2> QED BY <2>1, <2>2 DEF CountInv
<1>6. CASE SubmitNotBusy(c) \/ SubmitCheckErr(c)
  <2>1. /\ UNCHANGED <<chan, eng, pending_list, lock, irq>> /\ pc[c] # "bug" /\ pc'[c] # "bug"
        /\ pc'[c] = "reset" => chan.err
    BY <1>6 DEF SubmitNotBusy, SubmitCheckErr, listVars, Goto, TypeOK, ClientsOK
  <2> QED BY <2>1 DEF CountInv
<1>7. CASE SubmitReset(c)
  <2>1. /\ chan'.ctrl_reg = eng.cr /\ chan'.desc_pendingcount = chan.desc_pendingcount
        /\ eng'.cr = ZeroCtrl /\ pc[c] = "reset" /\ pc'[c] = "append"
        /\ UNCHANGED <<pending_list, lock, irq>>
    BY <1>7 DEF SubmitReset, ResetEng, listVars, Goto, TypeOK, ClientsOK, ChanOK, EngOK
  <2> QED BY <2>1 DEF CountInv, ZeroCtrl
<1>8. CASE Engine
  <2>1. /\ eng'.cr = eng.cr /\ UNCHANGED <<chan, pending_list, lock, irq, pc>>
    BY <1>8 DEF Engine, EngineTransfer, EngineError, listVars, clientVars, TypeOK, EngOK
  <2> QED BY <2>1 DEF CountInv
<1>9. CASE IrqAck \/ IrqLock \/ IrqComplete
  <2>1. /\ eng'.cr = eng.cr /\ chan'.ctrl_reg = chan.ctrl_reg
        /\ chan'.desc_pendingcount = chan.desc_pendingcount /\ (chan.err => chan'.err)
        /\ pending_list' = pending_list /\ pc' = pc
    BY <1>9 DEF IrqAck, IrqLock, IrqComplete, listVars, clientVars, TypeOK, EngOK, ChanOK
  <2>2. CASE IrqAck
    <3>1. lock' = lock /\ irq' # "move"
      BY <2>2 DEF IrqAck
    <3> QED BY <2>1, <3>1 DEF CountInv
  <2>3. CASE IrqLock
    <3>1. lock = "none" /\ lock' = "irq"
      BY <2>3 DEF IrqLock, Unlocked
    <3> QED BY <1>0, <2>1, <3>1 DEF CountInv
  <2>4. CASE IrqComplete
    <3>1. lock' = lock /\ irq' = irq
      BY <2>4 DEF IrqComplete
    <3> QED BY <2>1, <3>1 DEF CountInv
  <2> QED BY <1>9, <2>2, <2>3, <2>4
<1>10. CASE Tasklet \/ UNCHANGED vars
  <2>1. UNCHANGED <<chan, eng, pending_list, lock, irq, pc>>
    BY <1>10 DEF Tasklet, TaskletRun, TaskletExit, TaskletCyclic, TaskletCyclicReturn, TaskletPop,
       TaskletFree, TaskletUnchanged, vars, listVars, clientVars
  <2> QED BY <2>1 DEF CountInv
<1> QED BY <1>1, <1>2, <1>3, <1>4, <1>5, <1>6, <1>7, <1>8, <1>9, <1>10, OneSlaveStep DEF Irq

-----------------------------------------------------------------------------
(* Steps that leave the batch alone, and its start *)

\* Neither clients nor the tasklet write an active transaction.
LEMMA ActiveKept ==
  ASSUME NEW c \in Client, OnlyClient(c), ChainBase, RingInv(c), NEW d \in Range(active_list),
         \/ AllocChanResources \/ PrepAlloc(c) \/ PrepEnd(c) \/ SubmitAppend(c) \/ TaskletFree
         \/ UNCHANGED <<desc, bd>>
  PROVE  desc'[d].segs = desc[d].segs /\ \A s \in Held(d) : bd'[s] = bd[s]
<1> USE DEF ChainBase, QInv, IInv
<1>1. /\ d \in Desc /\ d \in Queued /\ Held(d) \subseteq Seg
      /\ pc[c] \in Preparing => hand[c] # d /\ hand[c] \in Desc
      /\ tasklet.desc # d
  <2>1. d \in Desc /\ d \in Queued
    BY RangeType DEF Queued, TypeOK, ListsOK
  <2>2. Held(d) \subseteq Seg
    <3>1. desc[d].segs \in Seq(Seg)
      BY <2>1 DEF TypeOK, DescOK
    <3> QED BY <3>1, RangeType DEF Held
  <2>3. pc[c] \in Preparing => hand[c] # d /\ hand[c] \in Desc
    <3>1. pc[c] \in Preparing => hand[c] \notin Queued
      BY DEF Own, OneOwner
    <3>2. pc[c] \in Preparing => hand[c] \in Desc
      BY HandInDesc
    <3> QED BY <2>1, <3>1, <3>2
  <2>4. tasklet.desc # d
    <3>1. tasklet.desc # NoDesc => tasklet.desc \notin Queued
      BY DEF Own, OneOwner
    <3> QED BY <2>1, <3>1, ConstantsAssumption
  <2> QED BY <2>1, <2>2, <2>3, <2>4
<1>2. CASE UNCHANGED <<desc, bd>>
  BY <1>2
<1>3. CASE AllocChanResources
  BY <1>1, <1>3, NoPoolNoSegs DEF AllocChanResources, descVars
<1>4. CASE PrepAlloc(c)
  <2>1. hand[c] # d /\ hand[c] \in Desc
    BY <1>1, <1>4 DEF PrepAlloc, Preparing
  <2>2. PICK s \in Seg : s = Head(free_seg_list) /\ s \in Range(free_seg_list)
    BY <1>4, EndsOfList DEF PrepAlloc, TypeOK, MemOK
  <2>3. desc'[d].segs = desc[d].segs
    BY <1>1, <1>4, <2>1 DEF PrepAlloc, TypeOK, DescOK
  <2>4. \A r \in Seg \ {s} : bd'[r] = bd[r]
    BY <1>4, <2>2 DEF PrepAlloc, TypeOK, MemOK
  <2>5. s \notin Held(d)
    BY <1>1, <2>2 DEF SegsApart
  <2> QED BY <1>1, <2>3, <2>4, <2>5
<1>5. CASE PrepEnd(c)
  <2>1. hand[c] # d /\ hand[c] \in Desc
    BY <1>1, <1>5 DEF PrepEnd, Preparing
  <2>2. desc[hand[c]].segs # <<>> /\ desc[hand[c]].segs \in Seq(Seg)
    <3>1. pc[c] \in PrepCalls /\ need[c] = 0
      BY <1>5 DEF PrepEnd
    <3>2. desc[hand[c]].segs # <<>>
      BY <3>1 DEF HaveSegs
    <3> QED BY <2>1, <3>2 DEF TypeOK, DescOK
  <2>3. PICK s \in Seg : s = TailSegment(hand[c]) /\ s \in Held(hand[c])
    BY <2>2, EndsOfList DEF TailSegment, Held
  <2>4. desc'[d].segs = desc[d].segs
    BY <1>1, <1>5 DEF PrepEnd, TypeOK, DescOK
  <2>5. \A r \in Seg \ {s} : bd'[r] = bd[r]
    BY <1>5, <2>3 DEF PrepEnd, TypeOK, MemOK
  <2>6. s \notin Held(d)
    BY <1>1, <2>1, <2>3 DEF SegsApart
  <2> QED BY <1>1, <2>4, <2>5, <2>6
<1>6. CASE SubmitAppend(c)
  <2>1. bd' = bd
    BY <1>6, LinkIsThere
  <2> QED BY <1>1, <1>6, <2>1 DEF SubmitAppend, TypeOK, DescOK
<1>7. CASE TaskletFree
  <2>1. PICK h \in Desc : h = tasklet.desc /\ h # d
    BY <1>1, <1>7 DEF TaskletFree, Own, OneOwner, TypeOK, HandlersOK
  <2>2. /\ bd' = [s \in Seg |-> IF s \in Held(h) THEN Clean(bd[s]) ELSE bd[s]]
        /\ desc' = [desc EXCEPT ![h] = BlankDesc]
    BY <1>7, <2>1 DEF TaskletFree, FreeTxDescriptor, Held
  <2>3. Held(d) \cap Held(h) = {}
    BY <1>1, <2>1 DEF SegsApart
  <2> QED BY <1>1, <2>1, <2>2, <2>3 DEF TypeOK, DescOK
<1> QED BY <1>2, <1>3, <1>4, <1>5, <1>6, <1>7

LEMMA PhaseOthers ==
  ASSUME NEW c \in Client, OnlyClient(c), ChainBase, RingInv(c), PhaseInv,
         \/ AllocChanResources \/ PrepAlloc(c) \/ PrepEnd(c) \/ SubmitAppend(c)
         \/ SubmitNotBusy(c) \/ SubmitCheckErr(c) \/ StatusBegin(c) \/ StatusWalk(c)
         \/ \E d \in Desc, kind \in PrepCalls, n \in 1 .. MaxSegs : PrepBegin(c, d, kind, n)
         \/ Tasklet \/ UNCHANGED vars
  PROVE  PhaseInv'
<1> USE DEF ChainBase, QInv, IInv
<1>1. \A d \in Range(active_list) :
        desc'[d].segs = desc[d].segs /\ \A s \in Held(d) : bd'[s] = bd[s]
  <2>1. \/ AllocChanResources \/ PrepAlloc(c) \/ PrepEnd(c) \/ SubmitAppend(c) \/ TaskletFree
        \/ UNCHANGED <<desc, bd>>
    BY DEF SubmitNotBusy, SubmitCheckErr, StatusBegin, StatusWalk, PrepBegin, Tasklet, TaskletRun,
       TaskletExit, TaskletCyclic, TaskletCyclicReturn, TaskletPop, vars, descVars, memVars
  <2> QED BY <2>1, ActiveKept
<1>2. active_list' = active_list /\ irq' = irq /\ chan'.idle = chan.idle /\ chan'.err = chan.err
  <2>1. CASE AllocChanResources \/ PrepAlloc(c) \/ PrepEnd(c) \/ SubmitAppend(c)
    BY <2>1 DEF AllocChanResources, PrepAlloc, PrepEnd, SubmitAppend, listVars, TypeOK, ChanOK
  <2>2. CASE \/ SubmitNotBusy(c) \/ SubmitCheckErr(c) \/ StatusBegin(c) \/ StatusWalk(c)
             \/ \E d \in Desc, kind \in PrepCalls, n \in 1 .. MaxSegs : PrepBegin(c, d, kind, n)
    BY <2>2 DEF SubmitNotBusy, SubmitCheckErr, StatusBegin, StatusWalk, PrepBegin, listVars
  <2>3. CASE Tasklet \/ UNCHANGED vars
    BY <2>3 DEF Tasklet, TaskletRun, TaskletExit, TaskletCyclic, TaskletCyclicReturn, TaskletPop,
       TaskletFree, TaskletUnchanged, vars, listVars
  <2> QED BY <2>1, <2>2, <2>3
<1>3. /\ eng'.busy = eng.busy /\ eng'.ioc = eng.ioc /\ eng'.err = eng.err
      /\ eng'.cur = eng.cur /\ eng'.tail = eng.tail /\ eng'.left = eng.left
  <2>1. CASE AllocChanResources
    BY <2>1 DEF AllocChanResources, TypeOK, EngOK
  <2>2. CASE PrepEnd(c)
    BY <2>2 DEF PrepEnd, TypeOK, EngOK
  <2>3. CASE \/ PrepAlloc(c) \/ SubmitAppend(c) \/ SubmitNotBusy(c) \/ SubmitCheckErr(c)
             \/ StatusBegin(c) \/ StatusWalk(c)
             \/ \E d \in Desc, kind \in PrepCalls, n \in 1 .. MaxSegs : PrepBegin(c, d, kind, n)
    BY <2>3 DEF PrepAlloc, SubmitAppend, SubmitNotBusy, SubmitCheckErr, StatusBegin, StatusWalk, PrepBegin
  <2>4. CASE Tasklet \/ UNCHANGED vars
    BY <2>4 DEF Tasklet, TaskletRun, TaskletExit, TaskletCyclic, TaskletCyclicReturn, TaskletPop,
       TaskletFree, TaskletUnchanged, vars
  <2> QED BY <2>1, <2>2, <2>3, <2>4
<1>4. active_list \in Seq(Desc)
  BY DEF TypeOK, ListsOK
<1> QED BY <1>1, <1>2, <1>3, <1>4, PhaseFrame

\* start_transfer puts the engine at the first segment of the first transaction.
LEMMA PhaseStart ==
  ASSUME ChainBase, HasSg, NEW ch \in ChanType, StartTransfer(ch), ch.idle,
         active_list = <<>>, ~eng.busy, ~eng.ioc, ~eng.err, irq' = "none",
         ch.desc_pendingcount = Len(pending_list), ch.desc_pendingcount <= CoalesceMax,
         \A d \in Range(pending_list) : Ready(d), UNCHANGED <<desc, bd>>
  PROVE  PhaseInv'
<1> USE DEF ChainBase, QInv, IInv
<1>1. CASE chan' = ch /\ UNCHANGED <<active_list, eng>>
  BY <1>1 DEF PhaseInv, IdlePhase
<1>2. CASE /\ chan' = [ch EXCEPT !.ctrl_reg = StartCtrl(ch), !.err = TRUE]
           /\ eng' = [eng EXCEPT !.cr = StartCtrl(ch), !.left = StartCtrl(ch).coalesce]
           /\ UNCHANGED active_list
  <2>1. chan'.idle /\ ~eng'.busy /\ ~eng'.ioc /\ ~eng'.err
    BY <1>2 DEF ChanType, TypeOK, EngOK
  <2> QED BY <1>2, <2>1 DEF PhaseInv, IdlePhase
<1>3. CASE /\ ~ch.err /\ pending_list # <<>> /\ chan' = Started(ch)
           /\ eng' = [[eng EXCEPT !.cr = StartCtrl(ch), !.left = StartCtrl(ch).coalesce]
                        EXCEPT !.busy = TRUE, !.cur = FirstSeg, !.tail = LastSeg]
           /\ active_list' = active_list \o pending_list
  <2>1. PICK p \in Seq(Desc) : p = pending_list /\ p # <<>>
    BY <1>3 DEF TypeOK, ListsOK
  <2>2. active_list' = p
    BY <1>3, <2>1, ConcatProperties
  <2>3. /\ Len(p) \in Nat /\ DOMAIN p = 1 .. Len(p) /\ 1 \in DOMAIN p /\ Len(p) \in DOMAIN p
        /\ Head(p) = p[1] /\ Last(p) = p[Len(p)]
    <3>1. Len(p) \in Nat \ {0} /\ DOMAIN p = 1 .. Len(p)
      BY <2>1, LenProperties, EmptySeq
    <3> QED BY <2>1, <3>1 DEF Last
  <2>4. StartCtrl(ch).coalesce = Len(p)
    BY <2>1 DEF StartCtrl, ChanType, Ctrl
  <2>5. /\ ~chan'.idle /\ ~chan'.err
        /\ eng'.busy /\ ~eng'.ioc /\ ~eng'.err /\ eng'.left = Len(p)
        /\ eng'.cur = FirstSeg /\ eng'.tail = LastSeg
    BY <1>3, <2>4 DEF Started, ChanType, TypeOK, EngOK
  <2>6. \A d \in Range(p) : Ready(d)'
    <3>1. \A d \in Range(p) : Ready(d)' <=> Ready(d)
      BY SameState
    <3> QED BY <2>1, <3>1
  <2>7. \A k \in DOMAIN p : p[k] \in Range(p) /\ Ready(p[k])'
    <3>1. \A k \in DOMAIN p : p[k] \in Range(p)
      BY DEF Range
    <3> QED BY <2>6, <3>1
  <2>8. PICK q \in Seq(Seg) : q = desc'[p[1]].segs /\ q = desc[p[1]].segs /\ q # <<>>
    <3>1. p[1] \in Desc /\ p[1] \in Range(pending_list)
      BY <2>1, <2>3, <2>7, ElementOfSeq
    <3> QED BY <3>1 DEF TypeOK, DescOK, HaveSegs
  <2>9. 1 \in DOMAIN q /\ Head(q) = q[1] /\ DOMAIN q \subseteq Nat \ {0}
    <3>1. Len(q) \in Nat \ {0} /\ DOMAIN q = 1 .. Len(q)
      BY <2>8, LenProperties, EmptySeq
    <3> QED BY <3>1, <2>8
  <2>10. eng'.cur = q[1]
    BY <2>1, <2>3, <2>5, <2>8, <2>9 DEF FirstSeg, Phys
  <2>11. eng'.tail = TailSegment(Last(active_list))'
    BY <2>1, <2>2, <2>5 DEF LastSeg, TailSegment
  <2>12. EopAtEnd(p[1])' /\ \A k \in DOMAIN q : bd'[q[k]].state = "filled"
    <3>1. Ready(p[1])'
      BY <2>3, <2>7
    <3>2. \A k \in DOMAIN q : q[k] \in Held(p[1])'
      BY <2>8 DEF Held, Range
    <3> QED BY <3>1, <3>2 DEF Ready, InState
  <2>13. AtWork(1, 1)'
    <3>1. eng'.left = Len(active_list') - 1 + 1
      BY <2>2, <2>3, <2>5
    <3>2. \A k \in DOMAIN q : bd'[q[k]].state = IF k < 1 THEN "cmplt" ELSE "filled"
      BY <2>9, <2>12
    <3>3. \A k \in DOMAIN p : ~(k < 1)
      BY <2>3
    <3>4. \A k \in DOMAIN active_list' : /\ k < 1 => Transferred(active_list[k])'
                                         /\ k > 1 => Ready(active_list[k])'
      BY <2>2, <2>7, <3>3
    <3> QED BY <2>2, <2>8, <2>10, <2>12, <3>1, <3>2, <3>4 DEF AtWork
  <2>14. \E i \in DOMAIN active_list' : \E j \in DOMAIN desc'[active_list'[i]].segs : AtWork(i, j)'
    BY <2>2, <2>3, <2>8, <2>9, <2>13
  <2>15. BusyPhase'
    BY <2>1, <2>2, <2>5, <2>11, <2>14 DEF BusyPhase
  <2> QED BY <2>15 DEF PhaseInv
<1> QED BY <1>1, <1>2, <1>3 DEF StartTransfer

LEMMA PhaseIssue ==
  ASSUME NEW c \in Client, ChainBase, HasSg, SegStates(c), PhaseInv, CountInv(c), IssuePending(c)
  PROVE  PhaseInv'
<1> USE DEF ChainBase, QInv, IInv
<1>1. PICK ch \in ChanType : ch = chan /\ StartTransfer(ch)
  BY DEF IssuePending, TypeOK, ChanOK, ChanType
<1>2. UNCHANGED <<desc, bd, irq>> /\ pc[c] = "idle"
  BY DEF IssuePending, descVars, memVars
<1>3. CASE IdlePhase
  <2>1. /\ ch.desc_pendingcount = Len(pending_list) /\ ch.desc_pendingcount <= CoalesceMax
        /\ \A d \in Range(pending_list) : Ready(d)
    BY <1>1, <1>2 DEF CountInv, SegStates
  <2>2. /\ ch.idle /\ active_list = <<>> /\ ~eng.busy /\ ~eng.ioc /\ ~eng.err /\ irq' = "none"
    BY <1>1, <1>2, <1>3 DEF IdlePhase
  <2> QED BY <1>1, <1>2, <2>1, <2>2, PhaseStart
<1>4. CASE ~chan.idle
  <2>1. chan' = chan /\ UNCHANGED <<active_list, eng>>
    BY <1>1, <1>4 DEF StartTransfer
  <2> QED BY <1>2, <2>1, PhaseFrame DEF TypeOK, ListsOK
<1> QED BY <1>3, <1>4 DEF PhaseInv, BusyPhase, DonePhase, DeadPhase

LEMMA PhaseRestart ==
  ASSUME NEW c \in Client, ChainBase, HasSg, SegStates(c), PhaseInv, CountInv(c), IrqRestart
  PROVE  PhaseInv'
<1> USE DEF ChainBase, QInv, IInv
<1>1. PICK ch \in ChanType : ch = [chan EXCEPT !.idle = TRUE] /\ StartTransfer(ch)
  BY DEF IrqRestart, TypeOK, ChanOK, ChanType
<1>2. /\ UNCHANGED <<desc, bd>> /\ irq' = "none" /\ irq = "move" /\ active_list = <<>>
  BY DEF IrqRestart, descVars, memVars
<1>3. DonePhase
  BY <1>2 DEF PhaseInv, IdlePhase, BusyPhase, DeadPhase
<1>4. pc[c] # "bug"
  BY <1>2, ConstantsAssumption DEF CountInv
<1>5. /\ ch.idle /\ ch.desc_pendingcount = Len(pending_list) /\ ch.desc_pendingcount <= CoalesceMax
      /\ \A d \in Range(pending_list) : Ready(d)
  BY <1>1, <1>4 DEF CountInv, SegStates, TypeOK, ChanOK
<1>6. ~eng.busy /\ ~eng.ioc /\ ~eng.err
  BY <1>2, <1>3 DEF DonePhase
<1> QED BY <1>1, <1>2, <1>5, <1>6, PhaseStart

-----------------------------------------------------------------------------
(* The engine at work *)

\* The i-th active transaction and its segments.
LEMMA AtWorkTypes ==
  ASSUME TypeOK, Own, HaveSegs, NEW i \in DOMAIN active_list
  PROVE  /\ active_list[i] \in Desc /\ active_list[i] \in Range(active_list)
         /\ DOMAIN active_list = 1 .. Len(active_list) /\ Len(active_list) \in Nat /\ i \in Nat
         /\ \A k \in DOMAIN active_list : k # i => active_list[k] # active_list[i]
         /\ desc[active_list[i]].segs \in Seq(Seg) /\ desc[active_list[i]].segs # <<>>
         /\ DOMAIN desc[active_list[i]].segs = 1 .. Len(desc[active_list[i]].segs)
         /\ Len(desc[active_list[i]].segs) \in Nat \ {0}
<1>1. /\ DOMAIN active_list = 1 .. Len(active_list) /\ Len(active_list) \in Nat
      /\ active_list \in Seq(Desc)
  BY LenProperties DEF TypeOK, ListsOK
<1>2. active_list[i] \in Range(active_list) /\ active_list[i] \in Desc
  <2>1. active_list[i] \in Range(active_list)
    BY DEF Range
  <2> QED BY <1>1, <2>1, RangeType
<1>3. \A k \in DOMAIN active_list : k # i => active_list[k] # active_list[i]
  BY DEF Own, ListsDistinct, IsInjective
<1>4. desc[active_list[i]].segs \in Seq(Seg) /\ desc[active_list[i]].segs # <<>>
  BY <1>2 DEF TypeOK, DescOK, HaveSegs
<1>5. /\ DOMAIN desc[active_list[i]].segs = 1 .. Len(desc[active_list[i]].segs)
      /\ Len(desc[active_list[i]].segs) \in Nat \ {0}
  BY <1>4, LenProperties, EmptySeq
<1> QED BY <1>1, <1>2, <1>3, <1>4, <1>5

\* The segment that the engine is at is completed, and nothing else changes.
LEMMA OneTransferred ==
  ASSUME ChainBase, NEW i \in DOMAIN active_list, NEW q \in Seq(Seg),
         q = desc[active_list[i]].segs, NEW j \in DOMAIN q, AtWork(i, j),
         UNCHANGED <<active_list, desc>>, bd' = [bd EXCEPT ![eng.cur].state = "cmplt"]
  PROVE  /\ EopAtEnd(active_list[i])'
         /\ \A k \in DOMAIN q : bd'[q[k]].state = IF k < j + 1 THEN "cmplt" ELSE "filled"
         /\ \A k \in DOMAIN active_list : k # i =>
              /\ Ready(active_list[k]) => Ready(active_list[k])'
              /\ Transferred(active_list[k]) => Transferred(active_list[k])'
<1> USE DEF ChainBase, QInv, IInv
<1>1. PICK d \in Desc : d = active_list[i] /\ q = desc[d].segs
  BY AtWorkTypes
<1>2. PICK s \in Seg : s = q[j] /\ s = eng.cur /\ s \in Held(d)
  <2>1. eng.cur = q[j]
    BY DEF AtWork
  <2>2. q[j] \in Seg
    BY LenProperties, ElementOfSeq
  <2> QED BY <1>1, <2>1, <2>2 DEF Held, Range
<1>3. /\ bd'[s].state = "cmplt" /\ bd'[s].eop = bd[s].eop
      /\ \A r \in Seg \ {s} : bd'[r] = bd[r]
  BY <1>2 DEF TypeOK, MemOK, Bd
<1>4. \A k \in DOMAIN q : q[k] \in Seg /\ (k # j => q[k] # s)
  <2>1. \A k \in DOMAIN q : q[k] \in Seg
    BY LenProperties, ElementOfSeq
  <2>2. \A k \in DOMAIN q : k # j => q[k] # s
    BY <1>1, <1>2 DEF SegsApart, IsInjective
  <2> QED BY <2>1, <2>2
<1>5. DOMAIN q \subseteq Nat /\ j \in Nat
  BY LenProperties
<1>6. \A k \in DOMAIN q : bd'[q[k]].eop <=> k = Len(q)
  <2>1. \A k \in DOMAIN q : bd[q[k]].eop <=> k = Len(q)
    BY <1>1 DEF AtWork, EopAtEnd
  <2> QED BY <1>2, <1>3, <1>4, <2>1
<1>7. \A k \in DOMAIN q : bd'[q[k]].state = IF k < j + 1 THEN "cmplt" ELSE "filled"
  <2>1. \A k \in DOMAIN q : bd[q[k]].state = IF k < j THEN "cmplt" ELSE "filled"
    BY DEF AtWork
  <2>2. \A k \in DOMAIN q : (k < j + 1) <=> (k < j \/ k = j)
    BY <1>5
  <2>3. \A k \in DOMAIN q : k = j => bd'[q[k]].state = "cmplt"
    BY <1>2, <1>3
  <2>4. \A k \in DOMAIN q : k # j => bd'[q[k]] = bd[q[k]]
    BY <1>3, <1>4
  <2>5. ASSUME NEW k \in DOMAIN q
        PROVE  bd'[q[k]].state = IF k < j + 1 THEN "cmplt" ELSE "filled"
    <3>1. CASE k = j
      BY <1>5, <2>3, <3>1
    <3>2. CASE k # j
      BY <2>1, <2>2, <2>4, <3>2
    <3> QED BY <3>1, <3>2
  <2> QED BY <2>5
<1>8. \A k \in DOMAIN active_list : k # i =>
        /\ Ready(active_list[k]) => Ready(active_list[k])'
        /\ Transferred(active_list[k]) => Transferred(active_list[k])'
  <2>1. SUFFICES ASSUME NEW k \in DOMAIN active_list, k # i
                 PROVE  /\ Ready(active_list[k]) => Ready(active_list[k])'
                        /\ Transferred(active_list[k]) => Transferred(active_list[k])'
    OBVIOUS
  <2>2. PICK e \in Desc : e = active_list[k] /\ e # d
    BY <1>1, <2>1, AtWorkTypes
  <2>3. Held(e) \subseteq Seg \ {s}
    <3>1. Held(e) \cap Held(d) = {}
      BY <2>2 DEF SegsApart
    <3>2. Held(e) \subseteq Seg
      BY RangeType DEF Held, TypeOK, DescOK
    <3> QED BY <1>2, <3>1, <3>2
  <2>4. (Ready(e)' <=> Ready(e)) /\ (Transferred(e)' <=> Transferred(e))
    BY <1>3, <2>3, SameState
  <2>5. active_list'[k] = e
    BY <2>2
  <2>6. (Ready(active_list[k])' <=> Ready(e)') /\ (Transferred(active_list[k])' <=> Transferred(e)')
    BY <2>5 DEF Ready, Transferred, EopAtEnd, InState, Held
  <2> QED BY <2>2, <2>4, <2>6
<1>9. EopAtEnd(active_list[i])'
  BY <1>1, <1>6 DEF EopAtEnd
<1> QED BY <1>7, <1>8, <1>9

\* The tail of the walk is the last segment of the last active transaction.
LEMMA StopsAtTail ==
  ASSUME ChainBase, NEW i \in DOMAIN active_list, NEW q \in Seq(Seg),
         q = desc[active_list[i]].segs, NEW j \in DOMAIN q, eng.cur = q[j],
         eng.tail = TailSegment(Last(active_list))
  PROVE  eng.cur = eng.tail <=> i = Len(active_list) /\ j = Len(q)
<1> USE DEF ChainBase, QInv, IInv
<1>1. PICK d \in Desc : d = active_list[i] /\ q = desc[d].segs
  BY AtWorkTypes
<1>2. /\ DOMAIN active_list = 1 .. Len(active_list) /\ Len(active_list) \in Nat
      /\ DOMAIN q = 1 .. Len(q) /\ Len(q) \in Nat \ {0}
  BY AtWorkTypes
<1>3. Len(active_list) \in DOMAIN active_list /\ Last(active_list) = active_list[Len(active_list)]
  BY <1>2 DEF Last
<1>4. CASE i = Len(active_list)
  <2>1. eng.tail = q[Len(q)]
    BY <1>1, <1>3, <1>4 DEF TailSegment, Last
  <2>2. Len(q) \in DOMAIN q
    BY <1>2
  <2>3. q[j] = q[Len(q)] <=> j = Len(q)
    BY <1>1, <2>2 DEF SegsApart, IsInjective
  <2> QED BY <1>4, <2>1, <2>3
<1>5. CASE i # Len(active_list)
  <2>1. PICK e \in Desc : e = Last(active_list) /\ e # d /\ desc[e].segs \in Seq(Seg) /\ desc[e].segs # <<>>
    BY <1>1, <1>3, <1>5, AtWorkTypes
  <2>2. eng.tail \in Held(e)
    BY <2>1, EndsOfList DEF TailSegment, Held
  <2>3. eng.cur \in Held(d)
    BY <1>1 DEF Held, Range
  <2>4. Held(d) \cap Held(e) = {}
    BY <2>1 DEF SegsApart
  <2> QED BY <1>5, <2>2, <2>3, <2>4
<1> QED BY <1>4, <1>5

\* next_desc of a segment leads within its transaction, and from its last segment to
\* the next transaction.
LEMMA NextAtWork ==
  ASSUME ChainBase, NEW c \in Client, RingInv(c), NEW i \in DOMAIN active_list, NEW q \in Seq(Seg),
         q = desc[active_list[i]].segs, NEW j \in DOMAIN q
  PROVE  /\ j < Len(q) => bd[q[j]].next = q[j + 1]
         /\ j = Len(q) /\ i < Len(active_list) =>
              bd[q[j]].next = desc[active_list[i + 1]].segs[1]
<1> USE DEF ChainBase, QInv, IInv
<1>1. Adjacent(active_list)
  <2>1. active_list \in Seq(Desc) /\ DescOK
    BY DEF TypeOK, ListsOK
  <2>2. Filled(active_list)
    BY AtWorkTypes DEF Filled
  <2>3. Run(SegsOf(active_list))
    BY RunsOfRing DEF RingInv
  <2> QED BY <2>1, <2>2, <2>3, RunIsAdjacent
<1>2. bd[q[j]].next = Following(q[j])
  BY LenProperties, ElementOfSeq DEF RingInv
<1>3. ASSUME j < Len(q)
      PROVE  bd[q[j]].next = q[j + 1]
  <2>1. Run(q)
    BY <1>1 DEF Adjacent
  <2>2. j \in 1 .. Len(q) - 1
    BY <1>3, LenProperties
  <2> QED BY <1>2, <2>1, <2>2 DEF Run
<1>4. ASSUME j = Len(q), i < Len(active_list)
      PROVE  bd[q[j]].next = desc[active_list[i + 1]].segs[1]
  <2>1. i + 1 \in DOMAIN active_list
    BY <1>4, AtWorkTypes
  <2>2. Head(desc[active_list[i + 1]].segs) = Following(Last(q))
    BY <1>1, <2>1 DEF Adjacent
  <2>3. Head(desc[active_list[i + 1]].segs) = desc[active_list[i + 1]].segs[1]
    BY <2>1, AtWorkTypes
  <2> QED BY <1>2, <1>4, <2>2, <2>3 DEF Last
<1> QED BY <1>3, <1>4

LEMMA PhaseTransfer ==
  ASSUME NEW c \in Client, ChainBase, RingInv(c), HasSg, PhaseInv, CountInv(c), EngineTransfer
  PROVE  PhaseInv'
<1> USE DEF ChainBase, QInv, IInv
<1>1. BusyPhase
  BY DEF EngineTransfer, PhaseInv, IdlePhase, DonePhase, DeadPhase
<1>2. PICK i \in DOMAIN active_list : \E j \in DOMAIN desc[active_list[i]].segs : AtWork(i, j)
  BY <1>1 DEF BusyPhase
<1>3. PICK q \in Seq(Seg) : q = desc[active_list[i]].segs
  BY AtWorkTypes
<1>4. PICK j \in DOMAIN q : AtWork(i, j)
  BY <1>2, <1>3
<1>5. /\ DOMAIN active_list = 1 .. Len(active_list) /\ Len(active_list) \in Nat /\ i \in Nat
      /\ i <= Len(active_list)
      /\ DOMAIN q = 1 .. Len(q) /\ Len(q) \in Nat \ {0} /\ j \in Nat /\ j <= Len(q)
  BY <1>3, AtWorkTypes
<1>6. /\ eng.cur = q[j] /\ eng.left = Len(active_list) - i + 1 /\ eng.cur \in Seg
      /\ bd[eng.cur].eop <=> j = Len(q)
  BY <1>3, <1>4 DEF AtWork, EopAtEnd, TypeOK, EngOK
<1>7. eng.cur = eng.tail <=> i = Len(active_list) /\ j = Len(q)
  BY <1>1, <1>3, <1>6, StopsAtTail DEF BusyPhase
<1>8. /\ j < Len(q) => bd[q[j]].next = q[j + 1]
      /\ j = Len(q) /\ i < Len(active_list) => bd[q[j]].next = desc[active_list[i + 1]].segs[1]
  BY <1>3, NextAtWork
<1>9. /\ UNCHANGED <<active_list, desc, chan, irq>>
      /\ bd' = [bd EXCEPT ![eng.cur].state = "cmplt"]
      /\ ~eng.cr.cyclic
  BY DEF EngineTransfer, listVars, descVars, CountInv
<1>10. /\ EopAtEnd(active_list[i])'
       /\ \A k \in DOMAIN q : bd'[q[k]].state = IF k < j + 1 THEN "cmplt" ELSE "filled"
       /\ \A k \in DOMAIN active_list : k # i =>
            /\ Ready(active_list[k]) => Ready(active_list[k])'
            /\ Transferred(active_list[k]) => Transferred(active_list[k])'
  BY <1>3, <1>4, <1>9, OneTransferred
<1>11. \A k \in DOMAIN active_list : /\ k < i => Transferred(active_list[k])
                                     /\ k > i => Ready(active_list[k])
  BY <1>4 DEF AtWork
<1>12. eng'.tail = TailSegment(Last(active_list))' /\ eng'.tail = eng.tail /\ ~eng'.err
  <2>1. eng'.tail = eng.tail /\ eng'.err = eng.err
    BY DEF EngineTransfer, TypeOK, EngOK
  <2> QED BY <1>1, <1>9, <2>1 DEF BusyPhase, TailSegment
<1>13. ~chan'.idle /\ ~chan'.err /\ irq' = "none" /\ active_list' # <<>>
  BY <1>1, <1>9 DEF BusyPhase
<1>14. ~eng.ioc
  BY <1>1 DEF BusyPhase
<1>15. CASE j < Len(q)
  <2>1. /\ ~bd[eng.cur].eop /\ eng.cur # eng.tail
    BY <1>5, <1>6, <1>7, <1>15
  <2>2. /\ eng'.busy /\ ~eng'.ioc /\ eng'.left = eng.left /\ eng'.cur = bd[eng.cur].next
    BY <1>14, <2>1 DEF EngineTransfer, TypeOK, EngOK
  <2>3. j + 1 \in DOMAIN q
    BY <1>5, <1>15
  <2>4. AtWork(i, j + 1)'
    <3>1. eng'.cur = q[j + 1]
      BY <1>6, <1>8, <1>15, <2>2
    <3>2. \A k \in DOMAIN active_list : /\ k < i => Transferred(active_list[k])'
                                        /\ k > i => Ready(active_list[k])'
      BY <1>5, <1>10, <1>11
    <3> QED BY <1>3, <1>6, <1>9, <1>10, <2>2, <3>1, <3>2 DEF AtWork
  <2>5. \E x \in DOMAIN active_list' : \E y \in DOMAIN desc'[active_list'[x]].segs : AtWork(x, y)'
    BY <1>3, <1>9, <2>3, <2>4
  <2>6. BusyPhase'
    BY <1>12, <1>13, <2>2, <2>5 DEF BusyPhase
  <2> QED BY <2>6 DEF PhaseInv
<1>16. CASE j = Len(q) /\ i < Len(active_list)
  <2>1. /\ bd[eng.cur].eop /\ eng.cur # eng.tail /\ ~(eng.left <= 1)
    BY <1>5, <1>6, <1>7, <1>16
  <2>2. /\ eng'.busy /\ ~eng'.ioc /\ eng'.left = eng.left - 1 /\ eng'.cur = bd[eng.cur].next
    BY <1>14, <2>1 DEF EngineTransfer, TypeOK, EngOK
  <2>3. i + 1 \in DOMAIN active_list /\ i + 1 # i
    BY <1>5, <1>16
  <2>4. PICK p \in Seq(Seg) : p = desc[active_list[i + 1]].segs /\ p # <<>>
                              /\ DOMAIN p = 1 .. Len(p) /\ Len(p) \in Nat \ {0}
    BY <2>3, AtWorkTypes
  <2>5. Ready(active_list[i + 1])'
    BY <1>5, <1>10, <1>11, <2>3
  <2>6. Transferred(active_list[i])'
    <3>1. \A k \in DOMAIN q : bd'[q[k]].state = "cmplt"
      BY <1>5, <1>10, <1>16
    <3>2. \A s \in Range(q) : bd'[s].state = "cmplt"
      BY <3>1 DEF Range
    <3> QED BY <1>3, <1>9, <3>2 DEF Transferred, InState, Held
  <2>7. \A k \in DOMAIN active_list : /\ k < i + 1 => Transferred(active_list[k])'
                                      /\ k > i + 1 => Ready(active_list[k])'
    <3>1. \A k \in DOMAIN active_list : /\ k < i + 1 => k < i \/ k = i
                                        /\ k > i + 1 => k > i
                                        /\ k < i \/ k > i => k # i
      BY <1>5
    <3> QED BY <1>10, <1>11, <2>6, <3>1
  <2>8. AtWork(i + 1, 1)'
    <3>1. eng'.cur = p[1]
      BY <1>6, <1>8, <1>16, <2>2, <2>4
    <3>2. eng'.left = Len(active_list) - (i + 1) + 1
      BY <1>5, <1>6, <2>2
    <3>3. EopAtEnd(active_list[i + 1])' /\ \A k \in DOMAIN p : bd'[p[k]].state = "filled"
      <4>1. \A k \in DOMAIN p : p[k] \in Held(active_list[i + 1])'
        BY <1>9, <2>4 DEF Held, Range
      <4> QED BY <2>5, <4>1 DEF Ready, InState
    <3>4. \A k \in DOMAIN p : bd'[p[k]].state = IF k < 1 THEN "cmplt" ELSE "filled"
      BY <2>4, <3>3
    <3> QED BY <1>9, <2>4, <2>7, <3>1, <3>2, <3>3, <3>4 DEF AtWork
  <2>9. \E x \in DOMAIN active_list' : \E y \in DOMAIN desc'[active_list'[x]].segs : AtWork(x, y)'
    <3>1. 1 \in DOMAIN p
      BY <2>4
    <3> QED BY <1>9, <2>3, <2>4, <2>8, <3>1
  <2>10. BusyPhase'
    BY <1>12, <1>13, <2>2, <2>9 DEF BusyPhase
  <2> QED BY <2>10 DEF PhaseInv
<1>17. CASE j = Len(q) /\ i = Len(active_list)
  <2>1. /\ bd[eng.cur].eop /\ eng.cur = eng.tail /\ eng.left <= 1
    BY <1>5, <1>6, <1>7, <1>17
  <2>2. ~eng'.busy /\ eng'.ioc
    BY <1>9, <2>1 DEF EngineTransfer, TypeOK, EngOK
  <2>3. Transferred(active_list[i])'
    <3>1. \A k \in DOMAIN q : bd'[q[k]].state = "cmplt"
      BY <1>5, <1>10, <1>17
    <3>2. \A s \in Range(q) : bd'[s].state = "cmplt"
      BY <3>1 DEF Range
    <3> QED BY <1>3, <1>9, <3>2 DEF Transferred, InState, Held
  <2>4. \A k \in DOMAIN active_list : Transferred(active_list[k])'
    <3>1. \A k \in DOMAIN active_list : k < i \/ k = i
      BY <1>5, <1>17
    <3>2. \A k \in DOMAIN active_list : k < i => k # i
      BY <1>5
    <3> QED BY <1>10, <1>11, <2>3, <3>1, <3>2
  <2>5. \A d \in Range(active_list') : Transferred(d)'
    <3>1. \A k \in DOMAIN active_list : InState(active_list[k], "cmplt")'
      BY <2>4 DEF Transferred
    <3>2. ASSUME NEW d \in Range(active_list') PROVE Transferred(d)'
      <4>1. PICK k \in DOMAIN active_list : d = active_list'[k]
        BY <1>9 DEF Range
      <4> QED BY <3>1, <4>1 DEF Transferred, InState, Held
    <3> QED BY <3>2
  <2>6. DonePhase'
    BY <1>12, <1>13, <2>2, <2>5 DEF DonePhase
  <2> QED BY <2>6 DEF PhaseInv
<1>18. j < Len(q) \/ j = Len(q)
  BY <1>5
<1>19. i < Len(active_list) \/ i = Len(active_list)
  BY <1>5
<1> QED BY <1>15, <1>16, <1>17, <1>18, <1>19

\* An error aborts the batch, the handler takes a batch that was transferred, and a
\* reset comes when there is none.
LEMMA PhaseHandlers ==
  ASSUME NEW c \in Client, ChainBase, PhaseInv, CountInv(c),
         EngineError \/ IrqAck \/ IrqLock \/ IrqComplete \/ SubmitReset(c)
  PROVE  PhaseInv'
<1> USE DEF ChainBase, QInv, IInv
<1>1. CASE EngineError
  <2>1. BusyPhase
    BY <1>1 DEF EngineError, PhaseInv, IdlePhase, DonePhase, DeadPhase
  <2>2. chan' = chan /\ irq' = irq /\ ~eng'.busy /\ eng'.ioc = eng.ioc
    BY <1>1 DEF EngineError, TypeOK, EngOK
  <2>3. DeadPhase'
    BY <2>1, <2>2 DEF BusyPhase, DeadPhase
  <2> QED BY <2>3 DEF PhaseInv
<1>2. CASE IrqAck
  <2>1. /\ irq = "none" /\ (eng.ioc \/ eng.err) /\ active_list' = active_list
        /\ eng'.busy = eng.busy /\ ~eng'.ioc /\ ~eng'.err
        /\ chan'.idle = chan.idle /\ (chan'.err <=> chan.err \/ eng.err)
        /\ irq' = IF eng.ioc THEN "ioc" ELSE "none"
    BY <1>2 DEF IrqAck, listVars, TypeOK, EngOK, ChanOK
  <2>2. UNCHANGED <<desc, bd>>
    BY <1>2 DEF IrqAck, descVars, memVars
  <2>3. CASE DonePhase
    <3>1. \A d \in Range(active_list) : Transferred(d)' <=> Transferred(d)
      BY <2>2, SameState
    <3>2. DonePhase'
      BY <2>1, <2>3, <3>1 DEF DonePhase
    <3> QED BY <3>2 DEF PhaseInv
  <2>4. CASE DeadPhase
    <3>1. DeadPhase'
      BY <2>1, <2>4 DEF DeadPhase
    <3> QED BY <3>1 DEF PhaseInv
  <2> QED BY <2>1, <2>3, <2>4 DEF PhaseInv, IdlePhase, BusyPhase
<1>3. CASE IrqLock \/ IrqComplete
  <2>1. /\ irq \in {"ioc", "move"} /\ irq' = "move" /\ UNCHANGED <<chan, eng, desc, bd>>
    BY <1>3 DEF IrqLock, IrqComplete, descVars, memVars
  <2>2. DonePhase
    BY <2>1 DEF PhaseInv, IdlePhase, BusyPhase, DeadPhase
  <2>3. Range(active_list') \subseteq Range(active_list)
    <3>1. CASE IrqLock
      BY <3>1 DEF IrqLock, listVars
    <3>2. CASE IrqComplete
      BY <3>2, TailList DEF IrqComplete, TypeOK, ListsOK
    <3> QED BY <1>3, <3>1, <3>2
  <2>4. \A d \in Range(active_list) : Transferred(d)' <=> Transferred(d)
    BY <2>1, SameState
  <2>5. DonePhase'
    BY <2>1, <2>2, <2>3, <2>4 DEF DonePhase
  <2> QED BY <2>5 DEF PhaseInv
<1>4. CASE SubmitReset(c)
  <2>1. chan.err
    BY <1>4 DEF SubmitReset, CountInv
  <2>2. /\ chan'.idle = chan.idle /\ ~eng'.busy /\ ~eng'.ioc /\ ~eng'.err
        /\ UNCHANGED <<active_list, irq>>
    BY <1>4 DEF SubmitReset, ResetEng, listVars, TypeOK, EngOK, ChanOK
  <2>3. IdlePhase \/ DeadPhase
    BY <2>1 DEF PhaseInv, BusyPhase, DonePhase
  <2>4. IdlePhase' \/ DeadPhase'
    BY <2>2, <2>3 DEF IdlePhase, DeadPhase
  <2> QED BY <2>4 DEF PhaseInv
<1> QED BY <1>1, <1>2, <1>3, <1>4

LEMMA PhaseStep ==
  ASSUME NEW c \in Client, OnlyClient(c), HasSg, ChainBase, RingInv(c), PoolSuffices,
         SegStates(c), PhaseInv, CountInv(c), [Next]_vars
  PROVE  PhaseInv'
<1>1. QInv
  BY DEF ChainBase
<1>2. CASE EngineError \/ IrqAck \/ IrqLock \/ IrqComplete \/ SubmitReset(c)
  BY <1>2, PhaseHandlers
<1>3. CASE EngineTransfer \/ IssuePending(c) \/ IrqRestart
  BY <1>3, PhaseTransfer, PhaseIssue, PhaseRestart
<1>4. CASE \/ AllocChanResources \/ PrepAlloc(c) \/ PrepEnd(c) \/ SubmitAppend(c)
           \/ SubmitNotBusy(c) \/ SubmitCheckErr(c) \/ StatusBegin(c) \/ StatusWalk(c)
           \/ \E d \in Desc, kind \in PrepCalls, n \in 1 .. MaxSegs : PrepBegin(c, d, kind, n)
           \/ Tasklet \/ UNCHANGED vars
  BY <1>4, PhaseOthers
<1> QED BY <1>1, <1>2, <1>3, <1>4, OneSlaveStep DEF Engine, Irq

-----------------------------------------------------------------------------
(* The theorems about the engine *)

BatchInv(c) == ChainBase /\ RingInv(c) /\ SegStates(c) /\ PhaseInv /\ CountInv(c)

LEMMA BatchInit ==
  ASSUME NEW c \in Client, Init
  PROVE  SegStates(c) /\ PhaseInv /\ CountInv(c)
<1>1. SegStates(c)
  BY EmptyList DEF Init, SegStates, Submitting
<1>2. PhaseInv
  BY DEF Init, PhaseInv, IdlePhase
<1>3. CountInv(c)
  BY ConstantsAssumption, EmptySeq DEF Init, CountInv, ZeroCtrl
<1> QED BY <1>1, <1>2, <1>3

LEMMA BatchInvariance ==
  ASSUME NEW c \in Client, OnlyClient(c), HasSg
  PROVE  Spec /\ []PoolSuffices => []BatchInv(c)
<1> DEFINE J == SegStates(c) /\ PhaseInv /\ CountInv(c)
<1>1. Init => J
  BY BatchInit
<1>2. ChainBase /\ RingInv(c) /\ PoolSuffices /\ J /\ [Next]_vars => J'
  BY StatesStep, PhaseStep, CountStep
<1>3. Spec /\ []PoolSuffices => [](ChainBase /\ RingInv(c))
  BY RingInvariance
<1>4. ChainBase /\ RingInv(c) /\ J <=> BatchInv(c)
  BY DEF BatchInv
<1> HIDE DEF J
<1> QED BY <1>1, <1>2, <1>3, <1>4, PTL DEF Spec

LEMMA BatchMeans ==
  ASSUME NEW c \in Client, BatchInv(c)
  PROVE  EngineInActive /\ CompletedWasTransferred /\ IdleMeansDrained
<1> USE DEF BatchInv
<1>1. EngineInActive
  <2>1. SUFFICES ASSUME BusyPhase PROVE EngineInActive
    BY DEF PhaseInv, IdlePhase, DonePhase, DeadPhase, EngineInActive
  <2>2. PICK i \in DOMAIN active_list : \E j \in DOMAIN desc[active_list[i]].segs : AtWork(i, j)
    BY <2>1 DEF BusyPhase
  <2>3. PICK j \in DOMAIN desc[active_list[i]].segs : AtWork(i, j)
    BY <2>2
  <2>4. active_list[i] \in Range(active_list)
    BY DEF Range
  <2>5. eng.cur \in Range(desc[active_list[i]].segs)
    BY <2>3 DEF AtWork, Range
  <2>6. ~(j < j)
    BY <2>3, AtWorkTypes DEF ChainBase, QInv, IInv
  <2>7. bd[eng.cur].state = "filled"
    BY <2>3, <2>6 DEF AtWork
  <2> QED BY <2>4, <2>5, <2>7 DEF EngineInActive
<1>2. CompletedWasTransferred
  BY DEF SegStates, CompletedWasTransferred, InTasklet, Transferred, InState, Held
<1>3. IdleMeansDrained
  BY DEF PhaseInv, IdlePhase, BusyPhase, DonePhase, DeadPhase, IdleMeansDrained
<1> QED BY <1>1, <1>2, <1>3

\* One client that only calls prep_slave_sg and tx_status, alone on a channel with
\* scatter-gather whose reset succeeds and whose pool does not run out: the engine never
\* runs on to a segment that is not filled in, or that is no active transaction's. It
\* stops at TAILDESC, where the active list ended when start_transfer took it.
THEOREM EngineStaysInActive ==
  ASSUME NEW c \in Client, OnlyClient(c), HasSg
  PROVE  Spec /\ []PoolSuffices => []EngineInActive
<1>1. BatchInv(c) => EngineInActive
  BY BatchMeans
<1> QED BY <1>1, BatchInvariance, PTL

\* In the same setting: a transaction that reaches the done list, or the callback of its
\* client, has been transferred by the engine to the last segment, although one interrupt
\* stands for the whole batch (coalescing in start_transfer, complete_descriptor).
THEOREM CompletedMeansTransferred ==
  ASSUME NEW c \in Client, OnlyClient(c), HasSg
  PROVE  Spec /\ []PoolSuffices => []CompletedWasTransferred
<1>1. BatchInv(c) => CompletedWasTransferred
  BY BatchMeans
<1> QED BY <1>1, BatchInvariance, PTL

\* In the same setting: when the channel is marked idle the active list is empty and the
\* engine stands still, so that start_transfer may program it again.
THEOREM IdleIsDrained ==
  ASSUME NEW c \in Client, OnlyClient(c), HasSg
  PROVE  Spec /\ []PoolSuffices => []IdleMeansDrained
<1>1. BatchInv(c) => IdleMeansDrained
  BY BatchMeans
<1> QED BY <1>1, BatchInvariance, PTL

-----------------------------------------------------------------------------
(* A pool that does not run out *)

\* No transaction has more segments than it was prepared with.
SizeInv ==
  /\ \A d \in Desc : Len(desc[d].segs) <= MaxSegs
  /\ \A d \in Desc \ live : desc[d].segs = <<>>
  /\ \A c \in Client : pc[c] \in PrepCalls => Len(desc[hand[c]].segs) + need[c] <= MaxSegs

\* Steps that give no segment to a descriptor and begin no prepare.
LEMMA SizeFrame ==
  ASSUME TypeOK, Own, SizeInv,
         \A d \in Desc : desc'[d].segs \in {desc[d].segs, <<>>},
         \A d \in Desc \ live' : d \notin live \/ desc'[d].segs = <<>>,
         \A x \in Client : pc'[x] \in PrepCalls =>
           pc[x] \in PrepCalls /\ hand'[x] = hand[x] /\ need'[x] = need[x]
  PROVE  SizeInv'
<1>1. \A d \in Desc : desc[d].segs \in Seq(Seg) /\ Len(desc[d].segs) \in Nat
  BY LenProperties DEF TypeOK, DescOK
<1>2. Len(<<>>) = 0 /\ MaxSegs \in Nat
  BY ConstantsAssumption
<1>3. \A d \in Desc : Len(desc'[d].segs) \in Nat /\ Len(desc'[d].segs) <= Len(desc[d].segs)
  BY <1>1, <1>2
<1>4. \A d \in Desc : Len(desc'[d].segs) <= MaxSegs
  BY <1>1, <1>2, <1>3 DEF SizeInv
<1>5. \A d \in Desc \ live' : desc'[d].segs = <<>>
  BY DEF SizeInv
<1>6. ASSUME NEW x \in Client, pc'[x] \in PrepCalls
      PROVE  Len(desc'[hand'[x]].segs) + need'[x] <= MaxSegs
  <2>1. hand[x] \in Desc /\ hand'[x] = hand[x]
    BY <1>6, HandInDesc DEF Preparing
  <2>2. Len(desc[hand[x]].segs) + need[x] <= MaxSegs /\ need'[x] = need[x] /\ need[x] \in Nat
    BY <1>6 DEF SizeInv, TypeOK, ClientsOK
  <2> QED BY <1>1, <1>2, <1>3, <2>1, <2>2
<1> QED BY <1>4, <1>5, <1>6 DEF SizeInv

LEMMA SizeBegun ==
  ASSUME IInv, SizeInv, NEW c \in Client, NEW d \in Desc, NEW kind \in PrepCalls,
         NEW n \in 1 .. MaxSegs, PrepBegin(c, d, kind, n)
  PROVE  SizeInv'
<1> USE DEF IInv
<1>1. /\ desc' = desc /\ live' = live \cup {d} /\ d \notin live
      /\ hand'[c] = d /\ need'[c] = n
      /\ \A x \in Client \ {c} : pc'[x] = pc[x] /\ hand'[x] = hand[x] /\ need'[x] = need[x]
  BY DEF PrepBegin, Goto, TypeOK, ClientsOK
<1>2. Len(desc[d].segs) + n <= MaxSegs
  <2>1. desc[d].segs = <<>>
    BY <1>1 DEF SizeInv
  <2> QED BY <2>1, ConstantsAssumption
<1>3. \A x \in Client : pc'[x] \in PrepCalls => Len(desc'[hand'[x]].segs) + need'[x] <= MaxSegs
  BY <1>1, <1>2 DEF SizeInv
<1> QED BY <1>1, <1>3 DEF SizeInv

LEMMA SizeTaken ==
  ASSUME IInv, SizeInv, NEW c \in Client, PrepAlloc(c)
  PROVE  SizeInv'
<1> USE DEF IInv
<1>1. PICK h \in Desc, s \in Seg :
        /\ h = hand[c] /\ h \in live
        /\ desc' = [desc EXCEPT ![h].segs = Append(@, s)]
  <2>1. hand[c] \in Desc /\ hand[c] \in live
    BY HandInDesc DEF PrepAlloc, Preparing, Own, OneOwner
  <2>2. Head(free_seg_list) \in Seg
    BY EndsOfList DEF PrepAlloc, TypeOK, MemOK
  <2> QED BY <2>1, <2>2 DEF PrepAlloc
<1>2. /\ desc'[h].segs = Append(desc[h].segs, s)
      /\ \A d \in Desc \ {h} : desc'[d].segs = desc[d].segs
  BY <1>1 DEF TypeOK, DescOK
<1>3. Len(desc'[h].segs) = Len(desc[h].segs) + 1 /\ Len(desc[h].segs) \in Nat
  <2>1. desc[h].segs \in Seq(Seg)
    BY DEF TypeOK, DescOK
  <2> QED BY <1>2, <2>1, AppendProperties, LenProperties
<1>4. /\ pc[c] \in PrepCalls /\ need[c] > 0 /\ need'[c] = need[c] - 1 /\ need[c] \in Nat
      /\ UNCHANGED <<pc, hand, live>>
      /\ \A x \in Client \ {c} : need'[x] = need[x]
  BY DEF PrepAlloc, TypeOK, ClientsOK
<1>5. Len(desc'[h].segs) + need'[c] <= MaxSegs
  <2>1. Len(desc[h].segs) + need[c] <= MaxSegs
    BY <1>1, <1>4 DEF SizeInv
  <2>2. ASSUME NEW m \in Nat, NEW n \in Nat, n > 0 PROVE (m + 1) + (n - 1) = m + n
    OBVIOUS
  <2>3. Len(desc'[h].segs) + need'[c] = Len(desc[h].segs) + need[c]
    BY <1>3, <1>4, <2>2
  <2> QED BY <2>1, <2>3
<1>6. \A d \in Desc : Len(desc'[d].segs) <= MaxSegs
  <2>1. Len(desc'[h].segs) <= MaxSegs
    BY <1>3, <1>4, <1>5, ConstantsAssumption
  <2> QED BY <1>2, <2>1 DEF SizeInv
<1>7. \A d \in Desc \ live' : desc'[d].segs = <<>>
  BY <1>1, <1>2, <1>4 DEF SizeInv
<1>8. \A x \in Client \ {c} : pc'[x] \in PrepCalls =>
        Len(desc'[hand'[x]].segs) + need'[x] <= MaxSegs
  <2>1. \A x \in Client \ {c} : pc[x] \in PrepCalls => hand[x] # h /\ hand[x] \in Desc
    BY <1>1, <1>4, HandInDesc DEF Own, OneOwner, Preparing
  <2> QED BY <1>2, <1>4, <2>1 DEF SizeInv
<1> QED BY <1>1, <1>4, <1>5, <1>6, <1>7, <1>8 DEF SizeInv

LEMMA SizeStep == IInv /\ SizeInv /\ [Next]_vars => SizeInv'
<1> SUFFICES ASSUME IInv, SizeInv, [Next]_vars PROVE SizeInv'
  OBVIOUS
<1> USE DEF IInv
<1>1. ASSUME NEW c \in Client, NEW l \in ClientPc \ PrepCalls,
             pc' = [pc EXCEPT ![c] = l] \/ pc' = pc,
             \/ need' = need
             \/ need' = [need EXCEPT ![c] = 0] /\ pc' = [pc EXCEPT ![c] = l],
             \/ hand' = hand
             \/ \E d \in Desc \cup {NoDesc} :
                  hand' = [hand EXCEPT ![c] = d] /\ pc' = [pc EXCEPT ![c] = l]
      PROVE  \A x \in Client : pc'[x] \in PrepCalls =>
               pc[x] \in PrepCalls /\ hand'[x] = hand[x] /\ need'[x] = need[x]
  BY <1>1 DEF TypeOK, ClientsOK
<1>2. ASSUME UNCHANGED <<desc, live>>
      PROVE  /\ \A d \in Desc : desc'[d].segs \in {desc[d].segs, <<>>}
             /\ \A d \in Desc \ live' : d \notin live \/ desc'[d].segs = <<>>
  BY <1>2
<1>3. ASSUME NEW e \in Desc, FreeTxDescriptor(e)
      PROVE  /\ \A d \in Desc : desc'[d].segs \in {desc[d].segs, <<>>}
             /\ \A d \in Desc \ live' : d \notin live \/ desc'[d].segs = <<>>
  BY <1>3 DEF FreeTxDescriptor, BlankDesc, TypeOK, DescOK
<1>4. ASSUME UNCHANGED clientVars
      PROVE  \A x \in Client : pc'[x] \in PrepCalls =>
               pc[x] \in PrepCalls /\ hand'[x] = hand[x] /\ need'[x] = need[x]
  BY <1>4 DEF clientVars
<1>5. ASSUME NEW c \in Client,
             PrepNoSegment(c) \/ SubmitNotBusy(c) \/ SubmitCheckErr(c) \/ SubmitReset(c)
               \/ SubmitResetTimeout(c)
      PROVE  SizeInv'
  <2>1. UNCHANGED <<desc, live>>
    BY <1>5 DEF PrepNoSegment, SubmitNotBusy, SubmitCheckErr, SubmitReset, SubmitResetTimeout,
       descVars
  <2>2. PICK l \in ClientPc \ PrepCalls : pc' = [pc EXCEPT ![c] = l]
    <3>1. CASE PrepNoSegment(c) \/ SubmitNotBusy(c) \/ SubmitReset(c) \/ SubmitResetTimeout(c)
      BY <3>1 DEF PrepNoSegment, SubmitNotBusy, SubmitReset, SubmitResetTimeout, Goto, ClientPc,
         PrepCalls
    <3>2. CASE SubmitCheckErr(c)
      <4>1. PICK l \in {"reset", "append"} : pc' = [pc EXCEPT ![c] = l]
        BY <3>2 DEF SubmitCheckErr, Goto
      <4> QED BY <4>1 DEF ClientPc, PrepCalls
    <3> QED BY <1>5, <3>1, <3>2
  <2>3. /\ need' = need \/ need' = [need EXCEPT ![c] = 0]
        /\ hand' = hand \/ hand' = [hand EXCEPT ![c] = NoDesc]
    BY <1>5 DEF PrepNoSegment, SubmitNotBusy, SubmitCheckErr, SubmitReset, SubmitResetTimeout, Drop
  <2>4. \A x \in Client : pc'[x] \in PrepCalls =>
          pc[x] \in PrepCalls /\ hand'[x] = hand[x] /\ need'[x] = need[x]
    BY <1>1, <2>2, <2>3
  <2> QED BY <1>2, <2>1, <2>4, SizeFrame
<1>6. ASSUME NEW c \in Client,
             \/ StatusBegin(c) \/ StatusWalk(c) \/ TerminateHalt(c) \/ TerminateLock(c)
             \/ TerminateUnlock(c) \/ TerminateCyclic(c)
             \/ ReleaseLock(c) \/ ReleaseUnlock(c) \/ ReleaseFree(c)
      PROVE  SizeInv'
  <2>1. UNCHANGED <<desc, live>>
    BY <1>6 DEF StatusBegin, StatusWalk, TerminateHalt, TerminateLock, TerminateUnlock,
       TerminateCyclic, ReleaseLock, ReleaseUnlock, ReleaseFree, descVars
  <2>2. active_list # <<>> => Last(active_list) \in Desc
    BY EndsOfList DEF TypeOK, ListsOK
  <2>3. \E l \in ClientPc \ PrepCalls : /\ pc' = [pc EXCEPT ![c] = l] /\ need' = need
          /\ \/ hand' = hand
             \/ \E d \in Desc \cup {NoDesc} : hand' = [hand EXCEPT ![c] = d]
    BY <1>6, <2>2 DEF StatusBegin, StatusWalk, TerminateHalt, TerminateLock, TerminateUnlock,
       TerminateCyclic, ReleaseLock, ReleaseUnlock, ReleaseFree, Goto, Drop, ClientPc, PrepCalls
  <2> QED BY <1>1, <1>2, <2>1, <2>3, SizeFrame
<1>7. ASSUME NEW c \in Client, PrepError(c) \/ SubmitBusy(c)
      PROVE  SizeInv'
  <2>1. PICK d \in Desc : FreeTxDescriptor(d)
    BY <1>7, HandInDesc DEF PrepError, SubmitBusy, Preparing
  <2>2. /\ pc' = [pc EXCEPT ![c] = "idle"] /\ need' = need
        /\ hand' = [hand EXCEPT ![c] = NoDesc]
    BY <1>7 DEF PrepError, SubmitBusy, Goto, Drop
  <2> QED BY <1>1, <1>3, <2>1, <2>2, SizeFrame DEF ClientPc, PrepCalls
<1>8. ASSUME NEW c \in Client, FreeDescriptors(c)
      PROVE  SizeInv'
  <2>1. PICK d \in Desc : FreeTxDescriptor(d)
    BY <1>8, EndsOfList DEF FreeDescriptors, TypeOK, ListsOK
  <2>2. UNCHANGED clientVars
    BY <1>8 DEF FreeDescriptors
  <2> QED BY <1>3, <1>4, <2>1, <2>2, SizeFrame
<1>9. CASE TaskletFree
  <2>1. PICK d \in Desc : FreeTxDescriptor(d)
    BY <1>9 DEF TaskletFree, TypeOK, ListsOK, Own, OneOwner
  <2>2. UNCHANGED clientVars
    BY <1>9 DEF TaskletFree, TaskletUnchanged
  <2> QED BY <1>3, <1>4, <2>1, <2>2, SizeFrame
<1>10. ASSUME NEW c \in Client, PrepEnd(c) \/ SubmitAppend(c)
       PROVE  SizeInv'
  <2>1. PICK h \in Desc : h = hand[c]
    BY <1>10, HandInDesc DEF PrepEnd, SubmitAppend, Preparing
  <2>2. live' = live /\ need' = need
    BY <1>10 DEF PrepEnd, SubmitAppend
  <2>3. \A d \in Desc : desc'[d].segs = desc[d].segs
    <3>1. CASE PrepEnd(c)
      <4>1. desc' = [desc EXCEPT ![h].cyclic = (pc[c] = "prep_dma_cyclic")]
        BY <2>1, <3>1 DEF PrepEnd
      <4> QED BY <4>1 DEF TypeOK, DescOK
    <3>2. CASE SubmitAppend(c)
      <4>1. desc' = [desc EXCEPT ![h].cookie = cookie + 1]
        BY <2>1, <3>2 DEF SubmitAppend
      <4> QED BY <4>1 DEF TypeOK, DescOK
    <3> QED BY <1>10, <3>1, <3>2
  <2>4. PICK l \in {"prepared", "bug", "idle"} :
          /\ pc' = [pc EXCEPT ![c] = l]
          /\ hand' = hand \/ hand' = [hand EXCEPT ![c] = NoDesc]
    BY <1>10 DEF PrepEnd, SubmitAppend, Goto, Drop
  <2>5. l \in ClientPc \ PrepCalls
    BY DEF ClientPc, PrepCalls
  <2>6. \A x \in Client : pc'[x] \in PrepCalls =>
          pc[x] \in PrepCalls /\ hand'[x] = hand[x] /\ need'[x] = need[x]
    BY <1>1, <2>2, <2>4, <2>5
  <2> QED BY <2>2, <2>3, <2>6, SizeFrame
<1>11. ASSUME NEW c \in Client, IssuePending(c)
       PROVE  SizeInv'
  <2>1. UNCHANGED <<desc, live>> /\ UNCHANGED clientVars
    BY <1>11 DEF IssuePending, descVars
  <2> QED BY <1>2, <1>4, <2>1, SizeFrame
<1>12. CASE \/ AllocChanResources \/ Engine \/ Irq \/ TaskletRun \/ TaskletExit \/ TaskletCyclic
            \/ TaskletCyclicReturn \/ TaskletPop \/ UNCHANGED vars
  <2>1. UNCHANGED <<desc, live>> /\ UNCHANGED clientVars
    BY <1>12 DEF AllocChanResources, Engine, EngineTransfer, EngineError, Irq, IrqAck, IrqLock,
       IrqComplete, IrqRestart, TaskletRun, TaskletExit, TaskletCyclic, TaskletCyclicReturn,
       TaskletPop, TaskletUnchanged, vars, descVars
  <2> QED BY <1>2, <1>4, <2>1, SizeFrame
<1>13. ASSUME NEW c \in Client, ClientStep(c)
       PROVE  SizeInv'
  BY <1>5, <1>6, <1>7, <1>8, <1>10, <1>11, <1>13, SizeBegun, SizeTaken DEF ClientStep
<1> QED BY <1>9, <1>12, <1>13 DEF Next, Tasklet

\* Segments for every descriptor that kzalloc can hand out.
PoolFits == IsFiniteSet(Desc) /\ Cardinality(Desc) * MaxSegs <= NumDescs

\* Every segment of an empty pool is a numbered segment of a descriptor, and the one in
\* hand has a number to spare.
LEMMA PoolCounted ==
  ASSUME PoolFits, IInv, SlaveInv, SegsAccounted, SizeInv
  PROVE  PoolSuffices
<1> USE DEF IInv
<1>1. SUFFICES ASSUME NEW c \in Client, pc[c] \in PrepCalls, need[c] > 0, free_seg_list = <<>>
               PROVE  FALSE
  BY DEF PoolSuffices
<1>2. PICK h \in Desc : h = hand[c]
  BY <1>1, HandInDesc DEF Preparing
<1>3. Len(desc[h].segs) < MaxSegs
  <2>1. desc[h].segs \in Seq(Seg)
    BY DEF TypeOK, DescOK
  <2>2. Len(desc[h].segs) \in Nat /\ need[c] \in Nat
    BY <2>1, LenProperties DEF TypeOK, ClientsOK
  <2> QED BY <1>1, <1>2, <2>2, ConstantsAssumption DEF SizeInv
<1>4. Seg = UNION {Held(d) : d \in Desc}
  <2>1. pool
    BY <1>1 DEF SlaveInv, PrepCalls
  <2> QED BY <1>1, <2>1, EmptyList DEF SegsAccounted
<1>5. \A s \in Seg : \E d \in Desc : \E j \in DOMAIN desc[d].segs : s = desc[d].segs[j]
  BY <1>4 DEF Held, Range
<1>6. \A d \in Desc : \A j \in DOMAIN desc[d].segs : j \in 1 .. MaxSegs /\ <<d, j>> # <<h, MaxSegs>>
  <2>1. SUFFICES ASSUME NEW d \in Desc, NEW j \in DOMAIN desc[d].segs
                 PROVE  j \in 1 .. MaxSegs /\ <<d, j>> # <<h, MaxSegs>>
    OBVIOUS
  <2>2. DOMAIN desc[d].segs = 1 .. Len(desc[d].segs) /\ Len(desc[d].segs) \in Nat
    <3>1. desc[d].segs \in Seq(Seg)
      BY DEF TypeOK, DescOK
    <3> QED BY <3>1, LenProperties
  <2>3. Len(desc[d].segs) <= MaxSegs
    BY DEF SizeInv
  <2>4. d = h => j < MaxSegs
    BY <1>3, <2>2, ConstantsAssumption
  <2> QED BY <2>2, <2>3, <2>4, ConstantsAssumption
<1> DEFINE P == Desc \X (1 .. MaxSegs)
           T == P \ {<<h, MaxSegs>>}
           At(p) == desc[p[1]].segs[p[2]]
<1>7. \A s \in Seg : \E p \in T : s = At(p)
  <2>1. SUFFICES ASSUME NEW s \in Seg PROVE \E p \in T : s = At(p)
    OBVIOUS
  <2>2. PICK d \in Desc : \E j \in DOMAIN desc[d].segs : s = desc[d].segs[j]
    BY <1>5
  <2>3. PICK j \in DOMAIN desc[d].segs : s = desc[d].segs[j]
    BY <2>2
  <2>4. <<d, j>> \in T /\ s = At(<<d, j>>)
    BY <1>6, <2>3
  <2> QED BY <2>4
<1>8. PICK f \in [Seg -> T] : \A s \in Seg : s = At(f[s])
  <2> DEFINE Place(s) == CHOOSE p \in T : s = At(p)
  <2>1. \A s \in Seg : Place(s) \in T /\ s = At(Place(s))
    <3> HIDE DEF T, At
    <3> QED BY <1>7
  <2>2. [s \in Seg |-> Place(s)] \in [Seg -> T] /\ \A s \in Seg : s = At([x \in Seg |-> Place(x)][s])
    <3> HIDE DEF Place, T, At
    <3> QED BY <2>1
  <2> QED BY <2>2
<1>9. IsFiniteSet(P) /\ Cardinality(P) = Cardinality(Desc) * MaxSegs
  <2>1. IsFiniteSet(1 .. MaxSegs) /\ Cardinality(1 .. MaxSegs) = MaxSegs
    BY FS_Interval, ConstantsAssumption
  <2> QED BY <2>1, FS_Product DEF PoolFits
<1>10. IsFiniteSet(Seg) /\ Cardinality(Seg) = NumDescs
  BY FS_Interval, ConstantsAssumption DEF Seg
<1>11. IsFiniteSet(T) /\ Cardinality(T) = Cardinality(P) - 1
  <2>1. <<h, MaxSegs>> \in P
    BY ConstantsAssumption
  <2> QED BY <1>9, <2>1, FS_RemoveElement
<1>12. Cardinality(T) < Cardinality(Seg)
  <2>1. Cardinality(P) \in Nat
    BY <1>9, FS_CardinalityType
  <2> QED BY <1>9, <1>10, <1>11, <2>1, ConstantsAssumption DEF PoolFits
<1>13. PICK s \in Seg, r \in Seg : s # r /\ f[s] = f[r]
  <2> HIDE DEF T, Seg
  <2> QED BY <1>8, <1>10, <1>11, <1>12, FS_PigeonHole
<1> QED BY <1>8, <1>13

\* Clients that only call prep_slave_sg and tx_status find a segment whenever they
\* prepare, when the pool has enough of them for the descriptors there are:
\* xilinx_dma_free_tx_descriptor returns each before its descriptor is used again.
THEOREM PoolNeverRunsOut ==
  ASSUME SlaveOnly, PoolFits
  PROVE  Spec => []PoolSuffices
<1>1. NoRelease
  BY DEF SlaveOnly, NoRelease
<1>2. Init => SizeInv
  BY ConstantsAssumption DEF Init, SizeInv, BlankDesc, PrepCalls
<1>3. IInv /\ SizeInv /\ [Next]_vars => SizeInv'
  BY SizeStep
<1>4. Spec => []QInv
  BY QueueInvariance
<1>5. Spec => [](SegsApart /\ SegsAccounted)
  BY <1>1, SegsInvariance
<1>6. QInv /\ SegsAccounted /\ SizeInv => PoolSuffices
  BY PoolCounted DEF QInv
<1>7. QInv => IInv
  BY DEF QInv
<1> QED BY <1>2, <1>3, <1>4, <1>5, <1>6, <1>7, PTL DEF Spec

\* So with such a pool the four properties hold of every behaviour of one client with
\* scatter-gather whose reset succeeds, with no condition on the run.
THEOREM BatchesAreTransferred ==
  ASSUME NEW c \in Client, OnlyClient(c), HasSg, PoolFits
  PROVE  Spec => /\ []ChainsFollowLists /\ []EngineInActive
                 /\ []CompletedWasTransferred /\ []IdleMeansDrained
<1>1. Spec => []PoolSuffices
  BY PoolNeverRunsOut DEF OnlyClient
<1> QED BY <1>1, ChainsKept, EngineStaysInActive, CompletedMeansTransferred, IdleIsDrained, PTL
=============================================================================
