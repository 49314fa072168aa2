----------------------------- MODULE VxdmaPrep -----------------------------
(***************************************************************************)
(* What a transaction of vxdma/vxdma.c transfers: prepare cuts a scatter   *)
(* list, or the periods of a cyclic buffer, into segments that the length  *)
(* field of a hardware descriptor can hold, the engine writes the bytes it *)
(* has moved into the status of each segment, and xilinx_dma_tx_status     *)
(* adds up what is left while the engine goes on.                          *)
(*                                                                         *)
(* VxdmaChannel has the lists, the locks and the contexts; here a segment  *)
(* has its address and its length, and a submitted transaction waits only  *)
(* until active_list is empty.                                             *)
(***************************************************************************)
EXTENDS Integers, Sequences, SequencesExt

CONSTANTS
  MaxTransLen,  \* XILINX_DMA_MAX_TRANS_LEN, which is also the mask of the field
  NumSegs,      \* segments on free_seg_list
  SgLists,      \* the scatter lists that clients pass
  CyclicBufs,   \* the arguments of prep_dma_cyclic
  MaxQueued     \* bound: transactions submitted and not complete

Entry == [addr : Nat, len : Nat]

\* buf_len / period_len divides by zero when there is no period.
ASSUME PrepAssumption ==
  /\ MaxTransLen \in Nat \ {0} /\ NumSegs \in Nat /\ MaxQueued \in Nat
  /\ SgLists \subseteq Seq(Entry)
  /\ CyclicBufs \subseteq [addr : Nat, buf_len : Nat, period_len : Nat \ {0}]

VARIABLES
  entries, cyclic, direction,  \* the arguments of the call of prepare
  i, sg_used,                  \* its loop variables
  pc,
  segments,       \* desc->segments
  free,           \* the length of free_seg_list
  pending_list, active_list,
  reader          \* a call of xilinx_dma_tx_status

callVars == <<entries, cyclic, direction>>
vars == <<callVars, i, sg_used, pc, segments, free, pending_list, active_list, reader>>

Directions == {"mem_to_dev", "dev_to_mem"}

\* The bits of the control and status words above the 23 bits of the length.
Field == MaxTransLen + 1
BD_EOP == 8 * Field
BD_SOP == 16 * Field
STS_CMPLT == 256 * Field

\* "entry" and "used" say where the segment was cut from, "left" the bytes that
\* the engine has not moved; the code keeps none of them.
Segment == [buf_addr : Nat, control : Nat, status : Nat,
            entry : Nat, used : Nat, left : Nat]

Desc == [segments : Seq(Segment), entries : Seq(Entry), cyclic : BOOLEAN,
         direction : Directions]
NoReader == [pc |-> "idle", k |-> 1, residue |-> 0, most |-> 0]

\* Words, lists and counters have their types.
TypeOK ==
  /\ entries \in Seq(Entry) /\ cyclic \in BOOLEAN /\ direction \in Directions
  /\ i \in Nat \ {0} /\ sg_used \in Nat
  /\ pc \in {"idle", "loop", "prepared", "wild"}
  /\ segments \in Seq(Segment) /\ free \in Nat
  /\ pending_list \in Seq(Desc) /\ active_list \in Seq(Desc)
  /\ reader \in [pc : {"idle", "walk"}, k : Nat \ {0}, residue : Nat, most : Nat]

Init ==
  /\ entries = <<>> /\ cyclic = FALSE /\ direction = "mem_to_dev"
  /\ i = 1 /\ sg_used = 0 /\ pc = "idle"
  /\ segments = <<>> /\ free = NumSegs
  /\ pending_list = <<>> /\ active_list = <<>>
  /\ reader = NoReader
-----------------------------------------------------------------------------
(* xilinx_dma_prep_slave_sg and xilinx_dma_prep_dma_cyclic *)

Queued == Len(pending_list) + Len(active_list)
CyclicQueued == \E d \in Range(pending_list) \cup Range(active_list) : d.cyclic

\* A cyclic transaction is the last one the channel accepts.
Call(list, isCyclic) ==
  /\ pc = "idle" /\ Queued < MaxQueued /\ ~CyclicQueued
  /\ entries' = list /\ cyclic' = isCyclic /\ direction' \in Directions
  /\ i' = 1 /\ sg_used' = 0 /\ segments' = <<>> /\ pc' = "loop"
  /\ UNCHANGED <<free, pending_list, active_list, reader>>

PrepSlaveSg == \E list \in SgLists : Call(list, FALSE)

\* Bug variant: the periods do not move through the buffer.
PeriodsInPlace(b) ==
  [p \in 1 .. b.buf_len \div b.period_len |-> [addr |-> b.addr, len |-> b.period_len]]

\* What follows the last whole period is not transferred.
Periods(b) ==
  [p \in 1 .. b.buf_len \div b.period_len |->
     [addr |-> b.addr + b.period_len * (p - 1), len |-> b.period_len]]

PrepDmaCyclic == \E b \in CyclicBufs : Call(Periods(b), TRUE)

InEntry == pc = "loop" /\ i <= Len(entries) /\ sg_used < entries[i].len

\* Bug variant: the length wraps to zero in its field.
CopyLenOverflow ==
  LET rest == entries[i].len - sg_used IN IF rest > Field THEN Field ELSE rest

\* copy, at most what the field can hold.
CopyLen ==
  LET rest == entries[i].len - sg_used
  IN IF rest > MaxTransLen THEN MaxTransLen ELSE rest

NewSegment ==
  [buf_addr |-> entries[i].addr + sg_used, control |-> CopyLen, status |-> 0,
   entry |-> i, used |-> sg_used, left |-> CopyLen]

AddSegment ==
  /\ InEntry /\ free > 0
  /\ free' = free - 1
  /\ segments' = Append(segments, NewSegment)
  /\ sg_used' = sg_used + CopyLen
  /\ UNCHANGED <<callVars, i, pc, pending_list, active_list, reader>>

\* Bug variant: sg_used goes on from entry to entry.
NextEntryKeepsUsed ==
  /\ pc = "loop" /\ i <= Len(entries) /\ ~InEntry
  /\ i' = i + 1 /\ sg_used' = sg_used
  /\ UNCHANGED <<callVars, pc, segments, free, pending_list, active_list, reader>>

NextEntry ==
  /\ pc = "loop" /\ i <= Len(entries) /\ ~InEntry
  /\ i' = i + 1 /\ sg_used' = 0
  /\ UNCHANGED <<callVars, pc, segments, free, pending_list, active_list, reader>>

\* The error path: xilinx_dma_free_tx_descriptor.
NoSegment ==
  /\ InEntry /\ free = 0
  /\ free' = free + Len(segments)
  /\ segments' = <<>> /\ pc' = "idle"
  /\ UNCHANGED <<callVars, i, sg_used, pending_list, active_list, reader>>

\* A transfer to the device is one packet: the first segment starts it, and the
\* last one ends it.
Flags(k, n) == (IF k = 1 THEN BD_SOP ELSE 0) + (IF k = n THEN BD_EOP ELSE 0)
Marked(segs) ==
  [k \in DOMAIN segs |-> [segs[k] EXCEPT !.control = @ + Flags(k, Len(segs))]]

\* Without a segment list_first_entry is the list head itself, and writing its
\* control word is undefined: "wild".
Finish ==
  /\ pc = "loop" /\ i > Len(entries)
  /\ segments' = IF direction = "mem_to_dev" THEN Marked(segments) ELSE segments
  /\ pc' = IF segments = <<>> THEN "wild" ELSE "prepared"
  /\ UNCHANGED <<callVars, i, sg_used, free, pending_list, active_list, reader>>
-----------------------------------------------------------------------------
(* The transaction is submitted, started, transferred and completed *)

Submit ==
  /\ pc = "prepared" /\ pc' = "idle"
  /\ pending_list' = Append(pending_list,
       [segments |-> segments, entries |-> entries, cyclic |-> cyclic,
        direction |-> direction])
  /\ segments' = <<>>
  /\ UNCHANGED <<callVars, i, sg_used, free, active_list, reader>>

StartTransfer ==
  /\ active_list = <<>> /\ pending_list # <<>>
  /\ active_list' = pending_list /\ pending_list' = <<>>
  /\ UNCHANGED <<callVars, i, sg_used, pc, segments, free, reader>>

IsDone(s) == s.status >= STS_CMPLT
AllDone(d) == \A s \in Range(d.segments) : IsDone(s)

\* The engine writes the status when it is done with a segment.  A packet that it
\* receives may end early.  Later rounds of a cyclic transaction write it again.
Done(s, n) == [s EXCEPT !.status = n + STS_CMPLT, !.left = @ - n]

EngineMoves(q, k, n) ==
  LET s == active_list[q].segments[k] IN
  /\ ~IsDone(s)
  /\ \A r \in 1 .. q - 1 : AllDone(active_list[r])
  /\ \A j \in 1 .. k - 1 : IsDone(active_list[q].segments[j])
  /\ n = s.left \/ active_list[q].direction = "dev_to_mem"
  /\ active_list' = [active_list EXCEPT ![q].segments[k] = Done(s, n)]
  /\ UNCHANGED <<callVars, i, sg_used, pc, segments, free, pending_list, reader>>

Engine ==
  \E q \in DOMAIN active_list : \E k \in DOMAIN active_list[q].segments :
    \E n \in 1 .. active_list[q].segments[k].left : EngineMoves(q, k, n)

\* The interrupt handler takes all of active_list when the engine has done it, and
\* the tasklet frees the segments.  Both need chan->lock.
Complete ==
  /\ active_list # <<>> /\ \A d \in Range(active_list) : AllDone(d) /\ ~d.cyclic
  /\ reader.pc = "idle"
  /\ free' = free + FoldLeft(LAMBDA n, d : n + Len(d.segments), 0, active_list)
  /\ active_list' = <<>>
  /\ UNCHANGED <<callVars, i, sg_used, pc, segments, pending_list, reader>>
-----------------------------------------------------------------------------
(* xilinx_dma_tx_status *)

\* What is left in the first segments, by their number.
LeftUpTo(segs) ==
  LET left[k \in 0 .. Len(segs)] == IF k = 0 THEN 0 ELSE left[k - 1] + segs[k].left
  IN left

BytesLeft(d) == LeftUpTo(d.segments)[Len(d.segments)]

\* list_last_entry, then the lock.  A caller whose cookie is complete has had its answer
\* from dma_cookie_status, and nothing is read.  Any other gets the residue of the last
\* descriptor that is active, even if its own is another one or still pending.
\* (VxdmaChannel has the calls that find the list empty.)
TxStatus ==
  /\ reader.pc = "idle" /\ active_list # <<>>
  /\ reader' = [pc |-> "walk", k |-> 1, residue |-> 0, most |-> BytesLeft(Last(active_list))]
  /\ UNCHANGED <<callVars, i, sg_used, pc, segments, free, pending_list, active_list>>

\* Bug variant: without the mask the flags of the two words are left in.
SegResidueUnmasked(s) == s.control - s.status

\* The word is unsigned, so a borrow goes out at its top, above the mask.
SegResidue(s) == (s.control - s.status) % Field

Walked == Last(active_list).segments

AddResidue ==
  /\ reader.pc = "walk" /\ reader.k <= Len(Walked)
  /\ reader' = [reader EXCEPT !.residue = @ + SegResidue(Walked[reader.k]), !.k = @ + 1]
  /\ UNCHANGED <<callVars, i, sg_used, pc, segments, free, pending_list, active_list>>

TxStatusReturn ==
  /\ reader.pc = "walk" /\ reader.k > Len(Walked)
  /\ reader' = NoReader
  /\ UNCHANGED <<callVars, i, sg_used, pc, segments, free, pending_list, active_list>>
-----------------------------------------------------------------------------
Prepare == PrepSlaveSg \/ PrepDmaCyclic \/ AddSegment \/ NextEntry \/ NoSegment \/ Finish
Status == TxStatus \/ AddResidue \/ TxStatusReturn

Next == Prepare \/ Submit \/ StartTransfer \/ Engine \/ Complete \/ Status

Spec == Init /\ [][Next]_vars
-----------------------------------------------------------------------------
(* Properties *)

Ready == Range(pending_list) \cup Range(active_list)

Length(s) == s.control % Field

\* A segment begins where the one before it ends, or at the start of an entry when
\* all before it has been cut; the loop variables stand behind the last one.  So
\* no byte is left out between two segments and none is in both.
CutInOrder ==
  LET Ends(s) == s.used + Length(s)
      Follows(e, u, s) ==   \* e and u are the next position after segment s
        \/ e = s.entry /\ u = Ends(s)
        \/ /\ e > s.entry /\ u = 0 /\ Ends(s) = entries[s.entry].len
           /\ \A f \in s.entry + 1 .. e - 1 : entries[f].len = 0
  IN pc = "loop" =>
       /\ \A k \in DOMAIN segments :
            /\ segments[k].buf_addr = entries[segments[k].entry].addr + segments[k].used
            /\ k > 1 => Follows(segments[k].entry, segments[k].used, segments[k - 1])
       /\ segments # <<>> => Follows(i, sg_used, Last(segments))

\* The addresses of pieces of memory, byte by byte; of the first of them, by their
\* number.
Block(addr, len) == [o \in 1 .. len |-> addr + o - 1]

BytesUpTo(pieces) ==
  LET bytes[k \in 0 .. Len(pieces)] ==
        IF k = 0 THEN <<>> ELSE bytes[k - 1] \o Block(pieces[k].addr, pieces[k].len)
  IN bytes

Bytes(pieces) == BytesUpTo(pieces)[Len(pieces)]

Pieces(d) ==
  [k \in DOMAIN d.segments |->
     [addr |-> d.segments[k].buf_addr, len |-> Length(d.segments[k])]]

\* A transaction that is queued has every byte of its scatter list in one segment,
\* and the engine meets them in order.  The periods of a cyclic one follow each
\* other through the buffer.
EveryByteOnce ==
  \A d \in Ready :
    LET bytes == Bytes(Pieces(d)) IN
    /\ bytes = Bytes(d.entries)
    /\ d.cyclic => \A n \in 1 .. Len(bytes) - 1 : bytes[n + 1] = bytes[n] + 1

\* The engine never gets a segment of no bytes, which it would report as an error,
\* and the flags do not run into the length: what is done and what is left are the
\* length in the control word.
LengthsFit ==
  \A d \in Ready : \A s \in Range(d.segments) :
    Length(s) > 0 /\ Length(s) = s.left + (s.status % Field)

\* The residue is added up segment by segment while the engine goes on, and still
\* is no less than what is left when the call returns and no more than what was
\* left when it began.
ResidueBetween ==
  reader.pc = "walk" /\ reader.k > Len(Walked) =>
    BytesLeft(Last(active_list)) <= reader.residue /\ reader.residue <= reader.most
-----------------------------------------------------------------------------
(* Two more that the code does not have. *)

\* There is a segment to mark: not so when every entry is empty, or the buffer is
\* shorter than a period.
NeverWild == pc # "wild"

\* Every byte of a cyclic buffer is in a period: not so when the length is not a
\* multiple of the period.
CyclicComplete ==
  \A b \in CyclicBufs :
    Len(Bytes(Periods(b))) = b.buf_len
=============================================================================
