-------------------------- MODULE VxdmaPrepProofs --------------------------
(***************************************************************************)
(* For every limit of a segment, every set of scatter lists and cyclic     *)
(* buffers, and any number of segments and transactions: prepare cuts      *)
(* without a gap and without an overlap, the words it writes keep lengths  *)
(* and flags apart, the segments hold every byte once, and the residue is  *)
(* between what was left when tx_status began and when it returned.        *)
(***************************************************************************)
EXTENDS VxdmaPrep, SequenceTheorems, FiniteSetTheorems, WellFoundedInduction, TLAPS

\* The low bits of a word are its length, whatever flags are above them.
LEMMA FieldOf ==
  ASSUME NEW n \in 0 .. MaxTransLen, NEW flags \in Nat
  PROVE  /\ (n + flags * Field) % Field = n
         /\ n % Field = n
<1>1. Field \in Nat \ {0} /\ n \in 0 .. Field - 1
  BY PrepAssumption DEF Field
<1>2. ASSUME NEW F \in Nat \ {0}, NEW x \in 0 .. F - 1
      PROVE  (x + flags * F) % F = x /\ x % F = x
  OBVIOUS
<1> QED BY <1>1, <1>2

LEMMA FieldRange ==
  ASSUME NEW w \in Nat
  PROVE  w % Field \in 0 .. MaxTransLen
<1>1. Field \in Nat \ {0} /\ MaxTransLen = Field - 1
  BY PrepAssumption DEF Field
<1>2. ASSUME NEW F \in Nat \ {0} PROVE w % F \in 0 .. F - 1
  OBVIOUS
<1> QED BY <1>1, <1>2

LEMMA EntryOf ==
  ASSUME NEW list \in Seq(Entry), NEW k \in DOMAIN list
  PROVE  list[k] \in Entry /\ list[k].addr \in Nat /\ list[k].len \in Nat
<1>1. list[k] \in Entry
  BY ElementOfSeq
<1> QED BY <1>1 DEF Entry

\* A segment while it is prepared: a piece of its entry, with no flags yet.
Cut(s) ==
  /\ s \in Segment /\ s.entry \in DOMAIN entries
  /\ s.control \in 1 .. MaxTransLen /\ s.left = s.control /\ s.status = 0
  /\ s.buf_addr = entries[s.entry].addr + s.used
  /\ s.used + s.control <= entries[s.entry].len

\* The position <<e, u>> comes directly after segment s.
Follows(e, u, s) ==
  \/ e = s.entry /\ u = s.used + s.control
  \/ /\ e > s.entry /\ u = 0 /\ s.used + s.control = entries[s.entry].len
     /\ \A f \in s.entry + 1 .. e - 1 : entries[f].len = 0

Typed ==
  /\ entries \in Seq(Entry) /\ direction \in Directions
  /\ i \in Nat \ {0} /\ sg_used \in Nat
  /\ pc \in {"idle", "loop", "prepared", "wild"}
  /\ segments \in Seq(Segment)

\* The loop of prepare: inductive by itself.
Cutting ==
  pc = "loop" =>
    /\ i \in DOMAIN entries => sg_used <= entries[i].len
    /\ i \notin DOMAIN entries => sg_used = 0
    /\ \A k \in DOMAIN segments : Cut(segments[k])
    /\ \A k \in DOMAIN segments :
         k > 1 => Follows(segments[k].entry, segments[k].used, segments[k - 1])
    /\ segments # <<>> => Follows(i, sg_used, segments[Len(segments)])

CutInv == Typed /\ Cutting

LEMMA FlagsInField ==
  ASSUME NEW k, NEW n
  PROVE  \E f \in Nat : Flags(k, n) = f * Field
<1>1. /\ Field \in Nat /\ BD_SOP = 16 * Field /\ BD_EOP = 8 * Field
  BY PrepAssumption DEF Field, BD_SOP, BD_EOP
<1>2. \/ Flags(k, n) = 0 * Field \/ Flags(k, n) = 8 * Field
      \/ Flags(k, n) = 16 * Field \/ Flags(k, n) = 24 * Field
  BY <1>1 DEF Flags
<1> QED BY <1>2

LEMMA FlaggedSegment ==
  ASSUME NEW s \in Segment, NEW f \in Nat
  PROVE  [s EXCEPT !.control = @ + f] \in Segment
BY DEF Segment

LEMMA MarkedSegments ==
  ASSUME NEW segs \in Seq(Segment)
  PROVE  /\ Marked(segs) \in Seq(Segment) /\ DOMAIN Marked(segs) = DOMAIN segs
         /\ \A k \in DOMAIN segs :
              Marked(segs)[k] = [segs[k] EXCEPT !.control = @ + Flags(k, Len(segs))]
<1>1. DOMAIN segs = 1 .. Len(segs) /\ Len(segs) \in Nat
  OBVIOUS
<1>2. ASSUME NEW k \in DOMAIN segs
      PROVE  [segs[k] EXCEPT !.control = @ + Flags(k, Len(segs))] \in Segment
  <2>1. segs[k] \in Segment
    BY <1>1, ElementOfSeq
  <2>2. Flags(k, Len(segs)) \in Nat
    BY FlagsInField, PrepAssumption DEF Field
  <2> QED BY <2>1, <2>2, FlaggedSegment
<1>3. Marked(segs) \in [1 .. Len(segs) -> Segment]
  BY <1>1, <1>2 DEF Marked
<1> QED BY <1>1, <1>3, SeqDef DEF Marked

LEMMA PeriodsAreEntries ==
  ASSUME NEW b \in CyclicBufs
  PROVE  Periods(b) \in Seq(Entry)
<1>1. b \in [addr : Nat, buf_len : Nat, period_len : Nat \ {0}]
  BY PrepAssumption
<1>2. b.buf_len \div b.period_len \in Nat
  <2>1. ASSUME NEW x \in Nat, NEW y \in Nat \ {0} PROVE x \div y \in Nat
    OBVIOUS
  <2> QED BY <1>1, <2>1
<1>3. ASSUME NEW p \in 1 .. b.buf_len \div b.period_len
      PROVE  [addr |-> b.addr + b.period_len * (p - 1), len |-> b.period_len] \in Entry
  <2>1. p - 1 \in Nat
    BY <1>2
  <2>2. ASSUME NEW x \in Nat, NEW y \in Nat PROVE x * y \in Nat
    OBVIOUS
  <2>3. b.period_len * (p - 1) \in Nat
    BY <1>1, <2>1, <2>2
  <2> QED BY <1>1, <2>3 DEF Entry
<1> DEFINE F == [p \in 1 .. b.buf_len \div b.period_len |->
                  [addr |-> b.addr + b.period_len * (p - 1), len |-> b.period_len]]
<1>4. F \in [1 .. b.buf_len \div b.period_len -> Entry]
  BY <1>3
<1>5. F \in Seq(Entry)
  BY <1>2, <1>4, SeqDef, ZenonT(40)
<1> QED BY <1>5 DEF Periods

\* What a step of the loop appends is a piece of the entry it is in.
LEMMA NewSegmentIsCut ==
  ASSUME Typed, InEntry, i \in DOMAIN entries => sg_used <= entries[i].len
  PROVE  /\ CopyLen \in 1 .. MaxTransLen /\ sg_used + CopyLen <= entries[i].len
         /\ Cut(NewSegment)
<1>1. i \in DOMAIN entries /\ entries[i] \in Entry
  BY DEF Typed, InEntry
<1>2. entries[i].len \in Nat /\ entries[i].addr \in Nat /\ sg_used < entries[i].len
  BY <1>1 DEF InEntry, Entry
<1>3. CopyLen \in 1 .. MaxTransLen /\ sg_used + CopyLen <= entries[i].len
  BY <1>2, PrepAssumption DEF CopyLen, Typed
<1>4. NewSegment \in Segment
  BY <1>1, <1>2, <1>3, PrepAssumption DEF NewSegment, Segment, Typed
<1> QED BY <1>1, <1>3, <1>4 DEF Cut, NewSegment

LEMMA CutStep ==
  ASSUME CutInv, [Next]_vars
  PROVE  CutInv'
<1> USE DEF CutInv, Typed
<1>1. ASSUME NEW list \in Seq(Entry), NEW isCyclic, Call(list, isCyclic)
      PROVE  CutInv'
  <2>1. /\ entries' = list /\ i' = 1 /\ sg_used' = 0 /\ segments' = <<>> /\ pc' = "loop"
        /\ direction' \in Directions
    BY <1>1 DEF Call
  <2>2. \A k \in DOMAIN list : list[k].len \in Nat
    BY EntryOf
  <2>3. segments' \in Seq(Segment) /\ DOMAIN segments' = {}
    BY <2>1
  <2> QED BY <2>1, <2>2, <2>3 DEF Cutting
<1>2. ASSUME NEW list \in SgLists, Call(list, FALSE)
      PROVE  CutInv'
  BY <1>1, <1>2, PrepAssumption
<1>3. ASSUME NEW b \in CyclicBufs, Call(Periods(b), TRUE)
      PROVE  CutInv'
  BY <1>1, <1>3, PeriodsAreEntries
<1>4. CASE AddSegment
  <2> DEFINE n == Len(segments)
  <2>1. /\ pc = "loop" /\ pc' = "loop" /\ entries' = entries /\ i' = i
        /\ i \in DOMAIN entries /\ direction' = direction
        /\ segments' = Append(segments, NewSegment) /\ sg_used' = sg_used + CopyLen
    BY <1>4 DEF AddSegment, InEntry, callVars
  <2>2. /\ CopyLen \in 1 .. MaxTransLen /\ sg_used + CopyLen <= entries[i].len
        /\ Cut(NewSegment)
    BY <1>4, NewSegmentIsCut DEF AddSegment, InEntry, Cutting
  <2>3. Typed'
    BY <2>1, <2>2, PrepAssumption DEF Cut
  <2>4. /\ n \in Nat /\ Len(segments') = n + 1
        /\ \A k \in 1 .. n : segments'[k] = segments[k]
        /\ segments'[n + 1] = NewSegment
    BY <2>1, <2>2 DEF Cut
  <2>5. \A k \in DOMAIN segments' : Cut(segments'[k])
    BY <2>1, <2>2, <2>4 DEF Cutting
  <2>6. ASSUME NEW k \in DOMAIN segments', k > 1
        PROVE  Follows(segments'[k].entry, segments'[k].used, segments'[k - 1])
    <3>1. CASE k <= n
      BY <2>1, <2>4, <2>6, <3>1 DEF Cutting
    <3>2. CASE k = n + 1
      <4>1. segments'[k - 1] = segments[n] /\ segments # <<>> /\ segments'[k] = NewSegment
        BY <2>4, <2>6, <3>2
      <4>2. NewSegment.entry = i /\ NewSegment.used = sg_used
        BY DEF NewSegment
      <4> QED BY <2>1, <4>1, <4>2 DEF Cutting
    <3> QED BY <2>4, <2>6, <3>1, <3>2
  <2>7. Follows(i, sg_used', NewSegment)
    BY <2>1 DEF Follows, NewSegment
  <2>8. Cutting'
    <3>1. /\ i' \in DOMAIN entries' => sg_used' <= entries'[i'].len
          /\ i' \notin DOMAIN entries' => sg_used' = 0
      BY <2>1, <2>2
    <3>2. segments'[Len(segments')] = NewSegment
      BY <2>4
    <3> QED BY <2>1, <2>4, <2>5, <2>6, <2>7, <3>1, <3>2, ZenonT(40) DEF Cutting, Cut, Follows
  <2> QED BY <2>3, <2>8
<1>5. CASE NextEntry
  <2>1. /\ pc = "loop" /\ pc' = "loop" /\ entries' = entries /\ i' = i + 1 /\ sg_used' = 0
        /\ i \in DOMAIN entries /\ sg_used >= entries[i].len /\ segments' = segments
        /\ direction' = direction
    <3>1. i \in DOMAIN entries
      BY <1>5 DEF NextEntry
    <3> QED BY <1>5, <3>1, EntryOf DEF NextEntry, InEntry, callVars
  <2>2. Typed'
    BY <2>1
  <2>3. sg_used = entries[i].len
    BY <2>1, EntryOf DEF Cutting
  <2>4. ASSUME segments # <<>>
        PROVE  Follows(i + 1, 0, segments[Len(segments)])
    <3> DEFINE s == segments[Len(segments)]
    <3>1. Cut(s) /\ Follows(i, sg_used, s)
      BY <2>1, <2>4 DEF Cutting
    <3>2. CASE i = s.entry
      BY <3>1, <3>2, <2>3 DEF Follows
    <3>3. CASE i # s.entry
      BY <3>1, <3>3, <2>1, <2>3, SMTT(40) DEF Follows, Cut, Segment
    <3> QED BY <3>2, <3>3
  <2>5. i + 1 \in DOMAIN entries => 0 <= entries[i + 1].len
    BY EntryOf
  <2>6. Cutting'
    BY <2>1, <2>4, <2>5 DEF Cutting, Cut, Follows
  <2> QED BY <2>2, <2>6
<1>6. CASE NoSegment
  BY <1>6 DEF NoSegment, Cutting, callVars
<1>7. CASE Finish
  BY <1>7, MarkedSegments DEF Finish, Cutting, callVars
<1>8. CASE Submit
  BY <1>8 DEF Submit, Cutting, callVars
<1>9. CASE StartTransfer \/ Engine \/ Complete \/ Status \/ UNCHANGED vars
  <2>1. UNCHANGED <<callVars, i, sg_used, pc, segments>>
    BY <1>9 DEF StartTransfer, Engine, EngineMoves, Complete, Status, TxStatus,
                AddResidue, TxStatusReturn, vars
  <2> QED BY <2>1 DEF callVars, Cutting, Cut, Follows
<1> QED
  BY <1>2, <1>3, <1>4, <1>5, <1>6, <1>7, <1>8, <1>9 DEF Next, Prepare, PrepSlaveSg, PrepDmaCyclic

LEMMA CutInit == Init => CutInv
BY DEF Init, CutInv, Typed, Cutting, Directions

LEMMA CutImplies == CutInv => CutInOrder
<1> SUFFICES ASSUME CutInv, pc = "loop"
             PROVE  CutInOrder
  BY DEF CutInOrder
<1>1. \A k \in DOMAIN segments : Cut(segments[k]) /\ Length(segments[k]) = segments[k].control
  BY FieldOf DEF CutInv, Cutting, Cut, Length
<1>2. segments # <<>> => Last(segments) = segments[Len(segments)] /\ Len(segments) \in DOMAIN segments
  BY DEF Last, CutInv, Typed
<1>3. \A k \in DOMAIN segments : k > 1 => k - 1 \in DOMAIN segments
  BY DEF CutInv, Typed
<1> QED BY <1>1, <1>2, <1>3 DEF CutInOrder, CutInv, Cutting, Cut, Follows

\* However prepare is called, and whether or not it runs out of segments: the
\* segments it has cut leave no gap and do not overlap (vxdma.c:841-879, 943-983).
THEOREM CutWithoutGaps == Spec => []CutInOrder
<1>1. CutInv /\ UNCHANGED vars => CutInv'
  BY CutStep
<1> QED BY CutInit, CutStep, CutImplies, PTL DEF Spec

(***************************************************************************)
(* Lengths and flags.                                                      *)
(***************************************************************************)

\* The status word of a segment is clean, or written once by the engine.
Fits(s) ==
  /\ s \in Segment /\ s.left \in 0 .. MaxTransLen
  /\ \E f \in Nat : \E n \in 1 .. MaxTransLen :
       /\ s.control = n + f * Field
       /\ \/ s.status = 0 /\ s.left = n
          \/ /\ s.left < n /\ s.status = (n - s.left) + STS_CMPLT

AllFit(segs) == segs \in Seq(Segment) /\ \A k \in DOMAIN segs : Fits(segs[k])

QueueFits(list) == list \in Seq(Desc) /\ \A q \in DOMAIN list : AllFit(list[q].segments)

FitInv ==
  /\ CutInv /\ cyclic \in BOOLEAN
  /\ pc = "prepared" => AllFit(segments)
  /\ QueueFits(pending_list) /\ QueueFits(active_list)

\* Whatever the flags and the status, the length comes out.
LEMMA FitsLength ==
  ASSUME NEW s, Fits(s)
  PROVE  Length(s) > 0 /\ Length(s) = s.left + (s.status % Field)
<1>1. PICK f \in Nat, n \in 1 .. MaxTransLen :
        /\ s.control = n + f * Field
        /\ \/ s.status = 0 /\ s.left = n
           \/ s.left < n /\ s.status = (n - s.left) + STS_CMPLT
  BY DEF Fits
<1>2. n \in 0 .. MaxTransLen /\ s.left \in 0 .. MaxTransLen /\ MaxTransLen \in Nat
  BY PrepAssumption DEF Fits
<1>3. Length(s) = n
  BY <1>1, <1>2, FieldOf DEF Length
<1>4. CASE s.status = 0 /\ s.left = n
  <2>1. s.status % Field = 0
    BY <1>4, <1>2, FieldOf
  <2> QED BY <1>2, <1>3, <1>4, <2>1
<1>5. CASE s.left < n /\ s.status = (n - s.left) + STS_CMPLT
  <2>1. n - s.left \in 0 .. MaxTransLen
    BY <1>2, <1>5
  <2>2. s.status % Field = n - s.left
    BY <1>5, <2>1, FieldOf DEF STS_CMPLT
  <2> QED BY <1>2, <1>3, <2>2
<1> QED BY <1>1, <1>4, <1>5

LEMMA FitImplies == FitInv => LengthsFit
BY FitsLength DEF FitInv, QueueFits, AllFit, LengthsFit, Ready, Range

\* The flags go above the length.
LEMMA MarkedFits ==
  ASSUME NEW segs \in Seq(Segment), \A k \in DOMAIN segs : Cut(segs[k])
  PROVE  AllFit(segs) /\ AllFit(Marked(segs))
<1>1. ASSUME NEW k \in DOMAIN segs PROVE Fits(segs[k])
  <2>1. segs[k].control = segs[k].control + 0 * Field
    BY PrepAssumption DEF Cut, Field
  <2> QED BY <2>1, PrepAssumption DEF Cut, Fits
<1>2. ASSUME NEW k \in DOMAIN segs PROVE Fits(Marked(segs)[k])
  <2> DEFINE s == segs[k]
             t == Marked(segs)[k]
  <2>1. Cut(s) /\ s \in Segment
    BY DEF Cut
  <2>2. PICK f \in Nat : Flags(k, Len(segs)) = f * Field
    BY FlagsInField
  <2>3. t = [s EXCEPT !.control = @ + f * Field] /\ t \in Segment
    BY <2>2, MarkedSegments, ElementOfSeq
  <2>4. t.control = s.control + f * Field /\ t.left = s.left /\ t.status = s.status
    BY <2>1, <2>3 DEF Segment
  <2> QED BY <2>1, <2>3, <2>4, PrepAssumption DEF Cut, Fits
<1> QED BY <1>1, <1>2, MarkedSegments DEF AllFit

\* The engine writes a status that is complete, and what is left shrinks with it.
LEMMA DoneSegment ==
  ASSUME NEW s \in Segment, NEW n, n + STS_CMPLT \in Nat, s.left - n \in Nat
  PROVE  /\ Done(s, n) \in Segment /\ Done(s, n).control = s.control
         /\ Done(s, n).status = n + STS_CMPLT /\ Done(s, n).left = s.left - n
BY DEF Segment, Done

LEMMA DoneFits ==
  ASSUME NEW s, Fits(s), ~IsDone(s), NEW n \in 1 .. s.left
  PROVE  Fits(Done(s, n)) /\ Done(s, n) \in Segment
<1> DEFINE t == Done(s, n)
<1>1. PICK f \in Nat, m \in 1 .. MaxTransLen :
        /\ s.control = m + f * Field
        /\ \/ s.status = 0 /\ s.left = m
           \/ s.left < m /\ s.status = (m - s.left) + STS_CMPLT
  BY DEF Fits
<1>2. STS_CMPLT \in Nat /\ MaxTransLen \in Nat /\ s.left \in 0 .. MaxTransLen
  BY PrepAssumption DEF STS_CMPLT, Field, Fits
<1>3. s.left = m
  BY <1>1, <1>2 DEF IsDone
<1>4. n + STS_CMPLT \in Nat /\ s.left - n \in 0 .. MaxTransLen
  BY <1>2
<1>5. s \in Segment
  BY DEF Fits
<1>6. t \in Segment
  BY <1>4, <1>5, DoneSegment
<1>7. t.control = s.control /\ t.status = n + STS_CMPLT /\ t.left = s.left - n
  BY <1>4, <1>5, DoneSegment
<1>8. t.left < m /\ n = m - t.left
  BY <1>2, <1>3, <1>7
<1> QED BY <1>1, <1>4, <1>6, <1>7, <1>8 DEF Fits

LEMMA FitInit == Init => FitInv
<1> SUFFICES ASSUME Init PROVE FitInv
  OBVIOUS
<1>1. QueueFits(<<>>)
  BY DEF QueueFits
<1> QED BY <1>1, CutInit DEF Init, FitInv

LEMMA FitStep ==
  ASSUME FitInv, [Next]_vars
  PROVE  FitInv'
<1>1. CutInv' /\ CutInv
  BY CutStep DEF FitInv
<1>2. CASE Prepare
  <2>1. UNCHANGED <<pending_list, active_list>>
    BY <1>2 DEF Prepare, PrepSlaveSg, PrepDmaCyclic, Call, AddSegment, NextEntry, NoSegment,
                Finish
  <2>2. cyclic' \in BOOLEAN
    BY <1>2 DEF FitInv, Prepare, PrepSlaveSg, PrepDmaCyclic, Call, AddSegment, NextEntry,
                NoSegment, Finish, callVars
  <2>3. ASSUME pc' = "prepared" PROVE AllFit(segments')
    <3>1. Finish
      BY <1>2, <2>3 DEF Prepare, PrepSlaveSg, PrepDmaCyclic, Call, AddSegment, InEntry,
                        NextEntry, NoSegment
    <3>2. /\ pc = "loop"
          /\ segments' = IF direction = "mem_to_dev" THEN Marked(segments) ELSE segments
      BY <3>1 DEF Finish
    <3>3. segments \in Seq(Segment) /\ \A k \in DOMAIN segments : Cut(segments[k])
      BY <1>1, <3>2 DEF CutInv, Typed, Cutting
    <3> QED BY <3>2, <3>3, MarkedFits
  <2> QED BY <1>1, <2>1, <2>2, <2>3 DEF FitInv, AllFit, QueueFits
<1>3. CASE Submit
  <2> DEFINE d == [segments |-> segments, entries |-> entries, cyclic |-> cyclic,
                   direction |-> direction]
  <2>1. AllFit(segments) /\ d \in Desc
    BY <1>1, <1>3 DEF Submit, FitInv, CutInv, Typed, Desc
  <2>2. /\ pending_list' = Append(pending_list, d) /\ active_list' = active_list
        /\ cyclic' = cyclic /\ pc' = "idle"
    BY <1>3 DEF Submit, callVars
  <2>3. QueueFits(pending_list')
    <3> DEFINE n == Len(pending_list)
    <3>1. pending_list \in Seq(Desc)
      BY DEF FitInv, QueueFits
    <3>2. /\ pending_list' \in Seq(Desc) /\ Len(pending_list') = n + 1 /\ n \in Nat
          /\ \A q \in 1 .. n : pending_list'[q] = pending_list[q]
          /\ pending_list'[n + 1] = d
      BY <2>1, <2>2, <3>1, AppendProperties
    <3>3. \A q \in 1 .. n : AllFit(pending_list[q].segments)
      BY <3>1 DEF FitInv, QueueFits
    <3>4. d.segments = segments
      OBVIOUS
    <3> QED BY <2>1, <3>2, <3>3, <3>4 DEF QueueFits
  <2> QED BY <1>1, <2>2, <2>3 DEF FitInv, QueueFits, AllFit
<1>4. CASE StartTransfer
  <2>1. QueueFits(<<>>)
    BY DEF QueueFits
  <2>2. pending_list' = <<>> /\ active_list' = pending_list
    BY <1>4 DEF StartTransfer
  <2>3. UNCHANGED <<cyclic, pc, segments>>
    BY <1>4 DEF StartTransfer, callVars
  <2> QED BY <1>1, <2>1, <2>2, <2>3 DEF FitInv, AllFit, QueueFits
<1>5. CASE Engine
  <2>1. PICK q \in DOMAIN active_list : \E k \in DOMAIN active_list[q].segments :
          \E n \in 1 .. active_list[q].segments[k].left : EngineMoves(q, k, n)
    BY <1>5 DEF Engine
  <2>2. PICK k \in DOMAIN active_list[q].segments :
          \E n \in 1 .. active_list[q].segments[k].left : EngineMoves(q, k, n)
    BY <2>1
  <2>3. PICK n \in 1 .. active_list[q].segments[k].left : EngineMoves(q, k, n)
    BY <2>2
  <2>4. /\ ~IsDone(active_list[q].segments[k])
         /\ active_list' = [active_list EXCEPT ![q].segments[k] =
                                 Done(active_list[q].segments[k], n)]
    BY <2>3, Zenon DEF EngineMoves
  <2> DEFINE d == active_list[q]
             s == d.segments[k]
             t == Done(s, n)
             e == [d EXCEPT !.segments = [d.segments EXCEPT ![k] = t]]
  <2>5. active_list' = [active_list EXCEPT ![q] = e]
    BY <2>4, Zenon
  <2>6. active_list \in Seq(Desc) /\ d \in Desc /\ AllFit(d.segments) /\ Fits(s)
    BY ElementOfSeq DEF FitInv, QueueFits, AllFit
  <2>7. Fits(t) /\ t \in Segment
    BY <2>4, <2>6, DoneFits DEF Fits
  <2>8. AllFit([d.segments EXCEPT ![k] = t])
    BY <2>6, <2>7 DEF AllFit
  <2>9. e \in Desc /\ e.segments = [d.segments EXCEPT ![k] = t]
    BY <2>6, <2>8 DEF Desc, AllFit
  <2>10. QueueFits(active_list')
    <3> HIDE DEF e
    <3>1. active_list' \in Seq(Desc) /\ DOMAIN active_list' = DOMAIN active_list
      BY <2>5, <2>6, <2>9, ExceptSeq
    <3>2. \A p \in DOMAIN active_list : active_list'[p] = IF p = q THEN e ELSE active_list[p]
      BY <2>5, <2>6
    <3> QED BY <2>8, <2>9, <3>1, <3>2 DEF FitInv, QueueFits
  <2>11. UNCHANGED <<cyclic, pc, segments, pending_list>>
    BY <2>3 DEF EngineMoves, callVars
  <2> QED BY <1>1, <2>10, <2>11 DEF FitInv, AllFit, QueueFits
<1>6. CASE Complete
  <2>1. QueueFits(<<>>)
    BY DEF QueueFits
  <2>2. active_list' = <<>> /\ UNCHANGED <<cyclic, pc, segments, pending_list>>
    BY <1>6 DEF Complete, callVars
  <2> QED BY <1>1, <2>1, <2>2 DEF FitInv, AllFit, QueueFits
<1>7. CASE Status \/ UNCHANGED vars
  <2>1. UNCHANGED <<cyclic, pc, segments, pending_list, active_list>>
    BY <1>7 DEF Status, TxStatus, AddResidue, TxStatusReturn, vars, callVars
  <2> QED BY <1>1, <2>1 DEF FitInv, AllFit, QueueFits
<1> QED BY <1>2, <1>3, <1>4, <1>5, <1>6, <1>7 DEF Next

\* Every segment of a transaction that is queued has a length that is not zero and
\* that the engine reads back from the control word; what it has done and what is
\* left add up to it (vxdma.c:851-870, 883-893, 435-438).
THEOREM LengthsKeptApart == Spec => []LengthsFit
<1>1. FitInv /\ [Next]_vars => FitInv'
  BY FitStep
<1> QED BY FitInit, FitImplies, <1>1, PTL DEF Spec

(***************************************************************************)
(* Sums and concatenations.  The induction theorems of the library are     *)
(* about operators; this one is about sets, which is what the provers can  *)
(* instantiate: the intervals 1 .. k up to the numbers k that a set lacks  *)
(* have a smallest one.                                                    *)
(***************************************************************************)
LEMMA Induction ==
  ASSUME NEW S, 0 \in S, \A n \in Nat : n \in S => n + 1 \in S
  PROVE  Nat \subseteq S
<1> SUFFICES ASSUME NEW m \in Nat, m \notin S  PROVE FALSE
  OBVIOUS
<1> DEFINE T == {1 .. k : k \in Nat \ S}
<1>1. T \subseteq FiniteSubsetsOf(Nat)
  <2> SUFFICES ASSUME NEW k \in Nat PROVE IsFiniteSet(1 .. k) /\ 1 .. k \subseteq Nat
    BY DEF FiniteSubsetsOf
  <2> QED BY FS_Interval
<1>2. T # {}
  OBVIOUS
<1>3. PICK x \in T : \A y \in T : <<y, x>> \notin StrictSubsetOrdering(Nat)
  <2>1. IsWellFoundedOn(StrictSubsetOrdering(Nat), FiniteSubsetsOf(Nat))
    BY FS_StrictSubsetOrderingWellFounded
  <2> HIDE DEF T
  <2> QED BY <1>1, <1>2, <2>1, WFMin
<1>4. PICK k \in Nat \ S : x = 1 .. k
  OBVIOUS
<1>5. k - 1 \in Nat \ S
  OBVIOUS
<1>6. 1 .. k - 1 \in T /\ 1 .. k - 1 \subseteq 1 .. k /\ k \notin 1 .. k - 1 /\ k \in 1 .. k
  BY <1>5
<1>7. <<1 .. k - 1, 1 .. k>> \in StrictSubsetOrdering(Nat)
  <2>1. \A a, b \in SUBSET Nat : a \subseteq b /\ a # b => <<a, b>> \in StrictSubsetOrdering(Nat)
    BY DEF StrictSubsetOrdering
  <2>2. 1 .. k - 1 # 1 .. k
    BY <1>6
  <2>3. 1 .. k - 1 \in SUBSET Nat /\ 1 .. k \in SUBSET Nat
    BY <1>5
  <2> QED BY <1>6, <2>1, <2>2, <2>3, Zenon
<1> QED BY <1>3, <1>4, <1>6, <1>7

\* The functions on 0 .. n with a first value and what op makes of each value and the
\* number of the next: there is one.
Stepwise(V, b, n, op) ==
  {f \in [0 .. n -> V] : f[0] = b /\ \A k \in 1 .. n : f[k] = op[<<f[k - 1], k>>]}

LEMMA StepwiseExists ==
  ASSUME NEW V, NEW b \in V, NEW n \in Nat, NEW op \in [V \X (1 .. n) -> V]
  PROVE  Stepwise(V, b, n, op) # {}
<1> DEFINE To(m, f) == /\ f \in [0 .. m -> V] /\ f[0] = b
                       /\ \A k \in 1 .. m : f[k] = op[<<f[k - 1], k>>]
           N == {m \in Nat : m <= n => \E f : To(m, f)}
<1>1. 0 \in N
  <2>1. To(0, [k \in 0 .. 0 |-> b])
    OBVIOUS
  <2>2. \E f : To(0, f)
    BY <2>1
  <2> HIDE DEF To
  <2> QED BY <2>2
<1>2. ASSUME NEW m \in Nat, m \in N
      PROVE  m + 1 \in N
  <2> SUFFICES ASSUME m + 1 <= n PROVE \E f : To(m + 1, f)
    OBVIOUS
  <2>1. PICK f : To(m, f)
    BY <1>2
  <2> DEFINE g == [k \in 0 .. m + 1 |-> IF k = m + 1 THEN op[<<f[m], m + 1>>] ELSE f[k]]
  <2>2. f[m] \in V /\ <<f[m], m + 1>> \in V \X (1 .. n)
    BY <2>1
  <2>3. g \in [0 .. m + 1 -> V] /\ g[0] = b
    BY <2>1, <2>2
  <2>4. \A k \in 1 .. m + 1 : g[k] = op[<<g[k - 1], k>>]
    <3> SUFFICES ASSUME NEW k \in 1 .. m + 1 PROVE g[k] = op[<<g[k - 1], k>>]
      OBVIOUS
    <3>1. CASE k = m + 1
      <4>1. k - 1 = m /\ m # m + 1 /\ m \in 0 .. m + 1
        BY <3>1
      <4>2. g[k - 1] = f[m]
        BY <4>1
      <4> QED BY <3>1, <4>1, <4>2
    <3>2. CASE k # m + 1
      <4>1. k \in 1 .. m /\ k - 1 \in 0 .. m
        BY <3>2
      <4>2. g[k] = f[k] /\ g[k - 1] = f[k - 1]
        BY <4>1
      <4> QED BY <2>1, <4>1, <4>2
    <3> QED BY <3>1, <3>2
  <2>5. To(m + 1, g)
    <3> HIDE DEF g
    <3> QED BY <2>3, <2>4
  <2> HIDE DEF To, g
  <2> QED BY <2>5
<1>3. Nat \subseteq N
  <2> HIDE DEF N
  <2> QED BY <1>1, <1>2, Induction
<1>4. n \in N
  BY <1>3
<1> QED BY <1>4 DEF Stepwise

\* Segments of which some bytes are left, by number.
Lefts(segs) == Len(segs) \in Nat /\ \A k \in 1 .. Len(segs) : segs[k].left \in Nat

\* LeftUpTo adds up.
LEMMA LeftUpToIs ==
  ASSUME NEW segs, Lefts(segs)
  PROVE  /\ LeftUpTo(segs) \in [0 .. Len(segs) -> Nat]
         /\ LeftUpTo(segs)[0] = 0
         /\ \A k \in 1 .. Len(segs) :
              LeftUpTo(segs)[k] = LeftUpTo(segs)[k - 1] + segs[k].left
<1> DEFINE n == Len(segs)
           Sums(f) == f = [k \in 0 .. n |-> IF k = 0 THEN 0 ELSE f[k - 1] + segs[k].left]
           op == [x \in Nat \X (1 .. n) |-> x[1] + segs[x[2]].left]
           g == LeftUpTo(segs)
<1>1. n \in Nat /\ \A k \in 1 .. n : segs[k].left \in Nat
  BY DEF Lefts
<1>2. \E f : Sums(f)
  <2>1. op \in [Nat \X (1 .. n) -> Nat]
    BY <1>1
  <2>2. Stepwise(Nat, 0, n, op) # {}
    <3>1. 0 \in Nat
      OBVIOUS
    <3> HIDE DEF op, n
    <3> QED BY <1>1, <2>1, <3>1, StepwiseExists, Zenon
  <2>3. PICK f \in [0 .. n -> Nat] : f[0] = 0 /\ \A k \in 1 .. n : f[k] = op[<<f[k - 1], k>>]
    <3> HIDE DEF op, n
    <3> QED BY <2>2 DEF Stepwise
  <2>4. \A k \in 1 .. n : f[k] = f[k - 1] + segs[k].left
    <3> SUFFICES ASSUME NEW k \in 1 .. n PROVE f[k] = f[k - 1] + segs[k].left
      OBVIOUS
    <3>1. <<f[k - 1], k>> \in Nat \X (1 .. n)
      <4>1. k - 1 \in 0 .. n /\ k \in 1 .. n
        BY <1>1
      <4>2. f[k - 1] \in Nat
        BY <2>3, <4>1
      <4> QED BY <4>1, <4>2
    <3> QED BY <2>3, <3>1
  <2>5. Sums(f)
    <3> HIDE DEF n
    <3> QED BY <1>1, <2>3, <2>4
  <2> QED BY <2>5
<1>3. Sums(g)
  <2>1. g = CHOOSE f : Sums(f)
    BY DEF LeftUpTo
  <2> HIDE DEF g, Sums
  <2> QED BY <1>2, <2>1
<1> DEFINE N == {k \in Nat : k <= n => g[k] \in Nat}
<1> HIDE DEF g, n
<1>4. /\ DOMAIN g = 0 .. n /\ g[0] = 0 /\ g = [k \in 0 .. n |-> g[k]]
      /\ \A k \in 1 .. n : g[k] = g[k - 1] + segs[k].left
  <2>1. DOMAIN g = 0 .. n
    BY <1>3
  <2>2. \A k \in 0 .. n : g[k] = IF k = 0 THEN 0 ELSE g[k - 1] + segs[k].left
    BY <1>3
  <2>3. g = [k \in 0 .. n |-> g[k]]
    BY <1>3
  <2>4. g[0] = 0
    BY <1>1, <2>2
  <2>5. \A k \in 1 .. n : g[k] = g[k - 1] + segs[k].left
    BY <1>1, <2>2
  <2> QED BY <2>1, <2>3, <2>4, <2>5
<1>5. Nat \subseteq N
  <2>1. 0 \in N
    BY <1>4
  <2>2. ASSUME NEW k \in Nat, k \in N PROVE k + 1 \in N
    <3> SUFFICES ASSUME k + 1 <= n PROVE g[k + 1] \in Nat
      OBVIOUS
    <3>1. k + 1 \in 1 .. n /\ g[k] \in Nat /\ (k + 1) - 1 = k
      BY <1>1, <2>2
    <3>2. g[k + 1] = g[(k + 1) - 1] + segs[k + 1].left
      BY <1>4, <3>1
    <3> QED BY <1>1, <3>1, <3>2
  <2> HIDE DEF N
  <2> QED BY <2>1, <2>2, Induction
<1>6. \A k \in 0 .. n : g[k] \in Nat
  BY <1>1, <1>5
<1>7. g \in [0 .. n -> Nat]
  BY <1>4, <1>6
<1> QED BY <1>4, <1>7 DEF g, n

\* When a segment has m bytes less left, so have all sums that it is in.
LEMMA LeftLess ==
  ASSUME NEW s, NEW t, Lefts(s), Lefts(t), Len(t) = Len(s), NEW j \in 1 .. Len(s), NEW m \in Nat,
         t[j].left = s[j].left - m,
         \A k \in 1 .. Len(s) : k # j => t[k].left = s[k].left
  PROVE  \A k \in 0 .. Len(s) :
           LeftUpTo(t)[k] = IF k < j THEN LeftUpTo(s)[k] ELSE LeftUpTo(s)[k] - m
<1> DEFINE n == Len(s)
           f == LeftUpTo(s)
           g == LeftUpTo(t)
           N == {k \in Nat : k <= n => g[k] = IF k < j THEN f[k] ELSE f[k] - m}
<1>1. /\ n \in Nat /\ f \in [0 .. n -> Nat] /\ f[0] = 0
      /\ \A k \in 1 .. n : f[k] = f[k - 1] + s[k].left
      /\ g \in [0 .. n -> Nat] /\ g[0] = 0
      /\ \A k \in 1 .. n : g[k] = g[k - 1] + t[k].left
  BY LeftUpToIs DEF Lefts
<1>2. \A k \in 1 .. n : s[k].left \in Nat /\ t[k].left \in Nat
  BY DEF Lefts
<1> HIDE DEF f, g
<1>3. 0 \in N
  BY <1>1
<1>4. ASSUME NEW k \in Nat, k \in N PROVE k + 1 \in N
  <2> SUFFICES ASSUME k + 1 <= n PROVE g[k + 1] = IF k + 1 < j THEN f[k + 1] ELSE f[k + 1] - m
    OBVIOUS
  <2>1. k + 1 \in 1 .. n /\ k \in 0 .. n /\ g[k] = IF k < j THEN f[k] ELSE f[k] - m
    BY <1>1, <1>4
  <2>2. f[k + 1] = f[k] + s[k + 1].left /\ g[k + 1] = g[k] + t[k + 1].left
    BY <1>1, <2>1
  <2>3. f[k] \in Nat /\ g[k] \in Nat /\ s[k + 1].left \in Nat /\ t[k + 1].left \in Nat
    BY <1>1, <1>2, <2>1
  <2>4. t[k + 1].left = IF k + 1 = j THEN s[k + 1].left - m ELSE s[k + 1].left
    BY <2>1
  <2> QED BY <2>1, <2>2, <2>3, <2>4
<1>5. Nat \subseteq N
  <2> HIDE DEF N
  <2> QED BY <1>3, <1>4, Induction
<1> QED BY <1>1, <1>5 DEF f, g

\* Pieces of memory.
AllPieces(p) ==
  Len(p) \in Nat /\ \A k \in 1 .. Len(p) : p[k].addr \in Nat /\ p[k].len \in Nat

LEMMA BlockType ==
  ASSUME NEW a \in Nat, NEW n \in Nat
  PROVE  Block(a, n) \in Seq(Nat) /\ Len(Block(a, n)) = n
<1>1. Block(a, n) \in [1 .. n -> Nat]
  BY DEF Block
<1> QED BY <1>1, SeqDef DEF Block

\* A block, and the one behind it.
LEMMA BlockConcat ==
  ASSUME NEW a \in Nat, NEW m \in Nat, NEW n \in Nat
  PROVE  Block(a, m) \o Block(a + m, n) = Block(a, m + n)
<1> DEFINE x == Block(a, m)
           y == Block(a + m, n)
           z == Block(a, m + n)
<1>1. /\ x \in Seq(Nat) /\ Len(x) = m /\ \A k \in 1 .. m : x[k] = a + k - 1
      /\ y \in Seq(Nat) /\ Len(y) = n /\ \A k \in 1 .. n : y[k] = a + m + k - 1
      /\ z \in Seq(Nat) /\ Len(z) = m + n /\ \A k \in 1 .. m + n : z[k] = a + k - 1
  <2>1. a + m \in Nat /\ m + n \in Nat
    OBVIOUS
  <2> QED BY <2>1, BlockType DEF Block
<1> HIDE DEF x, y, z
<1>2. x \o y \in Seq(Nat) /\ Len(x \o y) = m + n
  BY <1>1, ConcatProperties
<1>3. ASSUME NEW k \in 1 .. m + n PROVE (x \o y)[k] = z[k]
  <2>1. (x \o y)[k] = IF k <= m THEN x[k] ELSE y[k - m]
    BY <1>1, ConcatProperties
  <2>2. CASE k <= m
    BY <1>1, <2>1, <2>2
  <2>3. CASE k > m
    <3>1. k - m \in 1 .. n
      BY <2>3
    <3> QED BY <1>1, <2>1, <2>3, <3>1
  <2>4. k <= m \/ k > m
    OBVIOUS
  <2> QED BY <2>2, <2>3, <2>4, Zenon
<1>4. x \o y = z
  BY <1>1, <1>2, <1>3, SeqEqual
<1> QED BY <1>4 DEF x, y, z

\* BytesUpTo concatenates.
LEMMA BytesUpToIs ==
  ASSUME NEW p, AllPieces(p)
  PROVE  /\ BytesUpTo(p) \in [0 .. Len(p) -> Seq(Nat)]
         /\ BytesUpTo(p)[0] = <<>>
         /\ \A k \in 1 .. Len(p) :
              BytesUpTo(p)[k] = BytesUpTo(p)[k - 1] \o Block(p[k].addr, p[k].len)
<1> DEFINE n == Len(p)
           join(v, k) == v \o Block(p[k].addr, p[k].len)
           empty == <<>>
           Joins(f) == f = [k \in 0 .. n |-> IF k = 0 THEN empty ELSE join(f[k - 1], k)]
           op == [x \in Seq(Nat) \X (1 .. n) |-> join(x[1], x[2])]
           g == BytesUpTo(p)
<1>1. n \in Nat /\ empty \in Seq(Nat)
  BY DEF AllPieces
<1>2. \A v \in Seq(Nat), k \in 1 .. n : join(v, k) \in Seq(Nat)
  BY BlockType, ConcatProperties DEF AllPieces
<1> HIDE DEF n, join, empty
<1>3. \E f : Joins(f)
  <2>1. op \in [Seq(Nat) \X (1 .. n) -> Seq(Nat)]
    BY <1>2
  <2>2. Stepwise(Seq(Nat), empty, n, op) # {}
    <3> HIDE DEF op
    <3> QED BY <1>1, <2>1, StepwiseExists, Zenon
  <2>3. PICK f \in [0 .. n -> Seq(Nat)] :
          f[0] = empty /\ \A k \in 1 .. n : f[k] = op[<<f[k - 1], k>>]
    <3> HIDE DEF op
    <3> QED BY <2>2 DEF Stepwise
  <2>4. \A k \in 1 .. n : f[k] = join(f[k - 1], k)
    <3> SUFFICES ASSUME NEW k \in 1 .. n PROVE f[k] = join(f[k - 1], k)
      OBVIOUS
    <3>1. <<f[k - 1], k>> \in Seq(Nat) \X (1 .. n)
      BY <1>1, <2>3
    <3> QED BY <2>3, <3>1
  <2>5. Joins(f)
    BY <1>1, <2>3, <2>4
  <2> QED BY <2>5
<1>4. Joins(g)
  <2>1. g = CHOOSE f : Joins(f)
    BY DEF BytesUpTo, join, n, empty
  <2> HIDE DEF g, Joins
  <2> QED BY <1>3, <2>1
<1> DEFINE N == {k \in Nat : k <= n => g[k] \in Seq(Nat)}
<1> HIDE DEF g
<1>5. /\ DOMAIN g = 0 .. n /\ g[0] = empty /\ g = [k \in 0 .. n |-> g[k]]
      /\ \A k \in 1 .. n : g[k] = join(g[k - 1], k)
  <2>1. DOMAIN g = 0 .. n
    BY <1>4
  <2>2. \A k \in 0 .. n : g[k] = IF k = 0 THEN empty ELSE join(g[k - 1], k)
    BY <1>4
  <2>3. g = [k \in 0 .. n |-> g[k]]
    BY <1>4
  <2>4. g[0] = empty
    BY <1>1, <2>2
  <2>5. \A k \in 1 .. n : g[k] = join(g[k - 1], k)
    BY <1>1, <2>2
  <2> QED BY <2>1, <2>3, <2>4, <2>5
<1>6. Nat \subseteq N
  <2>1. 0 \in N
    BY <1>1, <1>5
  <2>2. ASSUME NEW k \in Nat, k \in N PROVE k + 1 \in N
    <3> SUFFICES ASSUME k + 1 <= n PROVE g[k + 1] \in Seq(Nat)
      OBVIOUS
    <3>1. k + 1 \in 1 .. n /\ g[k] \in Seq(Nat) /\ (k + 1) - 1 = k
      BY <1>1, <2>2
    <3>2. g[k + 1] = join(g[(k + 1) - 1], k + 1)
      BY <1>5, <3>1
    <3> QED BY <1>2, <3>1, <3>2
  <2> HIDE DEF N
  <2> QED BY <2>1, <2>2, Induction
<1>7. \A k \in 0 .. n : g[k] \in Seq(Nat)
  BY <1>1, <1>6
<1>8. g \in [0 .. n -> Seq(Nat)]
  BY <1>5, <1>7
<1> QED BY <1>5, <1>8 DEF g, n, join, empty

\* What the first pieces hold does not depend on those that follow.
StartsWith(r, p) ==
  /\ Len(p) <= Len(r)
  /\ \A k \in 1 .. Len(p) : p[k].addr = r[k].addr /\ p[k].len = r[k].len

LEMMA BytesAgree ==
  ASSUME NEW p, NEW r, AllPieces(p), AllPieces(r), StartsWith(r, p)
  PROVE  \A k \in 0 .. Len(p) : BytesUpTo(p)[k] = BytesUpTo(r)[k]
<1> DEFINE n == Len(p)
           f == BytesUpTo(p)
           g == BytesUpTo(r)
           N == {k \in Nat : k <= n => f[k] = g[k]}
<1>1. /\ n \in Nat /\ f[0] = <<>> /\ g[0] = <<>>
      /\ \A k \in 1 .. n : f[k] = f[k - 1] \o Block(p[k].addr, p[k].len)
      /\ \A k \in 1 .. n : g[k] = g[k - 1] \o Block(p[k].addr, p[k].len)
  <2>1. \A k \in 1 .. n : k \in 1 .. Len(r)
    BY DEF AllPieces, StartsWith
  <2> QED BY <2>1, BytesUpToIs DEF AllPieces, StartsWith
<1> HIDE DEF f, g
<1>2. 0 \in N
  BY <1>1
<1>3. ASSUME NEW k \in Nat, k \in N PROVE k + 1 \in N
  <2> SUFFICES ASSUME k + 1 <= n PROVE f[k + 1] = g[k + 1]
    OBVIOUS
  <2>1. k + 1 \in 1 .. n /\ (k + 1) - 1 = k /\ f[k] = g[k]
    BY <1>1, <1>3
  <2> QED BY <1>1, <2>1
<1>4. Nat \subseteq N
  <2> HIDE DEF N
  <2> QED BY <1>2, <1>3, Induction
<1> QED BY <1>1, <1>4 DEF f, g

\* Periods that fill a buffer from its start hold consecutive addresses.
LEMMA PeriodsAreBlock ==
  ASSUME NEW b \in CyclicBufs
  PROVE  /\ AllPieces(Periods(b))
         /\ \E n \in Nat : Bytes(Periods(b)) = Block(b.addr, n)
<1> DEFINE p == Periods(b)
           m == b.buf_len \div b.period_len
           f == BytesUpTo(p)
           N == {k \in Nat : k <= m => f[k] = Block(b.addr, b.period_len * k)}
<1>1. b.addr \in Nat /\ b.period_len \in Nat
  BY PrepAssumption
<1>2. p \in Seq(Entry)
  BY PeriodsAreEntries
<1>3. AllPieces(p)
  BY <1>2, EntryOf DEF AllPieces
<1>4. /\ m \in Nat /\ Len(p) = m
      /\ \A k \in 1 .. m : p[k].addr = b.addr + b.period_len * (k - 1) /\ p[k].len = b.period_len
  <2>1. m \in Nat
    <3>1. ASSUME NEW x \in Nat, NEW y \in Nat \ {0} PROVE x \div y \in Nat
      OBVIOUS
    <3> QED BY <3>1, PrepAssumption
  <2>2. DOMAIN p = 1 .. m
    BY DEF Periods
  <2>3. Len(p) \in Nat /\ DOMAIN p = 1 .. Len(p)
    BY <1>2
  <2>4. Len(p) = m
    <3> HIDE DEF p, m
    <3> QED BY <2>1, <2>2, <2>3
  <2> QED BY <2>1, <2>4 DEF Periods
<1> HIDE DEF p, m
<1>5. /\ f[0] = <<>>
      /\ \A k \in 1 .. m : f[k] = f[k - 1] \o Block(p[k].addr, p[k].len)
  BY <1>3, <1>4, BytesUpToIs
<1> HIDE DEF f
<1>6. 0 \in N
  <2>1. Block(b.addr, 0) = <<>> /\ b.period_len * 0 = 0
    BY <1>1, BlockType, EmptySeq
  <2> QED BY <1>5, <2>1
<1>7. ASSUME NEW k \in Nat, k \in N PROVE k + 1 \in N
  <2> SUFFICES ASSUME k + 1 <= m PROVE f[k + 1] = Block(b.addr, b.period_len * (k + 1))
    OBVIOUS
  <2>1. /\ k + 1 \in 1 .. m /\ (k + 1) - 1 = k /\ f[k] = Block(b.addr, b.period_len * k)
    BY <1>4, <1>7
  <2>2. f[k + 1] = f[k] \o Block(b.addr + b.period_len * k, b.period_len)
    BY <1>4, <1>5, <2>1
  <2>3. ASSUME NEW x \in Nat PROVE x * k \in Nat /\ x * k + x = x * (k + 1)
    OBVIOUS
  <2>4. b.period_len * k \in Nat /\ b.period_len * k + b.period_len = b.period_len * (k + 1)
    BY <1>1, <2>3
  <2>5. \A x, y \in Nat : Block(b.addr, x) \o Block(b.addr + x, y) = Block(b.addr, x + y)
    BY <1>1, BlockConcat
  <2>6. f[k + 1] = Block(b.addr, b.period_len * k + b.period_len)
    BY <1>1, <2>1, <2>2, <2>4, <2>5
  <2> QED BY <2>4, <2>6
<1>8. Nat \subseteq N
  <2> HIDE DEF N
  <2> QED BY <1>6, <1>7, Induction
<1>9. f[m] = Block(b.addr, b.period_len * m) /\ b.period_len * m \in Nat
  <2>1. ASSUME NEW x \in Nat, NEW y \in Nat PROVE x * y \in Nat
    OBVIOUS
  <2> QED BY <1>1, <1>4, <1>8, <2>1
<1>10. Bytes(p) = f[m]
  BY <1>4 DEF Bytes, f
<1> QED BY <1>3, <1>9, <1>10 DEF p

(***************************************************************************)
(* Bytes.                                                                  *)
(***************************************************************************)

PiecesOf(segs) ==
  [k \in DOMAIN segs |-> [addr |-> segs[k].buf_addr, len |-> Length(segs[k])]]

\* The bytes of segments; Pieces does the same for a transaction.
BytesOf(segs) == Bytes(PiecesOf(segs))

LEMMA FunctionIsSeq ==
  ASSUME NEW S, NEW n \in Nat, NEW f \in [1 .. n -> S]
  PROVE  f \in Seq(S) /\ Len(f) = n
<1>1. f \in Seq(S)
  BY SeqDef
<1> QED BY <1>1

LEMMA PiecesOfSegments ==
  ASSUME NEW segs \in Seq(Segment)
  PROVE  /\ AllPieces(PiecesOf(segs)) /\ Len(PiecesOf(segs)) = Len(segs)
         /\ \A k \in 1 .. Len(segs) : /\ PiecesOf(segs)[k].addr = segs[k].buf_addr
                                      /\ PiecesOf(segs)[k].len = Length(segs[k])
<1> DEFINE n == Len(segs)
           P(k) == [addr |-> segs[k].buf_addr, len |-> Length(segs[k])]
<1>1. n \in Nat /\ DOMAIN segs = 1 .. n
  OBVIOUS
<1>2. ASSUME NEW k \in 1 .. n
      PROVE  /\ P(k) \in [addr : Nat, len : Nat] /\ P(k).addr \in Nat /\ P(k).len \in Nat
             /\ P(k).addr = segs[k].buf_addr /\ P(k).len = Length(segs[k])
  <2>1. segs[k] \in Segment
    BY <1>1, ElementOfSeq
  <2>2. segs[k].buf_addr \in Nat /\ segs[k].control \in Nat
    BY <2>1 DEF Segment
  <2>3. Length(segs[k]) \in Nat
    <3>1. segs[k].control % Field \in 0 .. MaxTransLen
      BY <2>2, FieldRange
    <3>2. 0 .. MaxTransLen \subseteq Nat
      BY PrepAssumption
    <3> QED BY <3>1, <3>2 DEF Length
  <2> QED BY <2>2, <2>3
<1>3. PiecesOf(segs) = [k \in 1 .. n |-> P(k)]
  BY <1>1 DEF PiecesOf
<1> HIDE DEF P
<1>4. PiecesOf(segs) \in [1 .. n -> [addr : Nat, len : Nat]]
  BY <1>2, <1>3
<1>5. Len(PiecesOf(segs)) = n
  <2> HIDE DEF n
  <2> QED BY <1>1, <1>4, FunctionIsSeq
<1>6. \A k \in 1 .. n : PiecesOf(segs)[k] = P(k)
  BY <1>3
<1> QED BY <1>1, <1>2, <1>5, <1>6 DEF AllPieces

LEMMA NoBytes == BytesOf(<<>>) = <<>>
<1>1. <<>> \in Seq(Segment) /\ Len(<<>>) = 0
  OBVIOUS
<1> QED BY <1>1, PiecesOfSegments, BytesUpToIs DEF BytesOf, Bytes

\* A segment more adds its bytes.
LEMMA BytesAppend ==
  ASSUME NEW segs \in Seq(Segment), NEW s \in Segment
  PROVE  BytesOf(Append(segs, s)) = BytesOf(segs) \o Block(s.buf_addr, Length(s))
<1> DEFINE n == Len(segs)
           t == Append(segs, s)
           p == PiecesOf(segs)
           r == PiecesOf(t)
<1>1. /\ t \in Seq(Segment) /\ Len(t) = n + 1 /\ n \in Nat /\ t[n + 1] = s
      /\ \A k \in 1 .. n : t[k] = segs[k]
  BY AppendProperties
<1> HIDE DEF t
<1>2. /\ AllPieces(p) /\ Len(p) = n
      /\ \A k \in 1 .. n : p[k].addr = segs[k].buf_addr /\ p[k].len = Length(segs[k])
  BY PiecesOfSegments
<1>3. /\ AllPieces(r) /\ Len(r) = n + 1
      /\ \A k \in 1 .. n + 1 : r[k].addr = t[k].buf_addr /\ r[k].len = Length(t[k])
  BY <1>1, PiecesOfSegments
<1> HIDE DEF p, r, n
<1>4. \A k \in 1 .. n : p[k].addr = r[k].addr /\ p[k].len = r[k].len
  BY <1>1, <1>2, <1>3
<1>5. BytesUpTo(r)[n] = BytesUpTo(p)[n]
  <2>1. \A k \in 0 .. Len(p) : BytesUpTo(p)[k] = BytesUpTo(r)[k]
    <3>1. StartsWith(r, p)
      BY <1>1, <1>2, <1>3, <1>4 DEF StartsWith
    <3> QED BY <1>2, <1>3, <3>1, BytesAgree
  <2> QED BY <1>1, <1>2, <2>1
<1>6. n + 1 \in 1 .. n + 1 /\ (n + 1) - 1 = n
  BY <1>1
<1>7. BytesUpTo(r)[n + 1] = BytesUpTo(r)[n] \o Block(r[n + 1].addr, r[n + 1].len)
  <2>1. \A k \in 1 .. Len(r) : BytesUpTo(r)[k] = BytesUpTo(r)[k - 1] \o Block(r[k].addr, r[k].len)
    BY <1>3, BytesUpToIs
  <2> QED BY <1>3, <1>6, <2>1
<1>8. r[n + 1].addr = s.buf_addr /\ r[n + 1].len = Length(s)
  BY <1>1, <1>3, <1>6
<1> QED BY <1>2, <1>3, <1>5, <1>7, <1>8 DEF BytesOf, Bytes, t, p, r

\* Flags and status are no matter.
LEMMA SameBytes ==
  ASSUME NEW s, NEW t, DOMAIN s = DOMAIN t,
         \A k \in DOMAIN s : s[k].buf_addr = t[k].buf_addr /\ Length(s[k]) = Length(t[k])
  PROVE  BytesOf(s) = BytesOf(t)
<1>1. PiecesOf(s) = PiecesOf(t)
  BY DEF PiecesOf
<1> QED BY <1>1 DEF BytesOf

LEMMA MarkedBytes ==
  ASSUME NEW segs \in Seq(Segment), \A k \in DOMAIN segs : Cut(segs[k])
  PROVE  BytesOf(Marked(segs)) = BytesOf(segs)
<1>1. ASSUME NEW k \in DOMAIN segs
      PROVE  /\ segs[k].buf_addr = Marked(segs)[k].buf_addr
             /\ Length(segs[k]) = Length(Marked(segs)[k])
  <2> DEFINE s == segs[k]
             t == Marked(segs)[k]
  <2>1. s \in Segment /\ s.control \in 0 .. MaxTransLen
    BY PrepAssumption DEF Cut
  <2>2. PICK f \in Nat : Flags(k, Len(segs)) = f * Field
    BY FlagsInField
  <2>3. t = [s EXCEPT !.control = @ + f * Field]
    BY <2>2, MarkedSegments
  <2>4. t.control = s.control + f * Field /\ t.buf_addr = s.buf_addr
    BY <2>1, <2>3 DEF Segment
  <2> QED BY <2>1, <2>4, FieldOf DEF Length
<1>2. DOMAIN Marked(segs) = DOMAIN segs
  BY MarkedSegments
<1> QED BY <1>1, <1>2, SameBytes

\* A transaction has the bytes of its list, and a cyclic one was made from periods.
Faithful(segs, list, isCyclic) ==
  /\ BytesOf(segs) = Bytes(list)
  /\ isCyclic => \E b \in CyclicBufs : list = Periods(b)

AllFaithful(list) ==
  \A q \in DOMAIN list : Faithful(list[q].segments, list[q].entries, list[q].cyclic)

\* The segments hold the entries before this one, and sg_used bytes of this one.
Covered ==
  /\ i <= Len(entries) + 1
  /\ i <= Len(entries) =>
       BytesOf(segments) = BytesUpTo(entries)[i - 1] \o Block(entries[i].addr, sg_used)
  /\ i > Len(entries) => BytesOf(segments) = Bytes(entries)

ByteInv ==
  /\ FitInv
  /\ cyclic => \E b \in CyclicBufs : entries = Periods(b)
  /\ pc = "loop" => Covered
  /\ pc = "prepared" => BytesOf(segments) = Bytes(entries)
  /\ AllFaithful(pending_list) /\ AllFaithful(active_list)

LEMMA EntriesArePieces ==
  ASSUME NEW list \in Seq(Entry)
  PROVE  AllPieces(list)
BY EntryOf DEF AllPieces

LEMMA CoveredStep ==
  ASSUME ByteInv, Prepare
  PROVE  /\ cyclic' => \E b \in CyclicBufs : entries' = Periods(b)
         /\ pc' = "loop" => Covered'
         /\ pc' = "prepared" => BytesOf(segments') = Bytes(entries')
<1>1. ASSUME NEW list \in Seq(Entry), NEW isCyclic, Call(list, isCyclic)
      PROVE  Covered' /\ entries' = list /\ cyclic' = isCyclic /\ pc' = "loop"
  <2>1. /\ entries' = list /\ i' = 1 /\ sg_used' = 0 /\ segments' = <<>> /\ pc' = "loop"
        /\ cyclic' = isCyclic
    BY <1>1 DEF Call
  <2>2. BytesOf(segments') = <<>> /\ BytesUpTo(list)[0] = <<>> /\ Len(list) \in Nat
    BY <2>1, NoBytes, EntriesArePieces, BytesUpToIs DEF AllPieces
  <2>3. Len(list) >= 1 => Block(list[1].addr, 0) = <<>>
    <3> SUFFICES ASSUME Len(list) >= 1 PROVE Block(list[1].addr, 0) = <<>>
      OBVIOUS
    <3>1. list[1].addr \in Nat
      BY <2>2, EntryOf
    <3> QED BY <3>1, BlockType, EmptySeq
  <2>4. <<>> \o <<>> = <<>>
    OBVIOUS
  <2>5. Covered'
    <3>1. i' <= Len(entries') + 1
      BY <2>1, <2>2
    <3>2. CASE Len(list) >= 1
      <4>1. ~(1 > Len(list)) /\ 1 - 1 = 0
        BY <2>2, <3>2
      <4>2. BytesOf(segments') = BytesUpTo(list)[1 - 1] \o Block(list[1].addr, 0)
        BY <2>2, <2>3, <2>4, <3>2, <4>1
      <4> QED BY <2>1, <3>1, <4>1, <4>2 DEF Covered
    <3>3. CASE Len(list) = 0
      BY <2>1, <2>2, <3>1, <3>3 DEF Covered, Bytes
    <3> QED BY <2>2, <3>2, <3>3
  <2> QED BY <2>1, <2>5
<1>2. ASSUME NEW list \in SgLists, Call(list, FALSE)
      PROVE  Covered' /\ entries' = list /\ cyclic' = FALSE /\ pc' = "loop"
  BY <1>1, <1>2, PrepAssumption
<1>3. ASSUME NEW b \in CyclicBufs, Call(Periods(b), TRUE)
      PROVE  Covered' /\ entries' = Periods(b) /\ cyclic' = TRUE /\ pc' = "loop"
  BY <1>1, <1>3, PeriodsAreEntries
<1>4. /\ entries \in Seq(Entry) /\ segments \in Seq(Segment) /\ sg_used \in Nat
      /\ i \in Nat \ {0}
  BY DEF ByteInv, FitInv, CutInv, Typed
<1>5. /\ AllPieces(entries) /\ Len(entries) \in Nat
      /\ BytesUpTo(entries) \in [0 .. Len(entries) -> Seq(Nat)]
      /\ \A k \in 1 .. Len(entries) :
           BytesUpTo(entries)[k] = BytesUpTo(entries)[k - 1]
                                     \o Block(entries[k].addr, entries[k].len)
  BY <1>4, EntriesArePieces, BytesUpToIs DEF AllPieces
<1>6. CASE AddSegment
  <2>1. /\ pc = "loop" /\ pc' = "loop" /\ entries' = entries /\ i' = i /\ cyclic' = cyclic
        /\ i <= Len(entries) /\ i \in DOMAIN entries
        /\ segments' = Append(segments, NewSegment) /\ sg_used' = sg_used + CopyLen
    BY <1>4, <1>6 DEF AddSegment, InEntry, callVars
  <2>2. CopyLen \in 1 .. MaxTransLen /\ Cut(NewSegment)
    BY <1>6, <2>1, NewSegmentIsCut DEF AddSegment, InEntry, Cutting, ByteInv, FitInv, CutInv
  <2>3. /\ NewSegment \in Segment /\ NewSegment.buf_addr = entries[i].addr + sg_used
        /\ Length(NewSegment) = CopyLen /\ CopyLen \in Nat
    <3>1. NewSegment.control = CopyLen
      BY DEF NewSegment
    <3>2. Length(NewSegment) = CopyLen
      BY <2>2, <3>1, FieldOf, PrepAssumption DEF Length
    <3> QED BY <2>2, <3>2, PrepAssumption DEF Cut, NewSegment
  <2> DEFINE a == entries[i].addr
             x == BytesUpTo(entries)[i - 1]
             y == Block(a, sg_used)
             z == Block(a + sg_used, CopyLen)
  <2>4. a \in Nat /\ a + sg_used \in Nat
    BY <1>4, <2>1, EntryOf
  <2>5. x \in Seq(Nat) /\ y \in Seq(Nat) /\ z \in Seq(Nat) /\ y \o z = Block(a, sg_used + CopyLen)
    <3>1. i - 1 \in 0 .. Len(entries)
      BY <1>4, <1>5, <2>1
    <3>2. x \in Seq(Nat)
      BY <1>5, <3>1
    <3>3. y \in Seq(Nat) /\ z \in Seq(Nat) /\ y \o z = Block(a, sg_used + CopyLen)
      <4> HIDE DEF a
      <4>1. a \in Nat /\ a + sg_used \in Nat /\ sg_used \in Nat /\ CopyLen \in Nat
        BY <1>4, <2>3, <2>4
      <4>2. y \in Seq(Nat) /\ z \in Seq(Nat)
        BY <4>1, BlockType
      <4>3. y \o z = Block(a, sg_used + CopyLen)
        BY <4>1, BlockConcat
      <4> QED BY <4>2, <4>3
    <3> QED BY <3>2, <3>3
  <2>6. BytesOf(segments) = x \o y
    BY <2>1 DEF ByteInv, Covered
  <2>7. BytesOf(segments') = (x \o y) \o z
    BY <1>4, <2>1, <2>3, <2>6, BytesAppend
  <2> HIDE DEF x, y, z
  <2>8. (x \o y) \o z = x \o (y \o z)
    <3>1. ASSUME NEW s \in Seq(Nat), NEW t \in Seq(Nat), NEW u \in Seq(Nat)
          PROVE  (s \o t) \o u = s \o (t \o u)
      BY ConcatAssociative
    <3> QED BY <2>5, <3>1
  <2>9. BytesOf(segments') = x \o Block(a, sg_used')
    BY <2>1, <2>5, <2>7, <2>8
  <2>10. Covered'
    <3>1. ~(i > Len(entries)) /\ i <= Len(entries) + 1
      BY <1>4, <1>5, <2>1
    <3> QED BY <2>1, <2>9, <3>1 DEF Covered, x
  <2> QED BY <2>1, <2>10 DEF ByteInv
<1>7. CASE NextEntry
  <2>1. /\ pc = "loop" /\ pc' = "loop" /\ entries' = entries /\ i' = i + 1 /\ sg_used' = 0
        /\ i <= Len(entries) /\ i \in DOMAIN entries /\ ~(sg_used < entries[i].len)
        /\ segments' = segments /\ cyclic' = cyclic
    BY <1>4, <1>7 DEF NextEntry, InEntry, callVars
  <2>2. entries[i].len \in Nat /\ sg_used <= entries[i].len
    BY <1>4, <2>1, EntryOf DEF ByteInv, FitInv, CutInv, Cutting
  <2>3. sg_used = entries[i].len
    BY <1>4, <2>1, <2>2
  <2>4. BytesOf(segments) = BytesUpTo(entries)[i]
    <3>1. i \in 1 .. Len(entries)
      BY <1>4, <1>5, <2>1
    <3>2. BytesOf(segments) = BytesUpTo(entries)[i - 1] \o Block(entries[i].addr, sg_used)
      BY <2>1 DEF ByteInv, Covered
    <3> QED BY <1>5, <2>3, <3>1, <3>2
  <2>5. CASE i + 1 <= Len(entries)
    <3>1. i + 1 \in DOMAIN entries /\ i \in 0 .. Len(entries) /\ (i + 1) - 1 = i
      BY <1>4, <2>5
    <3>2. entries[i + 1].addr \in Nat
      BY <1>4, <3>1, EntryOf
    <3>3. Block(entries[i + 1].addr, 0) = <<>>
      BY <3>2, BlockType, EmptySeq
    <3>4. BytesUpTo(entries)[i] \in Seq(Nat)
      BY <1>5, <3>1
    <3>5. BytesUpTo(entries)[i] = BytesUpTo(entries)[i] \o Block(entries[i + 1].addr, 0)
      BY <3>3, <3>4, ConcatEmptySeq
    <3>6. ~(i + 1 > Len(entries)) /\ i + 1 <= Len(entries) + 1
      BY <1>4, <1>5, <2>5
    <3>7. Covered'
      BY <2>1, <2>4, <3>1, <3>5, <3>6 DEF Covered
    <3> QED BY <2>1, <3>7 DEF ByteInv
  <2>6. CASE ~(i + 1 <= Len(entries))
    <3>1. i = Len(entries) /\ i + 1 <= Len(entries) + 1
      BY <1>4, <1>5, <2>1, <2>6
    <3>2. Covered'
      BY <2>1, <2>4, <2>6, <3>1 DEF Covered, Bytes
    <3> QED BY <2>1, <3>2 DEF ByteInv
  <2> QED BY <2>5, <2>6
<1>8. CASE NoSegment
  BY <1>8 DEF NoSegment, callVars, ByteInv
<1>9. CASE Finish
  <2>1. /\ pc = "loop" /\ i > Len(entries) /\ UNCHANGED callVars
        /\ segments' = IF direction = "mem_to_dev" THEN Marked(segments) ELSE segments
        /\ pc' # "loop"
    BY <1>9 DEF Finish
  <2>2. BytesOf(segments) = Bytes(entries) /\ \A k \in DOMAIN segments : Cut(segments[k])
    BY <2>1 DEF ByteInv, Covered, FitInv, CutInv, Cutting
  <2>3. BytesOf(segments') = BytesOf(segments)
    BY <1>4, <2>1, <2>2, MarkedBytes
  <2> QED BY <2>1, <2>2, <2>3 DEF callVars, ByteInv
<1> QED
  BY <1>2, <1>3, <1>6, <1>7, <1>8, <1>9 DEF Prepare, PrepSlaveSg, PrepDmaCyclic

LEMMA ByteInit == Init => ByteInv
<1> SUFFICES ASSUME Init PROVE ByteInv
  OBVIOUS
<1>1. AllFaithful(<<>>)
  BY DEF AllFaithful
<1> QED BY <1>1, FitInit DEF Init, ByteInv

LEMMA ByteStep ==
  ASSUME ByteInv, [Next]_vars
  PROVE  ByteInv'
<1>1. FitInv /\ FitInv' /\ pending_list \in Seq(Desc) /\ active_list \in Seq(Desc)
  BY FitStep DEF ByteInv, FitInv, QueueFits
<1>2. CASE Prepare
  <2>1. UNCHANGED <<pending_list, active_list>>
    BY <1>2 DEF Prepare, PrepSlaveSg, PrepDmaCyclic, Call, AddSegment, NextEntry, NoSegment,
                Finish
  <2> QED BY <1>1, <1>2, <2>1, CoveredStep DEF ByteInv
<1>3. CASE Submit
  <2> DEFINE d == [segments |-> segments, entries |-> entries, cyclic |-> cyclic,
                   direction |-> direction]
             n == Len(pending_list)
  <2>1. /\ pc = "prepared" /\ pc' = "idle" /\ pending_list' = Append(pending_list, d)
        /\ active_list' = active_list /\ cyclic' = cyclic /\ entries' = entries
    BY <1>3 DEF Submit, callVars
  <2>2. Faithful(d.segments, d.entries, d.cyclic)
    BY <2>1 DEF ByteInv, Faithful
  <2>3. d \in Desc
    BY <1>1, <1>3 DEF Submit, FitInv, CutInv, Typed, Desc
  <2> HIDE DEF d
  <2>4. AllFaithful(pending_list')
    <3>1. /\ Len(pending_list') = n + 1 /\ n \in Nat /\ DOMAIN pending_list' = 1 .. n + 1
          /\ \A q \in 1 .. n : pending_list'[q] = pending_list[q]
          /\ pending_list'[n + 1] = d
      BY <1>1, <2>1, <2>3, AppendProperties
    <3>2. \A q \in 1 .. n : Faithful(pending_list[q].segments, pending_list[q].entries,
                                     pending_list[q].cyclic)
      BY <1>1 DEF ByteInv, AllFaithful
    <3> QED BY <2>2, <3>1, <3>2 DEF AllFaithful
  <2> QED BY <1>1, <2>1, <2>4 DEF ByteInv
<1>4. CASE StartTransfer \/ Complete
  <2>1. AllFaithful(<<>>)
    BY DEF AllFaithful
  <2>2. /\ pending_list' \in {pending_list, <<>>} /\ active_list' \in {pending_list, <<>>}
        /\ UNCHANGED <<cyclic, entries, pc, i, sg_used, segments>>
    BY <1>4 DEF StartTransfer, Complete, callVars
  <2>3. AllFaithful(pending_list') /\ AllFaithful(active_list')
    BY <2>1, <2>2 DEF ByteInv
  <2> QED BY <1>1, <2>2, <2>3 DEF ByteInv, Covered
<1>5. CASE Engine
  <2>1. PICK q \in DOMAIN active_list : \E k \in DOMAIN active_list[q].segments :
          \E n \in 1 .. active_list[q].segments[k].left : EngineMoves(q, k, n)
    BY <1>5 DEF Engine
  <2>2. PICK k \in DOMAIN active_list[q].segments :
          \E n \in 1 .. active_list[q].segments[k].left : EngineMoves(q, k, n)
    BY <2>1
  <2>3. PICK n \in 1 .. active_list[q].segments[k].left : EngineMoves(q, k, n)
    BY <2>2
  <2> DEFINE d == active_list[q]
             e == [d EXCEPT !.segments = [d.segments EXCEPT ![k] = Done(d.segments[k], n)]]
  <2>4. /\ active_list' = [active_list EXCEPT ![q].segments[k] = Done(d.segments[k], n)]
        /\ ~IsDone(d.segments[k])
        /\ UNCHANGED <<cyclic, entries, pc, i, sg_used, segments, pending_list>>
    BY <2>3, Zenon DEF EngineMoves, callVars
  <2>5. active_list' = [active_list EXCEPT ![q] = e]
    BY <2>4, Zenon
  <2>6. d \in Desc /\ d.segments \in Seq(Segment) /\ Fits(d.segments[k])
    BY <1>1, ElementOfSeq DEF FitInv, QueueFits, AllFit
  <2>7. Done(d.segments[k], n).control = d.segments[k].control
        /\ Done(d.segments[k], n).buf_addr = d.segments[k].buf_addr
    BY <2>6 DEF Done, Fits, Segment
  <2>8. BytesOf([d.segments EXCEPT ![k] = Done(d.segments[k], n)]) = BytesOf(d.segments)
    <3> DEFINE s == d.segments
               t == [s EXCEPT ![k] = Done(s[k], n)]
    <3>1. /\ DOMAIN t = DOMAIN s
          /\ \A j \in DOMAIN s : t[j] = IF j = k THEN Done(s[k], n) ELSE s[j]
      OBVIOUS
    <3> HIDE DEF t
    <3>2. \A j \in DOMAIN s : s[j].buf_addr = t[j].buf_addr /\ Length(s[j]) = Length(t[j])
      BY <2>7, <3>1 DEF Length
    <3>3. BytesOf(t) = BytesOf(s)
      BY <3>1, <3>2, SameBytes
    <3> QED BY <3>3 DEF t
  <2>9. /\ e.segments = [d.segments EXCEPT ![k] = Done(d.segments[k], n)]
        /\ e.entries = d.entries /\ e.cyclic = d.cyclic
    BY <2>6 DEF Desc
  <2> HIDE DEF e
  <2>10. /\ DOMAIN active_list' = DOMAIN active_list
        /\ \A p \in DOMAIN active_list : active_list'[p] = IF p = q THEN e ELSE active_list[p]
    BY <2>5
  <2>11. AllFaithful(active_list')
    BY <2>8, <2>9, <2>10 DEF ByteInv, AllFaithful, Faithful
  <2> QED BY <1>1, <2>4, <2>11 DEF ByteInv, Covered
<1>6. CASE Status \/ UNCHANGED vars
  <2>1. UNCHANGED <<cyclic, entries, pc, i, sg_used, segments, pending_list, active_list>>
    BY <1>6 DEF Status, TxStatus, AddResidue, TxStatusReturn, vars, callVars
  <2> QED BY <1>1, <2>1 DEF ByteInv, Covered
<1> QED BY <1>2, <1>3, <1>4, <1>5, <1>6 DEF Next

LEMMA ByteImplies == ByteInv => EveryByteOnce
<1> SUFFICES ASSUME ByteInv, NEW d \in Ready
             PROVE  /\ Bytes(Pieces(d)) = Bytes(d.entries)
                    /\ d.cyclic => \A n \in 1 .. Len(Bytes(Pieces(d))) - 1 :
                                     Bytes(Pieces(d))[n + 1] = Bytes(Pieces(d))[n] + 1
  BY DEF EveryByteOnce
<1>1. Faithful(d.segments, d.entries, d.cyclic)
  BY DEF ByteInv, FitInv, QueueFits, AllFaithful, Ready, Range
<1>2. Bytes(Pieces(d)) = BytesOf(d.segments)
  BY DEF Pieces, PiecesOf, BytesOf
<1>3. ASSUME d.cyclic
      PROVE  \A n \in 1 .. Len(Bytes(Pieces(d))) - 1 :
               Bytes(Pieces(d))[n + 1] = Bytes(Pieces(d))[n] + 1
  <2>1. PICK b \in CyclicBufs : d.entries = Periods(b)
    BY <1>1, <1>3 DEF Faithful
  <2>2. PICK m \in Nat : Bytes(Periods(b)) = Block(b.addr, m)
    BY PeriodsAreBlock
  <2>3. b.addr \in Nat
    BY PrepAssumption
  <2>4. /\ Len(Block(b.addr, m)) = m
        /\ \A n \in 1 .. m - 1 : Block(b.addr, m)[n + 1] = Block(b.addr, m)[n] + 1
    <3>1. \A n \in 1 .. m : Block(b.addr, m)[n] = b.addr + n - 1
      BY DEF Block
    <3>2. Len(Block(b.addr, m)) = m
      BY <2>3, BlockType
    <3>3. ASSUME NEW n \in 1 .. m - 1 PROVE Block(b.addr, m)[n + 1] = Block(b.addr, m)[n] + 1
      <4>1. n \in 1 .. m /\ n + 1 \in 1 .. m
        OBVIOUS
      <4> QED BY <2>3, <3>1, <4>1
    <3> QED BY <3>2, <3>3
  <2> QED BY <1>1, <1>2, <2>1, <2>2, <2>4 DEF Faithful
<1> QED BY <1>1, <1>2, <1>3 DEF Faithful

\* However prepare is called: the segments of a queued transaction hold the bytes of its
\* scatter list, each of them once and in order, and those of a cyclic one are consecutive
\* (vxdma.c:841-879, 943-983).
THEOREM EveryByteTransferred == Spec => []EveryByteOnce
<1>1. ByteInv /\ [Next]_vars => ByteInv'
  BY ByteStep
<1> QED BY ByteInit, ByteImplies, <1>1, PTL DEF Spec

(***************************************************************************)
(* The residue.                                                            *)
(***************************************************************************)

\* The bytes that the walk has added are no less than what is left of them, and with
\* those that it has still to read, no more than was left when it began.
WalkInv ==
  reader.pc = "walk" =>
    /\ active_list # <<>>
    /\ reader.k \in 1 .. Len(Walked) + 1 /\ reader.residue \in Nat /\ reader.most \in Nat
    /\ LeftUpTo(Walked)[reader.k - 1] <= reader.residue
    /\ reader.residue + LeftUpTo(Walked)[Len(Walked)] - LeftUpTo(Walked)[reader.k - 1]
         <= reader.most

ResidueInv ==
  /\ FitInv /\ WalkInv
  /\ reader \in [pc : {"idle", "walk"}, k : Nat \ {0}, residue : Nat, most : Nat]

LEMMA FitLefts ==
  ASSUME NEW segs, AllFit(segs)
  PROVE  Lefts(segs)
<1>1. segs \in Seq(Segment) /\ \A k \in DOMAIN segs : segs[k].left \in Nat
  BY PrepAssumption DEF AllFit, Fits
<1> QED BY <1>1 DEF Lefts

\* The difference of the two words, cut to the field, is what is left.
LEMMA ResidueOfSegment ==
  ASSUME NEW s, Fits(s)
  PROVE  SegResidue(s) = s.left
<1>1. PICK f \in Nat, n \in 1 .. MaxTransLen :
        /\ s.control = n + f * Field
        /\ \/ s.status = 0 /\ s.left = n
           \/ s.left < n /\ s.status = (n - s.left) + STS_CMPLT
  BY DEF Fits
<1>2. /\ Field \in Nat \ {0} /\ s.left \in 0 .. Field - 1 /\ STS_CMPLT = 256 * Field
      /\ n \in Nat
  BY PrepAssumption DEF Field, Fits, STS_CMPLT
<1>3. \E z \in Int : s.control - s.status = s.left + z * Field
  <2>1. f * Field \in Int
    BY <1>2
  <2>2. (f - 256) * Field = f * Field - 256 * Field
    BY <1>2
  <2>3. CASE s.status = 0 /\ s.left = n
    <3>1. s.control - s.status = s.left + f * Field
      BY <1>1, <1>2, <2>1, <2>3
    <3> QED BY <3>1
  <2>4. CASE s.left < n /\ s.status = (n - s.left) + STS_CMPLT
    <3>1. s.control - s.status = s.left + (f - 256) * Field
      BY <1>1, <1>2, <2>1, <2>2, <2>4
    <3>2. f - 256 \in Int
      OBVIOUS
    <3> QED BY <3>1, <3>2
  <2> QED BY <1>1, <2>3, <2>4
<1>4. ASSUME NEW F \in Nat \ {0}, NEW x \in 0 .. F - 1, NEW z \in Int
      PROVE  (x + z * F) % F = x
  OBVIOUS
<1> QED BY <1>2, <1>3, <1>4 DEF SegResidue

LEMMA ResidueInit == Init => ResidueInv
BY FitInit DEF Init, ResidueInv, WalkInv, NoReader

LEMMA ResidueStep ==
  ASSUME ResidueInv, [Next]_vars
  PROVE  ResidueInv'
<1>1. FitInv /\ FitInv' /\ active_list \in Seq(Desc)
  BY FitStep DEF ResidueInv, FitInv, QueueFits
<1>2. ASSUME NEW q \in DOMAIN active_list
      PROVE  /\ active_list[q] \in Desc /\ AllFit(active_list[q].segments)
             /\ Lefts(active_list[q].segments)
  BY <1>1, ElementOfSeq, FitLefts DEF FitInv, QueueFits
<1>3. active_list # <<>> =>
        /\ Last(active_list) = active_list[Len(active_list)]
        /\ Len(active_list) \in DOMAIN active_list
  BY <1>1 DEF Last
<1>4. active_list # <<>> =>
        /\ Walked = active_list[Len(active_list)].segments
        /\ Walked \in Seq(Segment) /\ AllFit(Walked) /\ Lefts(Walked)
  BY <1>2, <1>3 DEF Walked, AllFit
<1>5. Lefts(Walked) =>
        /\ Len(Walked) \in Nat /\ LeftUpTo(Walked) \in [0 .. Len(Walked) -> Nat]
        /\ LeftUpTo(Walked)[0] = 0
        /\ \A k \in 1 .. Len(Walked) :
             LeftUpTo(Walked)[k] = LeftUpTo(Walked)[k - 1] + Walked[k].left
  BY LeftUpToIs DEF Lefts
<1>6. CASE Prepare \/ Submit \/ UNCHANGED vars
  <2>1. UNCHANGED <<active_list, reader>>
    BY <1>6 DEF Prepare, PrepSlaveSg, PrepDmaCyclic, Call, AddSegment, NextEntry, NoSegment,
                Finish, Submit, vars
  <2> QED BY <1>1, <2>1 DEF ResidueInv, WalkInv, Walked
<1>7. CASE StartTransfer
  <2>1. active_list = <<>> /\ reader' = reader
    BY <1>7 DEF StartTransfer
  <2> QED BY <1>1, <2>1 DEF ResidueInv, WalkInv
<1>8. CASE Complete
  <2>1. reader.pc = "idle" /\ reader' = reader
    BY <1>8 DEF Complete
  <2> QED BY <1>1, <2>1 DEF ResidueInv, WalkInv
<1>9. CASE TxStatus
  <2>1. /\ active_list # <<>> /\ active_list' = active_list
        /\ reader' = [pc |-> "walk", k |-> 1, residue |-> 0,
                      most |-> BytesLeft(Last(active_list))]
    BY <1>9 DEF TxStatus
  <2>2. BytesLeft(Last(active_list)) = LeftUpTo(Walked)[Len(Walked)]
    BY DEF BytesLeft, Walked
  <2>3. /\ Len(Walked) \in Nat /\ LeftUpTo(Walked)[0] = 0
        /\ LeftUpTo(Walked)[Len(Walked)] \in Nat
    BY <1>4, <1>5, <2>1
  <2>4. Walked' = Walked
    BY <2>1 DEF Walked
  <2> QED BY <1>1, <2>1, <2>2, <2>3, <2>4 DEF ResidueInv, WalkInv
<1>10. CASE AddResidue
  <2> DEFINE k == reader.k
             f == LeftUpTo(Walked)
  <2>1. /\ reader.pc = "walk" /\ k <= Len(Walked) /\ active_list' = active_list
        /\ reader' = [reader EXCEPT !.residue = @ + SegResidue(Walked[k]), !.k = @ + 1]
    BY <1>10 DEF AddResidue
  <2>2. /\ active_list # <<>> /\ k \in 1 .. Len(Walked) + 1
        /\ reader.residue \in Nat /\ reader.most \in Nat
        /\ f[k - 1] <= reader.residue
        /\ reader.residue + f[Len(Walked)] - f[k - 1] <= reader.most
    BY <2>1 DEF ResidueInv, WalkInv
  <2>3. k \in 1 .. Len(Walked) /\ Walked \in Seq(Segment) /\ AllFit(Walked) /\ Len(Walked) \in Nat
    BY <1>4, <2>1, <2>2
  <2>4. SegResidue(Walked[k]) = Walked[k].left /\ Walked[k].left \in Nat
    <3>1. Fits(Walked[k])
      BY <2>3 DEF AllFit
    <3>2. Walked[k].left \in 0 .. MaxTransLen
      BY <3>1 DEF Fits
    <3>3. Walked[k].left \in Nat
      BY <3>2, PrepAssumption
    <3> QED BY <3>1, <3>3, ResidueOfSegment
  <2>5. /\ f[k] = f[k - 1] + Walked[k].left
        /\ f[k] \in Nat /\ f[k - 1] \in Nat /\ f[Len(Walked)] \in Nat
    BY <1>4, <1>5, <2>2, <2>3
  <2>6. /\ reader'.pc = "walk" /\ reader'.k = k + 1 /\ reader'.most = reader.most
        /\ reader'.residue = reader.residue + Walked[k].left
        /\ reader' \in [pc : {"idle", "walk"}, k : Nat \ {0}, residue : Nat, most : Nat]
    <3>1. reader \in [pc : {"idle", "walk"}, k : Nat \ {0}, residue : Nat, most : Nat]
      BY DEF ResidueInv
    <3>2. reader' = [reader EXCEPT !.residue = @ + Walked[k].left, !.k = @ + 1]
      BY <2>1, <2>4
    <3> DEFINE w == Walked[k].left
    <3> HIDE DEF w
    <3>3. /\ reader'.pc = reader.pc /\ reader'.k = reader.k + 1 /\ reader'.most = reader.most
          /\ reader'.residue = reader.residue + w
      BY <3>1, <3>2 DEF w
    <3>4. reader' = [pc |-> reader.pc, k |-> reader.k + 1, residue |-> reader.residue + w,
                     most |-> reader.most]
      BY <3>1, <3>2 DEF w
    <3>5. w \in Nat /\ reader.k \in Nat /\ reader.residue \in Nat
      BY <2>4, <3>1 DEF w
    <3>6. reader' \in [pc : {"idle", "walk"}, k : Nat \ {0}, residue : Nat, most : Nat]
      BY <3>1, <3>4, <3>5
    <3> QED BY <2>1, <3>3, <3>6 DEF w
  <2>7. Walked' = Walked
    BY <2>1 DEF Walked
  <2>8. (k + 1) - 1 = k /\ k + 1 \in 1 .. Len(Walked) + 1
    BY <2>3
  <2> HIDE DEF f, k
  <2>9. /\ f[k] <= reader'.residue /\ reader'.residue \in Nat
        /\ reader'.residue + f[Len(Walked)] - f[k] <= reader.most
    <3>1. \A a, b, w, z, x, y \in Nat :
            a <= x /\ x + z - a <= y /\ b = a + w => b <= x + w /\ (x + w) + z - b <= y
      OBVIOUS
    <3>2. reader'.residue = reader.residue + Walked[k].left
      BY <2>6 DEF k
    <3>3. f[k] <= reader.residue + Walked[k].left
      BY <2>2, <2>4, <2>5
    <3>4. (reader.residue + Walked[k].left) + f[Len(Walked)] - f[k] <= reader.most
      BY <2>2, <2>4, <2>5, <3>1
    <3> QED BY <2>2, <2>4, <3>2, <3>3, <3>4
  <2>10. WalkInv'
    <3>1. LeftUpTo(Walked') = f
      BY <2>7 DEF f
    <3> QED BY <2>1, <2>2, <2>6, <2>7, <2>8, <2>9, <3>1 DEF WalkInv
  <2> QED BY <1>1, <2>6, <2>10 DEF ResidueInv
<1>11. CASE TxStatusReturn
  <2>1. reader' = NoReader
    BY <1>11 DEF TxStatusReturn
  <2> QED BY <1>1, <2>1 DEF ResidueInv, WalkInv, NoReader
<1>12. CASE Engine
  <2>1. PICK q \in DOMAIN active_list : \E k \in DOMAIN active_list[q].segments :
          \E n \in 1 .. active_list[q].segments[k].left : EngineMoves(q, k, n)
    BY <1>12 DEF Engine
  <2>2. PICK j \in DOMAIN active_list[q].segments :
          \E n \in 1 .. active_list[q].segments[j].left : EngineMoves(q, j, n)
    BY <2>1
  <2>3. PICK n \in 1 .. active_list[q].segments[j].left : EngineMoves(q, j, n)
    BY <2>2
  <2> DEFINE d == active_list[q]
             s == d.segments
             t == [s EXCEPT ![j] = Done(s[j], n)]
             e == [d EXCEPT !.segments = t]
             m == Len(active_list)
  <2>4. active_list' = [active_list EXCEPT ![q].segments[j] = Done(s[j], n)] /\ reader' = reader
    BY <2>3, Zenon DEF EngineMoves
  <2>5. active_list' = [active_list EXCEPT ![q] = e]
    BY <2>4, Zenon
  <2>6. d \in Desc /\ s \in Seq(Segment) /\ Fits(s[j])
    BY <1>2, ElementOfSeq DEF AllFit
  <2>7. n \in Nat /\ Done(s[j], n).left = s[j].left - n
    BY <2>6, PrepAssumption DEF Done, Fits, Segment
  <2>8. e.segments = t
    BY <2>6 DEF Desc
  <2>9. /\ DOMAIN t = DOMAIN s /\ t[j] = Done(s[j], n)
        /\ \A k \in DOMAIN s : k # j => t[k] = s[k]
    BY <2>6
  <2> HIDE DEF e, t
  <2>10. /\ DOMAIN active_list' = DOMAIN active_list
         /\ \A p \in DOMAIN active_list : active_list'[p] = IF p = q THEN e ELSE active_list[p]
    BY <2>5
  <2>11. active_list' \in Seq(Desc) /\ Len(active_list') = m /\ m \in Nat
    <3>1. active_list' \in Seq(Desc)
      BY <1>1 DEF FitInv, QueueFits
    <3> QED BY <1>1, <2>10, <3>1
  <2>12. q \in 1 .. m /\ m # 0 /\ active_list # <<>> /\ active_list' # <<>>
    BY <1>1, <2>11
  <2>13. Walked' = IF m = q THEN t ELSE Walked
    <3>1. Walked' = active_list'[m].segments
      BY <2>11 DEF Walked, Last
    <3>2. Walked = active_list[m].segments
      BY <1>4, <2>12
    <3>3. m \in DOMAIN active_list
      BY <1>3, <2>12
    <3> QED BY <2>8, <2>10, <3>1, <3>2, <3>3
  <2>14. ASSUME reader.pc = "walk" PROVE WalkInv'
    <3>1. CASE m # q
      BY <2>4, <2>12, <2>13, <2>14, <3>1 DEF WalkInv, ResidueInv
    <3>2. CASE m = q
      <4> DEFINE f == LeftUpTo(s)
                 g == LeftUpTo(t)
                 l == Len(s)
                 k == reader.k
      <4>1. Walked = s /\ Walked' = t /\ Lefts(s)
        BY <1>4, <2>12, <2>13, <3>2
      <4>2. Len(t) = l /\ l \in Nat /\ Lefts(t)
        <5>1. AllFit(t)
          <6>1. q \in DOMAIN active_list' /\ active_list'[q].segments = t
            BY <2>8, <2>10
          <6> QED BY <1>1, <6>1 DEF FitInv, QueueFits
        <5>2. Lefts(t) /\ t \in Seq(Segment)
          BY <5>1, FitLefts DEF AllFit
        <5> QED BY <2>6, <2>9, <5>2
      <4>3. j \in 1 .. l /\ t[j].left = s[j].left - n
            /\ \A p \in 1 .. l : p # j => t[p].left = s[p].left
        BY <2>6, <2>7, <2>9
      <4>4. \A p \in 0 .. l : g[p] = IF p < j THEN f[p] ELSE f[p] - n
        <5> HIDE DEF f, g, l, s
        <5>1. \A p \in 0 .. Len(s) : LeftUpTo(t)[p] = IF p < j THEN LeftUpTo(s)[p] ELSE LeftUpTo(s)[p] - n
          BY <2>7, <4>1, <4>2, <4>3, LeftLess DEF l
        <5> QED BY <5>1 DEF f, g, l
      <4>5. /\ k \in 1 .. l + 1 /\ reader.residue \in Nat /\ reader.most \in Nat
            /\ f[k - 1] <= reader.residue /\ reader.residue + f[l] - f[k - 1] <= reader.most
        BY <2>14, <4>1 DEF WalkInv, ResidueInv
      <4>6. f[k - 1] \in Nat /\ f[l] \in Nat
        <5>1. f \in [0 .. l -> Nat]
          BY <4>1, LeftUpToIs
        <5>2. k - 1 \in 0 .. l /\ l \in 0 .. l
          BY <4>2, <4>5
        <5> HIDE DEF f, l, k
        <5> QED BY <5>1, <5>2
      <4>7. k - 1 \in 0 .. l /\ l \in 0 .. l /\ ~(l < j) /\ n \in Nat
        BY <2>7, <4>2, <4>3, <4>5
      <4>8. g[l] = f[l] - n /\ g[k - 1] \in {f[k - 1], f[k - 1] - n}
        BY <4>4, <4>7
      <4> HIDE DEF f, g
      <4>9. g[k - 1] <= reader.residue /\ reader.residue + g[l] - g[k - 1] <= reader.most
        <5>1. \A a, x, y, z, w \in Nat : \A v \in {a, a - y} :
                a <= x /\ x + z - a <= w => v <= x /\ x + (z - y) - v <= w
          OBVIOUS
        <5> HIDE DEF k, l
        <5> QED BY <4>5, <4>6, <4>7, <4>8, <5>1
      <4> QED BY <2>4, <2>12, <4>1, <4>2, <4>5, <4>9 DEF WalkInv, f, g
    <3> QED BY <3>1, <3>2
  <2>15. WalkInv'
    BY <2>4, <2>14 DEF WalkInv
  <2> QED BY <1>1, <2>4, <2>15 DEF ResidueInv
<1> QED BY <1>6, <1>7, <1>8, <1>9, <1>10, <1>11, <1>12 DEF Next, Status

LEMMA ResidueImplies == ResidueInv => ResidueBetween
<1> SUFFICES ASSUME ResidueInv, reader.pc = "walk", reader.k > Len(Walked)
             PROVE  /\ BytesLeft(Last(active_list)) <= reader.residue
                    /\ reader.residue <= reader.most
  BY DEF ResidueBetween
<1>1. /\ active_list # <<>> /\ reader.k \in 1 .. Len(Walked) + 1
      /\ reader.residue \in Nat /\ reader.most \in Nat
      /\ LeftUpTo(Walked)[reader.k - 1] <= reader.residue
      /\ reader.residue + LeftUpTo(Walked)[Len(Walked)] - LeftUpTo(Walked)[reader.k - 1]
           <= reader.most
  BY DEF ResidueInv, WalkInv
<1>2. Lefts(Walked)
  <2>1. active_list \in Seq(Desc) /\ \A q \in DOMAIN active_list : Lefts(active_list[q].segments)
    BY FitLefts DEF ResidueInv, FitInv, QueueFits
  <2> QED BY <1>1, <2>1 DEF Walked, Last
<1>3. Len(Walked) \in Nat /\ LeftUpTo(Walked)[Len(Walked)] \in Nat
  BY <1>2, LeftUpToIs DEF Lefts
<1>4. reader.k - 1 = Len(Walked)
  BY <1>1, <1>3
<1> QED BY <1>1, <1>3, <1>4 DEF BytesLeft, Walked

\* While the engine goes on, and although it writes the words that the walk reads: the
\* residue of a transaction lies between what was left of it when tx_status began and what
\* is left when it returns (vxdma.c:428-441).
THEOREM ResidueIsBetween == Spec => []ResidueBetween
<1>1. ResidueInv /\ [Next]_vars => ResidueInv'
  BY ResidueStep
<1> QED BY ResidueInit, ResidueImplies, <1>1, PTL DEF Spec
=============================================================================
