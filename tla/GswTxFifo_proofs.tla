-------------------------- MODULE GswTxFifo_proofs --------------------------
(***************************************************************************)
(* Proofs that the transmit path sends whole frames, in the order in which *)
(* they were accepted: the ring and the engine implement TxFifo, for every *)
(* ring size, every bound on the fragments and every set of buffers.       *)
(***************************************************************************)
EXTENDS GswTx_proofs, SequenceTheorems

USE TxAssumption

-----------------------------------------------------------------------------
(* The inductive invariant: the frames in the ring are whole.              *)

\* Slot i is the engine's, or is filled and about to be handed to it.
Committed(i) ==
    cown[i] = 0 \/ (pc = "release" /\ Distance(index, i) <= nr_frags[skb] - f)

\* The flags of a committed slot agree with the segment it points to, and the
\* buffer is recorded at its last segment.
FlagsMatchSegment ==
    \A i \in Slot : Committed(i) =>
        LET s == data_ptr[i][1]
            k == data_ptr[i][2]
        IN  /\ s \in Skb /\ k \in 0 .. nr_frags[s]
            /\ fs[i] = 1 <=> k = 0
            /\ ls[i] = 1 <=> k = nr_frags[s]
            /\ ls[i] = 1 => skb_ptr[i] = s

\* A committed slot is followed by the next segment of its buffer, or by the
\* first segment of another; the last committed one ends a frame.
SegmentsFollow ==
    \A i \in Slot : Committed(i) =>
        IF NextSlot(i) = cur_index THEN ls[i] = 1
        ELSE data_ptr[NextSlot(i)] =
                 IF ls[i] = 1 THEN <<data_ptr[NextSlot(i)][1], 0>>
                 ELSE <<data_ptr[i][1], data_ptr[i][2] + 1>>

\* What send_packet has prepared so far.
FramePrepared ==
    /\ pc \in {"check", "fill"} =>
           \A i \in Slot : Distance(cur_index, i) < f =>
               /\ fs[i] = 1 <=> Distance(cur_index, i) = 0
               /\ ls[i] = 1 <=> Distance(cur_index, i) = nr_frags[skb]
    /\ pc = "release" =>
           \A i \in Slot : Distance(index, i) <= nr_frags[skb] - f =>
               data_ptr[i] = <<skb, f + Distance(index, i)>>

\* The engine has gathered the segments before the one at TSSD.
GatheredSoFar ==
    gather = IF Committed(tssd)
             THEN [k \in 1 .. data_ptr[tssd][2] |-> <<data_ptr[tssd][1], k - 1>>]
             ELSE <<>>

\* As many frames begin in the committed slots, with the one the engine is
\* sending, as end there.
FramesEnd ==
    LET committed(flag) == Cardinality({i \in Slot : Committed(i) /\ flag[i] = 1})
    IN  committed(ls) = committed(fs) + (IF gather = <<>> THEN 0 ELSE 1)

\* send_packet runs with the engine stopped, up to its start.
StoppedWhileSending == dma => pc \in {"idle", "free"}

FrameInv ==
    /\ FlagsMatchSegment
    /\ SegmentsFollow
    /\ FramePrepared
    /\ GatheredSoFar
    /\ FramesEnd
    /\ StoppedWhileSending

-----------------------------------------------------------------------------

\* A step that changes no committed slot keeps what is said of them.
LEMMA CommittedKept ==
    ASSUME TypeOK, FrameInv, UNCHANGED <<data_ptr, cur_index, tssd, gather>>,
           \A i \in Slot : Committed(i)' <=> Committed(i),
           \A i \in Slot : Committed(i) =>
               /\ fs'[i] = fs[i] /\ ls'[i] = ls[i] /\ skb_ptr'[i] = skb_ptr[i]
               /\ nr_frags'[data_ptr[i][1]] = nr_frags[data_ptr[i][1]]
    PROVE  FlagsMatchSegment' /\ SegmentsFollow' /\ GatheredSoFar' /\ FramesEnd'
<1>1. FlagsMatchSegment'
  <2> SUFFICES ASSUME NEW i \in Slot, Committed(i)'
               PROVE  LET s == data_ptr[i][1]
                          k == data_ptr[i][2]
                      IN  /\ s \in Skb /\ k \in 0 .. nr_frags'[s]
                          /\ fs'[i] = 1 <=> k = 0
                          /\ ls'[i] = 1 <=> k = nr_frags'[s]
                          /\ ls'[i] = 1 => skb_ptr'[i] = s
    BY DEF FlagsMatchSegment
  <2> QED
    BY DEF FrameInv, FlagsMatchSegment
<1>2. SegmentsFollow'
  <2> SUFFICES ASSUME NEW i \in Slot, Committed(i)'
               PROVE  IF NextSlot(i) = cur_index THEN ls'[i] = 1
                      ELSE data_ptr[NextSlot(i)] =
                               IF ls'[i] = 1 THEN <<data_ptr[NextSlot(i)][1], 0>>
                               ELSE <<data_ptr[i][1], data_ptr[i][2] + 1>>
    BY DEF SegmentsFollow, NextSlot
  <2> QED
    BY DEF FrameInv, SegmentsFollow
<1>3. GatheredSoFar'
  <2>1. tssd \in Slot
    BY DEF TypeOK
  <2>2. Committed(tssd)' <=> Committed(tssd)
    BY <2>1 DEF Committed, Distance
  <2> QED
    BY <2>2 DEF FrameInv, GatheredSoFar
<1>4. FramesEnd'
  <2>1. /\ {i \in Slot : Committed(i)' /\ ls'[i] = 1} = {i \in Slot : Committed(i) /\ ls[i] = 1}
        /\ {i \in Slot : Committed(i)' /\ fs'[i] = 1} = {i \in Slot : Committed(i) /\ fs[i] = 1}
    OBVIOUS
  <2> QED
    BY <2>1 DEF FrameInv, FramesEnd
<1> QED
  BY <1>1, <1>2, <1>3, <1>4

\* The stack makes a buffer: no committed slot points into it.
LEMMA AllocSkbFrames ==
    ASSUME Inv, FrameInv, NEW s \in Skb, NEW n \in 0 .. MAX_SKB_FRAGS, AllocSkb(s, n)
    PROVE  FrameInv'
<1>1. /\ holder[s] = "nobody" /\ nr_frags' = [nr_frags EXCEPT ![s] = n]
      /\ UNCHANGED <<ringVars, hwVars, sendVars>>
      /\ nr_frags \in [Skb -> 0 .. MAX_SKB_FRAGS]
  BY DEF AllocSkb, Inv, TypeOK
<1>2. pc \in {"check", "fill", "release"} => skb \in Skb /\ skb # s /\ nr_frags'[skb] = nr_frags[skb]
  <2>1. CASE pc \in {"check", "fill"}
    BY <1>1, <2>1 DEF Inv, TypeOK, RingInv, Records
  <2>2. CASE pc = "release"
    <3>1. skb \in Skb /\ nr_frags[skb] - f \in 0 .. TFD_NUM
      BY <2>2 DEF Inv, TypeOK, RingInv, LoopPosition
    <3>2. Plus(index, nr_frags[skb] - f) \in Slot
      BY <3>1, PlusDistance DEF Inv, TypeOK
    <3>3. holder[skb] = "driver"
      BY <2>2, <3>1, <3>2 DEF Inv, RingInv, SlotsForFrame, Records
    <3> QED
      BY <1>1, <3>1, <3>3
  <2> QED
    BY <2>1, <2>2
<1>3. \A i \in Slot : Committed(i)' <=> Committed(i)
  BY <1>1, <1>2 DEF Committed, Distance, ringVars, sendVars
<1>4. ASSUME NEW i \in Slot, Committed(i)
      PROVE  nr_frags'[data_ptr[i][1]] = nr_frags[data_ptr[i][1]]
  <2>1. data_ptr[i][1] \in Skb
    BY <1>4 DEF FrameInv, FlagsMatchSegment
  <2>2. data_ptr[i][1] # s
    <3>1. CASE cown[i] = 0
      BY <1>1, <3>1 DEF Inv, RingInv, LastSegmentPending, Records
    <3>2. CASE pc = "release" /\ Distance(index, i) <= nr_frags[skb] - f
      BY <1>2, <3>2 DEF Inv, RingInv, SlotsForFrame
    <3> QED
      BY <1>4, <3>1, <3>2 DEF Committed
  <2> QED
    BY <1>1, <2>1, <2>2
<1>5. FlagsMatchSegment' /\ SegmentsFollow' /\ GatheredSoFar' /\ FramesEnd'
  BY <1>1, <1>3, <1>4, CommittedKept DEF Inv, ringVars, hwVars
<1>6. FramePrepared' /\ StoppedWhileSending'
  BY <1>1, <1>2 DEF FrameInv, FramePrepared, StoppedWhileSending, Distance, ringVars, hwVars, sendVars
<1> QED
  BY <1>5, <1>6 DEF FrameInv

\* The steps that leave the ring, the buffers and the engine's frame alone.
LEMMA QuietFrames ==
    ASSUME Inv, FrameInv, pc # "release", pc' # "release",
           UNCHANGED <<ringVars, tssd, gather, nr_frags>>
    PROVE  FlagsMatchSegment' /\ SegmentsFollow' /\ GatheredSoFar' /\ FramesEnd'
<1>1. \A i \in Slot : Committed(i)' <=> Committed(i)
  BY DEF Committed, ringVars
<1> QED
  BY <1>1, CommittedKept DEF Inv, ringVars

LEMMA SendStopFrames ==
    ASSUME Inv, FrameInv, NEW s \in Skb, SendStop(s)
    PROVE  FrameInv'
<1>1. FlagsMatchSegment' /\ SegmentsFollow' /\ GatheredSoFar' /\ FramesEnd'
  BY QuietFrames DEF SendStop, skbVars
<1>2. \A i \in Slot : Distance(cur_index, i) \in 0 .. TFD_NUM - 1
  BY SlotArithmetic DEF Inv, TypeOK
<1>3. FramePrepared' /\ StoppedWhileSending'
  BY <1>2 DEF SendStop, FramePrepared, StoppedWhileSending, Distance, ringVars
<1> QED
  BY <1>1, <1>3 DEF FrameInv

LEMMA SendQuietFrames ==
    ASSUME Inv, FrameInv, SendBusy \/ SendStart \/ SendFree \/ SendReturn
    PROVE  FrameInv'
<1>1. /\ pc # "release" /\ pc' \in {"idle", "free"}
      /\ UNCHANGED <<ringVars, tssd, gather, nr_frags>>
  BY DEF SendBusy, SendStart, SendFree, SendReturn, hwVars, skbVars
<1>2. FlagsMatchSegment' /\ SegmentsFollow' /\ GatheredSoFar' /\ FramesEnd'
  BY <1>1, QuietFrames
<1>3. FramePrepared' /\ StoppedWhileSending'
  BY <1>1 DEF FramePrepared, StoppedWhileSending
<1> QED
  BY <1>2, <1>3 DEF FrameInv

\* The check loop sets the flags of a slot that is not committed.
LEMMA SendCheckFrames ==
    ASSUME Inv, FrameInv, SendCheck
    PROVE  FrameInv'
<1>1. /\ pc = "check" /\ pc' \in {"check", "fill"} /\ cown[index] = 1
      /\ fs' = [fs EXCEPT ![index] = IF f = 0 THEN 1 ELSE 0]
      /\ ls' = [ls EXCEPT ![index] = IF f = nr_frags[skb] THEN 1 ELSE 0]
      /\ f' = f + 1
      /\ UNCHANGED <<cown, data_ptr, skb_ptr, cur_index, tssd, gather, nr_frags, skb, dma>>
  BY DEF SendCheck, hwVars, skbVars
<1>2. /\ cur_index \in Slot /\ index \in Slot /\ index = Plus(cur_index, f)
      /\ f \in 0 .. TFD_NUM /\ f < TFD_NUM /\ nr_frags[skb] \in Int
      /\ fs \in [Slot -> {0, 1}] /\ ls \in [Slot -> {0, 1}]
  BY <1>1 DEF Inv, TypeOK, RingInv, LoopPosition
<1>3. /\ Distance(cur_index, index) = f
      /\ \A i \in Slot : Distance(cur_index, i) \in 0 .. TFD_NUM - 1
      /\ \A i \in Slot : Distance(cur_index, i) = f => i = index
  <2>1. cur_index \in Slot /\ index = Plus(cur_index, f) /\ f \in 0 .. TFD_NUM /\ f < TFD_NUM
    BY <1>2
  <2> QED
    BY <2>1, PlusDistance, SlotArithmetic
<1>4. \A i \in Slot : Committed(i)' <=> Committed(i)
  BY <1>1 DEF Committed
<1>5. \A i \in Slot : Committed(i) => i # index
  BY <1>1 DEF Committed
<1>6. FlagsMatchSegment' /\ SegmentsFollow' /\ GatheredSoFar' /\ FramesEnd'
  <2>1. \A i \in Slot : Committed(i) => fs'[i] = fs[i] /\ ls'[i] = ls[i]
    BY <1>1, <1>2, <1>5
  <2> QED
    BY <1>1, <1>4, <2>1, CommittedKept DEF Inv
<1>7. ASSUME NEW i \in Slot, Distance(cur_index, i) < f + 1
      PROVE  /\ fs'[i] = 1 <=> Distance(cur_index, i) = 0
             /\ ls'[i] = 1 <=> Distance(cur_index, i) = nr_frags[skb]
  <2>1. CASE i = index
    BY <1>1, <1>2, <1>3, <2>1
  <2>2. CASE i # index
    <3>1. Distance(cur_index, i) < f
      BY <1>2, <1>3, <1>7, <2>2
    <3> QED
      BY <1>1, <1>2, <2>2, <3>1 DEF FrameInv, FramePrepared
  <2> QED
    BY <2>1, <2>2
<1>8. FramePrepared' /\ StoppedWhileSending'
  BY <1>1, <1>7 DEF FrameInv, FramePrepared, StoppedWhileSending, Distance
<1> QED
  BY <1>6, <1>8 DEF FrameInv

\* The release loop hands over a slot that is committed already.
LEMMA SendReleaseFrames ==
    ASSUME Inv, FrameInv, SendRelease
    PROVE  FrameInv'
<1> DEFINE n == nr_frags[skb]
<1>1. /\ pc = "release" /\ pc' = (IF f = n THEN "start" ELSE "release")
      /\ cown' = [cown EXCEPT ![index] = 0] /\ index' = NextSlot(index) /\ f' = f + 1
      /\ UNCHANGED <<fs, ls, data_ptr, skb_ptr, cur_index, tssd, gather, nr_frags, skb, dma>>
  BY DEF SendRelease, hwVars, skbVars
<1>2. /\ index \in Slot /\ n \in 0 .. MAX_SKB_FRAGS /\ n < TFD_NUM
      /\ f \in 0 .. MAX_SKB_FRAGS + 1 /\ f <= n /\ cown \in [Slot -> {0, 1}]
  BY <1>1 DEF Inv, TypeOK, RingInv, LoopPosition
<1>3. /\ NextSlot(index) \in Slot /\ Distance(index, index) = 0
      /\ \A i \in Slot : Distance(index, i) \in 0 .. TFD_NUM - 1
      /\ \A i \in Slot : Distance(index, i) = 0 => i = index
      /\ \A i \in Slot : i # index => Distance(NextSlot(index), i) = Distance(index, i) - 1
      /\ Distance(NextSlot(index), index) = TFD_NUM - 1
  <2>1. Distance(NextSlot(index), index) = TFD_NUM - 1
    BY <1>2 DEF Distance, NextSlot, Slot
  <2> QED
    BY <1>2, <2>1, SlotArithmetic, DistanceStep
<1>4. ASSUME NEW i \in Slot
      PROVE  /\ Committed(i)' <=> Committed(i)
             /\ Distance(NextSlot(index), i) <= n - (f + 1) =>
                    /\ Distance(index, i) <= n - f
                    /\ f + 1 + Distance(NextSlot(index), i) = f + Distance(index, i)
  <2>1. Committed(i)' <=> cown'[i] = 0 \/ (f # n /\ Distance(NextSlot(index), i) <= n - (f + 1))
    BY <1>1 DEF Committed, Distance
  <2>2. Committed(i) <=> cown[i] = 0 \/ Distance(index, i) <= n - f
    BY <1>1 DEF Committed
  <2> HIDE DEF n
  <2>3. CASE i = index
    BY <1>1, <1>2, <1>3, <2>1, <2>2, <2>3
  <2>4. CASE i # index
    BY <1>1, <1>2, <1>3, <2>1, <2>2, <2>4
  <2> QED
    BY <2>3, <2>4
<1>5. FlagsMatchSegment' /\ SegmentsFollow' /\ GatheredSoFar' /\ FramesEnd'
  BY <1>1, <1>4, CommittedKept DEF Inv
<1>6. FramePrepared' /\ StoppedWhileSending'
  <2>1. \A i \in Slot : Distance(index, i) <= n - f => data_ptr[i] = <<skb, f + Distance(index, i)>>
    BY <1>1 DEF FrameInv, FramePrepared
  <2>2. \A i \in Slot : Distance(NextSlot(index), i) <= n - (f + 1) =>
            data_ptr[i] = <<skb, f + 1 + Distance(NextSlot(index), i)>>
    BY <1>4, <2>1
  <2>3. FramePrepared'
    BY <1>1, <2>2 DEF FramePrepared, Distance
  <2> QED
    BY <1>1, <2>3 DEF FrameInv, StoppedWhileSending
<1> QED
  BY <1>5, <1>6 DEF FrameInv

\* What comes after a slot, seen from slot c: the slots up to n steps from it
\* are followed by one another and then by the slot n + 1 steps from it.
LEMMA NextSegment ==
    ASSUME NEW c \in Slot, NEW i \in Slot, NEW n \in 0 .. TFD_NUM - 1
    PROVE  LET d == Distance(c, i)
               e == Distance(c, NextSlot(i))
               x == Plus(c, n + 1)
           IN  /\ d = n => NextSlot(i) = x
               /\ d < n => NextSlot(i) # x /\ e = d + 1
               /\ d > n => NextSlot(i) # x /\ (NextSlot(i) # c => e = d + 1)
BY DEF Slot, NextSlot, Distance, Plus

\* The slots are filled with the segments of the buffer, behind a whole frame.
LEMMA SendFillFrames ==
    ASSUME Inv, FrameInv, SendFill
    PROVE  FrameInv'
<1> DEFINE n == nr_frags[skb]
           seg(i) == Distance(cur_index, i)
<1>1. /\ pc = "fill" /\ pc' = "release" /\ cur_index' = index /\ index' = cur_index /\ f' = 0
      /\ data_ptr' = [i \in Slot |-> IF seg(i) <= n THEN <<skb, seg(i)>> ELSE data_ptr[i]]
      /\ skb_ptr' = [i \in Slot |-> IF seg(i) < n THEN NULL
                                    ELSE IF seg(i) = n THEN skb ELSE skb_ptr[i]]
      /\ UNCHANGED <<cown, fs, ls, tssd, gather, nr_frags, skb, dma>>
  BY DEF SendFill, hwVars
<1>2. /\ skb \in Skb /\ cur_index \in Slot /\ tssd \in Slot
      /\ n \in 0 .. MAX_SKB_FRAGS /\ n \in 0 .. TFD_NUM - 1
      /\ f = n + 1 /\ index = Plus(cur_index, n + 1)
  BY <1>1 DEF Inv, TypeOK, RingInv, LoopPosition
<1>3. \A i \in Slot : seg(i) \in 0 .. TFD_NUM - 1 /\ NextSlot(i) \in Slot
  BY <1>2, SlotArithmetic
<1>4. \A i \in Slot : Committed(i) <=> cown[i] = 0
  BY <1>1 DEF Committed
<1>5. \A i \in Slot : Committed(i)' <=> cown[i] = 0 \/ seg(i) <= n
  BY <1>1, <1>2 DEF Committed, Distance
<1>6. ASSUME NEW i \in Slot, cown[i] = 0 PROVE seg(i) > n
  <2>1. ~(seg(i) < f)
    BY <1>1, <1>6 DEF Inv, RingInv, SlotsForFrame
  <2> QED
    BY <1>2, <1>3, <2>1
<1>7. ASSUME NEW i \in Slot, seg(i) <= n
      PROVE  /\ fs[i] = 1 <=> seg(i) = 0
             /\ ls[i] = 1 <=> seg(i) = n
  <2>1. seg(i) < f
    BY <1>2, <1>3, <1>7
  <2> QED
    BY <1>1, <1>7, <2>1 DEF FrameInv, FramePrepared
<1>8. FlagsMatchSegment'
  <2> SUFFICES ASSUME NEW i \in Slot, cown[i] = 0 \/ seg(i) <= n
               PROVE  LET s == data_ptr'[i][1]
                          k == data_ptr'[i][2]
                      IN  /\ s \in Skb /\ k \in 0 .. nr_frags[s]
                          /\ fs[i] = 1 <=> k = 0
                          /\ ls[i] = 1 <=> k = nr_frags[s]
                          /\ ls[i] = 1 => skb_ptr'[i] = s
    BY <1>1, <1>5 DEF FlagsMatchSegment
  <2>1. CASE cown[i] = 0
    <3>1. data_ptr'[i] = data_ptr[i] /\ skb_ptr'[i] = skb_ptr[i]
      BY <1>1, <1>2, <1>3, <1>6, <2>1
    <3> QED
      BY <1>4, <2>1, <3>1 DEF FrameInv, FlagsMatchSegment
  <2>2. CASE seg(i) <= n
    <3>1. data_ptr'[i] = <<skb, seg(i)>> /\ (seg(i) = n => skb_ptr'[i] = skb)
      BY <1>1, <1>2, <1>3, <2>2
    <3> QED
      BY <1>2, <1>3, <1>7, <2>2, <3>1
  <2> QED
    BY <2>1, <2>2
<1>9. SegmentsFollow'
  <2>0. cur_index' = index /\ ls' = ls
    BY <1>1
  <2> SUFFICES ASSUME NEW i \in Slot, cown[i] = 0 \/ seg(i) <= n
               PROVE  IF NextSlot(i) = index THEN ls[i] = 1
                      ELSE data_ptr'[NextSlot(i)] =
                               IF ls[i] = 1 THEN <<data_ptr'[NextSlot(i)][1], 0>>
                               ELSE <<data_ptr'[i][1], data_ptr'[i][2] + 1>>
    BY <1>5, <2>0 DEF SegmentsFollow, NextSlot
  <2>1. /\ seg(i) = n => NextSlot(i) = index
        /\ seg(i) < n => NextSlot(i) # index /\ seg(NextSlot(i)) = seg(i) + 1
        /\ seg(i) > n => /\ NextSlot(i) # index
                         /\ NextSlot(i) # cur_index => seg(NextSlot(i)) = seg(i) + 1
    BY <1>2, NextSegment
  <2>2. seg(cur_index) = 0
    BY <1>2, SlotArithmetic
  <2>3. CASE cown[i] = 0
    <3>1. seg(i) > n /\ data_ptr'[i] = data_ptr[i]
      BY <1>1, <1>2, <1>3, <1>6, <2>3
    <3>2. CASE NextSlot(i) = cur_index
      <4>1. data_ptr'[cur_index] = <<skb, 0>>
        BY <1>1, <1>2, <2>2
      <4>2. ls[i] = 1
        BY <1>4, <2>3, <3>2 DEF FrameInv, SegmentsFollow
      <4> QED
        BY <2>1, <3>1, <3>2, <4>1, <4>2
    <3>3. CASE NextSlot(i) # cur_index
      <4>1. data_ptr'[NextSlot(i)] = data_ptr[NextSlot(i)]
        BY <1>1, <1>2, <1>3, <2>1, <3>1, <3>3
      <4> QED
        BY <1>4, <2>1, <2>3, <3>1, <3>3, <4>1 DEF FrameInv, SegmentsFollow
    <3> QED
      BY <3>2, <3>3
  <2>4. CASE seg(i) = n
    BY <1>2, <1>7, <2>1, <2>4
  <2>5. CASE seg(i) < n
    <3>1. data_ptr'[i] = <<skb, seg(i)>> /\ data_ptr'[NextSlot(i)] = <<skb, seg(i) + 1>>
      BY <1>1, <1>2, <1>3, <2>1, <2>5
    <3>2. ls[i] # 1
      BY <1>2, <1>3, <1>7, <2>5
    <3> QED
      BY <2>1, <2>5, <3>1, <3>2
  <2> QED
    BY <1>2, <1>3, <2>3, <2>4, <2>5
<1>10. FramePrepared' /\ StoppedWhileSending'
  <2>1. \A i \in Slot : seg(i) <= n - 0 => data_ptr'[i] = <<skb, 0 + seg(i)>>
    BY <1>1, <1>2, <1>3
  <2> QED
    BY <1>1, <2>1 DEF FrameInv, FramePrepared, StoppedWhileSending, Distance
<1>11. GatheredSoFar'
  <2>1. Committed(tssd)' <=> cown[tssd] = 0 \/ seg(tssd) <= n
    BY <1>1, <1>2, <1>5 DEF Committed, Distance
  <2>2. CASE cown[tssd] = 0
    <3>1. data_ptr'[tssd] = data_ptr[tssd]
      BY <1>1, <1>2, <1>3, <1>6, <2>2
    <3> QED
      BY <1>1, <1>2, <1>4, <2>1, <2>2, <3>1 DEF FrameInv, GatheredSoFar
  <2>3. CASE cown[tssd] # 0
    <3>1. tssd = cur_index
      <4>1. Distance(tssd, tssd) = 0 /\ Distance(tssd, cur_index) \in 0 .. TFD_NUM - 1
            /\ (Distance(tssd, cur_index) = 0 => tssd = cur_index)
        BY <1>2, SlotArithmetic
      <4>2. ~(Distance(tssd, tssd) < Distance(tssd, cur_index))
        BY <1>1, <1>2, <2>3 DEF Inv, RingInv, EngineWindow, Released
      <4> QED
        BY <4>1, <4>2
    <3>2. seg(tssd) = 0
      BY <1>2, <3>1, SlotArithmetic
    <3>3. data_ptr'[tssd] = <<skb, 0>>
      BY <1>1, <1>2, <3>2
    <3>4. gather = <<>>
      BY <1>2, <1>4, <2>3 DEF FrameInv, GatheredSoFar
    <3>5. [k \in 1 .. data_ptr'[tssd][2] |-> <<data_ptr'[tssd][1], k - 1>>] = <<>>
      BY <3>3
    <3> QED
      BY <1>1, <3>4, <3>5 DEF GatheredSoFar
  <2> QED
    BY <2>2, <2>3
<1>12. FramesEnd'
  <2> DEFINE begin == {i \in Slot : cown[i] = 0 /\ fs[i] = 1}
             end   == {i \in Slot : cown[i] = 0 /\ ls[i] = 1}
             last  == Plus(cur_index, n)
  <2>1. last \in Slot /\ seg(last) = n /\ seg(cur_index) = 0
        /\ \A i \in Slot : (seg(i) = 0 => i = cur_index) /\ (seg(i) = n => i = last)
    <3>1. n \in 0 .. TFD_NUM /\ n < TFD_NUM
      BY <1>2
    <3> HIDE DEF n
    <3> QED
      BY <1>2, <3>1, PlusDistance, SlotArithmetic
  <2>2. {i \in Slot : Committed(i) /\ fs[i] = 1} = begin
        /\ {i \in Slot : Committed(i) /\ ls[i] = 1} = end
    BY <1>4
  <2>3. {i \in Slot : Committed(i)' /\ fs'[i] = 1} = begin \cup {cur_index}
        /\ {i \in Slot : Committed(i)' /\ ls'[i] = 1} = end \cup {last}
    <3> HIDE DEF n, seg, last
    <3> QED
      BY <1>1, <1>2, <1>3, <1>5, <1>7, <2>1
  <2>4. cur_index \notin begin /\ last \notin end
    <3>1. seg(cur_index) <= n /\ seg(last) <= n
      BY <1>2, <2>1
    <3> QED
      BY <1>2, <1>3, <1>6, <2>1, <3>1
  <2>5. IsFiniteSet(begin) /\ IsFiniteSet(end)
    <3>1. IsFiniteSet(Slot)
      BY FS_Interval DEF Slot
    <3> QED
      BY <3>1, FS_Subset
  <2>6. /\ Cardinality(begin \cup {cur_index}) = Cardinality(begin) + 1
        /\ Cardinality(end \cup {last}) = Cardinality(end) + 1
        /\ Cardinality(begin) \in Nat /\ Cardinality(end) \in Nat
    BY <2>4, <2>5, FS_AddElement, FS_CardinalityType
  <2>7. Cardinality(end) = Cardinality(begin) + (IF gather = <<>> THEN 0 ELSE 1)
    BY <2>2 DEF FrameInv, FramesEnd
  <2> HIDE DEF begin, end, last
  <2>8. Cardinality(end \cup {last})
            = Cardinality(begin \cup {cur_index}) + (IF gather' = <<>> THEN 0 ELSE 1)
    BY <1>1, <2>6, <2>7
  <2> QED
    BY <2>3, <2>8 DEF FramesEnd
<1> QED
  BY <1>8, <1>9, <1>10, <1>11, <1>12 DEF FrameInv

\* Fetching a descriptor changes nothing in the ring.
LEMMA DmaFetchFrames ==
    ASSUME Inv, FrameInv, DmaFetch
    PROVE  FrameInv'
<1>1. UNCHANGED <<ringVars, dma, tssd, gather, skbVars, sendVars>>
  BY DEF DmaFetch
<1>2. \A i \in Slot : Committed(i)' <=> Committed(i)
  BY <1>1 DEF Committed, Distance, ringVars, skbVars, sendVars
<1>3. FlagsMatchSegment' /\ SegmentsFollow' /\ GatheredSoFar' /\ FramesEnd'
  BY <1>1, <1>2, CommittedKept DEF Inv, ringVars, skbVars
<1>4. FramePrepared' /\ StoppedWhileSending'
  BY <1>1 DEF FrameInv, FramePrepared, StoppedWhileSending, Distance, ringVars, skbVars, sendVars
<1> QED
  BY <1>3, <1>4 DEF FrameInv

\* The engine takes the slot at TSSD out of the committed ones, and no other;
\* the slot after it is committed unless the ring ends there.
LEMMA DmaCompleteCommitted ==
    ASSUME Inv, FrameInv, DmaComplete
    PROVE  /\ Committed(tssd)
           /\ \A i \in Slot : Committed(i)' <=> Committed(i) /\ i # tssd
           /\ NextSlot(tssd) # cur_index <=> Committed(NextSlot(tssd)) /\ NextSlot(tssd) # tssd
<1>1. /\ tssd \in Slot /\ index \in Slot /\ cur_index \in Slot /\ Released \in Slot
      /\ cown \in [Slot -> {0, 1}] /\ cown[tssd] = 0
  BY DEF Inv, TypeOK, RingInv, EngineWindow, DmaComplete, Released
<1>2. cown' = [cown EXCEPT ![tssd] = 1] /\ UNCHANGED <<nr_frags, pc, skb, f, index>>
  BY DEF DmaComplete, skbVars, sendVars
<1>3. /\ \A i \in Slot : Distance(tssd, i) \in 0 .. TFD_NUM - 1
      /\ \A i \in Slot : Distance(tssd, i) = 0 => i = tssd
      /\ NextSlot(tssd) \in Slot /\ Distance(tssd, tssd) = 0 /\ Distance(index, index) = 0
  BY <1>1, SlotArithmetic
<1>4. pc = "release" => /\ ~(Distance(index, tssd) <= nr_frags[skb] - f)
                        /\ 0 <= nr_frags[skb] - f
  <2> SUFFICES ASSUME pc = "release"
               PROVE  ~(Distance(index, tssd) <= nr_frags[skb] - f) /\ 0 <= nr_frags[skb] - f
    OBVIOUS
  <2>1. /\ cown[index] = 1 /\ Distance(tssd, index) + (nr_frags[skb] - f) < TFD_NUM
        /\ f <= nr_frags[skb] /\ f \in Int /\ nr_frags[skb] \in Int
    BY DEF Inv, TypeOK, RingInv, SlotsForFrame, LoopPosition
  <2>2. Distance(tssd, index) + Distance(index, tssd) = TFD_NUM
    BY <1>1, <2>1, DistanceStep
  <2>3. Distance(index, tssd) \in Int /\ Distance(tssd, index) \in Int
    BY <1>1 DEF Distance, Slot
  <2> QED
    BY <2>1, <2>2, <2>3
<1>5. Committed(tssd)
  BY <1>1 DEF Committed
<1>6. \A i \in Slot : Committed(i)' <=> Committed(i) /\ i # tssd
  BY <1>1, <1>2, <1>4 DEF Committed, Distance
<1>7. ASSUME NextSlot(tssd) # cur_index PROVE Committed(NextSlot(tssd)) /\ NextSlot(tssd) # tssd
  <2>1. CASE Released = NextSlot(tssd)
    <3>1. pc = "release" /\ index = NextSlot(tssd)
      BY <1>7, <2>1 DEF Released
    <3>2. cown[index] = 1
      BY <3>1 DEF Inv, RingInv, SlotsForFrame
    <3> QED
      BY <1>1, <1>3, <1>4, <3>1, <3>2 DEF Committed
  <2>2. CASE Released # NextSlot(tssd)
    <3>1. NextSlot(tssd) # tssd /\ Distance(tssd, NextSlot(tssd)) = 1
      BY <1>1, <1>7, <2>2 DEF Slot, NextSlot, Distance
    <3>2. Distance(tssd, Released) # 1
      BY <1>1, <2>2 DEF Slot, NextSlot, Distance
    <3>3. cown[NextSlot(tssd)] = 0
      <4>1. CASE Released = tssd /\ \A i \in Slot : cown[i] = 0
        BY <1>3, <4>1
      <4>2. CASE \A i \in Slot : cown[i] = 0 <=> Distance(tssd, i) < Distance(tssd, Released)
        <5>1. 0 < Distance(tssd, Released)
          BY <1>1, <1>3, <4>2
        <5>2. 1 < Distance(tssd, Released)
          BY <1>1, <1>3, <3>2, <5>1
        <5> QED
          BY <1>3, <3>1, <4>2, <5>2
      <4> QED
        BY <4>1, <4>2 DEF Inv, RingInv, EngineWindow
    <3> QED
      BY <3>1, <3>3 DEF Committed
  <2> QED
    BY <2>1, <2>2
<1>8. ASSUME NextSlot(tssd) = cur_index, NextSlot(tssd) # tssd PROVE ~Committed(NextSlot(tssd))
  <2>1. Distance(tssd, cur_index) = 1
    BY <1>1, <1>8 DEF Slot, NextSlot, Distance
  <2>2. CASE pc = "release"
    <3>1. /\ cown[index] = 1 /\ Distance(tssd, index) + (nr_frags[skb] - f) < TFD_NUM
          /\ f <= nr_frags[skb] /\ f \in Int /\ nr_frags[skb] \in Int
          /\ cur_index = Plus(index, nr_frags[skb] - f + 1)
      BY <2>2 DEF Inv, TypeOK, RingInv, SlotsForFrame, LoopPosition
    <3> QED
      BY <1>1, <1>8, <3>1 DEF Slot, NextSlot, Distance, Plus
  <2>3. CASE pc # "release"
    <3>1. cown[cur_index] # 0
      BY <1>1, <1>3, <1>8, <2>1, <2>3 DEF Inv, RingInv, EngineWindow, Released
    <3> QED
      BY <1>8, <2>3, <3>1 DEF Committed
  <2> QED
    BY <2>2, <2>3
<1> QED
  BY <1>5, <1>6, <1>7, <1>8

\* What the engine has gathered with the segment at TSSD: the segments of the
\* buffer up to that one, however it came to them.
LEMMA DmaCompleteFrame ==
    ASSUME Inv, FrameInv, DmaComplete
    PROVE  LET s == data_ptr[tssd][1]
               k == data_ptr[tssd][2]
               frame == IF fs[tssd] = 1 THEN <<data_ptr[tssd]>> ELSE Append(gather, data_ptr[tssd])
           IN  /\ s \in Skb /\ k \in 0 .. nr_frags[s] /\ nr_frags[s] \in 0 .. MAX_SKB_FRAGS
               /\ data_ptr[tssd] = <<s, k>>
               /\ fs[tssd] = 1 <=> gather = <<>>
               /\ frame = [m \in 1 .. k + 1 |-> <<s, m - 1>>]
<1> DEFINE s == data_ptr[tssd][1]
           k == data_ptr[tssd][2]
<1>1. tssd \in Slot /\ Committed(tssd) /\ data_ptr[tssd] \in Segment
  BY DmaCompleteCommitted DEF Inv, TypeOK
<1>2. s \in Skb /\ k \in 0 .. nr_frags[s] /\ (fs[tssd] = 1 <=> k = 0)
  BY <1>1 DEF FrameInv, FlagsMatchSegment
<1>3. nr_frags[s] \in 0 .. MAX_SKB_FRAGS /\ k \in Nat
  BY <1>2 DEF Inv, TypeOK
<1>4. data_ptr[tssd] = <<s, k>>
  BY <1>1 DEF Segment
<1>5. gather = [m \in 1 .. k |-> <<s, m - 1>>]
  BY <1>1 DEF FrameInv, GatheredSoFar
<1> DEFINE whole == [m \in 1 .. k + 1 |-> <<s, m - 1>>]
<1> HIDE DEF s, k
<1>6. gather \in Seq(Skb \X Int) /\ Len(gather) = k
  <2>1. gather \in [1 .. k -> Skb \X Int]
    BY <1>2, <1>3, <1>5
  <2> QED
    BY <1>3, <2>1
<1>7. whole \in Seq(Skb \X Int) /\ Len(whole) = k + 1
  <2>1. whole \in [1 .. k + 1 -> Skb \X Int]
    BY <1>2, <1>3
  <2> HIDE DEF whole
  <2> QED
    BY <1>3, <2>1
<1>8. Append(gather, <<s, k>>) = whole
  <2>1. /\ Append(gather, <<s, k>>) \in Seq(Skb \X Int)
        /\ Len(Append(gather, <<s, k>>)) = k + 1
    BY <1>2, <1>3, <1>6
  <2>2. ASSUME NEW m \in 1 .. k + 1 PROVE Append(gather, <<s, k>>)[m] = whole[m]
    <3>1. CASE m = k + 1
      BY <1>3, <1>6, <3>1
    <3>2. CASE m # k + 1
      BY <1>3, <1>5, <1>6, <2>2, <3>2
    <3> QED
      BY <3>1, <3>2
  <2> HIDE DEF whole
  <2> QED
    BY <1>7, <2>1, <2>2, SeqEqual
<1>9. k = 0 => gather = <<>>
  BY <1>5
<1>10. k # 0 => gather # <<>>
  BY <1>3, <1>6
<1>11. k = 0 => <<(<<s, k>>)>> = Append(gather, <<s, k>>)
  BY <1>9
<1> QED
  BY <1>2, <1>3, <1>4, <1>8, <1>9, <1>10, <1>11 DEF s, k

\* The engine sends a segment: the end of a frame, or one that the next slot
\* continues.
LEMMA DmaCompleteFrames ==
    ASSUME Inv, FrameInv, DmaComplete
    PROVE  FrameInv'
<1> DEFINE s == data_ptr[tssd][1]
           k == data_ptr[tssd][2]
<1>0. PICK next \in Slot : next = NextSlot(tssd)
  BY SlotArithmetic DEF Inv, TypeOK
<1>1. /\ tssd' = next /\ gather' = (IF ls[tssd] = 1 THEN <<>>
                                    ELSE IF fs[tssd] = 1 THEN <<data_ptr[tssd]>>
                                    ELSE Append(gather, data_ptr[tssd]))
      /\ UNCHANGED <<fs, ls, data_ptr, skb_ptr, cur_index, dma, skbVars, sendVars>>
  BY <1>0 DEF DmaComplete
<1>2. /\ tssd \in Slot /\ Committed(tssd)
      /\ \A i \in Slot : Committed(i)' <=> Committed(i) /\ i # tssd
      /\ next # cur_index <=> Committed(next) /\ next # tssd
  BY <1>0, DmaCompleteCommitted DEF Inv, TypeOK
<1>3. /\ s \in Skb /\ k \in 0 .. nr_frags[s] /\ nr_frags[s] \in 0 .. MAX_SKB_FRAGS
      /\ fs[tssd] = 1 <=> gather = <<>>
      /\ gather' = IF ls[tssd] = 1 THEN <<>> ELSE [m \in 1 .. k + 1 |-> <<s, m - 1>>]
  BY <1>1, DmaCompleteFrame
<1>4. FlagsMatchSegment'
  BY <1>1, <1>2 DEF FrameInv, FlagsMatchSegment, skbVars
<1>5. SegmentsFollow'
  BY <1>1, <1>2 DEF FrameInv, SegmentsFollow, NextSlot
<1>6. FramePrepared' /\ StoppedWhileSending'
  BY <1>1 DEF FrameInv, FramePrepared, StoppedWhileSending, Distance, skbVars, sendVars
<1>7. gather' # <<>> <=> ls[tssd] # 1
  <2>1. [m \in 1 .. k + 1 |-> <<s, m - 1>>] # <<>>
    <3>1. k \in Nat
      BY <1>3
    <3> HIDE DEF k, s
    <3>2. 1 \in DOMAIN [m \in 1 .. k + 1 |-> <<s, m - 1>>]
      BY <3>1
    <3> QED
      BY <3>2
  <2> QED
    BY <1>3, <2>1
<1>8. GatheredSoFar'
  <2> SUFFICES gather' = IF Committed(next)'
                         THEN [m \in 1 .. data_ptr[next][2] |-> <<data_ptr[next][1], m - 1>>]
                         ELSE <<>>
    <3>1. Committed(tssd)' <=> Committed(next)'
      BY <1>1 DEF Committed, Distance
    <3> QED
      BY <1>1, <3>1 DEF GatheredSoFar
  <2>1. CASE ls[tssd] = 1
    <3>1. gather' = <<>>
      BY <1>3, <2>1
    <3>2. ASSUME Committed(next)' PROVE data_ptr[next][2] = 0
      <4>1. next # cur_index
        BY <1>2, <3>2
      <4>2. data_ptr[next] = <<data_ptr[next][1], 0>>
        BY <1>0, <1>2, <2>1, <4>1 DEF FrameInv, SegmentsFollow
      <4>3. PICK b : data_ptr[next] = <<b, 0>>
        BY <4>2
      <4> QED
        BY <4>3
    <3>3. CASE Committed(next)'
      <4>1. 1 .. data_ptr[next][2] = {}
        BY <3>2, <3>3
      <4> QED
        BY <3>1, <3>3, <4>1
    <3> QED
      BY <3>1, <3>3
  <2>2. CASE ls[tssd] # 1
    <3>1. next # cur_index /\ data_ptr[next] = <<s, k + 1>>
      BY <1>0, <1>2, <2>2 DEF FrameInv, SegmentsFollow
    <3>2. Committed(next)'
      BY <1>2, <3>1
    <3> QED
      BY <1>3, <2>2, <3>1, <3>2
  <2> QED
    BY <2>1, <2>2
<1>9. FramesEnd'
  <2> DEFINE begin == {i \in Slot : Committed(i) /\ fs[i] = 1}
             end   == {i \in Slot : Committed(i) /\ ls[i] = 1}
  <2>1. /\ {i \in Slot : Committed(i)' /\ fs'[i] = 1} = begin \ {tssd}
        /\ {i \in Slot : Committed(i)' /\ ls'[i] = 1} = end \ {tssd}
    BY <1>1, <1>2
  <2>2. IsFiniteSet(begin) /\ IsFiniteSet(end)
    <3>1. IsFiniteSet(Slot)
      BY FS_Interval DEF Slot
    <3> QED
      BY <3>1, FS_Subset
  <2>3. /\ Cardinality(begin \ {tssd}) = IF fs[tssd] = 1 THEN Cardinality(begin) - 1
                                         ELSE Cardinality(begin)
        /\ Cardinality(end \ {tssd}) = IF ls[tssd] = 1 THEN Cardinality(end) - 1
                                       ELSE Cardinality(end)
        /\ Cardinality(begin) \in Nat /\ Cardinality(end) \in Nat
    <3>1. /\ tssd \in begin <=> fs[tssd] = 1
          /\ tssd \in end <=> ls[tssd] = 1
      BY <1>2
    <3> HIDE DEF begin, end
    <3> QED
      BY <2>2, <3>1, FS_RemoveElement, FS_CardinalityType
  <2>4. Cardinality(end) = Cardinality(begin) + (IF gather = <<>> THEN 0 ELSE 1)
    BY DEF FrameInv, FramesEnd
  <2> HIDE DEF begin, end
  <2>5. Cardinality(end \ {tssd})
            = Cardinality(begin \ {tssd}) + (IF gather' = <<>> THEN 0 ELSE 1)
    BY <1>3, <1>7, <2>3, <2>4
  <2> QED
    BY <2>1, <2>5 DEF FramesEnd
<1> QED
  BY <1>4, <1>5, <1>6, <1>8, <1>9 DEF FrameInv

-----------------------------------------------------------------------------

LEMMA InitFrames == Init => FrameInv
<1> SUFFICES ASSUME Init PROVE FrameInv
  OBVIOUS
<1>1. 0 \in Slot /\ \A i \in Slot : ~Committed(i)
  BY DEF Init, Committed, Slot
<1>2. FlagsMatchSegment /\ SegmentsFollow
  BY <1>1 DEF FlagsMatchSegment, SegmentsFollow
<1>3. FramePrepared /\ StoppedWhileSending
  BY DEF Init, FramePrepared, StoppedWhileSending
<1>4. gather = <<>> /\ GatheredSoFar
  BY <1>1 DEF Init, GatheredSoFar
<1>5. FramesEnd
  <2>1. {i \in Slot : Committed(i) /\ fs[i] = 1} = {} /\ {i \in Slot : Committed(i) /\ ls[i] = 1} = {}
    BY <1>1
  <2>2. Cardinality({}) = 0
    BY FS_EmptySet
  <2>3. /\ Cardinality({i \in Slot : Committed(i) /\ fs[i] = 1}) = 0
        /\ Cardinality({i \in Slot : Committed(i) /\ ls[i] = 1}) = 0
    BY <2>1, <2>2
  <2>4. (IF gather = <<>> THEN 0 ELSE 1) = 0
    BY <1>4
  <2> QED
    BY <2>3, <2>4 DEF FramesEnd
<1> QED
  BY <1>2, <1>3, <1>4, <1>5 DEF FrameInv

LEMMA NextFrames == Inv /\ FrameInv /\ [Next]_vars => FrameInv'
<1> SUFFICES ASSUME Inv, FrameInv, [Next]_vars PROVE FrameInv'
  OBVIOUS
<1>1. ASSUME NEW s \in Skb, NEW n \in 0 .. MAX_SKB_FRAGS, AllocSkb(s, n) PROVE FrameInv'
  BY <1>1, AllocSkbFrames
<1>2. ASSUME NEW s \in Skb, SendStop(s) PROVE FrameInv'
  BY <1>2, SendStopFrames
<1>3. CASE SendBusy \/ SendStart \/ SendFree \/ SendReturn
  BY <1>3, SendQuietFrames
<1>4. CASE SendCheck
  BY <1>4, SendCheckFrames
<1>5. CASE SendFill
  BY <1>5, SendFillFrames
<1>6. CASE SendRelease
  BY <1>6, SendReleaseFrames
<1>7. CASE DmaFetch
  BY <1>7, DmaFetchFrames
<1>8. CASE DmaComplete
  BY <1>8, DmaCompleteFrames
<1>9. CASE UNCHANGED vars
  <2> USE <1>9 DEF vars, ringVars, hwVars, skbVars, sendVars
  <2>1. \A i \in Slot : Committed(i)' <=> Committed(i)
    BY DEF Committed, Distance
  <2>2. FlagsMatchSegment' /\ SegmentsFollow' /\ GatheredSoFar' /\ FramesEnd'
    BY <2>1, CommittedKept DEF Inv
  <2>3. FramePrepared' /\ StoppedWhileSending'
    BY DEF FrameInv, FramePrepared, StoppedWhileSending, Distance
  <2> QED
    BY <2>2, <2>3 DEF FrameInv
<1> QED
  BY <1>1, <1>2, <1>3, <1>4, <1>5, <1>6, <1>7, <1>8, <1>9 DEF Next, Send, Dma

\* The frames in the ring are whole: flags, segments, records and what the
\* engine has gathered agree, whatever the engine does while send_packet runs.
THEOREM FrameInvCorrect == Spec => [](TypeOK /\ RingInv /\ FrameInv)
<1>1. Init => Inv /\ FrameInv
  BY InitInv, InitFrames
<1>2. Inv /\ FrameInv /\ [Next]_vars => (Inv /\ FrameInv)'
  BY NextInv, NextFrames
<1>3. Inv <=> TypeOK /\ RingInv
  BY DEF Inv
<1> QED
  BY <1>1, <1>2, <1>3, PTL DEF Spec

\* The engine never finds half of a frame while it may fetch.
THEOREM WholeFramesWhileRunningCorrect == Spec => []WholeFramesWhileRunning
<1>1. FrameInv => WholeFramesWhileRunning
  <2> SUFFICES ASSUME FrameInv, dma
               PROVE  LET pending(flag) == Cardinality({i \in Slot : cown[i] = 0 /\ flag[i] = 1})
                      IN  pending(ls) = pending(fs) + (IF gather = <<>> THEN 0 ELSE 1)
    BY DEF WholeFramesWhileRunning
  <2>1. \A i \in Slot : Committed(i) <=> cown[i] = 0
    BY DEF FrameInv, StoppedWhileSending, Committed
  <2>2. /\ {i \in Slot : Committed(i) /\ fs[i] = 1} = {i \in Slot : cown[i] = 0 /\ fs[i] = 1}
        /\ {i \in Slot : Committed(i) /\ ls[i] = 1} = {i \in Slot : cown[i] = 0 /\ ls[i] = 1}
    BY <2>1
  <2> QED
    BY <2>2 DEF FrameInv, FramesEnd
<1> QED
  BY <1>1, FrameInvCorrect, PTL

-----------------------------------------------------------------------------
(* The order in which the engine reaches the slots of a set.               *)

LEMMA SlotsFinite ==
    ASSUME NEW S \in SUBSET Slot
    PROVE  IsFiniteSet(S) /\ Cardinality(S) \in 0 .. TFD_NUM
<1>1. IsFiniteSet(Slot) /\ Cardinality(Slot) = TFD_NUM
  BY FS_Interval DEF Slot
<1> QED
  BY <1>1, FS_Subset, FS_CardinalityType

\* The ranks of the slots of S are different numbers up to the size of S.
LEMMA RankRange ==
    ASSUME NEW S \in SUBSET Slot, NEW t \in Slot, NEW i \in S
    PROVE  Rank(S, t, i) \in 1 .. Cardinality(S)
<1> DEFINE A == {x \in S : Distance(t, x) <= Distance(t, i)}
<1>1. A \in SUBSET S /\ A \in SUBSET Slot
  OBVIOUS
<1>2. i \in A
  <2>1. Distance(t, i) \in 0 .. TFD_NUM - 1
    BY SlotArithmetic
  <2> QED
    BY <2>1
<1> HIDE DEF A
<1>3. Cardinality(A) <= Cardinality(S) /\ Cardinality(A) \in Nat /\ Cardinality(S) \in Nat
  BY <1>1, SlotsFinite, FS_Subset
<1>4. Cardinality(A) # 0
  BY <1>1, <1>2, SlotsFinite, FS_EmptySet
<1> QED
  BY <1>3, <1>4 DEF Rank, A

LEMMA RankLess ==
    ASSUME NEW S \in SUBSET Slot, NEW t \in Slot, NEW i \in S, NEW j \in S,
           Distance(t, i) < Distance(t, j)
    PROVE  Rank(S, t, i) # Rank(S, t, j)
<1> DEFINE A == {x \in S : Distance(t, x) <= Distance(t, i)}
           B == {x \in S : Distance(t, x) <= Distance(t, j)}
<1>1. \A x \in S : Distance(t, x) \in 0 .. TFD_NUM - 1
  BY SlotArithmetic
<1>2. A \in SUBSET B /\ j \in B /\ j \notin A
  BY <1>1
<1>3. IsFiniteSet(B)
  BY SlotsFinite
<1> HIDE DEF A, B
<1>4. Cardinality(A) # Cardinality(B)
  BY <1>2, <1>3, FS_Subset
<1> QED
  BY <1>4 DEF Rank, A, B

LEMMA RankDistinct ==
    ASSUME NEW S \in SUBSET Slot, NEW t \in Slot, NEW i \in S, NEW j \in S, i # j
    PROVE  Rank(S, t, i) # Rank(S, t, j)
<1>1. Distance(t, i) # Distance(t, j) /\ Distance(t, i) \in Int /\ Distance(t, j) \in Int
  BY DEF Slot, Distance
<1>2. CASE Distance(t, i) < Distance(t, j)
  BY <1>2, RankLess
<1>3. CASE Distance(t, j) < Distance(t, i)
  BY <1>3, RankLess
<1> QED
  BY <1>1, <1>2, <1>3

\* The slot of a rank is the one that has it.
LEMMA NthIs ==
    ASSUME NEW S \in SUBSET Slot, NEW t \in Slot, NEW i \in S, NEW k, Rank(S, t, i) = k
    PROVE  Nth(S, t, k) = i
<1>1. Nth(S, t, k) \in S /\ Rank(S, t, Nth(S, t, k)) = k
  BY DEF Nth
<1> QED
  BY <1>1, RankDistinct

\* There is a slot of every rank.
LEMMA NthRank ==
    ASSUME NEW S \in SUBSET Slot, NEW t \in Slot, NEW k \in 1 .. Cardinality(S)
    PROVE  Nth(S, t, k) \in S /\ Rank(S, t, Nth(S, t, k)) = k
<1> DEFINE T == 1 .. Cardinality(S)
           r == [i \in S |-> Rank(S, t, i)]
<1>1. IsFiniteSet(T) /\ Cardinality(T) = Cardinality(S)
  <2>1. Cardinality(S) \in Nat /\ 1 \in Int
    BY SlotsFinite
  <2>2. IsFiniteSet(1 .. Cardinality(S))
        /\ Cardinality(1 .. Cardinality(S)) = IF 1 > Cardinality(S) THEN 0
                                              ELSE Cardinality(S) - 1 + 1
    BY <2>1, FS_Interval
  <2> QED
    BY <2>1, <2>2
<1>2. r \in Injection(S, T)
  <2>1. r \in [S -> T]
    BY RankRange
  <2>2. \A i, j \in S : r[i] = r[j] => i = j
    BY RankDistinct
  <2> HIDE DEF r, T
  <2> QED
    BY <2>1, <2>2 DEF Injection, IsInjective
<1>3. r \in Surjection(S, T)
  <2> HIDE DEF r, T
  <2> QED
    BY <1>1, <1>2, FS_Injection
<1>4. \E i \in S : Rank(S, t, i) = k
  <2>1. k \in T
    OBVIOUS
  <2>2. \E i \in S : r[i] = k
    <3> HIDE DEF r, T
    <3> QED
      BY <1>3, <2>1 DEF Surjection
  <2> QED
    BY <2>2
<1> QED
  BY <1>4 DEF Nth

\* A slot that the engine reaches after those of S comes last.
LEMMA NthAppend ==
    ASSUME NEW S \in SUBSET Slot, NEW t \in Slot, NEW x \in Slot,
           \A j \in S : Distance(t, j) < Distance(t, x)
    PROVE  /\ Cardinality(S \cup {x}) = Cardinality(S) + 1
           /\ Nth(S \cup {x}, t, Cardinality(S) + 1) = x
           /\ \A k \in 1 .. Cardinality(S) : Nth(S \cup {x}, t, k) = Nth(S, t, k)
<1>1. /\ \A j \in Slot : Distance(t, j) \in 0 .. TFD_NUM - 1
      /\ x \notin S
  BY SlotArithmetic
<1>2. S \cup {x} \in SUBSET Slot /\ Cardinality(S) \in Nat
  BY SlotsFinite
<1>3. Cardinality(S \cup {x}) = Cardinality(S) + 1
  BY <1>1, SlotsFinite, FS_AddElement
<1>4. Rank(S \cup {x}, t, x) = Cardinality(S) + 1
  <2>1. {j \in S \cup {x} : Distance(t, j) <= Distance(t, x)} = S \cup {x}
    BY <1>1
  <2> QED
    BY <1>3, <2>1 DEF Rank
<1>5. ASSUME NEW k \in 1 .. Cardinality(S) PROVE Nth(S \cup {x}, t, k) = Nth(S, t, k)
  <2>1. PICK y \in S : y = Nth(S, t, k) /\ Rank(S, t, y) = k
    BY NthRank
  <2>2. {j \in S \cup {x} : Distance(t, j) <= Distance(t, y)}
            = {j \in S : Distance(t, j) <= Distance(t, y)}
    BY <1>1
  <2>3. Rank(S \cup {x}, t, y) = k
    BY <2>1, <2>2 DEF Rank
  <2> QED
    BY <1>2, <2>1, <2>3, NthIs
<1>6. Nth(S \cup {x}, t, Cardinality(S) + 1) = x
  BY <1>2, <1>4, NthIs
<1> QED
  BY <1>3, <1>5, <1>6

\* When the engine moves on, the slot it leaves was the first.
LEMMA NthTail ==
    ASSUME NEW S \in SUBSET Slot, NEW t \in S
    PROVE  /\ Cardinality(S) > 0 /\ Cardinality(S \ {t}) = Cardinality(S) - 1
           /\ Nth(S, t, 1) = t
           /\ \A k \in 1 .. Cardinality(S) - 1 : Nth(S \ {t}, NextSlot(t), k) = Nth(S, t, k + 1)
<1>1. /\ \A j \in Slot : Distance(t, j) \in 0 .. TFD_NUM - 1
      /\ \A j \in Slot : j # t => Distance(NextSlot(t), j) = Distance(t, j) - 1
      /\ \A j \in Slot : Distance(t, j) = 0 => j = t
      /\ Distance(t, t) = 0 /\ NextSlot(t) \in Slot /\ t \in Slot
  BY SlotArithmetic, DistanceStep
<1>2. /\ S \ {t} \in SUBSET Slot /\ Cardinality(S) \in Nat /\ Cardinality(S \ {t}) \in Nat
      /\ Cardinality(S \ {t}) = Cardinality(S) - 1
  BY SlotsFinite, FS_RemoveElement
<1>3. Rank(S, t, t) = 1
  <2>1. {j \in S : Distance(t, j) <= Distance(t, t)} = {t}
    BY <1>1
  <2> QED
    BY <2>1, FS_Singleton DEF Rank
<1>4. Nth(S, t, 1) = t
  BY <1>1, <1>3, NthIs
<1>5. ASSUME NEW k \in 1 .. Cardinality(S) - 1
      PROVE  Nth(S \ {t}, NextSlot(t), k) = Nth(S, t, k + 1)
  <2>1. k + 1 \in 1 .. Cardinality(S) /\ k + 1 # 1 /\ k \in Int
    BY <1>2
  <2>2. PICK y \in S : y = Nth(S, t, k + 1) /\ Rank(S, t, y) = k + 1
    BY <1>1, <2>1, NthRank
  <2>3. y # t
    BY <1>3, <2>1, <2>2
  <2> DEFINE A == {j \in S : Distance(t, j) <= Distance(t, y)}
  <2>4. {j \in S \ {t} : Distance(NextSlot(t), j) <= Distance(NextSlot(t), y)} = A \ {t}
    BY <1>1, <2>3
  <2>5. Cardinality(A \ {t}) = Cardinality(A) - 1 /\ Cardinality(A) = k + 1
    <3>1. IsFiniteSet(A) /\ t \in A
      BY <1>1, SlotsFinite
    <3>2. Cardinality(A) = k + 1
      BY <2>2 DEF Rank
    <3> HIDE DEF A
    <3> QED
      BY <3>1, <3>2, FS_RemoveElement
  <2>6. Rank(S \ {t}, NextSlot(t), y) = k
    <3>1. Cardinality(A \ {t}) = k
      <4> HIDE DEF A
      <4> QED
        BY <2>1, <2>5
    <3> QED
      BY <2>4, <3>1 DEF Rank
  <2> QED
    BY <1>1, <1>2, <2>2, <2>3, <2>6, NthIs
<1> QED
  BY <1>2, <1>4, <1>5

\* When the engine moves on from a slot that is not in S, the order stays.
LEMMA NthSkip ==
    ASSUME NEW S \in SUBSET Slot, NEW t \in Slot, t \notin S
    PROVE  \A k \in 1 .. Cardinality(S) : Nth(S, NextSlot(t), k) = Nth(S, t, k)
<1>1. /\ \A j \in Slot : Distance(t, j) \in 0 .. TFD_NUM - 1
      /\ \A j \in Slot : j # t => Distance(NextSlot(t), j) = Distance(t, j) - 1
      /\ NextSlot(t) \in Slot
  BY SlotArithmetic, DistanceStep
<1> SUFFICES ASSUME NEW k \in 1 .. Cardinality(S) PROVE Nth(S, NextSlot(t), k) = Nth(S, t, k)
  OBVIOUS
<1>2. PICK y \in S : y = Nth(S, t, k) /\ Rank(S, t, y) = k
  BY NthRank
<1>3. {j \in S : Distance(NextSlot(t), j) <= Distance(NextSlot(t), y)}
          = {j \in S : Distance(t, j) <= Distance(t, y)}
  BY <1>1
<1>4. Rank(S, NextSlot(t), y) = k
  BY <1>2, <1>3 DEF Rank
<1> QED
  BY <1>1, <1>2, <1>4, NthIs

-----------------------------------------------------------------------------
(* The queue of frames.                                                    *)

\* Two functions on an interval that differ by one element at the end, or at the
\* beginning, as sequences.
LEMMA Appended ==
    ASSUME NEW S, NEW n \in Nat, NEW g \in [1 .. n -> S], NEW h \in [1 .. n + 1 -> S],
           \A k \in 1 .. n : h[k] = g[k]
    PROVE  Len(g) = n /\ h = Append(g, h[n + 1])
<1>1. g \in Seq(S) /\ Len(g) = n /\ h \in Seq(S) /\ Len(h) = n + 1
  OBVIOUS
<1>2. Append(g, h[n + 1]) \in Seq(S) /\ Len(Append(g, h[n + 1])) = n + 1
  BY <1>1
<1>3. \A k \in 1 .. n + 1 : h[k] = Append(g, h[n + 1])[k]
  BY <1>1
<1> QED
  BY <1>1, <1>2, <1>3, SeqEqual

LEMMA TakenOff ==
    ASSUME NEW S, NEW n \in Nat \ {0}, NEW g \in [1 .. n -> S], NEW h \in [1 .. n - 1 -> S],
           \A k \in 1 .. n - 1 : h[k] = g[k + 1]
    PROVE  g # <<>> /\ Head(g) = g[1] /\ h = Tail(g)
<1>1. g \in Seq(S) /\ Len(g) = n /\ h \in Seq(S) /\ Len(h) = n - 1
  OBVIOUS
<1>2. g # <<>> /\ Tail(g) \in Seq(S) /\ Len(Tail(g)) = n - 1 /\ Head(g) = g[1]
  BY <1>1
<1>3. \A k \in 1 .. n - 1 : h[k] = Tail(g)[k]
  BY <1>1
<1> QED
  BY <1>1, <1>2, <1>3, SeqEqual

LEMMA QueuedNext ==
    ASSUME NEW L, L = LastSlots', NEW t, t = tssd'
    PROVE  Queued' = [k \in 1 .. Cardinality(L) |->
                        [m \in 1 .. nr_frags'[skb_ptr'[Nth(L, t, k)]] + 1 |->
                            <<skb_ptr'[Nth(L, t, k)], m - 1>>]]
BY DEF Queued, FrameOf, Nth, Rank, Distance

\* The frames of the abstract queue.
FrameSet == {[k \in 1 .. n + 1 |-> <<s, k - 1>>] : s \in Skb, n \in 0 .. MAX_SKB_FRAGS}

\* The last slot of a queued frame is the engine's and records its buffer.
LEMMA LastSlotsFacts ==
    ASSUME TypeOK, FrameInv
    PROVE  /\ LastSlots \in SUBSET Slot
           /\ Cardinality(LastSlots) \in Nat
           /\ \A i \in LastSlots : /\ skb_ptr[i] \in Skb /\ nr_frags[skb_ptr[i]] \in 0 .. MAX_SKB_FRAGS
                                   /\ skb_ptr[i] = data_ptr[i][1]
                                   /\ data_ptr[i][2] = nr_frags[skb_ptr[i]]
                                   /\ FrameOf(skb_ptr[i]) \in FrameSet
           /\ \A k \in 1 .. Cardinality(LastSlots) : Nth(LastSlots, tssd, k) \in LastSlots
<1>1. LastSlots \in SUBSET Slot /\ tssd \in Slot
  BY DEF LastSlots, TypeOK
<1>2. ASSUME NEW i \in LastSlots
      PROVE  /\ skb_ptr[i] \in Skb /\ nr_frags[skb_ptr[i]] \in 0 .. MAX_SKB_FRAGS
             /\ skb_ptr[i] = data_ptr[i][1] /\ data_ptr[i][2] = nr_frags[skb_ptr[i]]
  <2>1. i \in Slot /\ Committed(i) /\ ls[i] = 1
    BY DEF LastSlots, Committed
  <2> QED
    BY <2>1 DEF TypeOK, FrameInv, FlagsMatchSegment
<1>3. \A i \in LastSlots : FrameOf(skb_ptr[i]) \in FrameSet
  BY <1>2 DEF FrameOf, FrameSet
<1> QED
  BY <1>1, <1>2, <1>3, SlotsFinite, NthRank

LEMMA QueuedType ==
    TypeOK /\ FrameInv => Queued \in [1 .. Cardinality(LastSlots) -> FrameSet]
BY LastSlotsFacts DEF Queued

LEMMA QueuedTypeNext ==
    (TypeOK /\ FrameInv => Queued \in [1 .. Cardinality(LastSlots) -> FrameSet])'
BY QueuedType, PTL

\* A step that neither adds nor removes a last slot keeps the queue.
LEMMA QueueKept ==
    ASSUME TypeOK, FrameInv, LastSlots' = LastSlots,
           tssd' = tssd \/ (tssd' = NextSlot(tssd) /\ tssd \notin LastSlots),
           \A i \in LastSlots : /\ skb_ptr'[i] = skb_ptr[i]
                                /\ nr_frags'[skb_ptr[i]] = nr_frags[skb_ptr[i]]
    PROVE  Queued' = Queued
<1>1. PICK L \in SUBSET Slot : L = LastSlots
  BY LastSlotsFacts
<1>2. PICK t : t = tssd'
  OBVIOUS
<1>3. ASSUME NEW k \in 1 .. Cardinality(L) PROVE Nth(L, t, k) = Nth(L, tssd, k)
  <2>1. tssd \in Slot
    BY DEF TypeOK
  <2> QED
    BY <1>1, <1>2, <2>1, NthSkip
<1>4. Queued' = [k \in 1 .. Cardinality(L) |->
                   [m \in 1 .. nr_frags'[skb_ptr'[Nth(L, t, k)]] + 1 |->
                       <<skb_ptr'[Nth(L, t, k)], m - 1>>]]
  BY <1>1, <1>2, QueuedNext
<1>5. Queued = [k \in 1 .. Cardinality(L) |-> FrameOf(skb_ptr[Nth(L, tssd, k)])]
  BY <1>1 DEF Queued
<1>6. ASSUME NEW k \in 1 .. Cardinality(L)
      PROVE  [m \in 1 .. nr_frags'[skb_ptr'[Nth(L, t, k)]] + 1 |-> <<skb_ptr'[Nth(L, t, k)], m - 1>>]
                 = FrameOf(skb_ptr[Nth(L, tssd, k)])
  <2>1. PICK y \in L : y = Nth(L, t, k) /\ y = Nth(L, tssd, k)
    BY <1>1, <1>3, LastSlotsFacts
  <2> QED
    BY <1>1, <2>1 DEF FrameOf
<1> QED
  BY <1>4, <1>5, <1>6

\* Handing the last segment to the engine puts the frame behind the others.
LEMMA AcceptStep ==
    ASSUME Inv, FrameInv, Inv', FrameInv', SendRelease, f = nr_frags[skb]
    PROVE  /\ Len(Queued) < TFD_NUM
           /\ FrameOf(skb) \in FrameSet
           /\ Queued' = Append(Queued, FrameOf(skb))
<1>1. /\ pc = "release" /\ cown' = [cown EXCEPT ![index] = 0]
      /\ UNCHANGED <<ls, skb_ptr, nr_frags, tssd>>
  BY DEF SendRelease, hwVars, skbVars
<1>2. /\ index \in Slot /\ tssd \in Slot /\ cown \in [Slot -> {0, 1}] /\ skb \in Skb
      /\ nr_frags[skb] \in 0 .. MAX_SKB_FRAGS /\ cown[index] = 1 /\ TypeOK /\ TypeOK'
      /\ skb_ptr \in [Slot -> Skb \cup {NULL}]
  BY <1>1 DEF Inv, TypeOK, RingInv, SlotsForFrame
<1>3. ls[index] = 1 /\ skb_ptr[index] = skb
  <2>1. Distance(index, index) = 0
    BY <1>2, SlotArithmetic
  <2>2. Distance(index, index) <= nr_frags[skb] - f /\ f + Distance(index, index) = nr_frags[skb]
    BY <1>2, <2>1
  <2>3. Committed(index) /\ data_ptr[index] = <<skb, nr_frags[skb]>>
    BY <1>1, <1>2, <2>2 DEF FrameInv, FramePrepared, Committed
  <2> QED
    BY <1>2, <2>3 DEF FrameInv, FlagsMatchSegment
<1>4. LastSlots \in SUBSET Slot /\ index \notin LastSlots /\ LastSlots' = LastSlots \cup {index}
  BY <1>1, <1>2, <1>3 DEF LastSlots
<1>5. \A j \in LastSlots : Distance(tssd, j) < Distance(tssd, index)
  BY <1>1, <1>2 DEF Inv, RingInv, EngineWindow, Released, LastSlots
<1>6. PICK S \in SUBSET Slot : S = LastSlots
  BY <1>4
<1> DEFINE n == Cardinality(S)
           L == S \cup {index}
<1>7. /\ Cardinality(L) = n + 1 /\ Nth(L, tssd, n + 1) = index
      /\ \A k \in 1 .. n : Nth(L, tssd, k) = Nth(S, tssd, k)
  BY <1>2, <1>5, <1>6, NthAppend
<1>8. Queued' = [k \in 1 .. n + 1 |->
                   [m \in 1 .. nr_frags[skb_ptr[Nth(L, tssd, k)]] + 1 |->
                       <<skb_ptr[Nth(L, tssd, k)], m - 1>>]]
  <2>1. PICK M : M = L
    OBVIOUS
  <2>2. PICK t : t = tssd
    OBVIOUS
  <2>3. M = LastSlots' /\ t = tssd' /\ Cardinality(M) = n + 1
    BY <1>1, <1>4, <1>6, <1>7, <2>1, <2>2
  <2>4. Queued' = [k \in 1 .. Cardinality(M) |->
                     [m \in 1 .. nr_frags'[skb_ptr'[Nth(M, t, k)]] + 1 |->
                         <<skb_ptr'[Nth(M, t, k)], m - 1>>]]
    BY <2>3, QueuedNext
  <2> QED
    BY <1>1, <2>1, <2>2, <2>3, <2>4
<1>9. n \in Nat /\ Queued \in [1 .. n -> FrameSet] /\ Queued' \in [1 .. n + 1 -> FrameSet]
  BY <1>2, <1>4, <1>6, <1>7, LastSlotsFacts, QueuedType, QueuedTypeNext
<1>10. \A k \in 1 .. n : Queued'[k] = Queued[k]
  <2>1. Queued = [k \in 1 .. n |-> FrameOf(skb_ptr[Nth(S, tssd, k)])]
    BY <1>6 DEF Queued
  <2> SUFFICES ASSUME NEW k \in 1 .. n PROVE Queued'[k] = Queued[k]
    OBVIOUS
  <2> HIDE DEF n, L
  <2>2. k \in 1 .. n + 1 /\ Nth(L, tssd, k) = Nth(S, tssd, k)
    BY <1>7, <1>9
  <2>3. Queued'[k] = FrameOf(skb_ptr[Nth(L, tssd, k)])
    BY <1>8, <2>2 DEF FrameOf
  <2> QED
    BY <2>1, <2>2, <2>3
<1>11. Queued'[n + 1] = FrameOf(skb)
  <2>1. n + 1 \in 1 .. n + 1
    BY <1>9
  <2> HIDE DEF n, L
  <2> QED
    BY <1>3, <1>7, <1>8, <2>1 DEF FrameOf
<1>12. n < TFD_NUM
  <2>1. L \in SUBSET Slot
    BY <1>2
  <2>2. Cardinality(L) \in 0 .. TFD_NUM
    BY <2>1, SlotsFinite
  <2> QED
    BY <1>7, <1>9, <2>2
<1>13. FrameOf(skb) \in FrameSet
  BY <1>2 DEF FrameOf, FrameSet
<1> HIDE DEF n, L
<1> QED
  BY <1>9, <1>10, <1>11, <1>12, <1>13, Appended

\* Taking back the last segment sends the frame that was first.
LEMMA TransmitStep ==
    ASSUME Inv, FrameInv, Inv', FrameInv', DmaComplete, ls[tssd] = 1
    PROVE  Queued # <<>> /\ wire' = Head(Queued) /\ Queued' = Tail(Queued)
<1>1. /\ cown' = [cown EXCEPT ![tssd] = 1] /\ tssd' = NextSlot(tssd)
      /\ UNCHANGED <<ls, skb_ptr, nr_frags>>
  BY DEF DmaComplete, skbVars
<1>2. /\ tssd \in Slot /\ cown \in [Slot -> {0, 1}] /\ cown[tssd] = 0 /\ TypeOK /\ TypeOK'
  BY DEF Inv, TypeOK, RingInv, EngineWindow, DmaComplete
<1>3. /\ LastSlots \in SUBSET Slot /\ tssd \in LastSlots /\ LastSlots' = LastSlots \ {tssd}
  BY <1>1, <1>2 DEF LastSlots
<1>4. wire' = FrameOf(skb_ptr[tssd])
  <2>1. wire' = [m \in 1 .. data_ptr[tssd][2] + 1 |-> <<data_ptr[tssd][1], m - 1>>]
    BY DmaCompleteFrame DEF DmaComplete
  <2>2. skb_ptr[tssd] = data_ptr[tssd][1] /\ data_ptr[tssd][2] = nr_frags[skb_ptr[tssd]]
    BY <1>2, <1>3, LastSlotsFacts
  <2> QED
    BY <2>1, <2>2 DEF FrameOf
<1>5. PICK S \in SUBSET Slot : S = LastSlots
  BY <1>3
<1>6. PICK t \in S : t = tssd
  BY <1>3, <1>5
<1> DEFINE n == Cardinality(S)
           L == S \ {t}
           u == NextSlot(t)
<1>7. /\ n \in Nat \ {0} /\ Cardinality(L) = n - 1 /\ Nth(S, t, 1) = t
      /\ \A k \in 1 .. n - 1 : Nth(L, u, k) = Nth(S, t, k + 1)
  <2>1. n \in Nat
    BY SlotsFinite
  <2> QED
    BY <2>1, NthTail
<1>8. Queued = [k \in 1 .. n |-> FrameOf(skb_ptr[Nth(S, t, k)])]
  BY <1>5, <1>6 DEF Queued
<1>9. Queued' = [k \in 1 .. n - 1 |->
                   [m \in 1 .. nr_frags[skb_ptr[Nth(L, u, k)]] + 1 |->
                       <<skb_ptr[Nth(L, u, k)], m - 1>>]]
  <2>1. PICK M : M = L
    OBVIOUS
  <2>2. PICK v : v = u
    OBVIOUS
  <2>3. M = LastSlots' /\ v = tssd' /\ Cardinality(M) = n - 1
    BY <1>1, <1>3, <1>5, <1>6, <1>7, <2>1, <2>2
  <2>4. Queued' = [k \in 1 .. Cardinality(M) |->
                     [m \in 1 .. nr_frags'[skb_ptr'[Nth(M, v, k)]] + 1 |->
                         <<skb_ptr'[Nth(M, v, k)], m - 1>>]]
    BY <2>3, QueuedNext
  <2> QED
    BY <1>1, <2>1, <2>2, <2>3, <2>4
<1>10. Queued \in [1 .. n -> FrameSet] /\ Queued' \in [1 .. n - 1 -> FrameSet]
  BY <1>2, <1>3, <1>5, <1>6, <1>7, QueuedType, QueuedTypeNext
<1>11. ASSUME NEW k \in 1 .. n - 1 PROVE Queued'[k] = Queued[k + 1]
  <2> HIDE DEF n, L, u
  <2>1. k + 1 \in 1 .. n /\ Nth(L, u, k) = Nth(S, t, k + 1)
    BY <1>7
  <2>2. Queued'[k] = FrameOf(skb_ptr[Nth(L, u, k)])
    BY <1>9 DEF FrameOf
  <2> QED
    BY <1>8, <2>1, <2>2
<1>12. Queued[1] = FrameOf(skb_ptr[tssd])
  <2>1. 1 \in 1 .. n
    BY <1>7
  <2> HIDE DEF n
  <2> QED
    BY <1>6, <1>7, <1>8, <2>1
<1> HIDE DEF n, L, u
<1> QED
  BY <1>4, <1>7, <1>10, <1>11, <1>12, TakenOff

\* The ring and the engine implement a bounded first-in first-out queue of
\* frames.
THEOREM ImplementsFifoCorrect == Spec => ImplementsFifo
<1> DEFINE fifoVars == <<Queued, wire>>
<1>1. Init => Fifo!Init
  <2> SUFFICES ASSUME Init PROVE Fifo!Init
    OBVIOUS
  <2>1. LastSlots = {}
    BY DEF Init, LastSlots
  <2>2. Cardinality(LastSlots) = 0
    BY <2>1, FS_EmptySet
  <2>3. Queued = <<>>
    BY <2>2 DEF Queued
  <2> QED
    BY <2>3 DEF Init, Fifo!Init
<1>2. ASSUME Inv, FrameInv, Inv', FrameInv', [Next]_vars
      PROVE  [Fifo!Next]_fifoVars
  <2> USE <1>2
  <2>1. TypeOK /\ tssd \in Slot /\ cown \in [Slot -> {0, 1}]
    BY DEF Inv, TypeOK
  <2>2. ASSUME UNCHANGED <<cown, ls, skb_ptr, nr_frags, tssd, wire>> PROVE UNCHANGED fifoVars
    <3>1. LastSlots' = LastSlots
      BY <2>2 DEF LastSlots
    <3>2. Queued' = Queued
      BY <2>1, <2>2, <3>1, QueueKept
    <3> QED
      BY <2>2, <3>2
  <2>3. ASSUME NEW s \in Skb, NEW n \in 0 .. MAX_SKB_FRAGS, AllocSkb(s, n) PROVE UNCHANGED fifoVars
    <3>1. /\ UNCHANGED <<cown, ls, skb_ptr, tssd, wire>> /\ holder[s] = "nobody"
          /\ nr_frags' = [nr_frags EXCEPT ![s] = n] /\ nr_frags \in [Skb -> 0 .. MAX_SKB_FRAGS]
      BY <2>1, <2>3 DEF AllocSkb, ringVars, hwVars, TypeOK
    <3>2. LastSlots' = LastSlots
      BY <3>1 DEF LastSlots
    <3>3. ASSUME NEW i \in LastSlots PROVE nr_frags'[skb_ptr[i]] = nr_frags[skb_ptr[i]]
      <4>1. i \in Slot /\ skb_ptr[i] \in Skb
        BY <2>1, LastSlotsFacts
      <4>2. skb_ptr[i] # s
        BY <3>1, <4>1 DEF Inv, RingInv, Records
      <4> QED
        BY <3>1, <4>1, <4>2
    <3>4. Queued' = Queued
      BY <2>1, <3>1, <3>2, <3>3, QueueKept
    <3> QED
      BY <3>1, <3>4
  <2>4. ASSUME NEW s \in Skb, SendStop(s) PROVE UNCHANGED fifoVars
    BY <2>2, <2>4 DEF SendStop, ringVars, skbVars
  <2>5. CASE SendBusy \/ SendStart \/ SendFree \/ SendReturn \/ DmaFetch \/ UNCHANGED vars
    BY <2>2, <2>5 DEF SendBusy, SendStart, SendFree, SendReturn, DmaFetch, vars, ringVars,
                      hwVars, skbVars
  <2>6. CASE SendCheck
    <3>1. /\ cown[index] = 1 /\ UNCHANGED <<cown, skb_ptr, nr_frags, tssd, wire>>
          /\ ls' = [ls EXCEPT ![index] = IF f = nr_frags[skb] THEN 1 ELSE 0]
          /\ ls \in [Slot -> {0, 1}]
      BY <2>1, <2>6 DEF SendCheck, hwVars, skbVars, TypeOK
    <3>2. LastSlots' = LastSlots
      BY <2>1, <3>1 DEF LastSlots
    <3>3. Queued' = Queued
      BY <2>1, <3>1, <3>2, QueueKept
    <3> QED
      BY <3>1, <3>3
  <2>7. CASE SendFill
    <3>1. UNCHANGED <<cown, ls, nr_frags, tssd, wire>>
      BY <2>7 DEF SendFill, hwVars
    <3>2. LastSlots' = LastSlots
      BY <3>1 DEF LastSlots
    <3>3. ASSUME NEW i \in LastSlots PROVE skb_ptr'[i] = skb_ptr[i]
      <4>1. i \in Slot /\ cown[i] = 0
        BY DEF LastSlots
      <4>2. /\ cur_index \in Slot /\ nr_frags[skb] \in Int /\ f = nr_frags[skb] + 1
            /\ Distance(cur_index, i) \in 0 .. TFD_NUM - 1
        BY <2>1, <2>7, <4>1, SlotArithmetic DEF Inv, TypeOK, RingInv, LoopPosition, SendFill
      <4>3. ~(Distance(cur_index, i) < f)
        BY <2>7, <4>1 DEF Inv, RingInv, SlotsForFrame, SendFill
      <4>4. ~(Distance(cur_index, i) < nr_frags[skb]) /\ Distance(cur_index, i) # nr_frags[skb]
        BY <4>2, <4>3
      <4> QED
        BY <2>7, <4>1, <4>4 DEF SendFill
    <3>4. Queued' = Queued
      BY <2>1, <3>1, <3>2, <3>3, QueueKept
    <3> QED
      BY <3>1, <3>4
  <2>8. CASE SendRelease
    <3>1. CASE f = nr_frags[skb]
      <4>1. wire' = wire
        BY <2>8 DEF SendRelease, hwVars
      <4>2. Fifo!Accept(FrameOf(skb))
        BY <2>8, <3>1, <4>1, AcceptStep DEF Fifo!Accept
      <4>3. FrameOf(skb) \in FrameSet
        BY <2>8, <3>1, AcceptStep
      <4> QED
        BY <4>2, <4>3 DEF Fifo!Next, FrameSet
    <3>2. CASE f # nr_frags[skb]
      <4>1. /\ pc = "release" /\ cown' = [cown EXCEPT ![index] = 0] /\ index \in Slot
            /\ UNCHANGED <<ls, skb_ptr, nr_frags, tssd, wire>>
        BY <2>1, <2>8 DEF SendRelease, hwVars, skbVars, TypeOK
      <4>2. ls[index] # 1
        <5>1. /\ Distance(index, index) = 0 /\ skb \in Skb /\ f <= nr_frags[skb]
              /\ f \in Int /\ nr_frags[skb] \in Int
          BY <2>1, <4>1, SlotArithmetic DEF Inv, TypeOK, RingInv, LoopPosition
        <5>2. Distance(index, index) <= nr_frags[skb] - f
          BY <5>1
        <5>3. Committed(index) /\ data_ptr[index] = <<skb, f + 0>>
          BY <4>1, <5>1, <5>2 DEF FrameInv, FramePrepared, Committed
        <5> QED
          BY <3>2, <4>1, <5>1, <5>3 DEF FrameInv, FlagsMatchSegment
      <4>3. LastSlots' = LastSlots
        BY <2>1, <4>1, <4>2 DEF LastSlots
      <4>4. Queued' = Queued
        BY <2>1, <4>1, <4>3, QueueKept
      <4> QED
        BY <4>1, <4>4
    <3> QED
      BY <3>1, <3>2
  <2>9. CASE DmaComplete
    <3>1. CASE ls[tssd] = 1
      <4>1. Fifo!Transmit
        BY <2>9, <3>1, TransmitStep DEF Fifo!Transmit
      <4> QED
        BY <4>1 DEF Fifo!Next
    <3>2. CASE ls[tssd] # 1
      <4>1. /\ cown' = [cown EXCEPT ![tssd] = 1] /\ tssd' = NextSlot(tssd) /\ wire' = wire
            /\ UNCHANGED <<ls, skb_ptr, nr_frags>>
        BY <2>9, <3>2 DEF DmaComplete, skbVars
      <4>2. LastSlots' = LastSlots /\ tssd \notin LastSlots
        BY <2>1, <3>2, <4>1 DEF LastSlots
      <4>3. Queued' = Queued
        BY <2>1, <4>1, <4>2, QueueKept
      <4> QED
        BY <4>1, <4>3
    <3> QED
      BY <3>1, <3>2
  <2> QED
    BY <2>3, <2>4, <2>5, <2>6, <2>7, <2>8, <2>9 DEF Next, Send, Dma
<1>3. Spec => [](Inv /\ FrameInv)
  <2>1. TypeOK /\ RingInv /\ FrameInv => Inv /\ FrameInv
    BY DEF Inv
  <2> QED
    BY <2>1, FrameInvCorrect, PTL
<1> QED
  BY <1>1, <1>2, <1>3, PTL DEF Spec, ImplementsFifo, Fifo!Spec

=============================================================================
