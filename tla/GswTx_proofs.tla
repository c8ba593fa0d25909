---------------------------- MODULE GswTx_proofs ----------------------------
(***************************************************************************)
(* Proofs about the transmit path, for every ring size, every bound on the *)
(* fragments of a buffer and every set of buffers.                         *)
(***************************************************************************)
EXTENDS GswTx, FiniteSetTheorems, TLAPS

USE TxAssumption

\* The index arithmetic stays inside the ring.
LEMMA SlotArithmetic ==
    ASSUME NEW i \in Slot, NEW j \in Slot
    PROVE  /\ NextSlot(i) \in Slot
           /\ Distance(i, j) \in 0 .. TFD_NUM - 1
           /\ Distance(i, i) = 0
           /\ Distance(i, j) = 0 => i = j
           /\ NextSlot(i) = Plus(i, 1)
           /\ Plus(i, 0) = i
BY DEF Slot, NextSlot, Distance, Plus

\* What a step of either index does to the distance between two slots.
LEMMA DistanceStep ==
    ASSUME NEW i \in Slot, NEW j \in Slot
    PROVE  /\ i # j => Distance(NextSlot(i), j) = Distance(i, j) - 1
           /\ Distance(i, j) + 1 < TFD_NUM => Distance(i, NextSlot(j)) = Distance(i, j) + 1
           /\ Distance(i, j) + 1 = TFD_NUM => NextSlot(j) = i
           /\ i # j => Distance(i, j) + Distance(j, i) = TFD_NUM
BY DEF Slot, NextSlot, Distance

\* Plus goes forward by the distance asked for.
LEMMA PlusDistance ==
    ASSUME NEW i \in Slot, NEW j \in Slot, NEW k \in 0 .. TFD_NUM
    PROVE  /\ Plus(i, k) \in Slot
           /\ k < TFD_NUM => NextSlot(Plus(i, k)) = Plus(i, k + 1)
           /\ k > 0 => Plus(NextSlot(i), k - 1) = Plus(i, k)
           /\ k < TFD_NUM => Distance(i, Plus(i, k)) = k
           /\ Distance(i, j) = k => Plus(i, k) = j
           /\ Distance(j, i) + k < TFD_NUM => Distance(j, Plus(i, k)) = Distance(j, i) + k
BY DEF Slot, NextSlot, Distance, Plus

Inv == TypeOK /\ RingInv

\* The stack makes a buffer: it was nobody's, so no slot and no call has it.
LEMMA AllocSkbInv ==
    ASSUME Inv, NEW s \in Skb, NEW n \in 0 .. MAX_SKB_FRAGS, AllocSkb(s, n)
    PROVE  Inv'
<1> USE DEF Inv, TypeOK, AllocSkb, ringVars, hwVars, sendVars
<1>1. TypeOK'
  OBVIOUS
<1>2. \A i \in Slot : skb_ptr[i] # s
  BY DEF RingInv, Records
<1>3. pc \in {"check", "fill", "release"} => skb # s /\ nr_frags'[skb] = nr_frags[skb]
  <2>1. CASE pc \in {"check", "fill"}
    BY <2>1 DEF RingInv, Records
  <2>2. CASE pc = "release"
    <3>1. nr_frags[skb] - f \in 0 .. TFD_NUM
      BY <2>2 DEF RingInv, LoopPosition
    <3>2. Plus(index, nr_frags[skb] - f) \in Slot
      BY <3>1, PlusDistance
    <3>3. skb # s
      BY <1>2, <2>2, <3>2 DEF RingInv, SlotsForFrame
    <3> QED
      BY <2>2, <3>3
  <2> QED
    BY <2>1, <2>2
<1>4. LoopPosition'
  BY <1>3 DEF RingInv, LoopPosition, Plus
<1>5. EngineWindow'
  BY DEF RingInv, EngineWindow, Released, Distance
<1>6. SlotsForFrame'
  BY <1>3 DEF RingInv, SlotsForFrame, Distance, Plus
<1>7. LastSegmentPending'
  BY DEF RingInv, LastSegmentPending, Distance
<1>8. Records'
  BY <1>2, <1>3 DEF RingInv, Records, Distance
<1> QED
  BY <1>1, <1>4, <1>5, <1>6, <1>7, <1>8 DEF RingInv

\* What a step that leaves ring, engine position and buffers alone keeps.
LEMMA QuietInv ==
    ASSUME Inv, pc # "release", pc' # "release",
           UNCHANGED <<cown, data_ptr, skb_ptr, cur_index, tssd, busy, holder>>
    PROVE  /\ EngineWindow' /\ LastSegmentPending'
           /\ \A i, j \in Slot : skb_ptr'[i] = skb_ptr'[j] /\ skb_ptr'[i] # NULL => i = j
           /\ \A i \in Slot : skb_ptr'[i] # NULL => holder'[skb_ptr'[i]] = "driver"
<1>1. EngineWindow'
  BY DEF Inv, RingInv, EngineWindow, Released, Distance
<1>2. LastSegmentPending'
  BY DEF Inv, RingInv, LastSegmentPending, Distance
<1> QED
  BY <1>1, <1>2 DEF Inv, RingInv, Records

\* Entry of send_packet: nothing checked, nothing to free.
LEMMA SendStopInv ==
    ASSUME Inv, NEW s \in Skb, SendStop(s)
    PROVE  Inv'
<1> USE DEF Inv, TypeOK, SendStop, ringVars, skbVars
<1>1. dma' \in BOOLEAN
  BY Zenon
<1>2. TypeOK'
  BY <1>1
<1>3. Plus(cur_index, 0) = cur_index
  BY SlotArithmetic
<1>4. \A i \in Slot : Distance(cur_index, i) \in 0 .. TFD_NUM - 1
  BY SlotArithmetic
<1>5. LoopPosition'
  BY <1>3 DEF LoopPosition, Plus
<1>6. SlotsForFrame'
  BY <1>4 DEF SlotsForFrame, Distance
<1>7. EngineWindow' /\ LastSegmentPending' /\ Records'
  BY QuietInv DEF Records
<1> QED
  BY <1>2, <1>5, <1>6, <1>7 DEF RingInv

\* The steps of the driver that do not touch the ring.
LEMMA SendQuietInv ==
    ASSUME Inv, SendBusy \/ SendStart \/ SendReturn
    PROVE  Inv'
<1> USE DEF Inv, TypeOK, ringVars, hwVars, skbVars
<1>1. CASE SendBusy
  <2>1. TypeOK'
    BY <1>1 DEF SendBusy
  <2>2. LoopPosition' /\ SlotsForFrame'
    BY <1>1 DEF SendBusy, LoopPosition, SlotsForFrame
  <2>3. EngineWindow' /\ LastSegmentPending' /\ Records'
    BY <1>1, QuietInv DEF SendBusy, Records
  <2> QED
    BY <2>1, <2>2, <2>3 DEF RingInv
<1>2. CASE SendStart
  <2>1. dma' \in BOOLEAN
    BY <1>2, Zenon DEF SendStart
  <2>2. TypeOK'
    BY <1>2, <2>1 DEF SendStart
  <2>3. LoopPosition' /\ SlotsForFrame'
    BY <1>2 DEF SendStart, LoopPosition, SlotsForFrame
  <2>4. EngineWindow' /\ LastSegmentPending' /\ Records'
    BY <1>2, QuietInv DEF SendStart, RingInv, Records
  <2> QED
    BY <2>2, <2>3, <2>4 DEF RingInv
<1>3. CASE SendReturn
  <2>1. TypeOK'
    BY <1>3 DEF SendReturn
  <2>2. LoopPosition' /\ SlotsForFrame'
    BY <1>3 DEF SendReturn, LoopPosition, SlotsForFrame
  <2>3. EngineWindow' /\ LastSegmentPending' /\ Records'
    BY <1>3, QuietInv DEF SendReturn, Records
  <2> QED
    BY <2>1, <2>2, <2>3 DEF RingInv
<1> QED
  BY <1>1, <1>2, <1>3

\* The check loop passes a slot: it is the CPU's and its buffer is noted.
LEMMA SendCheckInv ==
    ASSUME Inv, SendCheck
    PROVE  Inv'
<1> USE DEF Inv, TypeOK, SendCheck, hwVars, skbVars
<1>1. f <= nr_frags[skb] /\ index = Plus(cur_index, f) /\ skb \in Skb
  BY DEF RingInv, LoopPosition
<1>2. f \in 0 .. TFD_NUM /\ f < TFD_NUM /\ cur_index \in Slot
  BY <1>1
<1>3. NextSlot(index) \in Slot /\ NextSlot(index) = Plus(cur_index, f + 1)
  BY <1>1, <1>2, PlusDistance, SlotArithmetic
<1>4. \A i \in Slot : Distance(cur_index, i) \in 0 .. TFD_NUM - 1
  BY <1>2, SlotArithmetic
<1>5. /\ Distance(cur_index, index) = f
      /\ \A i \in Slot : Distance(cur_index, i) = f => i = index
  BY <1>1, <1>2, PlusDistance
<1>6. TypeOK'
  BY <1>1, <1>3
<1>7. LoopPosition'
  BY <1>1, <1>3 DEF LoopPosition, Plus
<1>8. EngineWindow' /\ LastSegmentPending'
  BY QuietInv
<1>9. SlotsForFrame'
  <2>1. \A i \in Slot : Distance(cur_index, i) < f => cown[i] = 1
    BY DEF RingInv, SlotsForFrame
  <2>2. ASSUME NEW i \in Slot, Distance(cur_index, i) < f + 1 PROVE cown[i] = 1
    <3>1. Distance(cur_index, i) < f \/ Distance(cur_index, i) = f
      BY <1>2, <1>4, <2>2
    <3> QED
      BY <1>5, <2>1, <2>2, <3>1
  <2> QED
    BY <2>2 DEF SlotsForFrame, Distance
<1>10. Records'
  <2>1. holder[skb] = "stack"
    BY DEF RingInv, Records
  <2>2. \A k \in DOMAIN skb_free' : \E i \in Slot :
            Distance(cur_index, i) < f + 1 /\ skb_ptr[i] = skb_free'[k]
    <3>1. ASSUME NEW k \in DOMAIN skb_free
          PROVE  \E i \in Slot : Distance(cur_index, i) < f + 1 /\ skb_ptr[i] = skb_free[k]
      <4>1. PICK i \in Slot : Distance(cur_index, i) < f /\ skb_ptr[i] = skb_free[k]
        BY DEF RingInv, Records
      <4>2. Distance(cur_index, i) < f + 1
        BY <1>2, <1>4, <4>1
      <4> QED
        BY <4>1, <4>2
    <3>2. Distance(cur_index, index) < f + 1
      BY <1>2, <1>5
    <3>3. CASE skb_ptr[index] = NULL
      BY <3>1, <3>3
    <3>4. CASE skb_ptr[index] # NULL
      <4> SUFFICES ASSUME NEW k \in DOMAIN skb_free'
                   PROVE  \E i \in Slot :
                            Distance(cur_index, i) < f + 1 /\ skb_ptr[i] = skb_free'[k]
        OBVIOUS
      <4>1. /\ skb_free' = Append(skb_free, skb_ptr[index])
            /\ skb_ptr[index] \in Skb /\ skb_free \in Seq(Skb)
        BY <3>4
      <4>2. CASE k \in DOMAIN skb_free
        <5>1. skb_free'[k] = skb_free[k]
          BY <4>1, <4>2
        <5> QED
          BY <3>1, <4>2, <5>1
      <4>3. CASE k = Len(skb_free) + 1
        BY <3>2, <4>1, <4>3
      <4>4. k \in 1 .. Len(skb_free) + 1
        BY <4>1
      <4> QED
        BY <4>1, <4>2, <4>3, <4>4
    <3> QED
      BY <3>3, <3>4
  <2> QED
    BY <2>1, <2>2, QuietInv DEF Records, Distance
<1> QED
  BY <1>6, <1>7, <1>8, <1>9, <1>10 DEF RingInv

\* The slots are filled: they were all the CPU's, they lie behind the window of
\* the engine, and none of the buffers noted in them stays recorded.
LEMMA SendFillInv ==
    ASSUME Inv, SendFill
    PROVE  Inv'
<1> DEFINE n == nr_frags[skb]
           seg(i) == Distance(cur_index, i)
<1>1. /\ skb \in Skb /\ cur_index \in Slot /\ index \in Slot /\ tssd \in Slot
      /\ n \in 0 .. MAX_SKB_FRAGS /\ n < TFD_NUM /\ pc = "fill"
      /\ cown \in [Slot -> {0, 1}]
      /\ skb_ptr \in [Slot -> Skb \cup {NULL}]
      /\ data_ptr \in [Slot -> Segment]
  BY DEF Inv, TypeOK, SendFill
<1>2. /\ f = n + 1 /\ index = Plus(cur_index, n + 1)
  BY <1>1 DEF Inv, RingInv, LoopPosition
<1>3. \A i \in Slot : seg(i) \in 0 .. TFD_NUM - 1
  BY <1>1, SlotArithmetic
<1>4. ASSUME NEW i \in Slot, seg(i) <= n PROVE cown[i] = 1
  <2>1. seg(i) < f
    BY <1>1, <1>2, <1>3, <1>4
  <2> QED
    BY <1>1, <1>4, <2>1 DEF Inv, RingInv, SlotsForFrame
<1>5. holder[skb] = "stack" /\ \A i \in Slot : skb_ptr[i] # skb
  BY <1>1 DEF Inv, RingInv, Records
<1>6. /\ data_ptr' = [i \in Slot |-> IF seg(i) <= n THEN <<skb, seg(i)>> ELSE data_ptr[i]]
      /\ skb_ptr' = [i \in Slot |-> IF seg(i) < n THEN NULL
                                    ELSE IF seg(i) = n THEN skb ELSE skb_ptr[i]]
  BY DEF SendFill
<1>7. /\ cur_index' = index /\ index' = cur_index /\ f' = 0 /\ pc' = "release"
      /\ holder' = [holder EXCEPT ![skb] = "driver"]
      /\ UNCHANGED <<cown, fs, ls, hwVars, nr_frags, skb, skb_free, ret>>
  BY DEF SendFill
<1>8. TypeOK'
  <2>1. data_ptr' \in [Slot -> Segment]
    <3>1. ASSUME NEW i \in Slot, seg(i) <= n PROVE <<skb, seg(i)>> \in Segment
      BY <1>1, <1>3, <3>1 DEF Segment
    <3> QED
      BY <1>1, <1>6, <3>1
  <2>2. skb_ptr' \in [Slot -> Skb \cup {NULL}]
    BY <1>1, <1>6
  <2> QED
    BY <1>1, <1>7, <2>1, <2>2 DEF Inv, TypeOK, hwVars
<1>9. LoopPosition'
  BY <1>1, <1>2, <1>7 DEF LoopPosition, Plus
<1>10. EngineWindow'
  BY <1>1, <1>7 DEF Inv, RingInv, EngineWindow, Released, Distance, hwVars
<1>11. SlotsForFrame'
  <2>1. seg(cur_index) = 0 /\ cown[cur_index] = 1
    BY <1>1, <1>4, SlotArithmetic
  <2>2. Distance(tssd, cur_index) + n < TFD_NUM
    <3>1. CASE tssd = cur_index
      BY <1>1, <3>1, SlotArithmetic
    <3>2. CASE tssd # cur_index
      <4>1. /\ Distance(tssd, cur_index) + seg(tssd) = TFD_NUM
            /\ Distance(tssd, cur_index) \in 0 .. TFD_NUM - 1
            /\ Distance(tssd, tssd) = 0
        BY <1>1, <3>2, DistanceStep, SlotArithmetic
      <4>2. cown[tssd] = 0
        <5>1. Distance(tssd, tssd) < Distance(tssd, cur_index)
          BY <1>1, <1>3, <4>1
        <5> QED
          BY <1>1, <3>2, <5>1 DEF Inv, RingInv, EngineWindow, Released
      <4>3. seg(tssd) > n
        BY <1>1, <1>3, <1>4, <4>2
      <4> QED
        BY <1>1, <1>3, <4>1, <4>3
    <3> QED
      BY <3>1, <3>2
  <2>3. \A i \in Slot : seg(i) <= n => data_ptr'[i][1] = skb
    BY <1>6
  <2>4. skb_ptr'[Plus(cur_index, n)] = skb
    <3>1. Plus(cur_index, n) \in Slot /\ seg(Plus(cur_index, n)) = n
      <4>1. n \in 0 .. TFD_NUM
        BY <1>1
      <4> HIDE DEF n
      <4> QED
        BY <1>1, <4>1, PlusDistance
    <3> QED
      BY <1>1, <1>6, <3>1
  <2>5. n - 0 = n
    BY <1>1
  <2> HIDE DEF n
  <2> QED
    BY <1>1, <1>7, <2>1, <2>2, <2>3, <2>4, <2>5 DEF SlotsForFrame, hwVars, n, Distance, Plus
<1>12. LastSegmentPending'
  <2> SUFFICES ASSUME NEW i \in Slot, cown[i] = 0
               PROVE  \E j \in Slot :
                         /\ data_ptr'[i][1] \in Skb
                         /\ skb_ptr'[j] = data_ptr'[i][1]
                         /\ Distance(tssd, i) <= Distance(tssd, j)
                         /\ cown[j] = 0
    BY <1>7 DEF LastSegmentPending, Distance, hwVars
  <2>1. PICK j \in Slot : /\ data_ptr[i][1] \in Skb
                          /\ skb_ptr[j] = data_ptr[i][1]
                          /\ Distance(tssd, i) <= Distance(tssd, j)
                          /\ cown[j] = 0
    BY <1>1 DEF Inv, RingInv, LastSegmentPending
  <2>2. seg(i) > n /\ seg(j) > n
    BY <1>1, <1>3, <1>4, <2>1
  <2>3. data_ptr'[i] = data_ptr[i] /\ skb_ptr'[j] = skb_ptr[j]
    BY <1>1, <1>3, <1>6, <2>1, <2>2
  <2> QED
    BY <2>1, <2>3
<1>13. Records'
  <2>1. ASSUME NEW i \in Slot PROVE skb_ptr'[i] \in {NULL, skb, skb_ptr[i]}
    BY <1>6
  <2>2. ASSUME NEW i \in Slot, skb_ptr'[i] = skb PROVE i = Plus(cur_index, n)
    <3>1. seg(i) = n
      BY <1>1, <1>3, <1>5, <1>6, <2>2
    <3> QED
      BY <1>1, <3>1, PlusDistance
  <2>3. ASSUME NEW i \in Slot, NEW j \in Slot, skb_ptr'[i] = skb_ptr'[j], skb_ptr'[i] # NULL
        PROVE  i = j
    <3>1. CASE skb_ptr'[i] = skb
      BY <2>2, <2>3, <3>1
    <3>2. CASE skb_ptr'[i] # skb
      BY <2>1, <2>3, <3>2 DEF Inv, RingInv, Records
    <3> QED
      BY <3>1, <3>2
  <2>4. ASSUME NEW i \in Slot, skb_ptr'[i] # NULL PROVE holder'[skb_ptr'[i]] = "driver"
    BY <1>1, <1>7, <2>1, <2>4 DEF Inv, TypeOK, RingInv, Records
  <2>5. ASSUME NEW k \in DOMAIN skb_free, NEW i \in Slot PROVE skb_ptr'[i] # skb_free[k]
    <3>1. PICK j \in Slot : seg(j) < f /\ skb_ptr[j] = skb_free[k]
      BY <1>1 DEF Inv, RingInv, Records
    <3>2. skb_free[k] \in Skb
      BY DEF Inv, TypeOK
    <3>3. skb_free[k] # skb /\ skb_free[k] # NULL
      BY <1>5, <3>1, <3>2
    <3>4. CASE i = j
      BY <1>1, <1>2, <1>3, <1>6, <3>1, <3>3, <3>4
    <3>5. CASE i # j
      <4>1. skb_ptr[i] # skb_free[k]
        BY <3>1, <3>3, <3>5 DEF Inv, RingInv, Records
      <4> QED
        BY <2>1, <3>3, <4>1
    <3> QED
      BY <3>4, <3>5
  <2> QED
    BY <1>7, <2>3, <2>4, <2>5 DEF Records
<1> QED
  BY <1>8, <1>9, <1>10, <1>11, <1>12, <1>13 DEF Inv, RingInv

\* One more slot goes to the engine, at the end of its window.
LEMMA SendReleaseInv ==
    ASSUME Inv, SendRelease
    PROVE  Inv'
<1> DEFINE n == nr_frags[skb]
<1>1. /\ skb \in Skb /\ cur_index \in Slot /\ index \in Slot /\ tssd \in Slot
      /\ n \in 0 .. MAX_SKB_FRAGS /\ n < TFD_NUM /\ pc = "release"
      /\ f \in 0 .. MAX_SKB_FRAGS + 1
      /\ cown \in [Slot -> {0, 1}]
  BY DEF Inv, TypeOK, SendRelease
<1>2. /\ f <= n /\ cur_index = Plus(index, n - f + 1)
      /\ cown[index] = 1
      /\ Distance(tssd, index) + (n - f) < TFD_NUM
      /\ \A i \in Slot : Distance(index, i) <= n - f => data_ptr[i][1] = skb
      /\ skb_ptr[Plus(index, n - f)] = skb
  BY <1>1 DEF Inv, RingInv, LoopPosition, SlotsForFrame
<1>3. /\ cown' = [cown EXCEPT ![index] = 0] /\ index' = NextSlot(index) /\ f' = f + 1
      /\ pc' = IF f = n THEN "start" ELSE "release"
      /\ UNCHANGED <<fs, ls, data_ptr, skb_ptr, cur_index, hwVars, skbVars, skb, skb_free, ret>>
  BY DEF SendRelease
<1>4. /\ NextSlot(index) \in Slot /\ NextSlot(index) = Plus(index, 1)
      /\ Distance(tssd, index) \in 0 .. TFD_NUM - 1
      /\ Distance(tssd, index) + 1 < TFD_NUM =>
             Distance(tssd, NextSlot(index)) = Distance(tssd, index) + 1
      /\ Distance(tssd, index) + 1 = TFD_NUM => NextSlot(index) = tssd
  BY <1>1, SlotArithmetic, DistanceStep
<1>5. n - f \in 0 .. TFD_NUM /\ n - f + 1 \in 0 .. TFD_NUM
  BY <1>1, <1>2
<1>6. TypeOK'
  <2>1. f' \in 0 .. MAX_SKB_FRAGS + 1
    BY <1>1, <1>2, <1>3
  <2>2. cown' \in [Slot -> {0, 1}] /\ index' \in Slot
    BY <1>1, <1>3, <1>4
  <2> QED
    BY <1>1, <1>3, <2>1, <2>2 DEF Inv, TypeOK, hwVars, skbVars
<1>7. LoopPosition'
  <2>1. CASE f = n
    BY <1>3, <2>1 DEF LoopPosition
  <2>2. CASE f # n
    <3>1. Plus(NextSlot(index), n - f) = Plus(index, n - f + 1)
      BY <1>1, <1>2, <1>5, PlusDistance
    <3>2. n - (f + 1) + 1 = n - f /\ f + 1 <= n
      BY <1>1, <1>2, <2>2
    <3> QED
      BY <1>1, <1>2, <1>3, <2>2, <3>1, <3>2 DEF LoopPosition, Plus, skbVars
  <2> QED
    BY <2>1, <2>2
<1>8. Released' = NextSlot(index)
  <2>1. CASE f = n
    <3>1. n - f + 1 = 1
      BY <1>1, <2>1
    <3> QED
      BY <1>2, <1>3, <1>4, <2>1, <3>1 DEF Released
  <2>2. CASE f # n
    BY <1>3, <2>2 DEF Released
  <2> QED
    BY <2>1, <2>2
<1>9. \A i \in Slot : cown[i] = 0 <=> Distance(tssd, i) < Distance(tssd, index)
  BY <1>1, <1>2 DEF Inv, RingInv, EngineWindow, Released
<1>10. EngineWindow'
  <2>1. \A i \in Slot : cown'[i] = 0 <=> Distance(tssd, i) <= Distance(tssd, index)
    BY <1>1, <1>2, <1>3, <1>9 DEF Slot, Distance
  <2>2. busy => cown'[tssd] = 0
    BY <1>1, <1>3 DEF Inv, RingInv, EngineWindow
  <2>3. CASE Distance(tssd, index) + 1 < TFD_NUM
    BY <1>1, <1>3, <1>4, <1>8, <2>1, <2>2, <2>3 DEF EngineWindow, hwVars, Distance, Slot
  <2>4. CASE Distance(tssd, index) + 1 = TFD_NUM
    BY <1>1, <1>3, <1>4, <1>8, <2>1, <2>2, <2>4 DEF EngineWindow, hwVars, Distance, Slot
  <2> QED
    BY <1>4, <2>3, <2>4
<1>11. SlotsForFrame'
  <2>1. CASE f = n
    BY <1>3, <2>1 DEF SlotsForFrame
  <2>2. CASE f # n
    <3>1. /\ Distance(tssd, index) + 1 < TFD_NUM
          /\ Distance(tssd, NextSlot(index)) + (n - (f + 1)) < TFD_NUM
      BY <1>1, <1>2, <1>4, <2>2
    <3>2. cown'[NextSlot(index)] = 1
      <4>1. NextSlot(index) # index /\ ~(Distance(tssd, NextSlot(index)) < Distance(tssd, index))
        BY <1>4, <3>1
      <4>2. cown[NextSlot(index)] # 0
        BY <1>4, <1>9, <4>1
      <4> QED
        BY <1>1, <1>3, <1>4, <4>1, <4>2
    <3>3. Plus(NextSlot(index), n - (f + 1)) = Plus(index, n - f)
      <4>1. n - (f + 1) = (n - f) - 1 /\ n - f > 0
        BY <1>1, <1>2, <2>2
      <4> QED
        BY <1>1, <1>5, <4>1, PlusDistance
    <3>4. ASSUME NEW i \in Slot, Distance(NextSlot(index), i) <= n - (f + 1)
          PROVE  Distance(index, i) <= n - f
      <4>1. CASE i = index
        BY <1>1, <1>2, <4>1, SlotArithmetic
      <4>2. CASE i # index
        <5>1. Distance(NextSlot(index), i) = Distance(index, i) - 1
          BY <1>1, <3>4, <4>2, DistanceStep
        <5>2. Distance(index, i) \in 0 .. TFD_NUM - 1
          BY <1>1, <3>4, SlotArithmetic
        <5> QED
          BY <1>1, <3>4, <5>1, <5>2
      <4> QED
        BY <4>1, <4>2
    <3>5. \A i \in Slot : Distance(NextSlot(index), i) <= n - (f + 1) => data_ptr[i][1] = skb
      BY <1>2, <3>4
    <3> QED
      BY <1>2, <1>3, <2>2, <3>1, <3>2, <3>3, <3>5
      DEF SlotsForFrame, hwVars, skbVars, Distance, Plus
  <2> QED
    BY <2>1, <2>2
<1>12. LastSegmentPending'
  <2>1. /\ Plus(index, n - f) \in Slot
        /\ Distance(tssd, Plus(index, n - f)) = Distance(tssd, index) + (n - f)
    BY <1>1, <1>2, <1>5, PlusDistance
  <2>2. \A j \in Slot : skb_ptr[j] = skb => j = Plus(index, n - f)
    BY <1>1, <1>2, <2>1 DEF Inv, RingInv, Records
  <2>3. cown'[Plus(index, n - f)] = 0 \/ pc' = "release"
    <3>1. CASE f = n
      <4>1. Plus(index, n - f) = index
        BY <1>1, <3>1, SlotArithmetic
      <4> QED
        BY <1>1, <1>3, <4>1
    <3> QED
      BY <1>3, <3>1
  <2>4. ASSUME NEW i \in Slot, cown'[i] = 0
        PROVE  \E j \in Slot :
                  /\ data_ptr[i][1] \in Skb
                  /\ skb_ptr[j] = data_ptr[i][1]
                  /\ Distance(tssd, i) <= Distance(tssd, j)
                  /\ cown'[j] = 0 \/ (pc' = "release" /\ skb_ptr[j] = skb)
    <3>1. CASE i = index
      <4>1. data_ptr[i][1] = skb
        <5>1. Distance(index, i) = 0
          BY <1>1, <3>1, SlotArithmetic
        <5> QED
          BY <1>1, <1>2, <5>1
      <4>2. Distance(tssd, i) <= Distance(tssd, Plus(index, n - f))
        BY <1>1, <1>2, <1>4, <2>1, <3>1
      <4> QED
        BY <1>1, <1>2, <2>1, <2>3, <4>1, <4>2
    <3>2. CASE i # index
      <4>1. PICK j \in Slot : /\ data_ptr[i][1] \in Skb
                              /\ skb_ptr[j] = data_ptr[i][1]
                              /\ Distance(tssd, i) <= Distance(tssd, j)
                              /\ cown[j] = 0 \/ (pc = "release" /\ skb_ptr[j] = skb)
        BY <1>1, <1>3, <2>4, <3>2 DEF Inv, RingInv, LastSegmentPending
      <4>2. cown[j] = 0 => cown'[j] = 0
        BY <1>1, <1>3
      <4>3. skb_ptr[j] = skb => cown'[j] = 0 \/ pc' = "release"
        BY <2>2, <2>3
      <4> QED
        BY <4>1, <4>2, <4>3
    <3> QED
      BY <3>1, <3>2
  <2> QED
    BY <1>3, <2>4 DEF LastSegmentPending, Distance, hwVars
<1>13. Records'
  BY <1>1, <1>3 DEF Inv, RingInv, Records, skbVars
<1> QED
  BY <1>6, <1>7, <1>10, <1>11, <1>12, <1>13 DEF Inv, RingInv

\* A buffer is freed: no slot has it.
LEMMA SendFreeInv ==
    ASSUME Inv, SendFree
    PROVE  Inv'
<1>1. /\ pc = "free" /\ pc' = "free" /\ skb_free # <<>> /\ skb_free' = Tail(skb_free)
      /\ holder' = [holder EXCEPT ![Head(skb_free)] = "nobody"]
      /\ UNCHANGED <<ringVars, hwVars, nr_frags, skb, f, index, ret>>
  BY DEF SendFree
<1>2. /\ skb_free \in Seq(Skb) /\ holder \in [Skb -> {"nobody", "stack", "driver"}]
      /\ skb_ptr \in [Slot -> Skb \cup {NULL}]
  BY DEF Inv, TypeOK
<1>3. Head(skb_free) \in Skb /\ Tail(skb_free) \in Seq(Skb) /\ 1 \in DOMAIN skb_free
  BY <1>1, <1>2
<1>4. \A k \in DOMAIN Tail(skb_free) :
          k + 1 \in DOMAIN skb_free /\ Tail(skb_free)[k] = skb_free[k + 1]
  BY <1>1, <1>2
<1>5. \A k \in DOMAIN skb_free : \A i \in Slot : skb_ptr[i] # skb_free[k]
  BY <1>1 DEF Inv, RingInv, Records
<1>6. TypeOK'
  BY <1>1, <1>2, <1>3 DEF Inv, TypeOK, ringVars, hwVars
<1>7. LoopPosition' /\ SlotsForFrame'
  BY <1>1 DEF LoopPosition, SlotsForFrame
<1>8. EngineWindow'
  BY <1>1 DEF Inv, RingInv, EngineWindow, Released, Distance, ringVars, hwVars
<1>9. LastSegmentPending'
  BY <1>1 DEF Inv, RingInv, LastSegmentPending, Distance, ringVars, hwVars
<1>10. Records'
  <2>1. ASSUME NEW i \in Slot, skb_ptr[i] # NULL PROVE holder'[skb_ptr[i]] = "driver"
    <3>1. skb_ptr[i] # Head(skb_free) /\ holder[skb_ptr[i]] = "driver"
      BY <1>1, <1>2, <1>3, <1>5, <2>1 DEF Inv, RingInv, Records
    <3> QED
      BY <1>1, <1>2, <2>1, <3>1
  <2>2. \A k \in DOMAIN skb_free' : \A i \in Slot : skb_ptr[i] # skb_free'[k]
    BY <1>1, <1>4, <1>5
  <2> QED
    BY <1>1, <2>1, <2>2 DEF Inv, RingInv, Records, ringVars
<1> QED
  BY <1>6, <1>7, <1>8, <1>9, <1>10 DEF Inv, RingInv

\* The engine fetches a descriptor.
LEMMA DmaFetchInv ==
    ASSUME Inv, DmaFetch
    PROVE  Inv'
<1> USE DEF DmaFetch, ringVars, skbVars, sendVars
<1>1. busy' \in BOOLEAN
  BY Zenon
<1>2. TypeOK'
  BY <1>1 DEF Inv, TypeOK
<1>3. LoopPosition' /\ SlotsForFrame'
  BY DEF Inv, RingInv, LoopPosition, SlotsForFrame, Distance, Plus
<1>4. EngineWindow'
  BY DEF Inv, RingInv, EngineWindow, Released, Distance
<1>5. LastSegmentPending'
  BY DEF Inv, RingInv, LastSegmentPending, Distance
<1>6. Records'
  BY DEF Inv, RingInv, Records, Distance
<1> QED
  BY <1>2, <1>3, <1>4, <1>5, <1>6 DEF Inv, RingInv

\* The engine hands back the first slot of its window.
LEMMA DmaCompleteInv ==
    ASSUME Inv, DmaComplete
    PROVE  Inv'
<1>1. /\ tssd \in Slot /\ cur_index \in Slot /\ index \in Slot
      /\ cown \in [Slot -> {0, 1}] /\ cown[tssd] = 0
      /\ Released \in Slot
  BY DEF Inv, TypeOK, RingInv, EngineWindow, DmaComplete, Released
<1>2. /\ cown' = [cown EXCEPT ![tssd] = 1] /\ tssd' = NextSlot(tssd) /\ busy' = FALSE
      /\ UNCHANGED <<fs, ls, data_ptr, skb_ptr, cur_index, dma, skbVars, sendVars>>
  BY DEF DmaComplete
<1>3. NextSlot(tssd) \in Slot
  BY <1>1, SlotArithmetic
<1>4. /\ \A i \in Slot : Distance(tssd, i) \in 0 .. TFD_NUM - 1
      /\ \A i \in Slot : i # tssd => Distance(NextSlot(tssd), i) = Distance(tssd, i) - 1
      /\ Distance(tssd, tssd) = 0
      /\ \A i \in Slot : Distance(tssd, i) = 0 => i = tssd
  BY <1>1, SlotArithmetic, DistanceStep
<1>5. Released' = Released
  BY <1>2 DEF Released, sendVars
<1>6. TypeOK'
  <2>1. busy' \in BOOLEAN
    BY <1>2, Zenon
  <2>2. gather' \in Seq(Segment) /\ wire' \in Seq(Segment)
    <3>1. gather \in Seq(Segment) /\ wire \in Seq(Segment) /\ data_ptr[tssd] \in Segment
      BY <1>1 DEF Inv, TypeOK
    <3>2. <<data_ptr[tssd]>> \in Seq(Segment) /\ Append(gather, data_ptr[tssd]) \in Seq(Segment)
      BY <3>1
    <3>3. <<>> \in Seq(Segment)
      OBVIOUS
    <3> QED
      BY <3>1, <3>2, <3>3 DEF DmaComplete
  <2> QED
    BY <1>1, <1>2, <1>3, <2>1, <2>2 DEF Inv, TypeOK, skbVars, sendVars
<1>7. LoopPosition'
  BY <1>2 DEF Inv, RingInv, LoopPosition, Plus, skbVars, sendVars
<1>8. EngineWindow'
  <2>1. CASE Released = tssd /\ \A i \in Slot : cown[i] = 0
    <3>1. \A i \in Slot : cown'[i] = 0 <=> i # tssd
      BY <1>1, <1>2, <2>1
    <3>2. Distance(NextSlot(tssd), tssd) = TFD_NUM - 1
      BY <1>1 DEF Distance, NextSlot, Slot
    <3>3. ASSUME NEW i \in Slot
          PROVE  cown'[i] = 0 <=> Distance(NextSlot(tssd), i) < Distance(NextSlot(tssd), tssd)
      <4>1. CASE i = tssd
        BY <3>1, <3>2, <4>1
      <4>2. CASE i # tssd
        BY <1>1, <1>4, <3>1, <3>2, <4>2
      <4> QED
        BY <4>1, <4>2
    <3> QED
      BY <1>2, <1>5, <2>1, <3>3 DEF EngineWindow, Distance
  <2>2. CASE \A i \in Slot : cown[i] = 0 <=> Distance(tssd, i) < Distance(tssd, Released)
    <3>1. Released # tssd
      BY <1>1, <1>4, <2>2
    <3>2. Distance(NextSlot(tssd), Released) = Distance(tssd, Released) - 1
      BY <1>1, <1>4, <3>1
    <3>3. ASSUME NEW i \in Slot
          PROVE  cown'[i] = 0 <=> Distance(NextSlot(tssd), i) < Distance(NextSlot(tssd), Released)
      <4>1. CASE i = tssd
        <5>1. Distance(NextSlot(tssd), tssd) = TFD_NUM - 1
          BY <1>1 DEF Distance, NextSlot, Slot
        <5>2. Distance(tssd, Released) <= TFD_NUM - 1
          BY <1>1, <1>4
        <5> QED
          BY <1>1, <1>2, <1>4, <3>2, <4>1, <5>1, <5>2
      <4>2. CASE i # tssd
        <5>1. cown'[i] = cown[i]
          BY <1>1, <1>2, <4>2
        <5>2. Distance(NextSlot(tssd), i) = Distance(tssd, i) - 1
          BY <1>4, <4>2
        <5> QED
          BY <1>1, <1>4, <2>2, <3>2, <5>1, <5>2
      <4> QED
        BY <4>1, <4>2
    <3> QED
      BY <1>2, <1>5, <3>3 DEF EngineWindow, Distance
  <2> QED
    BY <2>1, <2>2 DEF Inv, RingInv, EngineWindow
<1>9. SlotsForFrame'
  <2>1. \A i \in Slot : cown[i] = 1 => cown'[i] = 1
    BY <1>1, <1>2
  <2>2. CASE pc = "release"
    <3>1. skb \in Skb /\ nr_frags[skb] \in Int /\ f \in Int
      BY <2>2 DEF Inv, TypeOK
    <3>2. index # tssd /\ Distance(tssd, index) + (nr_frags[skb] - f) < TFD_NUM
      BY <1>1, <2>2 DEF Inv, RingInv, SlotsForFrame
    <3>3. Distance(NextSlot(tssd), index) + (nr_frags[skb] - f) < TFD_NUM
      BY <1>1, <1>4, <3>1, <3>2
    <3> QED
      BY <1>1, <1>2, <2>1, <2>2, <3>3
      DEF Inv, RingInv, SlotsForFrame, skbVars, sendVars, Distance, Plus
  <2>3. CASE pc # "release"
    BY <1>1, <1>2, <2>1, <2>3 DEF Inv, RingInv, SlotsForFrame, skbVars, sendVars, Distance
  <2> QED
    BY <2>2, <2>3
<1>10. LastSegmentPending'
  <2> SUFFICES ASSUME NEW i \in Slot, cown'[i] = 0
               PROVE  \E j \in Slot :
                         /\ data_ptr[i][1] \in Skb
                         /\ skb_ptr[j] = data_ptr[i][1]
                         /\ Distance(NextSlot(tssd), i) <= Distance(NextSlot(tssd), j)
                         /\ cown'[j] = 0 \/ (pc = "release" /\ skb_ptr[j] = skb)
    BY <1>2 DEF LastSegmentPending, Distance, skbVars, sendVars
  <2>1. i # tssd /\ cown[i] = 0
    BY <1>1, <1>2
  <2>2. PICK j \in Slot : /\ data_ptr[i][1] \in Skb
                          /\ skb_ptr[j] = data_ptr[i][1]
                          /\ Distance(tssd, i) <= Distance(tssd, j)
                          /\ cown[j] = 0 \/ (pc = "release" /\ skb_ptr[j] = skb)
    BY <2>1 DEF Inv, RingInv, LastSegmentPending
  <2>3. j # tssd
    BY <1>1, <1>4, <2>1, <2>2
  <2>4. Distance(NextSlot(tssd), i) <= Distance(NextSlot(tssd), j)
    BY <1>1, <1>4, <2>1, <2>2, <2>3
  <2>5. cown'[j] = cown[j]
    BY <1>1, <1>2, <2>3
  <2> QED
    BY <2>2, <2>4, <2>5
<1>11. Records'
  BY <1>2 DEF Inv, RingInv, Records, Distance, skbVars, sendVars
<1> QED
  BY <1>6, <1>7, <1>8, <1>9, <1>10, <1>11 DEF Inv, RingInv

-----------------------------------------------------------------------------

\* Initially the CPU owns every slot and nothing is recorded.
LEMMA InitInv == Init => Inv
<1> SUFFICES ASSUME Init PROVE Inv
  OBVIOUS
<1>1. 0 \in Slot
  BY DEF Slot
<1>2. dma \in BOOLEAN /\ busy \in BOOLEAN
  BY Zenon DEF Init
<1>3. TypeOK
  BY <1>1, <1>2 DEF Init, TypeOK, Segment
<1>4. EngineWindow
  <2>1. \A i \in Slot : Distance(0, i) \in 0 .. TFD_NUM - 1 /\ Distance(0, 0) = 0
    BY <1>1, SlotArithmetic
  <2>2. \A i \in Slot : cown[i] = 0 <=> Distance(0, i) < Distance(0, 0)
    BY <2>1 DEF Init
  <2> QED
    BY <2>2 DEF Init, EngineWindow, Released
<1>5. LoopPosition /\ SlotsForFrame /\ LastSegmentPending /\ Records
  BY DEF Init, LoopPosition, SlotsForFrame, LastSegmentPending, Records
<1> QED
  BY <1>3, <1>4, <1>5 DEF Inv, RingInv

\* Every step of the stack, the driver and the engine keeps the invariant.
LEMMA NextInv == Inv /\ [Next]_vars => Inv'
<1> SUFFICES ASSUME Inv, [Next]_vars PROVE Inv'
  OBVIOUS
<1>1. ASSUME NEW s \in Skb, NEW n \in 0 .. MAX_SKB_FRAGS, AllocSkb(s, n) PROVE Inv'
  BY <1>1, AllocSkbInv
<1>2. ASSUME NEW s \in Skb, SendStop(s) PROVE Inv'
  BY <1>2, SendStopInv
<1>3. CASE SendBusy \/ SendStart \/ SendReturn
  BY <1>3, SendQuietInv
<1>4. CASE SendCheck
  BY <1>4, SendCheckInv
<1>5. CASE SendFill
  BY <1>5, SendFillInv
<1>6. CASE SendRelease
  BY <1>6, SendReleaseInv
<1>7. CASE SendFree
  BY <1>7, SendFreeInv
<1>8. CASE DmaFetch
  BY <1>8, DmaFetchInv
<1>9. CASE DmaComplete
  BY <1>9, DmaCompleteInv
<1>10. CASE UNCHANGED vars
  <2> USE <1>10 DEF vars, ringVars, hwVars, skbVars, sendVars
  <2>1. TypeOK'
    BY DEF Inv, TypeOK
  <2>2. LoopPosition' /\ SlotsForFrame'
    BY DEF Inv, RingInv, LoopPosition, SlotsForFrame, Distance, Plus
  <2>3. EngineWindow'
    BY DEF Inv, RingInv, EngineWindow, Released, Distance
  <2>4. LastSegmentPending'
    BY DEF Inv, RingInv, LastSegmentPending, Distance
  <2>5. Records'
    BY DEF Inv, RingInv, Records, Distance
  <2> QED
    BY <2>1, <2>2, <2>3, <2>4, <2>5 DEF Inv, RingInv
<1> QED
  BY <1>1, <1>2, <1>3, <1>4, <1>5, <1>6, <1>7, <1>8, <1>9, <1>10 DEF Next, Send, Dma

\* star_gsw_send_packet, the ring and the engine always agree on who owns which
\* descriptor and which buffer: the types and RingInv hold together.
THEOREM RingInvCorrect == Spec => [](TypeOK /\ RingInv)
<1>1. Init => TypeOK /\ RingInv
  BY InitInv DEF Inv
<1>2. TypeOK /\ RingInv /\ [Next]_vars => (TypeOK /\ RingInv)'
  BY NextInv DEF Inv
<1> QED
  BY <1>1, <1>2, PTL DEF Spec

\* The variables of the transmit path keep their types.
THEOREM TypeCorrect == Spec => []TypeOK
BY RingInvCorrect, PTL

\* No buffer is freed while the engine may read it.
THEOREM EngineReadsHeldSkbCorrect == Spec => []EngineReadsHeldSkb
<1>1. TypeOK /\ RingInv => EngineReadsHeldSkb
  BY DEF TypeOK, RingInv, LastSegmentPending, Records, EngineReadsHeldSkb
<1> QED
  BY <1>1, RingInvCorrect, PTL

\* The driver never changes a descriptor of the engine.
THEOREM EngineSlotsUntouchedCorrect == Spec => EngineSlotsUntouched
<1> DEFINE Untouched ==
        \A i \in Slot : cown[i] = 0 =>
          /\ fs'[i] = fs[i] /\ ls'[i] = ls[i]
          /\ data_ptr'[i] = data_ptr[i] /\ skb_ptr'[i] = skb_ptr[i]
          /\ cown'[i] = 1 => busy /\ i = tssd
<1>1. ASSUME TypeOK, RingInv, [Next]_vars PROVE [Untouched]_vars
  <2> SUFFICES ASSUME Next PROVE Untouched
    BY <1>1
  <2>1. CASE SendCheck
    BY <1>1, <2>1 DEF SendCheck, TypeOK
  <2>2. CASE SendFill
    <3> SUFFICES ASSUME NEW i \in Slot, cown[i] = 0
                 PROVE  /\ fs' = fs /\ ls' = ls /\ cown' = cown
                        /\ data_ptr'[i] = data_ptr[i] /\ skb_ptr'[i] = skb_ptr[i]
      OBVIOUS
    <3>1. /\ cur_index \in Slot /\ nr_frags[skb] \in Int /\ f = nr_frags[skb] + 1
          /\ Distance(cur_index, i) \in 0 .. TFD_NUM - 1
      BY <1>1, <2>2, SlotArithmetic DEF TypeOK, RingInv, LoopPosition, SendFill
    <3>2. ~(Distance(cur_index, i) < f)
      BY <1>1, <2>2 DEF RingInv, SlotsForFrame, SendFill
    <3>3. ~(Distance(cur_index, i) <= nr_frags[skb])
      BY <3>1, <3>2
    <3> QED
      BY <2>2, <3>1, <3>3 DEF SendFill
  <2>3. CASE SendRelease
    BY <1>1, <2>3 DEF SendRelease, TypeOK
  <2>4. CASE DmaComplete
    BY <1>1, <2>4 DEF DmaComplete, TypeOK
  <2>5. CASE \/ \E s \in Skb, n \in 0 .. MAX_SKB_FRAGS : AllocSkb(s, n)
             \/ \E s \in Skb : SendStop(s)
             \/ SendBusy \/ SendStart \/ SendFree \/ SendReturn \/ DmaFetch
    BY <1>1, <2>5 DEF AllocSkb, SendStop, SendBusy, SendStart, SendFree, SendReturn, DmaFetch,
       ringVars
  <2> QED
    BY <2>1, <2>2, <2>3, <2>4, <2>5 DEF Next, Send, Dma
<1> QED
  BY <1>1, RingInvCorrect, PTL DEF Spec, EngineSlotsUntouched

-----------------------------------------------------------------------------

\* The check loop notes the buffer of the slot it passes: it is new in the list.
LEMMA SendCheckLost == ASSUME Inv, NothingLost, SendCheck PROVE NothingLost'
<1>1. /\ pc = "check" /\ pc' \in {"check", "fill"} /\ f' = f + 1 /\ cown[index] = 1
      /\ skb_free' = IF skb_ptr[index] = NULL THEN skb_free
                     ELSE Append(skb_free, skb_ptr[index])
      /\ UNCHANGED <<skb_ptr, cur_index, holder>>
  BY DEF SendCheck, skbVars
<1>2. /\ skb_free \in Seq(Skb) /\ skb_ptr[index] \in Skb \cup {NULL} /\ index \in Slot
      /\ cur_index \in Slot /\ f \in 0 .. TFD_NUM /\ f < TFD_NUM /\ index = Plus(cur_index, f)
  BY <1>1 DEF Inv, TypeOK, RingInv, LoopPosition
<1>3. /\ Distance(cur_index, index) = f
      /\ \A i \in Slot : Distance(cur_index, i) \in 0 .. TFD_NUM - 1
      /\ \A i \in Slot : Distance(cur_index, i) = f => i = index
  BY <1>2, PlusDistance, SlotArithmetic
<1>4. ASSUME NEW k \in DOMAIN skb_free PROVE skb_free[k] # skb_ptr[index]
  <2>1. PICK i \in Slot : Distance(cur_index, i) < f /\ skb_ptr[i] = skb_free[k]
    BY <1>1 DEF Inv, RingInv, Records
  <2>2. i # index
    BY <1>2, <1>3, <2>1
  <2>3. skb_free[k] # NULL
    BY <1>2
  <2> QED
    BY <1>2, <2>1, <2>2, <2>3 DEF Inv, RingInv, Records
<1>5. CASE skb_ptr[index] = NULL
  <2>1. \A i \in Slot : Distance(cur_index, i) < f + 1 /\ skb_ptr[i] # NULL
                        => Distance(cur_index, i) < f
    BY <1>2, <1>3, <1>5
  <2> QED
    BY <1>1, <1>5, <2>1 DEF NothingLost, Distance
<1>6. CASE skb_ptr[index] # NULL
  <2>1. /\ skb_free' = Append(skb_free, skb_ptr[index])
        /\ DOMAIN skb_free' = 1 .. Len(skb_free) + 1
        /\ DOMAIN skb_free = 1 .. Len(skb_free) /\ Len(skb_free) \in Nat
        /\ skb_free'[Len(skb_free) + 1] = skb_ptr[index]
        /\ \A k \in DOMAIN skb_free : skb_free'[k] = skb_free[k]
    BY <1>1, <1>2, <1>6
  <2>2. ASSUME NEW k \in DOMAIN skb_free', NEW m \in DOMAIN skb_free', skb_free'[k] = skb_free'[m]
        PROVE  k = m
    <3>1. (k \in DOMAIN skb_free \/ k = Len(skb_free) + 1)
          /\ (m \in DOMAIN skb_free \/ m = Len(skb_free) + 1)
      BY <2>1, <2>2
    <3> QED
      BY <1>4, <2>1, <2>2, <3>1 DEF NothingLost
  <2>3. ASSUME NEW k \in DOMAIN skb_free' PROVE holder[skb_free'[k]] = "driver"
    <3>1. k \in DOMAIN skb_free \/ k = Len(skb_free) + 1
      BY <2>1, <2>3
    <3>2. holder[skb_ptr[index]] = "driver"
      BY <1>2, <1>6 DEF Inv, RingInv, Records
    <3> QED
      BY <2>1, <3>1, <3>2 DEF NothingLost
  <2>4. ASSUME NEW i \in Slot, Distance(cur_index, i) < f + 1, skb_ptr[i] # NULL
        PROVE  \E k \in DOMAIN skb_free' : skb_free'[k] = skb_ptr[i]
    <3>1. Len(skb_free) + 1 \in DOMAIN skb_free' /\ DOMAIN skb_free \subseteq DOMAIN skb_free'
      BY <2>1
    <3>2. CASE i = index
      BY <2>1, <3>1, <3>2
    <3>3. CASE i # index
      <4>1. Distance(cur_index, i) < f
        BY <1>2, <1>3, <2>4, <3>3
      <4>2. PICK k \in DOMAIN skb_free : skb_free[k] = skb_ptr[i]
        BY <1>1, <2>4, <4>1 DEF NothingLost
      <4> QED
        BY <2>1, <3>1, <4>2
    <3> QED
      BY <3>2, <3>3
  <2> QED
    BY <1>1, <2>2, <2>3, <2>4 DEF NothingLost, Distance
<1> QED
  BY <1>5, <1>6

\* The slots are refilled: what they recorded is in the list.
LEMMA SendFillLost == ASSUME Inv, NothingLost, SendFill PROVE NothingLost'
<1> DEFINE n == nr_frags[skb]
           seg(i) == Distance(cur_index, i)
<1>1. /\ pc = "fill" /\ pc' = "release" /\ skb_free' = skb_free
      /\ skb_ptr' = [i \in Slot |-> IF seg(i) < n THEN NULL
                                    ELSE IF seg(i) = n THEN skb ELSE skb_ptr[i]]
      /\ holder' = [holder EXCEPT ![skb] = "driver"]
  BY DEF SendFill
<1>2. /\ skb \in Skb /\ cur_index \in Slot /\ n \in 0 .. TFD_NUM /\ n < TFD_NUM
      /\ f = n + 1 /\ holder \in [Skb -> {"nobody", "stack", "driver"}]
      /\ skb_free \in Seq(Skb)
  BY <1>1 DEF Inv, TypeOK, RingInv, LoopPosition
<1>3. \A i \in Slot : seg(i) \in 0 .. TFD_NUM - 1
  BY <1>2, SlotArithmetic
<1>4. ASSUME NEW k \in DOMAIN skb_free PROVE holder'[skb_free[k]] = "driver"
  BY <1>1, <1>2 DEF NothingLost
<1>5. ASSUME NEW s \in Skb, holder'[s] = "driver"
      PROVE  \/ \E i \in Slot : skb_ptr'[i] = s
             \/ \E k \in DOMAIN skb_free : skb_free[k] = s
  <2>1. CASE s = skb
    <3>1. Plus(cur_index, n) \in Slot /\ seg(Plus(cur_index, n)) = n
      <4> HIDE DEF n
      <4> QED
        BY <1>2, PlusDistance
    <3>2. skb_ptr'[Plus(cur_index, n)] = skb
      BY <1>1, <1>2, <3>1
    <3> QED
      BY <2>1, <3>1, <3>2
  <2>2. CASE s # skb
    <3>1. PICK i \in Slot : skb_ptr[i] = s
      BY <1>1, <1>2, <1>5, <2>2 DEF NothingLost
    <3>2. CASE seg(i) < f
      BY <1>1, <1>5, <3>1, <3>2 DEF NothingLost
    <3>3. CASE ~(seg(i) < f)
      <4>1. ~(seg(i) < n) /\ seg(i) # n
        BY <1>2, <1>3, <3>3
      <4>2. skb_ptr'[i] = s
        BY <1>1, <3>1, <4>1
      <4> QED
        BY <4>2
    <3> QED
      BY <3>2, <3>3
  <2> QED
    BY <2>1, <2>2
<1> QED
  BY <1>1, <1>4, <1>5 DEF NothingLost

\* A buffer leaves the list and the driver's hands together.
LEMMA SendFreeLost == ASSUME Inv, NothingLost, SendFree PROVE NothingLost'
<1>1. /\ pc = "free" /\ pc' = "free" /\ skb_free # <<>> /\ skb_free' = Tail(skb_free)
      /\ holder' = [holder EXCEPT ![Head(skb_free)] = "nobody"]
      /\ UNCHANGED ringVars
  BY DEF SendFree
<1>2. skb_free \in Seq(Skb) /\ holder \in [Skb -> {"nobody", "stack", "driver"}]
  BY DEF Inv, TypeOK
<1>3. /\ Len(skb_free) \in Nat /\ DOMAIN skb_free = 1 .. Len(skb_free)
      /\ DOMAIN skb_free' = 1 .. Len(skb_free) - 1 /\ Len(skb_free) > 0
      /\ Head(skb_free) = skb_free[1] /\ 1 \in DOMAIN skb_free
      /\ \A k \in DOMAIN skb_free' : skb_free'[k] = skb_free[k + 1] /\ k + 1 \in DOMAIN skb_free
  BY <1>1, <1>2
<1>4. ASSUME NEW k \in DOMAIN skb_free', NEW m \in DOMAIN skb_free', skb_free'[k] = skb_free'[m]
      PROVE  k = m
  <2>1. k + 1 = m + 1
    BY <1>3, <1>4 DEF NothingLost
  <2> QED
    BY <1>3, <2>1
<1>5. ASSUME NEW k \in DOMAIN skb_free' PROVE holder'[skb_free'[k]] = "driver"
  <2>1. k + 1 # 1
    BY <1>3
  <2>2. skb_free[k + 1] # skb_free[1] /\ holder[skb_free[k + 1]] = "driver"
    BY <1>3, <2>1 DEF NothingLost
  <2>3. skb_free[k + 1] \in Skb /\ skb_free'[k] = skb_free[k + 1]
    BY <1>2, <1>3
  <2> QED
    BY <1>1, <1>2, <1>3, <2>2, <2>3
<1>6. ASSUME NEW s \in Skb, holder'[s] = "driver"
      PROVE  \/ \E i \in Slot : skb_ptr[i] = s
             \/ \E k \in DOMAIN skb_free' : skb_free'[k] = s
  <2>1. s # skb_free[1] /\ holder[s] = "driver"
    BY <1>1, <1>2, <1>3, <1>6
  <2>2. CASE \E k \in DOMAIN skb_free : skb_free[k] = s
    <3>1. PICK k \in DOMAIN skb_free : skb_free[k] = s
      BY <2>2
    <3>2. k # 1
      BY <2>1, <3>1
    <3>3. k - 1 \in DOMAIN skb_free' /\ (k - 1) + 1 = k
      BY <1>3, <3>2
    <3> QED
      BY <1>3, <3>1, <3>3
  <2> QED
    BY <1>1, <2>1, <2>2 DEF NothingLost
<1> QED
  BY <1>1, <1>4, <1>5, <1>6 DEF NothingLost, ringVars

\* Each buffer the driver has accepted is remembered in exactly one place.
THEOREM EachSkbRememberedCorrect == Spec => []EachSkbRemembered
<1>1. Init => NothingLost
  BY DEF Init, NothingLost
<1>2. ASSUME Inv, NothingLost, [Next]_vars PROVE NothingLost'
  <2> USE <1>2
  <2>1. ASSUME NEW s \in Skb, NEW n \in 0 .. MAX_SKB_FRAGS, AllocSkb(s, n) PROVE NothingLost'
    BY <2>1 DEF AllocSkb, NothingLost, Inv, TypeOK, Distance, ringVars, sendVars
  <2>2. ASSUME NEW s \in Skb, SendStop(s) PROVE NothingLost'
    <3>1. \A i \in Slot : ~(Distance(cur_index, i) < 0)
      <4>1. \A i \in Slot : Distance(cur_index, i) \in 0 .. TFD_NUM - 1
        BY SlotArithmetic DEF Inv, TypeOK
      <4> QED
        BY <4>1
    <3> QED
      BY <2>2, <3>1 DEF SendStop, NothingLost, Distance, ringVars, skbVars
  <2>3. CASE SendBusy
    BY <2>3 DEF SendBusy, NothingLost, ringVars, skbVars
  <2>4. CASE SendStart
    BY <2>4 DEF SendStart, NothingLost, ringVars, skbVars
  <2>5. CASE SendReturn
    BY <2>5 DEF SendReturn, NothingLost, ringVars, skbVars
  <2>6. CASE SendRelease
    BY <2>6 DEF SendRelease, NothingLost, skbVars
  <2>7. CASE DmaFetch
    BY <2>7 DEF DmaFetch, NothingLost, Distance, ringVars, skbVars, sendVars
  <2>8. CASE DmaComplete
    BY <2>8 DEF DmaComplete, NothingLost, Distance, skbVars, sendVars
  <2>9. CASE UNCHANGED vars
    BY <2>9 DEF vars, NothingLost, Distance, ringVars, skbVars, sendVars
  <2> QED
    BY <2>1, <2>2, <2>3, <2>4, <2>5, <2>6, <2>7, <2>8, <2>9, SendCheckLost, SendFillLost,
       SendFreeLost DEF Next, Send, Dma
<1>3. ASSUME Inv, NothingLost PROVE EachSkbRemembered
  <2> SUFFICES ASSUME NEW s \in Skb
               PROVE  LET slots  == {i \in Slot : skb_ptr[i] = s}
                          listed == IF pc \in {"check", "fill"} THEN {}
                                    ELSE {k \in DOMAIN skb_free : skb_free[k] = s}
                      IN  Cardinality(slots) + Cardinality(listed)
                              = IF holder[s] = "driver" THEN 1 ELSE 0
    BY DEF EachSkbRemembered
  <2> DEFINE slots  == {i \in Slot : skb_ptr[i] = s}
             listed == IF pc \in {"check", "fill"} THEN {}
                       ELSE {k \in DOMAIN skb_free : skb_free[k] = s}
  <2>1. s # NULL
    OBVIOUS
  <2>2. slots = {} \/ \E i \in Slot : slots = {i}
    BY <1>3, <2>1 DEF Inv, RingInv, Records
  <2>3. listed = {} \/ \E k \in DOMAIN skb_free : listed = {k}
    BY <1>3 DEF NothingLost
  <2>4. slots # {} => holder[s] = "driver"
    BY <1>3, <2>1 DEF Inv, RingInv, Records
  <2>5. listed # {} => holder[s] = "driver"
    BY <1>3 DEF NothingLost
  <2>6. pc = "idle" => skb_free = <<>>
    BY <1>3 DEF NothingLost
  <2>7. ~(slots # {} /\ listed # {})
    BY <1>3, <2>6 DEF Inv, TypeOK, RingInv, Records
  <2>8. holder[s] = "driver" => slots # {} \/ listed # {}
    BY <1>3 DEF NothingLost
  <2>9. /\ Cardinality({}) = 0
        /\ \A x : Cardinality({x}) = 1
    BY FS_EmptySet, FS_Singleton
  <2>10. Cardinality(slots) = IF slots = {} THEN 0 ELSE 1
    BY <2>2, <2>9
  <2>11. Cardinality(listed) = IF listed = {} THEN 0 ELSE 1
    BY <2>3, <2>9
  <2> HIDE DEF slots, listed
  <2>12. Cardinality(slots) + Cardinality(listed) = IF holder[s] = "driver" THEN 1 ELSE 0
    BY <2>4, <2>5, <2>7, <2>8, <2>10, <2>11
  <2> QED
    BY <2>12 DEF slots, listed
<1> QED
  BY <1>1, <1>2, <1>3, RingInvCorrect, PTL DEF Spec, Inv

=============================================================================
