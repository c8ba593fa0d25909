---------------------------- MODULE GswRx_proofs ----------------------------
(***************************************************************************)
(* Proofs about the receive path, for every ring size, weight and set of   *)
(* frames.                                                                 *)
(***************************************************************************)
EXTENDS GswRx, SequenceTheorems, TLAPS

USE DEF Slot

\* The index arithmetic stays inside the ring.
LEMMA SlotArithmetic ==
    ASSUME NEW i \in Slot, NEW j \in Slot
    PROVE  /\ NextSlot(i) \in Slot
           /\ Distance(i, j) \in 0 .. RFD_NUM - 1
           /\ Distance(i, j) = 0 <=> i = j
BY RxAssumption DEF NextSlot, Distance

\* Every step keeps the types.
LEMMA TypeStep == TypeOK /\ [Next]_vars => TypeOK'
<1> SUFFICES ASSUME TypeOK, [Next]_vars PROVE TypeOK'
  OBVIOUS
<1> USE RxAssumption DEF TypeOK, ringVars, hwVars, irqVars, napiVars, pollVars, histVars
<1>1. ASSUME NEW p \in Frame, HwReceive(p) PROVE TypeOK'
  <2>1. sneaked' \in BOOLEAN
    BY <1>1, Zenon DEF HwReceive
  <2> QED
    BY <1>1, <2>1, SlotArithmetic DEF HwReceive
<1>2. CASE HwInterrupt
  BY <1>2 DEF HwInterrupt
<1>3. CASE HwQueueFull
  BY <1>3 DEF HwQueueFull
<1>4. CASE ReceiveIsr
  <2>1. /\ masked' \in BOOLEAN /\ fsrc' \in BOOLEAN
        /\ rx_sched' \in BOOLEAN /\ poll_list' \in BOOLEAN
    BY <1>4, Zenon DEF ReceiveIsr
  <2>2. disable_depth' \in {0, 1}
    BY <1>4 DEF ReceiveIsr
  <2> QED
    BY <1>4, <2>1, <2>2 DEF ReceiveIsr
<1>5. CASE FsqfIsr
  BY <1>5 DEF FsqfIsr
<1>6. ASSUME NEW q \in 1 .. WEIGHT, PollStart(q) PROVE TypeOK'
  <2>1. Distance(cur_index, fssd) \in 0 .. RFD_NUM - 1
    BY SlotArithmetic
  <2> QED
    BY <1>6, <2>1 DEF PollStart
<1>7. CASE PollEqual
  <2>1. sneaked' \in BOOLEAN
    BY <1>7, Zenon DEF PollEqual
  <2> QED
    BY <1>7, <2>1 DEF PollEqual
<1>8. CASE LoopEnd
  BY <1>8 DEF LoopEnd
<1>9. CASE LoopReceive
  <2>1. NextSlot(cur_index) \in Slot
    BY SlotArithmetic
  <2> QED
    BY <1>9, <2>1 DEF LoopReceive, LoopBody
<1>10. CASE LoopNoMemory
  BY <1>10 DEF LoopNoMemory, LoopBody, MAX_LOSSES
<1>11. CASE LoopNoPacket
  BY <1>11 DEF LoopNoPacket, LoopBody
<1>12. CASE PollAgain
  BY <1>12 DEF PollAgain
<1>13. CASE PollRestart
  BY <1>13 DEF PollRestart
<1>14. CASE PollComplete
  BY <1>14 DEF PollComplete
<1>15. CASE PollEnable
  <2>1. masked' \in BOOLEAN /\ fsrc' \in BOOLEAN
    BY <1>15, Zenon DEF PollEnable
  <2>2. disable_depth' \in {0, 1}
    BY <1>15 DEF PollEnable
  <2> QED
    BY <1>15, <2>1, <2>2 DEF PollEnable
<1>16. CASE UNCHANGED vars
  BY <1>16 DEF vars
<1> QED
  BY <1>1, <1>2, <1>3, <1>4, <1>5, <1>6, <1>7, <1>8, <1>9, <1>10, <1>11, <1>12,
     <1>13, <1>14, <1>15, <1>16 DEF Next, Hw, Poll

\* The variables of the receive path keep their types.
THEOREM TypeCorrect == Spec => []TypeOK
<1>1. ASSUME Init PROVE TypeOK
  <2>1. /\ fsdma \in BOOLEAN /\ delayed \in BOOLEAN /\ fsrc \in BOOLEAN
        /\ fsqf \in BOOLEAN /\ masked \in BOOLEAN /\ is_qf \in BOOLEAN
        /\ rx_sched \in BOOLEAN /\ poll_list \in BOOLEAN /\ sneaked \in BOOLEAN
    BY <1>1, Zenon DEF Init
  <2> QED
    BY <1>1, <2>1, RxAssumption DEF Init, TypeOK, MAX_LOSSES
<1> QED
  BY <1>1, TypeStep, PTL DEF Spec

-----------------------------------------------------------------------------

\* The FSRC interrupt is off exactly while the poll answers for the ring.
THEOREM PollOwnsInterruptCorrect == Spec => []PollOwnsInterrupt
<1>1. Init => PollOwnsInterrupt
  BY DEF Init, PollOwnsInterrupt
<1>2. ASSUME TypeOK, PollOwnsInterrupt, [Next]_vars PROVE PollOwnsInterrupt'
  <2> USE <1>2 DEF TypeOK, PollOwnsInterrupt, ringVars, hwVars, irqVars, napiVars, pollVars, histVars
  <2>1. CASE Hw
    BY <2>1 DEF Hw, HwReceive, HwInterrupt, HwQueueFull
  <2>2. CASE ReceiveIsr
    BY <2>2 DEF ReceiveIsr
  <2>3. CASE FsqfIsr
    BY <2>3 DEF FsqfIsr
  <2>4. ASSUME NEW q \in 1 .. WEIGHT, PollStart(q) PROVE PollOwnsInterrupt'
    BY <2>4 DEF PollStart
  <2>5. CASE PollEqual
    BY <2>5 DEF PollEqual
  <2>6. CASE LoopEnd \/ LoopReceive \/ LoopNoMemory \/ LoopNoPacket
    BY <2>6 DEF LoopEnd, LoopReceive, LoopNoMemory, LoopNoPacket, LoopBody
  <2>7. CASE PollAgain
    BY <2>7 DEF PollAgain
  <2>8. CASE PollRestart
    BY <2>8 DEF PollRestart
  <2>9. CASE PollComplete
    BY <2>9 DEF PollComplete
  <2>10. CASE PollEnable
    BY <2>10 DEF PollEnable
  <2>11. CASE UNCHANGED vars
    BY <2>11 DEF vars
  <2> QED
    BY <2>1, <2>2, <2>3, <2>4, <2>5, <2>6, <2>7, <2>8, <2>9, <2>10, <2>11 DEF Next, Poll
<1> QED
  BY <1>1, <1>2, TypeCorrect, PTL DEF Spec

\* While the engine is stopped, something remembers to restart it.
THEOREM StopIsRememberedCorrect == Spec => []StopIsRemembered
<1>1. Init => StopIsRemembered
  BY DEF Init, StopIsRemembered
<1>2. ASSUME TypeOK, StopIsRemembered, [Next]_vars PROVE StopIsRemembered'
  <2> USE <1>2 DEF TypeOK, StopIsRemembered, ringVars, hwVars, irqVars, napiVars, pollVars, histVars
  <2>1. CASE Hw
    BY <2>1 DEF Hw, HwReceive, HwInterrupt, HwQueueFull
  <2>2. CASE ReceiveIsr \/ FsqfIsr
    BY <2>2 DEF ReceiveIsr, FsqfIsr
  <2>3. ASSUME NEW q \in 1 .. WEIGHT, PollStart(q) PROVE StopIsRemembered'
    BY <2>3 DEF PollStart
  <2>4. CASE PollEqual \/ LoopEnd \/ LoopReceive \/ LoopNoMemory \/ LoopNoPacket
    BY <2>4 DEF PollEqual, LoopEnd, LoopReceive, LoopNoMemory, LoopNoPacket, LoopBody
  <2>5. CASE PollAgain \/ PollRestart \/ PollComplete \/ PollEnable
    BY <2>5 DEF PollAgain, PollRestart, PollComplete, PollEnable
  <2>6. CASE UNCHANGED vars
    BY <2>6 DEF vars
  <2> QED
    BY <2>1, <2>2, <2>3, <2>4, <2>5, <2>6 DEF Next, Poll
<1> QED
  BY <1>1, <1>2, TypeCorrect, PTL DEF Spec

-----------------------------------------------------------------------------

\* Whatever else a step does, it stores a frame, takes one, loses one or leaves
\* the ring and its indexes alone.
LEMMA RingSteps ==
    ASSUME [Next]_vars
    PROVE  \/ \E p \in Frame : HwReceive(p)
           \/ LoopReceive
           \/ LoopNoMemory
           \/ UNCHANGED <<cown, buf, cur_index, fssd, received, losses>>
BY DEF Next, Hw, Poll, vars, ringVars, hwVars, histVars, HwInterrupt, HwQueueFull, ReceiveIsr,
   FsqfIsr, PollStart, PollEqual, LoopEnd, LoopNoPacket, PollAgain, PollRestart, PollComplete,
   PollEnable

\* Until an allocation fails, the frames of the ring lie from cur_index up to
\* FSSD.
LEMMA WindowCorrect == Spec => [](losses = 0 => RingWindow)
<1> DEFINE Inv == losses = 0 => RingWindow
<1>1. Init => Inv
  <2> SUFFICES ASSUME Init PROVE RingWindow
    OBVIOUS
  <2>1. 0 \in Slot
    BY RxAssumption
  <2>2. \A i \in Slot : cown[i] = 0 /\ ~(Distance(0, i) < Distance(0, 0))
    BY <2>1, SlotArithmetic DEF Init
  <2> QED
    BY <2>2 DEF Init, RingWindow
<1>2. ASSUME TypeOK, Inv, [Next]_vars PROVE Inv'
  <2> SUFFICES ASSUME losses' = 0 PROVE RingWindow'
    OBVIOUS
  <2> USE <1>2 DEF TypeOK
  <2>1. ASSUME NEW p \in Frame, HwReceive(p) PROVE RingWindow'
    BY <2>1, RxAssumption DEF HwReceive, RingWindow, Distance, NextSlot
  <2>2. CASE LoopReceive
    BY <2>2, RxAssumption DEF LoopReceive, RingWindow, Distance, NextSlot, hwVars, histVars
  <2>3. CASE UNCHANGED <<cown, buf, cur_index, fssd, received, losses>>
    BY <2>3 DEF RingWindow, Distance
  <2>4. ~LoopNoMemory
    BY DEF LoopNoMemory, MAX_LOSSES
  <2> QED
    BY <2>1, <2>2, <2>3, <2>4, RingSteps
<1> QED
  BY <1>1, <1>2, TypeCorrect, PTL DEF Spec

\* Until an allocation fails, a descriptor without a frame at cur_index means an
\* empty ring.
THEOREM CurIsOldestCorrect == Spec => []CurIsOldest
<1>1. ASSUME TypeOK, losses = 0 => RingWindow PROVE CurIsOldest
  <2> SUFFICES ASSUME TypeOK, RingWindow, cown[cur_index] = 0 PROVE \A i \in Slot : cown[i] = 0
    BY <1>1 DEF CurIsOldest, CurEmptyRingEmpty
  <2>1. cur_index \in Slot /\ fssd \in Slot /\ cown \in [Slot -> {0, 1}]
    BY DEF TypeOK
  <2>2. /\ Distance(cur_index, cur_index) = 0
        /\ \A i \in Slot : Distance(cur_index, i) \in 0 .. RFD_NUM - 1
    BY <2>1, SlotArithmetic
  <2>3. \A i \in Slot : cown[i] = 1 <=> Distance(cur_index, i) < Distance(cur_index, fssd)
    BY <2>1 DEF RingWindow
  <2>4. Distance(cur_index, fssd) = 0
    BY <2>1, <2>2, <2>3
  <2> QED
    BY <2>1, <2>2, <2>3, <2>4
<1> QED
  BY <1>1, TypeCorrect, WindowCorrect, PTL

\* After one failed allocation the ring has one gap, between the frames or, when
\* the engine has filled it, none and FSSD one slot too far.
LEMMA SkewCorrect == Spec => [](losses = 1 => SkewWindow)
<1> DEFINE Window == losses = 0 => RingWindow
           Skew == losses = 1 => SkewWindow
<1>1. Init => Skew
  BY DEF Init
<1>2. ASSUME TypeOK, Window, Skew, [Next]_vars PROVE Skew'
  <2> SUFFICES ASSUME losses' = 1 PROVE SkewWindow'
    OBVIOUS
  <2> USE <1>2 DEF TypeOK
  <2>1. ASSUME NEW p \in Frame, HwReceive(p) PROVE SkewWindow'
    <3> USE RxAssumption, <2>1 DEF HwReceive
    <3>1. CASE fssd = NextSlot(cur_index) /\ \A i \in Slot : cown[i] = 1
      BY <3>1
    <3>2. ASSUME NEW h \in Slot, GapAt(h), fssd = cur_index PROVE SkewWindow'
      BY <3>2 DEF SkewWindow, GapAt, Between, Distance, NextSlot
    <3>3. ASSUME NEW h \in Slot, GapAt(h), fssd # cur_index PROVE SkewWindow'
      <4>1. GapAt(h)'
        BY <3>3 DEF GapAt, Between, Distance, NextSlot
      <4> QED
        BY <4>1 DEF SkewWindow
    <3> QED
      BY <3>1, <3>2, <3>3 DEF SkewWindow
  <2>2. CASE LoopReceive
    <3> USE RxAssumption, <2>2 DEF LoopReceive, hwVars, histVars
    <3>1. CASE fssd = NextSlot(cur_index) /\ \A i \in Slot : cown[i] = 1
      <4> PICK h \in Slot : h = cur_index
        OBVIOUS
      <4>1. GapAt(h)'
        BY <3>1 DEF GapAt, Between, Distance, NextSlot
      <4> QED
        BY <4>1 DEF SkewWindow
    <3>2. ASSUME NEW h \in Slot, GapAt(h) PROVE SkewWindow'
      <4>1. GapAt(h)'
        BY <3>2 DEF GapAt, Between, Distance, NextSlot
      <4> QED
        BY <4>1 DEF SkewWindow
    <3> QED
      BY <3>1, <3>2 DEF SkewWindow
  <2>3. CASE LoopNoMemory
    <3>1. losses = 0
      BY <2>3 DEF LoopNoMemory, MAX_LOSSES
    <3>2. RingWindow
      BY <3>1
    <3> PICK h \in Slot : h = cur_index
      OBVIOUS
    <3>3. GapAt(h)'
      BY <2>3, <3>2, RxAssumption DEF LoopNoMemory, RingWindow, GapAt, Between, Distance, hwVars
    <3> QED
      BY <3>3 DEF SkewWindow
  <2>4. CASE UNCHANGED <<cown, buf, cur_index, fssd, received, losses>>
    BY <2>4 DEF SkewWindow, GapAt, Between, Distance, NextSlot
  <2> QED
    BY <2>1, <2>2, <2>3, <2>4, RingSteps
<1> QED
  BY <1>1, <1>2, TypeCorrect, WindowCorrect, PTL DEF Spec

\* A single failed allocation never stops the receive path for good.
THEOREM OneLossNoWedgeCorrect == Spec => []OneLossNoWedge
<1>1. ASSUME TypeOK, losses = 0 => RingWindow, losses = 1 => SkewWindow PROVE OneLossNoWedge
  <2> SUFFICES ASSUME losses \in {0, 1}, cown[cur_index] = 0, cown[fssd] = 1 PROVE FALSE
    BY <1>1 DEF OneLossNoWedge, Wedged, TypeOK, MAX_LOSSES
  <2> USE <1>1, RxAssumption DEF TypeOK
  <2>1. CASE losses = 0
    BY <2>1 DEF RingWindow, Distance
  <2>2. CASE losses = 1
    BY <2>2 DEF SkewWindow, GapAt, Between, Distance
  <2> QED
    BY <2>1, <2>2
<1> QED
  BY <1>1, TypeCorrect, WindowCorrect, SkewCorrect, PTL

\* Frames are passed up in the order in which they came until two allocations have
\* failed, but for the newest frame of a full ring after the first failure.
THEOREM OvertakesFullRingOnlyCorrect == Spec => OvertakesFullRingOnly
<1> DEFINE FullRing == fssd = NextSlot(cur_index) /\ \A i \in Slot : cown[i] = 1
           InOrder == LoopReceive => \/ losses > 1
                                     \/ Oldest(cur_index)
                                     \/ losses = 1 /\ FullRing
<1>1. ASSUME TypeOK, losses = 0 => RingWindow, losses = 1 => SkewWindow, LoopReceive
      PROVE  losses > 1 \/ Oldest(cur_index) \/ (losses = 1 /\ FullRing)
  <2> USE RxAssumption DEF TypeOK
  <2>1. cown[cur_index] = 1 /\ losses \in 0 .. 2
    BY <1>1 DEF LoopReceive, MAX_LOSSES
  <2>2. CASE losses = 0
    BY <1>1, <2>1, <2>2 DEF RingWindow, Oldest, Distance
  <2>3. ASSUME NEW h \in Slot, GapAt(h) PROVE Oldest(cur_index)
    BY <1>1, <2>3 DEF GapAt, Between, Oldest, Distance
  <2>4. CASE losses = 1
    BY <1>1, <2>3, <2>4 DEF SkewWindow
  <2> QED
    BY <2>1, <2>2, <2>4
<1>2. TypeOK /\ (losses = 0 => RingWindow) /\ (losses = 1 => SkewWindow) /\ [Next]_vars
      => [InOrder]_vars
  BY <1>1
<1> QED
  BY <1>2, TypeCorrect, WindowCorrect, SkewCorrect, PTL DEF Spec, OvertakesFullRingOnly

\* One failed allocation leaves the ring out of step for good.
THEOREM OutOfStepCorrect == Spec => []OutOfStep
<1>1. ASSUME TypeOK, losses = 1 => SkewWindow PROVE OutOfStep
  <2> SUFFICES ASSUME RFD_NUM > 1, SkewWindow, RingWindow PROVE FALSE
    BY <1>1 DEF OutOfStep
  <2> USE <1>1, RxAssumption DEF TypeOK
  <2>1. ASSUME NEW h \in Slot, GapAt(h) PROVE FALSE
    BY <2>1 DEF GapAt, Between, RingWindow, Distance
  <2>2. CASE fssd = NextSlot(cur_index) /\ \A i \in Slot : cown[i] = 1
    BY <2>2 DEF RingWindow, Distance, NextSlot
  <2> QED
    BY <2>1, <2>2 DEF SkewWindow
<1> QED
  BY <1>1, TypeCorrect, SkewCorrect, PTL

-----------------------------------------------------------------------------

\* Every descriptor of the CPU has a frame.
LEMMA OwnedCorrect == Spec => []OwnedHasFrame
<1>1. Init => OwnedHasFrame
  BY DEF Init, OwnedHasFrame
<1>2. ASSUME TypeOK, OwnedHasFrame, [Next]_vars PROVE OwnedHasFrame'
  <2> USE <1>2 DEF TypeOK, ringVars, histVars
  <2>1. ASSUME NEW p \in Frame, HwReceive(p) PROVE OwnedHasFrame'
    BY <2>1, RxAssumption DEF HwReceive, OwnedHasFrame
  <2>2. CASE LoopReceive
    BY <2>2 DEF LoopReceive, OwnedHasFrame
  <2>3. CASE LoopNoMemory
    BY <2>3 DEF LoopNoMemory, OwnedHasFrame
  <2>4. CASE UNCHANGED <<cown, buf, cur_index, fssd, received, losses>>
    BY <2>4 DEF OwnedHasFrame
  <2> QED
    BY <2>1, <2>2, <2>3, <2>4, RingSteps
<1> QED
  BY <1>1, <1>2, TypeCorrect, PTL DEF Spec

-----------------------------------------------------------------------------
(* The ring implements a queue.                                            *)

\* Two functions on an interval that differ by one element at the end, or at the
\* beginning, as sequences.
LEMMA Appended ==
    ASSUME NEW S, NEW n \in Nat, NEW g \in [1 .. n -> S], NEW h \in [1 .. n + 1 -> S],
           \A k \in 1 .. n : h[k] = g[k]
    PROVE  Len(g) = n /\ h = Append(g, h[n + 1])
<1>1. g \in Seq(S) /\ Len(g) = n /\ h \in Seq(S) /\ Len(h) = n + 1
  OBVIOUS
<1>2. Append(g, h[n + 1]) \in Seq(S) /\ Len(Append(g, h[n + 1])) = n + 1
  BY <1>1
<1>3. \A k \in 1 .. n + 1 : h[k] = Append(g, h[n + 1])[k]
  BY <1>1
<1> QED
  BY <1>1, <1>2, <1>3, SeqEqual

LEMMA TakenOff ==
    ASSUME NEW S, NEW n \in Nat \ {0}, NEW g \in [1 .. n -> S], NEW h \in [1 .. n - 1 -> S],
           \A k \in 1 .. n - 1 : h[k] = g[k + 1]
    PROVE  g # <<>> /\ Head(g) = g[1] /\ h = Tail(g)
<1>1. g \in Seq(S) /\ Len(g) = n /\ h \in Seq(S) /\ Len(h) = n - 1
  OBVIOUS
<1>2. g # <<>> /\ Tail(g) \in Seq(S) /\ Len(Tail(g)) = n - 1 /\ Head(g) = g[1]
  BY <1>1
<1>3. \A k \in 1 .. n - 1 : h[k] = Tail(g)[k]
  BY <1>1
<1> QED
  BY <1>1, <1>2, <1>3, SeqEqual

LEMMA PlusFacts ==
    ASSUME NEW i \in Slot, NEW k \in 0 .. RFD_NUM - 1
    PROVE  /\ Plus(i, k) \in Slot
           /\ Plus(i, 0) = i
           /\ k < RFD_NUM - 1 => Plus(NextSlot(i), k) = Plus(i, k + 1)
           /\ \A m \in 0 .. RFD_NUM - 1 : Plus(i, m) = Plus(i, k) => m = k
BY RxAssumption DEF Plus, NextSlot

LEMMA HeldType == TypeOK => Held \in 0 .. RFD_NUM
<1>1. TypeOK => Distance(cur_index, fssd) \in 0 .. RFD_NUM - 1
  BY SlotArithmetic DEF TypeOK
<1> QED
  BY <1>1, RxAssumption DEF Held

LEMMA QueuedType == TypeOK => Queued \in [1 .. Held -> Frame \cup {NoFrame}]
<1> SUFFICES ASSUME TypeOK, NEW k \in 1 .. Held
             PROVE  buf[Plus(cur_index, k - 1)] \in Frame \cup {NoFrame}
  BY DEF Queued
<1>1. k - 1 \in 0 .. RFD_NUM - 1
  BY HeldType, RxAssumption
<1> QED
  BY <1>1, PlusFacts DEF TypeOK

LEMMA QueuedTypeNext == (TypeOK => Queued \in [1 .. Held -> Frame \cup {NoFrame}])'
BY QueuedType, PTL

\* A frame that the engine stores is behind the others.
LEMMA ArriveStep ==
    ASSUME TypeOK, TypeOK', RingWindow, NEW p \in Frame, HwReceive(p)
    PROVE  Len(Queued) < RFD_NUM /\ Queued' = Append(Queued, p)
<1>1. /\ cown[fssd] = 0 /\ cown' = [cown EXCEPT ![fssd] = 1]
      /\ buf' = [buf EXCEPT ![fssd] = p] /\ fssd' = NextSlot(fssd) /\ cur_index' = cur_index
  BY DEF HwReceive
<1>2. Held < RFD_NUM /\ Held' = Held + 1 /\ Plus(cur_index, Held) = fssd
  BY <1>1, RxAssumption DEF TypeOK, RingWindow, Held, Distance, NextSlot, Plus
<1>3. ASSUME NEW k \in 1 .. Held
      PROVE  Plus(cur_index, k - 1) # fssd /\ Plus(cur_index, k - 1) \in Slot
  <2>1. Held \in 0 .. RFD_NUM - 1 /\ k - 1 \in 0 .. RFD_NUM - 1 /\ k - 1 # Held
    BY <1>2, HeldType, RxAssumption
  <2>2. cur_index \in Slot
    BY DEF TypeOK
  <2> QED
    BY <1>2, <2>1, <2>2, PlusFacts
<1>4. /\ Queued \in [1 .. Held -> Frame \cup {NoFrame}]
      /\ Queued' \in [1 .. Held + 1 -> Frame \cup {NoFrame}]
  BY <1>2, QueuedType, QueuedTypeNext
<1>5. Queued' = [k \in 1 .. Held + 1 |-> buf'[Plus(cur_index, k - 1)]]
  BY <1>1, <1>2 DEF Queued, Plus
<1>6. ASSUME NEW k \in 1 .. Held PROVE Queued'[k] = Queued[k]
  <2>1. Queued'[k] = buf'[Plus(cur_index, k - 1)] /\ Queued[k] = buf[Plus(cur_index, k - 1)]
    <3>1. k \in 1 .. Held + 1
      BY HeldType
    <3> QED
      BY <1>5, <3>1 DEF Queued
  <2> QED
    BY <1>1, <1>3, <2>1 DEF TypeOK
<1>7. Queued'[Held + 1] = p
  <2>1. Queued'[Held + 1] = buf'[Plus(cur_index, Held)]
    BY <1>5, HeldType
  <2> QED
    BY <1>1, <1>2, <2>1 DEF TypeOK
<1> QED
  BY <1>2, <1>4, <1>6, <1>7, HeldType, Appended

\* A frame that the poll takes is the first.
LEMMA TakeStep ==
    ASSUME TypeOK, TypeOK', RingWindow, LoopReceive
    PROVE  Queued # <<>> /\ received' = Head(Queued) /\ Queued' = Tail(Queued)
<1>1. /\ cown[cur_index] = 1 /\ cown' = [cown EXCEPT ![cur_index] = 0]
      /\ buf' = [buf EXCEPT ![cur_index] = NoFrame] /\ cur_index' = NextSlot(cur_index)
      /\ fssd' = fssd /\ received' = buf[cur_index]
  BY DEF LoopReceive, hwVars
<1>2. Held > 0 /\ Held' = Held - 1
  <2>1. /\ cur_index \in Slot /\ fssd \in Slot /\ cown \in [Slot -> {0, 1}]
        /\ NextSlot(cur_index) \in Slot
        /\ Distance(cur_index, cur_index) = 0 /\ Distance(cur_index, fssd) \in Int
    <3>1. cur_index \in Slot /\ fssd \in Slot /\ cown \in [Slot -> {0, 1}]
      BY DEF TypeOK
    <3>2. Distance(cur_index, fssd) \in Int
      BY <3>1, RxAssumption DEF Distance, Slot
    <3> QED
      BY <3>1, <3>2, SlotArithmetic
  <2>2. CASE fssd = cur_index
    <3>1. \A i \in Slot : cown[i] = 1
      BY <1>1, <2>1, <2>2 DEF RingWindow
    <3> QED
      BY <1>1, <2>1, <2>2, <3>1, RxAssumption DEF Held, Distance, NextSlot
  <2>3. CASE fssd # cur_index
    <3>1. cown[fssd] = 0
      BY <1>1, <2>1, <2>3 DEF RingWindow
    <3> QED
      BY <1>1, <2>1, <2>3, <3>1, RxAssumption DEF Held, Distance, NextSlot
  <2> QED
    BY <2>2, <2>3
<1>3. ASSUME NEW k \in 1 .. Held - 1
      PROVE  /\ Plus(cur_index', k - 1) = Plus(cur_index, k)
             /\ Plus(cur_index, k) # cur_index /\ Plus(cur_index, k) \in Slot
  <2>1. k \in 0 .. RFD_NUM - 1 /\ k - 1 \in 0 .. RFD_NUM - 1 /\ k - 1 < RFD_NUM - 1 /\ k # 0
    BY <1>2, HeldType, RxAssumption
  <2>2. cur_index \in Slot /\ 0 \in 0 .. RFD_NUM - 1
    BY RxAssumption DEF TypeOK
  <2> QED
    BY <1>1, <2>1, <2>2, PlusFacts
<1>4. /\ Queued \in [1 .. Held -> Frame \cup {NoFrame}]
      /\ Queued' \in [1 .. Held - 1 -> Frame \cup {NoFrame}]
  BY <1>2, QueuedType, QueuedTypeNext
<1>5. ASSUME NEW k \in 1 .. Held - 1 PROVE Queued'[k] = Queued[k + 1]
  <2>1. Queued'[k] = buf'[Plus(cur_index, k)]
    BY <1>2, <1>3 DEF Queued, Plus
  <2>2. Queued[k + 1] = buf[Plus(cur_index, k)]
    BY <1>2, HeldType DEF Queued
  <2> QED
    BY <1>1, <1>3, <2>1, <2>2 DEF TypeOK
<1>6. Queued[1] = buf[cur_index]
  <2>1. 1 \in 1 .. Held /\ cur_index \in Slot /\ 0 \in 0 .. RFD_NUM - 1
    BY <1>2, HeldType, RxAssumption DEF TypeOK
  <2>2. Queued[1] = buf[Plus(cur_index, 0)]
    BY <2>1 DEF Queued
  <2> QED
    BY <2>1, <2>2, PlusFacts
<1> QED
  BY <1>1, <1>2, <1>4, <1>5, <1>6, HeldType, TakenOff

\* The receive path implements a bounded first-in first-out queue of frames,
\* until an allocation fails.
THEOREM ImplementsFifoCorrect == Spec => ImplementsFifo
<1> DEFINE Window == losses = 0 => RingWindow
           fifoVars == <<IF losses = 0 THEN Queued ELSE <<>>, received, losses > 0>>
<1>1. Init => Fifo!Init
  <2> SUFFICES ASSUME Init PROVE Fifo!Init
    OBVIOUS
  <2>1. Held = 0
    BY RxAssumption DEF Init, Held, Distance
  <2>2. Queued = <<>>
    BY <2>1 DEF Queued
  <2> QED
    BY <2>2 DEF Init, Fifo!Init
<1>2. ASSUME TypeOK, TypeOK', Window, OwnedHasFrame, [Next]_vars
      PROVE  [Fifo!Next]_fifoVars
  <2> USE <1>2
  <2>1. losses \in 0 .. 2
    BY DEF TypeOK, MAX_LOSSES
  <2>2. ASSUME NEW p \in Frame, HwReceive(p) PROVE [Fifo!Next]_fifoVars
    <3>1. UNCHANGED <<received, losses>>
      BY <2>2 DEF HwReceive
    <3>2. CASE losses = 0
      <4>1. Fifo!Arrive(p)
        BY <2>2, <3>1, <3>2, ArriveStep DEF Fifo!Arrive
      <4> QED
        BY <4>1 DEF Fifo!Next
    <3>3. CASE losses # 0
      BY <3>1, <3>3
    <3> QED
      BY <3>2, <3>3
  <2>3. CASE LoopReceive
    <3>1. losses' = losses
      BY <2>3 DEF LoopReceive, histVars
    <3>2. CASE losses = 0
      <4>1. Fifo!Take
        BY <2>3, <3>1, <3>2, TakeStep DEF Fifo!Take
      <4> QED
        BY <4>1 DEF Fifo!Next
    <3>3. CASE losses # 0
      <4>1. received' \in Frame
        BY <2>3 DEF LoopReceive, OwnedHasFrame, TypeOK
      <4>2. Fifo!TakeAny
        BY <2>1, <3>1, <3>3, <4>1 DEF Fifo!TakeAny
      <4> QED
        BY <4>2 DEF Fifo!Next
    <3> QED
      BY <3>2, <3>3
  <2>4. CASE LoopNoMemory
    <3>1. received' = received /\ losses' > 0
      BY <2>1, <2>4 DEF LoopNoMemory, MAX_LOSSES
    <3>2. CASE losses = 0
      <4>1. Fifo!Break
        BY <3>1, <3>2 DEF Fifo!Break
      <4> QED
        BY <4>1 DEF Fifo!Next
    <3>3. CASE losses # 0
      BY <2>1, <3>1, <3>3
    <3> QED
      BY <3>2, <3>3
  <2>5. CASE UNCHANGED <<cown, buf, cur_index, fssd, received, losses>>
    <3>1. Queued' = Queued
      BY <2>5 DEF Queued, Held, Distance, Plus
    <3> QED
      BY <2>5, <3>1
  <2> QED
    BY <2>2, <2>3, <2>4, <2>5, RingSteps
<1> QED
  BY <1>1, <1>2, TypeCorrect, WindowCorrect, OwnedCorrect, PTL DEF Spec, ImplementsFifo, Fifo!Spec

=============================================================================
