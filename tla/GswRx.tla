------------------------------- MODULE GswRx -------------------------------
(***************************************************************************)
(* The receive path of the STR9100 gigabit-switch driver                   *)
(* (drivers/net/str9100/star_gsw.c) with NAPI: the ring of receive         *)
(* descriptors and the FS DMA engine that fills it, the FSRC (receive      *)
(* complete) and FSQF (queue full) interrupts, which the interrupt         *)
(* controller latches as edges, and star_gsw_poll.                         *)
(*                                                                         *)
(* There is one processor.  An interrupt handler is one step: it reads no  *)
(* descriptor, so an event of the engine during it can be moved before or  *)
(* after it.  The poll is one step per access to what the engine or a      *)
(* handler also uses, with the processor taking a pending interrupt before *)
(* the next step of the poll.                                              *)
(***************************************************************************)
EXTENDS Integers, Sequences

CONSTANTS
    RFD_NUM,       \* STAR_GSW_MAX_RFD_NUM, number of receive descriptors
    WEIGHT,        \* STAR_NAPI_DEV.weight: largest work_to_do of one poll
    Frame,         \* what arrives
    NoFrame,       \* an empty buffer
    AllocMayFail   \* whether star_gsw_alloc_skb may find no memory

ASSUME RxAssumption ==
    /\ RFD_NUM \in Nat \ {0}
    /\ WEIGHT \in Nat \ {0}
    /\ NoFrame \notin Frame
    /\ AllocMayFail \in BOOLEAN

VARIABLES
    cown,           \* cown[i]: 1 when descriptor i holds a frame for the CPU
    buf,            \* buf[i]: the frame in the buffer of descriptor i
    cur_index,      \* rxring.cur_index: where the poll looks next
    fsdma,          \* GSW_FS_DMA_CONTROL
    fssd,           \* FSSD: the descriptor the engine fills next
    delayed,        \* a delayed interrupt of the engine is due
    fsrc,           \* FSRC edge latched in the interrupt controller
    fsqf,           \* FSQF edge latched in the interrupt controller
    masked,         \* mask bit of FSRC
    disable_depth,  \* irq_desc[FSRC].disable_depth
    is_qf,          \* the driver's queue-full flag
    rx_sched,       \* __LINK_STATE_RX_SCHED of STAR_NAPI_DEV
    poll_list,      \* STAR_NAPI_DEV is on the processor's poll list
    pc,             \* where star_gsw_poll is
    rxcount,        \* iterations left of the loop of star_gsw_receive_packet
    work_done, work_to_do,
    received,       \* the last frame that star_gsw_get_rfd_buff took
    sneaked,        \* history: a frame came between the poll's finding the
                    \* ring empty and its enable_irq
    losses          \* history: frames lost to failed allocations, counted to MAX_LOSSES

ringVars == <<cown, buf, cur_index>>
hwVars   == <<fsdma, fssd, delayed>>
irqVars  == <<fsrc, fsqf, masked, disable_depth, is_qf>>
napiVars == <<rx_sched, poll_list>>
pollVars == <<pc, rxcount, work_done, work_to_do>>
histVars == <<sneaked, losses>>
vars     == <<ringVars, hwVars, irqVars, napiVars, pollVars, received, histVars>>

\* Bound: more losses than this are not told apart.
MAX_LOSSES == 2

Slot == 0 .. RFD_NUM - 1

\* The processor takes a latched, unmasked interrupt before anything else.
InterruptPending == fsqf \/ (fsrc /\ ~masked)

\* star_gsw_receive_packet enters the body of its loop.
LoopBody == pc = "loop" /\ ~InterruptPending /\ rxcount > 0 /\ work_done < work_to_do

-----------------------------------------------------------------------------
(* Faulty forms of the definitions below, each with one plausible mistake. *)
(* The runs show that the properties tell them from the code.              *)

ReceiveIsr_NoDisable ==
    /\ fsrc
    /\ ~masked
    /\ fsrc' = FALSE
    /\ rx_sched' = TRUE
    /\ poll_list' = TRUE
    /\ UNCHANGED <<ringVars, hwVars, fsqf, masked, disable_depth, is_qf, pollVars,
                   received, histVars>>

PollEqual_AlwaysEmpty ==
    /\ pc = "equal"
    /\ ~InterruptPending
    /\ rxcount' = 0
    /\ pc' = "exit"
    /\ sneaked' = FALSE
    /\ UNCHANGED <<ringVars, hwVars, irqVars, napiVars, work_done, work_to_do, received, losses>>

LoopReceive_AnyOwner ==
    /\ LoopBody
    /\ received' = buf[cur_index]
    /\ buf' = [buf EXCEPT ![cur_index] = NoFrame]
    /\ cown' = [cown EXCEPT ![cur_index] = 0]
    /\ cur_index' = (cur_index + 1) % RFD_NUM
    /\ work_done' = work_done + 1
    /\ rxcount' = rxcount - 1
    /\ UNCHANGED <<hwVars, irqVars, napiVars, pc, work_to_do, histVars>>

LoopReceive_NoAdvance ==
    /\ LoopBody
    /\ cown[cur_index] = 1
    /\ received' = buf[cur_index]
    /\ buf' = [buf EXCEPT ![cur_index] = NoFrame]
    /\ cown' = [cown EXCEPT ![cur_index] = 0]
    /\ work_done' = work_done + 1
    /\ rxcount' = rxcount - 1
    /\ UNCHANGED <<cur_index, hwVars, irqVars, napiVars, pc, work_to_do, histVars>>

LoopNoPacket_MoveOn ==
    /\ LoopBody
    /\ cown[cur_index] = 0
    /\ cur_index' = (cur_index + 1) % RFD_NUM
    /\ work_done' = work_done + 1
    /\ rxcount' = rxcount - 1
    /\ UNCHANGED <<cown, buf, hwVars, irqVars, napiVars, pc, work_to_do, received, histVars>>

LoopNoMemory_KeepOwner ==
    /\ AllocMayFail
    /\ LoopBody
    /\ cown[cur_index] = 1
    /\ cur_index' = (cur_index + 1) % RFD_NUM
    /\ work_done' = work_done + 1
    /\ pc' = "exit"
    /\ losses' = IF losses < MAX_LOSSES THEN losses + 1 ELSE losses
    /\ UNCHANGED <<cown, buf, hwVars, irqVars, napiVars, rxcount, work_to_do, received, sneaked>>

PollAgain_NoRestart ==
    /\ pc = "exit"
    /\ ~InterruptPending
    /\ work_done > 0
    /\ is_qf' = FALSE
    /\ pc' = "idle"
    /\ UNCHANGED <<ringVars, hwVars, fsrc, fsqf, masked, disable_depth, napiVars,
                   rxcount, work_done, work_to_do, received, histVars>>

-----------------------------------------------------------------------------
\* The slot after i, in the ring of STAR_GSW_MAX_RFD_NUM descriptors.
NextSlot(i) == IF i = RFD_NUM - 1 THEN 0 ELSE i + 1

\* rxcount as star_gsw_receive_packet computes it from the two indexes.
Distance(i, j) == IF j >= i THEN j - i ELSE (RFD_NUM - i) + j

\* After star_gsw_buffer_alloc, star_gsw_hw_init and star_gsw_open.
Init ==
    /\ cown = [i \in Slot |-> 0]
    /\ buf = [i \in Slot |-> NoFrame]
    /\ cur_index = 0
    /\ fsdma = TRUE
    /\ fssd = 0
    /\ delayed = FALSE
    /\ fsrc = FALSE
    /\ fsqf = FALSE
    /\ masked = FALSE
    /\ disable_depth = 0
    /\ is_qf = FALSE
    /\ rx_sched = FALSE
    /\ poll_list = FALSE
    /\ pc = "idle"
    /\ rxcount = 0
    /\ work_done = 0
    /\ work_to_do = 1
    /\ received = NoFrame
    /\ sneaked = FALSE
    /\ losses = 0

-----------------------------------------------------------------------------
(* The FS DMA engine.                                                      *)

\* The poll has found no work and has not enabled the interrupt yet.
PollLeaving == pc = "enable" \/ (pc = "exit" /\ work_done = 0)

\* A frame is stored; with GSW_DELAYED_INTERRUPT_CONFIG its interrupt is due
\* some time later, together with those of other frames.
HwReceive(p) ==
    /\ fsdma
    /\ cown[fssd] = 0
    /\ \A i \in Slot : buf[i] # p
    /\ cown' = [cown EXCEPT ![fssd] = 1]
    /\ buf' = [buf EXCEPT ![fssd] = p]
    /\ fssd' = NextSlot(fssd)
    /\ delayed' = TRUE
    /\ sneaked' = (sneaked \/ PollLeaving)
    /\ UNCHANGED <<cur_index, fsdma, irqVars, napiVars, pollVars, received, losses>>

HwInterrupt ==
    /\ delayed
    /\ delayed' = FALSE
    /\ fsrc' = TRUE
    /\ UNCHANGED <<ringVars, fsdma, fssd, fsqf, masked, disable_depth, is_qf,
                   napiVars, pollVars, received, histVars>>

\* A frame comes and every descriptor is full: the engine stops and says so.
HwQueueFull ==
    /\ fsdma
    /\ cown[fssd] = 1
    /\ fsdma' = FALSE
    /\ fsqf' = TRUE
    /\ UNCHANGED <<ringVars, fssd, delayed, fsrc, masked, disable_depth, is_qf,
                   napiVars, pollVars, received, histVars>>

Hw == (\E p \in Frame : HwReceive(p)) \/ HwInterrupt \/ HwQueueFull

-----------------------------------------------------------------------------
(* Interrupts: do_level_IRQ masks the line, runs the handler and unmasks   *)
(* the line if the handler left it enabled.  str9100_unmask_irq clears the *)
(* latched edge before it unmasks.                                         *)

\* star_gsw_receive_isr: clear the edge, disable_irq, put STAR_NAPI_DEV on the
\* poll list; if it is scheduled already, enable_irq, which unmasks the line.
\* A line with a nonzero disable_depth is only masked.
ReceiveIsr ==
    /\ fsrc
    /\ ~masked
    /\ masked' = (disable_depth > 0 \/ ~rx_sched)
    /\ fsrc' = (fsrc /\ disable_depth > 0)
    /\ disable_depth' = IF disable_depth = 0 /\ ~rx_sched THEN 1 ELSE disable_depth
    /\ rx_sched' = IF disable_depth = 0 THEN TRUE ELSE rx_sched
    /\ poll_list' = IF disable_depth = 0 /\ ~rx_sched THEN TRUE ELSE poll_list
    /\ UNCHANGED <<ringVars, hwVars, fsqf, is_qf, pollVars, received, histVars>>

\* star_gsw_fsqf_isr: clear the edge, set_bit(0, &is_qf).
FsqfIsr ==
    /\ fsqf
    /\ fsqf' = FALSE
    /\ is_qf' = TRUE
    /\ UNCHANGED <<ringVars, hwVars, fsrc, masked, disable_depth,
                   napiVars, pollVars, received, histVars>>

-----------------------------------------------------------------------------
(* star_gsw_poll, called by net_rx_action while the device is listed.      *)

\* work_to_do = min(*budget, quota), both positive here; then
\* star_gsw_receive_packet reads FSSD and compares it with cur_index.
PollStart(q) ==
    /\ pc = "idle"
    /\ poll_list
    /\ ~InterruptPending
    /\ work_to_do' = q
    /\ work_done' = 0
    /\ rxcount' = Distance(cur_index, fssd)
    /\ pc' = IF fssd = cur_index THEN "equal" ELSE "loop"
    /\ UNCHANGED <<ringVars, hwVars, irqVars, napiVars, received, histVars>>

\* Equal indexes: the ring is empty or full, as the descriptor tells.
PollEqual ==
    /\ pc = "equal"
    /\ ~InterruptPending
    /\ rxcount' = IF cown[cur_index] = 0 THEN 0 ELSE RFD_NUM
    /\ pc' = IF cown[cur_index] = 0 THEN "exit" ELSE "loop"
    /\ sneaked' = (sneaked /\ cown[cur_index] # 0)
    /\ UNCHANGED <<ringVars, hwVars, irqVars, napiVars, work_done, work_to_do, received, losses>>

\* The loop ends: rxcount descriptors seen, or the work allowed is done.
LoopEnd ==
    /\ pc = "loop"
    /\ ~InterruptPending
    /\ rxcount = 0 \/ work_done >= work_to_do
    /\ pc' = "exit"
    /\ UNCHANGED <<ringVars, hwVars, irqVars, napiVars, rxcount, work_done, work_to_do, received, histVars>>

\* A frame: star_gsw_get_rfd_buff takes it, the descriptor gets a new buffer
\* and goes back to the engine.
LoopReceive ==
    /\ LoopBody
    /\ cown[cur_index] = 1
    /\ received' = buf[cur_index]
    /\ buf' = [buf EXCEPT ![cur_index] = NoFrame]
    /\ cown' = [cown EXCEPT ![cur_index] = 0]
    /\ cur_index' = NextSlot(cur_index)
    /\ work_done' = work_done + 1
    /\ rxcount' = rxcount - 1
    /\ UNCHANGED <<hwVars, irqVars, napiVars, pc, work_to_do, histVars>>

\* No memory for a new buffer: the descriptor goes back to the engine with the
\* buffer it has, the frame in it is lost, and the function returns with
\* cur_index where it was.
LoopNoMemory ==
    /\ AllocMayFail
    /\ LoopBody
    /\ cown[cur_index] = 1
    /\ buf' = [buf EXCEPT ![cur_index] = NoFrame]
    /\ cown' = [cown EXCEPT ![cur_index] = 0]
    /\ work_done' = work_done + 1
    /\ pc' = "exit"
    /\ losses' = IF losses < MAX_LOSSES THEN losses + 1 ELSE losses
    /\ UNCHANGED <<cur_index, hwVars, irqVars, napiVars, rxcount, work_to_do, received, sneaked>>

\* A descriptor of the engine: leave the loop.
LoopNoPacket ==
    /\ LoopBody
    /\ cown[cur_index] = 0
    /\ work_done' = work_done + 1
    /\ pc' = "exit"
    /\ UNCHANGED <<ringVars, hwVars, irqVars, napiVars, rxcount, work_to_do, received, histVars>>

\* Work was done: return 1 and stay on the list, after restarting the engine
\* if the queue was full.
PollAgain ==
    /\ pc = "exit"
    /\ ~InterruptPending
    /\ work_done > 0
    /\ is_qf' = FALSE
    /\ pc' = IF is_qf THEN "restart" ELSE "idle"
    /\ UNCHANGED <<ringVars, hwVars, fsrc, fsqf, masked, disable_depth, napiVars,
                   rxcount, work_done, work_to_do, received, histVars>>

PollRestart ==
    /\ pc = "restart"
    /\ ~InterruptPending
    /\ fsdma' = TRUE
    /\ pc' = "idle"
    /\ UNCHANGED <<ringVars, fssd, delayed, irqVars, napiVars,
                   rxcount, work_done, work_to_do, received, histVars>>

\* No work was done: netif_rx_complete.
PollComplete ==
    /\ pc = "exit"
    /\ ~InterruptPending
    /\ work_done = 0
    /\ rx_sched' = FALSE
    /\ poll_list' = FALSE
    /\ pc' = "enable"
    /\ UNCHANGED <<ringVars, hwVars, irqVars, rxcount, work_done, work_to_do, received, histVars>>

\* enable_irq(FSRC) and return 0.
PollEnable ==
    /\ pc = "enable"
    /\ ~InterruptPending
    /\ disable_depth' = IF disable_depth = 0 THEN 0 ELSE disable_depth - 1
    /\ masked' = IF disable_depth = 1 THEN FALSE ELSE masked
    /\ fsrc' = IF disable_depth = 1 THEN FALSE ELSE fsrc
    /\ pc' = "idle"
    /\ UNCHANGED <<ringVars, hwVars, fsqf, is_qf, napiVars,
                   rxcount, work_done, work_to_do, received, histVars>>

Poll == \/ \E q \in 1 .. WEIGHT : PollStart(q)
        \/ PollEqual \/ LoopEnd \/ LoopReceive \/ LoopNoMemory \/ LoopNoPacket
        \/ PollAgain \/ PollRestart \/ PollComplete \/ PollEnable

Next == Hw \/ ReceiveIsr \/ FsqfIsr \/ Poll

Spec == Init /\ [][Next]_vars

\* The processor takes interrupts and runs the softirq; a delayed interrupt
\* fires when its time is up.  Nothing makes frames arrive.
Fairness ==
    /\ WF_vars(HwInterrupt)
    /\ WF_vars(ReceiveIsr)
    /\ WF_vars(FsqfIsr)
    /\ WF_vars(Poll)

FairSpec == Spec /\ Fairness

-----------------------------------------------------------------------------
(* Properties.                                                             *)

\* The types of the variables.
TypeOK ==
    /\ cown \in [Slot -> {0, 1}]
    /\ buf \in [Slot -> Frame \cup {NoFrame}]
    /\ cur_index \in Slot
    /\ fsdma \in BOOLEAN
    /\ fssd \in Slot
    /\ delayed \in BOOLEAN
    /\ fsrc \in BOOLEAN
    /\ fsqf \in BOOLEAN
    /\ masked \in BOOLEAN
    /\ disable_depth \in {0, 1}
    /\ is_qf \in BOOLEAN
    /\ rx_sched \in BOOLEAN
    /\ poll_list \in BOOLEAN
    /\ pc \in {"idle", "equal", "loop", "exit", "restart", "enable"}
    /\ rxcount \in 0 .. RFD_NUM
    /\ work_done \in 0 .. WEIGHT
    /\ work_to_do \in 1 .. WEIGHT
    /\ received \in Frame \cup {NoFrame}
    /\ sneaked \in BOOLEAN
    /\ losses \in 0 .. MAX_LOSSES

\* The FSRC interrupt is off (disabled once, masked) exactly while the poll
\* answers for the ring: from star_gsw_receive_isr to the enable_irq at the end
\* of star_gsw_poll.  disable_irq and enable_irq stay balanced, the RX_SCHED bit
\* agrees with the poll list, and netif_rx_complete never meets its BUG_ON.
PollOwnsInterrupt ==
    /\ disable_depth = IF rx_sched \/ pc = "enable" THEN 1 ELSE 0
    /\ masked <=> disable_depth = 1
    /\ poll_list <=> rx_sched
    /\ pc \in {"equal", "loop", "exit", "restart"} => poll_list
    /\ pc = "enable" => ~poll_list

\* A descriptor at cur_index with no frame means an empty ring.
CurEmptyRingEmpty == cown[cur_index] = 0 => \A i \in Slot : cown[i] = 0

\* Until an allocation fails that is so: whatever has arrived is at cur_index or
\* behind it, so leaving the loop there, and reading equal indexes as empty,
\* misses nothing.
CurIsOldest == losses = 0 => CurEmptyRingEmpty

\* Why: the frames fill the ring from cur_index up to FSSD.
RingWindow ==
    \/ fssd = cur_index /\ \A i \in Slot : cown[i] = 1
    \/ \A i \in Slot :
          cown[i] = 1 <=> Distance(cur_index, i) < Distance(cur_index, fssd)

\* The engine stops only because the ring filled up, and while it is stopped
\* something remembers that it must be restarted: the latched FSQF edge, is_qf
\* or the poll about to restart it.
StopIsRemembered == fsdma \/ fsqf \/ is_qf \/ pc = "restart"

\* Every descriptor of the CPU has a frame.
OwnedHasFrame == \A i \in Slot : cown[i] = 1 => buf[i] \in Frame

\* Frames wait in the ring, the poll is not scheduled and no interrupt is due:
\* a frame came while the poll was leaving, and enable_irq cleared its edge.
Rotting == /\ pc = "idle"
           /\ ~poll_list /\ ~fsrc /\ ~delayed
           /\ sneaked
           /\ \E i \in Slot : cown[i] = 1

\* An allocation has failed and left cur_index at an empty descriptor with
\* frames behind it: polls take nothing until the engine comes round to it.
BehindLoss == losses > 0 /\ ~CurEmptyRingEmpty

\* A frame in the ring is taken from it, unless it arrived while the poll was
\* going off and its interrupt was lost, or it is behind a lost frame.
TakenUnlessMissed ==
    \A i \in Slot : cown[i] = 1 ~> (cown[i] = 0 \/ Rotting \/ BehindLoss)

\* The poll looks at an empty descriptor and the engine stands at a full one:
\* neither can move, whatever arrives and however often the poll runs.
Wedged == cown[cur_index] = 0 /\ cown[fssd] = 1

\* Why one loss cannot do that: it leaves at most one gap, slot h, among the
\* frames between cur_index and FSSD, and the poll is never past it.
Between(i) == fssd = cur_index \/ Distance(cur_index, i) < Distance(cur_index, fssd)

GapAt(h) == Between(h) /\ \A i \in Slot : cown[i] = 1 <=> i # h /\ Between(i)

SkewWindow == \/ fssd = NextSlot(cur_index) /\ \A i \in Slot : cown[i] = 1
              \/ \E h \in Slot : GapAt(h)

\* One failed allocation costs one frame and the order of others, and receiving
\* goes on when enough frames have come; it takes a second failure, in a ring
\* that the first one has left out of step, to stop the receive path for good.
OneLossNoWedge == Wedged => losses > 1

\* The engine fills the slots in order, so the frame in the first full slot from
\* FSSD on is the one that has waited longest.
Oldest(i) == \A j \in Slot : cown[j] = 1 => Distance(fssd, i) <= Distance(fssd, j)

\* Frames are passed up in the order in which they came until two allocations
\* have failed, but for this: after the first failure the poll waits at the slot it
\* gave back until the engine has come round and filled it, and then takes that
\* newest frame of a full ring before all the others.
OvertakesFullRingOnly ==
    [][LoopReceive =>
          \/ losses > 1
          \/ Oldest(cur_index)
          \/ losses = 1 /\ fssd = NextSlot(cur_index) /\ \A i \in Slot : cown[i] = 1]_vars

\* And it stays so: after one failure the ring is not in step again, however many
\* frames are received, and every turn of the ring ends in such a wait.
OutOfStep == RFD_NUM > 1 /\ losses = 1 => ~RingWindow

\* After a queue-full stop the poll restarts the engine, unless the interrupts
\* of the frames that filled the ring were lost.
RestartedUnlessRotting == ~fsdma ~> (fsdma \/ Rotting)

\* NAPI_HOWTO.txt, "the only way to leave poll is to do a double check for new
\* input": every frame in the ring is taken from it.
FrameTaken == \A i \in Slot : cown[i] = 1 ~> cown[i] = 0

-----------------------------------------------------------------------------
(* The ring as a queue.                                                    *)

\* The slot k steps after slot i, for k up to one turn of the ring.
Plus(i, k) == IF i + k < RFD_NUM THEN i + k ELSE i + k - RFD_NUM

\* The frames between the two indexes; equal indexes are told apart as in
\* star_gsw_receive_packet.
Held == IF fssd = cur_index /\ cown[cur_index] = 1 THEN RFD_NUM ELSE Distance(cur_index, fssd)

\* The refinement mapping: those frames in the order of the poll.
Queued == [k \in 1 .. Held |-> buf[Plus(cur_index, k - 1)]]

Fifo == INSTANCE RxFifo WITH
    queue    <- IF losses = 0 THEN Queued ELSE <<>>,
    broken   <- losses > 0,
    Capacity <- RFD_NUM

\* Until an allocation fails, the ring, the engine and the poll implement a
\* bounded first-in first-out queue of frames.
ImplementsFifo == Fifo!Spec

=============================================================================
