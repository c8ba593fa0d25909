------------------------------- MODULE GswTx -------------------------------
(***************************************************************************)
(* The transmit path of the STR9100 gigabit-switch driver                  *)
(* (drivers/net/str9100/star_gsw.c): star_gsw_send_packet with             *)
(* scatter-gather (STAR_GSW_SG), the ring of transmit descriptors it       *)
(* shares with the TS DMA engine of the switch, and the engine.            *)
(*                                                                         *)
(* The kernel is uniprocessor and hard_start_xmit runs with bottom halves  *)
(* off, so one send_packet runs at a time; what interleaves with it is the *)
(* DMA engine.  A step of the driver is one access to memory the engine    *)
(* reads or writes: the DMA control register, one descriptor's ownership   *)
(* bit.  The fields of descriptors the CPU owns are filled in one step.    *)
(***************************************************************************)
EXTENDS Integers, Sequences, FiniteSets

CONSTANTS
    TFD_NUM,        \* STAR_GSW_MAX_TFD_NUM, number of transmit descriptors
    MAX_SKB_FRAGS,  \* upper bound of skb_shinfo(skb)->nr_frags
    Skb,            \* the socket buffers
    NULL            \* no socket buffer

ASSUME TxAssumption ==
    /\ TFD_NUM \in Nat \ {0}
    /\ MAX_SKB_FRAGS \in Nat
    /\ MAX_SKB_FRAGS < TFD_NUM
    /\ NULL \notin Skb

VARIABLES
    cown,       \* cown[i]: 1 when the CPU owns descriptor i, 0 when the engine does
    fs,         \* fs[i]: 1 on the first segment of a frame
    ls,         \* ls[i]: 1 on the last segment of a frame
    data_ptr,   \* data_ptr[i]: <<skb, f>>, segment f of skb, or <<NULL, 0>>
    skb_ptr,    \* txring.skb_ptr[i]: the buffer to free when slot i is reused
    cur_index,  \* txring.cur_index: the next slot to fill
    dma,        \* GSW_TS_DMA_CONTROL
    tssd,       \* TSSD: the descriptor the engine handles next
    busy,       \* the engine has fetched descriptor tssd and not written it back
    gather,     \* the segments of the frame that the engine is sending
    wire,       \* the last frame sent, as its sequence of segments
    holder,     \* holder[s]: who answers for buffer s: nobody, the stack, the driver
    nr_frags,   \* nr_frags[s]: skb_shinfo(s)->nr_frags
    pc,         \* where send_packet is
    skb,        \* its argument
    f,          \* its loop counter
    index,      \* its cur_index while it checks, its org_index while it releases
    skb_free,   \* its list of buffers to free
    ret         \* what the last call returned

ringVars == <<cown, fs, ls, data_ptr, skb_ptr, cur_index>>
hwVars   == <<dma, tssd, busy, gather, wire>>
skbVars  == <<holder, nr_frags>>
sendVars == <<pc, skb, f, index, skb_free, ret>>
vars     == <<ringVars, hwVars, skbVars, sendVars>>

Slot    == 0 .. TFD_NUM - 1
Segment == (Skb \X (0 .. MAX_SKB_FRAGS)) \cup {<<NULL, 0>>}

-----------------------------------------------------------------------------
(* Faulty forms of the definitions below, each with one plausible mistake. *)
(* The runs show that the properties tell them from the code.              *)

SendStop_KeepRunning(s) ==
    /\ pc = "idle"
    /\ holder[s] = "stack"
    /\ pc' = "check"
    /\ skb' = s
    /\ f' = 0
    /\ index' = cur_index
    /\ skb_free' = <<>>
    /\ UNCHANGED <<ringVars, hwVars, skbVars, ret>>

CheckSlot(free, first) ==
    /\ pc = "check"
    /\ skb_free' = free
    /\ fs' = [fs EXCEPT ![index] = first]
    /\ ls' = [ls EXCEPT ![index] = IF f = nr_frags[skb] THEN 1 ELSE 0]
    /\ index' = (index + 1) % TFD_NUM
    /\ f' = f + 1
    /\ pc' = IF f = nr_frags[skb] THEN "fill" ELSE "check"
    /\ UNCHANGED <<cown, data_ptr, skb_ptr, cur_index, hwVars, skbVars, skb, ret>>

NoteSkb == IF skb_ptr[index] = NULL THEN skb_free ELSE Append(skb_free, skb_ptr[index])

SendCheck_ForgetSkb == cown[index] = 1 /\ CheckSlot(skb_free, IF f = 0 THEN 1 ELSE 0)

SendCheck_NoteLast ==
    cown[index] = 1 /\ CheckSlot(IF skb_ptr[index] = NULL THEN skb_free ELSE <<skb_ptr[index]>>,
                                 IF f = 0 THEN 1 ELSE 0)

SendCheck_KeepFs == cown[index] = 1 /\ CheckSlot(NoteSkb, IF f = 0 THEN 1 ELSE fs[index])

FillSlots(filled, record) ==
    /\ pc = "fill"
    /\ LET seg(i) == (i - cur_index + TFD_NUM) % TFD_NUM
       IN  /\ data_ptr' = [i \in Slot |-> IF seg(i) <= filled THEN <<skb, seg(i)>>
                                          ELSE data_ptr[i]]
           /\ skb_ptr' = [i \in Slot |-> IF seg(i) = record THEN skb
                                         ELSE IF seg(i) <= nr_frags[skb] THEN NULL
                                         ELSE skb_ptr[i]]
    /\ cur_index' = index
    /\ index' = cur_index
    /\ holder' = [holder EXCEPT ![skb] = "driver"]
    /\ f' = 0
    /\ pc' = "release"
    /\ UNCHANGED <<cown, fs, ls, hwVars, nr_frags, skb, skb_free, ret>>

SendFill_OneTooMany == FillSlots(nr_frags[skb] + 1, nr_frags[skb])

SendFill_RecordFirst == FillSlots(nr_frags[skb], 0)

SendStart_NoStart ==
    /\ pc = "start"
    /\ pc' = "free"
    /\ UNCHANGED <<ringVars, hwVars, skbVars, skb, f, index, skb_free, ret>>

-----------------------------------------------------------------------------
\* The slot after i: every index of the ring wraps at STAR_GSW_MAX_TFD_NUM.
NextSlot(i) == IF i + 1 = TFD_NUM THEN 0 ELSE i + 1

\* The number of steps from slot i forward to slot j.
Distance(i, j) == IF i <= j THEN j - i ELSE TFD_NUM - i + j

\* star_gsw_buffer_alloc gives every descriptor to the CPU; hw_init stops the
\* engine and points it at descriptor 0.
Init ==
    /\ cown = [i \in Slot |-> 1]
    /\ fs = [i \in Slot |-> 0]
    /\ ls = [i \in Slot |-> 0]
    /\ data_ptr = [i \in Slot |-> <<NULL, 0>>]
    /\ skb_ptr = [i \in Slot |-> NULL]
    /\ cur_index = 0
    /\ dma = FALSE
    /\ tssd = 0
    /\ busy = FALSE
    /\ gather = <<>>
    /\ wire = <<>>
    /\ holder = [s \in Skb |-> "nobody"]
    /\ nr_frags = [s \in Skb |-> 0]
    /\ pc = "idle"
    /\ skb = NULL
    /\ f = 0
    /\ index = 0
    /\ skb_free = <<>>
    /\ ret = 0

-----------------------------------------------------------------------------
(* The network stack: makes a buffer of 1 + n segments.                    *)

AllocSkb(s, n) ==
    /\ holder[s] = "nobody"
    /\ holder' = [holder EXCEPT ![s] = "stack"]
    /\ nr_frags' = [nr_frags EXCEPT ![s] = n]
    /\ UNCHANGED <<ringVars, hwVars, sendVars>>

-----------------------------------------------------------------------------
(* star_gsw_send_packet.                                                   *)

\* Entry: HAL_GSW_TS_DMA_STOP, then the lock, then org_index = cur_index =
\* txring.cur_index.
SendStop(s) ==
    /\ pc = "idle"
    /\ holder[s] = "stack"
    /\ dma' = FALSE
    /\ pc' = "check"
    /\ skb' = s
    /\ f' = 0
    /\ index' = cur_index
    /\ skb_free' = <<>>
    /\ UNCHANGED <<ringVars, tssd, busy, gather, wire, skbVars, ret>>

\* The check loop finds a descriptor of the engine: return 1.  The stack
\* keeps the buffer; the engine stays stopped.
SendBusy ==
    /\ pc = "check"
    /\ cown[index] = 0
    /\ pc' = "idle"
    /\ skb' = NULL
    /\ skb_free' = <<>>
    /\ ret' = 1
    /\ UNCHANGED <<ringVars, hwVars, skbVars, f, index>>

\* The check loop finds a descriptor of the CPU: note the buffer it still
\* holds, set the segment flags, go on to the next.
SendCheck ==
    /\ pc = "check"
    /\ cown[index] = 1
    /\ skb_free' = IF skb_ptr[index] = NULL THEN skb_free
                   ELSE Append(skb_free, skb_ptr[index])
    /\ fs' = [fs EXCEPT ![index] = IF f = 0 THEN 1 ELSE 0]
    /\ ls' = [ls EXCEPT ![index] = IF f = nr_frags[skb] THEN 1 ELSE 0]
    /\ index' = NextSlot(index)
    /\ f' = f + 1
    /\ pc' = IF f = nr_frags[skb] THEN "fill" ELSE "check"
    /\ UNCHANGED <<cown, data_ptr, skb_ptr, cur_index, hwVars, skbVars, skb, ret>>

\* Fill the descriptors from txring.cur_index on: segment 0 is skb->data, the
\* others are the fragments.  The buffer is recorded at its last slot only.
SendFill ==
    /\ pc = "fill"
    /\ LET n == nr_frags[skb]
           seg(i) == Distance(cur_index, i)
       IN  /\ data_ptr' = [i \in Slot |-> IF seg(i) <= n THEN <<skb, seg(i)>>
                                          ELSE data_ptr[i]]
           /\ skb_ptr' = [i \in Slot |-> IF seg(i) < n THEN NULL
                                         ELSE IF seg(i) = n THEN skb
                                         ELSE skb_ptr[i]]
    /\ cur_index' = index
    /\ index' = cur_index
    /\ holder' = [holder EXCEPT ![skb] = "driver"]
    /\ f' = 0
    /\ pc' = "release"
    /\ UNCHANGED <<cown, fs, ls, hwVars, nr_frags, skb, skb_free, ret>>

\* Hand the descriptors to the engine, one at a time, from org_index on.
SendRelease ==
    /\ pc = "release"
    /\ cown' = [cown EXCEPT ![index] = 0]
    /\ index' = NextSlot(index)
    /\ f' = f + 1
    /\ pc' = IF f = nr_frags[skb] THEN "start" ELSE "release"
    /\ UNCHANGED <<fs, ls, data_ptr, skb_ptr, cur_index, hwVars, skbVars, skb,
                   skb_free, ret>>

\* GSW_TS_DMA_START and the unlock.
SendStart ==
    /\ pc = "start"
    /\ dma' = TRUE
    /\ pc' = "free"
    /\ UNCHANGED <<ringVars, tssd, busy, gather, wire, skbVars, skb, f,
                   index, skb_free, ret>>

\* dev_kfree_skb on the buffers noted by the check loop, in order.
SendFree ==
    /\ pc = "free"
    /\ skb_free # <<>>
    /\ holder' = [holder EXCEPT ![Head(skb_free)] = "nobody"]
    /\ skb_free' = Tail(skb_free)
    /\ UNCHANGED <<ringVars, hwVars, nr_frags, pc, skb, f, index, ret>>

\* return 0.
SendReturn ==
    /\ pc = "free"
    /\ skb_free = <<>>
    /\ pc' = "idle"
    /\ skb' = NULL
    /\ ret' = 0
    /\ UNCHANGED <<ringVars, hwVars, skbVars, f, index, skb_free>>

Send == \/ \E s \in Skb : SendStop(s)
        \/ SendBusy \/ SendCheck \/ SendFill \/ SendRelease
        \/ SendStart \/ SendFree \/ SendReturn

-----------------------------------------------------------------------------
(* The TS DMA engine.  While the control register is 1 it fetches the      *)
(* descriptor at TSSD if it owns it.  A stop lets a fetched descriptor     *)
(* complete and fetches no other.                                          *)

DmaFetch ==
    /\ dma
    /\ ~busy
    /\ cown[tssd] = 0
    /\ busy' = TRUE
    /\ UNCHANGED <<ringVars, dma, tssd, gather, wire, skbVars, sendVars>>

\* The segment is read from memory and the descriptor handed back.
DmaComplete ==
    /\ busy
    /\ LET frame == IF fs[tssd] = 1 THEN <<data_ptr[tssd]>>
                    ELSE Append(gather, data_ptr[tssd])
       IN  /\ gather' = IF ls[tssd] = 1 THEN <<>> ELSE frame
           /\ wire' = IF ls[tssd] = 1 THEN frame ELSE wire
    /\ cown' = [cown EXCEPT ![tssd] = 1]
    /\ tssd' = NextSlot(tssd)
    /\ busy' = FALSE
    /\ UNCHANGED <<fs, ls, data_ptr, skb_ptr, cur_index, dma, skbVars, sendVars>>

Dma == DmaFetch \/ DmaComplete

Next == \/ \E s \in Skb, n \in 0 .. MAX_SKB_FRAGS : AllocSkb(s, n)
        \/ Send
        \/ Dma

Spec == Init /\ [][Next]_vars

\* A send that has started runs to its return, the engine works on what it
\* owns, and a buffer that was refused is tried again: the queueing discipline
\* requeues it and NET_TX_SOFTIRQ runs the queue again.
Fairness ==
    /\ WF_vars(SendBusy \/ SendCheck \/ SendFill \/ SendRelease
               \/ SendStart \/ SendFree \/ SendReturn)
    /\ WF_vars(Dma)
    /\ \A s \in Skb : SF_vars(SendStop(s))

FairSpec == Spec /\ Fairness

-----------------------------------------------------------------------------
(* Properties.                                                             *)

\* The types of the variables.
TypeOK ==
    /\ cown \in [Slot -> {0, 1}]
    /\ fs \in [Slot -> {0, 1}]
    /\ ls \in [Slot -> {0, 1}]
    /\ data_ptr \in [Slot -> Segment]
    /\ skb_ptr \in [Slot -> Skb \cup {NULL}]
    /\ cur_index \in Slot
    /\ dma \in BOOLEAN
    /\ tssd \in Slot
    /\ busy \in BOOLEAN
    /\ gather \in Seq(Segment)
    /\ wire \in Seq(Segment)
    /\ holder \in [Skb -> {"nobody", "stack", "driver"}]
    /\ nr_frags \in [Skb -> 0 .. MAX_SKB_FRAGS]
    /\ pc \in {"idle", "check", "fill", "release", "start", "free"}
    /\ skb \in Skb \cup {NULL}
    /\ pc \in {"check", "fill", "release"} => skb \in Skb
    /\ f \in 0 .. MAX_SKB_FRAGS + 1
    /\ index \in Slot
    /\ skb_free \in Seq(Skb)
    /\ ret \in {0, 1}

\* A descriptor the engine owns, or is sending from, points into a buffer that
\* the driver still holds: no buffer is freed while the engine may read it.
EngineReadsHeldSkb ==
    \A i \in Slot : cown[i] = 0 =>
        data_ptr[i][1] \in Skb /\ holder[data_ptr[i][1]] = "driver"

\* Each buffer the driver has accepted is remembered in exactly one place, the
\* slot of its last segment or the list to free, and no other buffer is: it is
\* neither lost nor freed twice.  Until the slots are refilled the list repeats
\* what the slots still hold.
EachSkbRemembered ==
    \A s \in Skb :
        LET slots  == {i \in Slot : skb_ptr[i] = s}
            listed == IF pc \in {"check", "fill"} THEN {}
                      ELSE {k \in DOMAIN skb_free : skb_free[k] = s}
        IN  Cardinality(slots) + Cardinality(listed)
                = IF holder[s] = "driver" THEN 1 ELSE 0

\* The engine never finds half of a frame: while it may fetch, the ring holds
\* whole frames only, as many first segments (counting the one being sent) as
\* last segments.
WholeFramesWhileRunning ==
    dma => LET pending(flag) == Cardinality({i \in Slot : cown[i] = 0 /\ flag[i] = 1})
           IN  pending(ls) = pending(fs) + (IF gather = <<>> THEN 0 ELSE 1)

\* The driver never changes a descriptor of the engine, nor the buffer recorded
\* for it: only the engine ends its ownership.
EngineSlotsUntouched ==
    [][\A i \in Slot : cown[i] = 0 =>
          /\ fs'[i] = fs[i] /\ ls'[i] = ls[i]
          /\ data_ptr'[i] = data_ptr[i] /\ skb_ptr'[i] = skb_ptr[i]
          /\ cown'[i] = 1 => busy /\ i = tssd]_vars

\* The last call returned 1, and left the engine stopped.
Stalled == pc = "idle" /\ ret = 1 /\ ~dma

\* A descriptor given to the engine is sent, unless a call of send_packet finds
\* the ring full and returns with the engine stopped.
SentUnlessStalled == \A i \in Slot : cown[i] = 0 ~> (cown[i] = 1 \/ Stalled)

\* Nothing but a later send reclaims a buffer that was sent: there is no
\* transmit-done interrupt and no timer.  As long as calls of send_packet keep
\* succeeding, each buffer is given back again and again.
ReclaimedBySends ==
    []<><<SendReturn>>_vars => \A s \in Skb : []<>(holder[s] # "driver")

\* star_gsw.c, "re-queue the skb": a buffer refused because the ring was full is
\* accepted by a later call.
RefusedIsSentLater ==
    \A s \in Skb : (pc = "check" /\ skb = s /\ cown[index] = 0) ~> holder[s] = "driver"

\* star_gsw.c, "struct sk_buff *skb_free[MAX_SKB_FRAGS]": the list of buffers to
\* free fits its array.
SkbFreeFits == Len(skb_free) <= MAX_SKB_FRAGS

-----------------------------------------------------------------------------
(* Why a buffer the engine may read is never freed: the inductive          *)
(* invariant, in parts.                                                    *)

\* The slot k steps after slot i, for k up to one turn of the ring.
Plus(i, k) == IF i + k < TFD_NUM THEN i + k ELSE i + k - TFD_NUM

\* Where the driver's handing over has come to.
Released == IF pc = "release" THEN index ELSE cur_index

\* The loops of send_packet stay in step with the ring.
LoopPosition ==
    /\ pc = "check" => f <= nr_frags[skb] /\ index = Plus(cur_index, f)
    /\ pc = "fill" => f = nr_frags[skb] + 1 /\ index = Plus(cur_index, f)
    /\ pc = "release" => /\ f <= nr_frags[skb]
                         /\ cur_index = Plus(index, nr_frags[skb] - f + 1)

\* The descriptors of the engine lie from TSSD up to the last one released.
EngineWindow ==
    /\ busy => cown[tssd] = 0
    /\ \/ Released = tssd /\ \A i \in Slot : cown[i] = 0
       \/ \A i \in Slot : cown[i] = 0 <=> Distance(tssd, i) < Distance(tssd, Released)

\* The slots the check loop has passed are the CPU's, and so are those the
\* release loop has yet to hand over, which do not run into TSSD.
SlotsForFrame ==
    /\ pc \in {"check", "fill"} =>
           \A i \in Slot : Distance(cur_index, i) < f => cown[i] = 1
    /\ pc = "release" =>
           /\ cown[index] = 1
           /\ Distance(tssd, index) + (nr_frags[skb] - f) < TFD_NUM
           /\ \A i \in Slot : Distance(index, i) <= nr_frags[skb] - f => data_ptr[i][1] = skb
           /\ skb_ptr[Plus(index, nr_frags[skb] - f)] = skb

\* The buffer of an engine descriptor is recorded at a slot that the engine
\* reaches no sooner, and that it owns too or will own when the release is done.
LastSegmentPending ==
    \A i \in Slot : cown[i] = 0 =>
        \E j \in Slot : /\ data_ptr[i][1] \in Skb
                        /\ skb_ptr[j] = data_ptr[i][1]
                        /\ Distance(tssd, i) <= Distance(tssd, j)
                        /\ cown[j] = 0 \/ (pc = "release" /\ skb_ptr[j] = skb)

\* A buffer is recorded once and only while the driver holds it; what is to be
\* freed comes from checked slots, and is recorded no more once they are filled.
Records ==
    /\ \A i, j \in Slot : skb_ptr[i] = skb_ptr[j] /\ skb_ptr[i] # NULL => i = j
    /\ \A i \in Slot : skb_ptr[i] # NULL => holder[skb_ptr[i]] = "driver"
    /\ pc \in {"check", "fill"} =>
           /\ holder[skb] = "stack"
           /\ \A k \in DOMAIN skb_free : \E i \in Slot :
                  Distance(cur_index, i) < f /\ skb_ptr[i] = skb_free[k]
    /\ pc \in {"release", "start", "free"} =>
           \A k \in DOMAIN skb_free : \A i \in Slot : skb_ptr[i] # skb_free[k]

\* All of it: send_packet, the ring and the engine agree on who owns what.
RingInv == /\ LoopPosition
           /\ EngineWindow
           /\ SlotsForFrame
           /\ LastSegmentPending
           /\ Records

\* A buffer the driver holds is recorded at a slot or, once the slots are
\* refilled, listed to be freed; what is listed is held and is listed once.
NothingLost ==
    /\ pc = "idle" => skb_free = <<>>
    /\ \A k, m \in DOMAIN skb_free : skb_free[k] = skb_free[m] => k = m
    /\ \A k \in DOMAIN skb_free : holder[skb_free[k]] = "driver"
    /\ pc \in {"check", "fill"} =>
           \A i \in Slot : Distance(cur_index, i) < f /\ skb_ptr[i] # NULL =>
               \E k \in DOMAIN skb_free : skb_free[k] = skb_ptr[i]
    /\ \A s \in Skb : holder[s] = "driver" =>
           \/ \E i \in Slot : skb_ptr[i] = s
           \/ pc \in {"release", "start", "free"}
              /\ \E k \in DOMAIN skb_free : skb_free[k] = s

-----------------------------------------------------------------------------
(* The ring seen as a queue of frames, which it implements.                *)

\* The frame of buffer s: its segments in order.
FrameOf(s) == [k \in 1 .. nr_frags[s] + 1 |-> <<s, k - 1>>]

\* The last segments that the engine has yet to send.
LastSlots == {i \in Slot : cown[i] = 0 /\ ls[i] = 1}

\* How many slots of S the engine has done with when slot i is done, starting
\* at slot t, and the slot of S that is k-th to be done.
Rank(S, t, i) == Cardinality({j \in S : Distance(t, j) <= Distance(t, i)})
Nth(S, t, k)  == CHOOSE i \in S : Rank(S, t, i) = k

\* A frame is queued from the moment its last descriptor is handed to the
\* engine until the engine hands it back.
Queued == [k \in 1 .. Cardinality(LastSlots) |-> FrameOf(skb_ptr[Nth(LastSlots, tssd, k)])]

Fifo == INSTANCE TxFifo WITH
    queue    <- Queued,
    wire     <- wire,
    Capacity <- TFD_NUM,
    Frame    <- {[k \in 1 .. n + 1 |-> <<s, k - 1>>] : s \in Skb, n \in 0 .. MAX_SKB_FRAGS}

\* The ring and the engine implement a bounded first-in first-out queue of
\* frames: every accepted buffer leaves once, whole, in the order of acceptance.
ImplementsFifo == Fifo!Spec

=============================================================================
