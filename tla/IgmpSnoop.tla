----------------------------- MODULE IgmpSnoop -----------------------------
(***************************************************************************)
(* IGMP snooping on the LAN side (drivers/net/str9100/star_gsw.c): the     *)
(* joins and leaves that star_gsw_get_rfd_buff sees in received frames     *)
(* become static entries of the switch's address table, one per group      *)
(* address and port, and star_gsw_send_packet_wrapper tags each multicast  *)
(* frame with the ports found there.                                       *)
(*                                                                         *)
(* Receiving (softirq) and sending (bottom halves off) exclude each other  *)
(* on this uniprocessor, so each is one step.  The hosts, their reports,   *)
(* which may be lost, and the querier are the environment.                 *)
(***************************************************************************)
EXTENDS BrcmTag, FiniteSets

CONSTANTS
    Mac,         \* group addresses 01:00:5e:..
    Port,        \* ports of the LAN switch
    Member,      \* memberships: one host in one IP group
    MacOf,       \* MacOf[m]: the address of m's group; 32 groups share one
    PortOf,      \* PortOf[m]: the port m's host is behind; hosts may share one
    Room,        \* the <<headroom, length, tailroom>> of frames to send
    MAX_TRIES    \* bound: calls of the wrapper for one frame

ASSUME SnoopAssumption ==
    /\ Port \subseteq 0 .. 7
    /\ MacOf \in [Member -> Mac]
    /\ PortOf \in [Member -> Port]
    /\ Room \subseteq Nat \X Nat \X Nat
    /\ \A r \in Room : r[2] >= MAC_BYTES  \* a frame has its addresses
    /\ MAX_TRIES \in Nat \ {0}

VARIABLES
    igmpSnoopStatus,  \* set by another module; the switch expects tags while it is 1
    arl,              \* static entries <<address, port>> of the address table
    joined,           \* memberships that exist
    due,              \* members that have a report to send
    frame,            \* the frame in the LAN device's queue or, until the next one
                      \* is queued, on the wire
    stale             \* history: entries whose leave did not get through, or that
                      \* no join made

vars == <<igmpSnoopStatus, arl, joined, due, frame, stale>>

Entry(m) == <<MacOf[m], PortOf[m]>>
Dest     == Mac \cup {"query", "unicast"}
Frame(d, r) == [at |-> "queue", dest |-> d, room |-> r, buf |-> NewSkb(r[1], r[2], r[3]),
                tries |-> 0, tags |-> 0, pMap |-> {}]
NoFrame  == [Frame("none", <<0, 0, 0>>) EXCEPT !.at = "wire"]

\* Faulty forms of the definitions below, each with one plausible mistake.
PortMap_QueryToo(d) == IF d = "unicast" THEN Port ELSE {p \in Port : <<d, p>> \in arl}

LeaveSeen_StaysStatic(e, written) == arl' = IF written THEN arl \cup {e} ELSE arl

-----------------------------------------------------------------------------
Init ==
    /\ igmpSnoopStatus = 0
    /\ arl = {}
    /\ joined = {}
    /\ due = {}
    /\ frame = NoFrame
    /\ stale = {}

SetStatus(v) ==
    /\ igmpSnoopStatus' = v
    /\ UNCHANGED <<arl, joined, due, frame, stale>>

-----------------------------------------------------------------------------
(* Receiving.                                                              *)

\* The table's own search, and a write, which may time out.
star_gsw_search_arl_table(e) == e \in arl

star_gsw_write_arl_table_entry(e, age, written) ==
    arl' = IF ~written THEN arl ELSE IF age = 7 THEN arl \cup {e} ELSE arl \ {e}

\* brcmTagDelete on a join and on a leave for entry e; it ignores a timeout.
JoinSeen(e, written) ==
    IF star_gsw_search_arl_table(e) THEN UNCHANGED arl
    ELSE star_gsw_write_arl_table_entry(e, 7, written)

LeaveSeen(e, written) ==
    IF star_gsw_search_arl_table(e) THEN star_gsw_write_arl_table_entry(e, 0, written)
    ELSE UNCHANGED arl

\* A report arrives, or is lost on the way (arrives = FALSE), or finds the table
\* busy (written = FALSE).
Report(m, arrives, written) ==
    /\ m \in due
    /\ due' = due \ {m}
    /\ IF arrives /\ igmpSnoopStatus = 1
       THEN JoinSeen(Entry(m), written) /\ stale' = stale \ {Entry(m)}
       ELSE UNCHANGED <<arl, stale>>
    /\ UNCHANGED <<igmpSnoopStatus, joined, frame>>

\* A host joins: it will report.
Join(m) ==
    /\ m \notin joined
    /\ joined' = joined \cup {m}
    /\ due' = due \cup {m}
    /\ UNCHANGED <<igmpSnoopStatus, arl, frame, stale>>

\* A host leaves; its leave message may be lost, or find the table busy.
Leave(m, arrives, written) ==
    /\ m \in joined
    /\ joined' = joined \ {m}
    /\ due' = due \ {m}
    /\ IF arrives /\ igmpSnoopStatus = 1
       THEN /\ LeaveSeen(Entry(m), written)
            /\ stale' = IF written THEN stale \ {Entry(m)} ELSE stale \cup {Entry(m)}
       ELSE UNCHANGED arl /\ stale' = stale \cup {Entry(m)}
    /\ UNCHANGED <<igmpSnoopStatus, frame>>

\* A multicast frame from a host that is no IGMP message, but has the value of
\* a join at the byte that brcmTagDelete looks at.
LooksLikeJoin(e, written) ==
    /\ igmpSnoopStatus = 1
    /\ JoinSeen(e, written)
    /\ stale' = stale \cup {e}
    /\ UNCHANGED <<igmpSnoopStatus, joined, due, frame>>

-----------------------------------------------------------------------------
(* Sending.                                                                *)

\* The stack, or the querier, has a frame for the LAN device.
Queue(d, r) ==
    /\ frame.at = "wire"
    /\ frame' = Frame(d, r)
    /\ UNCHANGED <<igmpSnoopStatus, arl, joined, due, stale>>

\* The ports of a tag: those in the table for a multicast address; a zero tag,
\* which leaves it to the switch, for unicast and for the all-hosts query.
PortMap(d) == IF d \in Mac THEN {p \in Port : <<d, p>> \in arl} ELSE Port

TagFrame(f) == [f EXCEPT !.buf = brcmTagAdd(@), !.tags = @ + 1, !.pMap = PortMap(f.dest)]

\* The switch takes off the tag it expects; hosts understand a frame without
\* any other.
Reaches(f, p) == f.tags = igmpSnoopStatus /\ (f.tags = 1 => p \in f.pMap)

\* star_gsw_send_packet_wrapper: tag the frame if snooping is on, then
\* star_gsw_send_packet, which accepts it, or returns 1: then the queue keeps the
\* frame as it now is, and calls again with it.
Send(at) ==
    /\ frame.at = "queue"
    /\ at = "queue" => frame.tries + 1 < MAX_TRIES
    /\ LET f == IF igmpSnoopStatus = 1 THEN TagFrame(frame) ELSE frame
       IN  /\ frame' = [f EXCEPT !.at = at, !.tries = @ + 1]
           /\ due' = IF at = "wire" /\ f.dest = "query"
                     THEN due \cup {m \in joined : Reaches(f, PortOf[m])} ELSE due
    /\ UNCHANGED <<igmpSnoopStatus, arl, joined, stale>>

-----------------------------------------------------------------------------
Next ==
    \/ \E v \in {0, 1} : SetStatus(v)
    \/ \E m \in Member : Join(m)
    \/ \E m \in Member, a, w \in BOOLEAN : Report(m, a, w) \/ Leave(m, a, w)
    \/ \E e \in Mac \X Port, w \in BOOLEAN : LooksLikeJoin(e, w)
    \/ \E d \in Dest, r \in Room : Queue(d, r)
    \/ \E at \in {"wire", "queue"} : Send(at)

Spec == Init /\ [][Next]_vars

\* The querier asks for ever, a queue is emptied, and not every query is refused
\* at first, not every report lost and not every write of the table timed out.
Fairness ==
    /\ SF_vars(\E r \in Room : Queue("query", r))
    /\ SF_vars(Send("wire") /\ frame.dest = "query" /\ frame.tries = 0)
    /\ WF_vars(Send("wire"))
    /\ \A m \in Member : SF_vars(igmpSnoopStatus = 1 /\ Report(m, TRUE, TRUE))

FairSpec == Spec /\ Fairness

-----------------------------------------------------------------------------
(* Properties.                                                             *)

\* The types of the variables.
TypeOK ==
    /\ igmpSnoopStatus \in {0, 1}
    /\ arl \subseteq Mac \X Port
    /\ stale \subseteq Mac \X Port
    /\ joined \subseteq Member
    /\ due \subseteq joined
    /\ frame.at \in {"queue", "wire"}
    /\ frame.dest \in Dest \cup {"none"}
    /\ frame.tries \in 0 .. MAX_TRIES
    /\ frame.tags \in 0 .. frame.tries
    /\ frame.pMap \subseteq Port

\* A port is sent the traffic of a group only if a host behind it is a member,
\* or if the last leave there was lost or not written, or a frame was taken for
\* a join: static entries do not age.
NoOutsiders == \A e \in arl : e \in stale \/ \E m \in joined : Entry(m) = e

\* A member gets the traffic of its group again, whatever leaves of its
\* neighbours, lost reports and failed writes have taken its port out: the
\* all-hosts query goes to every port, table or not, and its answer restores the
\* entry.
Healed ==
    \A m \in Member :
        []<>(m \in joined /\ igmpSnoopStatus = 1 => Entry(m) \in arl)

\* A frame tagged once, in a buffer with room for it, carries the tag right behind
\* its addresses and is otherwise what the stack sent, padded; and brcmTagDelete
\* gives that back.
TagInPlace ==
    frame.tags = 1 /\ RoomForTag(Frame(frame.dest, frame.room).buf) =>
        /\ FrameOf(frame.buf) = Tagged(frame.room[2])
        /\ FrameOf(brcmTagDelete(frame.buf)) = Padded(frame.room[2])

\* The frame that the switch passes on to the hosts.
SwitchPasses(b) == FrameOf(IF igmpSnoopStatus = 1 THEN brcmTagDelete(b) ELSE b)

\* The wrapper tags again a frame that send_packet refused and the queue kept.  In
\* a buffer with room for the first tag, what the hosts get is byte for byte what
\* the stack sent, or that padded, exactly if the frame has as many tags as the
\* switch takes off when it is accepted: a frame refused with snooping on never
\* gets there whole, neither tagged again nor sent after snooping was turned off.
PassedOnExactly ==
    [][frame.at = "queue" /\ frame'.at = "wire" /\ RoomForTag(Frame(frame.dest, frame.room).buf)
           => (SwitchPasses(frame'.buf) \in {Sent(frame.room[2]), Padded(frame.room[2])}
                  <=> frame'.tags = igmpSnoopStatus)]_vars

\* brcmTagAdd moves TAG_SIZE bytes more than the frame has.  The bytes of
\* skb_shared_info behind the buffer stay whole exactly if the padded frame had a
\* tailroom of TAG_SIZE, which is not used, or of twice that.
InfoKeptExactly ==
    frame.tags = 1 =>
        LET t == tailroom(Pad(Frame(frame.dest, frame.room).buf))
        IN  InfoIntact(frame.buf) <=> t = TAG_SIZE \/ t >= 2 * TAG_SIZE

\* The memory of a cloned frame is the original's too (TCP keeps it for a
\* retransmission).  What follows the addresses is found there as it was exactly
\* if the frame was moved up: the move for the tag then puts it back.
CloneKeptExactly ==
    frame.tags = 1 /\ frame.room[2] >= MIN_LENGTH =>
        LET b == Frame(frame.dest, frame.room).buf
            Payload(mem) == Get(mem, b.data + MAC_BYTES, b.len - MAC_BYTES)
        IN  Payload(frame.buf.mem) = Payload(b.mem) <=>
                tailroom(b) <= TAG_SIZE /\ headroom(b) > TAG_SIZE

=============================================================================
