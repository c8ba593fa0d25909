-------------------------- MODULE IgmpSnoop_proofs --------------------------
(***************************************************************************)
(* Theorems about IGMP snooping, for all sets of groups, ports and         *)
(* members, all lengths of frames and all sizes of buffers.                *)
(***************************************************************************)
EXTENDS IgmpSnoop, TLAPS

\* A frame has the fields of Frame and is not called for too often.
FrameInv ==
    /\ frame = [at |-> frame.at, dest |-> frame.dest, room |-> frame.room, buf |-> frame.buf,
                tries |-> frame.tries, tags |-> frame.tags, pMap |-> frame.pMap]
    /\ frame.at = "queue" => frame.tries < MAX_TRIES

SnoopInv == TypeOK /\ NoOutsiders /\ FrameInv

LEMMA EntryType == \A m \in Member : Entry(m) \in Mac \X Port
  BY SnoopAssumption DEF Entry

\* What a join and a leave leave in the table.
LEMMA JoinTable ==
    ASSUME NEW e \in Mac \X Port, NEW w \in BOOLEAN, arl \subseteq Mac \X Port, JoinSeen(e, w)
    PROVE  arl' \subseteq Mac \X Port /\ arl' \subseteq arl \cup {e}
  BY DEF JoinSeen, star_gsw_search_arl_table, star_gsw_write_arl_table_entry

LEMMA LeaveTable ==
    ASSUME NEW e, NEW w \in BOOLEAN, LeaveSeen(e, w)
    PROVE  arl' \subseteq arl /\ (w => e \notin arl')
  BY DEF LeaveSeen, star_gsw_search_arl_table, star_gsw_write_arl_table_entry

LEMMA PortMapType == \A d : PortMap(d) \subseteq Port
  BY DEF PortMap

-----------------------------------------------------------------------------
(* Receiving.                                                              *)

LEMMA ReportStep ==
    ASSUME SnoopInv, NEW m \in Member, NEW a \in BOOLEAN, NEW w \in BOOLEAN, Report(m, a, w)
    PROVE  SnoopInv'
<1> USE DEF SnoopInv
<1>1. /\ m \in joined /\ due' = due \ {m}
      /\ UNCHANGED <<igmpSnoopStatus, joined, frame>>
  BY DEF Report, TypeOK
<1>2. \/ UNCHANGED <<arl, stale>>
      \/ JoinSeen(Entry(m), w) /\ stale' = stale \ {Entry(m)}
  BY DEF Report
<1>3. /\ arl' \subseteq Mac \X Port /\ stale' \subseteq Mac \X Port
      /\ arl' \subseteq arl \cup {Entry(m)}
      /\ stale \subseteq stale' \cup {Entry(m)}
  BY <1>2, EntryType, JoinTable DEF TypeOK
<1>4. TypeOK'
  BY <1>1, <1>3 DEF TypeOK
<1>5. NoOutsiders'
  BY <1>1, <1>3 DEF NoOutsiders, Entry
<1> QED
  BY <1>1, <1>4, <1>5 DEF FrameInv

LEMMA LeaveStep ==
    ASSUME SnoopInv, NEW m \in Member, NEW a \in BOOLEAN, NEW w \in BOOLEAN, Leave(m, a, w)
    PROVE  SnoopInv'
<1> USE DEF SnoopInv
<1>1. /\ joined' = joined \ {m} /\ due' = due \ {m}
      /\ UNCHANGED <<igmpSnoopStatus, frame>>
  BY DEF Leave
<1>2. \/ UNCHANGED arl /\ stale' = stale \cup {Entry(m)}
      \/ LeaveSeen(Entry(m), w) /\ w /\ stale' = stale \ {Entry(m)}
      \/ LeaveSeen(Entry(m), w) /\ stale' = stale \cup {Entry(m)}
  BY DEF Leave
<1>3. /\ arl' \subseteq arl /\ stale' \subseteq Mac \X Port
      /\ Entry(m) \in arl' => Entry(m) \in stale'
      /\ stale \subseteq stale' \cup {Entry(m)}
  BY <1>2, EntryType, LeaveTable DEF TypeOK
<1>4. TypeOK'
  BY <1>1, <1>3 DEF TypeOK
<1>5. NoOutsiders'
  <2> SUFFICES ASSUME NEW e \in arl', e \notin stale'
               PROVE  \E n \in joined' : Entry(n)' = e
    BY DEF NoOutsiders
  <2>1. e # Entry(m) /\ e \in arl /\ e \notin stale
    BY <1>3
  <2>2. PICK n \in joined : Entry(n) = e
    BY <2>1 DEF NoOutsiders
  <2>3. n \in joined' /\ Entry(n)' = e
    BY <1>1, <2>1, <2>2 DEF Entry
  <2> QED
    BY <2>3
<1> QED
  BY <1>1, <1>4, <1>5 DEF FrameInv

LEMMA LooksLikeJoinStep ==
    ASSUME SnoopInv, NEW e \in Mac \X Port, NEW w \in BOOLEAN, LooksLikeJoin(e, w)
    PROVE  SnoopInv'
<1> USE DEF SnoopInv
<1>1. /\ JoinSeen(e, w) /\ stale' = stale \cup {e}
      /\ UNCHANGED <<igmpSnoopStatus, joined, due, frame>>
  BY DEF LooksLikeJoin
<1>2. arl' \subseteq Mac \X Port /\ arl' \subseteq arl \cup {e}
  BY <1>1, JoinTable DEF TypeOK
<1>3. TypeOK'
  BY <1>1, <1>2 DEF TypeOK
<1>4. NoOutsiders'
  BY <1>1, <1>2 DEF NoOutsiders, Entry
<1> QED
  BY <1>1, <1>3, <1>4 DEF FrameInv

-----------------------------------------------------------------------------
(* Sending.                                                                *)

LEMMA QueueStep ==
    ASSUME SnoopInv, NEW d \in Dest, NEW r \in Room, Queue(d, r)
    PROVE  SnoopInv'
<1> USE DEF SnoopInv
<1>1. frame' = Frame(d, r) /\ UNCHANGED <<igmpSnoopStatus, arl, joined, due, stale>>
  BY DEF Queue
<1>2. /\ frame'.at = "queue" /\ frame'.dest = d /\ frame'.tries = 0 /\ frame'.tags = 0
      /\ frame'.pMap = {}
      /\ frame' = [at |-> frame'.at, dest |-> frame'.dest, room |-> frame'.room,
                   buf |-> frame'.buf, tries |-> frame'.tries, tags |-> frame'.tags,
                   pMap |-> frame'.pMap]
  BY <1>1 DEF Frame
<1>3. TypeOK'
  BY <1>1, <1>2, SnoopAssumption DEF TypeOK
<1>4. NoOutsiders'
  BY <1>1 DEF NoOutsiders, Entry
<1>5. FrameInv'
  BY <1>2, SnoopAssumption DEF FrameInv
<1> QED
  BY <1>3, <1>4, <1>5

\* What a call of the wrapper makes of a frame.
LEMMA SendFrame ==
    ASSUME SnoopInv, NEW at \in {"wire", "queue"}, Send(at)
    PROVE  /\ frame'.at = at /\ frame'.dest = frame.dest
           /\ frame'.tries = frame.tries + 1
           /\ frame'.tags = frame.tags + igmpSnoopStatus
           /\ frame'.pMap = PortMap(frame.dest) \/ frame'.pMap = frame.pMap
           /\ frame'.room = frame.room
           /\ igmpSnoopStatus = 1 => frame'.buf = brcmTagAdd(frame.buf)
           /\ igmpSnoopStatus = 0 => frame'.buf = frame.buf
           /\ frame' = [at |-> frame'.at, dest |-> frame'.dest, room |-> frame'.room,
                        buf |-> frame'.buf, tries |-> frame'.tries, tags |-> frame'.tags,
                        pMap |-> frame'.pMap]
<1> DEFINE f == IF igmpSnoopStatus = 1 THEN TagFrame(frame) ELSE frame
<1>1. frame' = [f EXCEPT !.at = at, !.tries = @ + 1]
  BY DEF Send
<1>2. igmpSnoopStatus \in {0, 1} /\ frame.tags \in Int
  BY SnoopAssumption DEF SnoopInv, TypeOK
<1>3. frame = [at |-> frame.at, dest |-> frame.dest, room |-> frame.room, buf |-> frame.buf,
               tries |-> frame.tries, tags |-> frame.tags, pMap |-> frame.pMap]
  BY DEF SnoopInv, FrameInv
<1>4. CASE igmpSnoopStatus = 1
  <2> DEFINE b == brcmTagAdd(frame.buf)
             pm == PortMap(frame.dest)
  <2>1. f = [frame EXCEPT !.buf = b, !.tags = @ + 1, !.pMap = pm]
    BY <1>4 DEF TagFrame
  <2> HIDE DEF b, pm, f
  <2>2. f = [at |-> frame.at, dest |-> frame.dest, room |-> frame.room, buf |-> b,
             tries |-> frame.tries, tags |-> frame.tags + 1, pMap |-> pm]
    BY <1>3, <2>1
  <2>3. frame' = [at |-> at, dest |-> frame.dest, room |-> frame.room, buf |-> b,
                  tries |-> frame.tries + 1, tags |-> frame.tags + 1, pMap |-> pm]
    BY <1>1, <2>2
  <2> QED
    BY <2>3, <1>4 DEF b, pm
<1>5. CASE igmpSnoopStatus = 0
  <2>1. frame' = [frame EXCEPT !.at = at, !.tries = @ + 1]
    BY <1>1, <1>5
  <2>2. frame' = [at |-> at, dest |-> frame.dest, room |-> frame.room, buf |-> frame.buf,
                  tries |-> frame.tries + 1, tags |-> frame.tags, pMap |-> frame.pMap]
    BY <1>3, <2>1
  <2> QED
    BY <2>2, <1>2, <1>5
<1> QED
  BY <1>2, <1>4, <1>5

LEMMA SendStep ==
    ASSUME SnoopInv, NEW at \in {"wire", "queue"}, Send(at)
    PROVE  SnoopInv'
<1> USE DEF SnoopInv
<1>1. /\ frame.at = "queue"
      /\ at = "queue" => frame.tries + 1 < MAX_TRIES
      /\ UNCHANGED <<igmpSnoopStatus, arl, joined, stale>>
  BY DEF Send
<1>2. due' \subseteq joined
  BY DEF Send, TypeOK
<1>3. /\ frame'.at = at /\ frame'.dest = frame.dest
      /\ frame'.tries = frame.tries + 1
      /\ frame'.tags = frame.tags + igmpSnoopStatus
      /\ frame'.pMap \subseteq Port
      /\ frame' = [at |-> frame'.at, dest |-> frame'.dest, room |-> frame'.room,
                   buf |-> frame'.buf, tries |-> frame'.tries, tags |-> frame'.tags,
                   pMap |-> frame'.pMap]
  BY SendFrame, PortMapType DEF TypeOK
<1>4. frame'.tries \in 1 .. MAX_TRIES /\ frame'.tags \in 0 .. frame'.tries
  BY <1>1, <1>3, SnoopAssumption DEF TypeOK, FrameInv
<1>5. TypeOK'
  BY <1>1, <1>2, <1>3, <1>4, SnoopAssumption DEF TypeOK
<1>6. NoOutsiders'
  BY <1>1 DEF NoOutsiders, Entry
<1>7. FrameInv'
  BY <1>1, <1>3, <1>4 DEF FrameInv
<1> QED
  BY <1>5, <1>6, <1>7

-----------------------------------------------------------------------------
(* Theorems.                                                               *)

\* The inductive invariant.
THEOREM SnoopInvCorrect == Spec => []SnoopInv
<1>1. Init => SnoopInv
  <2> SUFFICES ASSUME Init PROVE SnoopInv
    OBVIOUS
  <2>1. frame = [at |-> "wire", dest |-> "none", room |-> <<0, 0, 0>>, buf |-> NewSkb(0, 0, 0),
                 tries |-> 0, tags |-> 0, pMap |-> {}]
    BY DEF Init, NoFrame, Frame
  <2>2. TypeOK
    BY <2>1, SnoopAssumption DEF Init, TypeOK
  <2>3. FrameInv
    BY <2>1 DEF FrameInv
  <2> QED
    BY <2>2, <2>3 DEF Init, SnoopInv, NoOutsiders
<1>2. SnoopInv /\ [Next]_vars => SnoopInv'
  <2> SUFFICES ASSUME SnoopInv, [Next]_vars PROVE SnoopInv'
    OBVIOUS
  <2>1. ASSUME NEW v \in {0, 1}, SetStatus(v) PROVE SnoopInv'
    BY <2>1 DEF SetStatus, SnoopInv, TypeOK, NoOutsiders, Entry, FrameInv
  <2>2. ASSUME NEW m \in Member, Join(m) PROVE SnoopInv'
    BY <2>2 DEF Join, SnoopInv, TypeOK, NoOutsiders, Entry, FrameInv
  <2>3. CASE UNCHANGED vars
    BY <2>3 DEF vars, SnoopInv, TypeOK, NoOutsiders, Entry, FrameInv
  <2> QED
    BY <2>1, <2>2, <2>3, ReportStep, LeaveStep, LooksLikeJoinStep, QueueStep, SendStep DEF Next
<1> QED
  BY <1>1, <1>2, PTL DEF Spec

\* The variables keep their types.
THEOREM TypeCorrect == Spec => []TypeOK
  BY SnoopInvCorrect, PTL DEF SnoopInv

\* brcmTagDelete's static entries outlive their members only where a leave was lost
\* or not written, or a frame was taken for a join.
THEOREM NoOutsidersCorrect == Spec => []NoOutsiders
  BY SnoopInvCorrect, PTL DEF SnoopInv

-----------------------------------------------------------------------------
(* The memory of a buffer, byte by byte.                                   *)

LEMMA BytesFacts ==
    ASSUME NEW v \in Int, NEW n \in Nat
    PROVE  /\ Bytes(v, n) \in Seq(Int) /\ Len(Bytes(v, n)) = n
           /\ \A k \in 1 .. n : Bytes(v, n)[k] = v
BY DEF Bytes

LEMMA GetFacts ==
    ASSUME NEW mem \in Seq(Int), NEW at \in Nat, NEW n \in Nat, at + n <= Len(mem)
    PROVE  /\ Get(mem, at, n) \in Seq(Int) /\ Len(Get(mem, at, n)) = n
           /\ \A k \in 1 .. n : Get(mem, at, n)[k] = mem[at + k]
BY DEF Get

\* s and t one behind the other.
LEMMA ConcatFacts ==
    ASSUME NEW s \in Seq(Int), NEW t \in Seq(Int)
    PROVE  /\ s \o t \in Seq(Int) /\ Len(s \o t) = Len(s) + Len(t)
           /\ \A k \in 1 .. Len(s) + Len(t) :
                  (s \o t)[k] = IF k <= Len(s) THEN s[k] ELSE t[k - Len(s)]
OBVIOUS

\* r is mem with s written at offset "at".
AfterPut(r, mem, at, s) ==
    /\ r \in Seq(Int) /\ Len(r) = Len(mem)
    /\ \A k \in 1 .. Len(mem) : r[k] = IF at < k /\ k <= at + Len(s) THEN s[k - at] ELSE mem[k]

LEMMA PutFacts ==
    ASSUME NEW mem \in Seq(Int), NEW at \in Nat, NEW s \in Seq(Int), at + Len(s) <= Len(mem)
    PROVE  AfterPut(Put(mem, at, s), mem, at, s)
<1> PICK r : r = Put(mem, at, s)
  OBVIOUS
<1> PICK i : i = Len(s)
  OBVIOUS
<1> PICK n : n = Len(mem)
  OBVIOUS
<1> SUFFICES /\ r \in Seq(Int) /\ Len(r) = n
             /\ \A k \in 1 .. n : r[k] = IF at < k /\ k <= at + i THEN s[k - at] ELSE mem[k]
  BY DEF AfterPut
<1>0. i \in Nat /\ n \in Nat /\ at + i <= n
  OBVIOUS
<1>1. PICK a : a = SubSeq(mem, 1, at)
  OBVIOUS
<1>2. PICK z : z = SubSeq(mem, at + i + 1, n)
  OBVIOUS
<1>3. a \in Seq(Int) /\ Len(a) = at /\ \A k \in 1 .. at : a[k] = mem[k]
  BY <1>0, <1>1
<1>4. z \in Seq(Int) /\ Len(z) = n - (at + i) /\ \A k \in 1 .. n - (at + i) : z[k] = mem[at + i + k]
  <2>1. PICK c : c = at + i
    OBVIOUS
  <2>2. c \in Nat /\ n \in Nat /\ c <= n /\ Len(mem) = n /\ z = SubSeq(mem, c + 1, n)
    BY <1>0, <1>2, <2>1
  <2>3. z \in Seq(Int) /\ Len(z) = n - c /\ \A k \in 1 .. n - c : z[k] = mem[c + k]
    BY <2>2
  <2> QED
    BY <2>1, <2>3
<1>5. PICK u : u = a \o s
  OBVIOUS
<1>6. r = u \o z
  BY <1>1, <1>2, <1>5 DEF Put
<1>7. /\ u \in Seq(Int) /\ Len(u) = at + i
      /\ \A k \in 1 .. at + i : u[k] = IF k <= at THEN a[k] ELSE s[k - at]
  BY <1>3, <1>5, ConcatFacts
<1>8. /\ r \in Seq(Int) /\ Len(r) = (at + i) + (n - (at + i))
      /\ \A k \in 1 .. (at + i) + (n - (at + i)) :
             r[k] = IF k <= at + i THEN u[k] ELSE z[k - (at + i)]
  <2>1. u \in Seq(Int) /\ Len(u) = at + i /\ z \in Seq(Int) /\ Len(z) = n - (at + i)
    BY <1>4, <1>7
  <2>2. /\ r \in Seq(Int) /\ Len(r) = Len(u) + Len(z)
        /\ \A k \in 1 .. Len(u) + Len(z) : r[k] = IF k <= Len(u) THEN u[k] ELSE z[k - Len(u)]
    <3>1. /\ u \o z \in Seq(Int) /\ Len(u \o z) = Len(u) + Len(z)
          /\ \A k \in 1 .. Len(u) + Len(z) :
                 (u \o z)[k] = IF k <= Len(u) THEN u[k] ELSE z[k - Len(u)]
      <4>1. u \in Seq(Int) /\ z \in Seq(Int)
        BY <2>1
      <4> QED
        BY <4>1, ConcatFacts
    <3> QED
      BY <1>6, <3>1
  <2> QED
    BY <2>1, <2>2
<1>9. (at + i) + (n - (at + i)) = n
  BY <1>0
<1>10. ASSUME NEW k \in 1 .. n
       PROVE  r[k] = IF at < k /\ k <= at + i THEN s[k - at] ELSE mem[k]
  <2>1. CASE k <= at
    <3>1. k \in 1 .. at /\ k \in 1 .. at + i /\ k <= at + i
      BY <1>0, <2>1
    <3>2. r[k] = u[k] /\ u[k] = a[k]
      BY <1>7, <1>8, <1>9, <2>1, <3>1
    <3> QED
      BY <1>3, <2>1, <3>1, <3>2
  <2>2. CASE at < k /\ k <= at + i
    <3>1. k \in 1 .. at + i /\ ~(k <= at)
      BY <1>0, <2>2
    <3>2. r[k] = u[k] /\ u[k] = s[k - at]
      BY <1>7, <1>8, <1>9, <2>2, <3>1
    <3> QED
      BY <2>2, <3>2
  <2>3. CASE k > at + i
    <3>1. /\ k - (at + i) \in 1 .. n - (at + i) /\ at + i + (k - (at + i)) = k
          /\ ~(k <= at + i)
      BY <1>0, <2>3
    <3>2. r[k] = z[k - (at + i)]
      BY <1>8, <1>9, <3>1
    <3>3. z[k - (at + i)] = mem[at + i + (k - (at + i))]
      BY <1>4, <3>1
    <3> QED
      BY <2>3, <3>1, <3>2, <3>3
  <2> QED
    BY <1>0, <2>1, <2>2, <2>3
<1> QED
  BY <1>8, <1>9, <1>10

\* Memory of a buffer that ends at e: what is behind its end is INFO, and nothing
\* else is.
Memory(m, e) ==
    /\ m \in Seq(Int) /\ Len(m) = e + TAG_SIZE
    /\ \A k \in 1 .. e + TAG_SIZE : m[k] = INFO <=> k > e

\* A buffer, and its frame inside it.
Buffer(b) ==
    /\ b = [mem |-> b.mem, data |-> b.data, len |-> b.len, end |-> b.end]
    /\ b.data \in Nat /\ b.len \in Nat /\ b.end \in Nat
    /\ b.data + b.len <= b.end
    /\ Memory(b.mem, b.end)

\* The same, but what is behind the end may have been overwritten.
Block(b) ==
    /\ b = [mem |-> b.mem, data |-> b.data, len |-> b.len, end |-> b.end]
    /\ b.data \in Nat /\ b.len \in Nat /\ b.end \in Nat
    /\ b.data + b.len <= b.end
    /\ b.mem \in Seq(Int) /\ Len(b.mem) = b.end + TAG_SIZE

LEMMA BufferBlock == \A b : Buffer(b) => Block(b)
  BY DEF Buffer, Block, Memory

LEMMA ByteValues ==
    /\ TAG_SIZE \in Nat /\ TAG_SIZE > 0 /\ MAC_BYTES \in Nat /\ MAC_BYTES > 0
    /\ MIN_LENGTH \in Nat /\ MIN_LENGTH > MAC_BYTES
    /\ ROOM \in Int /\ INFO \in Int /\ ZERO \in Int /\ TAG \in Int
    /\ ROOM # INFO /\ ZERO # INFO /\ TAG # INFO /\ INFO < 0 /\ TAG < 0 /\ ZERO = 0
BY TagAssumption DEF ROOM, INFO, ZERO, TAG

LEMMA NewMemory ==
    ASSUME NEW h \in Nat, NEW n \in Nat, NEW t \in Nat, NEW m, m = NewSkb(h, n, t).mem
    PROVE  Memory(m, h + n + t) /\ \A k \in 1 .. n : m[h + k] = k
<1>1. PICK own : own = [k \in 1 .. n |-> k]
  OBVIOUS
<1>2. PICK s1 : s1 = Bytes(ROOM, h)
  OBVIOUS
<1>3. PICK s3 : s3 = Bytes(ROOM, t)
  OBVIOUS
<1>4. PICK s4 : s4 = Bytes(INFO, TAG_SIZE)
  OBVIOUS
<1>5. own \in Seq(Int) /\ Len(own) = n /\ \A k \in 1 .. n : own[k] = k
  BY <1>1
<1>6. /\ s1 \in Seq(Int) /\ Len(s1) = h /\ \A k \in 1 .. h : s1[k] = ROOM
      /\ s3 \in Seq(Int) /\ Len(s3) = t /\ \A k \in 1 .. t : s3[k] = ROOM
      /\ s4 \in Seq(Int) /\ Len(s4) = TAG_SIZE /\ \A k \in 1 .. TAG_SIZE : s4[k] = INFO
  BY <1>2, <1>3, <1>4, ByteValues, BytesFacts
<1>7. PICK u : u = s1 \o own
  OBVIOUS
<1>8. PICK v : v = u \o s3
  OBVIOUS
<1>9. m = v \o s4
  BY <1>1, <1>2, <1>3, <1>4, <1>7, <1>8 DEF NewSkb
<1>10. /\ u \in Seq(Int) /\ Len(u) = h + n
       /\ \A k \in 1 .. h + n : u[k] = IF k <= h THEN s1[k] ELSE own[k - h]
  BY <1>5, <1>6, <1>7, ConcatFacts
<1>11. /\ v \in Seq(Int) /\ Len(v) = h + n + t
       /\ \A k \in 1 .. h + n + t : v[k] = IF k <= h + n THEN u[k] ELSE s3[k - (h + n)]
  <2>1. u \in Seq(Int) /\ Len(u) = h + n /\ s3 \in Seq(Int) /\ Len(s3) = t
    BY <1>6, <1>10
  <2>2. /\ v \in Seq(Int) /\ Len(v) = Len(u) + Len(s3)
        /\ \A k \in 1 .. Len(u) + Len(s3) : v[k] = IF k <= Len(u) THEN u[k] ELSE s3[k - Len(u)]
    BY <1>8, <2>1, ConcatFacts
  <2> QED
    BY <2>1, <2>2
<1>12. /\ m \in Seq(Int) /\ Len(m) = h + n + t + TAG_SIZE
       /\ \A k \in 1 .. h + n + t + TAG_SIZE :
              m[k] = IF k <= h + n + t THEN v[k] ELSE s4[k - (h + n + t)]
  BY <1>6, <1>9, <1>11, ConcatFacts
<1>13. ASSUME NEW k \in 1 .. h + n + t + TAG_SIZE PROVE m[k] = INFO <=> k > h + n + t
  <2>1. CASE k > h + n + t
    <3>1. k - (h + n + t) \in 1 .. TAG_SIZE /\ ~(k <= h + n + t)
      BY <2>1, ByteValues
    <3>2. m[k] = s4[k - (h + n + t)]
      BY <1>12, <3>1
    <3> QED
      BY <1>6, <2>1, <3>1, <3>2
  <2>2. CASE k <= h
    <3>1. k \in 1 .. h /\ k \in 1 .. h + n /\ k \in 1 .. h + n + t /\ k <= h + n /\ k <= h + n + t
      BY <2>2
    <3>2. m[k] = v[k] /\ v[k] = u[k] /\ u[k] = s1[k]
      BY <1>10, <1>11, <1>12, <2>2, <3>1
    <3> QED
      BY <1>6, <3>1, <3>2, ByteValues
  <2>3. CASE h < k /\ k <= h + n
    <3>1. /\ k - h \in 1 .. n /\ k \in 1 .. h + n /\ k \in 1 .. h + n + t /\ ~(k <= h)
          /\ k <= h + n + t
      BY <2>3
    <3>2. m[k] = v[k] /\ v[k] = u[k] /\ u[k] = own[k - h]
      BY <1>10, <1>11, <1>12, <2>3, <3>1
    <3>3. m[k] = k - h
      BY <1>5, <3>1, <3>2
    <3> QED
      BY <3>1, <3>3, ByteValues
  <2>4. CASE h + n < k /\ k <= h + n + t
    <3>1. k - (h + n) \in 1 .. t /\ k \in 1 .. h + n + t /\ ~(k <= h + n)
      BY <2>4
    <3>2. m[k] = v[k] /\ v[k] = s3[k - (h + n)]
      BY <1>11, <1>12, <2>4, <3>1
    <3>3. m[k] = ROOM
      BY <1>6, <3>1, <3>2
    <3> QED
      BY <2>4, <3>3, ByteValues
  <2>5. k > h + n + t \/ k <= h \/ (h < k /\ k <= h + n) \/ (h + n < k /\ k <= h + n + t)
    BY ByteValues
  <2> QED
    BY <2>1, <2>2, <2>3, <2>4, <2>5
<1>14. ASSUME NEW k \in 1 .. n PROVE m[h + k] = k
  <2>1. /\ h + k \in 1 .. h + n /\ h + k <= h + n /\ h + k <= h + n + t /\ ~(h + k <= h)
        /\ (h + k) - h = k
        /\ h + k \in 1 .. h + n + t /\ h + k \in 1 .. h + n + t + TAG_SIZE
    BY ByteValues
  <2>2. m[h + k] = v[h + k] /\ v[h + k] = u[h + k] /\ u[h + k] = own[(h + k) - h]
    BY <1>10, <1>11, <1>12, <2>1
  <2> QED
    BY <1>5, <2>1, <2>2
<1> QED
  BY <1>12, <1>13, <1>14 DEF Memory

\* A buffer with headroom h, tailroom t and a frame of n bytes as the stack made it.
Fresh(b, h, n, t) ==
    /\ Buffer(b) /\ b.data = h /\ b.len = n /\ b.end = h + n + t
    /\ \A k \in 1 .. n : b.mem[h + k] = k

LEMMA NewSkbFacts ==
    ASSUME NEW h \in Nat, NEW n \in Nat, NEW t \in Nat
    PROVE  Fresh(NewSkb(h, n, t), h, n, t)
<1>1. PICK m : m = NewSkb(h, n, t).mem
  OBVIOUS
<1>2. NewSkb(h, n, t) = [mem |-> m, data |-> h, len |-> n, end |-> h + n + t]
  BY <1>1 DEF NewSkb
<1>3. Memory(m, h + n + t) /\ \A k \in 1 .. n : m[h + k] = k
  BY <1>1, NewMemory
<1> QED
  BY <1>2, <1>3 DEF Buffer, Fresh

\* A write into the memory that stays in front of the end, of bytes that are not
\* INFO, keeps it the memory of a buffer.
LEMMA PutMemory ==
    ASSUME NEW e \in Nat, NEW m, Memory(m, e), NEW at \in Nat, NEW s \in Seq(Int), NEW i, Len(s) = i,
           at + i <= e, \A k \in 1 .. i : s[k] # INFO, NEW r, r = Put(m, at, s)
    PROVE  /\ Memory(r, e)
           /\ \A k \in 1 .. e + TAG_SIZE :
                  r[k] = IF at < k /\ k <= at + i THEN s[k - at] ELSE m[k]
<1>1. /\ m \in Seq(Int) /\ Len(m) = e + TAG_SIZE /\ i \in Nat
      /\ \A k \in 1 .. e + TAG_SIZE : m[k] = INFO <=> k > e
  BY DEF Memory
<1>2. at + i <= e + TAG_SIZE
  BY <1>1, ByteValues
<1>3. /\ r \in Seq(Int) /\ Len(r) = e + TAG_SIZE
      /\ \A k \in 1 .. e + TAG_SIZE : r[k] = IF at < k /\ k <= at + i THEN s[k - at] ELSE m[k]
  <2>1. AfterPut(r, m, at, s)
    BY <1>1, <1>2, PutFacts
  <2> QED
    BY <1>1, <2>1 DEF AfterPut
<1>4. ASSUME NEW k \in 1 .. e + TAG_SIZE PROVE r[k] = INFO <=> k > e
  <2>1. CASE at < k /\ k <= at + i
    <3>1. k - at \in 1 .. i /\ ~(k > e)
      BY <1>1, <2>1, ByteValues
    <3> QED
      BY <1>3, <2>1, <3>1
  <2>2. CASE ~(at < k /\ k <= at + i)
    BY <1>1, <1>3, <2>2
  <2> QED
    BY <2>1, <2>2
<1> QED
  BY <1>3, <1>4 DEF Memory

\* The frame moves up, whole, and zero bytes follow it.
LEMMA ShiftUpFacts ==
    ASSUME NEW b, Buffer(b), NEW d, NEW l, NEW e, d = b.data, l = b.len, e = b.end,
           NEW n \in Nat, n <= d, NEW s, s = ShiftUp(b, n)
    PROVE  /\ Buffer(s) /\ s.data = d - n /\ s.len = l + n /\ s.end = e
           /\ \A k \in 1 .. l : s.mem[(d - n) + k] = b.mem[d + k]
           /\ \A k \in l + 1 .. l + n : s.mem[(d - n) + k] = ZERO
<1>1. PICK m : m = b.mem
  OBVIOUS
<1>2. /\ d \in Nat /\ l \in Nat /\ e \in Nat /\ d + l <= e /\ Memory(m, e)
      /\ b = [mem |-> m, data |-> d, len |-> l, end |-> e]
  BY <1>1 DEF Buffer
<1>3. PICK F : F = FrameOf(b)
  OBVIOUS
<1>4. PICK Z : Z = Bytes(ZERO, n)
  OBVIOUS
<1>5. PICK FZ : FZ = F \o Z
  OBVIOUS
<1>6. PICK r : r = Put(m, d - n, FZ)
  OBVIOUS
<1>7. s = [mem |-> r, data |-> d - n, len |-> l + n, end |-> e]
  BY <1>1, <1>2, <1>3, <1>4, <1>5, <1>6 DEF ShiftUp
<1>8. F \in Seq(Int) /\ Len(F) = l /\ \A k \in 1 .. l : F[k] = m[d + k]
  <2>1. m \in Seq(Int) /\ d + l <= Len(m)
    BY <1>2, ByteValues DEF Memory
  <2>2. F = Get(m, d, l)
    BY <1>1, <1>3 DEF FrameOf
  <2>3. d \in Nat /\ l \in Nat
    BY <1>2
  <2>4. /\ Get(m, d, l) \in Seq(Int) /\ Len(Get(m, d, l)) = l
        /\ \A k \in 1 .. l : Get(m, d, l)[k] = m[d + k]
    BY <2>1, <2>3, GetFacts
  <2> QED
    BY <2>2, <2>4
<1>9. Z \in Seq(Int) /\ Len(Z) = n /\ \A k \in 1 .. n : Z[k] = ZERO
  BY <1>4, ByteValues, BytesFacts
<1>10. /\ FZ \in Seq(Int) /\ Len(FZ) = l + n
       /\ \A k \in 1 .. l + n : FZ[k] = IF k <= l THEN F[k] ELSE Z[k - l]
  <2>1. F \in Seq(Int) /\ Len(F) = l /\ Z \in Seq(Int) /\ Len(Z) = n
    BY <1>8, <1>9
  <2>2. /\ FZ \in Seq(Int) /\ Len(FZ) = Len(F) + Len(Z)
        /\ \A k \in 1 .. Len(F) + Len(Z) : FZ[k] = IF k <= Len(F) THEN F[k] ELSE Z[k - Len(F)]
    BY <1>5, <2>1, ConcatFacts
  <2> QED
    BY <2>1, <2>2
<1>11. ASSUME NEW k \in 1 .. l
       PROVE  FZ[k] = m[d + k] /\ FZ[k] # INFO
  <2>1. k \in 1 .. l + n /\ k <= l /\ d + k \in 1 .. e + TAG_SIZE /\ ~(d + k > e)
    BY <1>2, ByteValues
  <2>2. FZ[k] = m[d + k]
    BY <1>8, <1>10, <2>1
  <2>3. m[d + k] # INFO
    BY <1>2, <2>1 DEF Memory
  <2> QED
    BY <2>2, <2>3
<1>12. ASSUME NEW k \in l + 1 .. l + n
       PROVE  FZ[k] = ZERO /\ FZ[k] # INFO
  <2>1. k \in 1 .. l + n /\ ~(k <= l) /\ k - l \in 1 .. n
    BY <1>2
  <2>2. FZ[k] = ZERO
    BY <1>9, <1>10, <2>1
  <2> QED
    BY <2>2, ByteValues
<1>13. /\ Memory(r, e)
       /\ \A k \in 1 .. e + TAG_SIZE :
              r[k] = IF d - n < k /\ k <= (d - n) + (l + n) THEN FZ[k - (d - n)] ELSE m[k]
  <2>1. d - n \in Nat /\ (d - n) + (l + n) <= e
    BY <1>2
  <2>2. \A k \in 1 .. l + n : FZ[k] # INFO
    <3> SUFFICES ASSUME NEW k \in 1 .. l + n PROVE FZ[k] # INFO
      OBVIOUS
    <3>1. k \in 1 .. l \/ k \in l + 1 .. l + n
      BY <1>2
    <3> QED
      BY <1>11, <1>12, <3>1
  <2>3. /\ e \in Nat /\ Memory(m, e) /\ FZ \in Seq(Int) /\ Len(FZ) = l + n
        /\ r = Put(m, d - n, FZ)
    BY <1>2, <1>6, <1>10
  <2>4. PICK at : at = d - n
    OBVIOUS
  <2>5. PICK i : i = l + n
    OBVIOUS
  <2>6. /\ Memory(r, e)
        /\ \A k \in 1 .. e + TAG_SIZE :
               r[k] = IF at < k /\ k <= at + i THEN FZ[k - at] ELSE m[k]
    <3>1. /\ e \in Nat /\ Memory(m, e) /\ FZ \in Seq(Int) /\ Len(FZ) = i
          /\ r = Put(m, at, FZ) /\ at \in Nat /\ at + i <= e
          /\ \A k \in 1 .. i : FZ[k] # INFO
      BY <2>1, <2>2, <2>3, <2>4, <2>5
    <3> QED
      BY <3>1, PutMemory
  <2> QED
    BY <2>4, <2>5, <2>6
<1>14. ASSUME NEW k \in 1 .. l + n PROVE r[(d - n) + k] = FZ[k]
  <2>1. /\ (d - n) + k \in 1 .. e + TAG_SIZE /\ d - n < (d - n) + k
        /\ (d - n) + k <= (d - n) + (l + n) /\ ((d - n) + k) - (d - n) = k
    BY <1>2, ByteValues
  <2> QED
    BY <1>13, <2>1
<1>15. /\ \A k \in 1 .. l : r[(d - n) + k] = m[d + k]
       /\ \A k \in l + 1 .. l + n : r[(d - n) + k] = ZERO
  <2>1. \A k \in 1 .. l : k \in 1 .. l + n
    BY <1>2
  <2>2. \A k \in l + 1 .. l + n : k \in 1 .. l + n
    BY <1>2
  <2> QED
    BY <1>11, <1>12, <1>14, <2>1, <2>2
<1>16. d - n \in Nat /\ l + n \in Nat /\ (d - n) + (l + n) <= e
  BY <1>2
<1> QED
  BY <1>1, <1>2, <1>7, <1>13, <1>15, <1>16 DEF Buffer

\* How long a frame of n bytes is once it is padded, and its bytes.
PaddedLen(n) == IF n < MIN_LENGTH THEN MIN_LENGTH ELSE n

LEMMA PaddedFacts ==
    ASSUME NEW n \in Nat
    PROVE  /\ PaddedLen(n) \in Nat /\ PaddedLen(n) >= n /\ PaddedLen(n) >= MIN_LENGTH
           /\ Padded(n) \in Seq(Int) /\ Len(Padded(n)) = PaddedLen(n)
           /\ \A k \in 1 .. PaddedLen(n) : Padded(n)[k] = IF k <= n THEN k ELSE ZERO
<1>1. PICK w : w = PaddedLen(n)
  OBVIOUS
<1>2. w \in Nat /\ w >= n /\ w >= MIN_LENGTH
  BY <1>1, ByteValues DEF PaddedLen
<1>3. Padded(n) = [k \in 1 .. w |-> IF k <= n THEN k ELSE ZERO]
  BY <1>1 DEF Padded, PaddedLen
<1>4. Padded(n) \in Seq(Int) /\ Len(Padded(n)) = w
  BY <1>2, <1>3, ByteValues
<1> QED
  BY <1>1, <1>2, <1>3, <1>4

\* Pad finds room for the zero bytes or leaves the frame as it is.
AfterPad(p, n) ==
    /\ Buffer(p) /\ p.len >= n
    /\ p.len >= MIN_LENGTH =>
          /\ p.len = PaddedLen(n)
          /\ \A k \in 1 .. p.len : p.mem[p.data + k] = IF k <= n THEN k ELSE ZERO

LEMMA PadFacts ==
    ASSUME NEW h \in Nat, NEW n \in Nat, NEW t \in Nat
    PROVE  /\ AfterPad(Pad(NewSkb(h, n, t)), n)
           /\ n >= MIN_LENGTH => Pad(NewSkb(h, n, t)) = NewSkb(h, n, t)
<1> PICK p : p = Pad(NewSkb(h, n, t))
  OBVIOUS
<1> SUFFICES AfterPad(p, n) /\ (n >= MIN_LENGTH => p = NewSkb(h, n, t))
  OBVIOUS
<1> USE DEF AfterPad
<1>1. PICK b : b = NewSkb(h, n, t)
  OBVIOUS
<1>2. PICK m : m = b.mem
  OBVIOUS
<1>3. PICK e : e = h + n + t
  OBVIOUS
<1>4. /\ Buffer(b) /\ b.data = h /\ b.len = n /\ b.end = e /\ e \in Nat
      /\ \A k \in 1 .. n : m[h + k] = k
  <2>1. Fresh(b, h, n, t)
    BY <1>1, NewSkbFacts
  <2> QED
    BY <1>2, <1>3, <2>1 DEF Fresh
<1>5. b = [mem |-> m, data |-> h, len |-> n, end |-> e] /\ Memory(m, e)
  BY <1>2, <1>4 DEF Buffer
<1>6. PICK w : w = MIN_LENGTH - n
  OBVIOUS
<1>7. w \in Int /\ (w <= 0 <=> n >= MIN_LENGTH) /\ n + w = MIN_LENGTH
  BY <1>6, ByteValues
<1>8. CASE w <= 0
  <2>1. p = b
    BY <1>1, <1>4, <1>6, <1>8 DEF Pad
  <2>2. n = PaddedLen(n)
    BY <1>7, <1>8, ByteValues DEF PaddedLen
  <2>3. \A k \in 1 .. n : m[h + k] = IF k <= n THEN k ELSE ZERO
    BY <1>4
  <2> QED
    BY <1>1, <1>2, <1>4, <2>1, <2>2, <2>3
<1>9. CASE w > 0 /\ t >= w
  <2>1. w \in Nat /\ h + n \in Nat /\ h + n + w <= e /\ MIN_LENGTH = PaddedLen(n) /\ ~(n >= MIN_LENGTH)
    BY <1>3, <1>7, <1>9, ByteValues DEF PaddedLen
  <2>2. PICK z : z = Bytes(ZERO, w)
    OBVIOUS
  <2>3. z \in Seq(Int) /\ Len(z) = w /\ \A k \in 1 .. w : z[k] = ZERO
    BY <2>1, <2>2, ByteValues, BytesFacts
  <2>4. PICK r : r = Put(m, h + n, z)
    OBVIOUS
  <2>5. PICK at : at = h + n
    OBVIOUS
  <2>6. /\ Memory(r, e)
        /\ \A k \in 1 .. e + TAG_SIZE :
               r[k] = IF at < k /\ k <= at + w THEN z[k - at] ELSE m[k]
    <3>1. /\ e \in Nat /\ Memory(m, e) /\ z \in Seq(Int) /\ Len(z) = w
          /\ r = Put(m, at, z) /\ at \in Nat /\ at + w <= e
          /\ \A k \in 1 .. w : z[k] # INFO
      BY <1>4, <1>5, <2>1, <2>3, <2>4, <2>5, ByteValues
    <3> QED
      BY <3>1, PutMemory
  <2>7. p = [mem |-> r, data |-> h, len |-> n + w, end |-> e]
    <3>1. tailroom(b) >= w /\ ~(w <= 0)
      BY <1>3, <1>4, <1>7, <1>9 DEF tailroom
    <3>2. p = [b EXCEPT !.mem = Put(@, b.data + b.len, Bytes(ZERO, w)), !.len = @ + w]
      BY <1>1, <1>4, <1>6, <3>1 DEF Pad
    <3> QED
      BY <1>5, <2>2, <2>4, <3>2
  <2>8. ASSUME NEW k \in 1 .. n + w PROVE r[h + k] = IF k <= n THEN k ELSE ZERO
    <3>1. CASE k <= n
      <4>1. h + k \in 1 .. e + TAG_SIZE /\ ~(at < h + k) /\ k \in 1 .. n
        BY <1>4, <2>1, <2>5, <3>1, ByteValues
      <4> QED
        BY <1>4, <2>6, <3>1, <4>1
    <3>2. CASE k > n
      <4>1. /\ h + k \in 1 .. e + TAG_SIZE /\ at < h + k /\ h + k <= at + w
            /\ (h + k) - at \in 1 .. w /\ ~(k <= n)
        BY <1>4, <2>1, <2>5, <3>2, ByteValues
      <4>2. r[h + k] = z[(h + k) - at]
        BY <2>6, <4>1
      <4> QED
        BY <2>3, <4>1, <4>2
    <3> QED
      BY <2>1, <3>1, <3>2
  <2>9. Buffer(p)
    BY <1>4, <2>1, <2>6, <2>7 DEF Buffer
  <2>10. n + w >= n
    BY <2>1
  <2> QED
    BY <1>7, <2>1, <2>7, <2>8, <2>9, <2>10
<1>10. CASE w > 0 /\ ~(t >= w) /\ h > w
  <2>1. w \in Nat /\ w <= h /\ MIN_LENGTH = PaddedLen(n) /\ ~(n >= MIN_LENGTH)
    BY <1>7, <1>10, ByteValues DEF PaddedLen
  <2>2. ~(tailroom(b) >= w) /\ headroom(b) > w /\ ~(w <= 0)
    BY <1>3, <1>4, <1>7, <1>10 DEF tailroom, headroom
  <2>3. p = ShiftUp(b, w)
    BY <1>1, <1>4, <1>6, <2>2 DEF Pad
  <2>4. /\ Buffer(p) /\ p.data = h - w /\ p.len = n + w /\ p.end = e
        /\ \A k \in 1 .. n : p.mem[(h - w) + k] = m[h + k]
        /\ \A k \in n + 1 .. n + w : p.mem[(h - w) + k] = ZERO
    <3>1. Buffer(b) /\ h = b.data /\ n = b.len /\ e = b.end /\ w \in Nat /\ w <= h /\ p = ShiftUp(b, w)
      BY <1>4, <2>1, <2>3
    <3> QED
      BY <1>2, <3>1, ShiftUpFacts
  <2>5. ASSUME NEW k \in 1 .. n + w PROVE p.mem[(h - w) + k] = IF k <= n THEN k ELSE ZERO
    <3>1. k \in 1 .. n \/ (k \in n + 1 .. n + w /\ ~(k <= n))
      BY <2>1
    <3> QED
      BY <1>4, <2>4, <3>1
  <2>6. n + w >= n
    BY <2>1
  <2> QED
    BY <1>7, <2>1, <2>4, <2>5, <2>6
<1>11. CASE w > 0 /\ ~(t >= w) /\ ~(h > w)
  <2>1. ~(tailroom(b) >= w) /\ ~(headroom(b) > w)
    BY <1>3, <1>4, <1>11 DEF tailroom, headroom
  <2>2. p = b
    BY <1>1, <1>4, <1>6, <1>11, <2>1 DEF Pad
  <2> QED
    BY <1>1, <1>4, <1>7, <1>11, <2>2, ByteValues
<1> QED
  BY <1>7, <1>8, <1>9, <1>10, <1>11

\* MakeRoom lengthens the frame at the tail, moves it up, or leaves it as it is; its
\* bytes stay.
AfterRoom(q, p) ==
    /\ Buffer(q) /\ q.end = p.end
    /\ \/ /\ p.end - (p.data + p.len) > TAG_SIZE
          /\ q.data = p.data /\ q.len = p.len + TAG_SIZE
       \/ /\ p.end - (p.data + p.len) <= TAG_SIZE /\ p.data > TAG_SIZE
          /\ q.data = p.data - TAG_SIZE /\ q.len = p.len + TAG_SIZE
       \/ /\ p.end - (p.data + p.len) <= TAG_SIZE /\ p.data <= TAG_SIZE
          /\ q.data = p.data /\ q.len = p.len
    /\ \A k \in 1 .. p.len : q.mem[q.data + k] = p.mem[p.data + k]

LEMMA MakeRoomFacts ==
    ASSUME NEW p, Buffer(p)
    PROVE  AfterRoom(MakeRoom(p), p)
<1> PICK q : q = MakeRoom(p)
  OBVIOUS
<1> SUFFICES AfterRoom(q, p)
  OBVIOUS
<1>1. PICK d : d = p.data
  OBVIOUS
<1>2. PICK l : l = p.len
  OBVIOUS
<1>3. PICK e : e = p.end
  OBVIOUS
<1>4. PICK m : m = p.mem
  OBVIOUS
<1>5. /\ p = [mem |-> m, data |-> d, len |-> l, end |-> e]
      /\ d \in Nat /\ l \in Nat /\ e \in Nat /\ d + l <= e /\ Memory(m, e)
  BY <1>1, <1>2, <1>3, <1>4 DEF Buffer
<1>6. CASE e - (d + l) > TAG_SIZE
  <2>1. q = [mem |-> m, data |-> d, len |-> l + TAG_SIZE, end |-> e]
    BY <1>5, <1>6 DEF MakeRoom, tailroom
  <2>2. l + TAG_SIZE \in Nat /\ d + (l + TAG_SIZE) <= e
    BY <1>5, <1>6, ByteValues
  <2>3. Buffer(q)
    BY <1>5, <2>1, <2>2 DEF Buffer
  <2> QED
    BY <1>5, <1>6, <2>1, <2>3 DEF AfterRoom
<1>7. CASE ~(e - (d + l) > TAG_SIZE) /\ d > TAG_SIZE
  <2>1. e - (d + l) <= TAG_SIZE /\ TAG_SIZE \in Nat /\ TAG_SIZE <= d
    BY <1>5, <1>7, ByteValues
  <2>2. q = ShiftUp(p, TAG_SIZE)
    BY <1>5, <1>7 DEF MakeRoom, tailroom, headroom
  <2>3. /\ Buffer(q) /\ q.data = d - TAG_SIZE /\ q.len = l + TAG_SIZE /\ q.end = e
        /\ \A k \in 1 .. l : q.mem[(d - TAG_SIZE) + k] = p.mem[d + k]
    BY <1>1, <1>2, <1>3, <2>1, <2>2, ShiftUpFacts
  <2> QED
    BY <1>1, <1>2, <1>3, <1>7, <2>1, <2>3 DEF AfterRoom
<1>8. CASE ~(e - (d + l) > TAG_SIZE) /\ ~(d > TAG_SIZE)
  <2>1. e - (d + l) <= TAG_SIZE /\ d <= TAG_SIZE
    BY <1>5, <1>8, ByteValues
  <2>2. q = p
    BY <1>5, <1>8 DEF MakeRoom, tailroom, headroom
  <2> QED
    BY <1>1, <1>2, <1>3, <2>1, <2>2 DEF AfterRoom
<1> QED
  BY <1>6, <1>7, <1>8

\* TagInsert writes the tag behind the addresses, and what follows them behind the
\* tag: TAG_SIZE bytes further than the frame reaches.
AfterInsert(s, q) ==
    /\ s = [mem |-> s.mem, data |-> q.data, len |-> q.len, end |-> q.end]
    /\ s.mem \in Seq(Int) /\ Len(s.mem) = q.end + TAG_SIZE
    /\ \A k \in 1 .. q.end + TAG_SIZE :
           s.mem[k] = IF q.data + MAC_BYTES < k /\ k <= q.data + q.len + TAG_SIZE
                      THEN IF k <= q.data + MAC_BYTES + TAG_SIZE THEN TAG ELSE q.mem[k - TAG_SIZE]
                      ELSE q.mem[k]

LEMMA TagInsertFacts ==
    ASSUME NEW q, Block(q), q.len >= MAC_BYTES
    PROVE  AfterInsert(TagInsert(q), q)
<1> PICK s : s = TagInsert(q)
  OBVIOUS
<1> SUFFICES AfterInsert(s, q)
  OBVIOUS
<1>1. PICK d : d = q.data
  OBVIOUS
<1>2. PICK l : l = q.len
  OBVIOUS
<1>3. PICK e : e = q.end
  OBVIOUS
<1>4. PICK m : m = q.mem
  OBVIOUS
<1>5. /\ q = [mem |-> m, data |-> d, len |-> l, end |-> e]
      /\ d \in Nat /\ l \in Nat /\ e \in Nat /\ d + l <= e /\ l >= MAC_BYTES
      /\ m \in Seq(Int) /\ Len(m) = e + TAG_SIZE
  BY <1>1, <1>2, <1>3, <1>4 DEF Block
<1>6. PICK a : a = d + MAC_BYTES
  OBVIOUS
<1>7. PICK j : j = l - MAC_BYTES
  OBVIOUS
<1>8. a \in Nat /\ j \in Nat /\ a + j = d + l /\ a + j <= e + TAG_SIZE
  BY <1>5, <1>6, <1>7, ByteValues
<1>9. PICK g : g = Get(m, a, j)
  OBVIOUS
<1>10. PICK x : x = Bytes(TAG, TAG_SIZE)
  OBVIOUS
<1>11. PICK u : u = x \o g
  OBVIOUS
<1>12. PICK r : r = Put(m, a, u)
  OBVIOUS
<1>13. s = [mem |-> r, data |-> d, len |-> l, end |-> e]
  BY <1>5, <1>6, <1>7, <1>9, <1>10, <1>11, <1>12 DEF TagInsert
<1>14. g \in Seq(Int) /\ Len(g) = j /\ \A k \in 1 .. j : g[k] = m[a + k]
  <2>1. m \in Seq(Int) /\ a \in Nat /\ j \in Nat /\ a + j <= Len(m)
    BY <1>5, <1>8
  <2>2. /\ Get(m, a, j) \in Seq(Int) /\ Len(Get(m, a, j)) = j
        /\ \A k \in 1 .. j : Get(m, a, j)[k] = m[a + k]
    BY <2>1, GetFacts
  <2> QED
    BY <1>9, <2>2
<1>15. x \in Seq(Int) /\ Len(x) = TAG_SIZE /\ \A k \in 1 .. TAG_SIZE : x[k] = TAG
  BY <1>10, ByteValues, BytesFacts
<1>16. /\ u \in Seq(Int) /\ Len(u) = TAG_SIZE + j
       /\ \A k \in 1 .. TAG_SIZE + j : u[k] = IF k <= TAG_SIZE THEN x[k] ELSE g[k - TAG_SIZE]
  <2>1. x \in Seq(Int) /\ g \in Seq(Int)
    BY <1>14, <1>15
  <2>2. /\ x \o g \in Seq(Int) /\ Len(x \o g) = Len(x) + Len(g)
        /\ \A k \in 1 .. Len(x) + Len(g) : (x \o g)[k] = IF k <= Len(x) THEN x[k] ELSE g[k - Len(x)]
    BY <2>1, ConcatFacts
  <2> QED
    BY <1>11, <1>14, <1>15, <2>2
<1>17. PICK i : i = TAG_SIZE + j
  OBVIOUS
<1>18. PICK w : w = e + TAG_SIZE
  OBVIOUS
<1>19. /\ r \in Seq(Int) /\ Len(r) = w
       /\ \A k \in 1 .. w : r[k] = IF a < k /\ k <= a + i THEN u[k - a] ELSE m[k]
  <2>1. /\ m \in Seq(Int) /\ a \in Nat /\ u \in Seq(Int) /\ Len(u) = i /\ Len(m) = w
        /\ r = Put(m, a, u) /\ a + i <= w
    BY <1>5, <1>8, <1>12, <1>16, <1>17, <1>18, ByteValues
  <2>2. AfterPut(r, m, a, u)
    BY <2>1, PutFacts
  <2> QED
    BY <2>1, <2>2 DEF AfterPut
<1>20. ASSUME NEW k \in 1 .. w
       PROVE  r[k] = IF a < k /\ k <= d + l + TAG_SIZE
                     THEN IF k <= a + TAG_SIZE THEN TAG ELSE m[k - TAG_SIZE]
                     ELSE m[k]
  <2>0. k \in Nat /\ a + i = d + l + TAG_SIZE
    BY <1>5, <1>8, <1>17, <1>18, ByteValues
  <2>1. CASE a < k /\ k <= a + i /\ k <= a + TAG_SIZE
    <3>1. k - a \in 1 .. TAG_SIZE /\ k - a \in 1 .. TAG_SIZE + j /\ k - a <= TAG_SIZE
      BY <1>8, <1>17, <2>0, <2>1, ByteValues
    <3>2. r[k] = u[k - a]
      BY <1>19, <2>1
    <3>3. u[k - a] = TAG
      BY <1>15, <1>16, <3>1
    <3> QED
      BY <2>0, <2>1, <3>2, <3>3
  <2>2. CASE a < k /\ k <= a + i /\ ~(k <= a + TAG_SIZE)
    <3>1. /\ k - a \in 1 .. TAG_SIZE + j /\ ~(k - a <= TAG_SIZE)
          /\ (k - a) - TAG_SIZE \in 1 .. j
          /\ a + ((k - a) - TAG_SIZE) = k - TAG_SIZE
      BY <1>8, <1>17, <2>0, <2>2, ByteValues
    <3>2. r[k] = u[k - a]
      BY <1>19, <2>2
    <3>3. u[k - a] = g[(k - a) - TAG_SIZE]
      BY <1>16, <3>1
    <3>4. g[(k - a) - TAG_SIZE] = m[a + ((k - a) - TAG_SIZE)]
      BY <1>14, <3>1
    <3> QED
      BY <2>0, <2>2, <3>1, <3>2, <3>3, <3>4
  <2>3. CASE ~(a < k /\ k <= a + i)
    BY <1>19, <2>0, <2>3
  <2> QED
    BY <2>1, <2>2, <2>3
<1>21. \A k \in 1 .. e + TAG_SIZE :
           r[k] = IF d + MAC_BYTES < k /\ k <= d + l + TAG_SIZE
                  THEN IF k <= d + MAC_BYTES + TAG_SIZE THEN TAG ELSE m[k - TAG_SIZE]
                  ELSE m[k]
  BY <1>6, <1>18, <1>20
<1> QED
  BY <1>5, <1>13, <1>18, <1>19, <1>21 DEF AfterInsert

LEMMA SeqEqual ==
    ASSUME NEW s \in Seq(Int), NEW t \in Seq(Int), Len(s) = Len(t),
           \A k \in 1 .. Len(s) : s[k] = t[k]
    PROVE  s = t
OBVIOUS

\* The three steps of brcmTagAdd for a frame that has its addresses.
LEMMA TagAddFacts ==
    ASSUME NEW h \in Nat, NEW n \in Nat, NEW t \in Nat, n >= MAC_BYTES
    PROVE  \E p, q :
              /\ p = Pad(NewSkb(h, n, t))
              /\ AfterPad(p, n) /\ AfterRoom(q, p) /\ q.len >= MAC_BYTES
              /\ AfterInsert(brcmTagAdd(NewSkb(h, n, t)), q)
<1>1. PICK p : p = Pad(NewSkb(h, n, t))
  OBVIOUS
<1>2. AfterPad(p, n)
  BY <1>1, PadFacts
<1>3. PICK q : q = MakeRoom(p)
  OBVIOUS
<1>4. Buffer(p) /\ p.len >= MAC_BYTES
  BY <1>2, ByteValues DEF AfterPad, Buffer
<1>5. AfterRoom(q, p)
  BY <1>3, <1>4, MakeRoomFacts
<1>6. Buffer(q) /\ q.len >= MAC_BYTES
  <2>1. p.len \in Nat
    BY <1>4 DEF Buffer
  <2> QED
    BY <1>4, <1>5, <2>1, ByteValues DEF AfterRoom
<1>7. AfterInsert(TagInsert(q), q)
  BY <1>6, BufferBlock, TagInsertFacts
<1> QED
  BY <1>1, <1>2, <1>3, <1>5, <1>6, <1>7 DEF brcmTagAdd

\* InfoKeptExactly of a buffer: the move for the tag reaches the bytes behind the end
\* unless TAG_SIZE bytes of tailroom are left.
LEMMA InfoKept ==
    ASSUME NEW h \in Nat, NEW n \in Nat, NEW t \in Nat, n >= MAC_BYTES,
           NEW x, x = tailroom(Pad(NewSkb(h, n, t)))
    PROVE  InfoIntact(brcmTagAdd(NewSkb(h, n, t))) <=> x = TAG_SIZE \/ x >= 2 * TAG_SIZE
<1>1. PICK p, q : /\ p = Pad(NewSkb(h, n, t))
                  /\ AfterPad(p, n) /\ AfterRoom(q, p) /\ q.len >= MAC_BYTES
                  /\ AfterInsert(brcmTagAdd(NewSkb(h, n, t)), q)
  BY TagAddFacts
<1>2. PICK s : s = brcmTagAdd(NewSkb(h, n, t))
  OBVIOUS
<1>3. PICK d : d = q.data
  OBVIOUS
<1>4. PICK l : l = q.len
  OBVIOUS
<1>5. PICK e : e = q.end
  OBVIOUS
<1>6. PICK m : m = q.mem
  OBVIOUS
<1>7. PICK r : r = s.mem
  OBVIOUS
<1>8. /\ d \in Nat /\ l \in Nat /\ e \in Nat /\ d + l <= e /\ l >= MAC_BYTES
      /\ \A k \in 1 .. e + TAG_SIZE : m[k] = INFO <=> k > e
  BY <1>1, <1>3, <1>4, <1>5, <1>6 DEF AfterRoom, Buffer, Memory
<1>9. /\ s.end = e /\ r \in Seq(Int) /\ Len(r) = e + TAG_SIZE
      /\ \A k \in 1 .. e + TAG_SIZE :
             r[k] = IF d + MAC_BYTES < k /\ k <= d + l + TAG_SIZE
                    THEN IF k <= d + MAC_BYTES + TAG_SIZE THEN TAG ELSE m[k - TAG_SIZE]
                    ELSE m[k]
  BY <1>1, <1>2, <1>3, <1>4, <1>5, <1>6, <1>7 DEF AfterInsert
<1>10. e - (d + l) >= TAG_SIZE <=> x = TAG_SIZE \/ x >= 2 * TAG_SIZE
  <2>1. p.data \in Nat /\ p.len \in Nat /\ p.end \in Nat /\ x = p.end - (p.data + p.len)
    BY <1>1 DEF AfterPad, Buffer, tailroom
  <2>2. \/ x > TAG_SIZE /\ e - (d + l) = x - TAG_SIZE
        \/ x <= TAG_SIZE /\ e - (d + l) = x
    BY <1>1, <1>3, <1>4, <1>5, <2>1, ByteValues DEF AfterRoom
  <2> QED
    BY <2>1, <2>2, ByteValues
<1>11. PICK g : g = Get(r, e, TAG_SIZE)
  OBVIOUS
<1>12. g \in Seq(Int) /\ Len(g) = TAG_SIZE /\ \A k \in 1 .. TAG_SIZE : g[k] = r[e + k]
  <2>1. r \in Seq(Int) /\ e \in Nat /\ TAG_SIZE \in Nat /\ e + TAG_SIZE <= Len(r)
    BY <1>8, <1>9, ByteValues
  <2>2. /\ Get(r, e, TAG_SIZE) \in Seq(Int) /\ Len(Get(r, e, TAG_SIZE)) = TAG_SIZE
        /\ \A k \in 1 .. TAG_SIZE : Get(r, e, TAG_SIZE)[k] = r[e + k]
    BY <2>1, GetFacts
  <2> QED
    BY <1>11, <2>2
<1>13. PICK f : f = Bytes(INFO, TAG_SIZE)
  OBVIOUS
<1>14. f \in Seq(Int) /\ Len(f) = TAG_SIZE /\ \A k \in 1 .. TAG_SIZE : f[k] = INFO
  BY <1>13, ByteValues, BytesFacts
<1>15. InfoIntact(s) <=> g = f
  BY <1>7, <1>9, <1>11, <1>13 DEF InfoIntact
<1>16. CASE e - (d + l) >= TAG_SIZE
  <2>1. ASSUME NEW k \in 1 .. TAG_SIZE PROVE g[k] = f[k]
    <3>1. /\ e + k \in 1 .. e + TAG_SIZE /\ ~(e + k <= d + l + TAG_SIZE) /\ e + k > e
      BY <1>8, <1>16, ByteValues
    <3>2. r[e + k] = m[e + k] /\ m[e + k] = INFO
      BY <1>8, <1>9, <3>1
    <3> QED
      BY <1>12, <1>14, <3>2
  <2>2. g = f
    BY <1>12, <1>14, <2>1, SeqEqual
  <2> QED
    BY <1>2, <1>10, <1>15, <1>16, <2>2
<1>17. CASE ~(e - (d + l) >= TAG_SIZE)
  <2>1. PICK k : k = e + 1
    OBVIOUS
  <2>2. /\ k \in 1 .. e + TAG_SIZE /\ d + MAC_BYTES < k /\ k <= d + l + TAG_SIZE /\ k \in Nat
        /\ 1 \in 1 .. TAG_SIZE
    BY <1>8, <1>17, <2>1, ByteValues
  <2>3. r[k] # INFO
    <3>1. CASE k <= d + MAC_BYTES + TAG_SIZE
      BY <1>9, <2>2, <3>1, ByteValues
    <3>2. CASE ~(k <= d + MAC_BYTES + TAG_SIZE)
      <4>1. k - TAG_SIZE \in 1 .. e + TAG_SIZE /\ ~(k - TAG_SIZE > e)
        BY <1>8, <2>1, <2>2, <3>2, ByteValues
      <4>2. r[k] = m[k - TAG_SIZE]
        BY <1>9, <2>2, <3>2
      <4> QED
        BY <1>8, <4>1, <4>2
    <3> QED
      BY <3>1, <3>2
  <2>4. g[1] # f[1]
    BY <1>12, <1>14, <2>1, <2>2, <2>3
  <2> QED
    BY <1>2, <1>10, <1>15, <1>17, <2>4
<1> QED
  BY <1>16, <1>17

\* The bytes of a padded frame with its tag.
LEMMA TaggedFacts ==
    ASSUME NEW n \in Nat, NEW w, w = PaddedLen(n)
    PROVE  /\ Tagged(n) \in Seq(Int) /\ Len(Tagged(n)) = w + TAG_SIZE
           /\ \A k \in 1 .. w + TAG_SIZE :
                  Tagged(n)[k] = IF k <= MAC_BYTES THEN Padded(n)[k]
                                 ELSE IF k <= MAC_BYTES + TAG_SIZE THEN TAG
                                 ELSE Padded(n)[k - TAG_SIZE]
<1>1. PICK f : f = Padded(n)
  OBVIOUS
<1>2. w \in Nat /\ w >= MAC_BYTES /\ f \in Seq(Int) /\ Len(f) = w
  BY <1>1, PaddedFacts, ByteValues
<1>3. PICK a : a = SubSeq(f, 1, MAC_BYTES)
  OBVIOUS
<1>4. PICK x : x = Bytes(TAG, TAG_SIZE)
  OBVIOUS
<1>5. PICK z : z = SubSeq(f, MAC_BYTES + 1, w)
  OBVIOUS
<1>6. PICK u : u = a \o x
  OBVIOUS
<1>7. PICK v : v = u \o z
  OBVIOUS
<1>8. Tagged(n) = v
  BY <1>1, <1>2, <1>3, <1>4, <1>5, <1>6, <1>7 DEF Tagged
<1>9. a \in Seq(Int) /\ Len(a) = MAC_BYTES /\ \A k \in 1 .. MAC_BYTES : a[k] = f[k]
  BY <1>2, <1>3, ByteValues
<1>10. x \in Seq(Int) /\ Len(x) = TAG_SIZE /\ \A k \in 1 .. TAG_SIZE : x[k] = TAG
  BY <1>4, ByteValues, BytesFacts
<1>11. /\ z \in Seq(Int) /\ Len(z) = w - MAC_BYTES
       /\ \A k \in 1 .. w - MAC_BYTES : z[k] = f[MAC_BYTES + k]
  BY <1>2, <1>5, ByteValues
<1>12. /\ u \in Seq(Int) /\ Len(u) = MAC_BYTES + TAG_SIZE
       /\ \A k \in 1 .. MAC_BYTES + TAG_SIZE : u[k] = IF k <= MAC_BYTES THEN a[k] ELSE x[k - MAC_BYTES]
  <2>1. a \in Seq(Int) /\ x \in Seq(Int)
    BY <1>9, <1>10
  <2>2. /\ a \o x \in Seq(Int) /\ Len(a \o x) = Len(a) + Len(x)
        /\ \A k \in 1 .. Len(a) + Len(x) : (a \o x)[k] = IF k <= Len(a) THEN a[k] ELSE x[k - Len(a)]
    BY <2>1, ConcatFacts
  <2> QED
    BY <1>6, <1>9, <1>10, <2>2
<1>13. PICK c : c = MAC_BYTES + TAG_SIZE
  OBVIOUS
<1>14. c \in Nat /\ c + (w - MAC_BYTES) = w + TAG_SIZE
  BY <1>2, <1>13, ByteValues
<1>15. /\ v \in Seq(Int) /\ Len(v) = w + TAG_SIZE
       /\ \A k \in 1 .. w + TAG_SIZE : v[k] = IF k <= c THEN u[k] ELSE z[k - c]
  <2>1. u \in Seq(Int) /\ z \in Seq(Int)
    BY <1>11, <1>12
  <2>2. /\ u \o z \in Seq(Int) /\ Len(u \o z) = Len(u) + Len(z)
        /\ \A k \in 1 .. Len(u) + Len(z) : (u \o z)[k] = IF k <= Len(u) THEN u[k] ELSE z[k - Len(u)]
    BY <2>1, ConcatFacts
  <2>3. Len(u) = c /\ Len(u) + Len(z) = w + TAG_SIZE
    BY <1>11, <1>12, <1>13, <1>14
  <2> QED
    BY <1>7, <2>2, <2>3
<1>16. ASSUME NEW k \in 1 .. w + TAG_SIZE
       PROVE  v[k] = IF k <= MAC_BYTES THEN f[k]
                     ELSE IF k <= MAC_BYTES + TAG_SIZE THEN TAG ELSE f[k - TAG_SIZE]
  <2>0. k \in Nat /\ k >= 1
    BY <1>2, ByteValues
  <2>1. CASE k <= MAC_BYTES
    <3>1. k \in 1 .. MAC_BYTES /\ k <= c /\ k \in 1 .. MAC_BYTES + TAG_SIZE
      BY <1>13, <2>0, <2>1, ByteValues
    <3>2. v[k] = u[k] /\ u[k] = a[k] /\ a[k] = f[k]
      BY <1>9, <1>12, <1>15, <2>1, <3>1
    <3> QED
      BY <2>1, <3>2
  <2>2. CASE ~(k <= MAC_BYTES) /\ k <= c
    <3>1. k \in 1 .. MAC_BYTES + TAG_SIZE /\ k - MAC_BYTES \in 1 .. TAG_SIZE
      BY <1>13, <2>0, <2>2, ByteValues
    <3>2. v[k] = u[k] /\ u[k] = x[k - MAC_BYTES]
      BY <1>12, <1>15, <2>2, <3>1
    <3> QED
      BY <1>10, <1>13, <2>2, <3>1, <3>2
  <2>3. CASE ~(k <= MAC_BYTES) /\ ~(k <= c)
    <3>1. k - c \in 1 .. w - MAC_BYTES /\ MAC_BYTES + (k - c) = k - TAG_SIZE
      BY <1>2, <1>13, <2>0, <2>3, ByteValues
    <3>2. v[k] = z[k - c]
      BY <1>15, <2>3
    <3>3. z[k - c] = f[MAC_BYTES + (k - c)]
      BY <1>11, <3>1
    <3> QED
      BY <1>13, <2>3, <3>1, <3>2, <3>3
  <2>4. CASE k <= MAC_BYTES /\ ~(k <= c)
    BY <1>13, <2>0, <2>4, ByteValues
  <2> QED
    BY <2>1, <2>2, <2>3
<1> QED
  BY <1>1, <1>8, <1>15, <1>16

LEMMA DeleteRecord ==
    ASSUME NEW r, NEW d, NEW l, NEW e, NEW b, b = [mem |-> r, data |-> d, len |-> l, end |-> e],
           NEW o, o = Put(r, d + TAG_SIZE, Get(r, d, MAC_BYTES)), NEW x, x = brcmTagDelete(b)
    PROVE  x.mem = o /\ x.data = d + TAG_SIZE /\ x.len = l - TAG_SIZE
BY DEF brcmTagDelete

\* The frame f stands in r behind offset d, with the tag in it.
TagBehind(r, d, f, w) ==
    \A k \in 1 .. w + TAG_SIZE :
        r[d + k] = IF k <= MAC_BYTES THEN f[k]
                   ELSE IF k <= MAC_BYTES + TAG_SIZE THEN TAG ELSE f[k - TAG_SIZE]

\* brcmTagDelete takes the tag off again.
LEMMA TagTakenOff ==
    ASSUME NEW r \in Seq(Int), NEW f \in Seq(Int), NEW d \in Nat, NEW w \in Nat, NEW e \in Nat,
           NEW s, s = [mem |-> r, data |-> d, len |-> w + TAG_SIZE, end |-> e],
           Len(r) = e + TAG_SIZE, Len(f) = w, d + w + TAG_SIZE <= e, w >= MAC_BYTES,
           TagBehind(r, d, f, w)
    PROVE  FrameOf(brcmTagDelete(s)) = f
<1>1. PICK g : g = Get(r, d, MAC_BYTES)
  OBVIOUS
<1>2. g \in Seq(Int) /\ Len(g) = MAC_BYTES /\ \A k \in 1 .. MAC_BYTES : g[k] = r[d + k]
  <2>1. r \in Seq(Int) /\ d \in Nat /\ MAC_BYTES \in Nat /\ d + MAC_BYTES <= Len(r)
    BY ByteValues
  <2>2. /\ Get(r, d, MAC_BYTES) \in Seq(Int) /\ Len(Get(r, d, MAC_BYTES)) = MAC_BYTES
        /\ \A k \in 1 .. MAC_BYTES : Get(r, d, MAC_BYTES)[k] = r[d + k]
    BY <2>1, GetFacts
  <2> QED
    BY <1>1, <2>2
<1>3. PICK at : at = d + TAG_SIZE
  OBVIOUS
<1>4. PICK j : j = e + TAG_SIZE
  OBVIOUS
<1>5. PICK o : o = Put(r, at, g)
  OBVIOUS
<1>6. /\ at \in Nat /\ at + MAC_BYTES <= j /\ at + w <= j /\ j \in Nat
  BY <1>3, <1>4, ByteValues
<1>7. /\ o \in Seq(Int) /\ Len(o) = j
      /\ \A k \in 1 .. j : o[k] = IF at < k /\ k <= at + MAC_BYTES THEN g[k - at] ELSE r[k]
  <2>1. AfterPut(o, r, at, g)
    BY <1>2, <1>4, <1>5, <1>6, PutFacts
  <2> QED
    BY <1>2, <1>4, <2>1 DEF AfterPut
<1>8. PICK x : x = brcmTagDelete(s)
  OBVIOUS
<1>9. PICK v : v = Get(o, at, w)
  OBVIOUS
<1>10. v \in Seq(Int) /\ Len(v) = w /\ \A k \in 1 .. w : v[k] = o[at + k]
  <2>1. o \in Seq(Int) /\ at \in Nat /\ w \in Nat /\ at + w <= Len(o)
    BY <1>6, <1>7
  <2>2. /\ Get(o, at, w) \in Seq(Int) /\ Len(Get(o, at, w)) = w
        /\ \A k \in 1 .. w : Get(o, at, w)[k] = o[at + k]
    BY <2>1, GetFacts
  <2> QED
    BY <1>9, <2>2
<1>11. ASSUME NEW k \in 1 .. w PROVE v[k] = f[k]
  <2>0. k \in Nat /\ at + k \in 1 .. j /\ at < at + k /\ (at + k) - at = k
    BY <1>6
  <2>1. CASE k <= MAC_BYTES
    <3>1. k \in 1 .. MAC_BYTES /\ at + k <= at + MAC_BYTES /\ k \in 1 .. w + TAG_SIZE
      BY <1>6, <2>0, <2>1, ByteValues
    <3>2. o[at + k] = g[k]
      BY <1>7, <2>0, <3>1
    <3>3. r[d + k] = f[k]
      BY <2>1, <3>1 DEF TagBehind
    <3> QED
      BY <1>2, <1>10, <3>1, <3>2, <3>3
  <2>2. CASE ~(k <= MAC_BYTES)
    <3>1. /\ ~(at + k <= at + MAC_BYTES) /\ at + k = d + (k + TAG_SIZE)
          /\ k + TAG_SIZE \in 1 .. w + TAG_SIZE /\ ~(k + TAG_SIZE <= MAC_BYTES)
          /\ ~(k + TAG_SIZE <= MAC_BYTES + TAG_SIZE) /\ (k + TAG_SIZE) - TAG_SIZE = k
      BY <1>3, <1>6, <2>0, <2>2, ByteValues
    <3>2. o[at + k] = r[at + k]
      BY <1>7, <2>0, <3>1
    <3>3. r[d + (k + TAG_SIZE)] = f[k]
      BY <3>1 DEF TagBehind
    <3> QED
      BY <1>10, <3>1, <3>2, <3>3
  <2> QED
    BY <2>1, <2>2
<1>12. v = f
  BY <1>10, <1>11, SeqEqual
<1> QED
  <2>1. PICK l : l = w + TAG_SIZE
    OBVIOUS
  <2>2. s = [mem |-> r, data |-> d, len |-> l, end |-> e]
    BY <2>1
  <2>3. x.mem = o /\ x.data = d + TAG_SIZE /\ x.len = l - TAG_SIZE
    BY <1>1, <1>3, <1>5, <1>8, <2>2, DeleteRecord
  <2>4. l - TAG_SIZE = w
    BY <2>1, ByteValues
  <2>5. x.mem = o /\ x.data = at /\ x.len = w
    BY <1>3, <2>3, <2>4
  <2> QED
    BY <1>8, <1>9, <1>12, <2>5 DEF FrameOf

\* TagInPlace of a buffer.
LEMMA TagPlaced ==
    ASSUME NEW h \in Nat, NEW n \in Nat, NEW t \in Nat, n >= MAC_BYTES,
           RoomForTag(NewSkb(h, n, t))
    PROVE  /\ FrameOf(brcmTagAdd(NewSkb(h, n, t))) = Tagged(n)
           /\ FrameOf(brcmTagDelete(brcmTagAdd(NewSkb(h, n, t)))) = Padded(n)
<1>1. PICK p, q : /\ p = Pad(NewSkb(h, n, t))
                  /\ AfterPad(p, n) /\ AfterRoom(q, p) /\ q.len >= MAC_BYTES
                  /\ AfterInsert(brcmTagAdd(NewSkb(h, n, t)), q)
  BY TagAddFacts
<1>2. PICK s : s = brcmTagAdd(NewSkb(h, n, t))
  OBVIOUS
<1>3. PICK d : d = q.data
  OBVIOUS
<1>4. PICK w : w = PaddedLen(n)
  OBVIOUS
<1>5. PICK e : e = q.end
  OBVIOUS
<1>6. PICK m : m = q.mem
  OBVIOUS
<1>7. PICK r : r = s.mem
  OBVIOUS
<1>8. PICK f : f = Padded(n)
  OBVIOUS
<1>9. /\ w \in Nat /\ w > MAC_BYTES /\ f \in Seq(Int) /\ Len(f) = w
      /\ \A k \in 1 .. w : f[k] = IF k <= n THEN k ELSE ZERO
  <2>1. /\ PaddedLen(n) \in Nat /\ PaddedLen(n) >= MIN_LENGTH
        /\ Padded(n) \in Seq(Int) /\ Len(Padded(n)) = PaddedLen(n)
        /\ \A k \in 1 .. PaddedLen(n) : Padded(n)[k] = IF k <= n THEN k ELSE ZERO
    BY PaddedFacts
  <2>2. PaddedLen(n) > MAC_BYTES
    BY <2>1, ByteValues
  <2> QED
    BY <1>4, <1>8, <2>1, <2>2
<1>10. /\ p.len >= MIN_LENGTH /\ p.data \in Nat /\ p.len \in Nat /\ p.end \in Nat
       /\ p.end - (p.data + p.len) > TAG_SIZE \/ p.data > TAG_SIZE
  BY <1>1 DEF RoomForTag, AfterPad, Buffer, tailroom, headroom
<1>11. p.len = w /\ \A k \in 1 .. w : p.mem[p.data + k] = f[k]
  BY <1>1, <1>4, <1>9, <1>10 DEF AfterPad
<1>12. /\ q.len = w + TAG_SIZE
       /\ \A k \in 1 .. w : m[d + k] = f[k]
  <2>1. ~(p.end - (p.data + p.len) <= TAG_SIZE /\ p.data <= TAG_SIZE)
    BY <1>10, ByteValues
  <2> QED
    BY <1>1, <1>3, <1>6, <1>11, <2>1 DEF AfterRoom
<1>13. d \in Nat /\ e \in Nat /\ d + (w + TAG_SIZE) <= e
  BY <1>1, <1>3, <1>5, <1>12 DEF AfterRoom, Buffer
<1>14. /\ s = [mem |-> r, data |-> d, len |-> w + TAG_SIZE, end |-> e]
       /\ r \in Seq(Int) /\ Len(r) = e + TAG_SIZE
       /\ \A k \in 1 .. e + TAG_SIZE :
              r[k] = IF d + MAC_BYTES < k /\ k <= d + (w + TAG_SIZE) + TAG_SIZE
                     THEN IF k <= d + MAC_BYTES + TAG_SIZE THEN TAG ELSE m[k - TAG_SIZE]
                     ELSE m[k]
  BY <1>1, <1>2, <1>3, <1>5, <1>6, <1>7, <1>12 DEF AfterInsert
<1>15. ASSUME NEW k \in 1 .. w + TAG_SIZE
       PROVE  r[d + k] = IF k <= MAC_BYTES THEN f[k]
                         ELSE IF k <= MAC_BYTES + TAG_SIZE THEN TAG ELSE f[k - TAG_SIZE]
  <2>0. /\ k \in Nat /\ k >= 1 /\ k <= w + TAG_SIZE
        /\ d + k \in 1 .. e + TAG_SIZE /\ d + k <= d + (w + TAG_SIZE) + TAG_SIZE
        /\ (d + MAC_BYTES < d + k <=> ~(k <= MAC_BYTES))
        /\ (d + k <= d + MAC_BYTES + TAG_SIZE <=> k <= MAC_BYTES + TAG_SIZE)
        /\ (d + k) - TAG_SIZE = d + (k - TAG_SIZE)
    BY <1>9, <1>13, ByteValues
  <2>1. r[d + k] = IF k <= MAC_BYTES THEN m[d + k]
                   ELSE IF k <= MAC_BYTES + TAG_SIZE THEN TAG ELSE m[d + (k - TAG_SIZE)]
    BY <1>14, <2>0
  <2>2. k <= MAC_BYTES => k \in 1 .. w
    BY <1>9, <2>0, ByteValues
  <2>3. ~(k <= MAC_BYTES + TAG_SIZE) => k - TAG_SIZE \in 1 .. w
    BY <1>9, <2>0, ByteValues
  <2> QED
    BY <1>12, <2>1, <2>2, <2>3
<1>16. FrameOf(s) = Tagged(n)
  <2>1. PICK i : i = w + TAG_SIZE
    OBVIOUS
  <2>2. PICK g : g = Get(r, d, i)
    OBVIOUS
  <2>3. r \in Seq(Int) /\ d \in Nat /\ i \in Nat /\ d + i <= Len(r)
    BY <1>9, <1>13, <1>14, <2>1, ByteValues
  <2>4. g \in Seq(Int) /\ Len(g) = i /\ \A k \in 1 .. i : g[k] = r[d + k]
    <3>1. /\ Get(r, d, i) \in Seq(Int) /\ Len(Get(r, d, i)) = i
          /\ \A k \in 1 .. i : Get(r, d, i)[k] = r[d + k]
      BY <2>3, GetFacts
    <3> QED
      BY <2>2, <3>1
  <2>5. PICK y : y = Tagged(n)
    OBVIOUS
  <2>6. /\ y \in Seq(Int) /\ Len(y) = i
        /\ \A k \in 1 .. i : y[k] = IF k <= MAC_BYTES THEN f[k]
                                    ELSE IF k <= MAC_BYTES + TAG_SIZE THEN TAG ELSE f[k - TAG_SIZE]
    <3>1. /\ Tagged(n) \in Seq(Int) /\ Len(Tagged(n)) = w + TAG_SIZE
          /\ \A k \in 1 .. w + TAG_SIZE :
                 Tagged(n)[k] = IF k <= MAC_BYTES THEN Padded(n)[k]
                                ELSE IF k <= MAC_BYTES + TAG_SIZE THEN TAG
                                ELSE Padded(n)[k - TAG_SIZE]
      BY <1>4, TaggedFacts
    <3> QED
      BY <1>8, <2>1, <2>5, <3>1
  <2>7. \A k \in 1 .. i : g[k] = y[k]
    BY <1>15, <2>1, <2>4, <2>6
  <2>8. g = y
    BY <2>4, <2>6, <2>7, SeqEqual
  <2> QED
    BY <1>14, <2>1, <2>2, <2>5, <2>8 DEF FrameOf
<1>17. FrameOf(brcmTagDelete(s)) = f
  <2>1. TagBehind(r, d, f, w)
    BY <1>15 DEF TagBehind
  <2>2. /\ s = [mem |-> r, data |-> d, len |-> w + TAG_SIZE, end |-> e]
        /\ r \in Seq(Int) /\ Len(r) = e + TAG_SIZE /\ f \in Seq(Int) /\ Len(f) = w
        /\ d \in Nat /\ w \in Nat /\ e \in Nat /\ d + w + TAG_SIZE <= e /\ w >= MAC_BYTES
    BY <1>9, <1>13, <1>14, ByteValues
  <2> QED
    BY <2>1, <2>2, TagTakenOff
<1> QED
  BY <1>2, <1>8, <1>16, <1>17

\* CloneKeptExactly of a buffer: a frame that is moved up has its payload put back by
\* the move for the tag; otherwise the tag stands on its first byte.
LEMMA CloneKept ==
    ASSUME NEW h \in Nat, NEW n \in Nat, NEW t \in Nat, n >= MIN_LENGTH
    PROVE  Get(brcmTagAdd(NewSkb(h, n, t)).mem, h + MAC_BYTES, n - MAC_BYTES)
               = Get(NewSkb(h, n, t).mem, h + MAC_BYTES, n - MAC_BYTES)
           <=> t <= TAG_SIZE /\ h > TAG_SIZE
<1>0. n >= MAC_BYTES /\ n > MAC_BYTES
  BY ByteValues
<1>1. PICK p, q : /\ p = Pad(NewSkb(h, n, t))
                  /\ AfterPad(p, n) /\ AfterRoom(q, p) /\ q.len >= MAC_BYTES
                  /\ AfterInsert(brcmTagAdd(NewSkb(h, n, t)), q)
  BY <1>0, TagAddFacts
<1>2. p = NewSkb(h, n, t)
  BY <1>1, PadFacts
<1>3. PICK b : b = NewSkb(h, n, t)
  OBVIOUS
<1>4. PICK m : m = b.mem
  OBVIOUS
<1>5. PICK e : e = h + n + t
  OBVIOUS
<1>6. Fresh(b, h, n, t)
  BY <1>3, NewSkbFacts
<1>7. /\ p.mem = m /\ p.data = h /\ p.len = n /\ p.end = e /\ e \in Nat
      /\ m \in Seq(Int) /\ Len(m) = e + TAG_SIZE /\ \A k \in 1 .. n : m[h + k] = k
  <2>1. Buffer(b) /\ b.data = h /\ b.len = n /\ b.end = e /\ \A k \in 1 .. n : m[h + k] = k
    BY <1>4, <1>5, <1>6 DEF Fresh
  <2>2. m \in Seq(Int) /\ Len(m) = e + TAG_SIZE
    BY <1>4, <2>1 DEF Buffer, Memory
  <2> QED
    BY <1>2, <1>3, <1>4, <1>5, <2>1, <2>2
<1>8. PICK r : r = brcmTagAdd(NewSkb(h, n, t)).mem
  OBVIOUS
<1>9. PICK d : d = q.data
  OBVIOUS
<1>10. PICK l : l = q.len
  OBVIOUS
<1>11. PICK c : c = q.mem
  OBVIOUS
<1>12. /\ d \in Nat /\ l \in Nat /\ d + l <= e /\ q.end = e /\ e \in Nat /\ l >= n
       /\ t <= TAG_SIZE /\ h > TAG_SIZE => d = h - TAG_SIZE /\ l = n + TAG_SIZE
       /\ ~(t <= TAG_SIZE /\ h > TAG_SIZE) => d = h
  <2>1. e - (h + n) = t /\ e \in Nat
    BY <1>5
  <2>2. d \in Nat /\ l \in Nat /\ d + l <= q.end /\ q.end = e
    BY <1>1, <1>7, <1>9, <1>10 DEF AfterRoom, Buffer
  <2>3. \/ t > TAG_SIZE /\ d = h /\ l = n + TAG_SIZE
        \/ t <= TAG_SIZE /\ h > TAG_SIZE /\ d = h - TAG_SIZE /\ l = n + TAG_SIZE
        \/ t <= TAG_SIZE /\ h <= TAG_SIZE /\ d = h /\ l = n
    BY <1>1, <1>7, <1>9, <1>10, <2>1 DEF AfterRoom
  <2> QED
    BY <2>1, <2>2, <2>3, ByteValues
<1>13. \A k \in 1 .. n : c[d + k] = m[h + k]
  BY <1>1, <1>7, <1>9, <1>11 DEF AfterRoom
<1>14. /\ r \in Seq(Int) /\ Len(r) = e + TAG_SIZE
       /\ \A k \in 1 .. e + TAG_SIZE :
              r[k] = IF d + MAC_BYTES < k /\ k <= d + l + TAG_SIZE
                     THEN IF k <= d + MAC_BYTES + TAG_SIZE THEN TAG ELSE c[k - TAG_SIZE]
                     ELSE c[k]
  BY <1>1, <1>8, <1>9, <1>10, <1>11, <1>12 DEF AfterInsert
<1>15. PICK a : a = h + MAC_BYTES
  OBVIOUS
<1>16. PICK j : j = n - MAC_BYTES
  OBVIOUS
<1>17. a \in Nat /\ j \in Nat /\ j >= 1 /\ a + j <= e + TAG_SIZE
  BY <1>0, <1>5, <1>15, <1>16, ByteValues
<1>18. PICK g : g = Get(r, a, j)
  OBVIOUS
<1>19. PICK o : o = Get(m, a, j)
  OBVIOUS
<1>20. /\ g \in Seq(Int) /\ Len(g) = j /\ \A k \in 1 .. j : g[k] = r[a + k]
       /\ o \in Seq(Int) /\ Len(o) = j /\ \A k \in 1 .. j : o[k] = m[a + k]
  <2>1. /\ r \in Seq(Int) /\ m \in Seq(Int) /\ a \in Nat /\ j \in Nat
        /\ a + j <= Len(r) /\ a + j <= Len(m)
    BY <1>7, <1>14, <1>17
  <2>2. /\ Get(r, a, j) \in Seq(Int) /\ Len(Get(r, a, j)) = j
        /\ \A k \in 1 .. j : Get(r, a, j)[k] = r[a + k]
    BY <2>1, GetFacts
  <2>3. /\ Get(m, a, j) \in Seq(Int) /\ Len(Get(m, a, j)) = j
        /\ \A k \in 1 .. j : Get(m, a, j)[k] = m[a + k]
    BY <2>1, GetFacts
  <2> QED
    BY <1>18, <1>19, <2>2, <2>3
<1>21. CASE t <= TAG_SIZE /\ h > TAG_SIZE
  <2>1. d = h - TAG_SIZE /\ l = n + TAG_SIZE
    BY <1>12, <1>21, ByteValues
  <2>2. ASSUME NEW k \in 1 .. j PROVE g[k] = o[k]
    <3>1. /\ a + k \in 1 .. e + TAG_SIZE /\ d + MAC_BYTES < a + k /\ a + k <= d + l + TAG_SIZE
          /\ ~(a + k <= d + MAC_BYTES + TAG_SIZE)
          /\ (a + k) - TAG_SIZE = d + (MAC_BYTES + k)
          /\ MAC_BYTES + k \in 1 .. n /\ h + (MAC_BYTES + k) = a + k
      BY <1>0, <1>12, <1>15, <1>16, <1>17, <2>1, ByteValues
    <3>2. r[a + k] = c[(a + k) - TAG_SIZE]
      BY <1>14, <3>1
    <3>3. c[d + (MAC_BYTES + k)] = m[h + (MAC_BYTES + k)]
      BY <1>13, <3>1
    <3> QED
      BY <1>20, <3>1, <3>2, <3>3
  <2>3. g = o
    BY <1>20, <2>2, SeqEqual
  <2> QED
    BY <1>3, <1>4, <1>8, <1>15, <1>16, <1>18, <1>19, <1>21, <2>3
<1>22. CASE ~(t <= TAG_SIZE /\ h > TAG_SIZE)
  <2>1. d = h
    BY <1>12, <1>22, ByteValues
  <2>2. /\ a + 1 \in 1 .. e + TAG_SIZE /\ d + MAC_BYTES < a + 1 /\ a + 1 <= d + l + TAG_SIZE
        /\ a + 1 <= d + MAC_BYTES + TAG_SIZE /\ 1 \in 1 .. j
        /\ MAC_BYTES + 1 \in 1 .. n /\ h + (MAC_BYTES + 1) = a + 1
    BY <1>0, <1>12, <1>15, <1>17, <2>1, ByteValues
  <2>3. r[a + 1] = TAG
    BY <1>14, <2>2
  <2>4. m[a + 1] = MAC_BYTES + 1
    BY <1>7, <2>2
  <2>5. g[1] # o[1]
    BY <1>20, <2>2, <2>3, <2>4, ByteValues
  <2> QED
    BY <1>3, <1>4, <1>8, <1>15, <1>16, <1>18, <1>19, <1>22, <2>5
<1> QED
  BY <1>21, <1>22

-----------------------------------------------------------------------------
(* A frame that is tagged again.                                           *)

LEMMA ShiftUpBlock ==
    ASSUME NEW b, Block(b), NEW d, NEW l, NEW e, d = b.data, l = b.len, e = b.end,
           NEW n \in Nat, n <= d, NEW s, s = ShiftUp(b, n)
    PROVE  /\ Block(s) /\ s.data = d - n /\ s.len = l + n
           /\ \A k \in 1 .. l : s.mem[(d - n) + k] = b.mem[d + k]
<1>1. PICK m : m = b.mem
  OBVIOUS
<1>2. /\ d \in Nat /\ l \in Nat /\ e \in Nat /\ d + l <= e
      /\ m \in Seq(Int) /\ Len(m) = e + TAG_SIZE
      /\ b = [mem |-> m, data |-> d, len |-> l, end |-> e]
  BY <1>1 DEF Block
<1>3. PICK F : F = FrameOf(b)
  OBVIOUS
<1>4. PICK Z : Z = Bytes(ZERO, n)
  OBVIOUS
<1>5. PICK FZ : FZ = F \o Z
  OBVIOUS
<1>6. PICK at : at = d - n
  OBVIOUS
<1>7. PICK i : i = l + n
  OBVIOUS
<1>8. PICK r : r = Put(m, at, FZ)
  OBVIOUS
<1>9. s = [mem |-> r, data |-> d - n, len |-> l + n, end |-> e]
  BY <1>1, <1>2, <1>3, <1>4, <1>5, <1>6, <1>8 DEF ShiftUp
<1>10. F \in Seq(Int) /\ Len(F) = l /\ \A k \in 1 .. l : F[k] = m[d + k]
  <2>1. m \in Seq(Int) /\ d \in Nat /\ l \in Nat /\ d + l <= Len(m)
    BY <1>2, ByteValues
  <2>2. /\ Get(m, d, l) \in Seq(Int) /\ Len(Get(m, d, l)) = l
        /\ \A k \in 1 .. l : Get(m, d, l)[k] = m[d + k]
    BY <2>1, GetFacts
  <2>3. F = Get(m, d, l)
    BY <1>1, <1>3 DEF FrameOf
  <2> QED
    BY <2>2, <2>3
<1>11. Z \in Seq(Int) /\ Len(Z) = n
  BY <1>4, ByteValues, BytesFacts
<1>12. FZ \in Seq(Int) /\ Len(FZ) = i /\ \A k \in 1 .. l : FZ[k] = F[k]
  <2>1. /\ FZ \in Seq(Int) /\ Len(FZ) = Len(F) + Len(Z)
        /\ \A k \in 1 .. Len(F) + Len(Z) : FZ[k] = IF k <= Len(F) THEN F[k] ELSE Z[k - Len(F)]
    BY <1>5, <1>10, <1>11, ConcatFacts
  <2>2. Len(F) = l /\ Len(Z) = n /\ \A k \in 1 .. l : k \in 1 .. l + n /\ k <= l
    BY <1>2, <1>10, <1>11
  <2> QED
    BY <1>7, <2>1, <2>2
<1>13. at \in Nat /\ i \in Nat /\ at + i = d + l /\ at + i <= Len(m)
  <2>1. d \in Nat /\ l \in Nat /\ e \in Nat /\ d + l <= e /\ Len(m) = e + TAG_SIZE
    BY <1>2
  <2>2. at \in Nat /\ i \in Nat /\ at + i = d + l
    BY <1>6, <1>7, <2>1
  <2> QED
    BY <2>1, <2>2, ByteValues
<1>14. /\ r \in Seq(Int) /\ Len(r) = e + TAG_SIZE
       /\ \A k \in 1 .. e + TAG_SIZE : r[k] = IF at < k /\ k <= at + i THEN FZ[k - at] ELSE m[k]
  <2>1. AfterPut(r, m, at, FZ)
    BY <1>2, <1>8, <1>12, <1>13, PutFacts
  <2> QED
    BY <1>2, <1>12, <2>1 DEF AfterPut
<1>15. ASSUME NEW k \in 1 .. l PROVE r[at + k] = m[d + k]
  <2>1. /\ at + k \in 1 .. e + TAG_SIZE /\ at < at + k /\ at + k <= at + i
        /\ (at + k) - at = k
    <3>1. /\ k \in Nat /\ k >= 1 /\ k <= l /\ l \in Nat /\ e \in Nat /\ d \in Nat /\ d + l <= e
          /\ at \in Nat /\ at + i = d + l /\ i = l + n
      BY <1>2, <1>7, <1>13
    <3>2. at + k \in Nat /\ at + k >= 1 /\ at + k <= at + i /\ at + k <= e + TAG_SIZE
      BY <3>1, ByteValues
    <3> QED
      BY <3>1, <3>2, ByteValues
  <2>2. r[at + k] = FZ[k]
    BY <1>14, <2>1
  <2> QED
    BY <1>10, <1>12, <2>2
<1>16. d - n \in Nat /\ l + n \in Nat /\ (d - n) + (l + n) <= e
  BY <1>2
<1>17. Block(s)
  <2>1. s.mem = r /\ s.data = d - n /\ s.len = l + n /\ s.end = e
    BY <1>9
  <2>2. e \in Nat /\ r \in Seq(Int) /\ Len(r) = e + TAG_SIZE
    BY <1>2, <1>14
  <2> QED
    BY <1>9, <1>16, <2>1, <2>2 DEF Block
<1> QED
  BY <1>1, <1>6, <1>9, <1>15, <1>17

\* The first byte behind the addresses of the frame in b, and the first one behind
\* a tag there.
First(b) == b.mem[b.data + MAC_BYTES + 1]
Second(b) == b.mem[b.data + MAC_BYTES + TAG_SIZE + 1]

\* MakeRoom keeps the bytes of a frame.
LEMMA MakeRoomBlock ==
    ASSUME NEW b, Block(b), b.len > MAC_BYTES, NEW q, q = MakeRoom(b)
    PROVE  Block(q) /\ q.len >= b.len /\ First(q) = First(b)
<1>1. PICK d : d = b.data
  OBVIOUS
<1>2. PICK l : l = b.len
  OBVIOUS
<1>3. PICK e : e = b.end
  OBVIOUS
<1>4. PICK m : m = b.mem
  OBVIOUS
<1>5. /\ b = [mem |-> m, data |-> d, len |-> l, end |-> e]
      /\ d \in Nat /\ l \in Nat /\ e \in Nat /\ d + l <= e /\ l > MAC_BYTES
      /\ m \in Seq(Int) /\ Len(m) = e + TAG_SIZE
  BY <1>1, <1>2, <1>3, <1>4 DEF Block
<1>6. CASE e - (d + l) > TAG_SIZE
  <2>1. q = [mem |-> m, data |-> d, len |-> l + TAG_SIZE, end |-> e]
    BY <1>5, <1>6 DEF MakeRoom, tailroom
  <2>2. l + TAG_SIZE \in Nat /\ d + (l + TAG_SIZE) <= e /\ l + TAG_SIZE >= l
    BY <1>5, <1>6, ByteValues
  <2>3. Block(q)
    BY <1>5, <2>1, <2>2 DEF Block
  <2> QED
    BY <1>1, <1>2, <1>4, <2>1, <2>2, <2>3 DEF First
<1>7. CASE ~(e - (d + l) > TAG_SIZE) /\ d > TAG_SIZE
  <2>1. TAG_SIZE \in Nat /\ TAG_SIZE <= d /\ l + TAG_SIZE >= l
    BY <1>5, <1>7, ByteValues
  <2>2. q = ShiftUp(b, TAG_SIZE)
    BY <1>5, <1>7 DEF MakeRoom, tailroom, headroom
  <2>3. /\ Block(q) /\ q.data = d - TAG_SIZE /\ q.len = l + TAG_SIZE
        /\ \A k \in 1 .. l : q.mem[(d - TAG_SIZE) + k] = b.mem[d + k]
    BY <1>1, <1>2, <1>3, <2>1, <2>2, ShiftUpBlock
  <2>4. PICK k : k = MAC_BYTES + 1
    OBVIOUS
  <2>5. /\ k \in 1 .. l /\ (d - TAG_SIZE) + MAC_BYTES + 1 = (d - TAG_SIZE) + k
        /\ d + MAC_BYTES + 1 = d + k
    BY <1>5, <2>4, ByteValues
  <2>6. First(q) = q.mem[(d - TAG_SIZE) + k] /\ First(b) = b.mem[d + k]
    BY <1>1, <2>3, <2>5 DEF First
  <2> QED
    BY <1>2, <2>1, <2>3, <2>5, <2>6
<1>8. CASE ~(e - (d + l) > TAG_SIZE) /\ ~(d > TAG_SIZE)
  <2>1. q = b
    BY <1>5, <1>8 DEF MakeRoom, tailroom, headroom
  <2> QED
    BY <1>2, <1>5, <2>1
<1> QED
  BY <1>6, <1>7, <1>8

\* TagInsert puts the tag first, and what was first behind it.
LEMMA InsertBlock ==
    ASSUME NEW q, Block(q), q.len > MAC_BYTES, NEW s, s = TagInsert(q)
    PROVE  Block(s) /\ s.len = q.len /\ First(s) = TAG /\ Second(s) = First(q)
<1>1. PICK d : d = q.data
  OBVIOUS
<1>2. PICK l : l = q.len
  OBVIOUS
<1>3. PICK e : e = q.end
  OBVIOUS
<1>4. PICK m : m = q.mem
  OBVIOUS
<1>5. PICK r : r = s.mem
  OBVIOUS
<1>6. d \in Nat /\ l \in Nat /\ e \in Nat /\ d + l <= e /\ l > MAC_BYTES
  BY <1>1, <1>2, <1>3 DEF Block
<1>7. AfterInsert(s, q)
  <2>1. q.len >= MAC_BYTES
    BY <1>2, <1>6, ByteValues
  <2> QED
    BY <2>1, TagInsertFacts
<1>8. /\ s = [mem |-> r, data |-> d, len |-> l, end |-> e]
      /\ r \in Seq(Int) /\ Len(r) = e + TAG_SIZE
      /\ \A k \in 1 .. e + TAG_SIZE :
             r[k] = IF d + MAC_BYTES < k /\ k <= d + l + TAG_SIZE
                    THEN IF k <= d + MAC_BYTES + TAG_SIZE THEN TAG ELSE m[k - TAG_SIZE]
                    ELSE m[k]
  BY <1>1, <1>2, <1>3, <1>4, <1>5, <1>7 DEF AfterInsert
<1>9. PICK f : f = d + MAC_BYTES + 1
  OBVIOUS
<1>10. PICK g : g = d + MAC_BYTES + TAG_SIZE + 1
  OBVIOUS
<1>11. /\ f \in 1 .. e + TAG_SIZE /\ d + MAC_BYTES < f /\ f <= d + l + TAG_SIZE
       /\ f <= d + MAC_BYTES + TAG_SIZE
       /\ g \in 1 .. e + TAG_SIZE /\ d + MAC_BYTES < g /\ g <= d + l + TAG_SIZE
       /\ ~(g <= d + MAC_BYTES + TAG_SIZE) /\ g - TAG_SIZE = f
  BY <1>6, <1>9, <1>10, ByteValues
<1>12. r[f] = TAG /\ r[g] = m[f]
  BY <1>8, <1>11
<1>13. Block(s)
  BY <1>6, <1>8 DEF Block
<1>14. First(s) = r[f] /\ Second(s) = r[g] /\ First(q) = m[f]
  BY <1>1, <1>4, <1>8, <1>9, <1>10 DEF First, Second
<1> QED
  BY <1>2, <1>8, <1>12, <1>13, <1>14

\* brcmTagAdd on a frame that needs no padding.
LEMMA TagAddBlock ==
    ASSUME NEW b, Block(b), b.len >= MIN_LENGTH, NEW s, s = brcmTagAdd(b)
    PROVE  Block(s) /\ s.len >= b.len /\ First(s) = TAG /\ Second(s) = First(b)
<1>1. PICK q : q = MakeRoom(b)
  OBVIOUS
<1>2. b.len \in Nat /\ b.len > MAC_BYTES /\ MIN_LENGTH - b.len <= 0
  BY ByteValues DEF Block
<1>3. Pad(b) = b
  BY <1>2 DEF Pad
<1>4. Block(q) /\ q.len >= b.len /\ First(q) = First(b)
  BY <1>1, <1>2, MakeRoomBlock
<1>5. q.len \in Nat /\ q.len > MAC_BYTES
  BY <1>2, <1>4, ByteValues DEF Block
<1>6. s = TagInsert(q)
  BY <1>1, <1>3 DEF brcmTagAdd
<1>7. Block(s) /\ s.len = q.len /\ First(s) = TAG /\ Second(s) = First(q)
  BY <1>4, <1>5, <1>6, InsertBlock
<1> QED
  BY <1>4, <1>7

\* The first tag, in a buffer with room for it.
LEMMA FirstTag ==
    ASSUME NEW h \in Nat, NEW n \in Nat, NEW t \in Nat, n >= MAC_BYTES,
           RoomForTag(NewSkb(h, n, t)), NEW s, s = brcmTagAdd(NewSkb(h, n, t))
    PROVE  Block(s) /\ s.len = PaddedLen(n) + TAG_SIZE /\ First(s) = TAG
<1>1. PICK p : p = Pad(NewSkb(h, n, t))
  OBVIOUS
<1>2. PICK q : q = MakeRoom(p)
  OBVIOUS
<1>3. AfterPad(p, n)
  BY <1>1, PadFacts
<1>4. Buffer(p) /\ p.len >= MIN_LENGTH /\ p.len = PaddedLen(n)
  <2>1. p.len >= MIN_LENGTH
    BY <1>1 DEF RoomForTag
  <2> QED
    BY <1>3, <2>1 DEF AfterPad
<1>5. AfterRoom(q, p)
  BY <1>2, <1>4, MakeRoomFacts
<1>6. p.len \in Nat /\ p.data \in Nat /\ p.end \in Nat
  BY <1>4 DEF Buffer
<1>7. p.end - (p.data + p.len) > TAG_SIZE \/ p.data > TAG_SIZE
  BY <1>1 DEF RoomForTag, tailroom, headroom
<1>8. ~(p.end - (p.data + p.len) <= TAG_SIZE /\ p.data <= TAG_SIZE)
  BY <1>6, <1>7, ByteValues
<1>9. Block(q) /\ q.len = p.len + TAG_SIZE
  BY <1>5, <1>8, BufferBlock DEF AfterRoom
<1>10. q.len > MAC_BYTES
  BY <1>4, <1>6, <1>9, ByteValues
<1>11. s = TagInsert(q)
  BY <1>1, <1>2 DEF brcmTagAdd
<1>12. Block(s) /\ s.len = q.len /\ First(s) = TAG
  BY <1>9, <1>10, <1>11, InsertBlock
<1> QED
  BY <1>4, <1>9, <1>12

\* A frame in which a tag follows the addresses is not the stack's.
LEMMA NotAsSent ==
    ASSUME NEW g \in Seq(Int), NEW n \in Nat, Len(g) >= MIN_LENGTH, g[MAC_BYTES + 1] = TAG
    PROVE  g \notin {Sent(n), Padded(n)}
<1>1. MAC_BYTES + 1 \in Nat /\ MAC_BYTES + 1 >= 1 /\ MAC_BYTES + 1 <= MIN_LENGTH
  BY ByteValues
<1>2. PICK c : c = MAC_BYTES + 1
  OBVIOUS
<1>3. g # Sent(n)
  <2>1. PICK o : o = Sent(n)
    OBVIOUS
  <2>2. o \in Seq(Int) /\ Len(o) = n /\ \A k \in 1 .. n : o[k] = k
    BY <2>1 DEF Sent
  <2>3. CASE n >= c
    <3>1. o[c] = c
      BY <1>1, <1>2, <2>2, <2>3
    <3> QED
      BY <1>1, <1>2, <2>1, <3>1, ByteValues
  <2>4. CASE ~(n >= c)
    <3>1. Len(o) < MIN_LENGTH /\ Len(o) \in Nat /\ Len(g) \in Nat
      BY <1>1, <1>2, <2>2, <2>4, ByteValues
    <3> QED
      BY <2>1, <3>1, ByteValues
  <2> QED
    BY <2>3, <2>4
<1>4. g # Padded(n)
  <2>1. PICK o : o = Padded(n)
    OBVIOUS
  <2>2. PICK w : w = PaddedLen(n)
    OBVIOUS
  <2>3. w \in Nat /\ w >= MIN_LENGTH /\ \A k \in 1 .. w : o[k] = IF k <= n THEN k ELSE ZERO
    BY <2>1, <2>2, PaddedFacts
  <2>4. c \in 1 .. w
    BY <1>1, <1>2, <2>3, ByteValues
  <2>5. o[c] = c \/ o[c] = ZERO
    BY <2>3, <2>4
  <2>6. TAG # c /\ TAG # ZERO
    BY <1>1, <1>2, ByteValues
  <2> QED
    BY <1>2, <2>1, <2>5, <2>6
<1> QED
  BY <1>3, <1>4

\* What the switch passes on of a tagged frame, as it is and with a tag taken off.
LEMMA TaggedPassed ==
    ASSUME NEW b, Block(b), b.len >= MIN_LENGTH + TAG_SIZE, NEW n \in Nat
    PROVE  /\ First(b) = TAG => FrameOf(b) \notin {Sent(n), Padded(n)}
           /\ Second(b) = TAG => FrameOf(brcmTagDelete(b)) \notin {Sent(n), Padded(n)}
<1>1. PICK d : d = b.data
  OBVIOUS
<1>2. PICK l : l = b.len
  OBVIOUS
<1>3. PICK e : e = b.end
  OBVIOUS
<1>4. PICK m : m = b.mem
  OBVIOUS
<1>5. /\ b = [mem |-> m, data |-> d, len |-> l, end |-> e]
      /\ d \in Nat /\ l \in Nat /\ e \in Nat /\ d + l <= e /\ l >= MIN_LENGTH + TAG_SIZE
      /\ m \in Seq(Int) /\ Len(m) = e + TAG_SIZE
  BY <1>1, <1>2, <1>3, <1>4 DEF Block
<1>6. ASSUME First(b) = TAG PROVE FrameOf(b) \notin {Sent(n), Padded(n)}
  <2>1. PICK g : g = Get(m, d, l)
    OBVIOUS
  <2>2. d + l <= Len(m)
    BY <1>5, ByteValues
  <2>3. g \in Seq(Int) /\ Len(g) = l /\ \A k \in 1 .. l : g[k] = m[d + k]
    <3>1. /\ Get(m, d, l) \in Seq(Int) /\ Len(Get(m, d, l)) = l
          /\ \A k \in 1 .. l : Get(m, d, l)[k] = m[d + k]
      BY <1>5, <2>2, GetFacts
    <3> QED
      BY <2>1, <3>1
  <2>4. MAC_BYTES + 1 \in 1 .. l /\ d + (MAC_BYTES + 1) = d + MAC_BYTES + 1 /\ l >= MIN_LENGTH
    BY <1>5, ByteValues
  <2>5. g[MAC_BYTES + 1] = TAG
    BY <1>1, <1>4, <1>6, <2>3, <2>4 DEF First
  <2>6. g \notin {Sent(n), Padded(n)}
    BY <2>3, <2>4, <2>5, NotAsSent
  <2> QED
    BY <1>1, <1>2, <1>4, <2>1, <2>6 DEF FrameOf
<1>7. ASSUME Second(b) = TAG PROVE FrameOf(brcmTagDelete(b)) \notin {Sent(n), Padded(n)}
  <2>1. PICK a : a = Get(m, d, MAC_BYTES)
    OBVIOUS
  <2>2. PICK at : at = d + TAG_SIZE
    OBVIOUS
  <2>3. PICK w : w = l - TAG_SIZE
    OBVIOUS
  <2>4. PICK o : o = Put(m, at, a)
    OBVIOUS
  <2>5. a \in Seq(Int) /\ Len(a) = MAC_BYTES
    <3>1. m \in Seq(Int) /\ d \in Nat /\ MAC_BYTES \in Nat /\ d + MAC_BYTES <= Len(m)
      BY <1>5, ByteValues
    <3> QED
      BY <2>1, <3>1, GetFacts
  <2>6. /\ at \in Nat /\ w \in Nat /\ w >= MIN_LENGTH /\ at + w = d + l
        /\ at + w <= Len(m) /\ at + MAC_BYTES <= Len(m)
    BY <1>5, <2>2, <2>3, ByteValues
  <2>7. /\ o \in Seq(Int) /\ Len(o) = Len(m)
        /\ \A k \in 1 .. Len(m) : o[k] = IF at < k /\ k <= at + MAC_BYTES THEN a[k - at] ELSE m[k]
    <3>1. AfterPut(o, m, at, a)
      BY <1>5, <2>4, <2>5, <2>6, PutFacts
    <3> QED
      BY <2>5, <3>1 DEF AfterPut
  <2>8. PICK g : g = Get(o, at, w)
    OBVIOUS
  <2>9. g \in Seq(Int) /\ Len(g) = w /\ \A k \in 1 .. w : g[k] = o[at + k]
    <3>1. /\ Get(o, at, w) \in Seq(Int) /\ Len(Get(o, at, w)) = w
          /\ \A k \in 1 .. w : Get(o, at, w)[k] = o[at + k]
      BY <2>6, <2>7, GetFacts
    <3> QED
      BY <2>8, <3>1
  <2>10. PICK f : f = d + MAC_BYTES + TAG_SIZE + 1
    OBVIOUS
  <2>11. /\ MAC_BYTES + 1 \in 1 .. w /\ at + (MAC_BYTES + 1) = f
         /\ f \in 1 .. Len(m) /\ ~(f <= at + MAC_BYTES)
    BY <1>5, <2>2, <2>6, <2>10, ByteValues
  <2>12. g[MAC_BYTES + 1] = TAG
    <3>1. m[f] = TAG
      BY <1>1, <1>4, <1>7, <2>10 DEF Second
    <3>2. o[f] = m[f]
      BY <2>7, <2>11
    <3> QED
      BY <2>9, <2>11, <3>1, <3>2
  <2>13. g \notin {Sent(n), Padded(n)}
    BY <2>6, <2>9, <2>12, NotAsSent
  <2>14. PICK x : x = brcmTagDelete(b)
    OBVIOUS
  <2>15. x.mem = o /\ x.data = at /\ x.len = w
    BY <1>5, <2>1, <2>2, <2>3, <2>4, <2>14, DeleteRecord
  <2> QED
    BY <2>8, <2>13, <2>14, <2>15 DEF FrameOf
<1> QED
  BY <1>6, <1>7

-----------------------------------------------------------------------------
(* The buffer of the frame.                                                *)

\* The buffer is as the stack made it until the first tag, and after that one as
\* brcmTagAdd left it; it comes from Room.
BufInv ==
    /\ frame.tags = 0 => frame.buf = Frame(frame.dest, frame.room).buf
    /\ frame.tags = 1 => frame.buf = brcmTagAdd(Frame(frame.dest, frame.room).buf)
    /\ frame.at = "queue" \/ frame.tags > 0 => frame.room \in Room

LEMMA FrameBuf == \A d, r : Frame(d, r).buf = NewSkb(r[1], r[2], r[3])
  BY DEF Frame

\* The inductive invariant, with the buffer.
THEOREM BufInvCorrect == Spec => [](SnoopInv /\ BufInv)
<1>1. Init => BufInv
  <2> SUFFICES ASSUME Init PROVE BufInv
    OBVIOUS
  <2>1. frame = [at |-> "wire", dest |-> "none", room |-> <<0, 0, 0>>, buf |-> NewSkb(0, 0, 0),
                 tries |-> 0, tags |-> 0, pMap |-> {}]
    BY DEF Init, NoFrame, Frame
  <2>2. frame.tags = 0 /\ frame.at = "wire" /\ frame.buf = NewSkb(0, 0, 0) /\ frame.room = <<0, 0, 0>>
    BY <2>1
  <2>3. Frame(frame.dest, frame.room).buf = NewSkb(0, 0, 0)
    BY <2>2, FrameBuf
  <2> QED
    BY <2>2, <2>3 DEF BufInv
<1>2. SnoopInv /\ BufInv /\ [Next]_vars => BufInv'
  <2> SUFFICES ASSUME SnoopInv, BufInv, [Next]_vars PROVE BufInv'
    OBVIOUS
  <2>1. ASSUME NEW d \in Dest, NEW r \in Room, Queue(d, r) PROVE BufInv'
    <3>1. frame' = Frame(d, r)
      BY <2>1 DEF Queue
    <3>2. /\ frame'.at = "queue" /\ frame'.tags = 0 /\ frame'.dest = d /\ frame'.room = r
          /\ frame'.buf = Frame(d, r).buf
      BY <3>1 DEF Frame
    <3> QED
      BY <3>2 DEF BufInv
  <2>2. ASSUME NEW at \in {"wire", "queue"}, Send(at) PROVE BufInv'
    <3>1. /\ frame'.at = at /\ frame'.dest = frame.dest /\ frame'.room = frame.room
          /\ frame'.tags = frame.tags + igmpSnoopStatus
          /\ igmpSnoopStatus = 1 => frame'.buf = brcmTagAdd(frame.buf)
          /\ igmpSnoopStatus = 0 => frame'.buf = frame.buf
      BY <2>2, SendFrame
    <3>2. frame.at = "queue" /\ frame.room \in Room
      BY <2>2 DEF Send, BufInv
    <3>3. igmpSnoopStatus \in {0, 1} /\ frame.tags \in Nat
      BY SnoopAssumption DEF SnoopInv, TypeOK
    <3>4. CASE igmpSnoopStatus = 1
      <4>1. frame'.tags # 0 /\ (frame'.tags = 1 => frame.tags = 0)
        BY <3>1, <3>3, <3>4
      <4> QED
        BY <3>1, <3>2, <3>4, <4>1 DEF BufInv
    <3>5. CASE igmpSnoopStatus = 0
      <4>1. frame'.tags = frame.tags
        BY <3>1, <3>3, <3>5
      <4> QED
        BY <3>1, <3>2, <3>5, <4>1 DEF BufInv
    <3> QED
      BY <3>3, <3>4, <3>5
  <2>3. CASE frame' = frame
    BY <2>3 DEF BufInv
  <2> QED
    BY <2>1, <2>2, <2>3 DEF Next, vars, SetStatus, Join, Report, Leave, LooksLikeJoin
<1> QED
  BY <1>1, <1>2, SnoopInvCorrect, PTL DEF Spec

\* A frame that has been tagged carries a tag behind its addresses, and one that has
\* been tagged again carries another behind that.
StackInv ==
    RoomForTag(Frame(frame.dest, frame.room).buf) =>
        /\ frame.tags > 0 => /\ Block(frame.buf) /\ frame.buf.len >= MIN_LENGTH + TAG_SIZE
                             /\ First(frame.buf) = TAG
        /\ frame.tags > 1 => Second(frame.buf) = TAG

\* Through any number of refused calls the tags stand one behind the other.
THEOREM StackInvCorrect == Spec => [](SnoopInv /\ BufInv /\ StackInv)
<1>1. Init => StackInv
  <2> SUFFICES ASSUME Init PROVE StackInv
    OBVIOUS
  <2>1. frame = [at |-> "wire", dest |-> "none", room |-> <<0, 0, 0>>, buf |-> NewSkb(0, 0, 0),
                 tries |-> 0, tags |-> 0, pMap |-> {}]
    BY DEF Init, NoFrame, Frame
  <2>2. frame.tags = 0
    BY <2>1
  <2> QED
    BY <2>2 DEF StackInv
<1>2. SnoopInv /\ BufInv /\ StackInv /\ [Next]_vars => StackInv'
  <2> SUFFICES ASSUME SnoopInv, BufInv, StackInv, [Next]_vars PROVE StackInv'
    OBVIOUS
  <2>1. ASSUME NEW d \in Dest, NEW r \in Room, Queue(d, r) PROVE StackInv'
    <3>1. frame' = Frame(d, r)
      BY <2>1 DEF Queue
    <3>2. frame'.tags = 0
      BY <3>1 DEF Frame
    <3> QED
      BY <3>2 DEF StackInv
  <2>2. ASSUME NEW at \in {"wire", "queue"}, Send(at) PROVE StackInv'
    <3>1. /\ frame'.dest = frame.dest /\ frame'.room = frame.room
          /\ frame'.tags = frame.tags + igmpSnoopStatus
          /\ igmpSnoopStatus = 1 => frame'.buf = brcmTagAdd(frame.buf)
          /\ igmpSnoopStatus = 0 => frame'.buf = frame.buf
      BY <2>2, SendFrame
    <3>2. igmpSnoopStatus \in {0, 1} /\ frame.tags \in Nat
      BY SnoopAssumption DEF SnoopInv, TypeOK
    <3>3. CASE igmpSnoopStatus = 0
      <4>1. frame'.tags = frame.tags /\ frame'.buf = frame.buf
        BY <3>1, <3>2, <3>3
      <4> QED
        BY <3>1, <4>1 DEF StackInv
    <3>4. CASE igmpSnoopStatus = 1
      <4> SUFFICES ASSUME RoomForTag(Frame(frame.dest, frame.room).buf)
                   PROVE  /\ Block(frame'.buf) /\ frame'.buf.len >= MIN_LENGTH + TAG_SIZE
                          /\ First(frame'.buf) = TAG
                          /\ frame'.tags > 1 => Second(frame'.buf) = TAG
        BY <3>1 DEF StackInv
      <4>1. PICK s : s = frame'.buf
        OBVIOUS
      <4>2. s = brcmTagAdd(frame.buf) /\ frame'.tags = frame.tags + 1
        BY <3>1, <3>4, <4>1
      <4>3. CASE frame.tags = 0
        <5>1. PICK r : r = frame.room
          OBVIOUS
        <5>2. r \in Room
          BY <2>2, <5>1 DEF Send, BufInv
        <5>3. r[1] \in Nat /\ r[2] \in Nat /\ r[3] \in Nat /\ r[2] >= MAC_BYTES
          BY <5>2, SnoopAssumption
        <5>4. PICK h, n, t \in Nat : h = r[1] /\ n = r[2] /\ t = r[3] /\ n >= MAC_BYTES
          BY <5>3
        <5>5. frame.buf = NewSkb(h, n, t) /\ RoomForTag(NewSkb(h, n, t))
          BY <4>3, <5>1, <5>4, FrameBuf DEF BufInv
        <5>6. Block(s) /\ s.len = PaddedLen(n) + TAG_SIZE /\ First(s) = TAG
          BY <4>2, <5>4, <5>5, FirstTag
        <5>7. PaddedLen(n) + TAG_SIZE >= MIN_LENGTH + TAG_SIZE
          BY PaddedFacts, ByteValues
        <5>8. ~(frame'.tags > 1)
          BY <4>2, <4>3
        <5> QED
          BY <4>1, <5>6, <5>7, <5>8
      <4>4. CASE frame.tags > 0
        <5>1. PICK b : b = frame.buf
          OBVIOUS
        <5>2. Block(b) /\ b.len >= MIN_LENGTH + TAG_SIZE /\ First(b) = TAG
          BY <4>4, <5>1 DEF StackInv
        <5>3. b.len \in Nat /\ b.len >= MIN_LENGTH
          BY <5>2, ByteValues DEF Block
        <5>4. Block(s) /\ s.len >= b.len /\ First(s) = TAG /\ Second(s) = First(b)
          BY <4>2, <5>1, <5>2, <5>3, TagAddBlock
        <5>5. s.len >= MIN_LENGTH + TAG_SIZE
          <6>1. s.len \in Nat
            BY <5>4 DEF Block
          <6> QED
            BY <5>2, <5>3, <5>4, <6>1, ByteValues
        <5> QED
          BY <4>1, <5>2, <5>4, <5>5
      <4> QED
        BY <3>2, <4>3, <4>4
    <3> QED
      BY <3>2, <3>3, <3>4
  <2>3. CASE frame' = frame
    BY <2>3 DEF StackInv
  <2> QED
    BY <2>1, <2>2, <2>3 DEF Next, vars, SetStatus, Join, Report, Leave, LooksLikeJoin
<1> QED
  BY <1>1, <1>2, BufInvCorrect, PTL DEF Spec

\* The frame of a fresh buffer is the stack's.
LEMMA FreshFrame ==
    ASSUME NEW h \in Nat, NEW n \in Nat, NEW t \in Nat
    PROVE  FrameOf(NewSkb(h, n, t)) = Sent(n)
<1>1. PICK b : b = NewSkb(h, n, t)
  OBVIOUS
<1>2. PICK m : m = b.mem
  OBVIOUS
<1>3. PICK e : e = h + n + t
  OBVIOUS
<1>4. Buffer(b) /\ b.data = h /\ b.len = n /\ b.end = e /\ \A k \in 1 .. n : m[h + k] = k
  <2>1. Fresh(b, h, n, t)
    BY <1>1, NewSkbFacts
  <2> QED
    BY <1>2, <1>3, <2>1 DEF Fresh
<1>5. m \in Seq(Int) /\ Len(m) = e + TAG_SIZE
  BY <1>2, <1>4 DEF Buffer, Memory
<1>6. h + n <= Len(m)
  BY <1>3, <1>5, ByteValues
<1>7. PICK g : g = Get(m, h, n)
  OBVIOUS
<1>8. g \in Seq(Int) /\ Len(g) = n /\ \A k \in 1 .. n : g[k] = m[h + k]
  <2>1. /\ Get(m, h, n) \in Seq(Int) /\ Len(Get(m, h, n)) = n
        /\ \A k \in 1 .. n : Get(m, h, n)[k] = m[h + k]
    BY <1>5, <1>6, GetFacts
  <2> QED
    BY <1>7, <2>1
<1>9. PICK o : o = Sent(n)
  OBVIOUS
<1>10. o \in Seq(Int) /\ Len(o) = n /\ \A k \in 1 .. n : o[k] = k
  BY <1>9 DEF Sent
<1>11. g = o
  <2>1. \A k \in 1 .. n : g[k] = o[k]
    BY <1>4, <1>8, <1>10
  <2> QED
    BY <1>8, <1>10, <2>1, SeqEqual
<1> QED
  BY <1>1, <1>2, <1>4, <1>7, <1>9, <1>11 DEF FrameOf

\* A frame with room for the tag reaches the hosts as the stack sent it exactly if it
\* has as many tags as the switch takes off: one refused call of the wrapper with
\* snooping on spoils it for good.
THEOREM PassedOnExactlyCorrect == Spec => PassedOnExactly
<1> DEFINE Whole == SwitchPasses(frame'.buf) \in {Sent(frame.room[2]), Padded(frame.room[2])}
           Left == /\ frame.at = "queue" /\ frame'.at = "wire"
                   /\ RoomForTag(Frame(frame.dest, frame.room).buf)
<1>1. ASSUME SnoopInv, BufInv, BufInv', StackInv', [Next]_vars, Left
      PROVE  Whole <=> frame'.tags = igmpSnoopStatus
  <2>1. frame' # frame
    BY <1>1
  <2>2. ASSUME NEW d \in Dest, NEW r \in Room PROVE ~Queue(d, r)
    BY <1>1 DEF Queue
  <2>3. PICK at \in {"wire", "queue"} : Send(at)
    BY <1>1, <2>1, <2>2
    DEF Next, vars, SetStatus, Join, Report, Leave, LooksLikeJoin
  <2>4. /\ frame'.dest = frame.dest /\ frame'.room = frame.room
        /\ frame'.tags = frame.tags + igmpSnoopStatus
    BY <1>1, <2>3, SendFrame
  <2>5. igmpSnoopStatus \in {0, 1} /\ frame.tags \in Nat /\ frame.room \in Room
    BY <1>1, SnoopAssumption DEF SnoopInv, TypeOK, BufInv
  <2>6. PICK h, n, t \in Nat : /\ n >= MAC_BYTES /\ frame.room[2] = n
                               /\ \A d : Frame(d, frame.room).buf = NewSkb(h, n, t)
    BY <2>5, SnoopAssumption, FrameBuf
  <2>7. PICK b : b = frame'.buf
    OBVIOUS
  <2>8. Whole <=> FrameOf(IF igmpSnoopStatus = 1 THEN brcmTagDelete(b) ELSE b)
                      \in {Sent(n), Padded(n)}
    BY <2>6, <2>7 DEF SwitchPasses
  <2>9. /\ frame'.tags > 0 => Block(b) /\ b.len >= MIN_LENGTH + TAG_SIZE /\ First(b) = TAG
        /\ frame'.tags > 1 => Second(b) = TAG
    BY <1>1, <2>4, <2>7 DEF StackInv
  <2>10. CASE igmpSnoopStatus = 0 /\ frame'.tags = 0
    <3>1. b = NewSkb(h, n, t)
      BY <1>1, <2>4, <2>6, <2>7, <2>10 DEF BufInv
    <3>2. FrameOf(b) = Sent(n)
      BY <3>1, FreshFrame
    <3> QED
      BY <2>8, <2>10, <3>2
  <2>11. CASE igmpSnoopStatus = 0 /\ frame'.tags > 0
    <3>1. FrameOf(b) \notin {Sent(n), Padded(n)}
      BY <2>9, <2>11, TaggedPassed
    <3> QED
      BY <2>4, <2>5, <2>8, <2>11, <3>1
  <2>12. CASE igmpSnoopStatus = 1 /\ frame'.tags = 1
    <3>1. b = brcmTagAdd(NewSkb(h, n, t)) /\ RoomForTag(NewSkb(h, n, t))
      BY <1>1, <2>4, <2>6, <2>7, <2>12 DEF BufInv
    <3>2. FrameOf(brcmTagDelete(b)) = Padded(n)
      BY <2>6, <3>1, TagPlaced
    <3> QED
      BY <2>8, <2>12, <3>2
  <2>13. CASE igmpSnoopStatus = 1 /\ frame'.tags > 1
    <3>1. frame'.tags > 0
      BY <2>4, <2>5, <2>13
    <3>2. FrameOf(brcmTagDelete(b)) \notin {Sent(n), Padded(n)}
      BY <2>9, <2>13, <3>1, TaggedPassed
    <3> QED
      BY <2>4, <2>5, <2>8, <2>13, <3>2
  <2>14. \/ igmpSnoopStatus = 0 /\ (frame'.tags = 0 \/ frame'.tags > 0)
         \/ igmpSnoopStatus = 1 /\ (frame'.tags = 1 \/ frame'.tags > 1)
    BY <2>4, <2>5
  <2> QED
    BY <2>10, <2>11, <2>12, <2>13, <2>14
<1>2. SnoopInv /\ BufInv /\ BufInv' /\ StackInv' /\ [Next]_vars
      => [Left => (Whole <=> frame'.tags = igmpSnoopStatus)]_vars
  BY <1>1
<1> QED
  BY <1>2, StackInvCorrect, PTL DEF Spec, PassedOnExactly

\* A frame that is tagged once, as a buffer.
LEMMA TaggedOnce ==
    ASSUME SnoopInv, BufInv, frame.tags = 1
    PROVE  \E h, n, t \in Nat :
              /\ n >= MAC_BYTES /\ frame.room[2] = n
              /\ Frame(frame.dest, frame.room).buf = NewSkb(h, n, t)
              /\ frame.buf = brcmTagAdd(NewSkb(h, n, t))
<1>1. frame.room \in Room
  BY DEF BufInv
<1>2. PICK r : r = frame.room
  OBVIOUS
<1>3. r[1] \in Nat /\ r[2] \in Nat /\ r[3] \in Nat /\ r[2] >= MAC_BYTES
  BY <1>1, <1>2, SnoopAssumption
<1>4. Frame(frame.dest, r).buf = NewSkb(r[1], r[2], r[3])
  BY FrameBuf
<1>5. frame.buf = brcmTagAdd(NewSkb(r[1], r[2], r[3]))
  BY <1>2, <1>4 DEF BufInv
<1> QED
  BY <1>2, <1>3, <1>4, <1>5

\* brcmTagAdd puts the tag behind the addresses of a frame whose buffer has room for
\* it and leaves the rest of the frame, padded, as the stack sent it; and
\* brcmTagDelete gives that back.
THEOREM TagInPlaceCorrect == Spec => []TagInPlace
<1>1. SnoopInv /\ BufInv => TagInPlace
  <2> SUFFICES ASSUME SnoopInv, BufInv, frame.tags = 1,
                      RoomForTag(Frame(frame.dest, frame.room).buf)
               PROVE  /\ FrameOf(frame.buf) = Tagged(frame.room[2])
                      /\ FrameOf(brcmTagDelete(frame.buf)) = Padded(frame.room[2])
    BY DEF TagInPlace
  <2>1. PICK h, n, t \in Nat :
            /\ n >= MAC_BYTES /\ frame.room[2] = n
            /\ Frame(frame.dest, frame.room).buf = NewSkb(h, n, t)
            /\ frame.buf = brcmTagAdd(NewSkb(h, n, t))
    BY TaggedOnce
  <2>2. RoomForTag(NewSkb(h, n, t))
    BY <2>1
  <2>3. /\ FrameOf(brcmTagAdd(NewSkb(h, n, t))) = Tagged(n)
        /\ FrameOf(brcmTagDelete(brcmTagAdd(NewSkb(h, n, t)))) = Padded(n)
    BY <2>1, <2>2, TagPlaced
  <2> QED
    BY <2>1, <2>3
<1> QED
  BY <1>1, BufInvCorrect, PTL

\* brcmTagAdd leaves skb_shared_info whole exactly if the padded frame has a tailroom
\* of TAG_SIZE, or of twice that or more.
THEOREM InfoKeptExactlyCorrect == Spec => []InfoKeptExactly
<1>1. SnoopInv /\ BufInv => InfoKeptExactly
  <2> SUFFICES ASSUME SnoopInv, BufInv, frame.tags = 1,
                      NEW x, x = tailroom(Pad(Frame(frame.dest, frame.room).buf))
               PROVE  InfoIntact(frame.buf) <=> x = TAG_SIZE \/ x >= 2 * TAG_SIZE
    BY DEF InfoKeptExactly
  <2>1. PICK h, n, t \in Nat :
            /\ n >= MAC_BYTES /\ frame.room[2] = n
            /\ Frame(frame.dest, frame.room).buf = NewSkb(h, n, t)
            /\ frame.buf = brcmTagAdd(NewSkb(h, n, t))
    BY TaggedOnce
  <2>2. x = tailroom(Pad(NewSkb(h, n, t)))
    BY <2>1
  <2>3. InfoIntact(brcmTagAdd(NewSkb(h, n, t))) <=> x = TAG_SIZE \/ x >= 2 * TAG_SIZE
    BY <2>1, <2>2, InfoKept
  <2> QED
    BY <2>1, <2>3
<1> QED
  BY <1>1, BufInvCorrect, PTL

\* The payload of a cloned frame is in the shared memory as it was after brcmTagAdd
\* exactly if the frame was moved up.
THEOREM CloneKeptExactlyCorrect == Spec => []CloneKeptExactly
<1>1. SnoopInv /\ BufInv => CloneKeptExactly
  <2> SUFFICES ASSUME SnoopInv, BufInv, frame.tags = 1, frame.room[2] >= MIN_LENGTH,
                      NEW b, b = Frame(frame.dest, frame.room).buf
               PROVE  Get(frame.buf.mem, b.data + MAC_BYTES, b.len - MAC_BYTES)
                          = Get(b.mem, b.data + MAC_BYTES, b.len - MAC_BYTES)
                      <=> tailroom(b) <= TAG_SIZE /\ headroom(b) > TAG_SIZE
    BY DEF CloneKeptExactly
  <2>1. PICK h, n, t \in Nat :
            /\ n >= MAC_BYTES /\ frame.room[2] = n
            /\ Frame(frame.dest, frame.room).buf = NewSkb(h, n, t)
            /\ frame.buf = brcmTagAdd(NewSkb(h, n, t))
    BY TaggedOnce
  <2>2. n >= MIN_LENGTH /\ b = NewSkb(h, n, t)
    BY <2>1
  <2>3. Get(brcmTagAdd(NewSkb(h, n, t)).mem, h + MAC_BYTES, n - MAC_BYTES)
            = Get(NewSkb(h, n, t).mem, h + MAC_BYTES, n - MAC_BYTES)
        <=> t <= TAG_SIZE /\ h > TAG_SIZE
    BY <2>2, CloneKept
  <2>4. Fresh(b, h, n, t)
    BY <2>2, NewSkbFacts
  <2>5. b.data = h /\ b.len = n /\ headroom(b) = h /\ tailroom(b) = t
    <3>1. b.data = h /\ b.len = n /\ b.end = h + n + t
      BY <2>4 DEF Fresh
    <3>2. (h + n + t) - (h + n) = t
      OBVIOUS
    <3> QED
      BY <3>1, <3>2 DEF headroom, tailroom
  <2> QED
    BY <2>1, <2>2, <2>3, <2>5
<1> QED
  BY <1>1, BufInvCorrect, PTL

=============================================================================
