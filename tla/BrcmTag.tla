------------------------------ MODULE BrcmTag ------------------------------
(***************************************************************************)
(* The Broadcom management tag (drivers/net/str9100/star_gsw.c,            *)
(* brcmTagAdd and brcmTagDelete): four bytes behind the MAC addresses of   *)
(* every frame on the LAN side, put in and taken out inside the memory of  *)
(* a linear socket buffer.  The bytes behind the buffer's end, which are   *)
(* the beginning of its skb_shared_info, are part of the model.            *)
(***************************************************************************)
EXTENDS Integers, Sequences

CONSTANTS
    MAC_BYTES,   \* ETH_MAC_ADDR_BYTES: the two addresses
    TAG_SIZE,    \* BRCM_TAG_SIZE
    MIN_LENGTH   \* skb_min_length of brcmTagAdd

ASSUME TagAssumption ==
    /\ MAC_BYTES \in Nat \ {0}
    /\ TAG_SIZE \in Nat \ {0}
    /\ MIN_LENGTH \in Nat
    /\ MIN_LENGTH > MAC_BYTES

\* Bytes: a frame's own are 1, 2, ..., in order; the others are these.
ZERO == 0
ROOM == -1
INFO == -2
TAG  == -3

Bytes(v, n) == [k \in 1 .. n |-> v]

\* A buffer with headroom h, a frame of n bytes and tailroom t; mem holds the
\* memory from its head on, and the first bytes behind its end.
NewSkb(h, n, t) ==
    [mem  |-> Bytes(ROOM, h) \o [k \in 1 .. n |-> k] \o Bytes(ROOM, t) \o Bytes(INFO, TAG_SIZE),
     data |-> h, len |-> n, end |-> h + n + t]

headroom(b) == b.data
tailroom(b) == b.end - (b.data + b.len)

\* Write the bytes s at offset "at"; n bytes from offset "at".
Put(mem, at, s) == SubSeq(mem, 1, at) \o s \o SubSeq(mem, at + Len(s) + 1, Len(mem))
Get(mem, at, n) == SubSeq(mem, at + 1, at + n)

\* The frame that a buffer holds, and whether what is behind its end is whole.
FrameOf(b) == Get(b.mem, b.data, b.len)
InfoIntact(b) == Get(b.mem, b.end, TAG_SIZE) = Bytes(INFO, TAG_SIZE)

\* Faulty forms: the last bytes of the tailroom are used up too; the tag goes in
\* front of the addresses; a tag that is there is written over.
MakeRoom_AtLeast(b) ==
    IF tailroom(b) >= TAG_SIZE THEN [b EXCEPT !.len = @ + TAG_SIZE] ELSE b

TagInsert_Front(b) ==
    [b EXCEPT !.mem = Put(@, b.data, Bytes(TAG, TAG_SIZE) \o Get(@, b.data, b.len - TAG_SIZE))]

TagInsert_Over(b) ==
    IF b.mem[b.data + MAC_BYTES + 1] = TAG THEN b
    ELSE [b EXCEPT !.mem = Put(@, b.data + MAC_BYTES, Bytes(TAG, TAG_SIZE)
                               \o Get(@, b.data + MAC_BYTES, b.len - MAC_BYTES))]

-----------------------------------------------------------------------------
\* Move the frame n bytes towards the head and add n zero bytes behind it.
ShiftUp(b, n) ==
    [b EXCEPT !.mem = Put(@, b.data - n, FrameOf(b) \o Bytes(ZERO, n)),
              !.data = @ - n,
              !.len = @ + n]

\* Short frames are padded, at the tail or by moving up, if there is room.
Pad(b) ==
    LET n == MIN_LENGTH - b.len
    IN  IF n <= 0 THEN b
        ELSE IF tailroom(b) >= n
        THEN [b EXCEPT !.mem = Put(@, b.data + b.len, Bytes(ZERO, n)), !.len = @ + n]
        ELSE IF headroom(b) > n THEN ShiftUp(b, n) ELSE b

\* Space for the tag: at the tail, by moving up, or none.
MakeRoom(b) ==
    IF tailroom(b) > TAG_SIZE THEN [b EXCEPT !.len = @ + TAG_SIZE]
    ELSE IF headroom(b) > TAG_SIZE THEN ShiftUp(b, TAG_SIZE)
    ELSE b

\* Move what follows the addresses and write the tag.  The move counts with the
\* length that already includes the tag.
TagInsert(b) ==
    [b EXCEPT !.mem = Put(@, b.data + MAC_BYTES,
                          Bytes(TAG, TAG_SIZE) \o Get(@, b.data + MAC_BYTES, b.len - MAC_BYTES))]

brcmTagAdd(b) == TagInsert(MakeRoom(Pad(b)))

\* The addresses move over the tag and the frame begins behind the old start.
brcmTagDelete(b) ==
    [b EXCEPT !.mem = Put(@, b.data + TAG_SIZE, Get(@, b.data, MAC_BYTES)),
              !.data = @ + TAG_SIZE,
              !.len = @ - TAG_SIZE]

-----------------------------------------------------------------------------
(* What it should come to.                                                 *)

\* The frame of n bytes as the stack made it, and padded.
Sent(n) == [k \in 1 .. n |-> k]
Padded(n) == [k \in 1 .. IF n < MIN_LENGTH THEN MIN_LENGTH ELSE n |-> IF k <= n THEN k ELSE ZERO]

\* The padded frame with the tag behind the addresses.
Tagged(n) == SubSeq(Padded(n), 1, MAC_BYTES) \o Bytes(TAG, TAG_SIZE)
             \o SubSeq(Padded(n), MAC_BYTES + 1, Len(Padded(n)))

\* The buffer has room for padding and tag, at the tail or at the head.
RoomForTag(b) == LET p == Pad(b)
                 IN  p.len >= MIN_LENGTH /\ (tailroom(p) > TAG_SIZE \/ headroom(p) > TAG_SIZE)

=============================================================================
