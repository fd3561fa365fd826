------------------------------ MODULE MoldCodec ------------------------------
(***************************************************************************)
(* The MoldUDP64 datagram (itch-mold/src/codec.rs): a packet is its        *)
(* session, the sequence number of its first message, its message count    *)
(* and its blocks; count 0 is a heartbeat, 65535 the end of the session.   *)
(* And the retransmission protocol (itch-mold/src/request_server.rs): a    *)
(* request is a sequence number and a count, a response a status and the   *)
(* frames.                                                                 *)
(***************************************************************************)
EXTENDS TcpFraming

HEADER_LEN == 20
MSG_COUNT_HEARTBEAT == 0
MSG_COUNT_END_OF_SESSION == 65535

\* MessageBlock::new.  The publisher checks the length itself, and an encoded message is
\* never empty.
new_block(data) ==
    IF data = <<>> THEN Err("EmptyBlock")
    ELSE IF Len(data) > MAX_MESSAGE_LEN THEN Err("BlockTooLarge") ELSE Ok(data)

MoldPacket(session, sequence, count, blocks) ==
    [session |-> session, sequence |-> sequence, count |-> count, blocks |-> blocks]

\* The sentinel count is not available to data.
new_data(session, sequence, blocks) ==
    IF Len(blocks) >= MSG_COUNT_END_OF_SESSION THEN Err("TooManyBlocks")
    ELSE Ok(MoldPacket(session, sequence, Len(blocks), blocks))

heartbeat(session, next) == MoldPacket(session, next, MSG_COUNT_HEARTBEAT, <<>>)

end_of_session(session, next) == MoldPacket(session, next, MSG_COUNT_END_OF_SESSION, <<>>)

\* A session name is padded on the right; a longer one is refused.
session_from_str(s) ==
    IF Len(s) > 10 THEN Err("SessionTooLong")
    ELSE Ok([i \in 1..10 |-> IF i <= Len(s) THEN s[i] ELSE Space])

to_bytes(p) == p.session \o to_be_bytes(p.sequence, 8) \o u16_bytes(p.count)

RECURSIVE encode_blocks(_)
encode_blocks(blocks) ==
    IF blocks = <<>> THEN <<>>
    ELSE u16_bytes(Len(Head(blocks))) \o Head(blocks) \o encode_blocks(Tail(blocks))

MoldEncode(p) == to_bytes(p) \o encode_blocks(p.blocks)

\* The n blocks that must fill the rest of the datagram exactly.
RECURSIVE decode_blocks(_, _)
decode_blocks(cursor, n) ==
    IF n = 0 THEN IF cursor = <<>> THEN Ok(<<>>) ELSE Err("TrailingBytes")
    ELSE IF Len(cursor) < 2 THEN Err("Truncated")
    ELSE LET len == u16_of(cursor) IN
         IF len = 0 THEN Err("EmptyBlock")
         ELSE IF len > MAX_MESSAGE_LEN THEN Err("BlockTooLarge")
         ELSE IF Len(cursor) < 2 + len THEN Err("Truncated")
         ELSE LET rest == decode_blocks(SubSeq(cursor, len + 3, Len(cursor)), n - 1)
              IN  IF rest.ok THEN Ok(<<slice_n(cursor, 2, len)>> \o rest.val) ELSE rest

\* MoldPacketHeader::from_bytes
from_bytes(buf) ==
    IF Len(buf) < HEADER_LEN THEN Err("Truncated")
    ELSE Ok(MoldPacket(slice_n(buf, 0, 10), from_be_bytes(slice_n(buf, 10, 8)),
                       u16_of(slice_n(buf, 18, 2)), <<>>))

MoldDecode(buf) ==
    LET header == from_bytes(buf)
        empty == header.val.count \in {MSG_COUNT_HEARTBEAT, MSG_COUNT_END_OF_SESSION}
        blocks == decode_blocks(SubSeq(buf, HEADER_LEN + 1, Len(buf)),
                                IF empty THEN 0 ELSE header.val.count)
    IN  IF ~header.ok THEN header
        ELSE IF blocks.ok THEN Ok([header.val EXCEPT !.blocks = blocks.val]) ELSE blocks
-----------------------------------------------------------------------------
\* Both sides of a request read with read_exact, which takes its bytes once enough of them
\* have come.
REQUEST_FRAME_LEN == 12
RESPONSE_HEADER_LEN == 8

MAX_RESPONSE_FRAMES == 65536

\* The statuses as bytes.
STATUS_OK == <<0, 0, 0, 0>>
STATUS_HOLE == <<255, 255, 255, 254>>
STATUS_END_OF_SESSION == <<255, 255, 255, 255>>

u32_bytes(n) == <<0, n \div 65536>> \o u16_bytes(n % 65536)

\* A count up to MAX_RESPONSE_FRAMES is its value, a larger one is that limit plus one.
u32_of(s) ==
    IF s[1] = 0 /\ s[2] \in {0, 1} /\ 65536 * s[2] + u16_of(SubSeq(s, 3, 4)) <= MAX_RESPONSE_FRAMES
    THEN 65536 * s[2] + u16_of(SubSeq(s, 3, 4))
    ELSE MAX_RESPONSE_FRAMES + 1

\* The request client writes, the server reads.
RequestBytes(q) == to_be_bytes(q.sequence, 8) \o u32_bytes(q.count)

RequestOf(s) == [sequence |-> from_be_bytes(SubSeq(s, 1, 8)), count |-> u32_of(SubSeq(s, 9, 12))]

CachedFrame(sequence, body) == [sequence |-> sequence, body |-> body]

\* write_response: the whole response is put together before any of it is sent,
\* so a frame above the cap ends the connection without a byte.
write_response(status, frames) ==
    IF \E i \in DOMAIN frames : Len(frames[i].body) > MAX_MESSAGE_LEN THEN Err("BlockTooLarge")
    ELSE Ok(status \o u32_bytes(Len(frames))
            \o encode_blocks([i \in DOMAIN frames |-> frames[i].body]))

\* The successor of a sequence number, which stops at u64::MAX.
saturating_succ(w) ==
    IF \A i \in 0..7 : w[i] = 255 THEN w
    ELSE LET low == CHOOSE i \in 0..7 : w[i] < 255 /\ \A j \in 0..(i - 1) : w[j] = 255
         IN  [i \in 0..7 |-> IF i < low THEN 0 ELSE IF i = low THEN w[i] + 1 ELSE w[i]]

\* The loop of RequestClient::request over the frames that are still to come: the
\* frames and what is left of the bytes, an error, or nothing yet.
RECURSIVE read_frames(_, _, _)
read_frames(cursor, n, next_seq) ==
    LET len == u16_of(cursor)
        rest == read_frames(SubSeq(cursor, len + 3, Len(cursor)), n - 1, saturating_succ(next_seq))
    IN  IF n = 0 THEN <<Ok([frames |-> <<>>, left |-> cursor])>>
        ELSE IF Len(cursor) < 2 THEN <<>>
        ELSE IF len = 0 THEN <<Err("EmptyBlock")>>
        ELSE IF len > MAX_MESSAGE_LEN THEN <<Err("BlockTooLarge")>>
        ELSE IF Len(cursor) < 2 + len THEN <<>>
        ELSE IF rest = <<>> \/ ~rest[1].ok THEN rest
        ELSE <<Ok([rest[1].val EXCEPT
                     !.frames = <<CachedFrame(next_seq, slice_n(cursor, 2, len))>> \o @])>>

\* serve_conn's read; what it answers is RetransmitCache's.
ServeConn(src) ==
    IF Len(src) < REQUEST_FRAME_LEN THEN Step(src, 0, <<>>)
    ELSE Step(Drop(src, REQUEST_FRAME_LEN), 0, <<Ok(RequestOf(SubSeq(src, 1, REQUEST_FRAME_LEN)))>>)

\* RequestClient::request, once the request for sequence is sent.  After an error
\* the caller drops the connection, with all that it holds.
Request(src, sequence) ==
    LET got == read_frames(Drop(src, RESPONSE_HEADER_LEN), u32_of(SubSeq(src, 5, 8)), sequence)
    IN  IF Len(src) < RESPONSE_HEADER_LEN THEN Step(src, 0, <<>>)
        ELSE IF u32_of(SubSeq(src, 5, 8)) > MAX_RESPONSE_FRAMES
             THEN Step(<<>>, 0, <<Err("BlockTooLarge")>>)
        ELSE IF got = <<>> THEN Step(src, 0, <<>>)
        ELSE IF ~got[1].ok THEN Step(<<>>, 0, got)
        ELSE Step(got[1].val.left, 0,
                  <<Ok([status |-> SubSeq(src, 1, 4), frames |-> got[1].val.frames])>>)
=============================================================================
