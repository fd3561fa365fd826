----------------------------- MODULE TcpFraming -----------------------------
(***************************************************************************)
(* ItchCodec, the length-prefixed framing of itch-tcp (src/lib.rs), and    *)
(* the reader of captured files (itch-replay/src/lib.rs), whose Glimpse    *)
(* format is the same framing without its recovery.                        *)
(***************************************************************************)
EXTENDS MessageCodec

\* What one call of a reader leaves behind: the bytes not consumed, those still
\* to be discarded, and the result, a sequence of at most one element.
Step(src, skip, result) == [src |-> src, skip |-> skip, result |-> result]

Drop(src, n) == SubSeq(src, n + 1, Len(src))

Min2(a, b) == IF a < b THEN a ELSE b

\* Encoder<Message>::encode: the prefix counts the tag and the body.
TcpEncode(m) ==
    LET total == encoded_len(m.tag)
    IN  IF total > MAX_MESSAGE_LEN THEN Err("FrameTooLarge")
        ELSE Ok(u16_bytes(total) \o encode(m, [i \in 1..total |-> 0]).val)

\* Mutant: what is missing of a frame above the cap is not discarded when it comes.
TcpDecodeForgets(src, pending_skip) ==
    LET to_drop == Min2(pending_skip, Len(src))
        rest == Drop(src, to_drop)
        left == pending_skip - to_drop
        len == u16_of(rest)
        total == 2 + len
    IN  IF left > 0 \/ Len(rest) < 2 THEN Step(rest, left, <<>>)
        ELSE IF len > MAX_MESSAGE_LEN
             THEN Step(Drop(rest, total), 0, <<Err("FrameTooLarge")>>)
        ELSE IF Len(rest) < total THEN Step(rest, 0, <<>>)
        ELSE Step(Drop(rest, total), 0, <<decode(slice_n(rest, 2, len))>>)

\* Mutant: no cap.
TcpDecodeUncapped(src, pending_skip) ==
    LET to_drop == Min2(pending_skip, Len(src))
        rest == Drop(src, to_drop)
        left == pending_skip - to_drop
        len == u16_of(rest)
        total == 2 + len
    IN  IF left > 0 \/ Len(rest) < 2 THEN Step(rest, left, <<>>)
        ELSE IF Len(rest) < total THEN Step(rest, 0, <<>>)
        ELSE Step(Drop(rest, total), 0, <<decode(slice_n(rest, 2, len))>>)

\* Decoder::decode: src is what has arrived, skip the codec's pending_skip.
TcpDecode(src, pending_skip) ==
    LET to_drop == Min2(pending_skip, Len(src))
        rest == Drop(src, to_drop)
        left == pending_skip - to_drop
        len == u16_of(rest)
        total == 2 + len
    IN  IF left > 0 \/ Len(rest) < 2 THEN Step(rest, left, <<>>)
        ELSE IF len > MAX_MESSAGE_LEN
             THEN Step(Drop(rest, total), total - Min2(total, Len(rest)), <<Err("FrameTooLarge")>>)
        ELSE IF Len(rest) < total THEN Step(rest, 0, <<>>)
        ELSE Step(Drop(rest, total), 0, <<decode(slice_n(rest, 2, len))>>)

-----------------------------------------------------------------------------
(* MessageIterator over a file: src is what has not been read.  A result of    *)
(* <<>> ends the iteration.                                                    *)

\* read_exact: end of file before the first byte is no error, later it is one.
Eof(src, n) == src = <<>> /\ n > 0

Short(src, n) == Len(src) < n /\ ~Eof(src, n)

NextGlimpse(src) ==
    LET len == u16_of(src)
        body == Drop(src, 2)
    IN  IF Eof(src, 2) THEN Step(src, 0, <<>>)
        ELSE IF Short(src, 2) THEN Step(<<>>, 0, <<Err("Truncated")>>)
        ELSE IF len = 0 THEN Step(body, 0, <<>>)
        ELSE IF len > MAX_MESSAGE_LEN THEN Step(body, 0, <<Err("FrameTooLarge")>>)
        ELSE IF Eof(body, len) \/ Short(body, len) THEN Step(<<>>, 0, <<Err("Truncated")>>)
        ELSE Step(Drop(body, len), 0, <<decode(SubSeq(body, 1, len))>>)

\* message_total_len, the table RawBodies frames by.
MessageTotalLen(b) == 1 + body_len[CHOOSE t \in Tags : Ascii[t] = b]

NextRawBodies(src) ==
    LET total == MessageTotalLen(src[1])
        body == Tail(src)
    IN  IF Eof(src, 1) THEN Step(src, 0, <<>>)
        ELSE IF ~\E t \in Tags : Ascii[t] = src[1] THEN Step(body, 0, <<Err("UnknownMessageType")>>)
        ELSE IF total > MAX_MESSAGE_LEN THEN Step(body, 0, <<Err("FrameTooLarge")>>)
        ELSE IF Len(body) < total - 1 THEN Step(<<>>, 0, <<Err("Truncated")>>)
        ELSE Step(Drop(src, total), 0, <<decode(SubSeq(src, 1, total))>>)
=============================================================================
