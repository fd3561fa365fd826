----------------------------- MODULE SoupPackets -----------------------------
(***************************************************************************)
(* The SoupBinTCP packets and their codec (itch-soup/src/lib.rs).  A       *)
(* packet is its tag with the fields of its payload.  Text is a sequence   *)
(* of bytes; a sequence number is a number up to U64Max.                   *)
(***************************************************************************)
EXTENDS TcpFraming

LOCAL INSTANCE SequencesExt

CONSTANT
    U64Max      \* the largest u64, a number of at most 20 decimal digits

ASSUME U64Assumption == U64Max \in Nat

-----------------------------------------------------------------------------
(* ASCII fields.                                                             *)

pad_right(s, width) == [i \in 1..width |-> IF i <= Len(s) THEN s[i] ELSE Space]

\* Too long a text keeps its end.
pad_left(s, width) ==
    IF Len(s) >= width THEN Drop(s, Len(s) - width)
    ELSE [i \in 1..(width - Len(s)) |-> Space] \o s

trim_spaces(s) ==
    LET text == {i \in DOMAIN s : s[i] # Space}
    IN  IF text = {} THEN <<>>
        ELSE SubSeq(s, CHOOSE i \in text : \A j \in text : i <= j,
                       CHOOSE i \in text : \A j \in text : j <= i)

Decimal[n \in Nat] == IF n < 10 THEN <<48 + n>> ELSE Append(Decimal[n \div 10], 48 + (n % 10))

encode_ascii_u64(n) == pad_left(Decimal[n], 20)

IsDigit(b) == b \in 48..57

\* The code stops at the first byte that is no digit and at the first product or
\* sum beyond u64; later digits never make the value smaller.
decode_ascii_u64(src) ==
    LET s == trim_spaces(src)
        value == FoldLeft(LAMBDA v, b : 10 * v + (b - 48), 0, s)
    IN  IF \A i \in DOMAIN s : IsDigit(s[i])
        THEN IF value <= U64Max THEN Ok(value) ELSE Err("InvalidEnumCode")
        ELSE Err("InvalidEnumCode")

-----------------------------------------------------------------------------
(* Packets.                                                                  *)

LoginRejectReason == [NotAuthorized |-> "A", SessionUnavailable |-> "S"]

\* The packets whose payload is carried as it is, and those that have none.
Opaque == {"+", "S", "U"}
Bare == {"H", "R", "Z", "O"}

SoupTags == Opaque \cup Bare \cup {"L", "A", "J"}

PayloadLen == [L |-> 6 + 10 + 10 + 20, A |-> 10 + 20, J |-> 1]

payload_len(p) ==
    IF p.tag \in Opaque THEN Len(p.payload) ELSE IF p.tag \in Bare THEN 0 ELSE PayloadLen[p.tag]

write_payload(p) ==
    CASE p.tag \in Opaque -> p.payload
      [] p.tag = "L" -> pad_right(p.username, 6) \o pad_right(p.password, 10)
                        \o pad_left(p.requested_session, 10)
                        \o encode_ascii_u64(p.requested_sequence)
      [] p.tag = "A" -> pad_left(p.session, 10) \o encode_ascii_u64(p.sequence)
      [] p.tag = "J" -> <<to_byte(LoginRejectReason, p.reason)>>
      [] p.tag \in Bare -> <<>>

SoupEncode(p) ==
    IF 3 + payload_len(p) > MAX_MESSAGE_LEN THEN Err("FrameTooLarge")
    ELSE Ok(u16_bytes(1 + payload_len(p)) \o <<Ascii[p.tag]>> \o write_payload(p))

\* The packets of fixed length, whose fields are parsed.
decode_fields(t, payload) ==
    LET text(off, n) == trim_spaces(slice_n(payload, off, n))
        number == decode_ascii_u64(Drop(payload, PayloadLen[t] - 20))
    IN  CASE t = "J" ->
               IF KnownCode(LoginRejectReason, payload[1])
               THEN Ok([tag |-> t, reason |-> from_byte(LoginRejectReason, payload[1])])
               ELSE Err("InvalidEnumCode")
          [] t # "J" /\ ~number.ok -> number
          [] t = "L" /\ number.ok ->
               Ok([tag |-> t, username |-> text(0, 6), password |-> text(6, 10),
                   requested_session |-> text(16, 10), requested_sequence |-> number.val])
          [] t = "A" /\ number.ok ->
               Ok([tag |-> t, session |-> text(0, 10), sequence |-> number.val])

decode_packet(tag, payload) ==
    IF ~\E t \in SoupTags : Ascii[t] = tag THEN Err("UnknownPacketType")
    ELSE LET t == CHOOSE t \in SoupTags : Ascii[t] = tag IN
         IF t \in Opaque THEN Ok([tag |-> t, payload |-> payload])
         ELSE IF Len(payload) # payload_len([tag |-> t]) THEN Err("BadPayloadLength")
         ELSE IF t \in Bare THEN Ok([tag |-> t])
         ELSE decode_fields(t, payload)

\* Mutant: a packet is taken only when a byte more has come.
SoupDecodeWaits(src, pending_skip) ==
    LET to_drop == Min2(pending_skip, Len(src))
        rest == Drop(src, to_drop)
        left == pending_skip - to_drop
        length == u16_of(rest)
        total == 2 + length
    IN  IF left > 0 \/ Len(rest) < 2 THEN Step(rest, left, <<>>)
        ELSE IF length = 0 THEN Step(Drop(rest, 2), 0, <<Err("FrameTooLarge")>>)
        ELSE IF total > MAX_MESSAGE_LEN
             THEN Step(Drop(rest, total), total - Min2(total, Len(rest)), <<Err("FrameTooLarge")>>)
        ELSE IF Len(rest) <= total THEN Step(rest, 0, <<>>)
        ELSE Step(Drop(rest, total), 0, <<decode_packet(rest[3], slice_n(rest, 3, length - 1))>>)

\* Decoder::decode: the prefix counts the tag and the payload.
SoupDecode(src, pending_skip) ==
    LET to_drop == Min2(pending_skip, Len(src))
        rest == Drop(src, to_drop)
        left == pending_skip - to_drop
        length == u16_of(rest)
        total == 2 + length
    IN  IF left > 0 \/ Len(rest) < 2 THEN Step(rest, left, <<>>)
        ELSE IF length = 0 THEN Step(Drop(rest, 2), 0, <<Err("FrameTooLarge")>>)
        ELSE IF total > MAX_MESSAGE_LEN
             THEN Step(Drop(rest, total), total - Min2(total, Len(rest)), <<Err("FrameTooLarge")>>)
        ELSE IF Len(rest) < total THEN Step(rest, 0, <<>>)
        ELSE Step(Drop(rest, total), 0, <<decode_packet(rest[3], slice_n(rest, 3, length - 1))>>)
=============================================================================
