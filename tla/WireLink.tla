------------------------------ MODULE WireLink ------------------------------
(***************************************************************************)
(* One reader of the workspace at the end of a byte stream.  A script says *)
(* what the peer puts on the wire: messages, packets and datagrams that    *)
(* our own encoders produce, and frames that are wrong in one way each.    *)
(* The bytes arrive in chunks of any size (TCP keeps no boundaries), a     *)
(* file is there as a whole and so is a datagram.                          *)
(*                                                                         *)
(* The two codecs run inside Framed, of tokio-util 0.7: it calls decode    *)
(* while that yields frames, and reads when it yields nothing.  After an   *)
(* error of the codec it yields None once, and then reads before it calls  *)
(* decode again, although the buffer may hold whole frames; and once it    *)
(* has read the end of the stream, None is all that follows an error.  Its *)
(* caller here polls on after a None, which no caller in the workspace     *)
(* does.                                                                   *)
(***************************************************************************)
EXTENDS SoupPackets, MoldCodec, FiniteSets

CONSTANTS
    Scripts,    \* a set of records: the reader of the stream, and the frames on it
    Asked       \* the sequence number the request client asks for

VARIABLES
    reader,     \* which reader is at the end of the stream
    due,        \* what the frames of the script mean, in order
    wire,       \* the bytes still under way
    src,        \* the reader's buffer
    skip,       \* its pending_skip
    out,        \* what it has yielded
    phase,      \* where it is: "reading", "framing"; of Framed also "errored", "pausing"
                \* (decode at the end of the stream) and "paused"
    closed,     \* the peer has closed the stream
    eof,        \* Framed has read its end
    nones       \* history: after how many items it yielded None

vars == <<reader, due, wire, src, skip, out, phase, closed, eof, nones>>

-----------------------------------------------------------------------------
(* The peer.  A frame is wrong in its tag, in an enumerated field, by ending *)
(* early, by being empty, or by exceeding the cap.                           *)

\* What the wire can carry of a message: the low 48 bits of its timestamp.
OnTheWire(m) ==
    [m EXCEPT !.header.timestamp = [i \in 0..7 |-> IF i < 6 THEN @[i] ELSE 0]]

EncodedMessage(m) == encode(m, [i \in 1..encoded_len(m.tag) |-> 0]).val

Prefixed(body) == u16_bytes(Len(body)) \o body

\* A byte that is no code of its enumeration, written over the field.
WrongCode(m, field, byte) ==
    [EncodedMessage(m) EXCEPT ![DecodeTable[m.tag][field].at + 2] = byte]

Body(f) ==
    CASE f.is = "message" -> EncodedMessage(f.msg)
      [] f.is = "golden" -> f.bytes
      [] f.is = "code" -> WrongCode(f.msg, f.field, f.byte)
      [] f.is = "cut" -> SubSeq(EncodedMessage(f.msg), 1, encoded_len(f.msg.tag) - 1)
      [] f.is = "unknown" -> <<0, 0, 0>>
      [] f.is = "empty" -> <<>>
      [] f.is = "oversized" -> [i \in 1..(MAX_MESSAGE_LEN + 1) |-> 0]

FrameBytes(r, f) ==
    CASE f.is = "packet" -> SoupEncode(f.pkt).val
      [] f.is = "payload" -> Prefixed(<<Ascii["H"], 0>>)
      [] f.is = "number" -> Prefixed(<<Ascii["A"]>> \o pad_left(<<>>, 10) \o pad_left(f.digits, 20))
      [] f.is = "datagram" -> MoldEncode(f.pkt)
      [] f.is = "trailing" -> MoldEncode(f.pkt) \o <<0>>
      [] f.is = "short" -> SubSeq(MoldEncode(f.pkt), 1, Len(MoldEncode(f.pkt)) - 1)
      [] f.is = "request" -> RequestBytes(f.request)
      [] f.is = "response" -> write_response(f.status, f.frames).val
      [] f.is = "many" -> STATUS_OK \o <<0, 1, 0, 1>>
      [] f.is = "block" -> STATUS_OK \o u32_bytes(1) \o u16_bytes(f.len)
      [] f.is = "partial" -> SubSeq(Prefixed(Body(f.of)), 1, Len(Body(f.of)) + 1)
      [] OTHER -> IF r = "raw" THEN Body(f)
                  ELSE IF r = "tcp" /\ f.is = "message" THEN TcpEncode(f.msg).val
                  ELSE Prefixed(Body(f))

\* What the reader has to make of it.
Meaning(r, f) ==
    CASE f.is = "message" -> Ok(OnTheWire(f.msg))
      [] f.is = "golden" -> Ok(f.msg)
      [] f.is = "request" -> Ok(f.request)
      [] f.is = "response" -> Ok([status |-> f.status, frames |-> f.frames])
      [] f.is = "many" \/ (f.is = "block" /\ f.len > 0) -> Err("BlockTooLarge")
      [] f.is = "block" /\ f.len = 0 -> Err("EmptyBlock")
      [] f.is \in {"packet", "datagram"} -> Ok(f.pkt)
      [] f.is \in {"code", "number"} -> Err("InvalidEnumCode")
      [] f.is \in {"cut", "short"} -> Err("Truncated")
      [] f.is = "payload" -> Err("BadPayloadLength")
      [] f.is = "partial" -> Err("Io")
      [] f.is = "trailing" -> Err("TrailingBytes")
      [] f.is = "unknown" -> Err(IF r = "soup" THEN "UnknownPacketType" ELSE "UnknownMessageType")
      [] f.is = "empty" -> Err(IF r = "soup" THEN "FrameTooLarge" ELSE "Truncated")
      [] f.is = "oversized" -> Err("FrameTooLarge")

-----------------------------------------------------------------------------
(* The reader.                                                               *)

RECURSIVE Stream(_, _)
Stream(r, frames) ==
    IF frames = <<>> THEN <<>> ELSE FrameBytes(r, Head(frames)) \o Stream(r, Tail(frames))

Init ==
    \E s \in Scripts :
        /\ reader = s.reader
        /\ due = [i \in DOMAIN s.frames |-> Meaning(s.reader, s.frames[i])]
        /\ wire = Stream(s.reader, s.frames)
        /\ src = <<>>
        /\ skip = 0
        /\ out = <<>>
        /\ phase = "reading"
        /\ closed = FALSE /\ eof = FALSE
        /\ nones = {}

Framed == {"tcp", "soup"}

Arrive ==
    /\ phase \in {"reading", "paused"}
    /\ \E n \in 1..Len(wire) :
        /\ reader \in {"glimpse", "raw", "mold"} => n = Len(wire)
        /\ src' = src \o SubSeq(wire, 1, n)
        /\ wire' = Drop(wire, n)
    /\ phase' = "framing"
    /\ UNCHANGED <<reader, due, skip, out, closed, eof, nones>>

Close ==
    /\ reader \in Framed /\ ~closed /\ wire = <<>>
    /\ closed' = TRUE
    /\ UNCHANGED <<reader, due, wire, src, skip, out, phase, eof, nones>>

\* Framed reads the end of the stream: decode_eof gets what is left.
ReadEof ==
    /\ phase \in {"reading", "paused"} /\ closed /\ ~eof
    /\ eof' = TRUE /\ phase' = "pausing"
    /\ UNCHANGED <<reader, due, wire, src, skip, out, closed, nones>>

\* An error is followed by None.
EndAfterError ==
    /\ phase = "errored"
    /\ nones' = nones \cup {Len(out)} /\ phase' = "paused"
    /\ UNCHANGED <<reader, due, wire, src, skip, out, closed, eof>>

Calling == phase \in {"framing", "pausing"}

\* One call of the codec, which returned ret.  At the end of the stream, bytes that make
\* no frame are an error of Framed's own, and nothing at all is the end.
Apply(ret) ==
    /\ \E step \in {ret} :
        /\ src' = step.src
        /\ skip' = step.skip
        /\ \/ /\ step.result # <<>>
              /\ out' = out \o step.result
              /\ phase' = IF reader \in Framed /\ ~step.result[1].ok THEN "errored" ELSE phase
              /\ UNCHANGED nones
           \/ /\ step.result = <<>> /\ phase = "framing"
              /\ phase' = "reading"
              /\ UNCHANGED <<out, nones>>
           \/ /\ step.result = <<>> /\ phase = "pausing" /\ step.src # <<>>
              /\ out' = Append(out, Err("Io")) /\ phase' = "errored"
              /\ UNCHANGED nones
           \/ /\ step.result = <<>> /\ phase = "pausing" /\ step.src = <<>>
              /\ nones' = nones \cup {Len(out)} /\ phase' = "paused"
              /\ UNCHANGED out
    /\ UNCHANGED <<reader, due, wire, closed, eof>>

CallTcp == Calling /\ reader = "tcp" /\ Apply(TcpDecode(src, skip))

CallSoup == Calling /\ reader = "soup" /\ Apply(SoupDecode(src, skip))

CallRequest == Calling /\ reader = "request" /\ Apply(ServeConn(src))

CallResponse == Calling /\ reader = "response" /\ Apply(Request(src, Asked))

CallGlimpse == Calling /\ reader = "glimpse" /\ Apply(NextGlimpse(src))

CallRaw == Calling /\ reader = "raw" /\ Apply(NextRawBodies(src))

\* One datagram is one packet: nothing is carried over.
CallMold ==
    /\ Calling
    /\ reader = "mold"
    /\ Apply(Step(<<>>, 0, IF src = <<>> THEN <<>> ELSE <<MoldDecode(src)>>))

Read ==
    \/ Arrive \/ ReadEof \/ EndAfterError
    \/ CallTcp \/ CallSoup \/ CallRequest \/ CallResponse
    \/ CallGlimpse \/ CallRaw \/ CallMold

Next == Read \/ Close

\* The bytes arrive and the caller polls; the peer need not close the stream.
Spec == Init /\ [][Next]_vars /\ WF_vars(Read)

-----------------------------------------------------------------------------
(* Properties.                                                               *)

\* ItchCodec, SoupCodec, MessageIterator, MoldPacket and the two ends of the request
\* protocol: what a reader yields is what the peer's frames mean, frame by frame and in order,
\* wherever the chunks were cut: a message comes back field by field as it was
\* written, and a frame that is wrong, or longer than the cap and not yet all
\* there, costs exactly its own error and never a byte of the frame after it.
Faithful == Len(out) <= Len(due) /\ out = SubSeq(due, 1, Len(out))

WrongFrames == {i \in DOMAIN due : ~due[i].ok}

\* Every frame is accounted for in the end: no reader waits for bytes it already has, or
\* keeps skipping into frames that are good.  Under Framed, behind a wrong frame, that
\* takes another read: of a stream with one wrong frame everything is read once the peer
\* closes it.
AllRead ==
    /\ (reader \notin Framed \/ WrongFrames = {}) ~> (out = due)
    /\ (closed /\ Cardinality(WrongFrames) = 1) ~> (out = due)

\* "A peer cannot poison the stream with one bad frame" (itch-soup/src/lib.rs): a stream
\* with one wrong frame ends, with None, only behind its last frame.
NotPoisoned == Cardinality(WrongFrames) = 1 => \A n \in nones : n = Len(due)

\* "bounds memory under adversarial input" (itch-tcp/src/lib.rs): a reader that found no
\* frame in its buffer and asks for more bytes holds less than the largest frame.  (A
\* request client keeps the frames of one response, which are its result.)
BufferBounded == phase = "reading" /\ reader # "response" => Len(src) < 2 + MAX_MESSAGE_LEN
=============================================================================
