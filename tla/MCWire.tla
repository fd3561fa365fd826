------------------------------- MODULE MCWire -------------------------------
(***************************************************************************)
(* Every kind of message through every stream reader, every value of every *)
(* enumerated field, and each way of being wrong, in front of and behind a *)
(* good frame.  In a sample every byte of every integer and text differs   *)
(* from every other, so a field read from the wrong place shows.           *)
(***************************************************************************)
EXTENDS WireLink, ConformanceVectors, FiniteSets, TLC

\* The place of a field among the fields of its record.
Place(from, to, f) ==
    Cardinality({g \in DOMAIN from : from[g].at + to[g].at < from[f].at + to[f].at})

\* Field number k filled with its own bytes.
Filled(field, k) ==
    CASE field.form = "u8" -> 16 * k
      [] field.form = "uint" -> [i \in 0..(field.len - 1) |-> 16 * k + i]
      [] field.form = "u48" -> [i \in 0..7 |-> 16 * k + i]
      [] field.form = "raw" -> [i \in 1..field.len |-> 16 * k + i]
      [] field.form = "code" -> CHOOSE v \in DOMAIN field.enum : TRUE

FilledRecord(from, to, first) ==
    [f \in DOMAIN from |-> Filled(from[f], first + Place(from, to, f))]

Sample(t) ==
    [tag |-> t, header |-> FilledRecord(HeaderEncode, HeaderDecode, 0),
     body |-> FilledRecord(EncodeTable[t], DecodeTable[t], 2)]

\* The sample with one enumerated field at each of its values.
Variants(t) ==
    UNION {{[Sample(t) EXCEPT !.body[f] = v] : v \in DOMAIN DecodeTable[t][f].enum} :
           f \in {g \in DOMAIN DecodeTable[t] : DecodeTable[t][g].form = "code"}}

Messages == {Sample(t) : t \in Tags} \cup UNION {Variants(t) : t \in Tags}

ASSUME SamplesTyped == \A m \in Messages : IsMessage(m)

Good(m) == [is |-> "message", msg |-> m]

Event == Sample("S")

\* The vectors hold in both directions: this is the encoders', the runs have the
\* readers'.
ASSUME VectorsEncoded == \A v \in all : IsMessage(v.message) /\ EncodedMessage(v.message) = v.bytes

ASSUME CodesListed ==
    \A v \in EnumVectors :
        /\ DOMAIN v.variants = DOMAIN v.enum
        /\ \A name \in DOMAIN v.enum : to_byte(v.enum, name) = v.variants[name]

\* try_new accepts the timestamps that the six bytes on the wire bring back, and no other.
ASSUME StampsKept ==
    \A hi \in {0, 1, 255} : \A k \in 5..7 :
        LET w == [i \in 0..7 |-> IF i = k THEN hi ELSE IF i < 6 THEN i ELSE 0]
        IN  try_new(w).ok <=> read_u48(write_u48(w)) = w

\* A symbol comes back without its padding, and a longer one without its end.
ASSUME TextKept ==
    \A n \in 0..9 :
        LET text == [i \in 1..n |-> Ascii["A"]]
        IN  Trimmed(NewStock(text)) = SubSeq(text, 1, IF n > 8 THEN 8 ELSE n)

Golden(v) == [is |-> "golden", bytes |-> v.bytes, msg |-> v.message]

BadCode(m, field, byte) == [is |-> "code", msg |-> m, field |-> field, byte |-> byte]

\* Every enumerated field of every kind with every unknown byte of its vector.
BadCodes ==
    UNION {{BadCode(Sample(t), f, b) :
              b \in UNION {v.unknown : v \in {w \in EnumVectors : w.enum = DecodeTable[t][f].enum}}} :
           <<t, f>> \in {<<t, f>> \in Tags \X UNION {DOMAIN DecodeTable[t] : t \in Tags} :
                         f \in DOMAIN DecodeTable[t] /\ DecodeTable[t][f].form = "code"}}

WrongEvent == BadCode(Event, "event_code", 0)

Wrong == {WrongEvent, [is |-> "cut", msg |-> Event], [is |-> "unknown"]}

Capped == {[is |-> "empty"], [is |-> "oversized"]}

Packets ==
    {[tag |-> "S", payload |-> EncodedMessage(Event)], [tag |-> "U", payload |-> <<7>>],
     [tag |-> "+", payload |-> [i \in 1..(MAX_MESSAGE_LEN - 3) |-> i]],
     [tag |-> "+", payload |-> <<>>], [tag |-> "H"], [tag |-> "R"], [tag |-> "Z"],
     [tag |-> "O"], [tag |-> "J", reason |-> "NotAuthorized"],
     [tag |-> "J", reason |-> "SessionUnavailable"]}
    \cup {[tag |-> "A", session |-> s, sequence |-> n] :
          s \in {<<>>, <<65>>, [i \in 1..10 |-> 64 + i]}, n \in {0, 9, 10, U64Max}}
    \cup {[tag |-> "L", username |-> [i \in 1..6 |-> 64 + i], password |-> <<66, 67>>,
           requested_session |-> s, requested_sequence |-> n] :
          s \in {<<>>, <<65, 32, 66>>}, n \in {0, 107}}

SoupWrong ==
    {[is |-> "unknown"], [is |-> "payload"], [is |-> "number", digits |-> Decimal[U64Max + 1]],
     [is |-> "number", digits |-> <<49, 65>>]} \cup Capped

Heartbeat == [is |-> "packet", pkt |-> [tag |-> "H"]]

Session == session_from_str(<<65, 66>>).val

Number == [i \in 0..7 |-> i + 1]

\* The empty block and the one that is too long are refused.
Blocks ==
    {new_block(data).val : data \in
       {d \in {<<>>, EncodedMessage(Event)} \cup
              {[i \in 1..n |-> i] : n \in {MAX_MESSAGE_LEN, MAX_MESSAGE_LEN + 1}} :
        new_block(d).ok}}

Datagrams ==
    {heartbeat(Session, Number), end_of_session(Session, Number)}
    \cup {new_data(Session, Number, <<b>>).val : b \in Blocks}
    \cup {new_data(Session, Number, <<<<1>>, EncodedMessage(Event)>>).val}

Requests == {[is |-> "request", request |-> [sequence |-> s, count |-> n]] :
             s \in {Number, [i \in 0..7 |-> 255]}, n \in {0, 1, 300, MAX_RESPONSE_FRAMES}}

MCAsked == [i \in 0..7 |-> IF i = 0 THEN 254 ELSE IF i = 1 THEN 255 ELSE i]

\* Three frames as the server numbered them, across a carry.
Cached ==
    <<CachedFrame(MCAsked, <<1, 2>>), CachedFrame([MCAsked EXCEPT ![0] = 255], <<3>>),
      CachedFrame([MCAsked EXCEPT ![0] = 0, ![1] = 0, ![2] = 3], EncodedMessage(Event))>>

Response(status, n) == [is |-> "response", status |-> status, frames |-> SubSeq(Cached, 1, n)]

Responses ==
    {Response(STATUS_OK, 3), Response(STATUS_HOLE, 2), Response(STATUS_HOLE, 0),
     Response(STATUS_END_OF_SESSION, 0)}

BadResponses ==
    {[is |-> "many"], [is |-> "block", len |-> 0], [is |-> "block", len |-> MAX_MESSAGE_LEN + 1]}

Script(r, frames) == [reader |-> r, frames |-> frames]

MCScripts ==
    {Script(r, <<Good(m)>>) : r \in {"glimpse", "raw", "tcp"}, m \in Messages}
    \cup {Script("tcp", <<w, x, Good(Event)>>) : w \in Wrong \cup Capped, x \in Capped}
    \cup {Script("tcp", <<Good(Event), w, Good(Sample("D"))>>) : w \in Wrong \cup Capped}
    \cup {Script("glimpse", <<Good(Event), w, Good(Sample("D"))>>) : w \in Wrong}
    \cup {Script("raw", <<Good(Event), w, Good(Sample("D"))>>) :
          w \in {WrongEvent, Good(Sample("I"))}}
    \cup {Script("raw", <<Good(Sample("X")), [is |-> "cut", msg |-> Event]>>)}
    \cup {Script("soup", <<[is |-> "packet", pkt |-> p], Heartbeat>>) : p \in Packets}
    \cup {Script("soup", <<w, x, Heartbeat>>) : w \in SoupWrong, x \in Capped}
    \cup {Script("tcp", <<Good(Event), [is |-> "partial", of |-> Good(Event)]>>),
          Script("soup", <<[is |-> "partial", of |-> [is |-> "unknown"]]>>)}
    \cup {Script("soup", <<Heartbeat, w, Heartbeat>>) : w \in SoupWrong}
    \cup {Script(r, <<Golden(v)>>) : r \in {"glimpse", "raw", "tcp"}, v \in all}
    \cup {Script(r, <<w, Good(Event)>>) : r \in {"glimpse", "raw"}, w \in BadCodes}
    \cup {Script("request", <<q, r>>) : q \in Requests, r \in Requests}
    \cup {Script("response", <<a, b>>) : a \in Responses, b \in Responses \cup BadResponses}
    \cup {Script("mold", <<[is |-> how, pkt |-> p]>>) :
          how \in {"datagram", "trailing", "short"}, p \in Datagrams}
=============================================================================
