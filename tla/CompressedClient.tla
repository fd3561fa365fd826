-------------------------- MODULE CompressedClient --------------------------
(***************************************************************************)
(* ResilientCompressedSoupClient and CompressedSoupConnection of           *)
(* itch-compressed/src/lib.rs: a sequenced-data packet carries a zstd      *)
(* frame of several ITCH messages, which the connection hands out one by   *)
(* one, counting each; the client reconnects and asks for the number after *)
(* the last one counted.                                                   *)
(*                                                                         *)
(* A message is its number in the session and whether it decodes.          *)
(* The server, the link and zstd are external: the server sends the        *)
(* messages from the number asked for, in packets of any size, and packets *)
(* and handshakes go wrong a bounded number of times.                      *)
(***************************************************************************)
EXTENDS Naturals, Sequences, Functions

CONSTANTS NMsgs,           \* messages of the session
          MaxDecompressed, \* MAX_DECOMPRESSED_LEN, in messages
          MaxAttempts,     \* config.max_attempts
          MaxFaults

ASSUME CompressedAssumption ==
  /\ NMsgs \in Nat /\ MaxDecompressed \in Nat \ {0}
  /\ MaxAttempts \in Nat \ {0} /\ MaxFaults \in Nat

VARIABLES client,   \* pc, attempt, next_sequence; of its connection: expected, scratch
          inbox,    \* packets under way to the client
          peer,     \* the server: the number it sends next, 0 when not connected
          faults,
          handed,   \* history: the messages the caller got
          spoiled,  \* history: the messages of this session that were discarded
          lost      \* history: how many of them on this connection

compressedvars == <<client, inbox, peer, faults, handed, spoiled, lost>>

\* The packets: data, with the messages in it and whether zstd accepts it, and the others.
Data(messages, sound) == [kind |-> "data", msgs |-> messages, sound |-> sound]
Packet(kind) == [kind |-> kind, msgs |-> <<>>, sound |-> TRUE]

\* ResilientCompressedSoupClient::new, asking for the first message.
CompressedInit ==
  /\ client = [pc |-> "idle", attempt |-> 0, next_sequence |-> 1, expected |-> 0,
               scratch |-> <<>>]
  /\ inbox = <<>> /\ peer = 0 /\ faults = 0
  /\ handed = <<>> /\ spoiled = {} /\ lost = 0

Faulty == faults < MaxFaults /\ faults' = faults + 1
-----------------------------------------------------------------------------
(* The server and the link.                                                *)

\* The answer to the login.  Another session or a refusal ends the client for good;
\* anything else than debug before it, or nothing in time, fails the attempt.
PeerAnswers(kind) ==
  /\ client.pc = "handshake" /\ inbox = <<>> /\ peer # 0
  /\ inbox' = <<Packet(kind)>>
  /\ IF kind = "accepted" THEN UNCHANGED faults ELSE Faulty
  /\ UNCHANGED <<client, peer, handed, spoiled, lost>>

\* The next messages in one packet: sound, or not a zstd frame, or with one message that
\* does not decode, or too long.
PeerSends ==
  /\ client.pc = "open" /\ inbox = <<>> /\ peer \in 1..NMsgs
  /\ \E k \in 1..(MaxDecompressed + 1) :
       LET Run(bad) == [i \in 1..k |-> [no |-> peer + i - 1, ok |-> i # bad]]
           Sent(packet) == inbox' = <<packet>> /\ peer' = peer + k
       IN  /\ peer + k - 1 <= NMsgs
           /\ \/ k <= MaxDecompressed /\ Sent(Data(Run(0), TRUE)) /\ UNCHANGED faults
              \/ k > MaxDecompressed /\ Sent(Data(Run(0), TRUE)) /\ Faulty
              \/ Sent(Data(Run(0), FALSE)) /\ Faulty
              \/ \E i \in 1..k : Sent(Data(Run(i), TRUE)) /\ Faulty
  /\ UNCHANGED <<client, handed, spoiled, lost>>

\* Heartbeats and debug packets come at any time, EndOfSession after the last message; a
\* packet that does not belong on an open stream is a fault.
PeerSays(kind) ==
  /\ client.pc = "open" /\ inbox = <<>> /\ peer # 0
  /\ kind = "end" => peer > NMsgs
  /\ inbox' = <<Packet(kind)>>
  /\ IF kind = "other" THEN Faulty ELSE UNCHANGED faults
  /\ UNCHANGED <<client, peer, handed, spoiled, lost>>

\* The connection breaks; what is under way is lost, what is in scratch is not yet.
LinkBreaks ==
  /\ client.pc \in {"open", "handshake"} /\ peer # 0 /\ Faulty
  /\ peer' = 0 /\ inbox' = <<>>
  /\ UNCHANGED <<client, handed, spoiled, lost>>
-----------------------------------------------------------------------------
(* Connecting.                                                             *)

\* The connection is given up, with its scratch buffer.
Dropped(c) == [c EXCEPT !.pc = "idle", !.expected = 0, !.scratch = <<>>]

\* try_connect_with_backoff: an attempt failed; back off and try again, or terminate.
AttemptFails(c) ==
  [c EXCEPT !.attempt = @ + 1, !.expected = 0, !.scratch = <<>>,
            !.pc = IF c.attempt + 1 >= MaxAttempts THEN "terminated" ELSE "idle"]

Hangup == peer' = 0 /\ inbox' = <<>>

\* try_connect_once: TCP connects, and the login asks for next_sequence.
Connect ==
  /\ client.pc = "idle"
  /\ client' = [client EXCEPT !.pc = "handshake"]
  /\ peer' = client.next_sequence /\ inbox' = <<>>
  /\ UNCHANGED <<faults, handed, spoiled, lost>>

ConnectRefused ==
  /\ client.pc = "idle" /\ Faulty
  /\ client' = AttemptFails(client)
  /\ UNCHANGED <<inbox, peer, handed, spoiled, lost>>

\* Mutant: the connection counts on from the number after the one that was asked for.
HandshakeAcceptedNext ==
  /\ client.pc = "handshake" /\ inbox # <<>> /\ Head(inbox).kind = "accepted"
  /\ client' = [client EXCEPT !.pc = "open", !.attempt = 0, !.expected = peer + 1,
                              !.next_sequence = peer + 1]
  /\ inbox' = Tail(inbox) /\ lost' = 0
  /\ UNCHANGED <<peer, faults, handed, spoiled>>

\* handshake: LoginAccepted gives the number the connection counts from.
HandshakeAccepted ==
  /\ client.pc = "handshake" /\ inbox # <<>> /\ Head(inbox).kind = "accepted"
  /\ client' = [client EXCEPT !.pc = "open", !.attempt = 0, !.expected = peer,
                              !.next_sequence = peer]
  /\ inbox' = Tail(inbox) /\ lost' = 0
  /\ UNCHANGED <<peer, faults, handed, spoiled>>

\* LoginRejected and SessionMismatch are fatal.
HandshakeFatal ==
  /\ client.pc = "handshake" /\ inbox # <<>>
  /\ Head(inbox).kind \in {"rejected", "mismatch"}
  /\ client' = [AttemptFails(client) EXCEPT !.pc = "terminated"]
  /\ Hangup
  /\ UNCHANGED <<faults, handed, spoiled, lost>>

HandshakeDebug ==
  /\ client.pc = "handshake" /\ inbox # <<>> /\ Head(inbox).kind = "debug"
  /\ inbox' = Tail(inbox)
  /\ UNCHANGED <<client, peer, faults, handed, spoiled, lost>>

\* Another packet, or the end of the connection.
HandshakeFails ==
  /\ client.pc = "handshake"
  /\ IF inbox = <<>> THEN peer = 0 ELSE Head(inbox).kind = "other"
  /\ client' = AttemptFails(client)
  /\ Hangup
  /\ UNCHANGED <<faults, handed, spoiled, lost>>

LoginTimeout ==
  /\ client.pc = "handshake" /\ inbox = <<>> /\ Faulty
  /\ client' = AttemptFails(client)
  /\ Hangup
  /\ UNCHANGED <<handed, spoiled, lost>>
-----------------------------------------------------------------------------
(* Reading.                                                                *)

\* decompress_into: a frame that zstd refuses, or whose output exceeds the cap.
decompress_into(packet) ==
  IF packet.sound /\ Len(packet.msgs) <= MaxDecompressed
  THEN [ok |-> TRUE, scratch |-> packet.msgs] ELSE [ok |-> FALSE, scratch |-> <<>>]

Numbers(messages) == {m.no : m \in Range(messages)}

\* Mutant: the messages are counted when their packet comes.
PollDataCounted ==
  /\ client.pc = "open" /\ client.scratch = <<>> /\ inbox # <<>> /\ Head(inbox).kind = "data"
  /\ LET out == decompress_into(Head(inbox))
         lag == IF out.ok THEN <<>> ELSE Head(inbox).msgs
     IN  /\ client' = [client EXCEPT !.scratch = out.scratch,
                                     !.expected = @ + Len(out.scratch)]
         /\ spoiled' = spoiled \cup Numbers(lag) /\ lost' = lost + Len(lag)
  /\ inbox' = Tail(inbox)
  /\ UNCHANGED <<peer, faults, handed>>

\* poll_next, scratch being drained: a data packet.  A bad frame is reported as a
\* Compression error; the connection stays, and nothing is counted.
PollData ==
  /\ client.pc = "open" /\ client.scratch = <<>> /\ inbox # <<>> /\ Head(inbox).kind = "data"
  /\ LET out == decompress_into(Head(inbox))
         lag == IF out.ok THEN <<>> ELSE Head(inbox).msgs
     IN  /\ client' = [client EXCEPT !.scratch = out.scratch,
                                     !.next_sequence = IF out.ok THEN @ ELSE client.expected]
         /\ spoiled' = spoiled \cup Numbers(lag) /\ lost' = lost + Len(lag)
  /\ inbox' = Tail(inbox)
  /\ UNCHANGED <<peer, faults, handed>>

\* drain_one_message: the next message is counted and handed out.
Drain ==
  /\ client.pc = "open" /\ client.scratch # <<>> /\ Head(client.scratch).ok
  /\ client' = [client EXCEPT !.scratch = Tail(@), !.expected = @ + 1,
                              !.next_sequence = client.expected + 1]
  /\ handed' = Append(handed, Head(client.scratch).no)
  /\ UNCHANGED <<inbox, peer, faults, spoiled, lost>>

\* One that does not decode: the rest of the scratch buffer is discarded with it, and
\* neither is counted: expected then stays behind the messages that follow, as it does
\* after a packet that cannot be decompressed.
DrainBad ==
  /\ client.pc = "open" /\ client.scratch # <<>> /\ ~Head(client.scratch).ok
  /\ client' = [client EXCEPT !.scratch = <<>>, !.next_sequence = client.expected]
  /\ spoiled' = spoiled \cup Numbers(client.scratch)
  /\ lost' = lost + Len(client.scratch)
  /\ UNCHANGED <<inbox, peer, faults, handed>>

\* Heartbeats and debug packets are filtered.
PollFiltered ==
  /\ client.pc = "open" /\ client.scratch = <<>> /\ inbox # <<>>
  /\ Head(inbox).kind \in {"heartbeat", "debug"}
  /\ inbox' = Tail(inbox)
  /\ UNCHANGED <<client, peer, faults, handed, spoiled, lost>>

\* Mutant: a peer that closes without EndOfSession is not noticed.
PollDropsLate ==
  /\ client.pc = "open" /\ client.scratch = <<>>
  /\ inbox # <<>> /\ Head(inbox).kind \in {"end", "other"}
  /\ client' = [Dropped(client) EXCEPT !.next_sequence = client.expected]
  /\ Hangup
  /\ UNCHANGED <<faults, handed, spoiled, lost>>

\* next_message drops the connection and connects again on the next call: after
\* EndOfSession, a packet out of place, an I/O error, and at the end of the stream.
PollDrops ==
  /\ client.pc = "open" /\ client.scratch = <<>>
  /\ \/ inbox # <<>> /\ Head(inbox).kind \in {"end", "other"}
     \/ inbox = <<>> /\ peer = 0
  /\ client' = [Dropped(client) EXCEPT !.next_sequence = client.expected]
  /\ Hangup
  /\ UNCHANGED <<faults, handed, spoiled, lost>>

ClientStep ==
  \/ Connect \/ HandshakeAccepted \/ HandshakeFatal \/ HandshakeDebug \/ HandshakeFails
  \/ PollData \/ Drain \/ DrainBad \/ PollFiltered \/ PollDrops

CompressedNext ==
  \/ ClientStep \/ PeerSends \/ ConnectRefused \/ LoginTimeout \/ LinkBreaks
  \/ \E kind \in {"accepted", "rejected", "mismatch", "debug", "other"} : PeerAnswers(kind)
  \/ \E kind \in {"heartbeat", "debug", "end", "other"} : PeerSays(kind)

\* The caller asks for the next message again and again.  The server answers a login and
\* sends what it has, over and over if the link breaks: strong fairness, because a
\* heartbeat may be under way whenever it could.
CompressedFairness ==
  /\ WF_compressedvars(ClientStep) /\ WF_compressedvars(PeerAnswers("accepted"))
  /\ SF_compressedvars(PeerSends)

CompressedSpec == CompressedInit /\ [][CompressedNext]_compressedvars /\ CompressedFairness
-----------------------------------------------------------------------------
\* "Pass into a reconnect's requested_sequence to resume cleanly" (lib.rs): as long as no
\* packet was spoiled, the caller gets the messages of the session one after the other,
\* none twice and none missing, however often the connection breaks, also in the middle of
\* a packet.
ExactWhileClean == spoiled = {} => handed = [i \in 1..Len(handed) |-> i]

\* A spoiled packet costs its own messages and no other: whatever has a number below one
\* that was handed out, or below the number the next login asks for, was handed out or was
\* in a packet that drain_one_message or decompress_into discarded.
NothingSkipped ==
  \A n \in 1..NMsgs :
    (n < client.next_sequence \/ \E m \in Range(handed) : n < m)
      => n \in Range(handed) \cup spoiled

\* "Sequence number of the next sequenced-data message expected from the server" (lib.rs):
\* the message drained next has the number next_expected_sequence.  It does not hold once
\* drain_one_message or decompress_into has discarded messages, which are not counted.
CursorIsNext ==
  client.pc = "open" /\ client.scratch # <<>> => Head(client.scratch).no = client.expected

\* In the end the client has given up, for a refusal or for max_attempts failures in a row,
\* or every message was handed out or discarded.
AllSettled == <>[](client.pc = "terminated" \/ 1..NMsgs \subseteq Range(handed) \cup spoiled)
=============================================================================
