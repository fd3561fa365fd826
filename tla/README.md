# A TLA+ model of itch-rs

itch-rs carries the Nasdaq TotalView-ITCH 5.0 feed: a message codec, four transports
(MoldUDP64 multicast, SoupBinTCP, compressed SoupBinTCP, plain TCP), sources and stores
for servers, and order books for clients.  These modules model the parts with state and
the byte formats, TLC checks them on small instances, and TLAPS proves the central safety
properties for every instance.  `PROJECT.json` maps every definition to its lines of code
and lists runs, mutants, hazards, findings and theorems.

## The parts of the system

| Part | Code (under `src/crates`) | Modules |
|---|---|---|
| MoldUDP64 receiver | `itch-mold/src/receiver.rs` | `ReceiverState`, `MoldReceiver`, `MoldSilence` |
| MoldUDP64 publisher | `itch-mold/src/publisher.rs` | `MoldPublisher` |
| retransmission cache, request server | `itch-mold/src/request_server.rs` | `RetransmitCache`; the frames: `MoldCodec` |
| gap recovery client | `itch-mold/src/gap_recovery.rs` | `GapRecovery`; all of MoldUDP64: `MoldSession` |
| SoupBinTCP server | `itch-soup/src/server.rs` | `SoupServer`, over `SoupLink` |
| SoupBinTCP connection, resilient client | `itch-soup/src/connection.rs`, `resilient.rs` | `SoupClient`; both sides: `SoupSession` |
| compressed SoupBinTCP | `itch-compressed/src/lib.rs` | `CompressedClient` |
| plain TCP server | `itch-tcp/src/server.rs` | `TcpServer`; what it promises: `Broadcast` |
| stores | `itch-source` (ring buffer, null), `itch-source-postgres`, `itch-source-redis` | `SeqStore`, `SharedStore` |
| sources, policies | `itch-source`, `itch-source-kafka` | `Sources`, and `TcpServer` for the warmup |
| order books, bars | `itch-book/src` | `L2Book`, `L3Book`, `Ohlcv`, fed by `BookManager` |
| message codec | `itch-protocol/src` | `WireBytes`, `ItchTypes`, `MessageCodec` |
| packet codecs, file replay | `itch-mold/src/codec.rs`, `itch-soup/src/lib.rs`, `itch-tcp/src/lib.rs`, `itch-replay` | `MoldCodec`, `SoupPackets`, `TcpFraming`; all readers: `WireLink` |
| conformance vectors | `itch-conformance/src` | `ConformanceVectors` |

How they interact.  The publisher numbers the messages of a source, packs them into
datagrams, puts each frame into the retransmission cache and then sends.  A receiver
reads datagrams, orders them, and reports a gap; the recovery client around it asks the
request servers, which answer from the cache, and feeds the frames back through the
receiver's own state machine.  A SoupBinTCP server stores each message under its number
and broadcasts it to one task per subscriber; a task logs the subscriber in, sends the
policy's warmup, replays the store from the requested number, and goes live.  The
resilient client logs in again after every failure with the number it waits for; the
compressed one does so with several messages to a packet.  The TCP server stores and
broadcasts too, but its subscribers do not log in: they get the warmup, then what is
broadcast, and its store may be a database that outlives it.  All of them put messages on
the wire with one message codec, inside their own framing.

## The modules

**`ReceiverState`** is the struct of that name as a record; each of its methods is an
operator from the old struct to the new one (`Ingest`, `Deliver`, `StashPending`,
`FlushPending`, `Retransmit`).  A message is the body the publisher gave to a number
(`Stream`); a body may fail to decode.  `base`, where the stream was first locked, is
history.  **`MoldReceiver`** is `MoldStream` without its timer: the network brings any
packet of `Datagrams`, any number of times and in any order; a request server brings
frames; the caller polls.  Everything sent is honest (`DatagramAssumption`,
`RepairAssumption`): a block numbered n is what the publisher numbered n.
**`MoldSilence`** is the timer: `last_seen`, `soft_warned`, `dead_link_pending`,
`silence_timer`, and the loop of `poll_next` that shares them, with instants relative to
the clock.  Datagrams arrive at the socket on their own and wait there until `poll_next`
reads them: the timer is looked at only when the socket has nothing.  Warning and
dead-link thresholds may stand in either order.

**`MoldPublisher`** is the task `serve`, one step per await (select, cache lock, send),
with source and send failures and a heartbeat timer that may expire at any select.
**`RetransmitCache`** is the bounded cache, its lookup and its status codes.
**`GapRecovery`** adds the recovery task (`recover_gap`: servers, retries, timeouts; it
may also panic) and `poll_next` of the client to `MoldReceiver`.  **`MoldSession`**
composes it with the publisher: what was sent stays in `sent`, so a datagram may be read
never, once or again. Its abstract specification is `MoldReceiver`, with at least the
packets and the answers of the session among `Datagrams` and `Repairs`
(`SessionAssumption`).

**`SeqStore`** is the ring buffer store; **`SoupLink`** a TCP connection that carries
packets in order until it fails; **`SoupServer`** the ingest task, the accept loop with
its shutdown, and one subscriber's task over a broadcast channel that can lag (`log` and
positions in it); **`SoupClient`** is `ResilientSoupClient` over `SoupConnection`;
**`SoupSession`** composes both sides.

**`CompressedClient`** is `ResilientCompressedSoupClient` over its connection: packets
decompress into a scratch buffer with a cap, messages leave it one by one and are counted
one by one, and a reconnect asks for the next number counted.  The server and zstd are
external: a packet may hold several messages, one that does not decode, a bad frame, or
too much; a link may break anywhere.

**`SharedStore`** is the databases as the stores use them, one operator per command (the
INSERT with its ON CONFLICT, the three commands of a Redis store, the expiry of keys, the
i64 conversion).  `age` lists the keys of Redis by the time they have left: the counter,
which lives twice as long as the others and which only a higher number renews, goes
through it twice, so that it can expire before keys that were set later.  **`Sources`** is
the iterator and Kafka sources and the pacing adapter as what a poll of each returns.
**`TcpServer`** is `Server::serve`: the ingest task, the accept loop and
`handle_subscriber` with `WarmupFromSeqStore` call by call, over Postgres, Redis and the
null store and over each source; the ring buffer, which lives and dies with the process,
is modelled in the SoupBinTCP session.  A database call may fail before or after it took
effect, and the server may crash and start again over the same database.  **`Broadcast`**
is the abstract specification of the live feed: a log, and subscribers that get it from
where they joined until they leave.

**`WireBytes`** is bytes and integers by place value; **`ItchTypes`** the fields, widths
and codes of the 20 messages and 18 enumerations; **`MessageCodec`** the encoder and the
decoder as two tables of offsets, which the code also writes twice.  **`TcpFraming`**,
**`SoupPackets`** and **`MoldCodec`** (datagrams, and the requests and responses of the
retransmission server) are the framings and their incremental decoders; **`WireLink`**
puts each reader at the end of a stream whose bytes arrive in pieces of any size.  The
codecs of TCP and SoupBinTCP run there inside `Framed` of tokio-util, which is external:
after an error of the codec it yields `None` and reads before it decodes again, and after
the end of the stream `None` is all that follows an error.  **`ConformanceVectors`** is
the byte literals of the conformance crate, which `MCWire` compares with the modelled
codecs.

**`L2Book`** and **`L3Book`** are the books of one symbol, each method an operator to the
outcome (ok or error, and the book, which an error may leave changed); **`Ohlcv`** is the
bars.  **`BookManager`** feeds all three the messages of a session.  The feed numbers new
orders afresh, as ITCH does, and is otherwise free: unknown references, too many shares,
executions out of turn.

## The runs

| Run | What is asked | Result |
|---|---|---|
| `receiver` | 5 numbers, 6 datagrams, 3 repairs, caps 0-2, both policies, pinned or not | passes |
| `receiver_awaited` | is the awaited block ever stuck in the buffer? | it is |
| `silence` | thresholds 1-3, silences up to 9, up to 2 datagrams in the socket | passes |
| `session` | 3 messages, MTUs of no and of two blocks, a cache of 2, 2 servers with a retry each | passes |
| `soup` | 3 messages, starts 1 and 2, stores of 1 and 3, broadcast of 2, warmup 0 and 1, 2 attempts | passes |
| `soup_resume` | does a reconnect resume exactly, with warmup? | it does not |
| `tcp_server` | 4 setups of store, policy, source and pacing, a fault and a crash, a subscriber | passes |
| `tcp_persisted` | is every message persisted before it is broadcast? | it is not |
| `compressed` | 5 messages in packets of up to 3, 2 attempts, 3 faults of any kind | passes |
| `wire` | every message and packet, every code, every way of being wrong, every cut | passes |
| `wire_poisoned` | does a stream go on behind one wrong frame? | it yields `None` first |
| `book` | 2 symbols, 3 references, 2 prices, up to 3 shares | passes |

What the passing runs show:

* `receiver`: the queue is the run of numbers the caller lacks (`QueueInOrder`); the
  caller gets each number once, in order, with its body (`HandedInOrder`); the buffer
  keeps to its cap (`PendingBounded`); under the Error policy a filled gap releases
  everything behind it, the publisher sending each number in one packet only
  (`ErrorPolicyFlushes`); what leaves the buffer is delivered or counted (`NoSilentLoss`).
* `silence`: `PeerSilent` once per silence (`SilentOnce`), only after a whole threshold in
  which no datagram came, not even one that is still unread (`SilentIsTrue`), and
  eventually (`SilenceReported`); a parked consumer has an armed timer
  (`ParkedIsArmed`).
* `session`: the packets are the source, once each, and within the MTU but for a block
  that alone exceeds it (`PublishedIsSource`); a number that is out is cached
  (`CachedBeforeSent`); marks announce the right number (`MarksTruthful`); the end is
  announced only over a complete source (`EndIsComplete`) and is announced or the task
  failed (`ServeEnds`).  All of MoldUDP64 implements `MoldReceiver` (`ImplementsReceiver`),
  so what is proved of the receiver holds of the whole; the recovery task works on a gap
  that makes sense (`TaskWellFounded`); its frames bring the receiver forward
  (`RecoveryAdvances`); the caller gets the source in order (`SourceOrder`); a recovery
  ends, with its gap filled, with an error or panic, or with the stream (`GapSettled`).
* `soup`: broadcasts are stored first (`StoredBeforeSent`); no stored message falls
  between replay and live (`ReplayMeetsLive`) or behind EndOfSession (`EndComplete`);
  without warmup, with numbers from 1 and a store that retains everything, the caller gets
  each message once across reconnects (`HandedExact`); server and subscriber end after the
  source (`SessionEnds`).
* `tcp_server`: what the source yields is broadcast in order, dropped by a failed store or
  lost in a crash, and nothing else happens to it (`Accounted`); a message is persisted
  before anyone sees it, but for the case of `tcp_persisted` (`PersistedBeforeSeen`);
  warmup and live leave no hole (`NoHole`); the server implements `Broadcast`
  (`ImplementsBroadcast`); everything ends after the source (`Released`).
* `compressed`: while nothing was discarded the caller gets the session exactly, whatever
  breaks (`ExactWhileClean`); a bad packet costs its own messages only (`NothingSkipped`);
  in the end all is settled or the client has given up (`AllSettled`).
* `wire`: each reader yields what the frames mean, in order, wherever the stream is cut,
  and if it is polled on behind a wrong frame it resumes at the next one (`Faithful`); it
  holds less than a frame when it asks for more because it found no frame (`BufferBounded`);
  it does not wait for bytes it has, but for `Framed`, which behind a wrong frame waits for
  another read or the end of the stream (`AllRead`).  The assumptions of `MCWire`
  compare the codecs with the conformance vectors.
* `book`: a queue holds exactly its orders (`QueuesAreOrders`) and only ever moves forward
  (`PriorityKept`); the L3 book, summed up, is the L2 book, apart from the orders whose
  execution L3 refused (`BooksAgree`); a bar is the summary of its symbol's trades
  (`BarsAreTape`).

### Where code and comments disagree

Four disagreements have a run of their own:

1. `flush_pending` stops at a buffered entry below `next_expected`, which only an overflow
   can remove: later blocks stay in the buffer although their turn has come
   (`receiver_awaited`).
2. Warmup messages count as numbered ones in the SoupBinTCP client, so that the number to
   resume from drifts (`soup_resume`).
3. An INSERT whose answer is lost, or a start of the numbering at 1 because `latest`
   failed, leads to a number used twice; `ON CONFLICT DO NOTHING` then reports success for
   a message that is not in the table, and it is broadcast (`tcp_persisted`).
4. The streams made of the codecs of TCP and SoupBinTCP yield `None` after one bad frame,
   because `Framed` does after an error of its codec; `itch-client` logs "continuing" and
   then takes the `None` for a disconnect (`wire_poisoned`).

Five more are stated as definitions.  No run checks them; TLC refutes each when it
takes the place of the properties in the cfg named:

5. `NotHot` (`MCMoldSilence`): once a silence has outlasted `PeerSilent` by a dead-link
   period, `rearm_silence_timer` sets a deadline in the past and `poll_next` spins;
   `receiver.rs:663` says "we don't loop hot".
6. `GiveUpAdvances` (`MCMoldSession`): a recovery that gives up does not advance the
   receiver; `gap_recovery.rs:141` says it "advances past the gap".
7. `EndsComplete` (`MCMoldSession`): the end-of-session datagram ends the stream over open
   gaps; `gap_recovery.rs:9` says "as if no loss had occurred".
8. `EndBeforeReturn` (`MCSoupSession`): `accept_tx` keeps the broadcast open until
   `serve_with_shutdown` returns, so EndOfSession goes out after the grace period, not
   "before the listener is dropped" (`itch-soup/src/server.rs:308`).
9. `CursorIsNext` (`MCCompressedClient`): messages that `drain_one_message` or
   `decompress_into` discards are not counted, so that `next_expected_sequence` stays behind
   what the server sends next and a reconnect gets messages again;
   `itch-compressed/src/lib.rs:372-374` says "Sequence number of the next sequenced-data
   message expected from the server. Pass into a reconnect's `requested_sequence` to resume
   cleanly."

And four are read off the models without a property of their own:

10. With `start_sequence` above 1, a SoupBinTCP login before the first message is accepted
    with number 1, which the server never sends, where the comment at `server.rs:507-508`
    speaks of "the next sequence we'll emit"; the client's counter lags, and a reconnect
    repeats messages.  `HandedExact` therefore speaks of numbers from 1.
11. `publisher.rs:24-25` says that no packet is larger than `mtu`; a single block larger
    than that is sent in a packet of its own.  `PublishedIsSource` allows for it.
12. `Server::serve` of the TCP server "returns when the source is exhausted and every
    subscriber has disconnected" (`itch-tcp/src/server.rs:121-122`); it returns when the
    source is exhausted, and subscribers end after it (`ServeReturns`).
13. `KafkaSource` says that after a bad record "the stream continues on the next poll"
    (`itch-source-kafka/src/lib.rs:106-107`), which it does; but the ingest task takes the
    first error as the end of the source, so behind a server nothing follows.

### Bounds

A receiver treats numbers alike except for their order relative to `next_expected`, the
packet's ends and the buffered ones.  The packets do not overlap, as the publisher sends
each number in one packet, but they repeat, and retransmitted frames overlap them; five
numbers in packets of one and three blocks then put a packet before, across and beyond
`next_expected`, and caps 0 to 2 overflow in every way.  `DropBound` and `OutboxBound`
stop a counter that only counts and a queue that a caller could leave undrained;
`IdleBound`, `FireBound` and `SocketBound` the clock, the expiries at one instant and the
datagrams in the socket.  The publisher's MTUs make a packet of two blocks, of one, and a
block that alone exceeds the MTU.  In `session` the cache is smaller than the source, so
that complete, partial and empty answers occur; `HeartbeatBound` limits heartbeats, which
change nothing in the client.

In `soup` three messages exceed the broadcast buffer (lag) and the smaller store
(eviction); warmup, a failing store and a refused login are tried one at a time, and
`CountBound` stops the count that warmup drives up.  In `tcp_server` the channel holds two
of three or four messages; `I64Max` = 3 puts the last of four numbers beyond the column;
one failing call (`MaxFaults`) and one crash (`MaxRestarts`) may meet anywhere.  In
`compressed`, packets of up to three messages exceed `MaxDecompressed`, and three faults
exceed `MaxAttempts`.  In `wire`, `MAX_MESSAGE_LEN` is the longest message (50) instead
of 1024 and `U64Max` has four digits, so that both limits are crossed by short frames; in a
sample message every byte of a number or text differs from every other, so a field read
from the wrong place shows.  In `book`, `MaxFeed` bounds the orders and trades together;
three references give a queue of three, or two symbols of one and two; `VolumeMax` = 5
lets a volume saturate.  References and symbols are symmetric.

### Fairness

Tasks that the runtime has woken are run, and timers expire: weak fairness of the
publisher's steps other than the network's choices, of the recovery task (each attempt has
a timeout), of the client's poll once its recovery has ended (the task wakes it; a caller
that has got the end of the stream need not poll again), of clock and consumer in
`MoldSilence`, and of the server's tasks and grace period in SoupBinTCP.  A subscriber's
task of SoupBinTCP awaits its sends without a timeout, so its fairness takes for granted
that the client reads what it is sent or that the connection fails.  Nothing is assumed of
the multicast network or of loss.  In `MoldSilence` the look at the socket is followed by
a receipt, or by the timer, strongly fairly: a socket may fail, but not every time.  The
number of expiries at one instant is bounded by `FireBound`: the spin of item 5 burns
time, it does not stop the clock.  In `TcpServer` the ingest task, the return of `serve`
and each subscriber's task are weakly fair: the source goes on or ends, and a subscriber
reads or goes.  In `CompressedClient` the client's steps and the acceptance of a login are
weakly fair; that the server sends what it has is strongly fair, because heartbeats, which
the server may send at any time, disable it again and again.  In `WireLink` the bytes on
the wire arrive, and the reader is polled on, also after a `None`; the peer need not close
the stream.

## Refinement

`TcpServer` implements `Broadcast`: `INSTANCE` with `log` the messages broadcast, `joined`
the subscribers that are served, `since` where each was accepted and `got` how many
broadcast messages it was sent.  The channel that keeps the last `Capacity` messages, the
positions in it and `RecvError::Lagged` disappear; warmup and the store are invisible.
`MoldSession` implements `MoldReceiver`: publisher, cache, servers and recovery task are
its environment, and the steps of the recovery task are stutters until its frames are
handed to the stream.  Both are model-checked (`tcp_server`, `session`) and proved.

## The proofs

Each of these is proved for every value of the constants; the properties that are not
inductive alone follow from an inductive invariant.

**`Counting`** states the facts about intervals and cardinalities that the proofs share:
induction over `0..n`, which stands in wherever the code loops over blocks, frames, chunks
or numbers, least and greatest members, and how cardinality counts.  The lemmas of the
components assume `Counting`.  **`IntervalTheorems`** derives it from the library of finite
sets (`CountingHolds`), and the modules with the theorems instantiate it at their end,
where the assumption is discharged.

**`MoldReceiverLemmas`** and **`MoldReceiverProofs`**: `TypeCorrect`, `QueueStaysInOrder`,
`PendingStaysBounded` and `CallerSeesStream` (the action property `HandedInOrder`), for
every set of sessions, stream, honest datagrams and repairs, caps and starts.  That the
caller gets consecutive numbers needs that the queue continues where the caller stands,
which needs that `next_expected` follows the last queued number, which after a flush needs
that the buffer holds what the publisher numbered.  `Good(r, h)` is that conjunction, on
the struct `r` of a caller that has got `h` deliveries; one lemma per method shows that it
keeps `Good`.  `LossIsCounted` (`NoSilentLoss`) relates the two sides of one call of
`ingest`: `Accounted(r, S, p)` says that of the numbers `S` all are held but as many as
the counter of drops has grown by; it composes along the loop over the blocks.
`OverflowIsHarmless` (`ErrorPolicyFlushes`) assumes `CutOnce`: a number is in one packet of
the session only, as the publisher guarantees (`PublishedIsSource`).  Under the Error
policy the buffer then holds of each packet its beginning and everything held is beyond
`next_expected` (`Ahead`): the overflow that drops a block also drops the ones after it in
its packet, and a packet across the cursor flushes whatever it reaches.

**`MoldSessionProofs`**, the publisher: `PublishedIsSource`, `CachedBeforeSent`,
`EndIsComplete` and `MarksTruthful`, for every source, MTU, start, burst and capacity.  A
message taken from the source is in one of four places, and their numbers follow on each
other: sent, in the packet that is being sent (`out`), packed (`pending_blocks`), or in
`carry`.  `PublisherInv` says so (`PackInv`, `SentInv`), with what each await knows
(`ControlInv`) and that the cache is a run of numbers up to the first one not yet cached
(`CacheInv`).  `SizeInv` adds that `pending_size` is the size of the packet under
construction, from which the MTU follows.

**`MoldSessionProofs`**, the session, for every source, number of servers and of retries
and every capacity: `ImplementsReceiver`, `TaskWellFounded`, `RecoveryAdvances` and, end to
end, `SourceOrder`.  `SessionInv` is the publisher's invariant, the receiver's `Good`, and
what ties them: every packet on the wire and every frame of a cache is a run of the source
under its own numbers (`OnWire`, `BodiesOf`), so each is one of the packets that
`MoldReceiver` may get, which is the refinement; and the receiver was told the truth
(`Told`): a Gap in its queue starts at or below the cursor and lies within what was sent.
A recovery is started from such a Gap, and the cursor only grows, so the numbers asked for
were sent, and the frames that answer start at or below the cursor and bring it past the
last of them (`RetransmitMoves`).

**`SoupSessionProofs`**: `StoredBeforeSent`, `ReplayMeetsLive` and `EndComplete`, for every
number of messages, start, store, broadcast buffer, warmup, chunk and client.  `LogInv`:
the broadcast is a run of numbers, which agrees with the store.  `TaskInv` is the argument
of the code's order of steps, to subscribe first and read `latest` afterwards: what the
store holds beyond the `latest` read at login is still to be received, and so is, after
the replay, the number that the subscriber waits for if the store holds it.
`ExactDelivery` (`HandedExact`) follows the messages to the caller, across any number of
lost connections: while the store retains everything, what is on the wire are consecutive
numbers with the source's bodies, from the number after the caller's count up to the one
that the task sends next, and a login asks for and is granted exactly that number
(`ExactInv`).

**`TcpServerProofs`**: `Accounted`, `PersistedBeforeSeen` and `ImplementsBroadcast`, for
every source, backend, policy and pacing, any set of subscribers, and any number of faults
and restarts.  `SourceInv` and `OrderInv` place the message in hand and the one held by the
pacing between what was broadcast and what is left of the source; `FeedInv` makes the
channel the end of the log, and a subscriber's position the place where it was accepted
plus what it was sent, which is the refinement mapping; `StoreInv` says that the number in
use is above every row until its own row is there.

**`ClientProofs`**, the books: `QueuesAreOrders` and `PriorityKept`, for any set of
symbols, references and prices and any number of shares.  The strengthening is `Arrived`,
no order is numbered beyond the book's counter, so that one inserted at the back is the
last; and that what is in a book was entered by the feed, so that a new reference is in
none.  Since arrivals increase along a queue, a reference is in it once, and
`remove_from_queue`, which takes the first occurrence, takes the order (`TakesOut`).

**`ClientProofs`**, the silence timer: `SilentOnce`, `ParkedIsArmed` and `SilentIsTrue` for
every pair of positive thresholds.  The strengthening is `TimerSet`, where the timer
stands: before the warning at `last_seen + warn`, between warning and report at
`last_seen + dead`; that the errors since the last packet number one exactly when
`dead_link_pending` is set; and that with an empty socket nothing has come since
`last_seen`.

**`ClientProofs`**, the compressed client: `ExactWhileClean` and `NothingSkipped`, for
sessions of any length and packets of any size, any number of attempts and faults.
`StreamInv`: scratch buffer, packet under way and server follow on each other from
`expected` plus what was discarded; `SettledInv`: everything below that was handed out or
discarded; `CleanInv`: while nothing was discarded, the cursor counts what was handed out.

The assumptions are the named ones of the modules: naturals where the code has unsigned
integers, positive capacities where the constructors demand or enforce them, for the
receiver alone honest datagrams and repairs, which the session is proved to bring, and for
the session that the receiver does not ask for numbers before the publisher's first one
and that the sequence numbers do not run out (`SessionAssumption`; `SeqMax` stands for
2^64 - 1).

Only model-checked: liveness, which rests on fairness; `NoHole` of the TCP server, which
needs what a database still holds of the order of its numbers while keys expire; the
codecs (`Faithful`, `BufferBounded`), recursive functions on sequences of bytes, whose
decoders are checked against every kind of frame and every cut, and not for every sequence
of bytes; and `BooksAgree` and `BarsAreTape`, which are sums over the orders of a level
and over the trades of a symbol: what a fold over a set or a sequence comes to when one
element changes needs an induction over data that the prover does not have.

## What is not modelled

* Heartbeats of SoupBinTCP (`itch-soup/src/heartbeat.rs`): a timer that nothing in the
  workspace uses.
* SoupBinTCP's unsequenced data (a bounded inbox that drops), debug packets and the logout
  of a client: they touch neither numbers nor store.  A logout ends a connection as a
  closed socket does.  Payloads that do not decode are modelled in `CompressedClient` only.
* Several SoupBinTCP subscribers at once: they share the store and the broadcast, which
  they only read, each at its own position.  A SoupBinTCP server restarted over a filled
  store: its ring buffer lives in the process.  (`TcpServer` models a restart.)
* `ChannelSource`, which is tokio's channel seen as a stream; `Tee`, which
  copies a stream into a broadcast channel nobody in the workspace reads; the placeholder
  `MergeByTimestamp`; synthetic sources and test helpers.
* In the books the directory, `last_seq` and the attributions, on which no book depends.
* The drivers of the conformance crate, which run the code that the other modules model;
  sockets, options and addresses; zstd, the databases and Kafka themselves; connecting and
  configuration; binaries and re-exports.
