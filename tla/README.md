# Velox: TLA+ specifications and proofs

Velox is a limit order matching engine. A gateway (or the line-driven runner `velox_live`) takes
orders, a sequencer numbers each command and writes it to a journal, a ring carries it to the one
matching thread of its shard, the order book executes it, and a second ring carries what happened
to the execution-report router and to the market data publisher. Snapshots and a recovery manager
bring the book back after a stop; an audit daemon follows the journal into Postgres.

This directory specifies those parts in TLA+, model-checks them with TLC on small instances, and
proves the central ones with TLAPS for every value of their constants. `PROJECT.json` lists the
components, the runs, the source lines each definition stands for, the hazards and the theorems.

## Inventory

| Part of the system | Source | Module |
|---|---|---|
| Order book: submit, cancel, replace, matching, self-trade prevention | `engine/` | `OrderBook`, `PriceTime`, `BookRefinement` |
| Price level index: slots, best price, two-level occupancy bitset | `book/level_map.hpp` | `LevelMap`, `BookIndexes`; as a set in `OrderBook` |
| Order id map: linear probing, backward-shift deletion | `book/order_id_map.hpp` | `OrderIdMap`, `BookIndexes`; as a function in `OrderBook` |
| Object pool | `common/object_pool.hpp` | `OrderBook` |
| Inbound ring, blocking producer | `ipc/spsc_ring.hpp`, `ipc/blocking_producer.hpp` | `SpscRing`, `Channel` |
| Outbound ring | `ipc/multicast_ring.hpp` | `MulticastRing` |
| Sequencer, journal writer and reader | `sequencer/` | `Durability`; beside a live writer, `Tailer` |
| Snapshot thread, writer, reader | `sequencer/snapshot_*.hpp` | `Durability`; collection and restore in `OrderBook` |
| Recovery | `recovery/`, `runtime/shard.hpp` | `Durability`, `OrderBook` |
| Matching thread | `runtime/matching_thread.hpp` | `Engine` (the events of a command), `MarketData`, `Gateway`; its loops also in `Durability` and `MulticastRing` |
| Journal tailer, audit daemon | `sequencer/journal_tailer.hpp`, `audit/`, `apps/velox_auditd.cpp` | `Tailer`, `Audit` |
| Gateway sessions, routes, router | `gateway/`, `apps/velox_gateway.cpp` | `Gateway`; what a durability failure does to the journal in `Durability` |
| Order entry protocol, framing of the feed | `protocol/`, `marketdata/feed_decoder.cpp` | `Decoder`; in whole frames, `Gateway` and `MarketData` |
| Market data: mirror, publisher, feed server | `marketdata/` | `BookMirror`, `MarketData` |
| Visualizer: feed client and ladder | `viz/md_client.hpp`, `viz/ladder.hpp` | `MarketData`; its decoder, `Decoder` |
| Admin service, browser page, telemetry, benchmarks, utilities | `admin/`, `viz/`, `telemetry/`, `benchmark/`, `common/` | not modelled, see the end |

## Modules

**`OrderBook`** is one `OrderBook` object and its caller. `pool`/`free` are the object pool,
`idMap` the id map, `queue` the intrusive lists of the price levels, `totalQty` their aggregates,
`occupied` the bitset as a set, `best` the tracked best prices, `seq` and `nextTradeId` the
counters. A call is several steps: `Submit`, `Cancel` and `Replace` validate in the code's order;
`Trade`, `SelfTrade` and `SkipEmptyLevel` are one turn each of the loop of `matchInto`;
`RestResidual`, `PoolExhausted`, `DropResidual` and `FullyFilled` are the ways a submission ends;
`Return` hands the result to the caller. `Restart`, `RestoreResting` and `RestoreCounters` take a
snapshot of the book, forget the book, and put the orders back one at a time as
`RecoveryManager::recover` does. The invariants therefore hold in the middle of a match and in
the middle of a restore, not only between calls. Prices need not be multiples of the tick, as in
the code.

**`PriceTime`** is what the engine promises: a set of resting orders, of which an arrival always
takes the best-priced and, among these, the earliest; there are no levels, queues, ids or nodes.
**`BookRefinement`** shows that `OrderBook` implements it (`RefinesPriceTime`), restarts included:
the orders in the pool are the abstract book, and during a restore what is back together with what
is still to come (`RestingOrders`).

**`LevelMap`**, **`OrderIdMap`** are the two indexes with their real representation: words with
masks and shifts modulo the word size, and a table with probing and shifting. **`BookIndexes`**
composes them as the book does: an order enters both and leaves both, found by its id. The hash
is a variable chosen freely at the start, so one run covers every collision pattern over the
chosen home slots.

**`SpscRing`** is the inbound ring with its two threads. Every load of the other thread's cursor
is a step and may return any value that cursor had since the last one seen, which is what
acquire/release promises; slot accesses are steps of their own. **`Channel`** is the bounded FIFO
it implements.

**`MulticastRing`** is the outbound ring with a gating consumer (the router, `tryPeek`) and a
non-gating one (the publisher, `tryPeekChecked`). An event is several words copied one by one, so
a copy can meet an overwrite half way. `LoadsReorder` says whether the machine may perform the
validating load of the head before the copy is finished.

**`Durability`** is one shard's storage: `Sequencer`, `JournalWriter`, `SnapshotThread`,
`SnapshotWriter`, `JournalReader`, `SnapshotReader`, `RecoveryManager`. A book is represented by
the sequence of commands it executed. Each file remembers how much of it is flushed: a kill
leaves the page cache, a power loss keeps any prefix of what was not flushed, perhaps with a torn
record. Each system call of `append` is a step, so a fault can come between any two, and the
snapshot thread runs in between. `setting` chooses the deployment (`velox_live` or the gateway,
the fsync group) and the faults considered. `Resume` is a `resumeFrom` that succeeds; `ResumeFails` is
one whose `open`, `ftruncate` or, after the cut, `lseek` fails, a result that neither caller looks at.
When the torn record was not cut off, the next recovery stops at it again and takes what was written
behind it for lost; the history variable `doubt` is the number of the first such record, and the
properties speak of what is before it.

**`Engine`** is the same matching engine as a function from a book and a command to the next book,
together with the events `MatchingThread::dispatch` publishes for the command, in order. A book is
the set of its resting orders and prices are multiples of the tick. **`BookMirror`** is the
publisher's copy of the book, deques per price and an index by id, with its blind inserts and
erases. **`MarketData`** composes them as `velox_gateway` does: sequencer, matching thread,
outbound ring, publisher thread, feed server, client and ladder each take their own steps; the
publisher can be lapped, a client's queue can overflow, clients reconnect. A snapshot for a lapped
publisher or a new subscriber is read from the journal, which runs ahead of the ring.

**`Gateway`** is one shard's order gateway. The io thread runs one handler at a time: `OnRead` feeds
a chunk to the decoder; `HandleLogin`, `NotAuthenticated`, `WrongSeq`, `HandleOrder`, `Heartbeat`
and `Malformed` are the branches of `processDecoded`; `SubmitOrPend` and `RetryPending` are the
three outcomes of `trySubmit`; `RunPost` runs what the router posted. The matching thread
(`Dispatch`, `PublishOutbound`, `Consume`) and the router (`RouteOne`, `Drained`) step in between,
so a route can change between any two of them. Timers and socket errors close a session whenever
the io thread is idle. The engine is abstract: a command has any of the outcomes the matching
thread has events for. `replies`, `trades`, `journal` and `loginSeq` record history for the
properties.

**`Tailer`** is a `JournalTailer`, and the `JournalReader` inside it, over the segment files of a
shard whose `JournalWriter` goes on. A header counts one byte, a record two, and a record whose
`write()` is only partly visible one, so the comparisons of sizes and offsets are the code's.
`CreateSegment`, `WriteHeader`, `BeginRecord` and `EndRecord` are the system calls of `append`;
`WriterEnds` ends the process between two records, in a record or in a roll, and `WriterRecovers`
continues a torn last segment (`Resumes`) or leaves the writer as constructed, after a clean end or a
failing `resumeFrom` (`StartsOver`). Two history variables say what can go wrong: `reused`, a segment
was created under a creation number already in use; `missed`, a tailer was constructed while the very
first segment had no header.
`next()` is several steps: `Next1Reseek` (`rescan`), `Next2Seek` (`seekTo`) or `Next1Refresh`, then
`OpenNext`, `EndOfSegment`, `EndOfJournal`, `TornRecord` and `ReadRecord`; the writer steps in
between, so a size or a listing may be old when it is used. `Save` keeps a checkpoint, `Construct`
starts a tailer from one or from nothing.

**`Audit`** is one shard of `velox_auditd`: it drives a `Tailer`, replays each record into a shadow
book (`Engine`) and writes batches. `OnOk`, `OnNotYet` and `LeaveLoop` are the branches of `runShard`;
`WriteBatch` is a transaction taking effect, rows, participants, instrument and checkpoint at once,
`FlushDone` and `ReplyLost` its answer arriving or not, `FlushGivesUp` a stop during a retry. A
transaction that fails before it takes effect changes nothing and is tried again, so it is no step.
Signals, kills, and a database that cannot be reached at the start are faults. Every step is written
as a step of `Tailer` together with the daemon's own state, or leaves the variables of `Tailer`
unchanged, so what is proved of `Tailer` holds of the daemon.

**`Decoder`** is a byte stream: `Encode` writes frames with the code's length prefix, type codes and
sizes; `Read` takes any number of the bytes under way, up to the reader's chunk, and feeds them to
the buffer of 256; `Incomplete`, `Invalid` and `Ok` are the results of `next()` with every check in
the code's order. The reader is a gateway session, which may stop after a command and be resumed
(`Resume`), or the visualizer's feed client, which reconnects with a new decoder (`Connect`). Only
the payload is abstract: its bytes are the number of the message, so bytes of two messages mixed
up are noticed.

**`MCOrderBook`**, **`MCDurability`**, **`MCMarketData`**, **`MCGateway`**, **`MCAudit`** and
**`MCDecoder`** hold the arrivals, commands, deployments, client scripts, journals and streams of the
runs; they define no behaviour. **`OrderBookLemmas`**, **`OrderBookProofs`**, **`OrderBookAmounts`**,
**`BookRefinementProofs`**, **`SpscRingProofs`**, **`MulticastRingProofs`**, **`TailerProofs`** and
**`DecoderProofs`** hold the proofs.

A definition whose comment starts with "Wrong:" is a plausible mistake in the definition that
follows it, kept to show that the properties notice it.

## Runs

| Run | Bounds | What it shows |
|---|---|---|
| `book` | 3 ids, 2 participants, 2 prices, 2 pool nodes, 3 arrivals, quantities 1–2, all types and policies | structures consistent at every step, no crossed book, limits respected, FOK all or nothing, quantities conserved, a restore always succeeds, price-time priority implemented |
| `spsc` | capacity 2, 5 values | no slot is touched by both threads, FIFO, a push completes, everything is delivered |
| `multicast` | capacity 2, 2 words, 5 events | no torn read, the router loses nothing and is never lapped, the publisher never stalls the producer |
| `durability` | 3 commands, 2 faults, 2 records per segment, ring of 1, 2 snapshots kept | no acknowledged command lost, journal gapless, snapshots faithful, book = journal, each up to a torn record that could not be cut off; requested snapshots written |
| `indexes` | words of 2 bits, 7 levels, 3 ids, table of 8 with homes 0, 6, 7 | searches exact, table as if erased ids had never been there, levels and table agree |
| `marketdata` | 2 prices, 2 ids, journal of 3 out of 8 commands, ring of 4, queue of 4 frames, 2 connections | while no resynchronisation has read ahead of the ring: mirror = book at every command boundary, announced level totals are the mirror's, a client's ladder ends as the book |
| `gateway` | 2 sessions, 8 client scripts, both rings of 2, chunks of 2 frames, buffer of 3, 1 failing append, 1 session lost | commands sequenced once and in order, no fill report lost or doubled, no session waits for ever |
| `audit` | 2 journals, of 4 and 3 commands, 2 records per segment, batches of 2, 1 end of the writer of any kind, 2 faults of the daemon or the database | a journal is called corrupt only for a reused number or a missed first segment, tables exact and each command once, trades those of the live book, every record arrives but for the same two causes |
| `decoder` | real sizes; 9 session streams of up to 9 messages, 3 feed streams, chunks of every size, any number of stops, 2 connections | messages whole, once, in order, the buffer overflows only for the two reasons given, everything arrives but what a stopped session left behind |
| `v_replace` | as `book` | finding 1 below |
| `v_md_restart` | as `marketdata`, starting from a journal of 1 | finding 2 |
| `v_kill` | as `durability` | finding 3 |

The configurations `DurabilityIoError`, `GatewayBuffer`, `AuditRestart` and `DecoderFeed` are not
runs; they show the deviations 4 to 7 below, with the same modules and other constants. The type
invariant of the book and the cursors and contents of the inbound ring are proved, not run.

Why the bounds suffice for the cases of interest. Two pool nodes and three arrivals exhaust the
pool, fill across two levels, put two orders in one queue and reuse ids through replaces. In
`marketdata` the commands include a partial fill, a market order
larger than the book, a self-trade, and replaces as a session sends them, under the same id and with
the default side, at the same price, at another one and for another participant;
one command makes up to four events, so a ring of 4 laps an idle publisher, and a queue of 4
frames overflows in the snapshot as well as in the stream. Capacity 2 with 5 events laps a ring twice. Words of 2 bits with 7
levels give four level words, the last partly used, and two summary words, so every boundary case
of the searches is met; homes 6, 7 and 0 make probe chains wrap around the end of the table. Three commands
at two records per segment roll a segment; two faults allow a fault during or after the recovery
from another; orderly stops and recoveries are not bounded. Ids and participants are symmetric:
nothing compares them except for equality. In `gateway` four commands of one session fill the
inbound ring, wait, and leave frames behind them in the decoder; a command makes up to three
events, more than the outbound ring holds, so matching waits for the router. The decoder takes two
chunks less a frame: as with 128 bytes and 256 bytes in the code, it can overflow only when a
session has had to wait twice.

In `audit` three or four records at two per segment roll once; the writer's process ends anywhere,
and its successor resumes, fails to, or starts a segment under number 0; one journal has an order that
fills two others in one sweep, the other a trade with a replaced order. (With two ends of the writer
and the second journal one command longer the four properties also hold, on 3.9 million states; that
takes longer than a run should.) Two faults allow a lost answer followed by a kill, or a stop during a
retry. In `decoder` nothing is scaled down: the longest session stream overflows the buffer of a session
that is stopped twice and meets a full read, and the longest feed stream that of a client that gets it
in one piece. The refused messages are a wrong field of each kind, a wrong length, an unknown type and
a length above the limit.

Deadlock is checked where the system never stops; only the market data, gateway and
decoder configurations say `CHECK_DEADLOCK FALSE`: all that peers send may have been dealt with,
and a closed connection is finished. Elsewhere a bounded
behaviour always has a step left: calls that are rejected or cancel in
the book, a restart in the durability model, idle turns of the rings' consumers once all has been
sent.

Fairness. The ring threads are spinning loops on threads of their own: their steps are weakly
fair, and a load repeated forever eventually returns the current value. In `MulticastRing` only
gating consumers are fair; the publisher may stop at any point, since it must not be able to
stall the producer. The snapshot thread is a spinning loop and weakly fair; nothing else in
`Durability` is, so no property relies on clients sending or on faults ending. `MarketData` states
no fairness: its properties speak of states in which everything under way has arrived. In `Gateway`
the io thread's own work, the matching thread and the router are weakly fair, being loops that
never block on one another for good; clients, timers and sockets are not. `PendingResolved` needs
two slots in the inbound ring: the last events of a command are drained before its own slot is
given back, so the retry they cause may come too early, and the next command's events cause
another.

In `Audit` the daemon's thread is weakly fair while it runs: a loop with sleeps and retries. The
writer is not, so a record may stay half written for ever, nor are faults or restarts. In `Decoder`
the reader is weakly fair while bytes or frames are waiting: asynchronous reads complete, and a
full ring drains (`PendingResolved`). Both fairness conditions are written out with their enabling
conditions (`DaemonFairness`, `Busy`), which TLC evaluates much faster than `ENABLED`.

## Findings

Each is a place where a comment of the repository states one thing and the run shows the code
doing another; `PROJECT.json` quotes the lines.

1. `replace()` may cancel the old order and then report a rejection of the new one.
2. The publisher of a restarted gateway starts with an empty mirror, so clients are sent level
   totals that leave out the recovered orders.
3. After a clean end of the journal recovery does not resume the last segment, so a record left
   unflushed by a kill is never flushed; a later power loss removes it and what is behind it.

Four more of the same kind, shown by configurations that are not runs:

4. The gateway goes on after a durability failure, reusing the number of the failed append
   (`gateway/session.cpp:274`), where `sequencer/sequencer.hpp:36` asks for "a hard stop"; a later
   recovery stops at the repeated or torn record (`NoAckLost`, `DurabilityIoError.cfg` with
   `MCDurability`).
5. A session resumed after a full ring reads on from the socket and leaves the frames already in
   its reassembly buffer until more bytes arrive (`gateway/session.cpp:371`), where
   `gateway/session.hpp:82` says "no order is ever dropped waiting for space" (`NothingLeftBehind`,
   `GatewayBuffer.cfg` with `MCGateway`).
6. After a clean end, recovery leaves the writer's creation counter at 0
   (`sequencer/journal_writer.hpp:135`), so two segments have the same creation number and `seekTo`
   reopens the older one at the newer one's offset; the tailer then reports `Corrupt`, where
   `sequencer/journal_tailer.hpp:10` says "that can never legitimately happen against a live writer"
   (`AlwaysTrusted`, `AuditRestart.cfg` with `MCAudit`).
7. The feed client reads up to 4096 bytes (`viz/md_client.hpp:176`) into a decoder of 256, so a
   snapshot of four orders that arrives in one piece is refused, and again after reconnecting, where
   `protocol/decoder.hpp:94` says of the same buffer "in valid protocol use this cannot happen"
   (`NeverOverflows`, `DecoderFeed.cfg` with `MCDecoder`).

Nine more places are left out of what the passing runs promise, by a condition each states.

- With a tick above one, prices between ticks share a level, and an arrival can trade past its
  limit (`LimitRespected` with `Tick = 2` and prices 1 to 4). The runs have tick 1.
- `tryPeekChecked` relies on an acquire load staying behind the copy it validates, which the
  memory model of C++ does not give and arm64 does not do (`NoTornRead` with `LoadsReorder = TRUE`).
- With group commit, a snapshot can be newer than the flushed journal; after a power loss the next
  recovery takes the gap for corruption. `durability` considers group commit against kills only.
- `Shard::recoverAndStart` and `velox_live` ignore the result of `resumeFrom`. If the torn record is
  still there, new commands go to a segment behind it, are acknowledged, and are lost to the next
  recovery, which stops at that record (`doubt` in `Durability`).
- `Publisher::resync` rebuilds the mirror from a journal that may be ahead of the ring, after
  which the events in between are applied a second time; the mirror then differs from the book, and
  the totals announced for a price from both (`exact` in `MarketData`).
- Routes are by order id: a second use of an id, by a duplicate or by another session, takes over
  the route of the first order, and a reject then removes it. `gateway` has clients that use an id
  for one order.
- An audit daemon that resumes from a checkpoint has an empty shadow book, so it misses trades
  against earlier orders and numbers trades from 1 again, which `ON CONFLICT DO NOTHING` then drops
  (`TradeRowsExact` with `FromScratch = {FALSE}`). `TradesExact` is about `--from-scratch`.
- A tailer constructed while the very first segment has no header yet lists it, passes over it and
  never comes back (`missed` in `Tailer`).
- A session stopped by a full ring twice before its buffer is drained may overflow it and be closed
  (`OverflowExplained`, the case of `backlog`).

## Proofs

### Order book

Everything below is for any price range, tick, pool size, set of ids and arrivals, and for every
sequence of calls, restarts and restores. The assumptions are the named ASSUMEs of `OrderBook`,
which every run evaluates.

*Structure.* `OrderBookProofs` proves `TypeOK`, `IndexConsistent` (pool, id map and queues describe
the same orders), `TimePriority` and `RestoreSucceeds`. The inductive invariant `IInv` (module
`OrderBookLemmas`) adds to these what the steps rely on: the state of a call in progress matches its
program counter (`CallInv`), no order carries a sequence number beyond the counter (`SeqBound`), and
during a restore the orders still to come are distinct, disjoint from those already back, in arrival
order, and fit in the pool (`TodoInv`). The argument follows the code: an order enters only by
`EnterBook`, with a fresh sequence number or the next of the snapshot, and leaves only by `LeaveBook`;
the lemmas about the two carry most of the proof, every action is then one lemma, and `NextInv`
combines them.

*Prices.* `BestIsReal`, `NotCrossed` and `LimitRespected` are proved for arrivals whose limits are
multiples of the tick (`TickAligned`). The condition is needed: prices between ticks share a level,
and the properties are then false (see above). The invariant `PriceInv` says that an occupancy bit
is set exactly when its level has an order, that the tracked best is a resting order's price that
none is better than, and what a restore in progress has put back was uncrossed in the snapshot. Its
hard step is an emptied level: `NextOccupied` finds the best of those that are left, because slots
are ordered like prices.

*Quantities.* `OrderBookAmounts` proves `LevelAggregates` (the total of a level is what its orders
have left), `ResultConserves` (what the trades of a call filled and what remains add up to its order)
and, on the grid, `FokAllOrNothing`. They are sums over sets that change in one place per step.
A sum is a fold, a recursive function on the subsets of a set: the lemmas `SumPutIn` and `SumChange`
(`OrderBookProofs`) say how it changes, and they are proved without an induction principle, by
looking at a smallest subset for which they would fail (`SmallestBad`). The invariants are
`AccountInv`, the trades so far of the call in progress against what is left of its order, and
`FokInv`: while a fill-or-kill order is being matched, what is left of it is covered by the orders
that it crosses and may take, defined by price and time alone (`CountedIn`). The walk of
`availableAgainst` over the levels counts exactly these, which is where the grid and the order of
the walk (`MetBefore`) come in.

*Refinement.* `BookRefinementProofs` proves on the grid that `OrderBook` implements `PriceTime`
(`ImplementsPriceTime`), one lemma per kind of step: a call accepts an arrival, a trade fills the one
order whose turn it is, a self-trade withdraws it, the rest of an order comes to rest or leaves,
cancel and replace withdraw an order, a restart and the restore behind it keep every order. That the
head of the best level is the order whose turn it is needs all of the invariants above, and that no
snapshot is left over outside a restore (`SnapshotInv`).

### Rings, journal, frames

`SpscRingProofs` proves `NoRace` and that the ring implements `Channel`, for any capacity and any
values. The invariant says where the cached cursors lie between the real ones and what the slots
between tail and head contain.

`MulticastRingProofs` proves, for any capacity, number of words, events and consumers, that a gating
consumer is never lapped (`GatingNeverLapped`) and copies whole events (`GatingReadsWhole`), and, on a
machine that keeps the validating load behind the copy (`~LoadsReorder`), that no consumer is given a
torn event (`NoTornRead`). The invariant says which event each word of a slot belongs to while the
producer is overwriting it, that the producer's cached minimum is never ahead of a gating cursor, and
that a word copied by a non-gating consumer is of the event it wanted unless the head has gone a
full turn past it, which the load of the head that comes after then shows.

`TailerProofs` proves `NeverCorrupt` for every set of journals, roll size, kind and number of restarts:
a tailer takes the journal for corrupt only once `reused` or `missed` is true, and both causes are real,
see above. Once true they stay so (`Remembered`); until then the invariant `IInv` holds, which has two
halves. `JournalInv`: the files hold the numbers 1 to `wseq`
without a gap, each starts where the one before ends, the creation number of a file is its place
in the order of names, only the newest file may lack its header or hold part of a record, and the
writer has that file open, or will start over with number 0 (`WriterInv`). In the latter case a number
is reused unless there is no file with a header yet (`StartsFresh`).
`TailerInv`: the reader's position, like the saved checkpoint, is just behind the record `lastGood`
in the file its creation number names; and a tailer that knows of a file behind the open one has
looked at the size of the latter since it was sealed, so that its end is the end. The first half
makes the file `seekTo` finds the right one; the second needs that `rescan` comes before `seekTo`,
in this order. A step of the writer keeps both because a sealed file no longer changes and the open
one only grows, but for the partial record that recovery cuts off, which no position has passed.
`WriterRecovers` is about journals that are not torn before their last file, which needs a reused
number first.

`DecoderProofs` proves `StreamIntact` for both readers, any catalogue (of at most 100 messages, whose
numbers are then bytes) whose lengths fit into the prefix, any streams of its messages, bad ones
included, any pieces, stops, losses and reconnections. `EncodedIs` says where the frames are in the
encoded stream: `Ends` gives the offsets, and each byte is that of a frame (`FlattenLayout`, about the
library's `FlattenSeq`; where it needs induction the proof takes the smallest counterexample). The
invariant `StreamInv`: what was handed over is the beginning of the stream and all of it is well
formed; while the connection is open, buffer and wire together are the rest of the bytes, from the
offset of the first message not handed over. So the four bytes at the front are that message's length
(`PutGet`: `getU32` undoes `putU32`), a length out of range or of another type than its frame's means
that the message is bad, and what `Decode` returns for a good one is the message (`DueInFront`).

It also proves `OverflowExplained`, for any catalogue, streams and number of stops. For a session the
invariant (`SessionRoom`) bounds the buffer at each point: after `Incomplete` it holds less than a frame,
at most 67 bytes; the read that follows completes the frame at its front with at least one of its
bytes, so at most 127 are behind that frame, and no more than these are left when the session stops.
With the next read of 128 they are 255 of 256. Only a second stop before the buffer is drained can leave
more. `Length` must be shown to stay what it is when bytes are added behind it (`LengthStays`). What a
feed client has in its buffer and what is under way is never more than its stream (`FeedRoom`).

Checked by TLC only: liveness; what recursive definitions compute (`OrderIdMap`, the bit searches of
`LevelMap`, `Engine`), and with them `MarketData` and the tables in `Audit`, whose engine is
recursive; `Durability` and `Gateway`.

## Plan

In this order:

1. Several shards in one gateway: routing, shutdown order, the participant table of the audit
   database, which its shards share.
2. Proofs: `BookIsJournal` and `InOrderOnce`.

## Not modelled

Wording, encodings and checksums: a record or frame is whole or torn, and checksums tell the two
apart. Latency measurement, benchmarks and the browser page have no effect on the engine. The
admin service is stateless request handling over a database. Integer widths: quantities and
cursors are natural numbers; cursors are 64-bit and only incremented, totals are not bounded by
the code. Whether a created file survives a power loss without a flush of its directory depends
on the file system; the model assumes it does once the file itself was flushed.
