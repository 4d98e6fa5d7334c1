# Flowlab: a TLA+ verification project

Flowlab ingests an exchange feed, rebuilds limit order books, detects market
anomalies, and serves telemetry; it also records, replays and cross-checks what it
did. This directory holds TLA+ models of the parts that carry its correctness,
TLC configurations that check them on small instances, and TLAPS proofs of the
results that should hold for every instance. `PROJECT.json` is the machine-readable
index: components, runs, mutants, the map from definitions to source lines,
hazards and theorems.

    tlc -workers 2 -config MCWal.cfg MCWal      # any run of PROJECT.json
    tlapm BookProofs.tla                        # any module named *Proofs

## 1. Inventory

Data flow, live: WebSocket (`ingest/`, Go) -> mmap ring -> Rust reader ->
ITCH decoding -> order books -> analytics and telemetry (`engine/`) -> API server
(`api/`, Go) -> dashboard. UDP multicast takes the MoldUDP64 path into the same
decoder; files are replayed through the same ring. The WAL and the snapshots make
runs repeatable; the cross-implementation gate compares the books by their L2 hash.

| Component | State | Operations | Interacts with | What is hard |
|---|---|---|---|---|
| ITCH decoding (`replay/src/itch.rs`, `core/src/event.rs`) | none | `dispatch`, `parse_*` | books | references to unknown orders, reference 0, unknown sides |
| Reference book (`core/src/orderbook.rs`) | order map, two price maps | add, cancel, modify, trade | hot book, through the gate | two redundant views of one set of orders |
| Hot book (`core/src/hot_book.rs`) | sorted level arrays of fixed capacity, order slab with free list and index | same, plus `apply_lanes` | reference book | unchecked slab reads, full sides, reordering of a batch into lanes |
| Cross-implementation gate (`bench/`) | the books' hashes | compare | all books | conversions that differ in corner cases |
| MoldUDP64 tracker (`replay/src/moldudp.rs`, `udp_source.rs`) | expected sequence, forward buffer, counters | `ingest`, `ingest_retransmit`, `open_gap` | UDP, rewinder, sink | loss, duplication, reordering, a full buffer, malformed frames |
| mmap SPSC ring (`ingest/mmap/`, `replay/src/ring_reader.rs`) | two indices, bytes | `Write`, `available`, `read` | two processes | stale indices, wrap, a crash of either side |
| Ingest (`ingest/feed/websocket.go`, `replay/src/file_source.rs`) | connection, done channel, batch | `Run`, `connect`, `readLoop`, `Stop`; `flush_batch` | ring | Stop against dial and read; full ring |
| WAL (`replay/src/wal.rs`) | segments, BufWriter, index, size | append, flush, sync, rotate, open, read | file system | torn writes, crashes inside rotate and recovery, failed I/O |
| Replay engine, log, snapshots (`replay/src/engine.rs`, `log.rs`, `snapshot.rs`, `core/src/state.rs`) | sequence number, book, snapshot files | process, seek, save, load | WAL, books | gap halt, snapshot atomicity |
| Circuit breaker (`flow/src/circuit_breaker.rs`) | latch (flag and reason), counters, positions, cash, bucket, gap log | check, record_fill, record_gap, halt, reset, start_of_day, snapshot | trading threads, feed, operator, telemetry | every guard a lock of its own, no reservation |
| Flow analytics (`flow/src/`) | floating-point windows | per event update | engine | numeric only |
| Chaos detection (`chaos/src/`) | seven detectors, each with a small book, windows and a refractory; clusterer | `process` per event, `cluster` | engine | caches patched in O(1), windows that outlive a flag, caps |
| Storm generation (`chaos/src/generators.rs`, `storm.rs`) | a generator, a deadline, a sequence number | `start`, `poll`, `stop` | detectors | thresholds of another module, restarts in the middle of a poll |
| Telemetry engine (`engine/src/engine.rs`, `main.rs`) | tracked instrument, trade counts, book, sequence number | run loop, auto-lock, re-arm, snapshot, resume | channel, disk | lock and re-arm, crash between the steps of a snapshot |
| Telemetry transport (`engine/src/backpressure.rs`, `server.rs`, `api/server/engine_client.go`) | bounded channel, drop counter, one client, the published view | `try_send`, `serve`, `runOnce`, `dispatchJSON` | engine, API | drops, a client that goes and comes back, frames lost in between |
| API server (`api/server/`) | storm controller, recorder, synthetic feed | HTTP handlers, stream | dashboard, engine, bot | several critical sections for one answer, expiry, a silent bot |
| Zig parser, C++ hot path, dashboard, benches | - | - | - | see section 8 |

What makes each modelled part correct:

* books: the levels are the exact aggregate of the orders; both books publish the
  same L2; lanes end where the serial loop ends;
* tracker: the sink sees 1, 2, 3, ... ; every gap is reported exactly, and closes once
  retransmits are answered;
* ring and ingest: no race, every published byte read once, in order; whole messages
  from the live feed; `Stop` returns with every connection closed and no write under way;
* WAL: what was synced is replayed first and in order after any crash; a crash takes
  records from the end only; the reader never skips; recovery drops nothing readable
  (section 5 says after which failures the code does not keep these);
* breaker: bounded overshoot under concurrency; nothing that starts after a trip is
  allowed; a reported halt has a reason;
* detectors: the cached prices, depths and counters are those of the events in the
  window; one event is not reported twice; the caps hold;
* storms: a generator trips its own detector, whatever it draws; sequence numbers
  increase through restarts; a storm does not outlive its deadline;
* engine and transport: a frame that does not arrive is counted, or a connection broke;
  the view goes forward only; a book holds one instrument; a resume starts from a
  whole snapshot;
* API: an answer shows the state, unless it changed under the request; records and
  artefacts agree with the storms; every request is answered.

`PROJECT.json` lists the hazards behind these properties with their source lines.

## 2. Modules

| Module | Models | State | Composes |
|---|---|---|---|
| `ItchEvents` | event types, message to event translation | - | - |
| `OrderBook` | `OrderBook` (reference) | `book`: orders and levels per side | `ItchEvents` |
| `OrderMap` | abstract specification: a map from ids to metadata | `map` | - |
| `OrderSlab` | `OrderSlab` of the hot book | `slab`: data, free list, index | refines `OrderMap` |
| `HotOrderBook` | `HotOrderBook<MAX_LEVELS>` | `hot`: sorted arrays and slab | `ItchEvents`, `OrderSlab` operators |
| `CrossImpl` | the gate | both books | `OrderBook`, `HotOrderBook` |
| `HotLanes` | `apply_lanes` | a book, a batch, the lanes' result | `HotOrderBook` |
| `GapTracker` | frame iterator, tracker and UDP handler | expected, buffer, frame, loop position | - |
| `SpscRing` | the ring protocol | indices, bytes, both sides' locals | - |
| `Ingest` | the two producers, Stop, crashes | flush, feed, stop | `SpscRing` |
| `Wal` | writer, recovery, reader | files, what of them is durable, buffer, loop position | - |
| `CircuitBreaker` | the breaker and the threads that use it | latch, totals, each thread's place | - |
| `MiniBook` | the price ladders the detectors keep, and their flags | - | - |
| `FlashCrash`, `MomentumIgnition`, `LatencyArbProxy`, `CancellationStorm` | one detector each | the detector's fields | `MiniBook` |
| `OrderPatterns` | quote stuffing, spoofing and phantom liquidity | the three detectors' fields | `MiniBook` |
| `ChaosChain` | the chain and the clusterer | counts and log of flags | the detectors |
| `ChaosFeed` | the chain under any order flow | live orders, ghosts | `ChaosChain` |
| `StormGenerators` | the seven generators | - (a generator is a value) | `MiniBook` |
| `StormOrchestrator` | start, poll, stop in a closed loop with the chain | generator, deadline, queue | `StormGenerators`, `ChaosChain` |
| `StormController` | `storm.go` | active, spec, times, mutex | - |
| `Recorder` | `recorder.go` | the run, the files | `StormController` |
| `ApiServer` | handlers of `server.go`, `recorder.go`, `stream.go`, `feed.go` | where each request is | `Recorder` |
| `Telemetry` | channel, server, socket, client view | frames on their way, counter, view | - |
| `Engine` | the engine's loop, snapshots, restart and resume | lock, book, work of the event, files | `Telemetry` |
| `BookProofs` | proofs | | `OrderBook`, `OrderSlab` |
| `CrossImplProofs` | proofs | | `CrossImpl` with `HotOrderBook`, through an instance of `BookProofs` |
| `FeedProofs` | proofs | | `GapTracker`; `Ingest` with `SpscRing`; `Wal` |
| `ChaosProofs` | proofs | | `ChaosFeed` with the chain and the seven detectors |
| `CircuitBreakerProofs`, `EngineProofs`, `ApiServerProofs` | proofs | | the module they are named after |
| `Sums` | lemmas on sums over finite sets and on induction | | the proofs of the books, the breaker, the detectors and the feed |
| `MC*` | constants for TLC | | `MCWal`, `MCCircuitBreaker`, `MCChaosFeed`, `MCStorms` and `MCApiServer` define constants that a configuration cannot write; the other modules are run as they are |

How state and actions correspond to the code:

* **Books.** One action per event type. An event comes from `Dispatch`, so only events
  the decoder can produce reach a book, stale references and over-fills included. The two
  books part on a side that is neither bid nor ask (`orderbook.rs:63` refuses it,
  `hot_book.rs:518` takes it for an ask); no source produces one, and none is fed. The
  `Modified` action covers `OrderModify`, which the generators produce and ITCH does
  not. Prices and quantities are small naturals and keep the code's saturating
  subtractions; read-only queries and prefetch are left out.
* **Hot book.** Level arrays are sequences, best price first, with
  `partition_point`, insertion and removal as in the code, and a capacity of
  `MAX_LEVELS`; an add that finds its side full is refused as the code refuses it.
* **Tracker.** `ingest` is one call of one thread; its loops are steps, and `pc` names
  the running loop, so that a loop that does not end is visible. Any frame may arrive
  at any moment, repeatedly, or never; a frame may be shorter than it says.
* **Ring.** Each load, copy and store of either side is a step. A byte is its position
  in the stream.
* **Ingest.** `Stop` takes the connection out of `conn` (`StopSwap`), closes it (`StopCloseConn`)
  and waits. In between, `Run` may end while that connection is still open; `StopIsClean`
  says that this is the only one, and that none is open once `Stop` has returned.
* **WAL.** A file is a sequence of cells, three per record (length, CRC, payload: the
  three `write_all` calls), and a payload has a length (`PayloadBytes`), by which `append`
  rotates. A crash may come between any two steps; it loses the buffer and any suffix of
  unsynced cells and may leave zeroes there. Every I/O call may fail, with the code's
  state at that point: after a failed `sync_dir` the next segment exists, and the old one
  takes the records that still fit. `stranded` remembers that a crash met such records
  unsynced; from then on nobody syncs or recovers that segment (section 5).
* **Breaker.** Each critical section or atomic access is a step. A sender stands for one
  order in flight. Elapsed time is a nondeterministic refill and expiry. The
  configuration (which guards are not `None`) is chosen in the initial state.
* **Detectors.** A detector's `process` is one operator on its state; the chain applies all
  seven to an event in one action. Ratios and sigma tests are multiplied out to
  integers; the baseline of the cancellation storm is kept in fixed point
  (`StormScale`). Severity scores are left out: nothing reads them.
* **Storms.** The generators keep the code's prices, quantities and pauses. Their random
  numbers are a short sequence of outcomes; a severity is one end of its range, where
  the interpolation is exact. `poll` is one action, its up to `MaxSteps` generator steps and
  the restart of an exhausted generator included.
* **API.** Each request is a goroutine; each critical section is a step, except that the
  calls of the recorder hold its mutex from beginning to end. The encoder reads the two
  times of a snapshot through their pointers after the unlock, one step each. A
  request blocked at its first lock has not yet arrived, which hides nothing: it has
  neither read nor written. Both writes of an event line may fail or be short, their errors
  being ignored; `lost` holds the events that are not legible afterwards, the neighbours
  of a lost newline included, and `run.yaml` may be missing or cut short.
* **Engine and transport.** An event is a step, and each of its frames and each system call of
  a snapshot is a step of its own (`outbox`), so that the server, the client, a kill or a
  power loss can come between any two. Which periodic publications are due is free.
  A frame carries what the view depends on; a header has an instrument and, if the source
  has met its Stock Directory record (`names`, `Harvest`), a name, which the client stores
  under two conditions. A client may break, which the server notices only at a write, and
  the writes before that go into the void; one that breaks before it was accepted stays in
  the backlog (`dead`) and is served like any other. Every step of a snapshot may fail, and
  a power loss may tear the file or undo the last rename (`former`).

Definitions named "Faulty variant" model a plausible bug each; nothing uses them but
the mutants of `PROJECT.json`, which show that each property notices.

## 3. Runs

A run's properties are conjunctions of named parts, each part with its own comment in
the module; most parts have a mutant of their own.

| Run | Shows |
|---|---|
| `reference_book` | through adds, deletes, partial cancels, over-fills, stale references and non-reducing modifies, count and quantity of each level are those of the resting orders |
| `order_slab` | slots in bounds, never shared, never leaked; the slab implements a map |
| `cross_impl` | both books in lockstep: same L2 and same orders until an add is refused (`BooksAgree`); the arrays stay sorted and the exact aggregate of the slab, refused adds included (`GridSound`) |
| `lanes` | every batch of up to three conformant events, from every reachable book, ends as the serial loop does |
| `gap_tracker` | delivery in order, nothing stranded, exact gaps, and gaps close, which takes that whole frames are worked off |
| `ingest_ring` | `RingSound` (in bounds, no race, FIFO), whole messages (live feed), clean and terminating `Stop`, `RingProgress` (replay batches completed, everything published is read) |
| `wal_recovery` | `SyncedSurvive`, `CrashLosesTail` (both until an append is torn or a crash strands records), `ReaderSound` (records only, in order, no gap), `RecoveryKeepsRecords` under crashes and I/O errors |
| `circuit_breaker` | `OvershootBounded` (position, loss, order-to-trade ratio); `LateAllowOnce`; `HaltExplained` |
| `chaos_detectors` | every order flow of seven events: `CachesExact` (best prices, band depth and cancel counter are the window's, caps hold), `RunDirected` (a momentum run points one way), `FlagsEarned` (ignition, crash and storm flags a cooldown apart; one flag per print, none for a print within the proxy's cooldown; no phantom after a trade that carries its price), `EpisodesPure` (an episode holds kinds that may merge), `BaselinePaused` (the baseline does not learn the storm) |
| `chaos_storms` | seven kinds, both severities, through restarts and expiry: each storm (but the cancellation storm, a matter of thousands of events) is flagged by its own detector, sequence numbers increase (`StormSound`), no storm outlives its deadline (`StormOnTime`) |
| `api_control` | four requests on two goroutines: `AnswersEarned` (an answer shows the state unless it changed under the request), `RecordsFollowStorms`, `ArtefactsAgree` (event files are complete runs, manifests match them, verdicts follow from the equities), `RequestsAnswered` |
| `engine_session` | engines one after the other: `FramesAccounted` (what does not arrive is counted), `ViewConsistent` (tape in order; while nothing was lost or shed before it, the tick's id and, if the header gave one, its name), `OneInstrument` (the book, and the lock of `--symbol`), `SnapshotSound` (whole files, torn ones refused, number and book from one file) |

### Bounds

* Books: three orders meet in one level, in two levels, and across two sides; the
  third one makes order counts differ from 0 and 1. `MAX_LEVELS` = 2 with three prices
  fills a side.
* Slab: four ids give every order of reuse from the free list.
* Lanes: three events are the shortest batch in which an add, a cancel and another add
  of one level meet.
* Tracker: a buffer of two and six messages let it overflow, drain and open a second
  gap; frames of three cover a frame that begins before the expected number and ends
  after it.
* Ring: batches larger than the ring, a wrap inside a copy, a ring that is full and one
  that is empty; one crash of either process at any step.
* WAL: records of three sizes, such that the second does not fit beside the first and the
  third does, so that a writer left behind by a failed rotation goes on; a buffer smaller than a
  record, so that records are torn between buffer and file; two crashes, so that the
  result of a recovery is crashed again; one I/O error at any call.
* Breaker: two senders and four orders, the fewest with which a missing position or
  loss guard exceeds its bound; orders of size one, so fills are whole (sizes 2 and -1
  with a cap of 2, which fill in parts, give the same result on five million states);
  one operator call besides what the guards and the feed trip, which meets a latch
  between the two statements of `reset`.
* Detectors: six orders, two of which share a level and two of which step in front of it, which
  makes one bid level more than `CrashMaxLevels`, so that `prune_levels` evicts; windows of two to four events, so that eviction, refractory and a second
  flag happen within seven events. Every kind of flag is raised. A cooldown longer than
  its window keeps the flag's own window from satisfying `FlagsSpaced` by accident.
* Storms: the thresholds are those of `default_itch`; only the cancellation storm is scaled
  down, generator and detector together (4 for 128 events a step). Two storms, so that
  the second meets the detectors as the first left them. `StormSound` holds at the base price
  of the instance, 100000, which the tests of `storm.rs` use: the flash crash falls back to a
  level 200 ticks away, which moves the mid by half of that, just enough there for
  `CrashMinGapBps` and too little at a higher price.
* API: two goroutines are enough for every pair of handlers; four requests are a start, a
  stop and two that come between. A word of four bits makes a duration wrap, a second
  of two ticks lets two runs share a directory. An equity of -100, with a bot that may be
  silent at either end, gives deltas on and above the thresholds of a verdict. One directory
  may lose a newline (`MCBadWrites`, `MaxDamaged`); with all failing writes, equities of 100 and
  -10 and the goroutines as a symmetry set, the three invariants hold as well (1.2 million
  states).
* Engine: two set-ups, one with a client and without snapshots, one the other way round;
  the two do not touch each other in the code except through the order of the work of
  an event. Four frames over all engines and three events of one (`MaxSent`, `MaxSeq`) are a
  header, a lock and a tick and the header of the next engine, or two prints, a broken
  connection and a reconnection; a channel of two overflows. One instrument of two has a
  name (`Named`), so that a header without one follows a header with one. A lock takes two trades, so that counts are cleared. Book and chaos frames pass like
  risk frames and are not due in this instance.

`CHECK_DEADLOCK FALSE` is used where the modelled system ends: a batch that was
applied, a feed that was stopped, a log or breaker that has used its bound.

### Fairness

* `GapTracker`: weak fairness of the handler's own steps, which is a loop on one
  thread; strong fairness of each retransmit, which stands for a rewinder that
  eventually answers what `open_gap` reports. The rewinder is external; `GapsClose` is a
  statement about the tracker given such a rewinder.
* `Ingest`: weak fairness of each process's own steps: the writer inside `Write`, the
  consumer's read loop, the spin of `flush_batch`, `Run` and `Stop`. Nothing is assumed of
  the peer, of dials, or of when `Stop` is called; crashes are never forced.
* `ApiServer`: weak fairness of the steps of a request that has arrived: the Go runtime
  schedules every goroutine, a released mutex goes to a waiter, and the call to the bot
  has a timeout. Nothing is assumed of clients or of the clock.
* No other run has a liveness property or assumes fairness.

## 4. Proofs

All proofs are checked by TLAPS for every value of the constants that satisfies the
named assumptions of the modules: finite sets where something is counted or summed (order
ids, senders, intents, prices of fills), positive capacities and bounds, a model value
outside the data. They say nothing more than the code's types and constants do, with one
exception: `WordAssumption` also says that `2^Bits` is a positive number, which follows
from `Bits` being one and which the provers cannot derive. A bot's equity is any integer
(`EquityAssumption`). The bounds that TLC needs
(`MaxRequests`, `MaxBytes`, `MaxCrashes`, ...) are arbitrary in the theorems, so they
hold for runs of any length. 32 of the properties that the runs check are stated by a theorem.

* `BookProofs`, reference book: `TypeCorrect`, `CountsCorrect`, `QtysCorrect`. The inductive invariant is the
  type together with the counts and the sums: a cancel decrements the count of the level
  its order names, and only the invariant says that this level exists and counts it.
  The lemmas say what adding, removing and resizing one order does to the set of orders
  at a level and to the sum of their quantities; each event is one of those, and
  `ModifyConsistent` covers a modify that does not reduce.
* `BookProofs`, slab: `IndexAlwaysSound`, `SlotsAlwaysAccounted`, `SlabRefinesMap`. None is
  inductive alone: that a popped slot is free of owners needs the free list to be
  sound, which needs that no slot is lost or listed twice. `Sound` is their conjunction
  with the type; the refinement reads the map through the index and uses `Sound` in
  every step.
* `CrossImplProofs`: `GridAlwaysSound`, `BooksAlwaysAgree`. `AsBook` reads a hot book as a
  reference book: the level at a price is the array's entry there, the orders are what the
  slab returns. Each hot operation is then the reference operation on `AsBook`, or a refusal
  that changes nothing, so the instance of `BookProofs` supplies the rest. `CrossInv` says
  that the arrays are sorted, within capacity and without empty levels, that the slab is
  `Sound`, that `AsBook(hot)` is `Consistent`, and that it *is* the reference book until an
  order is refused. Sorting makes the binary search find the level; consistency makes sure
  there is one to find. The L2 sequences agree because a set of prices has one order.
  Both theorems assume `Named`: no message carries reference 0. With it the two books do
  differ (section 5), so it cannot be dropped.
* `FeedProofs`, tracker: `TypeCorrect`, `InOrder`, `Bounded`, `Drained`, `GapExact`. `TrackerInv` adds `Ahead`:
  nothing buffered is behind the expected number, and outside the drain loop the expected
  one is not buffered. Without it the drain loop's test of the first buffered message
  would not find the next one. `GapExact` follows from it and from the first buffered
  message being the least, which exists because the buffer is a non-empty set of naturals.
* `FeedProofs`, ring: `RingIsSound`, `NoBatchIsPartial`, `StopLeavesNothing`. A copy takes several steps
  and works with indices read before it began, so `RingInv` says what each call still
  knows: the room the writer found is still there, since the other side only makes more
  of it; the bytes the reader found are still there; what was copied so far is what the
  stream says; and what is published and not yet read is in its slots. The slot arithmetic
  (two positions less than a capacity apart have different slots) is a group of lemmas.
  For the other two, the invariant says which call may be under way and which connection
  open at each point of `flush_batch`, `Run` and `Stop`, the one between its
  swap and its close included; a message of the feed is written by one `Write`, which publishes
  all of it or nothing.
* `FeedProofs`, log: `SyncedSurviveAlways`, `ReaderSoundAlways`, `CrashLosesTailAlways`, `RecoveryKeepsAlways`
  (the last two are action properties). A crash keeps any prefix of what was not synced, so none
  is inductive. `WalInv` says of an open log that every segment below the open one is *settled*
  (its cells are on the disk, and its entry too unless it is empty) unless a crash has stranded
  cells there, that segments above it are empty leftovers of failed rotations, and that the open one is settled before the next is created: only then may
  recovery look at the last segment alone. `StreamOK` says that the open segment and the buffer
  together hold whole records and then the cells of the record under way, which is why a failed
  flush loses nothing; `HeadsOK` that the length cells of all segments ascend, which survives torn
  appends, zeroes and crashes and gives the order; `SyncedOK` names a segment up to which everything
  is on the disk and begins with what was synced. The lemmas under it are about the scan: whole
  records in front of other cells are read first (`ScanAppend`), the cut at the valid length is
  whole and reads the same (`ScanCut`), a file that grows replays what it did (`ScanGrows`), a
  partial record is none (`PartScan`), zeroes add none (`ZeroesAddNothing`). What the recursive scan computes is proved by induction
  over a set of positions (`FromEnd`), as in `Sums`. `SyncedSurviveAlways`
  and `CrashLosesTailAlways` assume `FsyncEntry`, without which they fail (section 5); the other two
  do not.
* `EngineProofs`: `BookStaysOfOneInstrument`, `EveryFrameAccounted`, `ViewStaysConsistent`, `SnapshotsAreSound`.
  `EngineInv` ties the book to its label in memory, in the temporary file, in the final file
  in the one it replaced and in what was resumed, so that a resume brings back what the
  property needs; a rename always follows a complete write; `ResumedInv` says that number and
  book have left those of the snapshot together or not at all. `LinkInv` orders the frame numbers on the whole way
  (work of the event, channel, server, socket, view) and says for each frame how many
  precede it, which makes the count on display right; its `NameInv` says that a header which gave a
  name left a name and an id that fit. `SymbolInv` says what the client will
  show once it has read the frames that are still under way.
* `CircuitBreakerProofs`: `OvershootStaysBounded`, `AllowedLateOnce`, `HaltStaysExplained` (an action
  property). `BreakerInv` relates the totals to the quantities in flight by sums over the
  senders: each is within the largest intent, and a thread inside `check` has nothing at
  the venue. The order-to-trade bound is not inductive for the present threshold, because a
  fill raises it and a sender keeps the threshold it read: `CountBounded` says, for every
  threshold from the present one up, how many senders may still count under it.
* `ApiServerProofs`: `RecordsStayWithStorms`, `AnswersStayEarned`, `ArtefactsStayAgreed`. `Kept` types the state and says who
  holds the controller's mutex; `Followed` says what the last record of a run is unless a
  start is between the controller and the recorder; `Shown` says, for every place in a
  handler, how what it holds relates to the storm and the run as they are. `Archived` says of
  every event file how many runs are open at each line and where the run begins whose
  storms are being counted, so that the manifest, written from memory, matches the file as far as its lines are
  legible.
* `ChaosProofs`: `CachesAlwaysExact`, `RunAlwaysDirected`, `FlagsAlwaysEarned`, `BaselineAlwaysPaused` (an action
  property), all from the inductive invariant `FeedInv`. It has one part for each detector,
  and each part ends with a lemma on what one event does to that detector; `ProcessKeeps` puts
  the seven together. Why the properties are not inductive alone: the depth in the band follows
  an add by the added quantity only if the cached best prices are those of the book and the
  pruned level was not in it, and follows a removal only by what the level really held, so
  `Cached` says that book, orders and caches are well-formed and that a valid depth was taken
  with the best prices of both sides. The spoof list is pruned by sequence number, which bounds
  its length only because no two entries come from one event. A flag is a cooldown after the
  last of its kind because every flag of the log has armed `refractory_until` (`LogOK`), and a
  print is reported once because what was reported is not pending any more (`PrintsLogged`); no
  pending print of the proxy is from within its refractory. No trade has named the price of a
  phantom because a tracked level has no such print since it was created. The
  assumptions on the constants are those of the constructors: at least one book level
  (`debug_assert!(max_book_levels >= 1)`), at least one tracked level (with none, the detector would
  still track one, and `max_tracked` would be no cap), natural windows and cooldowns.
* `Sums`: lemmas on `SumFunctionOnSet` (one element added, removed or changed; equal and
  bounded summands). The recursive function behind it takes the elements in an order it
  chooses; the lemmas say that the order does not matter. The library's induction theorems
  take a formula as a parameter, which the installed provers cannot instantiate; `Sums` does
  induction over a *set* of numbers, or of subsets, instead.

The type invariants of the books, the slab and the tracker and `FreeListSound` are parts of
what is proved and are not repeated in the runs.

Only model-checked:

* liveness (`GapsClose`, `RingProgress`, `StopReturns`, `RequestsAnswered`, ...), which TLAPS
  does not reach;
* `EpisodesPure` of the clusterer, and `StormSound` and `StormOnTime` of the generators and the
  orchestrator: episodes are a fold over the sorted log, a poll is a fold over generator steps,
  and so is `LanesMatchSerial` (a batch is applied by a fold). An induction over a set of
  positions, as for the WAL's scan, would have to carry an invariant of the whole fold, a
  sort or seven generators included; that is not done.

## 5. Divergences without a run

Met while modelling, each visible in the model. The first nine have a formula to reproduce
them. In five of them the code does not do what its text says, and a property of a run had
to be stated more narrowly:

* `wal.rs:120` says of `sync` "Flush + fsync to disk. Use after every must-survive-crash boundary."
  When `sync_dir` fails in `rotate` (`wal.rs:137`) the next segment exists and the writer stays
  on the old one, where the next record goes if it fits; after a kill, `open_or_create`
  continues on the next segment. A `sync` that returns Ok does not reach that record, and a
  power loss removes it from the middle of the log. `PROPERTY SyncReachesDisk` in `MCWal.cfg`
  fails. `SyncedSurvive` and `CrashLosesTail` therefore end with the first crash that strands
  records in this way (`stranded`).
* `latency_arb_proxy.rs:552`: "Cooldown: two qualifying patterns back-to-back -> only first". The
  refractory only keeps new triggers from being seeded (`latency_arb_proxy.rs:156`), and one that
  is pending when a flag is raised flags within its cooldown. `INVARIANT ArbSpaced` in
  `MCChaosFeed.cfg` fails. What holds is `NoPrintInRefractory`, a part of `FlagsEarned`.
* `phantom_liquidity.rs:4-5`: "A level created by `OrderAdd`, never traded". An execution by
  reference has price 0, no level is found under it (`phantom_liquidity.rs:127`), and a level that
  traded is flagged with "zero trades". `INVARIANT PhantomNeverTraded` in `MCChaosFeed.cfg` fails.
  `PhantomUntraded` is stated for trades that carry their price.
* `api/README.md:94-95` has a delta of -10 under `TARGET_DAMAGED`; `recorder.go:300` reports it as
  intact. With an equity of -10 in `MCEquities`, `INVARIANT VerdictAsDocumented` in `MCApiServer.cfg`
  fails. `VerdictExplained` states the code's thresholds.
* `engine_client.go:202`: "Symbol returns (name, instrument_id) from the last Header seen." A
  header for an instrument whose Stock Directory record has not passed yet has no name, and
  the client keeps the old one beside the new id (`engine_client.go:323-328`). `INVARIANT
  PairOfLastHeader` in `MCEngine.cfg` fails. `SymbolMatchesTick` claims the name only if the header
  gave one.

Four more with a formula, and the rest:

* `orderbook.rs:132` says a modify is "Cancel + re-add with new qty/price"; `modify_order` hands the
  event to `cancel_order`, which reads a smaller quantity as a partial cancel, and the
  rest stays in the old level without an order (`hot_book.rs:202` does the same). With
  `SPECIFICATION FullSpec` in `MCOrderBook.cfg`, `QtysMatchOrders` fails.
* `docs/reference-vs-hot.md:15` says the books "must produce the same number when fed the same
  events"; a trade with reference 0 (`hot_book.rs:668`) takes quantity from the hot book and
  nothing from the reference book. With `a0` among the `OrderIds` of `MCCrossImpl.cfg`, `SameL2` fails.
* `hot_book.rs:269-271` promises the serial result for lanes, with "MODIFY references a live oid";
  the lanes drop the cancel half of a modify (`hot_book.rs:289`). With `AllowModify = TRUE` in
  `MCHotLanes.cfg`, `LanesMatchSerial` fails.
* `moldudp.rs:231` says "ignore malformed mid-stream"; the iterator reports a truncated body
  without advancing and `ingest` continues, so the loop never ends. `PROPERTY IngestReturns` in
  `MCGapTracker.cfg` fails.
* `hot_book.rs:269-271` promises that lanes equal the serial loop; on a full side they need
  not, because all adds run first. The `lanes` run therefore has room for every price.
* `README.md:512` calls forward-buffer overflow a deterministic halt; `moldudp.rs` counts it
  and goes on. The message is recovered by a retransmit (`GapsClose`).
* `README.md:511` says the producer blocks on a full ring and the reader never sees a
  partial batch; `websocket.go` drops the message, and `flush_batch` splits a batch at the
  free space although `file_source.rs:13` says only whole messages are published.
  `NoPartialBatch` is stated for the live feed, where it holds.
* `wal.rs:6-8`: an append that fails after its first `write_all` leaves a part of the record in
  the stream; later records of that segment are acknowledged and synced and never
  replayed, and the reader continues with the next segment without an error.
  `SyncedSurvive` covers what was synced before such a failure, `ReplayInOrder` holds
  throughout.
* `wal.rs`: open does not sync the directory when it finds a segment. A process killed
  between `create_new` and `sync_dir`, restarted, and a power loss then lose a synced
  segment, on a file system where `fsync` of a new file does not persist its entry: set
  `FsyncEntry = FALSE` in `MCWal.cfg` and `SyncedSurvive` fails.
* `circuit_breaker.rs:291-294`: a breaker that latches between the two stores of `reset` blocks
  every order while `is_halted` says it is not halted.
* `circuit_breaker.rs:164-167` says the fields of a snapshot are consistent; they are read one
  by one. Only `HaltExplained` holds between them.
* `ring.go:37`: an existing file opened with another size keeps its indices, and
  `size - (wi - ri)` underflows. Opening with an unchanged size is all that is modelled.

Chaos:

* `flash_crash.rs:7` calls the detector mutually exclusive with momentum ignition; one event
  can raise both. Its aggression counters are not limited to the gap window, and a
  second burst of the generator within the refractory is not flagged.
* Momentum ignition: a comment says the counters are reset on a flag; they are not, and
  the run length counts samples that were evicted.
* Phantom liquidity (`phantom_liquidity.rs:194`) maps an order to the level it was added to for
  ever; a reused id can flag a level that is still there. The map has no cap.
* An ITCH cancel carries no price and never counts as a burst in the latency proxy.
* The clusterer compares a flag with the last open cluster only.
* Generators: the doc says "sequential IDs starting at base_seq", the cancellation storm jumps
  by 4096; a restarted generator is due at once and reuses order ids; a restarted
  momentum generator leaves the detector's book crossed.

Engine and transport:

* `main.rs` leaves `instrument_id` at its default with `--symbol`, so the snapshots of such a session
  are labelled 1; an engine resumed from one locks on instrument 1, whatever `--symbol`
  says, and mixes two instruments in one book. `BookOfOneInstrument` excludes engines that go
  back to such a snapshot and no others, and `PinnedStays` follows the snapshot.
* `main.rs:82` and `engine.rs:307` call the instrument of a snapshot a hard lock; `engine.rs:377` looks
  at the configuration only and gives it up after five quiet seconds.
* On a new lock the book is replaced; the detector chain, spread window, VPIN, previous mid
  and velocity baseline are not.
* A resume reads its source from the start again: "replay-from-checkpoint" equals
  "replay-from-scratch" (`README.md:32`) only for a source that continues.
* The first header can be shed or lost with a broken connection, and nothing repeats it; a
  client that reconnects waits until a write to the dead one fails; the frames in the
  channel are lost at exit; the back-off of the client never shrinks again.
* A snapshot is not synced (a comment speaks of "an fsync via rename"); a torn one is refused
  by its lengths, its `state_hash` is never compared.

API:

* `storm.go:49` says all state is protected by the mutex; two pointers escape it. A comment
  says there is no nesting with the feed's mutex; `Next` nests. There is no cycle.
* `duration_ms` wraps: a storm can expire at once, or never. The recorder logs the severity
  before it is clamped.
* A bot that is silent at the end of a run has equity 0 and is reported as killed, or with a
  gain if it was in debt; one that is silent at its start began with 0. `VerdictExplained`
  relates the verdict to the delta written beside it, and promises an intact target only when
  the bot was silent at both ends.
* Both writes of an event line ignore their errors (`recorder.go:289-290`). The manifest is
  made from memory and can list storms whose lines were lost, never the other way round.
* A stop closes the most recent record, also one that is closed or of another storm, when
  requests overlap; an expired storm gets no stop event; a stop without a storm is logged.
* A run id has a resolution of one second; two runs can share a directory, where the
  second manifest replaces the first. `gaps_last_minute` is cumulative.

## 6. Plan

Done, in this order: books and slab with proofs, gate, lanes, tracker with proofs,
ring and ingest, WAL, breaker; then detectors and clusterer, generators and
orchestrator, storm controller, recorder and handlers, engine, transport and snapshots.

Proved since: the ring and its producers, the engine and its transport, the breaker, the
handlers of the API, the sums of the reference book, the hot book's arrays and the gate,
the seven detectors, and the WAL. Every safety property that a passing run checks is now a
theorem except the four that are about folds.

Left of the model: sequence checking and seek of the replay engine, the C++ book as a
third implementation in `CrossImpl`, the bytes of a book snapshot.

## 7. Assumptions of the models

* A payload is identified by its sequence number, byte position or record number; the
  exchange never reuses one. CRC collisions are left out.
* Release stores and acquire loads order the ring's copies, so interleaving of steps
  covers the hardware. Indices never reach 2^64.
* A crash leaves a prefix of the unsynced cells, then zeroes. A file system that
  persists later pages before earlier ones within one unsynced range is outside the
  model.
* A failed `fsync` leaves the data unsynced and a later one may succeed.
* Of the unsynced renames of a snapshot only the last may be undone by a power loss.
* A snapshot that a power loss tore is shorter than its lengths say, or empty; blocks of
  zeroes inside a file of the right size are outside the model.
* A broken connection loses what is in its socket; the bytes that arrive are whole frames
  (a partial one ends with the connection and is not dispatched).
* The condition of `AnswersEarned` for the latch of the feed (`HaltEarned`) is kept in a ghost,
  `earned`, which counts the gaps since the last reset; it and the code's counter differ only in a
  faulty variant that forgets to clear the counter. Answers under which the storm or the run
  changed (torn pointers, mixed reads) are excluded, not shown to be right.
* The wall clock of the API does not go back.
* Trading stops around `start_of_day`; one thread delivers execution reports.

## 8. Not modelled

* Flow analytics and the regime classifier: floating-point statistics; TLC has no reals, and
  they steer nothing but a label.
* Replay engine, event log and deterministic verifier: a sequence check that stops at its
  first error, and comparisons of hashes.
* C++ book: the same operations as the hot book, still to be compared with it.
* Event sources of the engine, latency statistics, the synthetic feed's market numbers, the
  read-only pages of the API, the window extractor (which nothing calls).
* Zig parser: the translation of `ItchEvents` at byte level; its own concern is slice bounds,
  which its fuzz target covers.
* C++ hashing and FFI glue, dashboard, benchmarks, generated headers: no protocol state.
* Byte layouts, pacing, statistics and logging of the modelled parts.
* The parts of the client's view other than header, tick and tape; the other branches of
  `dispatchJSON` and the numbers of the frames the engine builds are not in the map either.
