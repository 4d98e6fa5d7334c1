-------------------------------- MODULE Ingest --------------------------------
(***************************************************************************)
(* The producers of the ring.  A live feed: WebSocketFeed of               *)
(* ingest/feed/websocket.go, whose read loop writes one message per Write  *)
(* and drops it when the ring is full; Stop runs on another goroutine.  A  *)
(* replay: flush_batch of replay/src/file_source.rs, which splits a batch  *)
(* that does not fit and spins while the ring is full.                     *)
(*                                                                         *)
(* One producer feeds one ring; which one is fixed at the start.  Dialling *)
(* and reading are external: a dial succeeds or fails, a connection yields *)
(* a message, is hung up by the peer or is closed by Stop.  Back-off       *)
(* durations only take time and are left out.                              *)
(***************************************************************************)
EXTENDS SpscRing, FiniteSets

CONSTANTS
    MaxBytes,    \* bound on the bytes the producer tries to write
    MaxBatch,    \* bound on the bytes of one message or batch
    MaxDials,    \* bound on successful dials
    MaxCrashes   \* bound on crashes, of either process

ASSUME IngestAssumption ==
    MaxBytes \in Nat /\ MaxBatch \in Nat /\ MaxDials \in Nat /\ MaxCrashes \in Nat

VARIABLES
    producer,   \* "file" or "feed"
    next,       \* bytes the producer has tried to write
    ends,       \* last bytes of whole messages
    flush,      \* flush_batch: pc, the batch left, what the call writes
    feed,       \* Run: pc and readLoop's connection
    conn,       \* the atomic connection pointer (0: nil)
    open,       \* connections that are not closed
    dials,
    stopper,    \* Stop: "none", "closed", "swapped", "waiting", "returned"
    yanked,     \* the connection Stop has swapped out and not closed yet
    wg,         \* the WaitGroup's counter
    crashes

fileVars == <<flush>>
feedVars == <<feed, conn, open, dials, stopper, yanked, wg>>
vars == <<ringVars, producer, next, ends, fileVars, feedVars, crashes>>

NoConn == 0

IngestInit ==
    /\ RingInit
    /\ producer \in {"file", "feed"}
    /\ next = 0
    /\ ends = {}
    /\ flush = [pc |-> "idle", batch |-> <<>>, head |-> <<>>]
    /\ feed = [pc |-> "start", conn |-> NoConn]
    /\ conn = NoConn
    /\ open = {}
    /\ dials = 0
    /\ stopper = "none"
    /\ yanked = NoConn
    /\ wg = 0
    /\ crashes = 0

(* The next n bytes of the source, as one message or batch.                *)
Produce(n) == [i \in 1..n |-> next + i]

NewBatch(n) ==
    /\ next + n <= MaxBytes
    /\ next' = next + n
    /\ ends' = ends \cup {next + n}

-----------------------------------------------------------------------------
(* flush_batch.                                                            *)

FileBatch ==
    /\ producer = "file" /\ flush.pc = "idle"
    /\ \E n \in 1..MaxBatch :
          /\ NewBatch(n)
          /\ WriteCall(Produce(n))
          /\ flush' = [pc |-> "whole", batch |-> Produce(n), head |-> <<>>]
    /\ UNCHANGED <<producer, feedVars, crashes>>

(* The call for all that is left has returned.                             *)
FlushDone ==
    /\ flush.pc = "whole" /\ w.pc = "none" /\ w.avail = -1
    /\ flush' = [pc |-> "idle", batch |-> <<>>, head |-> <<>>]
    /\ UNCHANGED <<ringVars, producer, next, ends, feedVars, crashes>>

FlushSpin ==
    /\ flush.pc = "whole" /\ w.pc = "none" /\ w.avail = 0
    /\ WriteCall(flush.batch)
    /\ UNCHANGED <<producer, next, ends, flush, feedVars, crashes>>

(* Faulty variant: the whole batch is tried again.                         *)
FlushSplitRetry ==
    /\ flush.pc = "whole" /\ w.pc = "none" /\ w.avail > 0
    /\ WriteCall(flush.batch)
    /\ UNCHANGED <<producer, next, ends, flush, feedVars, crashes>>

(* There was room for some bytes: write as many, whatever they are.        *)
FlushSplit ==
    /\ flush.pc = "whole" /\ w.pc = "none" /\ w.avail > 0
    /\ WriteCall(SubSeq(flush.batch, 1, w.avail))
    /\ flush' = [flush EXCEPT !.pc = "head", !.head = SubSeq(flush.batch, 1, w.avail)]
    /\ UNCHANGED <<producer, next, ends, feedVars, crashes>>

(* The call for the head has returned: go on with the tail, or give up.    *)
FlushTail ==
    LET tail == SubSeq(flush.batch, Len(flush.head) + 1, Len(flush.batch))
    IN  /\ flush.pc = "head" /\ w.pc = "none"
        /\ IF w.avail = -1
           THEN /\ WriteCall(tail)
                /\ flush' = [pc |-> "whole", batch |-> tail, head |-> <<>>]
           ELSE /\ flush' = [flush EXCEPT !.pc = "failed"]
                /\ UNCHANGED ringVars
        /\ UNCHANGED <<producer, next, ends, feedVars, crashes>>

-----------------------------------------------------------------------------
(* WebSocketFeed: Run, connect, readLoop.                                  *)

FeedStep(from, to) ==
    /\ producer = "feed"
    /\ feed.pc = from
    /\ feed' = [feed EXCEPT !.pc = to]
    /\ UNCHANGED <<producer, flush, crashes>>

(* go feed.Run() is scheduled.                                             *)
RunStart ==
    /\ FeedStep("start", "top")
    /\ wg' = wg + 1
    /\ UNCHANGED <<ringVars, next, ends, conn, open, dials, stopper, yanked>>

RunReturn(from) ==
    /\ stopper # "none"
    /\ FeedStep(from, "done")
    /\ wg' = wg - 1
    /\ UNCHANGED <<ringVars, next, ends, conn, open, dials, stopper, yanked>>

RunDial ==
    /\ stopper = "none"
    /\ FeedStep("top", "dial")
    /\ UNCHANGED <<ringVars, next, ends, conn, open, dials, stopper, yanked, wg>>

DialFails ==
    /\ FeedStep("dial", "backoff")
    /\ UNCHANGED <<ringVars, next, ends, conn, open, dials, stopper, yanked, wg>>

(* The connection is open, and then published in conn.  Between the two    *)
(* only Run knows it: a Stop there is a Stop before the dial.              *)
DialSucceeds ==
    /\ dials < MaxDials
    /\ FeedStep("dial", "enter")
    /\ dials' = dials + 1
    /\ open' = open \cup {dials + 1}
    /\ conn' = dials + 1
    /\ UNCHANGED <<ringVars, next, ends, stopper, yanked, wg>>

BackoffOver ==
    /\ FeedStep("backoff", "top")
    /\ UNCHANGED <<ringVars, next, ends, conn, open, dials, stopper, yanked, wg>>

(* readLoop takes its own reference; Stop may have cleared the pointer.    *)
LoopEnter ==
    /\ producer = "feed" /\ feed.pc = "enter"
    /\ feed' = IF conn = NoConn THEN [pc |-> "top", conn |-> NoConn]
               ELSE [pc |-> "loop", conn |-> conn]
    /\ UNCHANGED <<ringVars, producer, next, ends, flush, conn, open, dials, stopper, yanked, wg, crashes>>

LoopTop ==
    /\ FeedStep("loop", IF stopper = "none" THEN "read" ELSE "close")
    /\ UNCHANGED <<ringVars, next, ends, conn, open, dials, stopper, yanked, wg>>

(* A message is written; bytes that arrived before Stop closed the         *)
(* connection may still be read.                                           *)
ReadMessage ==
    /\ FeedStep("read", "write")
    /\ \E n \in 1..MaxBatch : NewBatch(n) /\ WriteCall(Produce(n))
    /\ UNCHANGED <<conn, open, dials, stopper, yanked, wg>>

(* The connection was closed, or the peer hung up.                         *)
ReadFails ==
    /\ FeedStep("read", "close")
    /\ UNCHANGED <<ringVars, next, ends, conn, open, dials, stopper, yanked, wg>>

(* Write has returned; a message that did not fit is dropped.              *)
WriteReturns ==
    /\ w.pc = "none"
    /\ FeedStep("write", "loop")
    /\ UNCHANGED <<ringVars, next, ends, conn, open, dials, stopper, yanked, wg>>

(* The deferred CompareAndSwap and Close.  Between the two a Stop finds no *)
(* connection and waits for Run, which closes it first.                    *)
LoopClose ==
    /\ producer = "feed" /\ feed.pc = "close"
    /\ conn' = IF conn = feed.conn THEN NoConn ELSE conn
    /\ open' = open \ {feed.conn}
    /\ feed' = [pc |-> "top", conn |-> NoConn]
    /\ UNCHANGED <<ringVars, producer, next, ends, flush, dials, stopper, yanked, wg, crashes>>

-----------------------------------------------------------------------------
(* Stop.                                                                   *)

StopClose ==
    /\ producer = "feed" /\ stopper = "none"
    /\ stopper' = "closed"
    /\ UNCHANGED <<ringVars, producer, next, ends, flush, feed, conn, open, dials, yanked, wg, crashes>>

(* Faulty variant: the connection is not yanked.                           *)
StopSwapNothing ==
    /\ stopper = "closed"
    /\ stopper' = "waiting"
    /\ UNCHANGED <<ringVars, producer, next, ends, flush, feed, conn, open, dials, yanked, wg, crashes>>

(* conn.Swap(nil): the connection is Stop's to close, and still open.      *)
StopSwap ==
    /\ stopper = "closed"
    /\ stopper' = "swapped"
    /\ yanked' = conn
    /\ conn' = NoConn
    /\ UNCHANGED <<ringVars, producer, next, ends, flush, feed, open, dials, wg, crashes>>

(* c.Close(); Run may have ended before it, or closed it as well.          *)
StopCloseConn ==
    /\ stopper = "swapped"
    /\ stopper' = "waiting"
    /\ open' = open \ {yanked}
    /\ yanked' = NoConn
    /\ UNCHANGED <<ringVars, producer, next, ends, flush, feed, conn, dials, wg, crashes>>

(* Faulty variant: Stop does not wait for the loop.                        *)
StopNoWait ==
    /\ stopper = "waiting"
    /\ stopper' = "returned"
    /\ UNCHANGED <<ringVars, producer, next, ends, flush, feed, conn, open, dials, yanked, wg, crashes>>

StopWait ==
    /\ stopper = "waiting" /\ wg = 0
    /\ stopper' = "returned"
    /\ UNCHANGED <<ringVars, producer, next, ends, flush, feed, conn, open, dials, yanked, wg, crashes>>

(* The ingest process dies and is started again on the same ring file.     *)
FeedCrash ==
    /\ producer = "feed" /\ crashes < MaxCrashes /\ stopper = "none"
    /\ crashes' = crashes + 1
    /\ w' = NoWrite
    /\ feed' = [pc |-> "start", conn |-> NoConn]
    /\ conn' = NoConn
    /\ open' = {}
    /\ wg' = 0
    /\ UNCHANGED <<sharedVars, r, sent, received, producer, next, ends, flush, dials, stopper, yanked>>

-----------------------------------------------------------------------------
RingStep ==
    /\ WriterStep \/ ReaderStep
    /\ UNCHANGED <<producer, next, ends, fileVars, feedVars, crashes>>

ReaderDies ==
    /\ crashes < MaxCrashes
    /\ crashes' = crashes + 1
    /\ ReaderCrash
    /\ UNCHANGED <<producer, next, ends, fileVars, feedVars>>

FileStep == FlushDone \/ FlushSpin \/ FlushSplit \/ FlushTail

(* What Run does by itself; a message arrives when the peer sends it.      *)
RunStep ==
    \/ RunStart
    \/ RunReturn("top") \/ RunReturn("backoff")
    \/ RunDial
    \/ DialFails \/ DialSucceeds
    \/ BackoffOver
    \/ LoopEnter \/ LoopTop \/ LoopClose
    \/ WriteReturns
    \/ ReadFails /\ feed.conn \notin open

StopStep == StopSwap \/ StopCloseConn \/ StopWait

IngestNext ==
    \/ RingStep
    \/ FileBatch
    \/ FileStep
    \/ RunStep
    \/ ReadMessage
    \/ ReadFails
    \/ StopClose
    \/ StopStep
    \/ FeedCrash
    \/ ReaderDies

(* Every process goes on with what it has begun: the writer's call, the    *)
(* reader's polling, flush_batch's loop, Run (a dial returns one way or    *)
(* the other, a read of a closed connection fails) and Stop.  Nothing is   *)
(* assumed of the network or of who calls Stop.                            *)
IngestSpec ==
    /\ IngestInit /\ [][IngestNext]_vars
    /\ WF_vars(WriterStep /\ RingStep)
    /\ WF_vars(ReaderStep /\ RingStep)
    /\ WF_vars(FileStep)
    /\ WF_vars(RunStep)
    /\ WF_vars(StopStep)

-----------------------------------------------------------------------------
(* Properties.                                                             *)

(* "Reader never sees partial batch" (README): what the live feed has made *)
(* readable always ends with a whole message.                              *)
NoPartialBatch ==
    producer = "feed" /\ sent # <<>> => sent[Len(sent)] \in ends

(* A replayed batch is written completely, in pieces if it must, even if   *)
(* it is larger than the ring; the write of the head never fails.          *)
FlushEnds == (flush.pc # "idle") ~> (flush.pc = "idle")

(* Whatever was published is read.                                         *)
AllRead == \A i \in 1..MaxBytes : (write_idx >= i) ~> (read_idx >= i)

(* "Stop signals Run() to exit and waits for it": it returns, also when    *)
(* the loop is dialling, backing off or parked in ReadMessage.             *)
StopReturns == (stopper # "none") ~> (stopper = "returned")

(* Once Stop has returned no write is under way, so the caller may unmap   *)
(* the ring, and no connection is open; a loop that has ended leaves none  *)
(* open but the one Stop has swapped out and is about to close.            *)
StopIsClean ==
    /\ stopper = "returned" => w.pc = "none" /\ open = {}
    /\ feed.pc = "done" => open \subseteq {yanked} \ {NoConn}

(* ring.go, ring_reader.rs: the ring's contract under every interleaving   *)
(* and crash: in bounds, free of races, each published byte read once and  *)
(* in order.                                                               *)
RingSound == RingTypeOK /\ NoRace /\ FifoIntegrity

(* file_source.rs, ring_reader.rs: neither side waits for ever: batches    *)
(* are written and what was written is read.                               *)
RingProgress == FlushEnds /\ AllRead

=============================================================================
