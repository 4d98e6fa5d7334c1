------------------------------- MODULE Engine --------------------------------
(***************************************************************************)
(* The loop of engine/src/engine.rs: the lock on one instrument and its    *)
(* re-arming, the book, the frames of an event, and the periodic snapshots *)
(* of replay/src/snapshot.rs with the resume of engine/src/main.rs.        *)
(*                                                                         *)
(* A book is the instrument it is labelled with and the instruments whose  *)
(* events it has applied; the arithmetic of the book and of the metrics is *)
(* in other modules or left out.  Which of the periodic publications are   *)
(* due is a free choice.                                                   *)
(***************************************************************************)
EXTENDS Telemetry

CONSTANTS
    Instruments,
    Symbols,             \* instruments that --symbol may name
    DefaultInstrument,   \* EngineConfig::default().instrument_id
    LockThreshold,       \* auto_lock_threshold
    Named,               \* instruments with a Stock Directory record in the source
    Setups,              \* which of "client" (there is an API server) and "snapshots"
                         \* (they are configured) may hold together
    Dues,                \* sets of publications that may be due together
    MaxSeq               \* bound on the sequence number of an event

ASSUME EngineAssumption ==
    /\ DefaultInstrument \in Instruments /\ Symbols \subseteq Instruments
    /\ Named \subseteq Instruments
    /\ LockThreshold \in Nat \ {0}
    /\ Dues \subseteq SUBSET {"Chaos", "Snapshot", "Tick", "Book"}

VARIABLES
    setup,       \* the member of Setups that is being run
    up,          \* whether an engine runs
    names,       \* instruments whose name the source has met
    cli,         \* cfg.track_instrument
    tracked, counts,
    quiet,       \* last_locked_trade_at: none, or whether it is more than 5 s ago
    book, seq,
    outbox,      \* what is left to do for the current event
    tmp, file,   \* the temporary and the final snapshot file
    former,      \* what the last rename replaced
    resumed,     \* the snapshot this engine started from
    powerLost    \* whether the machine ever went down

lockVars == <<cli, tracked, counts, quiet>>
bookVars == <<book, seq>>
diskVars == <<tmp, file, former, powerLost>>
engVars == <<setup, up, names, lockVars, bookVars, outbox, diskVars, resumed>>

Torn == [torn |-> TRUE]

NewBook(id) == [instrument |-> id, from |-> {}]

NoCounts == [i \in Instruments |-> 0]

EngineInit ==
    /\ setup \in Setups
    /\ up = FALSE /\ names = {}
    /\ cli = None /\ tracked = None /\ counts = NoCounts /\ quiet = None
    /\ book = NewBook(DefaultInstrument) /\ seq = 0
    /\ outbox = <<>> /\ resumed = None
    /\ tmp = None /\ file = None /\ former = None /\ powerLost = FALSE

(* Engine::new, and the header that run sends first.  Some names are known *)
(* already: the source is scanned when it is opened.                       *)
Start(opt) ==
    /\ ~up
    /\ up' = TRUE
    /\ names' \in SUBSET Named
    /\ cli' = opt /\ tracked' = opt /\ counts' = NoCounts /\ quiet' = None
    /\ book' = NewBook(DefaultInstrument) /\ seq' = 0
    /\ outbox' = <<"Header">>
    /\ resumed' = None
    /\ UNCHANGED <<setup, diskVars, chanVars, linkVars, viewVars>>

(* Faulty variant: the lengths in the file are not compared with its size. *)
ReadableAlways(f) == IsSome(f)

(* from_bytes and from_snapshot_bytes refuse what is not complete.         *)
Readable(f) == IsSome(f) /\ f # Some(Torn)

(* Faulty variant: the engine counts its events from zero again.           *)
ResumedSeqZero(s) == 0

ResumedSeq(s) == s.seq

(* with_snapshot: the book and the sequence number of the file, and a lock *)
(* on the instrument that the book is labelled with, whatever --symbol     *)
(* says.                                                                   *)
Resume(opt) ==
    /\ ~up
    /\ Readable(file)
    /\ up' = TRUE
    /\ names' \in SUBSET Named
    /\ IF file = Some(Torn) THEN book' = NewBook(DefaultInstrument) /\ seq' = 0
       ELSE book' = file[1].book /\ seq' = ResumedSeq(file[1])
    /\ cli' = opt /\ tracked' = Some(book'.instrument) /\ counts' = NoCounts /\ quiet' = None
    /\ outbox' = <<"Header">>
    /\ resumed' = file
    /\ UNCHANGED <<setup, diskVars, chanVars, linkVars, viewVars>>

-----------------------------------------------------------------------------
(* A Stock Directory record passes on the way to the next event.           *)
Harvest(i) ==
    /\ up /\ outbox = <<>> /\ i \notin names
    /\ names' = names \cup {i}
    /\ UNCHANGED <<setup, up, lockVars, bookVars, outbox, diskVars, resumed, chanVars, linkVars,
                   viewVars>>

(* The 5 s after the last trade of the locked instrument pass.             *)
Quieten ==
    /\ up /\ quiet = Some(FALSE)
    /\ quiet' = Some(TRUE)
    /\ UNCHANGED <<setup, up, names, cli, tracked, counts, bookVars, outbox, diskVars, resumed,
                   chanVars, linkVars, viewVars>>

(* Faulty variant: a symbol chosen on the command line is given up too.    *)
RearmsAny == IsSome(tracked) /\ quiet = Some(TRUE)

(* A quiet lock is given up, unless --symbol was passed.                   *)
Rearms == IsSome(tracked) /\ quiet = Some(TRUE) /\ ~IsSome(cli)

(* What an accepted event leaves to do, in the order of the loop.          *)
Work(header, trade, due) ==
    (IF header THEN <<"Header">> ELSE <<>>)
    \o (IF "Chaos" \in due THEN <<"Chaos">> ELSE <<>>)
    \o (IF trade THEN <<"Trade">> ELSE <<>>)
    \o (IF "Snapshot" \in due THEN <<"SnapOpen", "SnapWrite", "SnapRename">> ELSE <<>>)
    \o (IF "Tick" \in due THEN <<"Tick", "Risk", "Lat">> ELSE <<>>)
    \o (IF "Book" \in due THEN <<"Book">> ELSE <<>>)

(* Applies an event of instrument i to book b and goes on with the rest.   *)
Take(b, i, header, trade, due) ==
    /\ seq < MaxSeq
    /\ book' = [b EXCEPT !.from = @ \cup {i}]
    /\ seq' = seq + 1
    /\ outbox' = Work(header, trade, due)

Skip == UNCHANGED <<bookVars, outbox>>

(* Faulty variant: the new lock goes on with the old book.                 *)
LockedBookOld(i) == [book EXCEPT !.instrument = i]

LockedBook(i) == NewBook(i)

(* With a lock, events of other instruments are skipped.                   *)
LockedEvent(i, trade, due) ==
    IF tracked # Some(i) THEN Skip /\ UNCHANGED lockVars
    ELSE /\ Take(book, i, FALSE, trade, due)
         /\ quiet' = IF trade THEN Some(FALSE) ELSE quiet
         /\ UNCHANGED <<cli, tracked, counts>>

(* Without one (c: the counts, cleared if the lock was just given up) only *)
(* trades count, and the one that reaches the threshold takes the lock and *)
(* is itself the first event of the new book.                              *)
UnlockedEvent(c, i, trade, due) ==
    IF trade /\ c[i] + 1 >= LockThreshold
    THEN /\ Take(LockedBook(i), i, TRUE, trade, due)
         /\ tracked' = Some(i)
         /\ counts' = NoCounts
         /\ quiet' = Some(FALSE)
         /\ UNCHANGED cli
    ELSE /\ Skip
         /\ tracked' = None
         /\ counts' = [c EXCEPT ![i] = IF trade THEN @ + 1 ELSE @]
         /\ quiet' = None
         /\ UNCHANGED cli

(* One turn of the loop with an event of instrument i.                     *)
Event(i, trade, due) ==
    /\ up /\ outbox = <<>>
    /\ "Snapshot" \in due => "snapshots" \in setup
    /\ IF Rearms THEN UnlockedEvent(NoCounts, i, trade, due)
       ELSE IF IsSome(tracked) THEN LockedEvent(i, trade, due)
       ELSE UnlockedEvent(counts, i, trade, due)
    /\ UNCHANGED <<setup, up, names, diskVars, resumed, chanVars, linkVars, viewVars>>

-----------------------------------------------------------------------------
(* Faulty variant: a tick carries the count of the frame before.           *)
TickDropsLate == IF dropped > 0 THEN dropped - 1 ELSE 0

TickDrops == dropped

(* symbol_of for the locked instrument; a name is as good as its id.       *)
SymbolOfTracked == IF IsSome(tracked) /\ tracked[1] \in names THEN tracked ELSE None

(* A frame is built, from the state and the counter as they are, and sent. *)
(* A trade without a known price, and a tick of a one-sided book, are not  *)
(* sent.                                                                   *)
Publish ==
    /\ up /\ outbox # <<>>
    /\ Head(outbox) \notin {"SnapOpen", "SnapWrite", "SnapRename"}
    /\ outbox' = Tail(outbox)
    /\ \/ TrySend(Frame(Head(outbox), tracked, SymbolOfTracked, TickDrops))
       \/ Head(outbox) \in {"Trade", "Tick"} /\ UNCHANGED chanVars
    /\ UNCHANGED <<setup, up, names, lockVars, bookVars, diskVars, resumed, linkVars, viewVars>>

(* Whether the book goes back to an engine with --symbol, whose snapshots  *)
(* are labelled with the default instrument.                               *)
ResumedPinned == IsSome(resumed) /\ resumed # Some(Torn) /\ resumed[1].pinned

(* Faulty variant: the snapshot is written in place.                       *)
OpenedInPlace == Some(Torn)

OpenedFile == file

(* write_to_path: the temporary file exists before its bytes do.           *)
SnapOpen ==
    /\ up /\ outbox # <<>> /\ Head(outbox) = "SnapOpen"
    /\ outbox' = Tail(outbox)
    /\ tmp' = Some(Torn)
    /\ file' = OpenedFile
    /\ UNCHANGED <<former, powerLost, setup, up, names, lockVars, bookVars, resumed, chanVars,
                   linkVars, viewVars>>

SnapWrite ==
    /\ up /\ outbox # <<>> /\ Head(outbox) = "SnapWrite"
    /\ outbox' = Tail(outbox)
    /\ tmp' = Some([seq |-> seq, book |-> book, pinned |-> IsSome(cli) \/ ResumedPinned])
    /\ UNCHANGED <<file, former, powerLost, setup, up, names, lockVars, bookVars, resumed, chanVars,
                   linkVars, viewVars>>

SnapRename ==
    /\ up /\ outbox # <<>> /\ Head(outbox) = "SnapRename"
    /\ outbox' = Tail(outbox)
    /\ file' = tmp /\ tmp' = None /\ former' = file
    /\ UNCHANGED <<powerLost, setup, up, names, lockVars, bookVars, resumed, chanVars, linkVars,
                   viewVars>>

(* The directory or the file cannot be created, or the write or the rename *)
(* fails: that is logged, and the loop goes on.                            *)
SnapFails ==
    /\ up /\ outbox # <<>>
    /\ \/ Head(outbox) = "SnapOpen" /\ outbox' = Tail(Tail(Tail(outbox)))
       \/ Head(outbox) = "SnapWrite" /\ outbox' = Tail(Tail(outbox))
       \/ Head(outbox) = "SnapRename" /\ outbox' = Tail(outbox)
    /\ UNCHANGED <<setup, up, names, lockVars, bookVars, diskVars, resumed, chanVars, linkVars,
                   viewVars>>

(* What the process had in memory is gone.                                 *)
Down ==
    /\ up
    /\ up' = FALSE /\ names' = {}
    /\ cli' = None /\ tracked' = None /\ counts' = NoCounts /\ quiet' = None
    /\ book' = NewBook(DefaultInstrument) /\ seq' = 0
    /\ outbox' = <<>> /\ resumed' = None
    /\ Hangup
    /\ UNCHANGED setup

(* The process is killed, or ends with its source.                         *)
Exit ==
    /\ Down
    /\ UNCHANGED diskVars

(* The machine goes down.  Nothing was synced: the name may be there       *)
(* without the bytes, or the last rename may not have happened.            *)
PowerLoss ==
    /\ Down
    /\ powerLost' = TRUE
    /\ file' \in {file, former, IF IsSome(file) THEN Some(Torn) ELSE None}
    /\ tmp' = None
    /\ former' = file'

Link ==
    /\ "client" \in setup /\ LinkNext(up)
    /\ UNCHANGED engVars

Restart == \E opt \in {None} \cup {Some(i) : i \in Symbols} : Start(opt) \/ Resume(opt)

Next ==
    \/ Restart
    \/ \E i \in Named : Harvest(i)
    \/ Quieten
    \/ \E i \in Instruments, trade \in BOOLEAN, due \in Dues : Event(i, trade, due)
    \/ Publish
    \/ SnapOpen
    \/ SnapWrite
    \/ SnapRename
    \/ SnapFails
    \/ Exit
    \/ PowerLoss
    \/ Link

Init == EngineInit /\ TelemetryInit

vars == <<engVars, chanVars, linkVars, viewVars>>

Spec == Init /\ [][Next]_vars

-----------------------------------------------------------------------------
(* engine.rs and engine_client.go: the fields of the engine, the channel   *)
(* and the view.                                                           *)
EngineTypeOK ==
    /\ tracked \in {None} \cup {Some(i) : i \in Instruments}
    /\ book.instrument \in Instruments /\ book.from \subseteq Instruments
    /\ \A i \in Instruments : counts[i] < LockThreshold
    /\ Len(chan) <= Capacity /\ Len(wire) <= WireCapacity
    /\ server = "serving" => up
    /\ IsSome(quiet) => IsSome(tracked)

(* engine.rs: whatever the order of locks, re-arms, snapshots and resumes, *)
(* the book of a locked engine holds events of the locked instrument only. *)
(* (Engines that go back to a mislabelled snapshot are excluded.)          *)
BookOfOneInstrument ==
    ~ResumedPinned =>
        /\ Cardinality(book.from) <= 1
        /\ (up /\ IsSome(tracked)) => book.from \subseteq {tracked[1]}

(* engine.rs: "Skip re-arm when the symbol was pinned via CLI": an engine  *)
(* with --symbol stays on its instrument through every quiet period and    *)
(* other instruments' trades; if it resumed, on that of the snapshot.      *)
PinnedStays ==
    (up /\ IsSome(cli) /\ resumed # Some(Torn)) =>
        tracked = IF IsSome(resumed) THEN Some(resumed[1].book.instrument) ELSE cli

(* snapshot.rs: the rename "avoids leaving a half-written snapshot behind  *)
(* if the process is killed mid-write": short of a power loss, the file    *)
(* under the final name is complete at every moment.                       *)
SnapshotWhole == file = Some(Torn) => powerLost

(* main.rs, snapshot.rs: an engine resumes from complete files only, after *)
(* a power loss as well, and takes number and book from one file: while it *)
(* stands at the number it resumed with it has the book that belongs to    *)
(* it, and it never stands before it.                                      *)
ResumeSound ==
    /\ resumed # Some(Torn)
    /\ IsSome(resumed) =>
          /\ seq >= resumed[1].seq
          /\ seq = resumed[1].seq => book = resumed[1].book

(* engine_client.go sets the name and the id on display under two          *)
(* conditions.  While nothing was lost or shed before the tick on display  *)
(* and the header came before it, the id is the tick's; and the name is,   *)
(* if that header gave one.  (A header without a name leaves the old name  *)
(* beside the new id.)                                                     *)
SymbolMatchesTick ==
    (IsSome(view.tick) /\ IsSome(view.header)) =>
        LET t == view.tick[1].frame
            h == view.header[1]
        IN  (view.tick[1].whole /\ t.dropped = 0 /\ h.no < t.no) =>
                /\ view.instrument = t.inst
                /\ IsSome(h.sym) => view.symbol = t.inst

(* engine_client.go: "Symbol returns (name, instrument_id) from the last   *)
(* Header seen", one that carries an instrument at least.  Not true of the *)
(* code (see SymbolMatchesTick).                                           *)
PairOfLastHeader ==
    \A h \in {view.header[i] : i \in DOMAIN view.header} :
        IsSome(h.inst) => view.symbol = h.sym /\ view.instrument = h.inst

(* backpressure.rs, engine.rs: every frame that was sent has arrived, is   *)
(* under way, or is counted, and the count on display is right.            *)
FramesAccounted == DropsAccounted /\ TickReportsMisses

(* engine_client.go: the view goes forward only, and its parts fit each    *)
(* other.                                                                  *)
ViewConsistent == TapeInOrder /\ SymbolMatchesTick

(* engine.rs: one instrument in the book of an engine, through locks,      *)
(* re-arms, snapshots and resumes.                                         *)
OneInstrument == EngineTypeOK /\ BookOfOneInstrument /\ PinnedStays

(* snapshot.rs, main.rs: kills and power losses between the steps of a     *)
(* snapshot never put a half-written book into an engine.                  *)
SnapshotSound == SnapshotWhole /\ ResumeSound

=============================================================================
