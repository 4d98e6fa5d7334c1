-------------------------------- MODULE Wal --------------------------------
(***************************************************************************)
(* The segmented write-ahead log of replay/src/wal.rs and its reader.      *)
(*                                                                         *)
(* A file is a sequence of cells.  A record takes three: its length, its   *)
(* CRC and its payload, the three write_all calls of append.  Payloads     *)
(* differ in size, and rotation goes by bytes.  A cell sits in the         *)
(* BufWriter (buf), in the page cache (files), or on the disk (the first   *)
(* durable[s] cells of files[s]).  A crash loses the buffer and any suffix *)
(* of the cells that were not synced, and may leave zeroes in place of a   *)
(* part of that suffix: a file system may extend a file before it writes   *)
(* its data.  Eight zero bytes are a well-formed record with an empty      *)
(* payload, because the CRC of nothing is 0.                               *)
(***************************************************************************)
EXTENDS Integers, Sequences, FiniteSets, SequencesExt

CONSTANTS
    SegmentSize,    \* bytes a segment may hold before append rotates
    BufCells,       \* capacity of the BufWriter, in cells
    MaxRecords,     \* bound: records ever handed to append
    PayloadBytes,   \* how long the payload of each record is
    MaxSegment,     \* bound: largest segment index
    MaxWalCrashes,  \* bound: crashes
    MaxErrors,      \* bound: failed I/O calls
    FsyncEntry      \* fsync of a new file makes its directory entry durable as well,
                    \* as ext4, XFS and btrfs do and POSIX does not promise

ASSUME WalBounds ==
    /\ SegmentSize \in Nat /\ BufCells \in Nat \ {0} /\ MaxRecords \in Nat
    /\ MaxSegment \in Nat /\ MaxWalCrashes \in Nat /\ MaxErrors \in Nat
    /\ FsyncEntry \in BOOLEAN
    /\ PayloadBytes \in [1..MaxRecords -> Nat \ {0}]

VARIABLES
    files,      \* the segments in the directory, as the operating system shows them
    durable,    \* how many cells of each segment are on the disk
    entries,    \* the segments whose directory entry is on the disk
    buf,        \* Wal::writer's buffer
    cur,        \* the segment Wal::writer has open
    index,      \* Wal::current_index
    bytes,      \* Wal::current_bytes
    phase,      \* where the one thread that owns the Wal is
    rec,        \* the record being appended
    parts,      \* how many of its cells are written
    log,        \* history: the records whose append returned Ok and that no crash lost
    synced,     \* history: those that a successful sync covered before torn and stranded
    torn,       \* history: an append failed after it wrote a part of its record
    stranded,   \* history: a crash met unsynced cells in a segment that has a successor
    walCrashes, errors

handle == <<buf, cur, index, bytes>>
disk   == <<files, durable, entries>>
ghost  == <<log, synced, torn, stranded>>
walVars == <<files, durable, entries, buf, cur, index, bytes, phase, rec, parts,
             log, synced, torn, stranded, walCrashes, errors>>

Phases == {"down", "idle", "rotate_flush", "rotate_sync", "rotate_create",
           "rotate_dir", "write", "sync"}

RecordCells == 3
Frame(r) == << <<r, "len">>, <<r, "crc">>, <<r, "pay">> >>
Zero == <<0, "zero">>
Cells == {Zero} \cup (1..MaxRecords) \X {"len", "crc", "pay"}

\* Length, CRC and a cell of zeroes take four bytes each
CellBytes(c) == IF c[2] = "pay" THEN PayloadBytes[c[1]] ELSE 4
Bytes(f) == SumFunctionOnSet([i \in DOMAIN f |-> CellBytes(f[i])], DOMAIN f)
RecordBytes(r) == 8 + PayloadBytes[r]

----------------------------------------------------------------------------
(* Reading: recover_segment_tail and WalReader::next_record scan the same way. *)

\* A record whose three cells follow each other and belong together
IsRecord(f, i) == i + 2 <= Len(f) /\ \A j \in 0..2 : f[i + j] = Frame(f[i][1])[j + 1]
\* Eight zero bytes: length 0 and the CRC of an empty payload
IsEmptyRecord(f, i) == i + 1 <= Len(f) /\ f[i] = Zero /\ f[i + 1] = Zero

\* From cell i the scan stops at the end of the file, at a short record and at
\* the first CRC that does not match: how long the well-formed prefix is, and
\* the payloads from i on.  An empty payload holds no event and replays as
\* nothing, so it is left out
Scan(f) ==
    LET from[i \in 1..(Len(f) + 1)] ==
            IF IsRecord(f, i)
            THEN [valid |-> from[i + 3].valid, records |-> <<f[i][1]>> \o from[i + 3].records]
            ELSE IF IsEmptyRecord(f, i) THEN from[i + 2]
            ELSE [valid |-> i - 1, records |-> << >>]
    IN  from[1]

ValidLength(f) == Scan(f).valid
RecordsOf(f) == Scan(f).records

\* Faulty variant: the directory listing is used in another order
SegmentOrderReversed == [i \in 1..(MaxSegment + 1) |-> MaxSegment + 1 - i]

\* list_segments, sorted: the numbers a segment may have, in ascending order
SegmentOrder == [i \in 1..(MaxSegment + 1) |-> i - 1]

\* What segment s of a directory holds: nothing when there is no such file
SegmentRecords(fs, s) == IF s \in DOMAIN fs THEN RecordsOf(fs[s]) ELSE << >>

\* What a WalReader yields from first to last: a torn tail ends its segment
\* and the reader goes on with the next one
ReplayOf(fs) == FlattenSeq([i \in 1..(MaxSegment + 1) |-> SegmentRecords(fs, SegmentOrder[i])])

Replay == ReplayOf(files)

----------------------------------------------------------------------------

WalInit ==
    /\ files = << >> /\ durable = << >> /\ entries = {}
    /\ buf = << >> /\ cur = 0 /\ index = 0 /\ bytes = 0
    /\ phase = "down" /\ rec = 0 /\ parts = 0
    /\ log = << >> /\ synced = << >> /\ torn = FALSE /\ stranded = FALSE
    /\ walCrashes = 0 /\ errors = 0

\* BufWriter hands the first n cells of its buffer to the operating system
Drain(n) ==
    /\ files' = [files EXCEPT ![cur] = @ \o SubSeq(buf, 1, n)]
    /\ buf' = SubSeq(buf, n + 1, Len(buf))

\* An I/O call fails; the operation returns the error to the caller
IoError ==
    /\ errors < MaxErrors
    /\ errors' = errors + 1
    /\ phase' = "idle"

WithSegment(fn, s, v) == [t \in DOMAIN fn \cup {s} |-> IF t = s THEN v ELSE fn[t]]

\* Wal::open_or_create with no segment in the directory
OpenFresh ==
    /\ phase = "down" /\ DOMAIN files = {}
    /\ files' = WithSegment(files, 0, << >>)
    /\ durable' = WithSegment(durable, 0, 0)
    /\ entries' = {0}
    /\ buf' = << >> /\ cur' = 0 /\ index' = 0 /\ bytes' = 0
    /\ phase' = "idle"
    /\ UNCHANGED <<rec, parts, ghost, walCrashes, errors>>

\* Faulty variant: recovery keeps the torn tail and appends after it
OpenRecoverKeepTail ==
    /\ phase = "down" /\ DOMAIN files # {}
    /\ LET last == Max(DOMAIN files)
       IN  /\ cur' = last /\ index' = last
           /\ bytes' = Bytes(files[last])
           /\ durable' = [durable EXCEPT ![last] = Len(files[last])]
    /\ buf' = << >>
    /\ phase' = "idle"
    /\ UNCHANGED <<files, entries, rec, parts, ghost, walCrashes, errors>>

\* Faulty variant: the scan drops the last whole record with the torn tail
OpenRecoverShort ==
    /\ phase = "down" /\ DOMAIN files # {}
    /\ LET last == Max(DOMAIN files)
           valid == ValidLength(files[last])
           keep == IF valid >= RecordCells /\ valid < Len(files[last])
                   THEN valid - RecordCells ELSE valid
       IN  /\ files' = [files EXCEPT ![last] = SubSeq(@, 1, keep)]
           /\ durable' = [durable EXCEPT ![last] = keep]
           /\ cur' = last /\ index' = last /\ bytes' = Bytes(files'[last])
    /\ buf' = << >>
    /\ phase' = "idle"
    /\ UNCHANGED <<entries, rec, parts, ghost, walCrashes, errors>>

\* Wal::open_or_create on an existing log: only the last segment is scanned,
\* and it is synced only if there was something to cut off
OpenRecover ==
    /\ phase = "down" /\ DOMAIN files # {}
    /\ LET last == Max(DOMAIN files)
           keep == ValidLength(files[last])
       IN  /\ files' = [files EXCEPT ![last] = SubSeq(@, 1, keep)]
           /\ durable' = IF keep < Len(files[last])
                         THEN [durable EXCEPT ![last] = keep] ELSE durable
           /\ cur' = last /\ index' = last /\ bytes' = Bytes(files'[last])
    /\ buf' = << >>
    /\ phase' = "idle"
    /\ UNCHANGED <<entries, rec, parts, ghost, walCrashes, errors>>

\* Faulty variant: the new segment is opened before the old one is flushed and synced
AppendCallUnsynced ==
    /\ phase = "idle" /\ rec < MaxRecords
    /\ rec' = rec + 1 /\ parts' = 0
    /\ IF bytes + RecordBytes(rec') > SegmentSize
       THEN index < MaxSegment /\ phase' = "rotate_create"
       ELSE phase' = "write"
    /\ UNCHANGED <<handle, disk, ghost, walCrashes, errors>>

\* Wal::append, up to its decision to rotate
AppendCall ==
    /\ phase = "idle" /\ rec < MaxRecords
    /\ rec' = rec + 1 /\ parts' = 0
    /\ IF bytes + RecordBytes(rec') > SegmentSize
       THEN index < MaxSegment /\ phase' = "rotate_flush"
       ELSE phase' = "write"
    /\ UNCHANGED <<handle, disk, ghost, walCrashes, errors>>

\* One write_all of append.  The BufWriter empties itself first if the cell
\* does not fit; the last cell completes the record
WritePart ==
    /\ phase = "write"
    /\ LET full == Len(buf) = BufCells
           kept == IF full THEN << >> ELSE buf
       IN  /\ files' = IF full THEN [files EXCEPT ![cur] = @ \o buf] ELSE files
           /\ buf' = Append(kept, Frame(rec)[parts + 1])
    /\ parts' = parts + 1
    /\ IF parts' = RecordCells
       THEN /\ bytes' = bytes + RecordBytes(rec)
            /\ log' = log \o <<rec>>
            /\ phase' = "idle"
       ELSE UNCHANGED <<bytes, log, phase>>
    /\ UNCHANGED <<durable, entries, cur, index, rec, synced, torn, stranded, walCrashes, errors>>

\* The flush inside write_all fails after the operating system took n cells.
\* The rest of the buffer is kept; the cell that did not fit never enters it,
\* and the cells of this record that came before stay in the stream
WritePartFails ==
    /\ phase = "write" /\ Len(buf) = BufCells
    /\ \E n \in 0..(BufCells - 1) : Drain(n)
    /\ torn' = (torn \/ parts > 0)
    /\ IoError
    /\ UNCHANGED <<durable, entries, cur, index, bytes, rec, parts, log, synced, stranded, walCrashes>>

\* Wal::flush, and the first half of sync and of rotate
Flush ==
    /\ \/ phase = "idle" /\ buf # << >> /\ phase' = "idle"
       \/ phase = "idle" /\ phase' = "sync"
       \/ phase = "rotate_flush" /\ phase' = "rotate_sync"
    /\ Drain(Len(buf))
    /\ UNCHANGED <<durable, entries, cur, index, bytes, rec, parts, ghost, walCrashes, errors>>

\* A flush that fails half way keeps what was not written for the next one
FlushFails ==
    /\ phase \in {"idle", "rotate_flush"} /\ buf # << >>
    /\ \E n \in 0..(Len(buf) - 1) : Drain(n)
    /\ IoError
    /\ UNCHANGED <<durable, entries, cur, index, bytes, rec, parts, ghost, walCrashes>>

\* sync_all on the open segment
Fsync ==
    /\ durable' = [durable EXCEPT ![cur] = Len(files[cur])]
    /\ entries' = IF FsyncEntry THEN entries \cup {cur} ELSE entries

\* The second half of Wal::sync
Sync ==
    /\ phase = "sync"
    /\ Fsync
    /\ synced' = IF torn \/ stranded THEN synced ELSE log
    /\ phase' = "idle"
    /\ UNCHANGED <<files, handle, rec, parts, log, torn, stranded, walCrashes, errors>>

\* The sync_all of Wal::rotate
RotateSync ==
    /\ phase = "rotate_sync"
    /\ Fsync
    /\ phase' = "rotate_create"
    /\ UNCHANGED <<files, handle, rec, parts, ghost, walCrashes, errors>>

\* A sync_all that fails: nothing more is known to be on the disk
FsyncFails ==
    /\ phase \in {"sync", "rotate_sync"}
    /\ IoError
    /\ UNCHANGED <<disk, handle, rec, parts, ghost, walCrashes>>

\* Wal::rotate creates the next segment
RotateCreate ==
    /\ phase = "rotate_create"
    /\ index' = index + 1
    /\ files' = WithSegment(files, index', << >>)
    /\ durable' = WithSegment(durable, index', 0)
    /\ phase' = "rotate_dir"
    /\ UNCHANGED <<entries, buf, cur, bytes, rec, parts, ghost, walCrashes, errors>>

\* Faulty variant: the writer moves on before the new file is known to exist
RotateCreateFailsMoved ==
    /\ phase = "rotate_create"
    /\ index' = index + 1 /\ cur' = index'
    /\ IoError
    /\ UNCHANGED <<disk, buf, bytes, rec, parts, ghost, walCrashes>>

\* create_new fails: current_index is already the next one, the writer is
\* still on the old segment
RotateCreateFails ==
    /\ phase = "rotate_create"
    /\ index' = index + 1
    /\ IoError
    /\ UNCHANGED <<disk, buf, cur, bytes, rec, parts, ghost, walCrashes>>

\* sync_dir, then the new BufWriter
RotateDir ==
    /\ phase = "rotate_dir"
    /\ entries' = DOMAIN files
    /\ cur' = index /\ buf' = << >> /\ bytes' = 0
    /\ phase' = "write"
    /\ UNCHANGED <<files, durable, index, rec, parts, ghost, walCrashes, errors>>

\* sync_dir fails: the new segment exists, empty, and the writer stays on the
\* old one, which takes every record that still fits
RotateDirFails ==
    /\ phase = "rotate_dir"
    /\ IoError
    /\ UNCHANGED <<disk, handle, rec, parts, ghost, walCrashes>>

\* What a crash may leave of a segment: its synced cells, any prefix of the
\* others, and zeroes up to at most its old length
Remains(s) ==
    UNION {{SubSeq(files[s], 1, k) \o [i \in 1..z |-> Zero] :
             z \in 0..(Bytes(SubSeq(files[s], k + 1, Len(files[s]))) \div 4)} :
            k \in durable[s]..Len(files[s])}

\* The process or the machine stops.  The buffer is lost, a segment whose
\* directory entry is not on the disk may be gone, and the log shrinks to
\* what a reader finds.  When only the process stops the files stay as they are
Crash ==
    /\ phase # "down" /\ walCrashes < MaxWalCrashes
    /\ walCrashes' = walCrashes + 1
    /\ phase' = "down"
    /\ \E kept \in SUBSET DOMAIN files :
          /\ entries \subseteq kept
          /\ \E left \in [kept -> UNION {Remains(s) : s \in DOMAIN files}] :
                /\ \A s \in kept : left[s] \in Remains(s)
                /\ files' = left
                /\ durable' = [s \in kept |-> durable[s]]
    /\ log' = Replay'
    /\ stranded' = (stranded \/ /\ \E s \in DOMAIN files : s > cur
                                /\ durable[cur] < Len(files[cur]))
    /\ buf' = << >> /\ parts' = 0
    /\ UNCHANGED <<entries, cur, index, bytes, rec, synced, torn, errors>>

WalNext ==
    \/ OpenFresh \/ OpenRecover
    \/ AppendCall \/ WritePart \/ WritePartFails
    \/ Flush \/ FlushFails \/ Sync \/ FsyncFails
    \/ RotateSync \/ RotateCreate \/ RotateCreateFails \/ RotateDir \/ RotateDirFails
    \/ Crash

WalSpec == WalInit /\ [][WalNext]_walVars

----------------------------------------------------------------------------
(* Properties *)

\* Type invariant; the open segment exists and nothing is durable that is not written
WalTypeOK ==
    /\ DOMAIN files \subseteq 0..MaxSegment /\ DOMAIN durable = DOMAIN files
    /\ \A s \in DOMAIN files : files[s] \in Seq(Cells) /\ durable[s] \in 0..Len(files[s])
    /\ entries \subseteq DOMAIN files
    /\ buf \in Seq(Cells) /\ Len(buf) <= BufCells
    /\ index \in 0..MaxSegment /\ cur \in 0..index /\ bytes \in Nat
    /\ phase \in Phases /\ (phase # "down" => cur \in DOMAIN files)
    /\ rec \in 0..MaxRecords /\ parts \in 0..RecordCells
    /\ log \in Seq(1..MaxRecords) /\ synced \in Seq(1..MaxRecords) /\ torn \in BOOLEAN
    /\ stranded \in BOOLEAN
    /\ walCrashes \in 0..MaxWalCrashes /\ errors \in 0..MaxErrors

\* wal.rs: "anything acked by the writer side can be replayed".  The records
\* a sync returned Ok for, before any append was torn by an I/O error and any
\* crash stranded unsynced cells in a segment that is not the last, are what a
\* reader sees first, in order, at every moment: during appends and rotations,
\* after any crash, before and after recovery
SyncedSurvive == IsPrefix(synced, Replay)

\* Wal::sync, "use after every must-survive-crash boundary": when it has
\* returned Ok, everything that a reader would see is on the disk.  It syncs
\* the open segment only, and a rotation whose sync_dir failed may have left
\* unsynced records in the segment before it: this is not true of the code
SyncReachesDisk ==
    [][Sync /\ ~torn => \A s \in DOMAIN files :
           RecordsOf(SubSeq(files[s], 1, durable'[s])) = RecordsOf(files[s])]_walVars

\* A crash takes records from the end of the log only, whatever it leaves of
\* the unsynced part of each file: no record is lost in front of one that stays
CrashLosesTail ==
    [][Crash /\ ~torn /\ ~stranded => IsPrefix(Replay', log)]_walVars

\* Without a torn append the reader never skips a record: what it sees is a
\* prefix of what was appended, across segments, so no segment but the last
\* can miss a record
NoGap == ~torn => IsPrefix(Replay, log)

\* Also after a torn append and after crashes the reader sees records in the
\* order of their appends and none twice, and it takes no other bytes for one
ReplayInOrder == \A i, j \in 1..Len(Replay) : i < j => Replay[i] < Replay[j]

\* Recovery cuts off only what no reader could see
RecoveryKeepsRecords == [][phase = "down" /\ phase' # "down" => Replay' = Replay]_walVars

\* wal.rs: what a reader makes of the files at every moment: records only, in
\* order, and without a gap unless an append was torn
ReaderSound == WalTypeOK /\ NoGap /\ ReplayInOrder

=============================================================================
