------------------------------- MODULE SpscRing -------------------------------
(***************************************************************************)
(* The memory-mapped single-producer single-consumer byte ring: Write of   *)
(* ingest/mmap/ring.go (RingWriter::write of replay/src/ring_reader.rs is  *)
(* the same protocol) and RingReader of replay/src/ring_reader.rs.         *)
(*                                                                         *)
(* Writer and reader are two processes.  Each loads the other's index      *)
(* once, works on that stale value and publishes its own index last; a     *)
(* copy that wraps is two copies.  Every load, copy and store is a step.   *)
(* The release stores and acquire loads order the copies before the index, *)
(* so interleaving these steps covers what the hardware may do.  Indices   *)
(* count bytes for ever and never reach 2^64.                              *)
(*                                                                         *)
(* A byte is its position in what the producer has tried to write, so any  *)
(* loss, repetition or mixing shows.                                       *)
(***************************************************************************)
EXTENDS Integers, Sequences

CONSTANTS
    Capacity,   \* payload bytes of the ring
    MaxRead     \* bound on the destination buffer of one read

ASSUME RingAssumption == Capacity \in Nat \ {0} /\ MaxRead \in Nat \ {0}

VARIABLES
    write_idx, read_idx,   \* the shared indices
    data,                  \* the payload
    w,                     \* the write call in progress
    r,                     \* the read call in progress
    sent,                  \* what publications have made readable so far
    received               \* what reads have returned so far

sharedVars == <<write_idx, read_idx, data>>
ringVars == <<write_idx, read_idx, data, w, r, sent, received>>

Slot(i) == i % Capacity

(* pc of a call: "none" between calls; avail is what a full ring reported, *)
(* -1 when the last write succeeded.                                       *)
NoWrite == [pc |-> "none", batch |-> <<>>, wi |-> 0, ri |-> 0, avail |-> -1]
NoRead == [pc |-> "none", buf |-> <<>>, n |-> 0]

RingInit ==
    /\ write_idx = 0 /\ read_idx = 0
    /\ data = [i \in 0..(Capacity - 1) |-> 0]
    /\ w = NoWrite
    /\ r = NoRead
    /\ sent = <<>>
    /\ received = <<>>

(* The payload after bytes have been copied in from slot at, without wrap. *)
Poke(d, at, bytes) ==
    [i \in DOMAIN d |->
        IF i - at + 1 \in 1..Len(bytes) THEN bytes[i - at + 1] ELSE d[i]]

Peek(d, at, n) == [k \in 1..n |-> d[at + k - 1]]

MinOf(a, b) == IF a <= b THEN a ELSE b

-----------------------------------------------------------------------------
(* The writer.                                                             *)

WriteCall(batch) ==
    /\ w.pc = "none"
    /\ w' = [pc |-> "load", batch |-> batch, wi |-> 0, ri |-> 0, avail |-> -1]
    /\ UNCHANGED <<sharedVars, r, sent, received>>

(* Faulty variant: the free space is off by one.                           *)
WriteLoadOverrun ==
    /\ w.pc = "load"
    /\ LET free == Capacity - (write_idx - read_idx)
       IN  w' = IF Len(w.batch) > free + 1
                THEN [NoWrite EXCEPT !.avail = free]
                ELSE [w EXCEPT !.pc = "copy", !.wi = write_idx, !.ri = read_idx]
    /\ UNCHANGED <<sharedVars, r, sent, received>>

(* Faulty variant: a full ring reports the shortfall, not the free space.  *)
WriteLoadShortfall ==
    /\ w.pc = "load"
    /\ LET free == Capacity - (write_idx - read_idx)
       IN  w' = IF Len(w.batch) > free
                THEN [NoWrite EXCEPT !.avail = free - Len(w.batch)]
                ELSE [w EXCEPT !.pc = "copy", !.wi = write_idx, !.ri = read_idx]
    /\ UNCHANGED <<sharedVars, r, sent, received>>

(* Both indices are loaded and the free space is computed from them; only  *)
(* the writer changes write_idx, so one step loads both.                   *)
WriteLoad ==
    /\ w.pc = "load"
    /\ LET free == Capacity - (write_idx - read_idx)
       IN  w' = IF Len(w.batch) > free
                THEN [NoWrite EXCEPT !.avail = free]
                ELSE [w EXCEPT !.pc = "copy", !.wi = write_idx, !.ri = read_idx]
    /\ UNCHANGED <<sharedVars, r, sent, received>>

(* What the first copy takes: up to the end of the payload.                *)
FirstChunk == MinOf(Len(w.batch), Capacity - Slot(w.wi))

(* Faulty variant: the index is published after the first copy.            *)
WriteCopyEarly ==
    /\ w.pc = "copy"
    /\ data' = Poke(data, Slot(w.wi), SubSeq(w.batch, 1, FirstChunk))
    /\ write_idx' = w.wi + FirstChunk
    /\ sent' = sent \o SubSeq(w.batch, 1, FirstChunk)
    /\ w' = IF FirstChunk = Len(w.batch) THEN NoWrite
            ELSE [w EXCEPT !.batch = SubSeq(@, FirstChunk + 1, Len(@)),
                           !.wi = @ + FirstChunk]
    /\ UNCHANGED <<read_idx, r, received>>

WriteCopy ==
    /\ w.pc = "copy"
    /\ data' = Poke(data, Slot(w.wi), SubSeq(w.batch, 1, FirstChunk))
    /\ w' = [w EXCEPT !.pc = IF FirstChunk < Len(w.batch) THEN "wrap" ELSE "publish"]
    /\ UNCHANGED <<write_idx, read_idx, r, sent, received>>

(* The second copy of a batch that wraps.                                  *)
WriteWrap ==
    /\ w.pc = "wrap"
    /\ data' = Poke(data, 0, SubSeq(w.batch, FirstChunk + 1, Len(w.batch)))
    /\ w' = [w EXCEPT !.pc = "publish"]
    /\ UNCHANGED <<write_idx, read_idx, r, sent, received>>

WritePublish ==
    /\ w.pc = "publish"
    /\ write_idx' = w.wi + Len(w.batch)
    /\ sent' = sent \o w.batch
    /\ w' = NoWrite
    /\ UNCHANGED <<read_idx, data, r, received>>

-----------------------------------------------------------------------------
(* The reader: available, the copies of read, and the release of the slots.*)

ReadLoad(max) ==
    /\ r.pc = "none"
    /\ write_idx # read_idx
    /\ r' = [pc |-> "copy", buf |-> <<>>, n |-> MinOf(write_idx - read_idx, max)]
    /\ UNCHANGED <<sharedVars, w, sent, received>>

FirstSlice == MinOf(r.n, Capacity - Slot(read_idx))

ReadCopy ==
    /\ r.pc = "copy"
    /\ r' = [r EXCEPT !.buf = Peek(data, Slot(read_idx), FirstSlice),
                      !.pc = IF FirstSlice < r.n THEN "wrap" ELSE "advance"]
    /\ UNCHANGED <<sharedVars, w, sent, received>>

ReadWrap ==
    /\ r.pc = "wrap"
    /\ r' = [r EXCEPT !.buf = @ \o Peek(data, 0, r.n - FirstSlice),
                      !.pc = "advance"]
    /\ UNCHANGED <<sharedVars, w, sent, received>>

(* Faulty variant: the read ends without storing the index.                *)
ReadAdvanceLost ==
    /\ r.pc = "advance"
    /\ r' = NoRead
    /\ UNCHANGED <<sharedVars, w, sent, received>>

ReadAdvance ==
    /\ r.pc = "advance"
    /\ read_idx' = read_idx + r.n
    /\ received' = received \o r.buf
    /\ r' = NoRead
    /\ UNCHANGED <<write_idx, data, w, sent>>

(* The process dies between two steps of a call and a new one opens the    *)
(* file: the indices are in the file, so nothing but the call is lost.     *)
ReaderCrash ==
    /\ r.pc # "none"
    /\ r' = NoRead
    /\ UNCHANGED <<sharedVars, w, sent, received>>

WriterStep == WriteLoad \/ WriteCopy \/ WriteWrap \/ WritePublish

ReaderStep ==
    \/ \E max \in 1..MaxRead : ReadLoad(max)
    \/ ReadCopy
    \/ ReadWrap
    \/ ReadAdvance

-----------------------------------------------------------------------------
(* Properties.                                                             *)

(* Type invariant.                                                         *)
RingTypeOK ==
    /\ write_idx \in Nat /\ read_idx \in Nat
    /\ data \in [0..(Capacity - 1) -> Nat]
    /\ w \in [pc : {"none", "load", "copy", "wrap", "publish"}, batch : Seq(Nat),
             wi : Nat, ri : Nat, avail : -1..Capacity]
    /\ r \in [pc : {"none", "copy", "wrap", "advance"}, buf : Seq(Nat), n : 0..MaxRead]
    /\ sent \in Seq(Nat) /\ received \in Seq(Nat)

WriterSlots ==
    IF w.pc \in {"copy", "wrap"}
    THEN {Slot(w.wi + k) : k \in 0..(Len(w.batch) - 1)} ELSE {}

ReaderSlots ==
    IF r.pc \in {"copy", "wrap"}
    THEN {Slot(read_idx + k) : k \in 0..(r.n - 1)} ELSE {}

(* No data race: although each side works on a stale index of the other,   *)
(* the slots a write is filling are never slots a read is copying.         *)
NoRace == WriterSlots \cap ReaderSlots = {}

(* Every published byte is read once, in order and as it was written, over *)
(* wraps, full rings and processes that die in the middle of a call; the   *)
(* free space of Write never goes below 0.                                 *)
FifoIntegrity ==
    /\ received = SubSeq(sent, 1, read_idx)
    /\ Len(sent) = write_idx
    /\ write_idx - read_idx \in 0..Capacity

=============================================================================
