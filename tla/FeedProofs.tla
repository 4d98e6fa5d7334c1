----------------------------- MODULE FeedProofs -----------------------------
(***************************************************************************)
(* Proofs about the two ways a feed comes in, MoldUDP64 frames through the *)
(* gap tracker and bytes through the shared ring, and about the            *)
(* write-ahead log that keeps what came in.                                *)
(*                                                                         *)
(* GapTracker, for every stream length, frame size and buffer capacity,    *)
(* malformed frames included: whatever the network loses, repeats or       *)
(* reorders, the sink sees 1, 2, 3, ..., the buffer stays within its       *)
(* capacity and no message is stranded behind expected.  DeliveredInOrder  *)
(* is inductive with the type invariant.  NothingStranded is not: inside   *)
(* the drain loop expected itself may be buffered.  Ahead says what holds  *)
(* at every step of the loops, and the test that ends the drain loop turns *)
(* it into NothingStranded.                                                *)
(*                                                                         *)
(* SpscRing and Ingest, for every capacity, read size, message size and    *)
(* number of crashes: the ring is free of races and loses, repeats and     *)
(* reorders nothing; what the live feed publishes ends with a whole        *)
(* message; Stop leaves nothing running and nothing open.  None of them is *)
(* inductive alone.  A copy takes several steps and works with indices     *)
(* read before it began, so RingInv says of each call what it still knows: *)
(* the write_idx the writer works with is current and the room it found is *)
(* still there, the bytes the reader found are still there; what has been  *)
(* copied so far is what the batch, or the stream, says; and what is       *)
(* published and not yet read is in its slots.  The producers' part says   *)
(* which call may be under way and which connection may be open at each    *)
(* point of flush_batch and Run.                                           *)
(*                                                                         *)
(* Wal, for every segment size, buffer size, number of records, failed     *)
(* calls and crashes: what a sync covered survives, a reader sees records  *)
(* only, in order and without a gap, and recovery cuts off nothing that a  *)
(* reader could see.  None of it is inductive, because a crash may keep    *)
(* any part of what was not synced.  WalInv says which segments have       *)
(* nothing left to sync (all below the open one; the open one too before   *)
(* the next is created), what the open segment and the buffer hold         *)
(* together (whole records, then the cells of the record under way), that  *)
(* the length cells of all segments ascend, also behind a torn append, and *)
(* in which segment the last synced record is.  It rests on lemmas about   *)
(* the scan: whole records in front of other cells are read first and as   *)
(* they are, and a file that grows replays what it did before.             *)
(***************************************************************************)
EXTENDS GapTracker, Ingest, Wal, Sums, SequenceTheorems

-----------------------------------------------------------------------------
(* The gap tracker.                                                        *)

(* What is buffered is finite, within capacity and ahead: strictly so      *)
(* outside the drain loop.                                                 *)
Ahead ==
    /\ IsFiniteSet(pending)
    /\ Cardinality(pending) <= max_buffered
    /\ \A s \in pending : s >= expected
    /\ pc # "drain" => expected \notin pending

TrackerInv == TypeOK /\ DeliveredInOrder /\ Ahead

(* The test of the drain loop finds the next message whenever it is in the *)
(* buffer: if nothing buffered is behind expected, expected is the first.  *)
LEMMA FirstIsExpected ==
    ASSUME TypeOK, expected \in pending, \A s \in pending : s >= expected
    PROVE  First(pending) = expected
<1>1. \A y \in pending : expected <= y
  BY DEF TypeOK
<1>2. /\ First(pending) \in pending
      /\ \A y \in pending : First(pending) <= y
  BY <1>1 DEF First
<1>3. First(pending) <= expected /\ expected <= First(pending)
  BY <1>1, <1>2
<1>4. First(pending) \in Nat /\ expected \in Nat
  BY <1>2 DEF TypeOK
<1> QED
  BY ONLY <1>3, <1>4

(* Giving the sink the expected message and advancing keeps what was       *)
(* delivered equal to 1..expected-1, in order.                             *)
LEMMA DeliverExpected ==
    ASSUME TypeOK, DeliveredInOrder,
           delivered' = Append(delivered, expected), expected' = expected + 1
    PROVE  /\ DeliveredInOrder'
           /\ delivered' \in Seq(Nat)
           /\ expected' \in Nat \ {0}
<1>1. delivered \in Seq(Nat) /\ expected \in Nat \ {0} /\ Len(delivered) = expected - 1
  BY DEF TypeOK, DeliveredInOrder
<1>2. Len(delivered') = Len(delivered) + 1
  BY <1>1
<1>3. ASSUME NEW i \in 1..Len(delivered') PROVE delivered'[i] = i
  <2>1. CASE i <= Len(delivered)
    BY <1>1, <1>2, <2>1 DEF DeliveredInOrder
  <2>2. CASE i > Len(delivered)
    BY <1>1, <1>2, <2>2
  <2> QED
    BY <1>1, <1>2, <2>1, <2>2
<1> QED
  BY <1>1, <1>2, <1>3 DEF DeliveredInOrder

(* ingest_one keeps the invariant in each of its four cases.               *)
LEMMA IngestOneKeeps ==
    ASSUME TrackerInv, pc = "iter", NEW seq \in Nat, IngestOne(seq)
    PROVE  /\ expected' \in Nat \ {0} /\ pending' \in SUBSET Nat
           /\ overflowed' \in BOOLEAN /\ delivered' \in Seq(Nat)
           /\ pc' \in {"iter", "drain"}
           /\ DeliveredInOrder'
           /\ Ahead'
<1> USE DEF TrackerInv
<1>0. /\ expected \in Nat \ {0} /\ pending \in SUBSET Nat /\ overflowed \in BOOLEAN
      /\ delivered \in Seq(Nat) /\ expected \notin pending
      /\ IsFiniteSet(pending) /\ max_buffered \in Nat
  BY TrackerAssumption DEF TypeOK, Ahead
<1>1. CASE UNCHANGED <<expected, pending, delivered>> /\ pc' = "iter" /\ overflowed' \in BOOLEAN
  BY <1>0, <1>1 DEF DeliveredInOrder, Ahead
<1>2. CASE /\ seq = expected /\ delivered' = Append(delivered, seq)
           /\ expected' = expected + 1 /\ pc' = "drain"
           /\ UNCHANGED <<pending, overflowed>>
  <2>1. DeliveredInOrder' /\ delivered' \in Seq(Nat) /\ expected' \in Nat \ {0}
    BY <1>2, DeliverExpected
  <2>2. \A s \in pending' : s >= expected'
    BY <1>0, <1>2 DEF Ahead
  <2> QED
    BY <1>0, <1>2, <2>1, <2>2 DEF Ahead
<1>3. CASE /\ seq > expected /\ Cardinality(pending) < max_buffered
           /\ pending' = pending \cup {seq} /\ pc' = "iter"
           /\ UNCHANGED <<expected, overflowed, delivered>>
  <2>1. /\ IsFiniteSet(pending \cup {seq})
        /\ Cardinality(pending \cup {seq}) =
                IF seq \in pending THEN Cardinality(pending) ELSE Cardinality(pending) + 1
    BY <1>0, FS_AddElement
  <2>2. Cardinality(pending) \in Nat
    BY <1>0, FS_CardinalityType
  <2>3. Cardinality(pending') <= max_buffered
    BY <1>0, <1>3, <2>1, <2>2
  <2>4. \A s \in pending' : s >= expected'
    BY <1>0, <1>3 DEF Ahead
  <2>5. DeliveredInOrder'
    BY <1>3 DEF DeliveredInOrder
  <2> QED
    BY <1>0, <1>3, <2>1, <2>3, <2>4, <2>5 DEF Ahead
<1> QED
  BY <1>0, <1>1, <1>2, <1>3 DEF IngestOne

LEMMA InitHolds == Init => TrackerInv
<1> SUFFICES ASSUME Init PROVE TrackerInv
  OBVIOUS
<1>1. IsFiniteSet({}) /\ Cardinality({}) = 0
  BY FS_EmptySet
<1>2. TypeOK
  <2>1. overflowed \in BOOLEAN
    BY Zenon DEF Init
  <2>2. delivered \in Seq(Nat) /\ pending \in SUBSET Nat
    BY DEF Init
  <2>3. iter \in [next_seq : Nat, remaining : Nat, whole : Nat]
    BY DEF Init, NoFrame
  <2>4. expected \in Nat \ {0} /\ pc \in {"idle", "iter", "drain"}
    BY DEF Init
  <2> QED
    BY <2>1, <2>2, <2>3, <2>4 DEF TypeOK
<1>3. DeliveredInOrder
  BY DEF Init, DeliveredInOrder
<1>4. Ahead
  BY <1>1, TrackerAssumption DEF Init, Ahead
<1> QED
  BY <1>2, <1>3, <1>4 DEF TrackerInv

LEMMA NextKeeps == TrackerInv /\ [Next]_trackerVars => TrackerInv'
<1> SUFFICES ASSUME TrackerInv, [Next]_trackerVars PROVE TrackerInv'
  OBVIOUS
<1> USE DEF TrackerInv
<1>0. /\ iter \in [next_seq : Nat, remaining : Nat, whole : Nat]
      /\ expected \in Nat \ {0} /\ pending \in SUBSET Nat
  BY DEF TypeOK
<1>1. CASE IterMessage
  <2>1. iter' \in [next_seq : Nat, remaining : Nat, whole : Nat]
    BY <1>0, <1>1 DEF IterMessage
  <2>2. pc = "iter" /\ iter.next_seq \in Nat /\ IngestOne(iter.next_seq)
    BY <1>0, <1>1 DEF IterMessage
  <2>3. /\ expected' \in Nat \ {0} /\ pending' \in SUBSET Nat
        /\ overflowed' \in BOOLEAN /\ delivered' \in Seq(Nat)
        /\ pc' \in {"iter", "drain"} /\ DeliveredInOrder' /\ Ahead'
    BY <2>2, IngestOneKeeps
  <2> QED
    BY <2>1, <2>3 DEF TypeOK
<1>2. CASE IterEnd
  BY <1>0, <1>2 DEF IterEnd, NoFrame, TypeOK, DeliveredInOrder, Ahead
<1>3. CASE DrainOne
  <2>1. DeliveredInOrder' /\ delivered' \in Seq(Nat) /\ expected' \in Nat \ {0}
    BY <1>3, DeliverExpected DEF DrainOne
  <2>2. /\ IsFiniteSet(pending \ {expected})
        /\ Cardinality(pending \ {expected}) =
                IF expected \in pending THEN Cardinality(pending) - 1 ELSE Cardinality(pending)
    BY FS_RemoveElement DEF Ahead
  <2>3. Cardinality(pending) \in Nat
    BY FS_CardinalityType DEF Ahead
  <2>4. IsFiniteSet(pending') /\ Cardinality(pending') <= max_buffered
    BY <1>3, <2>2, <2>3, TrackerAssumption DEF DrainOne, Ahead
  <2>5. \A s \in pending' : s >= expected'
    BY <1>0, <1>3 DEF DrainOne, Ahead
  <2>6. Ahead'
    BY <1>3, <2>4, <2>5 DEF DrainOne, Ahead
  <2> QED
    BY <1>0, <1>3, <2>1, <2>6 DEF DrainOne, TypeOK
<1>4. CASE DrainEnd
  <2>1. expected \notin pending
    BY <1>4, FirstIsExpected DEF DrainEnd, NextIsBuffered, Ahead
  <2> QED
    BY <1>4, <2>1 DEF DrainEnd, TypeOK, DeliveredInOrder, Ahead
<1>5. CASE Receive
  <2>1. PICK first \in 1..MaxSeq, count \in 0..MaxFrame :
            \E whole \in 0..count :
                /\ pc = "idle"
                /\ iter' = [next_seq |-> first, remaining |-> count, whole |-> whole]
                /\ pc' = "iter"
                /\ UNCHANGED <<expected, pending, overflowed, delivered>>
    BY <1>5 DEF Receive
  <2>2. iter' \in [next_seq : Nat, remaining : Nat, whole : Nat]
    BY <2>1, TrackerAssumption
  <2> QED
    BY <2>1, <2>2 DEF TypeOK, DeliveredInOrder, Ahead
<1>6. ASSUME NEW seq \in 1..MaxSeq, Retransmit(seq) PROVE TrackerInv'
  <2>1. iter' \in [next_seq : Nat, remaining : Nat, whole : Nat]
    BY <1>6, TrackerAssumption DEF Retransmit
  <2> QED
    BY <1>6, <2>1 DEF Retransmit, TypeOK, DeliveredInOrder, Ahead
<1>7. CASE UNCHANGED trackerVars
  BY <1>7 DEF trackerVars, TypeOK, DeliveredInOrder, Ahead
<1>8. CASE IterError
  BY <1>7, <1>8 DEF IterError
<1> QED
  BY <1>1, <1>2, <1>3, <1>4, <1>5, <1>6, <1>7, <1>8 DEF Next

LEMMA InvAlways == Spec => []TrackerInv
  BY InitHolds, NextKeeps, PTL DEF Spec

(* Type correctness of the tracker.                                        *)
THEOREM TypeCorrect == Spec => []TypeOK
<1>1. TrackerInv => TypeOK
  BY DEF TrackerInv
<1> QED
  BY <1>1, InvAlways, PTL

(* ingest and ingest_retransmit give the sink 1, 2, 3, ... in order, with  *)
(* nothing skipped and nothing twice, whatever frames arrive and however   *)
(* small the forward buffer is.                                            *)
THEOREM InOrder == Spec => []DeliveredInOrder
<1>1. TrackerInv => DeliveredInOrder
  BY DEF TrackerInv
<1> QED
  BY <1>1, InvAlways, PTL

(* The forward buffer never exceeds max_buffered entries and never holds a *)
(* message already delivered.                                              *)
THEOREM Bounded == Spec => []BufferBounded
<1>1. TrackerInv => BufferBounded
  BY DEF TrackerInv, Ahead, BufferBounded
<1> QED
  BY <1>1, InvAlways, PTL

(* When ingest returns, the drain loop has left nothing deliverable in the *)
(* buffer: every buffered message waits for an earlier one.                *)
THEOREM Drained == Spec => []NothingStranded
<1>1. TrackerInv => NothingStranded
  <2> SUFFICES ASSUME TrackerInv, pc = "idle", NEW s \in pending PROVE s > expected
    BY DEF NothingStranded
  <2> QED
    BY DEF TrackerInv, Ahead, TypeOK
<1> QED
  BY <1>1, InvAlways, PTL

(* A non-empty buffer has a first key.                                     *)
LEMMA FirstIsLeast ==
    ASSUME NEW S \in SUBSET Nat, S # {}
    PROVE  First(S) \in S /\ \A y \in S : First(S) <= y
<1> DEFINE less == {ss \in Nat \X Nat : ss[1] < ss[2]}
<1>1. IsWellFoundedOn(less, Nat)
  BY NatLessThanWellFounded DEF OpToRel
<1>2. PICK x \in S : \A y \in S : ~(<<y, x>> \in less)
  <2> HIDE DEF less
  <2> QED
    BY <1>1, WFMin
<1>3. ASSUME NEW y \in S PROVE x <= y
  <2>1. x \in Nat /\ y \in Nat /\ <<y, x>> \in Nat \X Nat
    OBVIOUS
  <2>2. ~(y < x)
    BY <1>2, <2>1
  <2> QED
    BY ONLY <2>1, <2>2
<1> QED
  BY <1>3 DEF First

(* When ingest returns, open_gap is the non-empty range of undelivered     *)
(* messages before the first buffered one, and asks for nothing else.      *)
THEOREM GapExact == Spec => []GapIsExact
<1>1. TrackerInv => GapIsExact
  <2> SUFFICES ASSUME TrackerInv, pc = "idle", pending # {}
               PROVE  /\ OpenGap # {}
                      /\ OpenGap \cap pending = {}
                      /\ \A s \in OpenGap : s >= expected
                      /\ \A s \in pending : \A g \in OpenGap : g < s
    BY DEF GapIsExact
  <2> DEFINE f == First(pending)
  <2>1. f \in pending /\ \A y \in pending : f <= y
    BY FirstIsLeast DEF TrackerInv, TypeOK
  <2>2. /\ pending \in SUBSET Nat /\ expected \in Nat
        /\ \A s \in pending : s > expected
    BY DEF TrackerInv, TypeOK, Ahead
  <2>3. OpenGap = expected..(f - 1)
    BY <2>1, <2>2 DEF OpenGap
  <2> HIDE DEF f
  <2>4. expected \in OpenGap
    BY <2>1, <2>2, <2>3
  <2>5. ASSUME NEW g \in OpenGap, NEW s \in pending PROVE g >= expected /\ g < s
    <3>1. f <= s /\ g \in expected..(f - 1) /\ s \in Nat /\ f \in Nat /\ expected \in Nat
      BY <2>1, <2>2, <2>3
    <3> QED
      BY ONLY <3>1
  <2>6. \A s \in pending : s \in Nat
    BY <2>2
  <2> QED
    BY <2>1, <2>4, <2>5, <2>6
<1> QED
  BY <1>1, InvAlways, PTL

-----------------------------------------------------------------------------
(* Slots.  A position is the index of a byte in the stream, from 0.        *)

LEMMA DivMod ==
    ASSUME NEW p \in Nat
    PROVE  /\ Slot(p) \in 0..(Capacity - 1)
           /\ p \div Capacity \in Nat
           /\ p = Capacity * (p \div Capacity) + Slot(p)
BY RingAssumption DEF Slot

LEMMA DivModUnique ==
    ASSUME NEW p \in Nat, NEW q \in Nat, NEW s \in 0..(Capacity - 1),
           p = Capacity * q + s
    PROVE  Slot(p) = s
BY RingAssumption DEF Slot

(* Short of the end of the payload, positions and slots advance together.  *)
LEMMA SlotAhead ==
    ASSUME NEW p \in Nat, NEW k \in Nat, k < Capacity - Slot(p)
    PROVE  Slot(p + k) = Slot(p) + k
<1> DEFINE q == p \div Capacity
           m == Capacity * q
           s == Slot(p) + k
<1>1. Slot(p) \in 0..(Capacity - 1) /\ q \in Nat /\ p = m + Slot(p)
  BY DivMod
<1>2. m \in Nat /\ Capacity \in Nat
  BY <1>1, RingAssumption
<1> HIDE DEF q, m
<1>3. p + k = m + s /\ s \in 0..(Capacity - 1) /\ p + k \in Nat
  BY <1>1, <1>2
<1> HIDE DEF s
<1>4. Slot(p + k) = s
  BY <1>1, <1>3, DivModUnique DEF m
<1> QED
  BY <1>4 DEF s

(* Past the end of the payload they are one capacity apart.                *)
LEMMA SlotWrapped ==
    ASSUME NEW p \in Nat, NEW k \in Nat,
           k >= Capacity - Slot(p), k < 2 * Capacity - Slot(p)
    PROVE  Slot(p + k) = Slot(p) + k - Capacity
<1> DEFINE q == p \div Capacity
           q1 == q + 1
           m == Capacity * q
           m1 == Capacity * q1
           s == Slot(p) + k - Capacity
<1>1. Slot(p) \in 0..(Capacity - 1) /\ q \in Nat /\ p = m + Slot(p)
  BY DivMod
<1>2. m1 = m + Capacity /\ m \in Nat /\ Capacity \in Nat
  BY <1>1, RingAssumption
<1> HIDE DEF q, m, m1
<1>3. q1 \in Nat /\ s \in 0..(Capacity - 1) /\ p + k \in Nat
  BY <1>1, <1>2
<1>4. p + k = m1 + s
  BY <1>1, <1>2
<1> HIDE DEF s, q1
<1>5. Slot(p + k) = s
  BY <1>3, <1>4, DivModUnique DEF m1
<1> QED
  BY <1>5 DEF s

LEMMA SlotType ==
    ASSUME NEW p \in Nat
    PROVE  Slot(p) \in 0..(Capacity - 1) /\ Slot(p) \in Nat
BY DivMod, RingAssumption

(* Two positions less than a capacity apart never share a slot.            *)
LEMMA SlotsApart ==
    ASSUME NEW p \in Nat, NEW q \in Nat, q - p \in 1..(Capacity - 1)
    PROVE  Slot(p) # Slot(q)
<1> DEFINE k == q - p
<1>1. Slot(p) \in 0..(Capacity - 1) /\ Capacity \in Nat /\ k \in Nat /\ q = p + k
  BY SlotType, RingAssumption
<1> HIDE DEF k
<1>2. CASE k < Capacity - Slot(p)
  <2>1. Slot(p + k) = Slot(p) + k
    BY <1>1, <1>2, SlotAhead
  <2> QED
    BY <2>1, <1>1 DEF k
<1>3. CASE k >= Capacity - Slot(p)
  <2>1. k < 2 * Capacity - Slot(p)
    BY <1>1 DEF k
  <2>2. Slot(p + k) = Slot(p) + k - Capacity
    BY <1>1, <1>3, <2>1, SlotWrapped
  <2> QED
    BY <2>2, <1>1 DEF k
<1> QED
  BY <1>1, <1>2, <1>3

(* n positions from b that do not wrap.                                    *)
LEMMA SlotRun ==
    ASSUME NEW b \in Nat, NEW n \in Nat, Slot(b) + n <= Capacity
    PROVE  \A k \in 1..n : /\ Slot(b + k - 1) = Slot(b) + k - 1
                           /\ Slot(b) + k - 1 \in 0..(Capacity - 1)
<1> SUFFICES ASSUME NEW k \in 1..n
             PROVE  Slot(b + k - 1) = Slot(b) + k - 1 /\ Slot(b) + k - 1 \in 0..(Capacity - 1)
  OBVIOUS
<1> DEFINE j == k - 1
<1>1. Capacity \in Nat \ {0} /\ Slot(b) \in 0..(Capacity - 1)
  BY SlotType, RingAssumption
<1>2. /\ j \in Nat /\ j < Capacity - Slot(b)
      /\ b + k - 1 = b + j /\ Slot(b) + k - 1 = Slot(b) + j
      /\ Slot(b) + j \in 0..(Capacity - 1)
  BY <1>1
<1> HIDE DEF j
<1>3. Slot(b + j) = Slot(b) + j
  BY <1>2, SlotAhead
<1> QED
  BY <1>2, <1>3

-----------------------------------------------------------------------------
(* Copies.                                                                 *)

(* A function on 1..n is a sequence of length n.                           *)
LEMMA TableIsSeq ==
    ASSUME NEW S, NEW n \in Nat, NEW f, f \in [1..n -> S]
    PROVE  f \in Seq(S) /\ Len(f) = n
<1>1. f \in Seq(S)
  BY SeqDef
<1>2. Len(f) \in Nat /\ 1..Len(f) = 1..n
  BY <1>1, LenProperties
<1> QED
  BY <1>1, <1>2

(* What is left of a sequence of length n behind its first m elements.     *)
LEMMA SuffixOf ==
    ASSUME NEW s \in Seq(Nat), NEW m \in Nat, NEW n \in Nat, n = Len(s), m <= n
    PROVE  /\ SubSeq(s, m + 1, n) \in Seq(Nat)
           /\ Len(SubSeq(s, m + 1, n)) = n - m
           /\ \A j \in 1..(n - m) : SubSeq(s, m + 1, n)[j] = s[m + j]
BY SMT

LEMMA PrefixOf ==
    ASSUME NEW s \in Seq(Nat), NEW m \in Nat, m <= Len(s)
    PROVE  /\ SubSeq(s, 1, m) \in Seq(Nat)
           /\ Len(SubSeq(s, 1, m)) = m
           /\ \A j \in 1..m : SubSeq(s, 1, m)[j] = s[j]
BY SMT

Payload == [0..(Capacity - 1) -> Nat]

(* A copy into the payload at position b, without wrap: the bytes are at   *)
(* their positions and every other slot is as it was.                      *)
LEMMA CopyIn ==
    ASSUME NEW d \in Payload, NEW b \in Nat, NEW src \in Seq(Nat),
           Slot(b) + Len(src) <= Capacity
    PROVE  /\ Poke(d, Slot(b), src) \in Payload
           /\ \A k \in 1..Len(src) : Poke(d, Slot(b), src)[Slot(b + k - 1)] = src[k]
           /\ \A p \in Nat : (\A k \in 1..Len(src) : Slot(p) # Slot(b + k - 1))
                                => Poke(d, Slot(b), src)[Slot(p)] = d[Slot(p)]
<1> DEFINE e == Poke(d, Slot(b), src)
           n == Len(src)
<1>1. Capacity \in Nat \ {0} /\ Slot(b) \in 0..(Capacity - 1) /\ n \in Nat
  BY SlotType, RingAssumption
<1>2. /\ DOMAIN d = 0..(Capacity - 1)
      /\ \A i \in 0..(Capacity - 1) : d[i] \in Nat
      /\ \A i \in 1..n : src[i] \in Nat
  BY DEF Payload
<1>3. /\ DOMAIN e = 0..(Capacity - 1)
      /\ \A i \in 0..(Capacity - 1) :
            e[i] = IF i - Slot(b) + 1 \in 1..n THEN src[i - Slot(b) + 1] ELSE d[i]
      /\ e \in Payload
  BY <1>1, <1>2 DEF Poke, Payload
<1>4. \A k \in 1..n : Slot(b + k - 1) = Slot(b) + k - 1 /\ Slot(b) + k - 1 \in 0..(Capacity - 1)
  BY <1>1, SlotRun
<1> HIDE DEF e, n
<1>5. ASSUME NEW k \in 1..n PROVE e[Slot(b + k - 1)] = src[k]
  <2>1. /\ Slot(b + k - 1) = Slot(b) + k - 1 /\ Slot(b) + k - 1 \in 0..(Capacity - 1)
    BY <1>4
  <2>2. (Slot(b) + k - 1) - Slot(b) + 1 = k
    BY <1>1
  <2> QED
    BY <2>1, <2>2, <1>3
<1>6. ASSUME NEW p \in Nat, \A k \in 1..n : Slot(p) # Slot(b + k - 1)
      PROVE  e[Slot(p)] = d[Slot(p)]
  <2> DEFINE k == Slot(p) - Slot(b) + 1
  <2>0. Slot(p) \in 0..(Capacity - 1)
    BY SlotType
  <2>1. Slot(p) \in 0..(Capacity - 1) /\ k \in Int
    BY ONLY <2>0, <1>1
  <2>2. CASE k \in 1..n
    <3>1. Slot(b + k - 1) = Slot(b) + k - 1
      BY <1>4, <2>2
    <3>2. Slot(b) + k - 1 = Slot(p)
      BY <1>1, <2>1
    <3> QED
      BY <3>1, <3>2, <2>2, <1>6
  <2>3. CASE k \notin 1..n
    BY <2>1, <2>3, <1>3
  <2> QED
    BY <2>2, <2>3
<1> QED
  BY <1>3, <1>5, <1>6 DEF e, n

(* A copy out of the payload from position b, without wrap.                *)
LEMMA CopyOut ==
    ASSUME NEW d \in Payload, NEW b \in Nat, NEW n \in Nat, Slot(b) + n <= Capacity
    PROVE  /\ Peek(d, Slot(b), n) \in Seq(Nat)
           /\ Len(Peek(d, Slot(b), n)) = n
           /\ \A k \in 1..n : Peek(d, Slot(b), n)[k] = d[Slot(b + k - 1)]
<1>1. Capacity \in Nat \ {0} /\ Slot(b) \in 0..(Capacity - 1)
  BY SlotType, RingAssumption
<1>2. \A k \in 1..n : Slot(b + k - 1) = Slot(b) + k - 1 /\ Slot(b) + k - 1 \in 0..(Capacity - 1)
  BY SlotRun
<1>3. \A i \in 0..(Capacity - 1) : d[i] \in Nat
  BY DEF Payload
<1>4. Peek(d, Slot(b), n) = [k \in 1..n |-> d[Slot(b) + k - 1]]
  BY DEF Peek
<1>5. \A k \in 1..n : d[Slot(b) + k - 1] \in Nat
  BY <1>2, <1>3
<1>6. Peek(d, Slot(b), n) \in [1..n -> Nat]
  BY <1>4, <1>5
<1>7. \A k \in 1..n : Peek(d, Slot(b), n)[k] = d[Slot(b + k - 1)]
  BY <1>2, <1>4
<1> QED
  BY <1>6, <1>7, TableIsSeq

-----------------------------------------------------------------------------
(* The ring's invariant.                                                   *)

(* The indices are a capacity apart at most, and what was received is what *)
(* was sent, up to read_idx.                                               *)
Indices ==
    /\ Len(sent) = write_idx
    /\ Len(received) = read_idx
    /\ read_idx <= write_idx /\ write_idx - read_idx <= Capacity
    /\ \A i \in 1..read_idx : received[i] = sent[i]

(* Every byte that was sent and not read yet is in its slot.               *)
Unread == \A p \in read_idx..(write_idx - 1) : data[Slot(p)] = sent[p + 1]

(* A write under way fits into the free space, and what it has copied so   *)
(* far is in its slots.                                                    *)
WriterInv ==
    /\ w.pc \in {"copy", "wrap", "publish"} =>
          w.wi = write_idx /\ write_idx + Len(w.batch) - read_idx <= Capacity
    /\ w.pc = "wrap" =>
          /\ FirstChunk < Len(w.batch)
          /\ \A k \in 1..FirstChunk : data[Slot(w.wi + k - 1)] = w.batch[k]
    /\ w.pc = "publish" =>
          \A k \in 1..Len(w.batch) : data[Slot(w.wi + k - 1)] = w.batch[k]

(* A read under way takes no more than there is, and what it has copied so *)
(* far is what was sent.                                                   *)
ReaderInv ==
    /\ r.pc # "none" => r.n <= write_idx - read_idx
    /\ r.pc = "wrap" =>
          /\ FirstSlice < r.n /\ Len(r.buf) = FirstSlice
          /\ \A k \in 1..FirstSlice : r.buf[k] = sent[read_idx + k]
    /\ r.pc = "advance" =>
          /\ Len(r.buf) = r.n
          /\ \A k \in 1..r.n : r.buf[k] = sent[read_idx + k]

WriteRec == [pc : {"none", "load", "copy", "wrap", "publish"}, batch : Seq(Nat),
             wi : Nat, ri : Nat, avail : -1..Capacity]

ReadRec == [pc : {"none", "copy", "wrap", "advance"}, buf : Seq(Nat), n : 0..MaxRead]

RingInv == RingTypeOK /\ Indices /\ Unread /\ WriterInv /\ ReaderInv

LEMMA RingFacts ==
    ASSUME RingInv
    PROVE  /\ Capacity \in Nat \ {0} /\ MaxRead \in Nat \ {0}
           /\ write_idx \in Nat /\ read_idx \in Nat
           /\ read_idx <= write_idx /\ write_idx - read_idx <= Capacity
           /\ data \in Payload
           /\ w.pc \in {"none", "load", "copy", "wrap", "publish"}
           /\ w.batch \in Seq(Nat) /\ Len(w.batch) \in Nat /\ w.wi \in Nat
           /\ r.pc \in {"none", "copy", "wrap", "advance"}
           /\ r.buf \in Seq(Nat) /\ Len(r.buf) \in Nat /\ r.n \in Nat
           /\ sent \in Seq(Nat) /\ received \in Seq(Nat)
           /\ Len(sent) = write_idx /\ Len(received) = read_idx
BY RingAssumption DEF RingInv, RingTypeOK, Indices, Payload

LEMMA NoWriteType == NoWrite \in WriteRec
<1>1. -1 \in -1..Capacity /\ <<>> \in Seq(Nat)
  BY RingAssumption
<1> QED
  BY ONLY <1>1 DEF NoWrite, WriteRec

LEMMA RingInitHolds == RingInit => RingInv
<1> SUFFICES ASSUME RingInit PROVE RingInv
  OBVIOUS
<1>1. Capacity \in Nat \ {0} /\ MaxRead \in Nat \ {0}
  BY RingAssumption
<1>2. RingTypeOK
  BY <1>1 DEF RingInit, RingTypeOK, NoWrite, NoRead
<1>3. Indices
  BY <1>1 DEF RingInit, Indices
<1>4. Unread
  BY DEF RingInit, Unread
<1>5. WriterInv /\ ReaderInv
  BY DEF RingInit, WriterInv, ReaderInv, NoWrite, NoRead
<1> QED
  BY <1>2, <1>3, <1>4, <1>5 DEF RingInv

LEMMA WriteCallKeeps ==
    ASSUME RingInv, NEW batch \in Seq(Nat), WriteCall(batch)
    PROVE  RingInv'
<1> USE DEF WriteCall, sharedVars, RingInv
<1>0. w' \in WriteRec
  BY RingAssumption DEF WriteRec
<1>1. RingTypeOK'
  BY <1>0 DEF RingTypeOK, WriteRec
<1>2. Indices' /\ Unread'
  BY DEF Indices, Unread
<1>3. WriterInv' /\ ReaderInv'
  BY DEF WriterInv, ReaderInv, FirstSlice
<1> QED
  BY <1>1, <1>2, <1>3

LEMMA WriteLoadKeeps ==
    ASSUME RingInv, WriteLoad
    PROVE  RingInv'
<1> USE DEF sharedVars, RingInv
<1> DEFINE free == Capacity - (write_idx - read_idx)
<1>0. /\ free \in 0..Capacity
  BY RingFacts
<1>1. CASE w' = [NoWrite EXCEPT !.avail = free]
  <2>0. w' \in WriteRec
    <3>1. free \in -1..Capacity /\ <<>> \in Seq(Nat)
      BY <1>0, RingAssumption
    <3> HIDE DEF free
    <3>2. w' = [pc |-> "none", batch |-> <<>>, wi |-> 0, ri |-> 0, avail |-> free]
      BY <1>1 DEF NoWrite
    <3> QED
      BY ONLY <3>1, <3>2 DEF WriteRec
  <2>1. RingTypeOK'
    BY <2>0 DEF RingTypeOK, WriteLoad, WriteRec
  <2>2. WriterInv'
    BY <1>1 DEF WriterInv, NoWrite
  <2> QED
    BY <2>1, <2>2 DEF WriteLoad, Indices, Unread, ReaderInv, FirstSlice
<1>2. CASE /\ Len(w.batch) <= free
           /\ w' = [w EXCEPT !.pc = "copy", !.wi = write_idx, !.ri = read_idx]
  <2>1. RingTypeOK'
    BY <1>2, RingFacts DEF RingTypeOK, WriteLoad
  <2>2. w'.pc = "copy" /\ w'.wi = write_idx /\ w'.batch = w.batch
    BY <1>2 DEF RingTypeOK
  <2>3. WriterInv'
    BY <1>2, <2>2, RingFacts DEF WriterInv, WriteLoad
  <2> QED
    BY <2>1, <2>3 DEF WriteLoad, Indices, Unread, ReaderInv, FirstSlice
<1> QED
  BY <1>0, <1>1, <1>2, RingFacts DEF WriteLoad

(* Bytes copied in at or after write_idx, within the free space, are in no *)
(* slot of an unread byte.                                                 *)
LEMMA FreeIsApart ==
    ASSUME RingInv, NEW p \in read_idx..(write_idx - 1), NEW q \in Nat,
           q >= write_idx, q < read_idx + Capacity
    PROVE  Slot(p) # Slot(q)
<1>1. p \in Nat /\ q - p \in 1..(Capacity - 1)
  BY RingFacts
<1> QED
  BY <1>1, SlotsApart

LEMMA ChunkFacts ==
    ASSUME RingInv, w.pc \in {"copy", "wrap"}
    PROVE  /\ FirstChunk \in Nat /\ FirstChunk <= Len(w.batch)
           /\ Slot(w.wi) + FirstChunk <= Capacity
           /\ FirstChunk < Len(w.batch) => FirstChunk = Capacity - Slot(w.wi)
           /\ w.wi = write_idx /\ write_idx + Len(w.batch) - read_idx <= Capacity
<1>1. Slot(w.wi) \in 0..(Capacity - 1)
  BY RingFacts, SlotType
<1>2. Len(w.batch) \in Nat /\ Capacity \in Nat
  BY RingFacts
<1>3. FirstChunk = IF Len(w.batch) <= Capacity - Slot(w.wi) THEN Len(w.batch)
                   ELSE Capacity - Slot(w.wi)
  BY DEF FirstChunk, MinOf
<1>4. w.wi = write_idx /\ write_idx + Len(w.batch) - read_idx <= Capacity
  BY DEF RingInv, WriterInv
<1> QED
  BY ONLY <1>1, <1>2, <1>3, <1>4

LEMMA WriteCopyKeeps ==
    ASSUME RingInv, WriteCopy
    PROVE  RingInv'
<1> DEFINE n == FirstChunk
           chunk == SubSeq(w.batch, 1, n)
<1>1. /\ n \in Nat /\ n <= Len(w.batch) /\ Slot(w.wi) + n <= Capacity
      /\ w.wi = write_idx /\ write_idx + Len(w.batch) - read_idx <= Capacity
  BY ChunkFacts DEF WriteCopy
<1>2. /\ w.batch \in Seq(Nat) /\ Len(w.batch) \in Nat /\ w.wi \in Nat /\ data \in Payload
      /\ read_idx \in Nat /\ write_idx \in Nat /\ Capacity \in Nat /\ w \in WriteRec
  BY RingFacts DEF RingInv, RingTypeOK, WriteRec
<1>3. /\ w' \in WriteRec /\ w'.batch = w.batch /\ w'.wi = w.wi
      /\ w'.pc = IF n < Len(w.batch) THEN "wrap" ELSE "publish"
  BY <1>2 DEF WriteCopy, WriteRec
<1>4. FirstChunk' = n
  BY <1>3 DEF FirstChunk
<1> HIDE DEF n
<1>5. chunk \in Seq(Nat) /\ Len(chunk) = n /\ \A k \in 1..n : chunk[k] = w.batch[k]
  BY ONLY <1>1, <1>2, PrefixOf
<1>6. data' = Poke(data, Slot(w.wi), chunk)
  BY DEF WriteCopy, n
<1> HIDE DEF chunk
<1>7. /\ data' \in Payload
      /\ \A k \in 1..n : data'[Slot(w.wi + k - 1)] = w.batch[k]
      /\ \A p \in Nat : (\A k \in 1..n : Slot(p) # Slot(w.wi + k - 1))
                            => data'[Slot(p)] = data[Slot(p)]
  <2>1. Slot(w.wi) + Len(chunk) <= Capacity
    BY <1>1, <1>5
  <2>2. /\ Poke(data, Slot(w.wi), chunk) \in Payload
        /\ \A k \in 1..Len(chunk) : Poke(data, Slot(w.wi), chunk)[Slot(w.wi + k - 1)] = chunk[k]
        /\ \A p \in Nat : (\A k \in 1..Len(chunk) : Slot(p) # Slot(w.wi + k - 1))
                             => Poke(data, Slot(w.wi), chunk)[Slot(p)] = data[Slot(p)]
    BY ONLY <2>1, <1>2, <1>5, CopyIn
  <2> QED
    BY ONLY <2>2, <1>5, <1>6
<1>8. RingTypeOK'
  BY <1>3, <1>7 DEF RingInv, RingTypeOK, WriteCopy, WriteRec, Payload
<1>9. Indices' /\ ReaderInv'
  BY DEF RingInv, Indices, ReaderInv, WriteCopy, FirstSlice
<1>10. Unread'
  <2> SUFFICES ASSUME NEW p \in read_idx..(write_idx - 1)
               PROVE  data'[Slot(p)] = sent[p + 1]
    BY DEF Unread, WriteCopy
  <2>1. ASSUME NEW k \in 1..n PROVE Slot(p) # Slot(w.wi + k - 1)
    <3>1. w.wi + k - 1 \in Nat /\ w.wi + k - 1 >= write_idx /\ w.wi + k - 1 < read_idx + Capacity
      BY <1>1, <1>2
    <3> QED
      BY <3>1, FreeIsApart
  <2>2. p \in Nat /\ data[Slot(p)] = sent[p + 1]
    BY <1>2 DEF RingInv, Unread
  <2> QED
    BY <2>1, <2>2, <1>7
<1>11. WriterInv'
  <2>1. write_idx' = write_idx /\ read_idx' = read_idx
    BY DEF WriteCopy
  <2>2. CASE n < Len(w.batch)
    BY <2>1, <2>2, <1>1, <1>3, <1>4, <1>7 DEF WriterInv
  <2>3. CASE n = Len(w.batch)
    BY <2>1, <2>3, <1>1, <1>2, <1>3, <1>7 DEF WriterInv
  <2> QED
    BY <2>2, <2>3, <1>1, <1>2
<1> QED
  BY <1>8, <1>9, <1>10, <1>11 DEF RingInv

LEMMA WriteWrapKeeps ==
    ASSUME RingInv, WriteWrap
    PROVE  RingInv'
<1> DEFINE m == FirstChunk
           len == Len(w.batch)
           rest == SubSeq(w.batch, m + 1, len)
           b == w.wi + m
<1>1. /\ m \in Nat /\ m < len /\ m = Capacity - Slot(w.wi)
      /\ w.wi = write_idx /\ write_idx + len - read_idx <= Capacity
      /\ \A k \in 1..m : data[Slot(w.wi + k - 1)] = w.batch[k]
  BY ChunkFacts DEF WriteWrap, RingInv, WriterInv
<1>2. /\ w.batch \in Seq(Nat) /\ len \in Nat /\ w.wi \in Nat /\ data \in Payload
      /\ read_idx \in Nat /\ write_idx \in Nat /\ Capacity \in Nat \ {0} /\ w \in WriteRec
      /\ read_idx <= write_idx
  BY RingFacts DEF RingInv, RingTypeOK, WriteRec
<1>3. w' \in WriteRec /\ w'.batch = w.batch /\ w'.wi = w.wi /\ w'.pc = "publish"
  BY <1>2 DEF WriteWrap, WriteRec
<1> HIDE DEF m
<1>0. /\ m \in Nat /\ len \in Nat /\ w.wi \in Nat /\ Capacity \in Nat \ {0}
      /\ read_idx \in Nat /\ write_idx \in Nat /\ m < len /\ m = Capacity - Slot(w.wi)
      /\ w.wi = write_idx /\ write_idx + len - read_idx <= Capacity /\ read_idx <= write_idx
      /\ Slot(w.wi) \in 0..(Capacity - 1)
  BY <1>1, <1>2, SlotType
<1>4. Slot(b) = 0 /\ b \in Nat
  <2>1. m >= Capacity - Slot(w.wi) /\ m < 2 * Capacity - Slot(w.wi)
    BY ONLY <1>0
  <2>2. Slot(w.wi + m) = Slot(w.wi) + m - Capacity
    BY <2>1, <1>0, SlotWrapped
  <2>3. Slot(w.wi) + m - Capacity = 0 /\ w.wi + m \in Nat
    BY ONLY <1>0
  <2> QED
    BY ONLY <2>2, <2>3
<1>5. rest \in Seq(Nat) /\ Len(rest) = len - m /\ \A j \in 1..(len - m) : rest[j] = w.batch[m + j]
  <2>1. w.batch \in Seq(Nat) /\ m \in Nat /\ len \in Nat /\ len = Len(w.batch) /\ m <= len
    BY <1>0, <1>2
  <2> HIDE DEF len
  <2> QED
    BY ONLY <2>1, SuffixOf
<1>6. data' = Poke(data, Slot(b), rest)
  BY <1>4 DEF WriteWrap, m
<1>7. Slot(b) + Len(rest) <= Capacity
  BY <1>1, <1>2, <1>4, <1>5
<1> HIDE DEF rest, b, len
<1>8. /\ data' \in Payload
      /\ \A j \in 1..(len - m) : data'[Slot(b + j - 1)] = w.batch[m + j]
      /\ \A p \in Nat : (\A j \in 1..(len - m) : Slot(p) # Slot(b + j - 1))
                            => data'[Slot(p)] = data[Slot(p)]
  <2>2. /\ Poke(data, Slot(b), rest) \in Payload
        /\ \A k \in 1..Len(rest) : Poke(data, Slot(b), rest)[Slot(b + k - 1)] = rest[k]
        /\ \A p \in Nat : (\A k \in 1..Len(rest) : Slot(p) # Slot(b + k - 1))
                             => Poke(data, Slot(b), rest)[Slot(p)] = data[Slot(p)]
    <3>1. data \in Payload /\ b \in Nat /\ rest \in Seq(Nat) /\ Slot(b) + Len(rest) <= Capacity
      BY <1>7, <1>2, <1>4, <1>5
    <3> QED
      BY ONLY <3>1, CopyIn
  <2>3. /\ data' \in Payload
        /\ \A k \in 1..(len - m) : data'[Slot(b + k - 1)] = rest[k]
        /\ \A p \in Nat : (\A j \in 1..(len - m) : Slot(p) # Slot(b + j - 1))
                            => data'[Slot(p)] = data[Slot(p)]
    <3>1. Len(rest) = len - m
      BY <1>5
    <3> QED
      BY ONLY <2>2, <3>1, <1>6
  <2>4. ASSUME NEW j \in 1..(len - m) PROVE data'[Slot(b + j - 1)] = w.batch[m + j]
    BY <2>3, <1>5
  <2> QED
    BY ONLY <2>3, <2>4
<1>9. RingTypeOK'
  BY <1>3, <1>8 DEF RingInv, RingTypeOK, WriteWrap, WriteRec, Payload
<1>10. Indices' /\ ReaderInv'
  BY DEF RingInv, Indices, ReaderInv, WriteWrap, FirstSlice
<1>11. Unread'
  <2> SUFFICES ASSUME NEW p \in read_idx..(write_idx - 1)
               PROVE  data'[Slot(p)] = sent[p + 1]
    BY DEF Unread, WriteWrap
  <2>1. ASSUME NEW j \in 1..(len - m) PROVE Slot(p) # Slot(b + j - 1)
    <3>1. b + j - 1 \in Nat /\ b + j - 1 >= write_idx /\ b + j - 1 < read_idx + Capacity
      BY <1>1, <1>2 DEF b
    <3> QED
      BY <3>1, FreeIsApart
  <2>2. p \in Nat /\ data[Slot(p)] = sent[p + 1]
    BY <1>2 DEF RingInv, Unread
  <2> QED
    BY <2>1, <2>2, <1>8
<1>12. ASSUME NEW k \in 1..len PROVE data'[Slot(w.wi + k - 1)] = w.batch[k]
  <2>1. CASE k <= m
    <3> DEFINE p == w.wi + k - 1
    <3>1. p \in Nat /\ data[Slot(p)] = w.batch[k]
      BY <2>1, <1>1, <1>2
    <3>2. ASSUME NEW j \in 1..(len - m) PROVE Slot(p) # Slot(b + j - 1)
      <4>1. b + j - 1 \in Nat /\ (b + j - 1) - p \in 1..(Capacity - 1)
        BY ONLY <2>1, <1>0, j \in 1..(len - m), k \in 1..len DEF b
      <4> QED
        BY <3>1, <4>1, SlotsApart
    <3> QED
      BY <3>1, <3>2, <1>8
  <2>2. CASE k > m
    <3>1. k - m \in 1..(len - m) /\ b + (k - m) - 1 = w.wi + k - 1 /\ m + (k - m) = k
      BY <2>2, <1>1, <1>2 DEF b
    <3> QED
      BY <3>1, <1>8
  <2> QED
    BY <2>1, <2>2, <1>1, <1>2
<1>13. WriterInv'
  <2>1. write_idx' = write_idx /\ read_idx' = read_idx
    BY DEF WriteWrap
  <2> QED
    BY <2>1, <1>1, <1>3, <1>12 DEF WriterInv, len
<1> QED
  BY <1>9, <1>10, <1>11, <1>13 DEF RingInv

LEMMA SliceFacts ==
    ASSUME RingInv, r.pc # "none"
    PROVE  /\ FirstSlice \in Nat /\ FirstSlice <= r.n
           /\ Slot(read_idx) + FirstSlice <= Capacity
           /\ FirstSlice < r.n => FirstSlice = Capacity - Slot(read_idx)
           /\ r.n \in Nat /\ r.n <= write_idx - read_idx
<1>1. Slot(read_idx) \in 0..(Capacity - 1)
  BY RingFacts, SlotType
<1>2. r.n \in Nat /\ Capacity \in Nat
  BY RingFacts
<1>3. FirstSlice = IF r.n <= Capacity - Slot(read_idx) THEN r.n ELSE Capacity - Slot(read_idx)
  BY DEF FirstSlice, MinOf
<1>4. r.n <= write_idx - read_idx
  BY DEF RingInv, ReaderInv
<1> QED
  BY ONLY <1>1, <1>2, <1>3, <1>4

(* Concatenation, pointwise.                                               *)
LEMMA Concat ==
    ASSUME NEW s \in Seq(Nat), NEW t \in Seq(Nat)
    PROVE  /\ s \o t \in Seq(Nat)
           /\ Len(s \o t) = Len(s) + Len(t)
           /\ \A i \in 1..Len(s) : (s \o t)[i] = s[i]
           /\ \A k \in 1..Len(t) : (s \o t)[Len(s) + k] = t[k]
BY SMT

LEMMA WritePublishKeeps ==
    ASSUME RingInv, WritePublish
    PROVE  RingInv'
<1> DEFINE len == Len(w.batch)
<1>1. /\ w.wi = write_idx /\ write_idx + len - read_idx <= Capacity
      /\ \A k \in 1..len : data[Slot(write_idx + k - 1)] = w.batch[k]
  BY DEF WritePublish, RingInv, WriterInv
<1>2. /\ w.batch \in Seq(Nat) /\ len \in Nat /\ data \in Payload
      /\ read_idx \in Nat /\ write_idx \in Nat /\ Capacity \in Nat \ {0}
      /\ read_idx <= write_idx /\ sent \in Seq(Nat) /\ Len(sent) = write_idx
      /\ received \in Seq(Nat) /\ Len(received) = read_idx
  BY RingFacts
<1>3. /\ write_idx' = write_idx + len /\ sent' = sent \o w.batch /\ w' = NoWrite
      /\ UNCHANGED <<read_idx, data, r, received>>
  BY <1>1 DEF WritePublish
<1>4. /\ sent' \in Seq(Nat) /\ Len(sent') = write_idx'
      /\ \A i \in 1..write_idx : sent'[i] = sent[i]
      /\ \A k \in 1..len : sent'[write_idx + k] = w.batch[k]
  BY <1>2, <1>3, Concat
<1> HIDE DEF len
<1>5. RingTypeOK'
  <2>1. w' \in WriteRec
    BY <1>3, NoWriteType
  <2> QED
    <3>1. write_idx' \in Nat
      BY <1>2, <1>3
    <3>2. UNCHANGED <<read_idx, data, r, received>>
      BY <1>3
    <3> QED
      BY <2>1, <3>1, <3>2, <1>4 DEF RingInv, RingTypeOK, WriteRec
<1>6. Indices'
  <2>1. \A i \in 1..read_idx : received[i] = sent[i] /\ i \in 1..write_idx
    BY <1>2 DEF RingInv, Indices
  <2>2. \A i \in 1..read_idx' : received'[i] = sent'[i]
    BY <2>1, <1>3, <1>4
  <2>3. read_idx' <= write_idx' /\ write_idx' - read_idx' <= Capacity
    BY <1>1, <1>2, <1>3
  <2> QED
    BY <2>2, <2>3, <1>2, <1>3, <1>4 DEF Indices
<1>7. Unread'
  <2> SUFFICES ASSUME NEW p \in read_idx'..(write_idx' - 1)
               PROVE  data'[Slot(p)] = sent'[p + 1]
    BY DEF Unread
  <2>0. data' = data /\ p \in read_idx..(write_idx + len - 1)
    BY <1>2, <1>3
  <2>1. CASE p < write_idx
    <3>1. p \in read_idx..(write_idx - 1) /\ p + 1 \in 1..write_idx
      BY <2>0, <2>1, <1>2
    <3> QED
      BY <3>1, <2>0, <1>4 DEF RingInv, Unread
  <2>2. CASE p >= write_idx
    <3> DEFINE k == p - write_idx + 1
    <3>1. k \in 1..len /\ write_idx + k - 1 = p /\ write_idx + k = p + 1
      BY <2>0, <2>2, <1>2
    <3> HIDE DEF k
    <3> QED
      BY <3>1, <2>0, <1>1, <1>4
  <2> QED
    BY <2>0, <2>1, <2>2, <1>2
<1>8. WriterInv'
  BY <1>3 DEF WriterInv, NoWrite
<1>9. ReaderInv'
  <2>1. FirstSlice' = FirstSlice /\ r' = r
    BY <1>3 DEF FirstSlice
  <2>2. CASE r.pc # "none"
    <3>1. r.n \in Nat /\ r.n <= write_idx - read_idx
      BY <2>2, RingFacts DEF RingInv, ReaderInv
    <3>2. r.n <= write_idx' - read_idx' /\ \A k \in 1..r.n : read_idx + k \in 1..write_idx
      BY <3>1, <1>2, <1>3
    <3>3. r.pc = "wrap" => FirstSlice < r.n /\ Len(r.buf) = FirstSlice
                           /\ \A k \in 1..FirstSlice : k \in 1..r.n /\ r.buf[k] = sent[read_idx + k]
      <4>1. FirstSlice \in Int
        BY <1>2, <2>2, SliceFacts
      <4> QED
        BY <4>1, <3>1 DEF RingInv, ReaderInv
    <3>4. r.pc = "advance" => Len(r.buf) = r.n /\ \A k \in 1..r.n : r.buf[k] = sent[read_idx + k]
      BY DEF RingInv, ReaderInv
    <3> QED
      BY <2>1, <3>2, <3>3, <3>4, <1>3, <1>4 DEF ReaderInv
  <2>3. CASE r.pc = "none"
    BY <2>1, <2>3 DEF ReaderInv
  <2> QED
    BY <2>2, <2>3
<1> QED
  BY <1>5, <1>6, <1>7, <1>8, <1>9 DEF RingInv

LEMMA ReadLoadKeeps ==
    ASSUME RingInv, NEW max \in 1..MaxRead, ReadLoad(max)
    PROVE  RingInv'
<1> DEFINE n == MinOf(write_idx - read_idx, max)
<1>1. n \in 0..MaxRead /\ n <= write_idx - read_idx
  BY RingFacts DEF MinOf
<1>2. r' = [pc |-> "copy", buf |-> <<>>, n |-> n] /\ UNCHANGED <<sharedVars, w, sent, received>>
  BY DEF ReadLoad
<1> HIDE DEF n
<1>3. r' \in ReadRec
  BY <1>1, <1>2 DEF ReadRec
<1>4. RingTypeOK'
  BY <1>2, <1>3 DEF RingInv, RingTypeOK, ReadRec, sharedVars
<1>5. ReaderInv'
  BY <1>1, <1>2 DEF ReaderInv, sharedVars
<1> QED
  BY <1>2, <1>4, <1>5 DEF RingInv, Indices, Unread, WriterInv, FirstChunk, sharedVars

LEMMA ReadCopyKeeps ==
    ASSUME RingInv, ReadCopy
    PROVE  RingInv'
<1> DEFINE m == FirstSlice
           got == Peek(data, Slot(read_idx), m)
<1>1. /\ m \in Nat /\ m <= r.n /\ Slot(read_idx) + m <= Capacity
      /\ r.n \in Nat /\ r.n <= write_idx - read_idx
  BY SliceFacts DEF ReadCopy
<1>2. data \in Payload /\ read_idx \in Nat /\ write_idx \in Nat /\ r \in ReadRec
  BY RingFacts DEF RingInv, RingTypeOK, ReadRec
<1>3. r' = [r EXCEPT !.buf = got, !.pc = IF m < r.n THEN "wrap" ELSE "advance"]
      /\ UNCHANGED <<sharedVars, w, sent, received>>
  BY DEF ReadCopy
<1>4. FirstSlice' = IF r'.n = r.n THEN m ELSE FirstSlice'
  BY <1>3 DEF FirstSlice, sharedVars
<1> HIDE DEF m
<1>5. got \in Seq(Nat) /\ Len(got) = m /\ \A k \in 1..m : got[k] = data[Slot(read_idx + k - 1)]
  BY <1>1, <1>2, CopyOut
<1> HIDE DEF got
<1>6. /\ r' \in ReadRec /\ r'.n = r.n /\ r'.buf = got
      /\ r'.pc = IF m < r.n THEN "wrap" ELSE "advance"
  BY <1>2, <1>3, <1>5 DEF ReadRec
<1>7. \A k \in 1..m : got[k] = sent[read_idx + k]
  <2> SUFFICES ASSUME NEW k \in 1..m PROVE got[k] = sent[read_idx + k]
    OBVIOUS
  <2> DEFINE p == read_idx + k - 1
  <2>1. p \in read_idx..(write_idx - 1) /\ p + 1 = read_idx + k
    BY <1>1, <1>2
  <2> HIDE DEF p
  <2>2. data[Slot(p)] = sent[p + 1]
    BY <2>1 DEF RingInv, Unread
  <2> QED
    BY <2>1, <2>2, <1>5 DEF p
<1>8. RingTypeOK'
  BY <1>3, <1>6 DEF RingInv, RingTypeOK, ReadRec, sharedVars
<1>9. ReaderInv'
  <2>1. UNCHANGED <<write_idx, read_idx, sent>> /\ FirstSlice' = m
    BY <1>3, <1>4, <1>6 DEF sharedVars
  <2>2. CASE m < r.n
    BY <2>1, <2>2, <1>1, <1>5, <1>6, <1>7 DEF ReaderInv
  <2>3. CASE m = r.n
    BY <2>1, <2>3, <1>1, <1>5, <1>6, <1>7 DEF ReaderInv
  <2> QED
    BY <2>2, <2>3, <1>1
<1> QED
  BY <1>3, <1>8, <1>9 DEF RingInv, Indices, Unread, WriterInv, FirstChunk, sharedVars

LEMMA ReadWrapKeeps ==
    ASSUME RingInv, ReadWrap
    PROVE  RingInv'
<1> DEFINE m == FirstSlice
           n == r.n
           b == read_idx + m
           rest == Peek(data, Slot(b), n - m)
<1>1. /\ m \in Nat /\ n \in Nat /\ m < n /\ n <= write_idx - read_idx
      /\ m = Capacity - Slot(read_idx) /\ Slot(read_idx) \in 0..(Capacity - 1)
      /\ read_idx \in Nat /\ write_idx \in Nat /\ Capacity \in Nat \ {0}
      /\ write_idx - read_idx <= Capacity
  <2>1. m < n
    BY DEF ReadWrap, RingInv, ReaderInv
  <2> QED
    BY <2>1, SliceFacts, RingFacts, SlotType DEF ReadWrap
<1>2. /\ data \in Payload /\ r \in ReadRec /\ r.buf \in Seq(Nat) /\ Len(r.buf) = m
      /\ \A k \in 1..m : r.buf[k] = sent[read_idx + k]
  BY RingFacts DEF ReadWrap, RingInv, RingTypeOK, ReadRec, ReaderInv
<1>3. /\ r' = [r EXCEPT !.buf = @ \o Peek(data, 0, n - m), !.pc = "advance"]
      /\ UNCHANGED <<sharedVars, w, sent, received>>
  BY DEF ReadWrap
<1> HIDE DEF m, n
<1>4. Slot(b) = 0 /\ b \in Nat /\ n - m \in Nat /\ Slot(b) + (n - m) <= Capacity
  <2>1. m >= Capacity - Slot(read_idx) /\ m < 2 * Capacity - Slot(read_idx)
    BY ONLY <1>1
  <2>2. Slot(read_idx + m) = Slot(read_idx) + m - Capacity
    BY <2>1, <1>1, SlotWrapped
  <2>3. /\ Slot(read_idx) + m - Capacity = 0 /\ read_idx + m \in Nat
        /\ n - m \in Nat /\ n - m <= Capacity
    BY ONLY <1>1
  <2> QED
    BY ONLY <2>2, <2>3, <1>1
<1> HIDE DEF b
<1>5. rest \in Seq(Nat) /\ Len(rest) = n - m /\ \A k \in 1..(n - m) : rest[k] = data[Slot(b + k - 1)]
  BY <1>2, <1>4, CopyOut
<1>6. r' = [r EXCEPT !.buf = @ \o rest, !.pc = "advance"]
  BY <1>3, <1>4
<1> HIDE DEF rest
<1> DEFINE all == r.buf \o rest
<1>7. /\ all \in Seq(Nat) /\ Len(all) = n
      /\ \A i \in 1..m : all[i] = r.buf[i]
      /\ \A k \in 1..(n - m) : all[m + k] = rest[k]
  <2>1. /\ all \in Seq(Nat) /\ Len(all) = Len(r.buf) + Len(rest)
        /\ \A i \in 1..Len(r.buf) : all[i] = r.buf[i]
        /\ \A k \in 1..Len(rest) : all[Len(r.buf) + k] = rest[k]
    BY <1>2, <1>5, Concat
  <2> HIDE DEF all
  <2>2. Len(r.buf) = m /\ Len(rest) = n - m /\ m + (n - m) = n
    BY <1>1, <1>2, <1>5
  <2> QED
    BY ONLY <2>1, <2>2
<1>8. /\ r' \in ReadRec /\ r'.n = n /\ r'.buf = all /\ r'.pc = "advance"
  BY <1>2, <1>6, <1>7 DEF ReadRec, n
<1> HIDE DEF all
<1>9. ASSUME NEW i \in 1..n PROVE all[i] = sent[read_idx + i]
  <2>1. CASE i <= m
    <3>1. i \in 1..m
      BY ONLY <2>1, <1>1, i \in 1..n
    <3> QED
      BY ONLY <3>1, <1>2, <1>7
  <2>2. CASE i > m
    <3> DEFINE k == i - m
               p == b + k - 1
    <3>1. /\ k \in 1..(n - m) /\ m + k = i
          /\ p \in read_idx..(write_idx - 1) /\ p + 1 = read_idx + i
      BY ONLY <2>2, <1>1, i \in 1..n DEF b
    <3> HIDE DEF k
    <3>2. all[m + k] = data[Slot(p)]
      BY <3>1, <1>5, <1>7
    <3> HIDE DEF p
    <3>3. data[Slot(p)] = sent[p + 1]
      BY <3>1 DEF RingInv, Unread
    <3> QED
      BY <3>1, <3>2, <3>3
  <2> QED
    BY ONLY <2>1, <2>2, <1>1, i \in 1..n
<1>10. RingTypeOK'
  BY <1>3, <1>8 DEF RingInv, RingTypeOK, ReadRec, sharedVars
<1>11. ReaderInv'
  <2>1. UNCHANGED <<write_idx, read_idx, sent>>
    BY <1>3 DEF sharedVars
  <2>2. Len(r'.buf) = n
    BY <1>1, <1>7, <1>8
  <2> QED
    BY <2>1, <2>2, <1>1, <1>8, <1>9 DEF ReaderInv
<1> QED
  BY <1>3, <1>10, <1>11 DEF RingInv, Indices, Unread, WriterInv, FirstChunk, sharedVars

LEMMA ReadAdvanceKeeps ==
    ASSUME RingInv, ReadAdvance
    PROVE  RingInv'
<1> DEFINE n == r.n
<1>1. /\ n \in Nat /\ n <= write_idx - read_idx
      /\ read_idx \in Nat /\ write_idx \in Nat /\ Capacity \in Nat \ {0}
      /\ read_idx <= write_idx /\ write_idx - read_idx <= Capacity
  BY SliceFacts, RingFacts DEF ReadAdvance
<1>2. /\ r.buf \in Seq(Nat) /\ Len(r.buf) = n /\ \A k \in 1..n : r.buf[k] = sent[read_idx + k]
      /\ received \in Seq(Nat) /\ Len(received) = read_idx
      /\ \A i \in 1..read_idx : received[i] = sent[i]
  BY RingFacts DEF ReadAdvance, RingInv, ReaderInv, Indices
<1>3. /\ read_idx' = read_idx + n /\ received' = received \o r.buf /\ r' = NoRead
      /\ UNCHANGED <<write_idx, data, w, sent>>
  BY DEF ReadAdvance
<1> HIDE DEF n
<1>4. /\ received' \in Seq(Nat) /\ Len(received') = read_idx'
      /\ \A i \in 1..read_idx : received'[i] = received[i]
      /\ \A k \in 1..n : received'[read_idx + k] = r.buf[k]
  BY <1>2, <1>3, Concat
<1>5. read_idx' \in Nat /\ read_idx' <= write_idx /\ write_idx - read_idx' <= Capacity
      /\ read_idx' >= read_idx
  BY <1>1, <1>3
<1>6. RingTypeOK'
  <2>1. r' \in ReadRec
    BY <1>3, RingAssumption DEF NoRead, ReadRec
  <2>2. UNCHANGED <<write_idx, data, w, sent>>
    BY <1>3
  <2> QED
    BY <2>1, <2>2, <1>4, <1>5 DEF RingInv, RingTypeOK, ReadRec
<1>7. Indices'
  <2>1. ASSUME NEW i \in 1..(read_idx + n) PROVE received'[i] = sent[i]
    <3>1. CASE i <= read_idx
      BY <3>1, <1>1, <1>2, <1>4
    <3>2. CASE i > read_idx
      <4> DEFINE k == i - read_idx
      <4>1. k \in 1..n /\ read_idx + k = i
        BY ONLY <3>2, <1>1, i \in 1..(read_idx + n)
      <4> HIDE DEF k
      <4> QED
        BY <4>1, <1>2, <1>4
    <3> QED
      BY <3>1, <3>2, <1>1
  <2>2. sent' = sent /\ write_idx' = write_idx /\ Len(sent) = write_idx
    BY <1>3 DEF RingInv, Indices
  <2> QED
    BY <2>1, <2>2, <1>3, <1>4, <1>5 DEF Indices
<1>8. Unread'
  <2> SUFFICES ASSUME NEW p \in read_idx'..(write_idx - 1) PROVE data[Slot(p)] = sent[p + 1]
    BY <1>3 DEF Unread
  <2>1. p \in read_idx..(write_idx - 1)
    BY <1>1, <1>5
  <2> QED
    BY <2>1 DEF RingInv, Unread
<1>9. WriterInv'
  <2>1. FirstChunk' = FirstChunk /\ UNCHANGED <<write_idx, data, w>>
    BY <1>3 DEF FirstChunk
  <2>2. CASE w.pc \in {"copy", "wrap", "publish"}
    <3>1. write_idx + Len(w.batch) - read_idx <= Capacity /\ Len(w.batch) \in Nat
      BY <2>2, RingFacts DEF RingInv, WriterInv
    <3>2. write_idx + Len(w.batch) - read_idx' <= Capacity
      BY ONLY <3>1, <1>1, <1>5
    <3> QED
      BY <2>1, <3>2 DEF RingInv, WriterInv
  <2>3. CASE w.pc \notin {"copy", "wrap", "publish"}
    BY <2>1, <2>3 DEF WriterInv
  <2> QED
    BY <2>2, <2>3
<1>10. ReaderInv'
  BY <1>3 DEF ReaderInv, NoRead
<1> QED
  BY <1>6, <1>7, <1>8, <1>9, <1>10 DEF RingInv

(* A process that dies takes its call with it and leaves the shared state. *)
LEMMA CallLost ==
    ASSUME RingInv, UNCHANGED <<sharedVars, sent, received>>,
           w' = w \/ w' = NoWrite, r' = r \/ r' = NoRead
    PROVE  RingInv'
<1>1. w' \in WriteRec
  BY NoWriteType DEF RingInv, RingTypeOK, WriteRec
<1>2. r' \in ReadRec
  <2>1. NoRead \in ReadRec
    BY RingAssumption DEF NoRead, ReadRec
  <2> QED
    BY <2>1 DEF RingInv, RingTypeOK, ReadRec
<1>3. RingTypeOK'
  BY <1>1, <1>2 DEF RingInv, RingTypeOK, WriteRec, ReadRec, sharedVars
<1>4. WriterInv'
  <2>1. CASE w' = w
    BY <2>1 DEF RingInv, WriterInv, FirstChunk, sharedVars
  <2>2. CASE w' = NoWrite
    BY <2>2 DEF WriterInv, NoWrite
  <2> QED
    BY <2>1, <2>2
<1>5. ReaderInv'
  <2>1. CASE r' = r
    BY <2>1 DEF RingInv, ReaderInv, FirstSlice, sharedVars
  <2>2. CASE r' = NoRead
    BY <2>2 DEF ReaderInv, NoRead
  <2> QED
    BY <2>1, <2>2
<1> QED
  BY <1>3, <1>4, <1>5 DEF RingInv, Indices, Unread, sharedVars

LEMMA RingStepKeeps ==
    ASSUME RingInv, WriterStep \/ ReaderStep
    PROVE  RingInv'
<1>1. CASE WriterStep
  BY <1>1, WriteLoadKeeps, WriteCopyKeeps, WriteWrapKeeps, WritePublishKeeps DEF WriterStep
<1>2. CASE ReaderStep
  BY <1>2, ReadLoadKeeps, ReadCopyKeeps, ReadWrapKeeps, ReadAdvanceKeeps DEF ReaderStep
<1> QED
  BY <1>1, <1>2

(* The invariant gives what the ring promises.                             *)
LEMMA RingInvIsSound == RingInv => RingTypeOK /\ NoRace /\ FifoIntegrity
<1> SUFFICES ASSUME RingInv PROVE RingTypeOK /\ NoRace /\ FifoIntegrity
  OBVIOUS
<1>1. RingTypeOK
  BY DEF RingInv
<1>2. NoRace
  <2>1. ASSUME w.pc \in {"copy", "wrap"}, r.pc \in {"copy", "wrap"},
               NEW k \in 0..(Len(w.batch) - 1), NEW j \in 0..(r.n - 1)
        PROVE  Slot(w.wi + k) # Slot(read_idx + j)
    <3>1. /\ w.wi = write_idx /\ write_idx + Len(w.batch) - read_idx <= Capacity
          /\ r.n <= write_idx - read_idx
      BY <2>1, ChunkFacts, SliceFacts
    <3>2. /\ read_idx \in Nat /\ write_idx \in Nat /\ Capacity \in Nat
          /\ Len(w.batch) \in Nat /\ r.n \in Nat
      BY RingFacts
    <3>3. /\ read_idx + j \in read_idx..(write_idx - 1)
          /\ w.wi + k \in Nat /\ w.wi + k >= write_idx /\ w.wi + k < read_idx + Capacity
      BY ONLY <3>1, <3>2, k \in 0..(Len(w.batch) - 1), j \in 0..(r.n - 1)
    <3> QED
      BY <3>3, FreeIsApart
  <2> QED
    BY <2>1 DEF NoRace, WriterSlots, ReaderSlots
<1>3. FifoIntegrity
  <2>1. /\ sent \in Seq(Nat) /\ received \in Seq(Nat) /\ read_idx \in Nat /\ write_idx \in Nat
        /\ Len(sent) = write_idx /\ Len(received) = read_idx /\ Capacity \in Nat
        /\ read_idx <= write_idx /\ write_idx - read_idx <= Capacity
    BY RingFacts
  <2>2. /\ SubSeq(sent, 1, read_idx) \in Seq(Nat) /\ Len(SubSeq(sent, 1, read_idx)) = read_idx
        /\ \A i \in 1..read_idx : SubSeq(sent, 1, read_idx)[i] = sent[i]
    BY <2>1, PrefixOf
  <2>3. \A i \in 1..Len(received) : received[i] = SubSeq(sent, 1, read_idx)[i]
    BY <2>1, <2>2 DEF RingInv, Indices
  <2>4. received = SubSeq(sent, 1, read_idx)
    BY ONLY <2>1, <2>2, <2>3, SeqEqual
  <2> QED
    BY <2>1, <2>4 DEF FifoIntegrity
<1> QED
  BY <1>1, <1>2, <1>3

-----------------------------------------------------------------------------
(* The producers' invariant.                                               *)

(* flush_batch: the call under way writes what is left of the batch, a     *)
(* call that failed reported less room than that, and a head is no longer  *)
(* than its batch.                                                         *)
FlushInv ==
    /\ flush \in [pc : {"idle", "whole", "head", "failed"}, batch : Seq(Nat), head : Seq(Nat)]
    /\ flush.pc = "whole" /\ w.pc # "none" => w.batch = flush.batch
    /\ flush.pc = "whole" /\ w.pc = "none" => w.avail < Len(flush.batch)
    /\ flush.pc = "head" => Len(flush.head) <= Len(flush.batch)

(* One producer owns the ring.                                             *)
OneProducer ==
    /\ producer \in {"file", "feed"} /\ next \in Nat
    /\ producer = "feed" => flush.pc = "idle"
    /\ producer = "file" => stopper = "none" /\ feed.pc = "start" /\ open = {}

(* A message under way is whole.                                           *)
WholeMessage ==
    producer = "feed" /\ w.pc # "none" =>
        Len(w.batch) > 0 /\ w.batch[Len(w.batch)] \in ends

(* Run writes in one place only, is counted by the WaitGroup while it      *)
(* runs, and once Stop has returned only finds out that it has to end.     *)
RunInv ==
    /\ feed \in [pc : {"start", "top", "dial", "backoff", "enter", "loop", "read", "write",
                       "close", "done"}, conn : Nat]
    /\ stopper \in {"none", "closed", "swapped", "waiting", "returned"}
    /\ producer = "feed" /\ w.pc # "none" => feed.pc = "write"
    /\ producer = "feed" => wg = IF feed.pc \in {"start", "done"} THEN 0 ELSE 1
    /\ stopper = "returned" => feed.pc \in {"start", "top", "done"}

(* The only connections that may be open are the one Run is about to take  *)
(* or holds and the one Stop has swapped out and not closed yet.           *)
OpenInv ==
    /\ dials \in Nat /\ conn \in Nat /\ NoConn \notin open
    /\ stopper # "swapped" => yanked = NoConn
    /\ feed.pc \in {"start", "top", "dial", "backoff", "done"} => open \subseteq {yanked}
    /\ feed.pc = "enter" => open \subseteq {conn, yanked}
    /\ feed.pc \in {"loop", "read", "write", "close"} => open \subseteq {feed.conn, yanked}

IndInv ==
    /\ RingInv /\ FlushInv /\ OneProducer /\ WholeMessage /\ RunInv /\ OpenInv
    /\ NoPartialBatch

LEMMA IngestInitHolds == IngestInit => IndInv
<1> SUFFICES ASSUME IngestInit PROVE IndInv
  OBVIOUS
<1>1. RingInv
  BY RingInitHolds DEF IngestInit
<1>2. FlushInv /\ OneProducer
  BY DEF IngestInit, FlushInv, OneProducer
<1>3. WholeMessage /\ NoPartialBatch
  BY DEF IngestInit, RingInit, NoWrite, WholeMessage, NoPartialBatch
<1>4. RunInv /\ OpenInv
  BY DEF IngestInit, RingInit, NoWrite, RunInv, OpenInv, NoConn
<1> QED
  BY <1>1, <1>2, <1>3, <1>4 DEF IndInv

(* What a step of Write does to its call and to what is readable.          *)
LEMMA WriterEffect ==
    ASSUME RingInv, WriterStep
    PROVE  /\ w.pc # "none"
           /\ \/ w'.pc # "none" /\ w'.batch = w.batch
              \/ w'.pc = "none" /\ w'.avail < Len(w.batch)
           /\ sent' = sent \/ sent' = sent \o w.batch
<1>1. /\ w \in WriteRec /\ Len(w.batch) \in Nat /\ write_idx \in Nat /\ read_idx \in Nat
      /\ Capacity \in Nat
  BY RingFacts DEF RingInv, RingTypeOK, WriteRec
<1>2. CASE WriteLoad
  <2> DEFINE free == Capacity - (write_idx - read_idx)
  <2>1. CASE Len(w.batch) > free
    <3>1. w' = [NoWrite EXCEPT !.avail = free]
      BY <1>2, <2>1 DEF WriteLoad
    <3>2. w'.pc = "none" /\ w'.avail = free /\ free \in Int
      BY <3>1, <1>1 DEF NoWrite
    <3> QED
      BY <3>2, <2>1, <1>1, <1>2 DEF WriteLoad
  <2>2. CASE ~(Len(w.batch) > free)
    <3>1. w' = [w EXCEPT !.pc = "copy", !.wi = write_idx, !.ri = read_idx]
      BY <1>2, <2>2 DEF WriteLoad
    <3>2. w'.pc = "copy" /\ w'.batch = w.batch
      BY <3>1, <1>1 DEF WriteRec
    <3> QED
      BY <3>2, <1>2 DEF WriteLoad
  <2> QED
    BY <2>1, <2>2
<1>3. CASE WriteCopy
  <2>1. w'.batch = w.batch /\ w'.pc \in {"wrap", "publish"}
    BY <1>1, <1>3 DEF WriteCopy, WriteRec
  <2> QED
    BY <2>1, <1>3 DEF WriteCopy
<1>4. CASE WriteWrap
  <2>1. w'.batch = w.batch /\ w'.pc = "publish"
    BY <1>1, <1>4 DEF WriteWrap, WriteRec
  <2> QED
    BY <2>1, <1>4 DEF WriteWrap
<1>5. CASE WritePublish
  <2>1. w'.pc = "none" /\ w'.avail = -1
    BY <1>5 DEF WritePublish, NoWrite
  <2> QED
    BY <2>1, <1>1, <1>5 DEF WritePublish
<1> QED
  BY <1>2, <1>3, <1>4, <1>5 DEF WriterStep

LEMMA RingStepKeepsAll ==
    ASSUME IndInv, RingStep
    PROVE  IndInv'
<1>0. UNCHANGED <<producer, next, ends, flush, feed, conn, open, dials, stopper, yanked, wg, crashes>>
  BY DEF RingStep, fileVars, feedVars
<1>1. RingInv /\ RingInv'
  BY RingStepKeeps DEF IndInv, RingStep
<1>2. CASE ReaderStep
  <2>1. w' = w /\ sent' = sent
    BY <1>2 DEF ReaderStep, ReadLoad, ReadCopy, ReadWrap, ReadAdvance
  <2> QED
    BY <2>1, <1>0, <1>1
    DEF IndInv, FlushInv, OneProducer, WholeMessage, RunInv, OpenInv, NoPartialBatch
<1>3. CASE WriterStep
  <2>1. /\ w.pc # "none"
        /\ \/ w'.pc # "none" /\ w'.batch = w.batch
           \/ w'.pc = "none" /\ w'.avail < Len(w.batch)
        /\ sent' = sent \/ sent' = sent \o w.batch
    BY <1>1, <1>3, WriterEffect
  <2>2. FlushInv' /\ OneProducer' /\ WholeMessage' /\ RunInv' /\ OpenInv'
    BY <2>1, <1>0 DEF IndInv, FlushInv, OneProducer, WholeMessage, RunInv, OpenInv
  <2>3. NoPartialBatch'
    <3>1. CASE sent' = sent
      BY <3>1, <1>0 DEF IndInv, NoPartialBatch
    <3>2. CASE producer = "feed" /\ sent' = sent \o w.batch
      <4>1. /\ sent \in Seq(Nat) /\ w.batch \in Seq(Nat)
            /\ Len(sent) \in Nat /\ Len(w.batch) \in Nat
        BY <1>1, RingFacts
      <4>2. Len(w.batch) > 0 /\ w.batch[Len(w.batch)] \in ends
        BY <2>1, <3>2 DEF IndInv, WholeMessage
      <4>3. sent'[Len(sent')] = w.batch[Len(w.batch)]
        BY <4>1, <4>2, <3>2, Concat
      <4> QED
        BY <4>2, <4>3, <1>0 DEF NoPartialBatch
    <3> QED
      BY <3>1, <3>2, <2>1, <1>0 DEF NoPartialBatch
  <2> QED
    BY <1>1, <2>2, <2>3 DEF IndInv
<1> QED
  BY <1>2, <1>3 DEF RingStep

(* The bytes of a new batch or message.                                    *)
LEMMA ProduceFacts ==
    ASSUME next \in Nat, NEW n \in Nat
    PROVE  /\ Produce(n) \in Seq(Nat) /\ Len(Produce(n)) = n
           /\ n > 0 => Produce(n)[n] = next + n
<1>1. Produce(n) \in [1..n -> Nat]
  BY DEF Produce
<1>2. n > 0 => Produce(n)[n] = next + n
  BY DEF Produce
<1> QED
  BY <1>1, <1>2, TableIsSeq

(* A call of Write starts.                                                 *)
LEMMA CallStarts ==
    ASSUME RingInv, NEW batch \in Seq(Nat), WriteCall(batch)
    PROVE  RingInv' /\ w.pc = "none" /\ w'.pc = "load" /\ w'.batch = batch /\ sent' = sent
<1>1. RingInv'
  BY WriteCallKeeps
<1> QED
  BY <1>1 DEF WriteCall

LEMMA FileKeeps ==
    ASSUME IndInv, FileBatch \/ FileStep
    PROVE  IndInv'
<1> USE DEF IndInv
<1>0. /\ producer = "file"
      /\ UNCHANGED <<producer, feed, conn, open, dials, stopper, yanked, wg, crashes>>
      /\ flush.batch \in Seq(Nat) /\ flush.head \in Seq(Nat)
      /\ Len(flush.batch) \in Nat /\ Len(flush.head) \in Nat
      /\ w.avail \in Int /\ next \in Nat /\ RingInv
  <2>1. producer = "file"
    BY DEF FileBatch, FileStep, FlushDone, FlushSpin, FlushSplit, FlushTail, OneProducer
  <2>2. UNCHANGED <<producer, feed, conn, open, dials, stopper, yanked, wg, crashes>>
    BY DEF FileBatch, FileStep, FlushDone, FlushSpin, FlushSplit, FlushTail, feedVars
  <2>3. w.avail \in -1..Capacity /\ Capacity \in Nat
    BY RingAssumption DEF RingInv, RingTypeOK
  <2>4. flush.batch \in Seq(Nat) /\ flush.head \in Seq(Nat) /\ next \in Nat
    BY DEF FlushInv, OneProducer
  <2> QED
    BY <2>1, <2>2, <2>3, <2>4
<1>1. WholeMessage' /\ NoPartialBatch' /\ RunInv' /\ OpenInv'
  BY <1>0 DEF WholeMessage, NoPartialBatch, RunInv, OpenInv
<1>2. CASE FileBatch
  <2>1. PICK n \in 1..MaxBatch :
            /\ next' = next + n
            /\ WriteCall(Produce(n))
            /\ flush' = [pc |-> "whole", batch |-> Produce(n), head |-> <<>>]
    BY <1>2 DEF FileBatch, NewBatch
  <2>2. n \in Nat /\ next' \in Nat
    BY <1>0, <2>1, IngestAssumption
  <2>3. Produce(n) \in Seq(Nat)
    BY <1>0, <2>2, ProduceFacts
  <2>4. RingInv' /\ w'.pc = "load" /\ w'.batch = Produce(n)
    BY <1>0, <2>1, <2>3, CallStarts
  <2>5. FlushInv'
    BY <2>1, <2>3, <2>4 DEF FlushInv
  <2> QED
    BY <1>0, <1>1, <2>2, <2>4, <2>5 DEF OneProducer
<1>3. CASE FlushDone
  <2>1. RingInv'
    BY <1>3, CallLost DEF FlushDone, ringVars, sharedVars
  <2>2. FlushInv'
    BY <1>3 DEF FlushDone, FlushInv
  <2> QED
    BY <1>0, <1>1, <1>3, <2>1, <2>2 DEF FlushDone, OneProducer
<1>4. CASE FlushSpin
  <2>1. RingInv' /\ w'.pc = "load" /\ w'.batch = flush.batch
    BY <1>0, <1>4, CallStarts DEF FlushSpin
  <2>2. FlushInv'
    BY <1>4, <2>1 DEF FlushSpin, FlushInv
  <2> QED
    BY <1>0, <1>1, <1>4, <2>1, <2>2 DEF FlushSpin, OneProducer
<1>5. CASE FlushSplit
  <2> DEFINE head == SubSeq(flush.batch, 1, w.avail)
  <2>1. w.avail \in Nat /\ w.avail <= Len(flush.batch)
    BY <1>0, <1>5 DEF FlushSplit, FlushInv
  <2>2. head \in Seq(Nat) /\ Len(head) = w.avail
    BY <1>0, <2>1, PrefixOf
  <2>3. RingInv' /\ w'.pc = "load" /\ w'.batch = head
    BY <1>0, <1>5, <2>2, CallStarts DEF FlushSplit
  <2>4. flush' = [flush EXCEPT !.pc = "head", !.head = head]
    BY <1>5 DEF FlushSplit
  <2> HIDE DEF head
  <2>5. FlushInv'
    BY <2>1, <2>2, <2>4 DEF FlushInv
  <2> QED
    BY <1>0, <1>1, <1>5, <2>3, <2>5 DEF FlushSplit, OneProducer
<1>6. CASE FlushTail
  <2> DEFINE tail == SubSeq(flush.batch, Len(flush.head) + 1, Len(flush.batch))
  <2>1. tail \in Seq(Nat)
    BY <1>0, <1>6, SuffixOf DEF FlushTail, FlushInv
  <2>2. CASE w.avail = -1
    <3>1. WriteCall(tail) /\ flush' = [pc |-> "whole", batch |-> tail, head |-> <<>>]
      BY <1>6, <2>2 DEF FlushTail
    <3> HIDE DEF tail
    <3>2. RingInv' /\ w'.pc = "load" /\ w'.batch = tail
      BY <1>0, <2>1, <3>1, CallStarts
    <3>3. FlushInv'
      BY <2>1, <3>1, <3>2 DEF FlushInv
    <3> QED
      BY <1>0, <1>1, <1>6, <3>2, <3>3 DEF FlushTail, OneProducer
  <2>3. CASE w.avail # -1
    <3>1. UNCHANGED ringVars /\ flush' = [flush EXCEPT !.pc = "failed"]
      BY <1>6, <2>3 DEF FlushTail
    <3>2. RingInv'
      BY <3>1, CallLost DEF ringVars, sharedVars
    <3>3. FlushInv'
      BY <3>1 DEF FlushInv
    <3> QED
      BY <1>0, <1>1, <1>6, <3>2, <3>3 DEF FlushTail, OneProducer
  <2> QED
    BY <2>2, <2>3
<1> QED
  BY <1>2, <1>3, <1>4, <1>5, <1>6 DEF FileStep

(* The steps of Run, Stop and a crash that leave the ring's shared state   *)
(* alone: either nothing of the ring changes, or a call is lost.           *)
LEMMA RingUntouched ==
    ASSUME RingInv, UNCHANGED ringVars
    PROVE  RingInv' /\ w' = w /\ sent' = sent
BY CallLost DEF ringVars, sharedVars

LEMMA RunKeeps ==
    ASSUME IndInv, RunStep \/ ReadFails
    PROVE  IndInv'
<1> USE DEF IndInv
<1>0. /\ producer = "feed" /\ UNCHANGED <<ringVars, producer, next, ends, flush, crashes, stopper, yanked>>
  BY DEF RunStep, ReadFails, FeedStep, RunStart, RunReturn, RunDial, DialFails, DialSucceeds,
         BackoffOver, LoopEnter, LoopTop, LoopClose, WriteReturns
<1>1. RingInv' /\ w' = w /\ sent' = sent
  BY <1>0, RingUntouched
<1>2. FlushInv' /\ OneProducer' /\ WholeMessage' /\ NoPartialBatch'
  BY <1>0, <1>1 DEF FlushInv, OneProducer, WholeMessage, NoPartialBatch
<1>3. RunInv' /\ OpenInv'
  <2> USE <1>0, <1>1 DEF RunInv, OpenInv, FeedStep
  <2>1. CASE RunStart
    BY <2>1 DEF RunStart
  <2>2. CASE RunReturn("top") \/ RunReturn("backoff")
    BY <2>2 DEF RunReturn
  <2>3. CASE RunDial \/ DialFails \/ BackoffOver
    BY <2>3 DEF RunDial, DialFails, BackoffOver
  <2>4. CASE DialSucceeds
    BY <2>4 DEF DialSucceeds, NoConn
  <2>5. CASE LoopEnter
    BY <2>5 DEF LoopEnter, NoConn
  <2>6. CASE LoopTop
    BY <2>6 DEF LoopTop
  <2>7. CASE LoopClose
    BY <2>7 DEF LoopClose, NoConn
  <2>8. CASE WriteReturns
    BY <2>8 DEF WriteReturns
  <2>9. CASE ReadFails
    BY <2>9 DEF ReadFails
  <2> QED
    BY <2>1, <2>2, <2>3, <2>4, <2>5, <2>6, <2>7, <2>8, <2>9 DEF RunStep
<1> QED
  BY <1>1, <1>2, <1>3

LEMMA ReadMessageKeeps ==
    ASSUME IndInv, ReadMessage
    PROVE  IndInv'
<1> USE DEF IndInv
<1>0. /\ producer = "feed" /\ feed.pc = "read" /\ feed' = [feed EXCEPT !.pc = "write"]
      /\ UNCHANGED <<producer, flush, crashes, conn, open, dials, stopper, yanked, wg>>
  BY DEF ReadMessage, FeedStep
<1>1. PICK n \in 1..MaxBatch : NewBatch(n) /\ WriteCall(Produce(n))
  BY DEF ReadMessage
<1>2. n \in Nat /\ n > 0 /\ next \in Nat
  BY IngestAssumption DEF OneProducer
<1>3. next' = next + n /\ next' \in Nat /\ ends' = ends \cup {next + n}
  BY <1>1, <1>2 DEF NewBatch
<1>4. Produce(n) \in Seq(Nat) /\ Len(Produce(n)) = n /\ Produce(n)[n] = next + n
  BY <1>2, ProduceFacts
<1>5. RingInv' /\ w.pc = "none" /\ w'.pc = "load" /\ w'.batch = Produce(n) /\ sent' = sent
  BY <1>1, <1>4, CallStarts
<1>6. FlushInv' /\ OneProducer'
  BY <1>0, <1>3, <1>5 DEF FlushInv, OneProducer
<1>7. WholeMessage' /\ NoPartialBatch'
  BY <1>0, <1>2, <1>3, <1>4, <1>5 DEF WholeMessage, NoPartialBatch
<1>8. RunInv' /\ OpenInv'
  BY <1>0, <1>5 DEF RunInv, OpenInv
<1> QED
  BY <1>5, <1>6, <1>7, <1>8

LEMMA StopKeeps ==
    ASSUME IndInv, StopClose \/ StopStep
    PROVE  IndInv'
<1> USE DEF IndInv
<1>0. UNCHANGED <<ringVars, producer, next, ends, flush, crashes, feed, dials, wg>>
  BY DEF StopStep, StopClose, StopSwap, StopCloseConn, StopWait
<1>1. RingInv' /\ w' = w /\ sent' = sent
  BY <1>0, RingUntouched
<1>2. producer = "feed"
  BY DEF StopStep, StopClose, StopSwap, StopCloseConn, StopWait, OneProducer
<1>3. FlushInv' /\ WholeMessage' /\ NoPartialBatch' /\ OneProducer'
  BY <1>0, <1>1, <1>2 DEF FlushInv, OneProducer, WholeMessage, NoPartialBatch
<1>4. RunInv' /\ OpenInv'
  BY <1>0, <1>1, <1>2 DEF RunInv, OpenInv, StopStep, StopClose, StopSwap, StopCloseConn, StopWait, NoConn
<1> QED
  BY <1>1, <1>3, <1>4

LEMMA CrashKeeps ==
    ASSUME IndInv, FeedCrash \/ ReaderDies
    PROVE  IndInv'
<1> USE DEF IndInv
<1>1. CASE FeedCrash
  <2>1. RingInv'
    BY <1>1, CallLost DEF FeedCrash
  <2>2. w'.pc = "none" /\ sent' = sent
    BY <1>1 DEF FeedCrash, NoWrite
  <2>3. FlushInv' /\ OneProducer' /\ WholeMessage' /\ NoPartialBatch'
    BY <1>1, <2>2 DEF FeedCrash, FlushInv, OneProducer, WholeMessage, NoPartialBatch
  <2>4. RunInv' /\ OpenInv'
    BY <1>1, <2>2 DEF FeedCrash, RunInv, OpenInv, NoConn
  <2> QED
    BY <2>1, <2>3, <2>4
<1>2. CASE ReaderDies
  <2>1. w' = w /\ sent' = sent
    BY <1>2 DEF ReaderDies, ReaderCrash
  <2>2. RingInv'
    BY <1>2, <2>1, CallLost DEF ReaderDies, ReaderCrash
  <2>3. UNCHANGED <<producer, next, ends, flush, feed, conn, open, dials, stopper, yanked, wg>>
    BY <1>2 DEF ReaderDies, fileVars, feedVars
  <2> QED
    BY <2>1, <2>2, <2>3
    DEF FlushInv, OneProducer, WholeMessage, RunInv, OpenInv, NoPartialBatch
<1> QED
  BY <1>1, <1>2

LEMMA IngestNextKeeps == IndInv /\ [IngestNext]_vars => IndInv'
<1> SUFFICES ASSUME IndInv, [IngestNext]_vars PROVE IndInv'
  OBVIOUS
<1>1. CASE UNCHANGED vars
  <2>1. UNCHANGED <<ringVars, producer, next, ends, flush, feed, conn, open, dials, stopper, yanked, wg>>
    BY <1>1 DEF vars, fileVars, feedVars
  <2>2. RingInv' /\ w' = w /\ sent' = sent
    BY <2>1, RingUntouched DEF IndInv
  <2> QED
    BY <2>1, <2>2
    DEF IndInv, FlushInv, OneProducer, WholeMessage, RunInv, OpenInv, NoPartialBatch
<1>2. CASE IngestNext
  BY <1>2, RingStepKeepsAll, FileKeeps, RunKeeps, ReadMessageKeeps, StopKeeps, CrashKeeps
  DEF IngestNext
<1> QED
  BY <1>1, <1>2

LEMMA IndInvAlways == IngestSpec => []IndInv
<1>1. IngestInit => IndInv
  BY IngestInitHolds
<1>2. IndInv /\ [IngestNext]_vars => IndInv'
  BY IngestNextKeeps
<1> QED
  BY <1>1, <1>2, PTL DEF IngestSpec

-----------------------------------------------------------------------------
(* ring.go, ring_reader.rs: for every capacity, the two sides never touch  *)
(* the same slot at once, and what the reader has taken is a prefix of     *)
(* what was published, whatever the interleaving and whoever crashes.      *)
THEOREM RingIsSound == IngestSpec => []RingSound
<1>1. IndInv => RingSound
  BY RingInvIsSound DEF IndInv, RingSound
<1> QED
  BY <1>1, IndInvAlways, PTL

(* websocket.go: what the live feed has made readable ends with a whole    *)
(* message, though messages are dropped and the process may be killed in   *)
(* the middle of Write.                                                    *)
THEOREM NoBatchIsPartial == IngestSpec => []NoPartialBatch
<1>1. IndInv => NoPartialBatch
  BY DEF IndInv
<1> QED
  BY <1>1, IndInvAlways, PTL

(* websocket.go: after Stop no write is under way, and Run closes whatever *)
(* it has opened, though Stop may swap the pointer out under it.           *)
THEOREM StopLeavesNothing == IngestSpec => []StopIsClean
<1>1. IndInv => StopIsClean
  BY DEF IndInv, OneProducer, RunInv, OpenInv, StopIsClean
<1> QED
  BY <1>1, IndInvAlways, PTL

-----------------------------------------------------------------------------
(* The write-ahead log: scanning a segment.                                *)

Payloads == 1..MaxRecords

ScanAt(f, from, i) ==
    IF IsRecord(f, i)
    THEN [valid |-> from[i + 3].valid, records |-> <<f[i][1]>> \o from[i + 3].records]
    ELSE IF IsEmptyRecord(f, i) THEN from[i + 2]
    ELSE [valid |-> i - 1, records |-> << >>]

IsScan(f, from, D) == from = [i \in D |-> ScanAt(f, from, i)]

From(f) == CHOOSE from : IsScan(f, from, 1..(Len(f) + 1))

LEMMA ScanIsFrom == ASSUME NEW f PROVE Scan(f) = From(f)[1]
BY DEF Scan, From, IsScan, ScanAt

(* Induction from the end of a segment.                                    *)
LEMMA FromEnd ==
    ASSUME NEW n \in Nat, NEW G,
           \A i \in 1..n : (\A j \in (i + 1)..n : j \in G) => i \in G
    PROVE  \A i \in 1..n : i \in G
<1> DEFINE C == {k \in Nat : n - k \in 1..n /\ n - k \notin G}
<1> SUFFICES ASSUME NEW i \in 1..n, i \notin G PROVE FALSE
  OBVIOUS
<1>1. n - i \in C
  <2>1. n - i \in Nat /\ n - (n - i) = i
    OBVIOUS
  <2> QED
    BY <2>1
<1>2. PICK m \in C : \A k \in C : m <= k
  BY <1>1, LeastNumber
<1> HIDE DEF C
<1>3. m \in Nat /\ n - m \in 1..n /\ n - m \notin G
  BY <1>2 DEF C
<1>4. ASSUME NEW j \in (n - m + 1)..n PROVE j \in G
  <2>1. j \in 1..n /\ n - j \in Nat /\ n - (n - j) = j /\ ~(m <= n - j)
    BY <1>3
  <2>2. n - j \notin C
    BY <1>2, <2>1
  <2> QED
    BY <2>1, <2>2 DEF C
<1> QED
  BY <1>3, <1>4

LEMMA CellFacts ==
    ASSUME NEW f \in Seq(Cells), NEW i \in 1..(Len(f) + 1)
    PROVE  /\ IsRecord(f, i) =>
                /\ i + 3 \in 1..(Len(f) + 1) /\ i \in 1..Len(f)
                /\ f[i][1] \in Payloads /\ f[i] = <<f[i][1], "len">>
                /\ f[i + 1] = <<f[i][1], "crc">> /\ f[i + 2] = <<f[i][1], "pay">>
           /\ IsEmptyRecord(f, i) =>
                i + 2 \in 1..(Len(f) + 1) /\ f[i] = Zero /\ f[i + 1] = Zero
<1>1. Len(f) \in Nat /\ \A j \in 1..Len(f) : f[j] \in Cells
  OBVIOUS
<1>2. ASSUME IsRecord(f, i)
      PROVE  /\ i + 3 \in 1..(Len(f) + 1) /\ i \in 1..Len(f)
             /\ f[i] = <<f[i][1], "len">>
             /\ f[i + 1] = <<f[i][1], "crc">> /\ f[i + 2] = <<f[i][1], "pay">>
  <2>1. i + 2 <= Len(f) /\ \A j \in 0..2 : f[i + j] = Frame(f[i][1])[j + 1]
    BY <1>2 DEF IsRecord
  <2>2. f[i + 0] = Frame(f[i][1])[1] /\ f[i + 1] = Frame(f[i][1])[2] /\ f[i + 2] = Frame(f[i][1])[3]
    BY <2>1
  <2> QED
    BY <1>1, <2>1, <2>2 DEF Frame
<1>3. ASSUME IsRecord(f, i) PROVE f[i][1] \in Payloads
  <2>1. f[i] \in Cells /\ f[i] = <<f[i][1], "len">>
    BY <1>1, <1>2, <1>3
  <2>2. f[i] # Zero
    BY <2>1 DEF Zero
  <2> QED
    BY <2>1, <2>2 DEF Cells, Payloads
<1> QED
  BY <1>1, <1>2, <1>3 DEF IsEmptyRecord

LEMMA FromScans ==
    ASSUME NEW f \in Seq(Cells)
    PROVE  IsScan(f, From(f), 1..(Len(f) + 1))
<1> DEFINE N == Len(f) + 1
           EndOf(n) == {i \in 1..N : i + n > N}
           G == {n \in Nat : \E from : IsScan(f, from, EndOf(n))}
<1>0. N \in Nat
  OBVIOUS
<1> HIDE DEF N
<1>1. 0 \in G
  <2> DEFINE e == [i \in {} |-> 0]
  <2>1. EndOf(0) = {}
    BY <1>0
  <2>2. e = [i \in EndOf(0) |-> ScanAt(f, e, i)]
    BY <2>1
  <2> QED
    BY <2>2 DEF IsScan
<1>2. ASSUME NEW n \in Nat, n \in G PROVE n + 1 \in G
  <2>1. PICK from : IsScan(f, from, EndOf(n))
    BY <1>2
  <2> DEFINE new == [i \in EndOf(n + 1) |-> IF i \in EndOf(n) THEN from[i] ELSE ScanAt(f, from, i)]
  <2>2. ASSUME NEW i \in EndOf(n + 1) PROVE new[i] = ScanAt(f, new, i)
    <3>1. i \in 1..(Len(f) + 1)
      BY DEF N
    <3>2. IsRecord(f, i) => i + 3 \in EndOf(n) /\ i + 3 \in EndOf(n + 1)
      BY <1>0, <3>1, CellFacts DEF N
    <3>3. IsEmptyRecord(f, i) => i + 2 \in EndOf(n) /\ i + 2 \in EndOf(n + 1)
      BY <1>0, <3>1, CellFacts DEF N
    <3>4. \A j \in EndOf(n) : j \in EndOf(n + 1) => new[j] = from[j]
      OBVIOUS
    <3> HIDE DEF EndOf
    <3>5. ScanAt(f, new, i) = ScanAt(f, from, i)
      <4> HIDE DEF new
      <4> QED BY <3>2, <3>3, <3>4 DEF ScanAt
    <3>6. i \in EndOf(n) => from[i] = ScanAt(f, from, i)
      <4>1. i \in EndOf(n) => [j \in EndOf(n) |-> ScanAt(f, from, j)][i] = ScanAt(f, from, i)
        OBVIOUS
      <4> QED BY <2>1, <4>1 DEF IsScan
    <3> QED
      BY <3>5, <3>6
  <2>3. new = [i \in EndOf(n + 1) |-> ScanAt(f, new, i)]
    BY <2>2
  <2> HIDE DEF new, EndOf
  <2>4. \E b : IsScan(f, b, EndOf(n + 1))
    BY <2>3 DEF IsScan
  <2> QED
    BY <2>4
<1>3. N \in G
  <2> HIDE DEF G
  <2> QED BY <1>0, <1>1, <1>2, NumbersByStep
<1>4. EndOf(N) = 1..N
  BY <1>0
<1>5. \E from : IsScan(f, from, 1..N)
  BY <1>3, <1>4
<1> QED
  BY <1>5 DEF From, N

LEMMA FromAt ==
    ASSUME NEW f \in Seq(Cells), NEW i \in 1..(Len(f) + 1)
    PROVE  From(f)[i] = ScanAt(f, From(f), i)
<1>1. [j \in 1..(Len(f) + 1) |-> ScanAt(f, From(f), j)][i] = ScanAt(f, From(f), i)
  OBVIOUS
<1> QED
  BY <1>1, FromScans DEF IsScan

(* The three ways in which the scan goes on at cell i.                     *)
Steps(f, i) ==
    /\ IsRecord(f, i) => /\ From(f)[i].valid = From(f)[i + 3].valid
                         /\ From(f)[i].records = <<f[i][1]>> \o From(f)[i + 3].records
    /\ (~IsRecord(f, i) /\ IsEmptyRecord(f, i)) => From(f)[i] = From(f)[i + 2]
    /\ (~IsRecord(f, i) /\ ~IsEmptyRecord(f, i)) => From(f)[i] = [valid |-> i - 1, records |-> << >>]

LEMMA ScanStep == ASSUME NEW f \in Seq(Cells), NEW i \in 1..(Len(f) + 1) PROVE Steps(f, i)
<1>1. From(f)[i] = ScanAt(f, From(f), i)
  BY FromAt
<1>2. ASSUME IsRecord(f, i)
      PROVE  /\ From(f)[i].valid = From(f)[i + 3].valid
             /\ From(f)[i].records = <<f[i][1]>> \o From(f)[i + 3].records
  <2> DEFINE v == From(f)[i + 3].valid
             p == <<f[i][1]>> \o From(f)[i + 3].records
  <2>1. From(f)[i] = [valid |-> v, records |-> p]
    BY ONLY <1>1, <1>2 DEF ScanAt
  <2> HIDE DEF v, p
  <2>2. From(f)[i].valid = v /\ From(f)[i].records = p
    BY ONLY <2>1
  <2> QED BY ONLY <2>2 DEF v, p
<1>3. (~IsRecord(f, i) /\ IsEmptyRecord(f, i)) => From(f)[i] = From(f)[i + 2]
  BY ONLY <1>1 DEF ScanAt
<1>4. (~IsRecord(f, i) /\ ~IsEmptyRecord(f, i)) => From(f)[i] = [valid |-> i - 1, records |-> << >>]
  BY ONLY <1>1 DEF ScanAt
<1> QED
  BY ONLY <1>2, <1>3, <1>4 DEF Steps

(* What the scan finds from cell i.                                        *)
ScanShape(f, i) == [valid : (i - 1)..Len(f), records : Seq(Payloads)]

LEMMA FromType ==
    ASSUME NEW f \in Seq(Cells)
    PROVE  \A i \in 1..(Len(f) + 1) : From(f)[i] \in ScanShape(f, i)
<1> DEFINE G == {i \in 1..(Len(f) + 1) : From(f)[i] \in ScanShape(f, i)}
<1>0. Len(f) + 1 \in Nat /\ Len(f) \in Nat
  OBVIOUS
<1>1. ASSUME NEW i \in 1..(Len(f) + 1), \A j \in (i + 1)..(Len(f) + 1) : j \in G
      PROVE  i \in G
  <2>1. From(f)[i] = ScanAt(f, From(f), i)
    BY FromAt
  <2>2. CASE IsRecord(f, i)
    <3>1. i + 3 \in 1..(Len(f) + 1) /\ f[i][1] \in Payloads
      BY <2>2, CellFacts
    <3>2. i + 3 \in (i + 1)..(Len(f) + 1)
      BY <3>1
    <3>3. From(f)[i + 3] \in ScanShape(f, i + 3)
      BY <1>1, <3>2
    <3>4. /\ From(f)[i + 3].valid \in (i - 1)..Len(f)
          /\ <<f[i][1]>> \o From(f)[i + 3].records \in Seq(Payloads)
      BY <1>0, <3>1, <3>3 DEF ScanShape
    <3>5. From(f)[i] = [valid |-> From(f)[i + 3].valid,
                        records |-> <<f[i][1]>> \o From(f)[i + 3].records]
      BY <2>1, <2>2 DEF ScanAt
    <3>6. From(f)[i] \in ScanShape(f, i)
      BY <3>4, <3>5 DEF ScanShape
    <3> QED
      BY <3>6
  <2>3. CASE ~IsRecord(f, i) /\ IsEmptyRecord(f, i)
    <3>1. i + 2 \in 1..(Len(f) + 1)
      BY <2>3, CellFacts
    <3>2. i + 2 \in (i + 1)..(Len(f) + 1)
      BY <3>1
    <3>3. From(f)[i + 2] \in ScanShape(f, i + 2)
      BY <1>1, <3>2
    <3>4. From(f)[i + 2] \in ScanShape(f, i)
      BY <1>0, <3>1, <3>3 DEF ScanShape
    <3> QED
      BY <2>1, <2>3, <3>4 DEF ScanAt
  <2>4. CASE ~IsRecord(f, i) /\ ~IsEmptyRecord(f, i)
    <3>1. From(f)[i] = [valid |-> i - 1, records |-> << >>]
      BY <2>1, <2>4 DEF ScanAt
    <3>2. i - 1 \in (i - 1)..Len(f) /\ << >> \in Seq(Payloads)
      BY <1>0
    <3>3. From(f)[i] \in ScanShape(f, i)
      BY <3>1, <3>2 DEF ScanShape
    <3> QED
      BY <3>3
  <2> QED
    BY <2>2, <2>3, <2>4
<1>2. \A i \in 1..(Len(f) + 1) : i \in G
  <2> HIDE DEF G
  <2> QED BY <1>0, <1>1, FromEnd
<1> QED
  BY <1>2

LEMMA ScanType ==
    ASSUME NEW f \in Seq(Cells)
    PROVE  ValidLength(f) \in 0..Len(f) /\ RecordsOf(f) \in Seq(Payloads)
<1>1. 1 \in 1..(Len(f) + 1)
  OBVIOUS
<1>2. From(f)[1] \in ScanShape(f, 1)
  BY <1>1, FromType
<1> QED
  BY <1>2, ScanIsFrom DEF ScanShape, ValidLength, RecordsOf

(* A record within the first n cells depends on these cells only.          *)
LEMMA SameRecord ==
    ASSUME NEW g \in Seq(Cells), NEW k \in Seq(Cells), NEW n \in Nat,
           n <= Len(g), n <= Len(k), \A j \in 1..n : k[j] = g[j], NEW i \in 1..n
    PROVE  /\ i + 2 <= n => (IsRecord(g, i) <=> IsRecord(k, i))
           /\ i + 1 <= n => (IsEmptyRecord(g, i) <=> IsEmptyRecord(k, i))
<1>1. Len(g) \in Nat /\ Len(k) \in Nat
  OBVIOUS
<1>2. ASSUME i + 2 <= n PROVE IsRecord(g, i) <=> IsRecord(k, i)
  <2>1. \A j \in 0..2 : i + j \in 1..n
    BY <1>2
  <2>2. k[i] = g[i] /\ \A j \in 0..2 : k[i + j] = g[i + j]
    BY <2>1
  <2>3. i + 2 <= Len(g) /\ i + 2 <= Len(k)
    BY <1>1, <1>2
  <2> QED
    BY <2>2, <2>3 DEF IsRecord
<1>3. ASSUME i + 1 <= n PROVE IsEmptyRecord(g, i) <=> IsEmptyRecord(k, i)
  BY <1>1, <1>3 DEF IsEmptyRecord
<1> QED
  BY <1>2, <1>3

LEMMA NotBoth ==
    ASSUME NEW f \in Seq(Cells), NEW i \in 1..(Len(f) + 1), IsEmptyRecord(f, i)
    PROVE  ~IsRecord(f, i)
<1>1. f[i] = Zero
  BY DEF IsEmptyRecord
<1>2. IsRecord(f, i) => f[i] = <<f[i][1], "len">>
  BY CellFacts
<1> QED
  BY <1>1, <1>2 DEF Zero

(* A scan that starts after g sees only what follows g.                    *)
LEMMA ScanShift ==
    ASSUME NEW g \in Seq(Cells), NEW h \in Seq(Cells)
    PROVE  \A j \in 1..(Len(h) + 1) :
             /\ From(g \o h)[Len(g) + j].valid = Len(g) + From(h)[j].valid
             /\ From(g \o h)[Len(g) + j].records = From(h)[j].records
<1> DEFINE k == g \o h
           P(j) == /\ From(k)[Len(g) + j].valid = Len(g) + From(h)[j].valid
                   /\ From(k)[Len(g) + j].records = From(h)[j].records
           G == {j \in 1..(Len(h) + 1) : P(j)}
<1>0. /\ Len(h) + 1 \in Nat /\ Len(h) \in Nat /\ Len(g) \in Nat
      /\ k \in Seq(Cells) /\ Len(k) = Len(g) + Len(h)
      /\ \A j \in 1..Len(h) : k[Len(g) + j] = h[j]
  OBVIOUS
<1> HIDE DEF k
<1>1. ASSUME NEW j \in 1..(Len(h) + 1), \A i \in (j + 1)..(Len(h) + 1) : i \in G
      PROVE  j \in G
  <2>0. Len(g) + j \in 1..(Len(k) + 1)
    BY <1>0
  <2>1. /\ Steps(h, j)
        /\ Steps(k, Len(g) + j)
    BY <1>0, <2>0, ScanStep
  <2>2. IsRecord(k, Len(g) + j) <=> IsRecord(h, j)
    <3>1. (Len(g) + j) + 2 <= Len(k) <=> j + 2 <= Len(h)
      BY <1>0
    <3>2. ASSUME j + 2 <= Len(h)
          PROVE  \A i \in 0..2 : k[(Len(g) + j) + i] = h[j + i]
      <4> SUFFICES ASSUME NEW i \in 0..2 PROVE k[(Len(g) + j) + i] = h[j + i]
        OBVIOUS
      <4>1. j + i \in 1..Len(h) /\ (Len(g) + j) + i = Len(g) + (j + i)
        <5>1. j \in Nat /\ i \in Nat /\ Len(g) \in Nat /\ Len(h) \in Nat /\ i <= 2 /\ 1 <= j /\ j + 2 <= Len(h)
          BY <1>0, <3>2
        <5> QED BY ONLY <5>1
      <4> QED BY <1>0, <4>1
    <3>3. ASSUME j + 2 <= Len(h) PROVE k[Len(g) + j] = h[j]
      <4>1. j \in 1..Len(h)
        BY <3>3, <1>0
      <4> QED BY <1>0, <4>1
    <3> QED
      BY <3>1, <3>2, <3>3 DEF IsRecord
  <2>3. IsEmptyRecord(k, Len(g) + j) <=> IsEmptyRecord(h, j)
    <3>1. (Len(g) + j) + 1 <= Len(k) <=> j + 1 <= Len(h)
      BY <1>0
    <3>2. ASSUME j + 1 <= Len(h)
          PROVE  k[Len(g) + j] = h[j] /\ k[(Len(g) + j) + 1] = h[j + 1]
      <4>1. /\ j \in 1..Len(h) /\ j + 1 \in 1..Len(h)
            /\ (Len(g) + j) + 1 = Len(g) + (j + 1)
        BY <1>0, <3>2
      <4>2. k[Len(g) + j] = h[j] /\ k[Len(g) + (j + 1)] = h[j + 1]
        BY <1>0, <4>1
      <4> QED BY <4>1, <4>2
    <3> QED
      BY <3>1, <3>2 DEF IsEmptyRecord
  <2>4. CASE IsRecord(h, j)
    <3>1. /\ j + 3 \in 1..(Len(h) + 1) /\ j \in 1..Len(h)
          /\ (Len(g) + j) + 3 = Len(g) + (j + 3)
      BY <1>0, <2>4, CellFacts
    <3>2. j + 3 \in (j + 1)..(Len(h) + 1)
      BY <3>1
    <3>3. P(j + 3)
      BY <1>1, <3>2
    <3>4. k[Len(g) + j] = h[j]
      BY <1>0, <3>1
    <3>5. /\ From(h)[j].valid = From(h)[j + 3].valid
          /\ From(h)[j].records = <<h[j][1]>> \o From(h)[j + 3].records
      BY ONLY <2>1, <2>4 DEF Steps
    <3>6. /\ From(k)[Len(g) + j].valid = From(k)[(Len(g) + j) + 3].valid
          /\ From(k)[Len(g) + j].records
                = <<k[Len(g) + j][1]>> \o From(k)[(Len(g) + j) + 3].records
      BY ONLY <2>1, <2>2, <2>4 DEF Steps
    <3> QED
      BY <3>1, <3>3, <3>4, <3>5, <3>6
  <2>5. CASE ~IsRecord(h, j) /\ IsEmptyRecord(h, j)
    <3>1. j + 2 \in 1..(Len(h) + 1) /\ (Len(g) + j) + 2 = Len(g) + (j + 2)
      BY <1>0, <2>5, CellFacts
    <3>2. j + 2 \in (j + 1)..(Len(h) + 1)
      BY <3>1
    <3>3. P(j + 2)
      BY <1>1, <3>2
    <3>5. From(h)[j] = From(h)[j + 2]
      BY ONLY <2>1, <2>5 DEF Steps
    <3>6. From(k)[Len(g) + j] = From(k)[(Len(g) + j) + 2]
      BY ONLY <2>1, <2>2, <2>3, <2>5 DEF Steps
    <3> QED
      BY <3>1, <3>3, <3>5, <3>6
  <2>6. CASE ~IsRecord(h, j) /\ ~IsEmptyRecord(h, j)
    <3>1. From(h)[j] = [valid |-> j - 1, records |-> << >>]
      BY ONLY <2>1, <2>6 DEF Steps
    <3>2. From(k)[Len(g) + j] = [valid |-> (Len(g) + j) - 1, records |-> << >>]
      BY ONLY <2>1, <2>2, <2>3, <2>6 DEF Steps
    <3>3. (Len(g) + j) - 1 = Len(g) + (j - 1)
      BY <1>0
    <3> QED
      BY <3>1, <3>2, <3>3
  <2> QED
    BY <2>4, <2>5, <2>6
<1>2. \A j \in 1..(Len(h) + 1) : j \in G
  <2> HIDE DEF G
  <2> QED BY <1>0, <1>1, FromEnd
<1> QED
  BY <1>2 DEF k

(* A file without a torn tail.                                             *)
Whole(f) == ValidLength(f) = Len(f)

LEMMA CellAssoc == \A a, b, c \in Seq(Cells) : (a \o b) \o c = a \o (b \o c)
<1> SUFFICES ASSUME NEW a \in Seq(Cells), NEW b \in Seq(Cells), NEW c \in Seq(Cells)
             PROVE  (a \o b) \o c = a \o (b \o c)
  OBVIOUS
<1> QED
  BY ConcatAssociative

LEMMA Assoc == \A a, b, c \in Seq(Payloads) : a \o (b \o c) = (a \o b) \o c
<1> SUFFICES ASSUME NEW a \in Seq(Payloads), NEW b \in Seq(Payloads), NEW c \in Seq(Payloads)
             PROVE  a \o (b \o c) = (a \o b) \o c
  OBVIOUS
<1>1. (a \o b) \o c = a \o (b \o c)
  BY ConcatAssociative
<1> QED
  BY ONLY <1>1

(* Appending to a file without a torn tail appends to what it replays.     *)
LEMMA ScanAppend ==
    ASSUME NEW g \in Seq(Cells), NEW h \in Seq(Cells), Whole(g)
    PROVE  /\ ValidLength(g \o h) = Len(g) + ValidLength(h)
           /\ RecordsOf(g \o h) = RecordsOf(g) \o RecordsOf(h)
<1> DEFINE k == g \o h
           P(i) == /\ From(k)[i].valid = Len(g) + From(h)[1].valid
                   /\ From(k)[i].records = From(g)[i].records \o From(h)[1].records
           G == {i \in 1..(Len(g) + 1) : From(g)[i].valid = Len(g) => P(i)}
<1>0. /\ Len(g) + 1 \in Nat /\ Len(h) \in Nat /\ Len(g) \in Nat
      /\ k \in Seq(Cells) /\ Len(k) = Len(g) + Len(h)
      /\ \A j \in 1..Len(g) : k[j] = g[j]
      /\ Len(g) <= Len(g) /\ Len(g) <= Len(g) + Len(h)
  OBVIOUS
<1>a. 1 \in 1..(Len(h) + 1) /\ 1 \in 1..(Len(g) + 1) /\ 1 \in 1..(Len(k) + 1)
  BY <1>0
<1>b. /\ From(k)[Len(g) + 1].valid = Len(g) + From(h)[1].valid
      /\ From(k)[Len(g) + 1].records = From(h)[1].records
  BY <1>a, ScanShift
<1>c. From(h)[1].records \in Seq(Payloads) /\ From(h)[1].valid \in Int
  BY <1>a, FromType DEF ScanShape
<1> HIDE DEF k
<1>1. ASSUME NEW i \in 1..(Len(g) + 1), \A j \in (i + 1)..(Len(g) + 1) : j \in G
      PROVE  i \in G
  <2> SUFFICES ASSUME From(g)[i].valid = Len(g) PROVE P(i)
    OBVIOUS
  <2>0. i \in 1..(Len(k) + 1)
    BY <1>0
  <2>1. Steps(g, i) /\ Steps(k, i)
    BY <1>0, <2>0, ScanStep
  <2>4. CASE IsRecord(g, i)
    <3>1. /\ i + 3 \in 1..(Len(g) + 1) /\ i \in 1..Len(g) /\ i + 2 <= Len(g)
      BY <1>0, <2>4, CellFacts DEF IsRecord
    <3>2. i + 3 \in (i + 1)..(Len(g) + 1) /\ k[i] = g[i]
      BY <1>0, <3>1
    <3>3. IsRecord(k, i)
      BY <1>0, <2>4, <3>1, SameRecord
    <3>4. /\ From(g)[i].valid = From(g)[i + 3].valid
          /\ From(g)[i].records = <<g[i][1]>> \o From(g)[i + 3].records
      BY ONLY <2>1, <2>4 DEF Steps
    <3>8. /\ From(k)[i].valid = From(k)[i + 3].valid
          /\ From(k)[i].records = <<g[i][1]>> \o From(k)[i + 3].records
      BY ONLY <2>1, <3>2, <3>3 DEF Steps
    <3>5. P(i + 3)
      BY <1>1, <3>2, <3>4
    <3>6. <<g[i][1]>> \in Seq(Payloads) /\ From(g)[i + 3].records \in Seq(Payloads)
      BY <2>4, <3>1, CellFacts, FromType DEF ScanShape
    <3>7. <<g[i][1]>> \o (From(g)[i + 3].records \o From(h)[1].records)
             = (<<g[i][1]>> \o From(g)[i + 3].records) \o From(h)[1].records
      BY ONLY <1>c, <3>6, Assoc
    <3> QED
      BY <3>4, <3>5, <3>7, <3>8
  <2>5. CASE ~IsRecord(g, i) /\ IsEmptyRecord(g, i)
    <3>1. i + 2 \in 1..(Len(g) + 1) /\ i + 1 <= Len(g) /\ i \in 1..Len(g)
      BY <1>0, <2>5, CellFacts DEF IsEmptyRecord
    <3>2. i + 2 \in (i + 1)..(Len(g) + 1)
      BY <1>0, <3>1
    <3>3. IsEmptyRecord(k, i) /\ ~IsRecord(k, i)
      BY <1>0, <2>0, <2>5, <3>1, SameRecord, NotBoth
    <3>4. From(g)[i] = From(g)[i + 2] /\ From(k)[i] = From(k)[i + 2]
      BY ONLY <2>1, <2>5, <3>3 DEF Steps
    <3>5. P(i + 2)
      BY <1>1, <3>2, <3>4
    <3> QED
      BY <3>4, <3>5
  <2>6. CASE ~IsRecord(g, i) /\ ~IsEmptyRecord(g, i)
    <3>1. From(g)[i] = [valid |-> i - 1, records |-> << >>]
      BY ONLY <2>1, <2>6 DEF Steps
    <3>2. i = Len(g) + 1 /\ From(g)[i].records = << >>
      BY <1>0, <3>1
    <3> QED
      BY <1>b, <1>c, <3>2
  <2> QED
    BY <2>4, <2>5, <2>6
<1>2. \A i \in 1..(Len(g) + 1) : i \in G
  <2> HIDE DEF G
  <2> QED BY <1>0, <1>1, FromEnd
<1>3. From(g)[1].valid = Len(g)
  BY ScanIsFrom DEF Whole, ValidLength
<1> QED
  BY <1>2, <1>3, <1>a, ScanIsFrom DEF k, ValidLength, RecordsOf

(* Recovery cuts a file to what a scan finds well formed: the cut file has *)
(* no torn tail and replays the same records.                              *)
LEMMA ScanCut ==
    ASSUME NEW f \in Seq(Cells)
    PROVE  LET g == SubSeq(f, 1, ValidLength(f))
           IN  g \in Seq(Cells) /\ Whole(g) /\ Len(g) = ValidLength(f) /\ RecordsOf(g) = RecordsOf(f)
<1> DEFINE v == ValidLength(f)
           g == SubSeq(f, 1, v)
           G == {i \in 1..(v + 1) : From(f)[i].valid = v =>
                   /\ From(g)[i].valid = v
                   /\ From(g)[i].records = From(f)[i].records}
<1>0. v \in 0..Len(f) /\ Len(f) \in Nat
  BY ScanType
<1>a. /\ g \in Seq(Cells) /\ Len(g) = v /\ \A j \in 1..v : g[j] = f[j]
  <2>1. \A j \in 1..v : f[j] \in Cells
    BY <1>0
  <2> QED
    BY <1>0, <2>1, SubSeqProperties
<1> HIDE DEF v, g
<1>1. ASSUME NEW i \in 1..(v + 1), \A j \in (i + 1)..(v + 1) : j \in G
      PROVE  i \in G
  <2> SUFFICES ASSUME From(f)[i].valid = v
               PROVE  From(g)[i].valid = v /\ From(g)[i].records = From(f)[i].records
    OBVIOUS
  <2>0. i \in 1..(Len(f) + 1) /\ i \in 1..(Len(g) + 1)
    BY <1>0, <1>a
  <2>1. Steps(g, i) /\ Steps(f, i)
    BY <1>a, <2>0, ScanStep
  <2>4. CASE IsRecord(f, i)
    <3>1. i + 3 \in 1..(Len(f) + 1) /\ i \in 1..Len(f)
      BY <1>0, <2>0, <2>4, CellFacts
    <3>2. From(f)[i].valid = From(f)[i + 3].valid
      BY ONLY <2>1, <2>4 DEF Steps
    <3>3. From(f)[i + 3].valid \in (i + 2)..Len(f)
      <4>1. From(f)[i + 3] \in ScanShape(f, i + 3) /\ (i + 3) - 1 = i + 2
        BY <3>1, FromType
      <4> QED BY <4>1 DEF ScanShape
    <3>4. i + 2 <= v /\ i + 3 \in (i + 1)..(v + 1) /\ i \in 1..v
      BY <1>0, <3>1, <3>2, <3>3
    <3>5. IsRecord(g, i) /\ g[i] = f[i]
      BY <1>0, <1>a, <2>4, <3>4, SameRecord
    <3>6. /\ From(f)[i].records = <<f[i][1]>> \o From(f)[i + 3].records
          /\ From(g)[i].records = <<g[i][1]>> \o From(g)[i + 3].records
          /\ From(g)[i].valid = From(g)[i + 3].valid
      BY ONLY <2>1, <2>4, <3>5 DEF Steps
    <3>7. /\ From(g)[i + 3].valid = v
          /\ From(g)[i + 3].records = From(f)[i + 3].records
      BY <1>1, <3>2, <3>4
    <3> QED
      BY <3>5, <3>6, <3>7
  <2>5. CASE ~IsRecord(f, i) /\ IsEmptyRecord(f, i)
    <3>1. i + 2 \in 1..(Len(f) + 1)
      BY <1>0, <2>0, <2>5, CellFacts
    <3>2. From(f)[i] = From(f)[i + 2]
      BY ONLY <2>1, <2>5 DEF Steps
    <3>3. From(f)[i + 2].valid \in (i + 1)..Len(f)
      <4>1. From(f)[i + 2] \in ScanShape(f, i + 2) /\ (i + 2) - 1 = i + 1
        BY <3>1, FromType
      <4> QED BY <4>1 DEF ScanShape
    <3>4. i + 1 <= v /\ i + 2 \in (i + 1)..(v + 1) /\ i \in 1..v
      BY <1>0, <3>1, <3>2, <3>3
    <3>5. IsEmptyRecord(g, i) /\ ~IsRecord(g, i)
      BY <1>0, <1>a, <2>0, <2>5, <3>4, SameRecord, NotBoth
    <3>6. From(g)[i] = From(g)[i + 2]
      BY ONLY <2>1, <3>5 DEF Steps
    <3>7. /\ From(g)[i + 2].valid = v
          /\ From(g)[i + 2].records = From(f)[i + 2].records
      BY <1>1, <3>2, <3>4
    <3> QED
      BY <3>2, <3>6, <3>7
  <2>6. CASE ~IsRecord(f, i) /\ ~IsEmptyRecord(f, i)
    <3>1. From(f)[i] = [valid |-> i - 1, records |-> << >>]
      BY ONLY <2>1, <2>6 DEF Steps
    <3>2. i = v + 1
      BY <1>0, <3>1
    <3>3. ~IsRecord(g, i) /\ ~IsEmptyRecord(g, i)
      BY <1>0, <1>a, <3>2 DEF IsRecord, IsEmptyRecord
    <3>4. From(g)[i] = [valid |-> i - 1, records |-> << >>]
      BY ONLY <2>1, <3>3 DEF Steps
    <3> QED
      BY <3>1, <3>4
  <2> QED
    BY <2>4, <2>5, <2>6
<1>2. \A i \in 1..(v + 1) : i \in G
  <2>1. v + 1 \in Nat
    BY <1>0
  <2> HIDE DEF G
  <2> QED BY <2>1, <1>1, FromEnd
<1>3. From(f)[1].valid = v
  BY ScanIsFrom DEF v, ValidLength
<1>4. 1 \in 1..(v + 1)
  BY <1>0
<1>5. ValidLength(g) = v /\ RecordsOf(g) = RecordsOf(f)
  BY <1>2, <1>3, <1>4, ScanIsFrom DEF ValidLength, RecordsOf
<1> QED
  BY <1>5, <1>a DEF Whole, g, v

(* t starts with s.                                                        *)
StartsWith(t, s) == \E x \in Seq(Payloads) : t = s \o x

LEMMA StartsWithPrefix ==
    ASSUME NEW s \in Seq(Payloads), NEW t \in Seq(Payloads), StartsWith(t, s)
    PROVE  IsPrefix(s, t)
<1>1. PICK x \in Seq(Payloads) : t = s \o x
  BY DEF StartsWith
<1>2. Len(s) \in Nat /\ Len(t) = Len(s) + Len(x) /\ Len(x) \in Nat /\ \A i \in 1..Len(s) : t[i] = s[i]
  BY <1>1
<1>3. /\ SubSeq(s, 1, Len(s)) \in Seq(Payloads)
      /\ SubSeq(t, 1, Len(s)) \in Seq(Payloads)
      /\ Len(SubSeq(s, 1, Len(s))) = Len(s) /\ Len(SubSeq(t, 1, Len(s))) = Len(s)
      /\ \A i \in 1..Len(s) : SubSeq(s, 1, Len(s))[i] = s[i] /\ SubSeq(t, 1, Len(s))[i] = t[i]
  <2>1. \A i \in 1..Len(s) : s[i] \in Payloads /\ t[i] \in Payloads
    BY <1>2
  <2> QED
    BY <1>2, <2>1, SubSeqProperties
<1>4. SubSeq(s, 1, Len(s)) = SubSeq(t, 1, Len(s))
  BY <1>2, <1>3, SeqEqual
<1> QED
  BY <1>2, <1>4 DEF IsPrefix

LEMMA StartsWithSelf == ASSUME NEW s \in Seq(Payloads) PROVE StartsWith(s, s)
<1>1. s = s \o << >> /\ << >> \in Seq(Payloads)
  OBVIOUS
<1> QED
  BY <1>1 DEF StartsWith

LEMMA StartsWithTrans ==
    ASSUME NEW s \in Seq(Payloads), NEW t, NEW u, StartsWith(t, s), StartsWith(u, t)
    PROVE  StartsWith(u, s)
<1>1. PICK x \in Seq(Payloads) : t = s \o x
  BY DEF StartsWith
<1>2. PICK y \in Seq(Payloads) : u = t \o y
  BY DEF StartsWith
<1>3. s \o (x \o y) = (s \o x) \o y
  BY Assoc, Zenon
<1>4. u = s \o (x \o y)
  BY <1>1, <1>2, <1>3, Zenon
<1>5. x \o y \in Seq(Payloads)
  BY ONLY <1>1, <1>2
<1> QED
  BY <1>4, <1>5 DEF StartsWith

(* ... also behind a common start.                                         *)
LEMMA StartsWithBehind ==
    ASSUME NEW a \in Seq(Payloads), NEW s \in Seq(Payloads), NEW t, StartsWith(t, s)
    PROVE  StartsWith(a \o t, a \o s)
<1>1. PICK x \in Seq(Payloads) : t = s \o x
  BY DEF StartsWith
<1>2. a \o t = (a \o s) \o x
  BY <1>1, Assoc
<1> QED
  BY <1>2 DEF StartsWith

(* The file at v, and what follows.                                        *)
LEMMA CutAt ==
    ASSUME NEW f \in Seq(Cells), NEW v \in 0..Len(f)
    PROVE  /\ SubSeq(f, 1, v) \in Seq(Cells) /\ Len(SubSeq(f, 1, v)) = v
           /\ \A i \in 1..v : SubSeq(f, 1, v)[i] = f[i]
           /\ \E t \in Seq(Cells) : f = SubSeq(f, 1, v) \o t
<1>1. Len(f) \in Nat /\ \A i \in 1..Len(f) : f[i] \in Cells
  OBVIOUS
<1>2. SubSeq(f, 1, v) \in Seq(Cells) /\ Len(SubSeq(f, 1, v)) = v /\ \A i \in 1..v : SubSeq(f, 1, v)[i] = f[i]
  BY <1>1, SubSeqProperties
<1>3. SubSeq(f, v + 1, Len(f)) \in Seq(Cells)
  BY <1>1, SubSeqProperties
<1>4. SubSeq(f, 1, v) \o SubSeq(f, v + 1, Len(f)) = f
  <2>1. 1 \in 1..(Len(f) + 1) /\ v \in (1 - 1)..Len(f) /\ Len(f) \in v..Len(f)
    BY <1>1
  <2> QED
    BY <2>1, ConcatAdjacentSubSeq, SubSeqFull
<1> QED
  BY <1>2, <1>3, <1>4

(* A file that grows replays what it did and possibly more.                *)
LEMMA ScanGrows ==
    ASSUME NEW f \in Seq(Cells), NEW x \in Seq(Cells)
    PROVE  StartsWith(RecordsOf(f \o x), RecordsOf(f))
<1> DEFINE g == SubSeq(f, 1, ValidLength(f))
<1>1. g \in Seq(Cells) /\ Whole(g) /\ RecordsOf(g) = RecordsOf(f)
  BY ScanCut
<1>2. PICK t \in Seq(Cells) : f = g \o t
  BY ScanType, CutAt
<1> HIDE DEF g
<1>3. f \o x = g \o (t \o x) /\ t \o x \in Seq(Cells)
  BY <1>1, <1>2, ConcatAssociative
<1>4. RecordsOf(f \o x) = RecordsOf(g) \o RecordsOf(t \o x)
  BY <1>1, <1>3, ScanAppend
<1>5. RecordsOf(t \o x) \in Seq(Payloads)
  BY <1>3, ScanType
<1> QED
  BY <1>1, <1>4, <1>5 DEF StartsWith

(* The first p cells of a record.                                          *)
Part(id, p) == SubSeq(Frame(id), 1, p)

LEMMA FrameCells ==
    ASSUME NEW id \in Payloads
    PROVE  /\ Frame(id) \in Seq(Cells) /\ Len(Frame(id)) = 3
           /\ Frame(id)[1] = <<id, "len">> /\ Frame(id)[2] = <<id, "crc">> /\ Frame(id)[3] = <<id, "pay">>
           /\ \A p \in 0..3 : /\ Part(id, p) \in Seq(Cells) /\ Len(Part(id, p)) = p
                              /\ \A i \in 1..p : Part(id, p)[i] = Frame(id)[i]
           /\ Part(id, 3) = Frame(id)
<1>1. <<id, "len">> \in Cells /\ <<id, "crc">> \in Cells /\ <<id, "pay">> \in Cells
  BY DEF Cells, Payloads
<1>2. Frame(id) \in Seq(Cells) /\ Len(Frame(id)) = 3
  BY <1>1 DEF Frame
<1>3. Frame(id)[1] = <<id, "len">> /\ Frame(id)[2] = <<id, "crc">> /\ Frame(id)[3] = <<id, "pay">>
  BY DEF Frame
<1>4. ASSUME NEW p \in 0..3
      PROVE  /\ Part(id, p) \in Seq(Cells) /\ Len(Part(id, p)) = p
             /\ \A i \in 1..p : Part(id, p)[i] = Frame(id)[i]
  <2> DEFINE f == Frame(id)
  <2>1. f \in Seq(Cells) /\ p \in 0..Len(f)
    BY <1>2
  <2> HIDE DEF f
  <2>2. /\ SubSeq(f, 1, p) \in Seq(Cells) /\ Len(SubSeq(f, 1, p)) = p
        /\ \A i \in 1..p : SubSeq(f, 1, p)[i] = f[i]
    BY <2>1, CutAt
  <2> QED BY <2>2 DEF Part, f
<1>5. Part(id, 3) = Frame(id)
  BY <1>2, SubSeqFull DEF Part
<1> QED
  BY <1>2, <1>3, <1>4, <1>5

(* A partial record is no record, and stops the scan.                      *)
LEMMA PartScan ==
    ASSUME NEW id \in Payloads, NEW p \in 0..2
    PROVE  RecordsOf(Part(id, p)) = << >> /\ ValidLength(Part(id, p)) = 0
<1> DEFINE f == Part(id, p)
<1>1. f \in Seq(Cells) /\ Len(f) = p /\ (p >= 1 => f[1] = <<id, "len">>)
  <2>1. p \in 0..3 /\ (p >= 1 => 1 \in 1..p)
    OBVIOUS
  <2>2. Frame(id)[1] = <<id, "len">>
    BY FrameCells
  <2>3. f \in Seq(Cells) /\ Len(f) = p /\ \A i \in 1..p : f[i] = Frame(id)[i]
    BY <2>1, FrameCells
  <2> HIDE DEF f
  <2> QED BY ONLY <2>1, <2>2, <2>3
<1> HIDE DEF f
<1>2. 1 \in 1..(Len(f) + 1)
  BY <1>1
<1>3. ~IsRecord(f, 1)
  BY <1>1 DEF IsRecord
<1>4. ~IsEmptyRecord(f, 1)
  BY <1>1 DEF IsEmptyRecord, Zero
<1>5. From(f)[1] = [valid |-> 0, records |-> << >>]
  <2>1. Steps(f, 1)
    BY <1>1, <1>2, ScanStep
  <2> QED BY ONLY <2>1, <1>3, <1>4 DEF Steps
<1> QED
  BY <1>5, ScanIsFrom DEF RecordsOf, ValidLength, f

LEMMA EmptyScan == RecordsOf(<< >>) = << >> /\ Whole(<< >>) /\ << >> \in Seq(Cells) /\ Len(<< >>) = 0
<1> DEFINE f == << >>
<1>1. f \in Seq(Cells) /\ Len(f) = 0
  OBVIOUS
<1> HIDE DEF f
<1>2. 1 \in 1..(Len(f) + 1) /\ ~IsRecord(f, 1) /\ ~IsEmptyRecord(f, 1)
  BY <1>1 DEF IsRecord, IsEmptyRecord
<1>5. From(f)[1] = [valid |-> 0, records |-> << >>]
  <2>1. Steps(f, 1)
    BY <1>1, <1>2, ScanStep
  <2> QED BY ONLY <2>1, <1>2 DEF Steps
<1> QED
  BY <1>1, <1>5, ScanIsFrom DEF RecordsOf, ValidLength, f, Whole

LEMMA FrameScan ==
    ASSUME NEW id \in Payloads
    PROVE  RecordsOf(Frame(id)) = <<id>> /\ Whole(Frame(id))
<1> DEFINE f == Frame(id)
<1>1. /\ f \in Seq(Cells) /\ Len(f) = 3
      /\ f[1] = <<id, "len">> /\ f[2] = <<id, "crc">> /\ f[3] = <<id, "pay">>
  BY FrameCells
<1>2. f[1][1] = id
  BY <1>1
<1>3. IsRecord(f, 1)
  BY <1>1, <1>2 DEF IsRecord
<1> HIDE DEF f
<1>4. 1 \in 1..(Len(f) + 1) /\ 4 \in 1..(Len(f) + 1) /\ ~IsRecord(f, 4) /\ ~IsEmptyRecord(f, 4)
  BY <1>1 DEF IsRecord, IsEmptyRecord
<1>5. From(f)[4] = [valid |-> 3, records |-> << >>]
  <2>1. Steps(f, 4)
    BY <1>1, <1>4, ScanStep
  <2> QED BY ONLY <2>1, <1>4 DEF Steps
<1>6. From(f)[1].valid = From(f)[4].valid /\ From(f)[1].records = <<id>> \o From(f)[4].records
  <2>1. Steps(f, 1) /\ 1 + 3 = 4
    BY <1>1, <1>4, ScanStep
  <2> QED BY ONLY <2>1, <1>2, <1>3 DEF Steps
<1>7. From(f)[1].valid = 3 /\ From(f)[1].records = <<id>>
  BY <1>5, <1>6
<1> QED
  BY <1>1, <1>7, ScanIsFrom DEF RecordsOf, ValidLength, Whole, f

(* Zeroes hold no records, and none comes to a file by zeroes behind it.   *)
ZeroCells(z) == [i \in 1..z |-> Zero]

LEMMA ZeroScan ==
    ASSUME NEW z \in Nat
    PROVE  /\ ZeroCells(z) \in Seq(Cells) /\ Len(ZeroCells(z)) = z
           /\ \A j \in 1..(z + 1) : From(ZeroCells(z))[j].records = << >>
<1> DEFINE o == ZeroCells(z)
           G == {j \in 1..(z + 1) : From(o)[j].records = << >>}
<1>1. o \in Seq(Cells) /\ Len(o) = z /\ \A i \in 1..z : o[i] = Zero
  BY DEF ZeroCells, Cells
<1> HIDE DEF o
<1>2. ASSUME NEW j \in 1..(z + 1), \A i \in (j + 1)..(z + 1) : i \in G PROVE j \in G
  <2>1. Steps(o, j)
    BY <1>1, ScanStep
  <2>2. ~IsRecord(o, j)
    <3>1. IsRecord(o, j) => j \in 1..z /\ o[j] = <<o[j][1], "len">>
      BY <1>1, CellFacts
    <3> QED BY <1>1, <3>1 DEF Zero
  <2>3. CASE IsEmptyRecord(o, j)
    <3>1. j + 2 \in 1..(z + 1)
      BY <1>1, <2>3, CellFacts
    <3>2. j + 2 \in (j + 1)..(z + 1)
      BY <3>1
    <3>3. From(o)[j] = From(o)[j + 2]
      BY ONLY <2>1, <2>2, <2>3 DEF Steps
    <3> QED BY <1>2, <3>2, <3>3
  <2>4. CASE ~IsEmptyRecord(o, j)
    <3>1. From(o)[j] = [valid |-> j - 1, records |-> << >>]
      BY ONLY <2>1, <2>2, <2>4 DEF Steps
    <3> QED BY <3>1
  <2> QED BY <2>3, <2>4
<1>3. \A j \in 1..(z + 1) : j \in G
  <2>1. z + 1 \in Nat
    OBVIOUS
  <2> HIDE DEF G
  <2> QED BY <1>2, <2>1, FromEnd
<1> QED
  BY <1>1, <1>3 DEF o

LEMMA ZeroesAddNothing ==
    ASSUME NEW f \in Seq(Cells), NEW z \in Nat
    PROVE  f \o ZeroCells(z) \in Seq(Cells) /\ RecordsOf(f \o ZeroCells(z)) = RecordsOf(f)
<1> DEFINE o == ZeroCells(z)
           k == f \o o
           N == Len(f)
           G == {i \in 1..(N + 1) : From(k)[i].records = From(f)[i].records}
<1>1. /\ o \in Seq(Cells) /\ Len(o) = z /\ \A i \in 1..z : o[i] = Zero
      /\ \A j \in 1..(z + 1) : From(o)[j].records = << >>
  BY ZeroScan DEF ZeroCells
<1> HIDE DEF o
<1>2. /\ N \in Nat /\ N + 1 \in Nat /\ k \in Seq(Cells) /\ Len(k) = N + z
      /\ \A i \in 1..N : k[i] = f[i]
      /\ \A i \in 1..z : k[N + i] = Zero
  BY <1>1
<1>3. \A j \in 1..(z + 1) : From(k)[N + j].records = << >>
  BY <1>1, ScanShift
<1> HIDE DEF k, N
<1>4. ASSUME NEW i \in 1..(N + 1), \A j \in (i + 1)..(N + 1) : j \in G PROVE i \in G
  <2>0. i \in 1..(Len(f) + 1) /\ i \in 1..(Len(k) + 1)
    BY <1>2 DEF N
  <2>1. Steps(f, i) /\ Steps(k, i)
    BY <1>2, <2>0, ScanStep
  <2>2. CASE IsRecord(k, i)
    <3>1. /\ i + 3 \in 1..(Len(k) + 1) /\ k[i + 2] = <<k[i][1], "pay">>
      BY <1>2, <2>0, <2>2, CellFacts
    <3>2. i + 2 <= N
      <4> SUFFICES ASSUME i + 2 > N PROVE FALSE
        BY <1>2
      <4>1. i + 2 - N \in 1..z /\ N + (i + 2 - N) = i + 2
        BY <1>2, <3>1
      <4>2. k[i + 2] = Zero
        BY <1>2, <4>1
      <4> QED BY <3>1, <4>2 DEF Zero
    <3>3. N <= Len(f) /\ N <= Len(k) /\ i \in 1..N /\ i + 3 \in (i + 1)..(N + 1) /\ k[i] = f[i]
      BY <1>2, <3>2 DEF N
    <3>4. IsRecord(f, i)
      BY <1>2, <2>2, <3>2, <3>3, SameRecord
    <3>5. /\ From(f)[i].records = <<f[i][1]>> \o From(f)[i + 3].records
          /\ From(k)[i].records = <<k[i][1]>> \o From(k)[i + 3].records
      BY ONLY <2>1, <2>2, <3>4 DEF Steps
    <3>6. From(k)[i + 3].records = From(f)[i + 3].records
      BY <1>4, <3>3
    <3> QED BY <3>3, <3>5, <3>6
  <2>3. CASE ~IsRecord(k, i) /\ i + 1 <= N /\ IsEmptyRecord(k, i)
    <3>1. N <= Len(f) /\ N <= Len(k) /\ i \in 1..N /\ i + 2 \in (i + 1)..(N + 1)
      BY <1>2, <2>3 DEF N
    <3>2. IsEmptyRecord(f, i) /\ ~IsRecord(f, i)
      BY <1>2, <2>0, <2>3, <3>1, SameRecord, NotBoth
    <3>3. From(f)[i] = From(f)[i + 2] /\ From(k)[i] = From(k)[i + 2]
      BY ONLY <2>1, <2>3, <3>2 DEF Steps
    <3> QED BY <1>4, <3>1, <3>3
  <2>4. CASE ~IsRecord(k, i) /\ ~(i + 1 <= N /\ IsEmptyRecord(k, i))
    <3>1. ~IsRecord(f, i)
      <4>1. IsRecord(f, i) => i + 2 <= N /\ i \in 1..N
        BY <1>2, <2>0 DEF IsRecord, N
      <4>2. N <= Len(f) /\ N <= Len(k)
        BY <1>2 DEF N
      <4> QED BY <1>2, <2>4, <4>1, <4>2, SameRecord
    <3>2. ~IsEmptyRecord(f, i)
      <4>1. IsEmptyRecord(f, i) => i + 1 <= N /\ i \in 1..N
        BY <1>2, <2>0 DEF IsEmptyRecord, N
      <4>2. N <= Len(f) /\ N <= Len(k)
        BY <1>2 DEF N
      <4> QED BY <1>2, <2>4, <4>1, <4>2, SameRecord
    <3>3. From(f)[i].records = << >>
      <4>1. From(f)[i] = [valid |-> i - 1, records |-> << >>]
        BY ONLY <2>1, <3>1, <3>2 DEF Steps
      <4> QED BY <4>1
    <3>4. CASE IsEmptyRecord(k, i)
      <4>1. i + 2 \in 1..(Len(k) + 1) /\ ~(i + 1 <= N)
        BY <1>2, <2>0, <2>4, <3>4, CellFacts
      <4>2. i + 2 - N \in 1..(z + 1) /\ N + (i + 2 - N) = i + 2
        BY <1>2, <4>1
      <4>3. From(k)[i + 2].records = << >>
        BY <1>3, <4>2
      <4>4. From(k)[i] = From(k)[i + 2]
        BY ONLY <2>1, <2>4, <3>4 DEF Steps
      <4> QED BY <3>3, <4>3, <4>4
    <3>5. CASE ~IsEmptyRecord(k, i)
      <4>1. From(k)[i] = [valid |-> i - 1, records |-> << >>]
        BY ONLY <2>1, <2>4, <3>5 DEF Steps
      <4> QED BY <3>3, <4>1
    <3> QED BY <3>4, <3>5
  <2> QED BY <2>2, <2>3, <2>4
<1>5. \A i \in 1..(N + 1) : i \in G
  <2> HIDE DEF G
  <2> QED BY <1>2, <1>4, FromEnd
<1>6. 1 \in 1..(N + 1)
  BY <1>2
<1> QED
  BY <1>2, <1>5, <1>6, ScanIsFrom DEF RecordsOf, k, o

-----------------------------------------------------------------------------
(* The order of the records.                                               *)

(* The length cell of record id is cell i of f.                            *)
HeadAt(f, i, id) == f[i] = <<id, "len">>

Ascending(s) == \A p, q \in 1..Len(s) : p < q => s[p] < s[q]

HeadsAscend(f) ==
    \A i, j \in 1..Len(f) : \A a, b \in Payloads :
        (i < j /\ HeadAt(f, i, a) /\ HeadAt(f, j, b)) => a < b

(* A file replays records whose length cells it holds, in that order.      *)
LEMMA ScanHeads ==
    ASSUME NEW f \in Seq(Cells)
    PROVE  /\ \A p \in 1..Len(RecordsOf(f)) : \E i \in 1..Len(f) : HeadAt(f, i, RecordsOf(f)[p])
           /\ HeadsAscend(f) => Ascending(RecordsOf(f))
<1> DEFINE R(i) == From(f)[i].records
           P(i) == /\ \A p \in 1..Len(R(i)) : \E a \in i..Len(f) : HeadAt(f, a, R(i)[p])
                   /\ HeadsAscend(f) => Ascending(R(i))
           G == {i \in 1..(Len(f) + 1) : P(i)}
<1>0. Len(f) \in Nat /\ Len(f) + 1 \in Nat
  OBVIOUS
<1>t. ASSUME NEW i \in 1..(Len(f) + 1) PROVE R(i) \in Seq(Payloads)
  BY FromType DEF ScanShape
<1>1. ASSUME NEW i \in 1..(Len(f) + 1), \A j \in (i + 1)..(Len(f) + 1) : j \in G
      PROVE  i \in G
  <2>1. Steps(f, i)
    BY ScanStep
  <2>2. CASE IsRecord(f, i)
    <3>1. i + 3 \in 1..(Len(f) + 1) /\ i \in 1..Len(f) /\ f[i][1] \in Payloads /\ HeadAt(f, i, f[i][1])
      BY <2>2, CellFacts DEF HeadAt
    <3>2. i + 3 \in (i + 1)..(Len(f) + 1)
      BY <3>1
    <3>3. P(i + 3)
      BY <1>1, <3>2
    <3>4. R(i) = <<f[i][1]>> \o R(i + 3)
      BY ONLY <2>1, <2>2 DEF Steps
    <3>5. R(i + 3) \in Seq(Payloads)
      BY <3>1, <1>t
    <3> HIDE DEF R
    <3>6. /\ Len(R(i + 3)) \in Nat /\ Len(R(i)) = 1 + Len(R(i + 3)) /\ R(i)[1] = f[i][1]
          /\ \A p \in 2..Len(R(i)) : p - 1 \in 1..Len(R(i + 3)) /\ R(i)[p] = R(i + 3)[p - 1]
      BY <3>1, <3>4, <3>5
    <3>7. ASSUME NEW p \in 1..Len(R(i)) PROVE \E a \in i..Len(f) : HeadAt(f, a, R(i)[p])
      <4>1. CASE p = 1
        BY <3>1, <3>6, <4>1
      <4>2. CASE p # 1
        <5>1. p \in 2..Len(R(i))
          BY <3>6, <4>2
        <5>2. PICK a \in (i + 3)..Len(f) : HeadAt(f, a, R(i + 3)[p - 1])
          BY <3>3, <3>6, <5>1
        <5>3. a \in i..Len(f)
          BY <3>1
        <5> QED BY <3>6, <5>1, <5>2, <5>3
      <4> QED BY <4>1, <4>2
    <3>8. ASSUME HeadsAscend(f), NEW p \in 1..Len(R(i)), NEW q \in 1..Len(R(i)), p < q
          PROVE  R(i)[p] < R(i)[q]
      <4>1. q \in 2..Len(R(i))
        BY <3>6, <3>8
      <4>2. CASE p = 1
        <5>1. PICK a \in (i + 3)..Len(f) : HeadAt(f, a, R(i + 3)[q - 1])
          BY <3>3, <3>6, <4>1
        <5>2. R(i + 3)[q - 1] \in Payloads
          BY <3>5, <3>6, <4>1
        <5>3. i < a /\ a \in 1..Len(f)
          BY <3>1
        <5> QED BY <3>1, <3>6, <3>8, <4>1, <4>2, <5>1, <5>2, <5>3 DEF HeadsAscend
      <4>3. CASE p # 1
        <5>1. p \in 2..Len(R(i))
          BY <3>6, <4>3
        <5>2. p - 1 < q - 1
          BY <3>8
        <5> QED BY <3>3, <3>6, <3>8, <4>1, <5>1, <5>2 DEF Ascending
      <4> QED BY <4>2, <4>3
    <3> QED
      BY <3>7, <3>8 DEF Ascending
  <2>3. CASE ~IsRecord(f, i) /\ IsEmptyRecord(f, i)
    <3>1. i + 2 \in 1..(Len(f) + 1)
      BY <2>3, CellFacts
    <3>2. i + 2 \in (i + 1)..(Len(f) + 1)
      BY <3>1
    <3>3. P(i + 2)
      BY <1>1, <3>2
    <3>4. R(i) = R(i + 2)
      BY ONLY <2>1, <2>3 DEF Steps
    <3>5. \A a \in (i + 2)..Len(f) : a \in i..Len(f)
      BY <3>1
    <3> HIDE DEF R
    <3> QED
      BY <3>3, <3>4, <3>5
  <2>4. CASE ~IsRecord(f, i) /\ ~IsEmptyRecord(f, i)
    <3>1. R(i) = << >>
      BY ONLY <2>1, <2>4 DEF Steps
    <3> HIDE DEF R
    <3> QED
      BY <3>1 DEF Ascending
  <2> QED
    BY <2>2, <2>3, <2>4
<1>2. \A i \in 1..(Len(f) + 1) : i \in G
  <2> HIDE DEF G
  <2> QED BY <1>0, <1>1, FromEnd
<1>3. 1 \in 1..(Len(f) + 1)
  BY <1>0
<1>4. P(1)
  BY <1>2, <1>3
<1> QED
  BY <1>4, ScanIsFrom DEF RecordsOf

-----------------------------------------------------------------------------
(* Reading one segment after another.                                      *)

IsDir(fs) == DOMAIN fs \subseteq 0..MaxSegment /\ \A s \in DOMAIN fs : fs[s] \in Seq(Cells)

IsJoin(g, j, n) == j = [i \in 1..n |-> IF i = 1 THEN g[i] ELSE j[i - 1] \o g[i]]

Joined(g) == CHOOSE j : IsJoin(g, j, Len(g))

Segs(fs) == [i \in 1..(MaxSegment + 1) |-> SegmentRecords(fs, SegmentOrder[i])]

(* What the segments below n replay.                                       *)
Before(fs, n) == IF n = 0 THEN << >> ELSE Joined(Segs(fs))[n]

LEMMA JoinExists == ASSUME NEW g PROVE \A n \in Nat : \E j : IsJoin(g, j, n)
<1> DEFINE G == {n \in Nat : \E j : IsJoin(g, j, n)}
<1>1. 0 \in G
  <2> DEFINE e == [i \in {} |-> 0]
  <2>1. e = [i \in 1..0 |-> IF i = 1 THEN g[i] ELSE e[i - 1] \o g[i]]
    <3>1. 1..0 = {}
      OBVIOUS
    <3> QED BY <3>1
  <2>2. \E j : IsJoin(g, j, 0)
    BY <2>1 DEF IsJoin
  <2> QED
    BY <2>2
<1>2. ASSUME NEW n \in Nat, n \in G PROVE n + 1 \in G
  <2>1. PICK j : IsJoin(g, j, n)
    BY <1>2
  <2> DEFINE new == [i \in 1..(n + 1) |->
                        IF i <= n THEN j[i] ELSE IF i = 1 THEN g[i] ELSE j[i - 1] \o g[i]]
  <2>2. ASSUME NEW i \in 1..(n + 1)
        PROVE  new[i] = IF i = 1 THEN g[i] ELSE new[i - 1] \o g[i]
    <3>1. i # 1 => new[i - 1] = j[i - 1]
      OBVIOUS
    <3>2. i <= n => j[i] = IF i = 1 THEN g[i] ELSE j[i - 1] \o g[i]
      <4>1. i <= n => i \in 1..n
        OBVIOUS
      <4>2. i \in 1..n => [k \in 1..n |-> IF k = 1 THEN g[k] ELSE j[k - 1] \o g[k]][i]
                            = IF i = 1 THEN g[i] ELSE j[i - 1] \o g[i]
        OBVIOUS
      <4> QED BY <2>1, <4>1, <4>2 DEF IsJoin
    <3>3. new[i] = IF i <= n THEN j[i] ELSE IF i = 1 THEN g[i] ELSE j[i - 1] \o g[i]
      OBVIOUS
    <3> HIDE DEF new
    <3> QED
      BY <3>1, <3>2, <3>3
  <2>3. new = [i \in 1..(n + 1) |-> IF i = 1 THEN g[i] ELSE new[i - 1] \o g[i]]
    BY <2>2
  <2> HIDE DEF new
  <2>4. \E b : IsJoin(g, b, n + 1)
    BY <2>3 DEF IsJoin
  <2> QED
    BY <2>4
<1>3. \A n \in Nat : n \in G
  <2> HIDE DEF G
  <2> QED BY <1>1, <1>2, NumbersByStep
<1> QED
  BY <1>3

LEMMA SegType ==
    ASSUME NEW fs, IsDir(fs), NEW s
    PROVE  SegmentRecords(fs, s) \in Seq(Payloads)
BY ScanType DEF IsDir, SegmentRecords

LEMMA SegsFacts ==
    ASSUME NEW fs
    PROVE  /\ Len(Segs(fs)) = MaxSegment + 1
           /\ \A i \in 1..(MaxSegment + 1) : Segs(fs)[i] = SegmentRecords(fs, i - 1)
<1>1. MaxSegment + 1 \in Nat
  BY WalBounds
<1>2. \A i \in 1..(MaxSegment + 1) : SegmentOrder[i] = i - 1
  BY DEF SegmentOrder
<1> QED
  BY <1>1, <1>2 DEF Segs

LEMMA ReplayIsBefore ==
    ASSUME NEW fs
    PROVE  ReplayOf(fs) = Before(fs, MaxSegment + 1)
<1>1. Len(Segs(fs)) = MaxSegment + 1 /\ MaxSegment + 1 # 0
  BY SegsFacts, WalBounds
<1>2. ReplayOf(fs) = FlattenSeq(Segs(fs))
  BY DEF ReplayOf, Segs
<1>3. FlattenSeq(Segs(fs)) = Joined(Segs(fs))[Len(Segs(fs))]
  BY <1>1 DEF FlattenSeq, Joined, IsJoin
<1> QED
  BY <1>1, <1>2, <1>3 DEF Before

LEMMA BeforeStep ==
    ASSUME NEW fs, IsDir(fs)
    PROVE  /\ Before(fs, 0) = << >>
           /\ \A n \in 0..MaxSegment :
                Before(fs, n + 1) = Before(fs, n) \o SegmentRecords(fs, n)
           /\ \A n \in 0..(MaxSegment + 1) : Before(fs, n) \in Seq(Payloads)
<1> DEFINE J == Joined(Segs(fs))
<1>0. MaxSegment \in Nat
  BY WalBounds
<1>1. IsJoin(Segs(fs), J, MaxSegment + 1)
  <2>1. \E j : IsJoin(Segs(fs), j, Len(Segs(fs)))
    <3>1. Len(Segs(fs)) \in Nat
      BY <1>0, SegsFacts
    <3> QED BY <3>1, JoinExists
  <2> QED
    BY <2>1, SegsFacts DEF Joined
<1>2. ASSUME NEW i \in 1..(MaxSegment + 1)
      PROVE  J[i] = IF i = 1 THEN SegmentRecords(fs, i - 1) ELSE J[i - 1] \o SegmentRecords(fs, i - 1)
  <2> HIDE DEF J
  <2>1. [k \in 1..(MaxSegment + 1) |-> IF k = 1 THEN Segs(fs)[k] ELSE J[k - 1] \o Segs(fs)[k]][i]
          = IF i = 1 THEN Segs(fs)[i] ELSE J[i - 1] \o Segs(fs)[i]
    OBVIOUS
  <2> QED
    BY <1>1, <2>1, SegsFacts DEF IsJoin
<1> HIDE DEF J
<1>3. Before(fs, 0) = << >>
  BY DEF Before
<1>4. ASSUME NEW n \in 0..MaxSegment
      PROVE  Before(fs, n + 1) = Before(fs, n) \o SegmentRecords(fs, n)
  <2>1. n + 1 \in 1..(MaxSegment + 1) /\ n + 1 # 0 /\ (n + 1) - 1 = n
    BY <1>0
  <2>2. Before(fs, n + 1) = J[n + 1]
    BY <2>1 DEF Before, J
  <2>3. CASE n = 0
    <3>1. J[n + 1] = SegmentRecords(fs, n)
      BY <1>2, <2>1, <2>3
    <3>2. << >> \o SegmentRecords(fs, n) = SegmentRecords(fs, n)
      BY SegType
    <3> QED BY <2>2, <2>3, <3>1, <3>2, <1>3
  <2>4. CASE n # 0
    <3>0. n + 1 # 1
      BY <2>4
    <3>1. J[n + 1] = J[n] \o SegmentRecords(fs, n)
      BY <1>2, <2>1, <3>0
    <3>2. Before(fs, n) = J[n]
      BY <2>4 DEF Before, J
    <3> QED BY <2>2, <3>1, <3>2
  <2> QED
    BY <2>3, <2>4
<1>5. \A n \in 0..(MaxSegment + 1) : Before(fs, n) \in Seq(Payloads)
  <2> DEFINE G == {n \in Nat : n <= MaxSegment + 1 => Before(fs, n) \in Seq(Payloads)}
  <2>1. 0 \in G
    <3>1. << >> \in Seq(Payloads)
      OBVIOUS
    <3> QED BY <1>3, <3>1
  <2>2. ASSUME NEW n \in Nat, n \in G PROVE n + 1 \in G
    <3> SUFFICES ASSUME n + 1 <= MaxSegment + 1 PROVE Before(fs, n + 1) \in Seq(Payloads)
      OBVIOUS
    <3>1. n \in 0..MaxSegment /\ n <= MaxSegment + 1
      BY <1>0
    <3>2. Before(fs, n) \in Seq(Payloads) /\ SegmentRecords(fs, n) \in Seq(Payloads)
      BY <2>2, <3>1, SegType
    <3>3. Before(fs, n) \o SegmentRecords(fs, n) \in Seq(Payloads)
      BY <3>2, ConcatProperties
    <3> QED BY <1>4, <3>1, <3>3
  <2>3. \A n \in Nat : n \in G
    <3> HIDE DEF G
    <3> QED BY <2>1, <2>2, NumbersByStep
  <2> QED
    BY <1>0, <2>3
<1> QED
  BY <1>3, <1>4, <1>5

LEMMA ReplayType == ASSUME NEW fs, IsDir(fs) PROVE ReplayOf(fs) \in Seq(Payloads)
<1>1. MaxSegment + 1 \in 0..(MaxSegment + 1)
  BY WalBounds
<1> QED
  BY <1>1, BeforeStep, ReplayIsBefore

LEMMA BeforeSame ==
    ASSUME NEW fs, IsDir(fs), NEW gs, IsDir(gs), NEW n \in 0..(MaxSegment + 1),
           \A s \in 0..MaxSegment : s < n => SegmentRecords(fs, s) = SegmentRecords(gs, s)
    PROVE  Before(fs, n) = Before(gs, n)
<1> DEFINE G == {k \in Nat : k <= n => Before(fs, k) = Before(gs, k)}
<1>0. MaxSegment \in Nat
  BY WalBounds
<1>1. 0 \in G
  BY BeforeStep
<1>2. ASSUME NEW k \in Nat, k \in G PROVE k + 1 \in G
  <2> SUFFICES ASSUME k + 1 <= n PROVE Before(fs, k + 1) = Before(gs, k + 1)
    OBVIOUS
  <2>1. k \in 0..MaxSegment /\ k < n /\ k <= n
    BY <1>0
  <2>2. Before(fs, k) = Before(gs, k)
    BY <1>2, <2>1
  <2> QED
    BY <2>1, <2>2, BeforeStep
<1>3. \A k \in Nat : k \in G
  <2> HIDE DEF G
  <2> QED BY <1>1, <1>2, NumbersByStep
<1> QED
  BY <1>0, <1>3

LEMMA BeforeGrows ==
    ASSUME NEW fs, IsDir(fs), NEW a \in 0..(MaxSegment + 1), NEW b \in a..(MaxSegment + 1)
    PROVE  /\ StartsWith(Before(fs, b), Before(fs, a))
           /\ (\A s \in a..(b - 1) : SegmentRecords(fs, s) = << >>) => Before(fs, b) = Before(fs, a)
<1> DEFINE P(k) == /\ StartsWith(Before(fs, a + k), Before(fs, a))
                   /\ (\A s \in a..(b - 1) : SegmentRecords(fs, s) = << >>)
                        => Before(fs, a + k) = Before(fs, a)
           G == {k \in Nat : a + k <= b => P(k)}
<1>0. MaxSegment \in Nat
  BY WalBounds
<1>1. 0 \in G
  <2>1. Before(fs, a) \in Seq(Payloads) /\ a + 0 = a
    BY BeforeStep
  <2>2. StartsWith(Before(fs, a), Before(fs, a))
    BY <2>1, StartsWithSelf
  <2> QED
    BY <2>1, <2>2
<1>2. ASSUME NEW k \in Nat, k \in G PROVE k + 1 \in G
  <2> SUFFICES ASSUME a + (k + 1) <= b PROVE P(k + 1)
    OBVIOUS
  <2>1. /\ a + k \in 0..MaxSegment /\ a + k <= b /\ a + k \in a..(b - 1)
        /\ (a + k) + 1 = a + (k + 1) /\ a + k \in 0..(MaxSegment + 1)
    BY <1>0
  <2>2. P(k)
    BY <1>2, <2>1
  <2>3. Before(fs, a + (k + 1)) = Before(fs, a + k) \o SegmentRecords(fs, a + k)
    BY <2>1, BeforeStep
  <2>4. /\ SegmentRecords(fs, a + k) \in Seq(Payloads)
        /\ Before(fs, a + k) \in Seq(Payloads) /\ Before(fs, a) \in Seq(Payloads)
    BY <2>1, SegType, BeforeStep
  <2>5. StartsWith(Before(fs, a + (k + 1)), Before(fs, a + k))
    BY <2>3, <2>4 DEF StartsWith
  <2>6. StartsWith(Before(fs, a + (k + 1)), Before(fs, a))
    BY <2>2, <2>4, <2>5, StartsWithTrans
  <2>7. ASSUME \A s \in a..(b - 1) : SegmentRecords(fs, s) = << >>
        PROVE  Before(fs, a + (k + 1)) = Before(fs, a)
    <3>1. SegmentRecords(fs, a + k) = << >> /\ Before(fs, a + k) = Before(fs, a)
      BY <2>1, <2>2, <2>7
    <3>2. Before(fs, a + (k + 1)) = Before(fs, a) \o << >>
      BY <2>3, <3>1
    <3>3. \A S : \A x \in Seq(S) : x \o << >> = x
      OBVIOUS
    <3> QED BY ONLY <2>4, <3>2, <3>3
  <2> QED
    BY <2>6, <2>7
<1>3. \A k \in Nat : k \in G
  <2> HIDE DEF G
  <2> QED BY <1>1, <1>2, NumbersByStep
<1>4. b - a \in Nat /\ a + (b - a) = b /\ a + (b - a) <= b
  BY <1>0
<1>5. P(b - a)
  BY <1>3, <1>4
<1> QED
  BY <1>4, <1>5

(* The length cells of a directory come in the order of the records.       *)
DirAscends(fs) ==
    \A s, t \in DOMAIN fs : \A i \in 1..Len(fs[s]), j \in 1..Len(fs[t]) : \A a, b \in Payloads :
        ((s < t \/ (s = t /\ i < j)) /\ HeadAt(fs[s], i, a) /\ HeadAt(fs[t], j, b)) => a < b

LEMMA ReplayAscends ==
    ASSUME NEW fs, IsDir(fs), DirAscends(fs)
    PROVE  Ascending(ReplayOf(fs))
<1> DEFINE Has(n, id) == \E s \in DOMAIN fs : s < n /\ \E i \in 1..Len(fs[s]) : HeadAt(fs[s], i, id)
           P(n) == /\ \A p \in 1..Len(Before(fs, n)) : Has(n, Before(fs, n)[p])
                   /\ Ascending(Before(fs, n))
           G == {n \in Nat : n <= MaxSegment + 1 => P(n)}
<1>0. MaxSegment \in Nat /\ \A s \in DOMAIN fs : s \in 0..MaxSegment /\ fs[s] \in Seq(Cells)
  BY WalBounds DEF IsDir
<1>1. 0 \in G
  <2>1. Before(fs, 0) = << >>
    BY BeforeStep
  <2> QED
    BY <2>1 DEF Ascending
<1>2. ASSUME NEW n \in Nat, n \in G PROVE n + 1 \in G
  <2> SUFFICES ASSUME n + 1 <= MaxSegment + 1 PROVE P(n + 1)
    OBVIOUS
  <2> DEFINE A == Before(fs, n)
             B == SegmentRecords(fs, n)
  <2>1. n \in 0..MaxSegment /\ n <= MaxSegment + 1 /\ n \in 0..(MaxSegment + 1)
    BY <1>0
  <2>2. P(n)
    BY <1>2, <2>1
  <2>3. Before(fs, n + 1) = A \o B /\ A \in Seq(Payloads) /\ B \in Seq(Payloads)
    BY <2>1, BeforeStep, SegType
  <2>4. /\ \A q \in 1..Len(B) : n \in DOMAIN fs /\ \E i \in 1..Len(fs[n]) : HeadAt(fs[n], i, B[q])
        /\ Ascending(B)
    <3>1. CASE n \in DOMAIN fs
      <4>1. B = RecordsOf(fs[n]) /\ fs[n] \in Seq(Cells)
        BY <3>1, <1>0 DEF SegmentRecords
      <4>2. HeadsAscend(fs[n])
        BY <3>1 DEF DirAscends, HeadsAscend
      <4> QED BY <3>1, <4>1, <4>2, ScanHeads
    <3>2. CASE n \notin DOMAIN fs
      <4>1. B = << >>
        BY <3>2 DEF SegmentRecords
      <4> QED BY <4>1 DEF Ascending
    <3> QED BY <3>1, <3>2
  <2>5. /\ Len(A) \in Nat /\ Len(B) \in Nat /\ Len(A \o B) = Len(A) + Len(B)
        /\ \A p \in 1..Len(A) : (A \o B)[p] = A[p] /\ A[p] \in Payloads
        /\ \A p \in (Len(A) + 1)..(Len(A) + Len(B)) :
              p - Len(A) \in 1..Len(B) /\ (A \o B)[p] = B[p - Len(A)] /\ B[p - Len(A)] \in Payloads
    BY <2>3
  <2>6. /\ \A p \in 1..Len(A) : Has(n, A[p])
        /\ Ascending(A)
    BY <2>2
  <2> HIDE DEF A, B
  <2>7. ASSUME NEW p \in 1..Len(A \o B) PROVE Has(n + 1, (A \o B)[p])
    <3>1. CASE p \in 1..Len(A)
      <4>1. PICK s \in DOMAIN fs : s < n /\ \E i \in 1..Len(fs[s]) : HeadAt(fs[s], i, A[p])
        BY <2>6, <3>1
      <4>2. s < n + 1
        BY <1>0, <4>1
      <4> QED BY <2>5, <3>1, <4>1, <4>2
    <3>2. CASE p \notin 1..Len(A)
      <4>1. p \in (Len(A) + 1)..(Len(A) + Len(B))
        BY <2>5, <3>2
      <4>2. n \in DOMAIN fs /\ n < n + 1 /\ \E i \in 1..Len(fs[n]) : HeadAt(fs[n], i, B[p - Len(A)])
        BY <2>4, <2>5, <4>1
      <4> QED BY <2>5, <4>1, <4>2
    <3> QED BY <3>1, <3>2
  <2>8. ASSUME NEW p \in 1..Len(A \o B), NEW q \in 1..Len(A \o B), p < q
        PROVE  (A \o B)[p] < (A \o B)[q]
    <3>1. CASE q \in 1..Len(A)
      <4>1. p \in 1..Len(A)
        BY <2>5, <2>8, <3>1
      <4> QED BY <2>5, <2>6, <2>8, <3>1, <4>1 DEF Ascending
    <3>2. CASE q \notin 1..Len(A) /\ p \notin 1..Len(A)
      <4>1. p \in (Len(A) + 1)..(Len(A) + Len(B)) /\ q \in (Len(A) + 1)..(Len(A) + Len(B))
        BY <2>5, <3>2
      <4>2. p - Len(A) < q - Len(A)
        BY <2>5, <2>8, <4>1
      <4> QED BY <2>4, <2>5, <4>1, <4>2 DEF Ascending
    <3>3. CASE q \notin 1..Len(A) /\ p \in 1..Len(A)
      <4>1. q \in (Len(A) + 1)..(Len(A) + Len(B))
        BY <2>5, <3>3
      <4>2. PICK s \in DOMAIN fs : s < n /\ \E i \in 1..Len(fs[s]) : HeadAt(fs[s], i, A[p])
        BY <2>6, <3>3
      <4>3. PICK i \in 1..Len(fs[s]) : HeadAt(fs[s], i, A[p])
        BY <4>2
      <4>4. n \in DOMAIN fs /\ \E j \in 1..Len(fs[n]) : HeadAt(fs[n], j, B[q - Len(A)])
        BY <2>4, <2>5, <4>1
      <4>5. PICK j \in 1..Len(fs[n]) : HeadAt(fs[n], j, B[q - Len(A)])
        BY <4>4
      <4>6. A[p] \in Payloads /\ B[q - Len(A)] \in Payloads
        BY <2>5, <3>3, <4>1
      <4>7. A[p] < B[q - Len(A)]
        BY <4>2, <4>3, <4>4, <4>5, <4>6 DEF DirAscends
      <4> QED BY <2>5, <3>3, <4>1, <4>7
    <3> QED BY <3>1, <3>2, <3>3
  <2> QED
    BY <2>3, <2>7, <2>8 DEF Ascending, A, B
<1>3. \A n \in Nat : n \in G
  <2> HIDE DEF G
  <2> QED BY <1>1, <1>2, NumbersByStep
<1>4. MaxSegment + 1 \in Nat /\ MaxSegment + 1 <= MaxSegment + 1
  BY <1>0
<1>5. P(MaxSegment + 1)
  BY <1>3, <1>4
<1> QED
  BY <1>5, ReplayIsBefore

-----------------------------------------------------------------------------
(* The invariant.                                                          *)

(* Segment s needs no more syncing: its cells are on the disk, and so is   *)
(* its directory entry, unless there is nothing in it.                     *)
Settled(s) ==
    /\ durable[s] = Len(files[s])
    /\ FsyncEntry => (s \in entries \/ files[s] = << >>)

Rotating == {"rotate_flush", "rotate_sync", "rotate_create", "rotate_dir"}

(* The record under way has its number and no cell yet.                    *)
Fresh == phase \in Rotating \/ (phase = "write" /\ parts = 0)

(* While the log is open, the segments below the open one are settled,     *)
(* unless a crash stranded cells there, and those above are left over from *)
(* rotations that failed: they are empty, and the rotation has synced the  *)
(* open one before, so that its directory entry is on the disk.            *)
WriterOK ==
    /\ DOMAIN files \subseteq 0..index
    /\ \A s \in DOMAIN files : (s < cur /\ ~stranded => Settled(s)) /\ (s > cur => files[s] = << >>)
    /\ (FsyncEntry /\ \E s \in DOMAIN files : s > cur) => cur \in entries
    /\ phase \in {"sync", "rotate_sync", "rotate_create", "rotate_dir"} => buf = << >>
    /\ phase \in {"rotate_create", "rotate_dir"} => Settled(cur) /\ (FsyncEntry => cur \in entries)
    /\ phase \in Rotating => parts = 0
    /\ phase \in Rotating \ {"rotate_dir"} => index < MaxSegment
    /\ phase = "rotate_dir" => index \in DOMAIN files /\ cur < index
    /\ phase = "write" => parts < RecordCells
    /\ phase \in Rotating \cup {"write"} => rec > 0

(* While it is closed, a reader finds what the log stands for, and all     *)
(* segments but the last are settled, unless cells are stranded there.     *)
ClosedOK ==
    /\ buf = << >> /\ log = Replay
    /\ ~stranded => \A s, t \in DOMAIN files : s < t => Settled(s)

(* Without a torn append, the open segment and the buffer hold the records *)
(* of the log that the segments below do not, and the record under way.    *)
Underway == IF phase = "write" THEN Part(rec, parts) ELSE << >>

StreamOK ==
    \E v \in Seq(Cells) :
        /\ files[cur] \o buf = v \o Underway
        /\ Whole(v)
        /\ log = Before(files, cur) \o RecordsOf(v)

(* The length cells come in the order of the records, and no record is     *)
(* ahead of the last one.                                                  *)
Held == [s \in DOMAIN files |-> IF s = cur THEN files[s] \o buf ELSE files[s]]

HeadsOK ==
    /\ DirAscends(Held)
    /\ \A s \in DOMAIN files : \A i \in 1..Len(Held[s]) : \A a \in Payloads :
            HeadAt(Held[s], i, a) => a <= rec /\ (Fresh => a < rec)

(* Segment m holds the last synced record.  Everything up to there is on   *)
(* the disk.                                                               *)
SyncedUpTo(m) ==
    /\ m \in entries /\ (phase # "down" => m <= cur)
    /\ \A s \in DOMAIN files : s < m => Settled(s)
    /\ StartsWith(Before(files, m) \o RecordsOf(SubSeq(files[m], 1, durable[m])), synced)

SyncedOK == FsyncEntry => (synced = << >> \/ \E m \in DOMAIN files : SyncedUpTo(m))

WalInv ==
    /\ WalTypeOK
    /\ phase # "down" => WriterOK
    /\ phase = "down" => ClosedOK
    /\ (phase # "down" /\ ~torn) => StreamOK
    /\ HeadsOK
    /\ SyncedOK

LEMMA BytesType == ASSUME NEW f \in Seq(Cells) PROVE Bytes(f) \in Nat
<1> DEFINE g == [i \in DOMAIN f |-> CellBytes(f[i])]
<1>1. DOMAIN f = 1..Len(f) /\ Len(f) \in Nat /\ \A i \in DOMAIN f : f[i] \in Cells
  OBVIOUS
<1>2. IsFiniteSet(DOMAIN f)
  BY <1>1, FS_Interval
<1>3. ASSUME NEW i \in DOMAIN f PROVE g[i] \in Nat
  <2>1. f[i] = Zero \/ \E n \in 1..MaxRecords : \E k \in {"len", "crc", "pay"} : f[i] = <<n, k>>
    BY <1>1 DEF Cells
  <2>2. CellBytes(f[i]) \in Nat
    BY <2>1, WalBounds DEF CellBytes, Zero
  <2> QED BY <2>2
<1> HIDE DEF g
<1>4. SumFunctionOnSet(g, DOMAIN f) \in Nat
  BY <1>2, <1>3, SumNat
<1> QED BY <1>4 DEF g, Bytes

LEMMA TypeFacts ==
    ASSUME WalTypeOK
    PROVE  /\ IsDir(files) /\ MaxSegment \in Nat /\ SegmentSize \in Nat /\ BufCells \in Nat \ {0}
           /\ \A s \in DOMAIN files : /\ s \in 0..MaxSegment /\ files[s] \in Seq(Cells)
                                      /\ durable[s] \in 0..Len(files[s]) /\ Len(files[s]) \in Nat
           /\ Len(buf) \in Nat
BY WalBounds DEF WalTypeOK, IsDir

(* Moving cells from the buffer to the file leaves the stream as it is.    *)
LEMMA DrainFacts ==
    ASSUME WalTypeOK, phase # "down", NEW n \in 0..Len(buf), Drain(n)
    PROVE  /\ DOMAIN files' = DOMAIN files /\ \A s \in DOMAIN files : s # cur => files'[s] = files[s]
           /\ \E x \in Seq(Cells) : files'[cur] = files[cur] \o x
           /\ buf' \in Seq(Cells) /\ Len(buf') = Len(buf) - n
           /\ files'[cur] \o buf' = files[cur] \o buf
           /\ files'[cur] \in Seq(Cells) /\ Len(files'[cur]) = Len(files[cur]) + n
           /\ n = 0 => files'[cur] = files[cur]
<1> DEFINE x == SubSeq(buf, 1, n)
           y == SubSeq(buf, n + 1, Len(buf))
<1>1. buf \in Seq(Cells) /\ cur \in DOMAIN files /\ files[cur] \in Seq(Cells)
  BY TypeFacts DEF WalTypeOK
<1>2. x \in Seq(Cells) /\ Len(x) = n
  BY <1>1, CutAt
<1>3. y \in Seq(Cells) /\ Len(y) = Len(buf) - n
  <2>1. \A i \in (n + 1)..Len(buf) : buf[i] \in Cells
    BY <1>1
  <2>2. n + 1 \in Int /\ Len(buf) \in Int
    BY <1>1
  <2> QED BY <2>1, <2>2, SubSeqProperties
<1>4. x \o y = buf
  <2>1. 1 \in 1..(Len(buf) + 1) /\ n \in (1 - 1)..Len(buf) /\ Len(buf) \in n..Len(buf)
    BY <1>1
  <2> QED BY <1>1, <2>1, ConcatAdjacentSubSeq, SubSeqFull
<1>5. /\ DOMAIN files' = DOMAIN files /\ \A s \in DOMAIN files : s # cur => files'[s] = files[s]
      /\ files'[cur] = files[cur] \o x /\ buf' = y
  BY <1>1 DEF Drain
<1> HIDE DEF x, y
<1>6. (files[cur] \o x) \o y = files[cur] \o (x \o y)
  BY <1>1, <1>2, <1>3, CellAssoc
<1>7. files[cur] \o x \in Seq(Cells) /\ Len(files[cur] \o x) = Len(files[cur]) + n
  BY <1>1, <1>2, ConcatProperties
<1>8. n = 0 => files[cur] \o x = files[cur]
  <2>1. n = 0 => x = << >>
    BY <1>2
  <2> QED BY <1>1, <2>1
<1> QED
  BY <1>2, <1>3, <1>4, <1>5, <1>6, <1>7, <1>8

LEMMA InitInv == WalInit => WalInv
<1> SUFFICES ASSUME WalInit PROVE WalInv
  OBVIOUS
<1>1. DOMAIN files = {} /\ DOMAIN durable = {} /\ DOMAIN Held = {}
  BY DEF WalInit, Held
<1>2. << >> \in Seq(Cells) /\ Len(<< >>) = 0 /\ << >> \in Seq(1..MaxRecords)
  OBVIOUS
<1>3. WalTypeOK
  <2>1. 0 \in 0..MaxSegment /\ 0 \in 0..0 /\ 0 \in Nat /\ 0 \in 0..MaxRecords /\ 0 \in 0..RecordCells
        /\ 0 \in 0..MaxWalCrashes /\ 0 \in 0..MaxErrors /\ 0 <= BufCells
    BY WalBounds DEF RecordCells
  <2>2. /\ DOMAIN files \subseteq 0..MaxSegment /\ DOMAIN durable = DOMAIN files
        /\ \A s \in DOMAIN files : files[s] \in Seq(Cells) /\ durable[s] \in 0..Len(files[s])
        /\ entries \subseteq DOMAIN files
    BY <1>1 DEF WalInit
  <2> QED
    BY <1>2, <2>1, <2>2 DEF WalInit, WalTypeOK, Phases
<1>4. Replay = << >>
  <2>1. IsDir(files)
    BY <1>3, TypeFacts
  <2>2. 0 \in 0..(MaxSegment + 1) /\ MaxSegment + 1 \in 0..(MaxSegment + 1)
    BY WalBounds
  <2>3. \A s : SegmentRecords(files, s) = << >>
    BY <1>1 DEF SegmentRecords
  <2> QED
    BY <2>1, <2>2, <2>3, BeforeGrows, BeforeStep, ReplayIsBefore DEF Replay
<1>5. ClosedOK
  BY <1>1, <1>4 DEF ClosedOK, WalInit
<1>6. HeadsOK
  BY <1>1 DEF HeadsOK, DirAscends
<1> QED
  BY <1>3, <1>5, <1>6 DEF WalInv, WalInit, SyncedOK

(* Cells only move or vanish: the heads keep their order.                  *)
LEMMA HeadsKept ==
    ASSUME HeadsOK, rec \in Nat, rec' \in Nat, DOMAIN Held' = DOMAIN files', DOMAIN Held = DOMAIN files,
           \A s \in DOMAIN files' : \A i \in 1..Len(Held'[s]) : \A a \in Payloads :
              HeadAt(Held'[s], i, a) => /\ s \in DOMAIN files /\ i \in 1..Len(Held[s])
                                        /\ HeadAt(Held[s], i, a),
           rec <= rec', Fresh' => ((Fresh /\ rec' = rec) \/ rec < rec')
    PROVE  HeadsOK'
<1>1. DirAscends(Held)'
  BY DEF DirAscends, HeadsOK
<1>2. ASSUME NEW s \in DOMAIN files', NEW i \in 1..Len(Held'[s]), NEW a \in Payloads, HeadAt(Held'[s], i, a)
      PROVE  a <= rec' /\ (Fresh' => a < rec')
  <2>1. a <= rec /\ (Fresh => a < rec)
    BY <1>2 DEF HeadsOK
  <2>2. a \in Nat
    BY DEF Payloads
  <2> QED
    BY <2>1, <2>2
<1> QED
  BY <1>1, <1>2 DEF HeadsOK

(* What was synced stays on the disk.                                      *)
LEMMA SyncedKept ==
    ASSUME IsDir(files), IsDir(files'), synced \in Seq(Payloads), synced' = synced,
           NEW m \in DOMAIN files, SyncedUpTo(m),
           m \in entries', m \in DOMAIN files', (phase # "down")' => m <= cur',
           \A s \in DOMAIN files' : s < m => Settled(s)',
           \A s \in 0..MaxSegment : s < m => SegmentRecords(files', s) = SegmentRecords(files, s),
           durable[m] \in 0..Len(files[m]), durable'[m] \in 0..Len(files'[m]),
           StartsWith(RecordsOf(SubSeq(files'[m], 1, durable'[m])),
                      RecordsOf(SubSeq(files[m], 1, durable[m])))
    PROVE  SyncedUpTo(m)'
<1> DEFINE D == RecordsOf(SubSeq(files[m], 1, durable[m]))
           E == RecordsOf(SubSeq(files'[m], 1, durable'[m]))
<1>1. m \in 0..MaxSegment /\ m \in 0..(MaxSegment + 1)
  BY WalBounds DEF IsDir
<1>2. Before(files', m) = Before(files, m) /\ Before(files, m) \in Seq(Payloads)
  BY <1>1, BeforeSame, BeforeStep
<1>3. D \in Seq(Payloads) /\ E \in Seq(Payloads)
  BY CutAt, ScanType DEF IsDir
<1> HIDE DEF D, E
<1>4. StartsWith(Before(files, m) \o E, Before(files, m) \o D)
  BY <1>2, <1>3, StartsWithBehind DEF D, E
<1>5. StartsWith(Before(files, m) \o D, synced)
  BY DEF SyncedUpTo, D
<1>6. StartsWith(Before(files, m) \o E, synced)
  BY <1>4, <1>5, StartsWithTrans
<1> QED
  BY <1>2, <1>6 DEF SyncedUpTo, E

LEMMA HeldDomain == DOMAIN Held = DOMAIN files /\ (DOMAIN Held)' = DOMAIN files'
BY DEF Held

LEMMA Numbers ==
    ASSUME WalTypeOK
    PROVE  /\ rec \in Nat /\ parts \in Nat /\ index \in Nat /\ cur \in Nat /\ bytes \in Nat
           /\ (phase \in Rotating \cup {"write"} /\ WriterOK => rec \in Payloads)
BY WalBounds DEF WalTypeOK, WriterOK, Payloads

(* A step that leaves the disk, the buffer and the log alone.              *)
LEMMA QuietKeeps ==
    ASSUME WalInv, phase # "down", phase' # "down", WalTypeOK', WriterOK',
           UNCHANGED <<files, durable, entries, buf, cur, ghost>>, Underway' = Underway,
           rec <= rec', Fresh' => ((Fresh /\ rec' = rec) \/ rec < rec')
    PROVE  WalInv'
<1>1. Held' = Held
  BY DEF Held
<1>2. rec \in Nat /\ rec' \in Nat
  BY WalBounds DEF WalInv, WalTypeOK
<1>3. HeadsOK'
  BY <1>1, <1>2, HeadsKept, HeldDomain DEF WalInv
<1>4. (~torn => StreamOK) => (~torn' => StreamOK')
  BY DEF StreamOK, ghost
<1>5. SyncedOK => SyncedOK'
  <2>1. ASSUME NEW m \in DOMAIN files, SyncedUpTo(m) PROVE SyncedUpTo(m)'
    BY <2>1 DEF SyncedUpTo, Settled, ghost
  <2> QED
    BY <2>1 DEF SyncedOK, ghost
<1> QED
  BY <1>3, <1>4, <1>5 DEF WalInv

LEMMA AppendCallKeeps == ASSUME WalInv, AppendCall PROVE WalInv'
<1>0. /\ WalTypeOK /\ WriterOK /\ phase = "idle" /\ rec < MaxRecords /\ rec' = rec + 1 /\ parts' = 0
      /\ UNCHANGED <<files, durable, entries, buf, cur, index, bytes, ghost, walCrashes, errors>>
  BY DEF WalInv, AppendCall, handle, disk
<1>1. \/ phase' = "write"
      \/ phase' = "rotate_flush" /\ index < MaxSegment
  BY DEF AppendCall
<1>2. WalTypeOK'
  <2>1. rec' \in 0..MaxRecords /\ parts' \in 0..RecordCells
    BY <1>0, WalBounds DEF WalTypeOK, RecordCells
  <2> QED
    BY <1>0, <1>1, <2>1 DEF WalTypeOK, Phases, ghost
<1>3. WriterOK'
  <2>1. rec' > 0 /\ parts' < RecordCells
    BY <1>0, WalBounds DEF WalTypeOK, RecordCells
  <2> QED
    BY <1>0, <1>1, <2>1 DEF WriterOK, Settled, Rotating, ghost
<1>4. Underway = << >> /\ Underway' = << >>
  <2>1. SubSeq(Frame(rec'), 1, 0) = << >>
    BY SubSeqEmpty
  <2> QED
    BY <1>0, <1>1, <2>1 DEF Underway, Part
<1>5. rec <= rec' /\ rec < rec'
  BY <1>0, Numbers
<1> QED
  BY <1>0, <1>1, <1>2, <1>3, <1>4, <1>5, QuietKeeps

LEMMA FsyncFailsKeeps == ASSUME WalInv, FsyncFails PROVE WalInv'
<1>0. /\ WalTypeOK /\ WriterOK /\ phase \in {"sync", "rotate_sync"} /\ phase' = "idle"
      /\ errors < MaxErrors /\ errors' = errors + 1
      /\ UNCHANGED <<files, durable, entries, buf, cur, index, bytes, rec, parts, ghost, walCrashes>>
  BY DEF WalInv, FsyncFails, IoError, handle, disk
<1>2. WalTypeOK'
  <2>1. errors' \in 0..MaxErrors
    BY <1>0, WalBounds DEF WalTypeOK
  <2> QED
    BY <1>0, <2>1 DEF WalTypeOK, Phases, ghost
<1>3. WriterOK'
  BY <1>0 DEF WriterOK, Settled, Rotating, ghost
<1>4. Underway' = Underway /\ rec <= rec' /\ ~Fresh'
  BY <1>0, Numbers DEF Underway, Fresh, Rotating
<1> QED
  BY <1>0, <1>2, <1>3, <1>4, QuietKeeps

LEMMA RotateDirFailsKeeps == ASSUME WalInv, RotateDirFails PROVE WalInv'
<1>0. /\ WalTypeOK /\ WriterOK /\ phase = "rotate_dir" /\ phase' = "idle"
      /\ errors < MaxErrors /\ errors' = errors + 1
      /\ UNCHANGED <<files, durable, entries, buf, cur, index, bytes, rec, parts, ghost, walCrashes>>
  BY DEF WalInv, RotateDirFails, IoError, handle, disk
<1>2. WalTypeOK'
  <2>1. errors' \in 0..MaxErrors
    BY <1>0, WalBounds DEF WalTypeOK
  <2> QED
    BY <1>0, <2>1 DEF WalTypeOK, Phases, ghost
<1>3. WriterOK'
  BY <1>0 DEF WriterOK, Settled, Rotating, ghost
<1>4. Underway' = Underway /\ rec <= rec' /\ ~Fresh'
  BY <1>0, Numbers DEF Underway, Fresh, Rotating
<1> QED
  BY <1>0, <1>2, <1>3, <1>4, QuietKeeps

LEMMA RotateCreateFailsKeeps == ASSUME WalInv, RotateCreateFails PROVE WalInv'
<1>0. /\ WalTypeOK /\ WriterOK /\ phase = "rotate_create" /\ phase' = "idle"
      /\ errors < MaxErrors /\ errors' = errors + 1 /\ index' = index + 1
      /\ UNCHANGED <<files, durable, entries, buf, cur, bytes, rec, parts, ghost, walCrashes>>
  BY DEF WalInv, RotateCreateFails, IoError, disk
<1>1. index < MaxSegment
  BY <1>0 DEF WriterOK, Rotating
<1>2. WalTypeOK'
  <2>1. errors' \in 0..MaxErrors /\ index' \in 0..MaxSegment /\ cur' \in 0..index'
    BY <1>0, <1>1, WalBounds DEF WalTypeOK
  <2> QED
    BY <1>0, <2>1 DEF WalTypeOK, Phases, ghost
<1>3. WriterOK'
  <2>1. \A s \in 0..index : s \in 0..index'
    BY <1>0, Numbers
  <2> QED
    BY <1>0, <2>1 DEF WriterOK, Settled, Rotating, ghost
<1>4. Underway' = Underway /\ rec <= rec' /\ ~Fresh'
  BY <1>0, Numbers DEF Underway, Fresh, Rotating
<1> QED
  BY <1>0, <1>2, <1>3, <1>4, QuietKeeps

(* The open segment grows, nothing else on the disk changes: the segments  *)
(* below it are as they were, and what was synced is still there.          *)
LEMMA GrowKeeps ==
    ASSUME WalInv, phase # "down", phase' # "down", DOMAIN files' = DOMAIN files,
           \A s \in DOMAIN files : s # cur => files'[s] = files[s],
           NEW x \in Seq(Cells), files'[cur] = files[cur] \o x,
           UNCHANGED <<durable, entries, cur, synced>>
    PROVE  /\ IsDir(files') /\ Before(files', cur) = Before(files, cur)
           /\ files'[cur] \in Seq(Cells) /\ Len(files[cur]) <= Len(files'[cur])
           /\ SyncedOK'
<1>0. /\ WalTypeOK /\ WriterOK /\ cur \in DOMAIN files /\ synced \in Seq(Payloads)
      /\ files[cur] \in Seq(Cells) /\ MaxSegment \in Nat
  BY TypeFacts DEF WalInv, WalTypeOK, Payloads
<1>1. /\ files'[cur] \in Seq(Cells) /\ Len(files'[cur]) = Len(files[cur]) + Len(x)
      /\ Len(x) \in Nat /\ Len(files[cur]) \in Nat
      /\ \A i \in 1..Len(files[cur]) : files'[cur][i] = files[cur][i]
  BY <1>0
<1>2. IsDir(files) /\ IsDir(files')
  BY <1>0, <1>1, TypeFacts DEF IsDir
<1>3. \A s \in 0..MaxSegment : s # cur => SegmentRecords(files', s) = SegmentRecords(files, s)
  BY DEF SegmentRecords
<1>4. Before(files', cur) = Before(files, cur)
  <2>1. cur \in 0..(MaxSegment + 1) /\ \A s \in 0..MaxSegment : s < cur => s # cur
    BY <1>0, <1>2 DEF IsDir
  <2> QED
    BY <1>2, <1>3, <2>1, BeforeSame
<1>5. ASSUME NEW m \in DOMAIN files, SyncedUpTo(m) PROVE SyncedUpTo(m)'
  <2>1. m <= cur /\ m \in entries /\ m \in Int /\ cur \in Int
    BY <1>0, <1>2, <1>5 DEF SyncedUpTo, IsDir
  <2>2. \A s \in DOMAIN files : s \in Int /\ (s < m => s # cur)
    BY <1>0, <1>2, <2>1 DEF IsDir
  <2>3. \A s \in DOMAIN files' : s < m => Settled(s)'
    BY <1>5, <2>2 DEF SyncedUpTo, Settled
  <2>4. \A s \in 0..MaxSegment : s < m => SegmentRecords(files', s) = SegmentRecords(files, s)
    <3>1. \A s \in 0..MaxSegment : s < m => s # cur
      BY <2>1
    <3> QED BY <1>3, <3>1
  <2>5. durable[m] \in 0..Len(files[m]) /\ durable'[m] \in 0..Len(files'[m])
    <3>1. durable[m] \in 0..Len(files[m])
      BY <1>0, TypeFacts
    <3>2. CASE m = cur
      BY <1>1, <3>1, <3>2
    <3>3. CASE m # cur
      BY <3>1, <3>3
    <3> QED BY <3>2, <3>3
  <2>6. SubSeq(files'[m], 1, durable'[m]) = SubSeq(files[m], 1, durable[m])
    <3>1. CASE m = cur
      <4>1. /\ SubSeq(files'[m], 1, durable[m]) \in Seq(Cells) /\ SubSeq(files[m], 1, durable[m]) \in Seq(Cells)
            /\ Len(SubSeq(files'[m], 1, durable[m])) = durable[m]
            /\ Len(SubSeq(files[m], 1, durable[m])) = durable[m]
            /\ \A i \in 1..durable[m] : SubSeq(files'[m], 1, durable[m])[i] = files'[m][i]
                                        /\ SubSeq(files[m], 1, durable[m])[i] = files[m][i]
        BY <1>0, <1>1, <2>5, <3>1, CutAt
      <4>2. \A i \in 1..durable[m] : files'[m][i] = files[m][i]
        <5>1. \A i \in 1..durable[m] : i \in 1..Len(files[m])
          BY <1>1, <2>5, <3>1
        <5> QED BY <5>1, <1>1, <3>1
      <4>3. \A i \in 1..Len(SubSeq(files'[m], 1, durable[m])) :
               SubSeq(files'[m], 1, durable[m])[i] = SubSeq(files[m], 1, durable[m])[i]
        BY <4>1, <4>2
      <4> QED BY <4>1, <4>3, SeqEqual
    <3>2. CASE m # cur
      BY <3>2
    <3> QED BY <3>1, <3>2
  <2>7. RecordsOf(SubSeq(files[m], 1, durable[m])) \in Seq(Payloads)
    <3>1. files[m] \in Seq(Cells)
      BY <1>2 DEF IsDir
    <3> QED BY <2>5, <3>1, CutAt, ScanType
  <2>8. StartsWith(RecordsOf(SubSeq(files'[m], 1, durable'[m])),
                   RecordsOf(SubSeq(files[m], 1, durable[m])))
    BY <2>6, <2>7, StartsWithSelf
  <2> QED
    BY <1>0, <1>2, <1>5, <2>1, <2>3, <2>4, <2>5, <2>8, SyncedKept
<1>6. SyncedOK'
  BY <1>5 DEF SyncedOK, WalInv
<1> QED
  BY <1>1, <1>2, <1>4, <1>6

LEMMA DrainKeeps ==
    ASSUME WalInv, phase # "down", phase' # "down", NEW n \in 0..Len(buf), Drain(n),
           UNCHANGED <<durable, entries, cur, index, bytes, rec, parts, log, synced, stranded, walCrashes>>,
           phase' \in Phases \ ({"write", "rotate_create", "rotate_dir"}),
           phase' \in {"sync", "rotate_sync"} => n = Len(buf),
           phase' \in Rotating => phase \in Rotating \ {"rotate_dir"},
           torn' \in BOOLEAN, errors' \in 0..MaxErrors, ~torn' => (~torn /\ Underway = << >>)
    PROVE  WalInv'
<1>0. WalTypeOK /\ WriterOK /\ cur \in DOMAIN files
  BY DEF WalInv, WalTypeOK
<1>1. /\ DOMAIN files' = DOMAIN files /\ \A s \in DOMAIN files : s # cur => files'[s] = files[s]
      /\ buf' \in Seq(Cells) /\ Len(buf') = Len(buf) - n
      /\ files'[cur] \o buf' = files[cur] \o buf
      /\ files'[cur] \in Seq(Cells) /\ Len(files'[cur]) = Len(files[cur]) + n
      /\ n = 0 => files'[cur] = files[cur]
  BY <1>0, DrainFacts
<1>2. PICK x \in Seq(Cells) : files'[cur] = files[cur] \o x
  BY <1>0, DrainFacts
<1>3. IsDir(files') /\ Before(files', cur) = Before(files, cur) /\ SyncedOK'
  BY <1>1, <1>2, GrowKeeps
<1>4. WalTypeOK'
  <2>1. \A s \in DOMAIN files' : files'[s] \in Seq(Cells) /\ durable'[s] \in 0..Len(files'[s])
    <3> SUFFICES ASSUME NEW s \in DOMAIN files
                 PROVE  files'[s] \in Seq(Cells) /\ durable[s] \in 0..Len(files'[s])
      BY <1>1
    <3>1. CASE s = cur
      <4>1. /\ durable[cur] \in 0..Len(files[cur]) /\ Len(files[cur]) \in Nat /\ n \in Nat
            /\ Len(files'[cur]) = Len(files[cur]) + n
        <5>1. durable[cur] \in 0..Len(files[cur]) /\ Len(files[cur]) \in Nat
          BY <1>0, <3>1, TypeFacts
        <5> QED BY ONLY <1>1, <5>1, n \in 0..Len(buf), Len(buf) \in Nat
      <4>2. durable[cur] \in 0..Len(files'[cur])
        BY ONLY <4>1
      <4> QED BY <1>1, <3>1, <4>2
    <3>2. CASE s # cur
      BY <1>0, <1>1, <3>2, TypeFacts
    <3> QED BY <3>1, <3>2
  <2>2. Len(buf') <= BufCells
    <3>1. Len(buf) \in Nat /\ Len(buf) <= BufCells /\ BufCells \in Nat
      BY <1>0, WalBounds DEF WalTypeOK
    <3> QED BY <1>1, <3>1
  <2> QED
    BY <1>0, <1>1, <2>1, <2>2 DEF WalTypeOK, Phases
<1>5. WriterOK'
  <2>0. Len(buf) \in Nat /\ cur \in Nat /\ \A s \in DOMAIN files : s \in Nat
    BY <1>0, TypeFacts, Numbers
  <2>1. \A s \in DOMAIN files : s # cur => (Settled(s)' <=> Settled(s))
    BY <1>1 DEF Settled
  <2>4. n = Len(buf) => buf' = << >>
    BY <1>1, <2>0
  <2>5. \A s \in DOMAIN files : (s < cur \/ s > cur) => s # cur
    BY <2>0
  <2>6. /\ DOMAIN files' \subseteq 0..index'
        /\ \A s \in DOMAIN files' : (s < cur' /\ ~stranded' => Settled(s)') /\ (s > cur' => files'[s] = << >>)
    BY <1>0, <1>1, <2>1, <2>5 DEF WriterOK
  <2>7. (FsyncEntry /\ \E s \in DOMAIN files' : s > cur') => cur' \in entries'
    BY <1>0, <1>1 DEF WriterOK
  <2>8. phase' \in Rotating => parts' = 0 /\ index' < MaxSegment /\ rec' > 0
    BY <1>0 DEF WriterOK, Rotating
  <2> QED
    BY <2>4, <2>6, <2>7, <2>8 DEF WriterOK, Phases, Rotating
<1>6. HeadsOK'
  <2>1. Held' = Held
    BY <1>1 DEF Held
  <2>2. Fresh' => Fresh
    BY DEF Fresh, Rotating
  <2>3. rec <= rec' /\ rec \in Nat /\ rec' \in Nat /\ rec' = rec
    BY <1>0, Numbers
  <2> QED
    BY <2>1, <2>2, <2>3, HeadsKept, HeldDomain DEF WalInv
<1>7. ~torn' => StreamOK'
  <2>1. Underway' = << >>
    BY DEF Underway
  <2> QED
    BY <1>1, <1>3, <2>1 DEF WalInv, StreamOK
<1> QED
  BY <1>3, <1>4, <1>5, <1>6, <1>7 DEF WalInv

LEMMA FlushKeeps == ASSUME WalInv, Flush PROVE WalInv'
<1>0. WalTypeOK /\ WriterOK /\ phase # "down"
  BY DEF Flush, WalInv
<1>1. Len(buf) \in 0..Len(buf)
  BY <1>0, TypeFacts
<1>2. /\ phase \in {"idle", "rotate_flush"} /\ phase' \in {"idle", "sync", "rotate_sync"}
      /\ phase' = "rotate_sync" => phase = "rotate_flush"
  BY DEF Flush
<1>3. /\ Drain(Len(buf)) /\ torn' \in BOOLEAN /\ errors' \in 0..MaxErrors /\ torn' = torn
      /\ UNCHANGED <<durable, entries, cur, index, bytes, rec, parts, log, synced, stranded, walCrashes>>
  BY <1>0 DEF Flush, ghost, WalTypeOK
<1>4. Underway = << >>
  BY <1>2 DEF Underway
<1>5. phase' \in Rotating => phase \in Rotating \ {"rotate_dir"}
  BY <1>2 DEF Rotating
<1>6. phase' \in Phases \ ({"write", "rotate_create", "rotate_dir"}) /\ phase' # "down"
  BY <1>2 DEF Phases
<1> QED
  BY <1>0, <1>1, <1>3, <1>4, <1>5, <1>6, DrainKeeps

LEMMA FlushFailsKeeps == ASSUME WalInv, FlushFails PROVE WalInv'
<1>0. WalTypeOK /\ WriterOK /\ phase \in {"idle", "rotate_flush"} /\ phase' = "idle"
  BY DEF FlushFails, IoError, WalInv
<1>1. PICK n \in 0..(Len(buf) - 1) : Drain(n)
  BY DEF FlushFails
<1>2. n \in 0..Len(buf)
  BY <1>0, TypeFacts
<1>3. /\ torn' \in BOOLEAN /\ errors' \in 0..MaxErrors /\ torn' = torn
      /\ UNCHANGED <<durable, entries, cur, index, bytes, rec, parts, log, synced, stranded, walCrashes>>
  BY <1>0, WalBounds DEF FlushFails, IoError, ghost, WalTypeOK
<1>4. Underway = << >>
  BY <1>0 DEF Underway
<1>5. phase' \in Phases \ ({"write", "rotate_create", "rotate_dir"}) /\ phase' \notin Rotating
  BY <1>0 DEF Phases, Rotating
<1> QED
  BY <1>0, <1>1, <1>2, <1>3, <1>4, <1>5, DrainKeeps

LEMMA WritePartFailsKeeps == ASSUME WalInv, WritePartFails PROVE WalInv'
<1>0. WalTypeOK /\ WriterOK /\ phase = "write" /\ phase' = "idle" /\ Len(buf) = BufCells
  BY DEF WritePartFails, IoError, WalInv
<1>1. PICK n \in 0..(BufCells - 1) : Drain(n)
  BY DEF WritePartFails
<1>2. n \in 0..Len(buf)
  BY <1>0, TypeFacts
<1>3. /\ errors' \in 0..MaxErrors /\ torn' = (torn \/ parts > 0)
      /\ UNCHANGED <<durable, entries, cur, index, bytes, rec, parts, log, synced, stranded, walCrashes>>
  BY <1>0, WalBounds DEF WritePartFails, IoError, WalTypeOK
<1>4. torn' \in BOOLEAN
  BY <1>3
<1>5. ~torn' => (~torn /\ Underway = << >>)
  <2>1. SubSeq(Frame(rec), 1, 0) = << >>
    BY SubSeqEmpty
  <2>2. ~(parts > 0) => parts = 0
    BY <1>0, Numbers
  <2> QED
    BY <1>3, <2>1, <2>2 DEF Underway, Part
<1>6. phase' \in Phases \ ({"write", "rotate_create", "rotate_dir"}) /\ phase' \notin Rotating
  BY <1>0 DEF Phases, Rotating
<1> QED
  BY <1>0, <1>1, <1>2, <1>3, <1>4, <1>5, <1>6, DrainKeeps

(* One more cell of the record under way.                                  *)
LEMMA WritePartFacts ==
    ASSUME WalInv, WritePart
    PROVE  LET cell == Frame(rec)[parts + 1]
           IN  /\ rec \in Payloads /\ parts \in 0..2 /\ cell \in Cells /\ parts' = parts + 1
               /\ DOMAIN files' = DOMAIN files
               /\ \A s \in DOMAIN files : s # cur => files'[s] = files[s]
               /\ \E x \in Seq(Cells) : files'[cur] = files[cur] \o x
               /\ buf' \in Seq(Cells) /\ Len(buf') <= BufCells
               /\ files[cur] \o buf \in Seq(Cells)
               /\ files'[cur] \o buf' = (files[cur] \o buf) \o <<cell>>
<1> DEFINE cell == Frame(rec)[parts + 1]
<1>0. WalTypeOK /\ WriterOK /\ phase = "write" /\ cur \in DOMAIN files /\ parts' = parts + 1
  BY DEF WritePart, WalInv, WalTypeOK
<1>1. rec \in Payloads /\ parts \in 0..2
  <2>1. rec \in Payloads /\ parts \in Nat
    BY <1>0, Numbers
  <2>2. parts < 3
    BY <1>0 DEF WriterOK, RecordCells
  <2> QED BY <2>1, <2>2
<1>2. cell \in Cells
  <2>1. Frame(rec) \in Seq(Cells) /\ Len(Frame(rec)) = 3 /\ parts + 1 \in 1..3
    BY <1>1, FrameCells
  <2> QED BY <2>1, ElementOfSeq
<1>3. buf \in Seq(Cells) /\ files[cur] \in Seq(Cells) /\ Len(buf) \in Nat /\ Len(buf) <= BufCells /\ BufCells \in Nat \ {0}
  BY <1>0, WalBounds DEF WalTypeOK
<1>4. files[cur] \o buf \in Seq(Cells) /\ << >> \in Seq(Cells) /\ <<cell>> \in Seq(Cells)
  BY <1>2, <1>3
<1>5. CASE Len(buf) = BufCells
  <2>1. files' = [files EXCEPT ![cur] = @ \o buf] /\ buf' = Append(<< >>, cell)
    BY <1>5 DEF WritePart
  <2>2. DOMAIN files' = DOMAIN files /\ \A s \in DOMAIN files : s # cur => files'[s] = files[s]
    BY <2>1
  <2>3. files'[cur] = files[cur] \o buf
    BY <1>0, <2>1
  <2> HIDE DEF cell
  <2>4. buf' = <<cell>> /\ Len(<<cell>>) = 1
    BY <2>1
  <2>5. Len(buf') <= BufCells
    BY <1>3, <2>4
  <2> QED
    BY <1>0, <1>1, <1>2, <1>3, <1>4, <2>2, <2>3, <2>4, <2>5 DEF cell
<1>6. CASE Len(buf) # BufCells
  <2>1. files' = files /\ buf' = Append(buf, cell)
    BY <1>6 DEF WritePart
  <2> HIDE DEF cell
  <2>2. buf' = buf \o <<cell>> /\ buf' \in Seq(Cells) /\ Len(buf') = Len(buf) + 1
    BY <1>2, <1>3, <2>1, AppendIsConcat, AppendProperties
  <2>3. files[cur] \o (buf \o <<cell>>) = (files[cur] \o buf) \o <<cell>>
    BY <1>3, <1>4, CellAssoc
  <2>4. files'[cur] = files[cur] \o << >>
    BY <1>3, <2>1
  <2>5. Len(buf') <= BufCells
    BY <1>3, <1>6, <2>2
  <2> QED
    BY <1>0, <1>1, <1>2, <1>4, <2>1, <2>2, <2>3, <2>4, <2>5 DEF cell
<1> QED
  BY <1>5, <1>6

LEMMA WritePartKeeps == ASSUME WalInv, WritePart PROVE WalInv'
<1> DEFINE cell == Frame(rec)[parts + 1]
<1>0. /\ WalTypeOK /\ WriterOK /\ phase = "write" /\ cur \in DOMAIN files
      /\ UNCHANGED <<durable, entries, cur, index, rec, synced, torn, stranded, walCrashes, errors>>
  BY DEF WritePart, WalInv, WalTypeOK
<1>1. /\ rec \in Payloads /\ parts \in 0..2 /\ cell \in Cells /\ parts' = parts + 1
      /\ DOMAIN files' = DOMAIN files
      /\ \A s \in DOMAIN files : s # cur => files'[s] = files[s]
      /\ \E x \in Seq(Cells) : files'[cur] = files[cur] \o x
      /\ buf' \in Seq(Cells) /\ Len(buf') <= BufCells
      /\ files[cur] \o buf \in Seq(Cells)
      /\ files'[cur] \o buf' = (files[cur] \o buf) \o <<cell>>
  BY WritePartFacts
<1>c. Frame(rec)[1] = <<rec, "len">> /\ Frame(rec)[2] = <<rec, "crc">> /\ Frame(rec)[3] = <<rec, "pay">>
  BY <1>1, FrameCells
<1>2. \/ parts = 2 /\ phase' = "idle" /\ bytes' = bytes + RecordBytes(rec) /\ log' = log \o <<rec>>
      \/ parts # 2 /\ phase' = "write" /\ bytes' = bytes /\ log' = log
  <2>1. parts' = RecordCells <=> parts = 2
    BY <1>1 DEF RecordCells
  <2> QED
    BY <1>0, <2>1 DEF WritePart
<1> HIDE DEF cell
<1>3. PICK x \in Seq(Cells) : files'[cur] = files[cur] \o x
  BY <1>1
<1>4. /\ IsDir(files') /\ Before(files', cur) = Before(files, cur) /\ SyncedOK'
      /\ files'[cur] \in Seq(Cells) /\ Len(files[cur]) <= Len(files'[cur])
  BY <1>0, <1>1, <1>2, <1>3, GrowKeeps
<1>5. WalTypeOK'
  <2>1. \A s \in DOMAIN files' : files'[s] \in Seq(Cells) /\ durable'[s] \in 0..Len(files'[s])
    <3> SUFFICES ASSUME NEW s \in DOMAIN files
                 PROVE  files'[s] \in Seq(Cells) /\ durable[s] \in 0..Len(files'[s])
      BY <1>0, <1>1
    <3>1. CASE s = cur
      <4>1. durable[s] \in 0..Len(files[cur]) /\ Len(files[cur]) \in Nat /\ Len(files'[cur]) \in Nat
        BY <1>0, <1>4, <3>1, TypeFacts
      <4> QED BY <1>4, <3>1, <4>1
    <3>2. CASE s # cur
      BY <1>0, <1>1, <3>2, TypeFacts
    <3> QED BY <3>1, <3>2
  <2>2. parts' \in 0..RecordCells /\ bytes' \in Nat
    BY <1>0, <1>1, <1>2, Numbers, WalBounds, SMTT(30) DEF RecordCells, RecordBytes, Payloads
  <2>3. log' \in Seq(1..MaxRecords)
    <3>1. log \in Seq(1..MaxRecords) /\ <<rec>> \in Seq(1..MaxRecords)
      BY <1>0, <1>1 DEF WalTypeOK, Payloads
    <3>2. log \o <<rec>> \in Seq(1..MaxRecords)
      BY <3>1, ConcatProperties
    <3> QED BY <1>2, <3>1, <3>2
  <2>4. phase' \in Phases
    BY <1>2 DEF Phases
  <2> QED
    BY <1>0, <1>1, <2>1, <2>2, <2>3, <2>4 DEF WalTypeOK
<1>6. WriterOK'
  <2>0. cur \in Nat /\ \A s \in DOMAIN files : s \in Nat
    BY <1>0, TypeFacts, Numbers
  <2>1. \A s \in DOMAIN files : s # cur => (Settled(s)' <=> Settled(s))
    BY <1>0, <1>1 DEF Settled
  <2>2. \A s \in DOMAIN files' : s > cur' => files'[s] = << >>
    BY <1>0, <1>1, <2>0 DEF WriterOK
  <2>3. \A s \in DOMAIN files : s < cur => s # cur
    BY <2>0
  <2>4. phase' \notin Rotating /\ phase' \in {"idle", "write"}
    BY <1>2 DEF Rotating
  <2>5. (phase' = "write" => parts' < RecordCells) /\ rec' > 0
    BY <1>0, <1>1, <1>2 DEF RecordCells, Payloads
  <2> QED
    BY <1>0, <1>1, <2>1, <2>2, <2>3, <2>4, <2>5 DEF WriterOK, Rotating
<1>7. HeadsOK'
  <2>0. /\ DOMAIN Held = DOMAIN files /\ DOMAIN Held' = DOMAIN files
        /\ Held[cur] = files[cur] \o buf /\ Held'[cur] = (files[cur] \o buf) \o <<cell>>
        /\ \A s \in DOMAIN files : s # cur => Held'[s] = Held[s]
    BY <1>0, <1>1 DEF Held
  <2>1. /\ Len(Held[cur]) \in Nat /\ Len(Held'[cur]) = Len(Held[cur]) + 1
        /\ \A i \in 1..Len(Held[cur]) : Held'[cur][i] = Held[cur][i]
        /\ Held'[cur][Len(Held[cur]) + 1] = cell
    <3> DEFINE h == files[cur] \o buf
    <3>1. h \in Seq(Cells)
      BY <1>1
    <3> HIDE DEF h
    <3>2. Len(h) \in Nat /\ Len(h \o <<cell>>) = Len(h) + 1 /\ (h \o <<cell>>)[Len(h) + 1] = cell
          /\ \A i \in 1..Len(h) : (h \o <<cell>>)[i] = h[i]
      BY <1>1, <3>1
    <3> QED BY <2>0, <3>2 DEF h
  <2>2. \A a \in Payloads : cell = <<a, "len">> => parts = 0 /\ a = rec
    <3>1. parts = 0 \/ parts = 1 \/ parts = 2
      BY <1>1
    <3>2. CASE parts = 0
      BY <1>c, <3>2 DEF cell
    <3>3. CASE parts = 1
      BY <1>c, <3>3 DEF cell
    <3>4. CASE parts = 2
      BY <1>c, <3>4 DEF cell
    <3> QED BY <3>1, <3>2, <3>3, <3>4
  <2>3. /\ cur \in Nat
        /\ \A s \in DOMAIN files : s \in Nat /\ (s > cur => s # cur /\ Len(Held'[s]) = 0)
    <3>1. cur \in Nat /\ \A s \in DOMAIN files : s \in Nat
      BY <1>0, TypeFacts, Numbers
    <3>2. \A s \in DOMAIN files : s > cur => s # cur /\ files[s] = << >>
      BY <1>0, <3>1 DEF WriterOK
    <3>3. \A s \in DOMAIN files : s > cur => Held'[s] = << >>
      BY <2>0, <3>2 DEF Held
    <3> QED BY <3>1, <3>2, <3>3
  <2>o. ASSUME NEW s \in DOMAIN files, NEW i \in 1..Len(Held'[s]), NEW a \in Payloads,
               HeadAt(Held'[s], i, a)
        PROVE  \/ i \in 1..Len(Held[s]) /\ HeadAt(Held[s], i, a)
               \/ s = cur /\ i = Len(Held[cur]) + 1 /\ parts = 0 /\ a = rec
    <3>1. CASE s # cur
      BY <2>0, <2>o, <3>1
    <3>2. CASE s = cur /\ i \in 1..Len(Held[cur])
      BY <2>1, <2>o, <3>2 DEF HeadAt
    <3>3. CASE s = cur /\ i \notin 1..Len(Held[cur])
      <4>1. i = Len(Held[cur]) + 1
        BY <2>1, <3>3
      <4> QED BY <2>1, <2>2, <2>o, <3>3, <4>1 DEF HeadAt
    <3> QED BY <3>1, <3>2, <3>3
  <2>4. parts = 0 => Fresh
    BY <1>0 DEF Fresh
  <2>5. ASSUME NEW s \in DOMAIN files, NEW t \in DOMAIN files,
               NEW i \in 1..Len(Held'[s]), NEW j \in 1..Len(Held'[t]),
               NEW a \in Payloads, NEW b \in Payloads,
               s < t \/ (s = t /\ i < j), HeadAt(Held'[s], i, a), HeadAt(Held'[t], j, b)
        PROVE  a < b
    <3>1. CASE /\ i \in 1..Len(Held[s]) /\ HeadAt(Held[s], i, a)
               /\ j \in 1..Len(Held[t]) /\ HeadAt(Held[t], j, b)
      BY <2>0, <2>5, <3>1 DEF WalInv, HeadsOK, DirAscends
    <3>2. CASE /\ i \in 1..Len(Held[s]) /\ HeadAt(Held[s], i, a)
               /\ parts = 0 /\ b = rec
      BY <2>4, <3>2 DEF WalInv, HeadsOK
    <3>3. CASE s = cur /\ i = Len(Held[cur]) + 1
      <4>0. ~(t > cur)
        BY <2>3
      <4>1. t = cur /\ i < j
        BY <2>3, <2>5, <3>3, <4>0
      <4>2. j \in 1..(Len(Held[cur]) + 1)
        BY <2>1, <4>1
      <4> QED BY <2>1, <3>3, <4>1, <4>2
    <3> QED
      BY <2>o, <2>5, <3>1, <3>2, <3>3
  <2>6. ASSUME NEW s \in DOMAIN files, NEW i \in 1..Len(Held'[s]), NEW a \in Payloads,
               HeadAt(Held'[s], i, a)
        PROVE  a <= rec
    <3>1. CASE i \in 1..Len(Held[s]) /\ HeadAt(Held[s], i, a)
      BY <3>1 DEF WalInv, HeadsOK
    <3>2. CASE a = rec
      BY <3>2 DEF Payloads
    <3> QED
      BY <2>o, <2>6, <3>1, <3>2
  <2>7. ~Fresh'
    <3>1. parts' # 0
      BY <1>1
    <3> QED BY <1>2, <3>1 DEF Fresh, Rotating
  <2>8. DirAscends(Held)'
    BY <1>1, <2>0, <2>5 DEF DirAscends
  <2> QED
    BY <1>0, <1>1, <2>6, <2>7, <2>8 DEF HeadsOK
<1>8. ASSUME ~torn' PROVE StreamOK'
  <2>1. PICK v \in Seq(Cells) : /\ files[cur] \o buf = v \o Part(rec, parts)
                                /\ Whole(v) /\ log = Before(files, cur) \o RecordsOf(v)
    BY <1>0, <1>8 DEF WalInv, StreamOK, Underway
  <2>2. /\ Part(rec, parts) \in Seq(Cells) /\ <<cell>> \in Seq(Cells)
        /\ Part(rec, parts + 1) \in Seq(Cells)
        /\ Part(rec, parts) \o <<cell>> = Part(rec, parts + 1)
    <3>1. /\ Part(rec, parts) \in Seq(Cells) /\ Len(Part(rec, parts)) = parts
          /\ \A i \in 1..parts : Part(rec, parts)[i] = Frame(rec)[i]
      <4>1. parts \in 0..3
        BY <1>1
      <4> QED BY <1>1, <4>1, FrameCells
    <3>2. parts + 1 \in 0..3
      BY <1>1
    <3>3. /\ Part(rec, parts + 1) \in Seq(Cells) /\ Len(Part(rec, parts + 1)) = parts + 1
          /\ \A i \in 1..(parts + 1) : Part(rec, parts + 1)[i] = Frame(rec)[i]
      BY <1>1, <3>2, FrameCells
    <3>4. <<cell>> \in Seq(Cells) /\ Len(<<cell>>) = 1 /\ <<cell>>[1] = cell
      BY <1>1
    <3>5. /\ Part(rec, parts) \o <<cell>> \in Seq(Cells)
          /\ Len(Part(rec, parts) \o <<cell>>) = parts + 1
          /\ \A i \in 1..(parts + 1) : (Part(rec, parts) \o <<cell>>)[i]
                = IF i <= parts THEN Part(rec, parts)[i] ELSE <<cell>>[i - parts]
      BY <3>1, <3>4, ConcatProperties
    <3>6. ASSUME NEW i \in 1..(parts + 1)
          PROVE  (Part(rec, parts) \o <<cell>>)[i] = Part(rec, parts + 1)[i]
      <4>1. CASE i <= parts
        <5>1. i \in 1..parts
          BY <1>1, <4>1
        <5> QED BY <3>1, <3>3, <3>5, <4>1, <5>1
      <4>2. CASE ~(i <= parts)
        <5>1. i = parts + 1 /\ i - parts = 1
          <6>1. parts \in Nat
            BY ONLY <1>1, SMTT(30)
          <6> QED BY ONLY <4>2, <6>1, <3>6
        <5>2. (Part(rec, parts) \o <<cell>>)[i] = cell
          BY <3>4, <3>5, <4>2, <5>1
        <5> QED BY <3>3, <5>1, <5>2 DEF cell
      <4> QED BY <4>1, <4>2
    <3>7. Part(rec, parts) \o <<cell>> = Part(rec, parts + 1)
      BY <3>3, <3>5, <3>6, SeqEqual
    <3> QED BY <3>1, <3>3, <3>4, <3>7
  <2>3. files'[cur] \o buf' = v \o Part(rec, parts + 1)
    <3>1. (v \o Part(rec, parts)) \o <<cell>> = v \o (Part(rec, parts) \o <<cell>>)
      BY <2>2, CellAssoc
    <3> QED BY <1>1, <2>1, <2>2, <3>1
  <2>4. CASE parts # 2
    <3>1. Underway' = Part(rec, parts + 1)
      BY <1>0, <1>1, <1>2, <2>4 DEF Underway
    <3> QED
      BY <1>0, <1>2, <1>4, <2>1, <2>3, <2>4, <3>1 DEF StreamOK
  <2>5. CASE parts = 2
    <3>1. Part(rec, parts + 1) = Frame(rec) /\ Frame(rec) \in Seq(Cells) /\ Len(Frame(rec)) = 3
      BY <1>1, <2>5, FrameCells
    <3>2. /\ v \o Frame(rec) \in Seq(Cells) /\ Len(v \o Frame(rec)) = Len(v) + Len(Frame(rec))
      BY <2>1, <3>1, ConcatProperties
    <3>3. /\ ValidLength(v \o Frame(rec)) = Len(v) + ValidLength(Frame(rec))
          /\ RecordsOf(v \o Frame(rec)) = RecordsOf(v) \o <<rec>>
          /\ ValidLength(Frame(rec)) = Len(Frame(rec))
      BY <1>1, <2>1, <3>1, ScanAppend, FrameScan DEF Whole
    <3>4. Whole(v \o Frame(rec))
      BY <3>2, <3>3 DEF Whole
    <3>5. /\ Before(files, cur) \in Seq(Payloads) /\ RecordsOf(v) \in Seq(Payloads)
          /\ <<rec>> \in Seq(Payloads)
      <4>1. cur \in 0..(MaxSegment + 1) /\ IsDir(files)
        BY <1>0, TypeFacts DEF IsDir
      <4> QED BY <1>1, <2>1, <4>1, BeforeStep, ScanType
    <3>6. log' = Before(files, cur) \o RecordsOf(v \o Frame(rec))
      <4>1. Before(files, cur) \o (RecordsOf(v) \o <<rec>>) = (Before(files, cur) \o RecordsOf(v)) \o <<rec>>
        BY <3>5, Assoc
      <4> QED BY <1>2, <2>1, <2>5, <3>3, <4>1
    <3>7. Underway' = << >>
      BY <1>2, <2>5 DEF Underway
    <3>8. files'[cur] \o buf' = (v \o Frame(rec)) \o << >>
      <4>1. (v \o Frame(rec)) \o << >> = v \o Frame(rec)
        BY <3>2, ConcatEmptySeq
      <4> QED BY <2>3, <3>1, <4>1
    <3> QED
      BY <1>0, <1>4, <3>2, <3>4, <3>6, <3>7, <3>8 DEF StreamOK
  <2> QED
    BY <2>4, <2>5
<1> QED
  BY <1>2, <1>4, <1>5, <1>6, <1>7, <1>8 DEF WalInv

(* What an fsync of the open segment does.                                 *)
LEMMA FsyncFacts ==
    ASSUME WalInv, phase # "down", Fsync, files' = files, cur' = cur
    PROVE  /\ WalTypeOK /\ WriterOK /\ cur \in DOMAIN files /\ IsDir(files)
           /\ DOMAIN durable' = DOMAIN files /\ entries \subseteq entries' /\ entries' \subseteq DOMAIN files
           /\ durable'[cur] = Len(files[cur]) /\ (FsyncEntry => cur \in entries')
           /\ \A s \in DOMAIN files : s # cur => durable'[s] = durable[s]
           /\ \A s \in DOMAIN files : durable'[s] \in 0..Len(files[s])
           /\ Settled(cur)' /\ \A s \in DOMAIN files : Settled(s) => Settled(s)'
<1>0. WalTypeOK /\ WriterOK /\ cur \in DOMAIN files /\ DOMAIN durable = DOMAIN files /\ entries \subseteq DOMAIN files
  BY DEF WalInv, WalTypeOK
<1>1. /\ DOMAIN durable' = DOMAIN files /\ durable'[cur] = Len(files[cur])
      /\ \A s \in DOMAIN files : s # cur => durable'[s] = durable[s]
  BY <1>0 DEF Fsync
<1>2. entries \subseteq entries' /\ entries' \subseteq DOMAIN files /\ (FsyncEntry => cur \in entries')
  BY <1>0 DEF Fsync
<1>3. \A s \in DOMAIN files : durable'[s] \in 0..Len(files[s])
  <2> SUFFICES ASSUME NEW s \in DOMAIN files PROVE durable'[s] \in 0..Len(files[s])
    OBVIOUS
  <2>1. durable[s] \in 0..Len(files[s]) /\ Len(files[s]) \in Nat
    BY <1>0, TypeFacts
  <2> QED BY <1>1, <2>1
<1>4. Settled(cur)'
  BY <1>1, <1>2 DEF Settled
<1>5. \A s \in DOMAIN files : Settled(s) => Settled(s)'
  BY <1>1, <1>2 DEF Settled
<1> QED
  BY <1>0, <1>1, <1>2, <1>3, <1>4, <1>5, TypeFacts

LEMMA FsyncKeepsSynced ==
    ASSUME WalInv, phase # "down", Fsync, files' = files, cur' = cur, synced' = synced
    PROVE  SyncedOK'
<1>0. /\ WalTypeOK /\ WriterOK /\ cur \in DOMAIN files /\ IsDir(files)
      /\ DOMAIN durable' = DOMAIN files /\ entries \subseteq entries'
      /\ durable'[cur] = Len(files[cur])
      /\ \A s \in DOMAIN files : s # cur => durable'[s] = durable[s]
      /\ \A s \in DOMAIN files : durable'[s] \in 0..Len(files[s])
      /\ Settled(cur)' /\ \A s \in DOMAIN files : Settled(s) => Settled(s)'
  BY FsyncFacts
<1>1. ASSUME NEW m \in DOMAIN files, SyncedUpTo(m) PROVE SyncedUpTo(m)'
  <2>1. m \in entries' /\ m <= cur /\ \A s \in DOMAIN files : s < m => Settled(s)'
    BY <1>0, <1>1 DEF SyncedUpTo
  <2>2. durable[m] \in 0..Len(files[m]) /\ files[m] \in Seq(Cells) /\ synced \in Seq(Payloads)
    BY <1>0, TypeFacts DEF WalTypeOK, Payloads
  <2>3. StartsWith(RecordsOf(SubSeq(files[m], 1, durable'[m])),
                   RecordsOf(SubSeq(files[m], 1, durable[m])))
    <3> DEFINE d == SubSeq(files[m], 1, durable[m])
    <3>1. d \in Seq(Cells) /\ \E t \in Seq(Cells) : files[m] = d \o t
      BY <2>2, CutAt
    <3>2. PICK t \in Seq(Cells) : files[m] = d \o t
      BY <3>1
    <3>3. RecordsOf(d) \in Seq(Payloads)
      BY <3>1, ScanType
    <3> HIDE DEF d
    <3>4. CASE m = cur
      <4>1. SubSeq(files[m], 1, durable'[m]) = files[m]
        BY <1>0, <2>2, <3>4, SubSeqFull
      <4> QED BY <3>1, <3>2, <4>1, ScanGrows DEF d
    <3>5. CASE m # cur
      BY <1>0, <3>3, <3>5, StartsWithSelf DEF d
    <3> QED BY <3>4, <3>5
  <2> QED
    BY <1>0, <1>1, <2>1, <2>2, <2>3, SyncedKept
<1> QED
  BY <1>1 DEF SyncedOK, WalInv

(* The stream when nothing is buffered and no record is under way.         *)
LEMMA StreamFlushed ==
    ASSUME WalInv, phase # "down", ~torn, buf = << >>, Underway = << >>
    PROVE  log = Before(files, cur) \o RecordsOf(files[cur])
<1>1. PICK v \in Seq(Cells) : /\ files[cur] \o buf = v \o Underway
                              /\ Whole(v) /\ log = Before(files, cur) \o RecordsOf(v)
  BY DEF WalInv, StreamOK
<1>2. files[cur] \in Seq(Cells)
  BY TypeFacts DEF WalInv, WalTypeOK
<1>3. v = files[cur]
  BY <1>1, <1>2, ConcatEmptySeq
<1> QED
  BY <1>1, <1>3

LEMMA FsyncStepKeeps ==
    ASSUME WalInv, Fsync,
           \/ phase = "sync" /\ phase' = "idle"
           \/ phase = "rotate_sync" /\ phase' = "rotate_create",
           UNCHANGED <<files, buf, cur, index, bytes, rec, parts, log, torn, stranded, walCrashes, errors>>,
           synced' \in Seq(Payloads), SyncedOK'
    PROVE  WalInv'
<1>a. phase # "down" /\ phase' # "down"
  OBVIOUS
<1>0. /\ WalTypeOK /\ WriterOK /\ cur \in DOMAIN files /\ IsDir(files)
      /\ DOMAIN durable' = DOMAIN files /\ entries' \subseteq DOMAIN files
      /\ entries \subseteq entries' /\ (FsyncEntry => cur \in entries')
      /\ \A s \in DOMAIN files : durable'[s] \in 0..Len(files[s])
      /\ Settled(cur)' /\ \A s \in DOMAIN files : Settled(s) => Settled(s)'
  BY <1>a, FsyncFacts
<1>1. WalTypeOK'
  BY <1>0 DEF WalTypeOK, Phases, Payloads
<1>2. WriterOK'
  BY <1>0 DEF WriterOK, Rotating
<1>3. HeadsOK'
  <2>1. Held' = Held
    BY DEF Held
  <2>2. Fresh' => Fresh
    BY DEF Fresh, Rotating
  <2>3. rec <= rec' /\ rec \in Nat /\ rec' \in Nat /\ rec' = rec
    BY <1>0, Numbers
  <2> QED
    BY <2>1, <2>2, <2>3, HeadsKept, HeldDomain DEF WalInv
<1>4. ~torn' => StreamOK'
  <2>1. Underway' = Underway
    BY DEF Underway
  <2> QED
    BY <1>a, <2>1 DEF WalInv, StreamOK
<1> QED
  BY <1>a, <1>1, <1>2, <1>3, <1>4 DEF WalInv

LEMMA RotateSyncKeeps == ASSUME WalInv, RotateSync PROVE WalInv'
<1>1. /\ phase = "rotate_sync" /\ phase' = "rotate_create" /\ Fsync /\ synced' = synced
      /\ UNCHANGED <<files, buf, cur, index, bytes, rec, parts, log, torn, stranded, walCrashes, errors>>
  BY DEF RotateSync, handle, ghost
<1>2. SyncedOK'
  BY <1>1, FsyncKeepsSynced
<1>3. synced' \in Seq(Payloads)
  BY <1>1 DEF WalInv, WalTypeOK, Payloads
<1> QED
  BY <1>1, <1>2, <1>3, FsyncStepKeeps

LEMMA SyncKeeps == ASSUME WalInv, Sync PROVE WalInv'
<1>1. /\ phase = "sync" /\ phase' = "idle" /\ Fsync /\ synced' = IF torn \/ stranded THEN synced ELSE log
      /\ UNCHANGED <<files, buf, cur, index, bytes, rec, parts, log, torn, stranded, walCrashes, errors>>
  BY DEF Sync, handle
<1>0. /\ WalTypeOK /\ WriterOK /\ cur \in DOMAIN files /\ IsDir(files)
      /\ durable'[cur] = Len(files[cur]) /\ (FsyncEntry => cur \in entries')
      /\ \A s \in DOMAIN files : Settled(s) => Settled(s)'
  BY <1>1, FsyncFacts
<1>2. synced' \in Seq(Payloads) /\ log \in Seq(Payloads)
  BY <1>0, <1>1 DEF WalTypeOK, Payloads
<1>3. CASE torn \/ stranded
  BY <1>1, <1>2, <1>3, FsyncKeepsSynced, FsyncStepKeeps
<1>4. CASE ~torn /\ ~stranded
  <2>1. buf = << >> /\ Underway = << >>
    BY <1>0, <1>1 DEF WriterOK, Underway
  <2>2. log = Before(files, cur) \o RecordsOf(files[cur])
    BY <1>1, <1>4, <2>1, StreamFlushed
  <2>3. SubSeq(files'[cur], 1, durable'[cur]) = files[cur]
    BY <1>0, <1>1, SubSeqFull DEF IsDir
  <2>4. StartsWith(log, log)
    BY <1>2, StartsWithSelf
  <2>5. cur <= cur
    BY <1>0, Numbers
  <2>6. FsyncEntry => SyncedUpTo(cur)'
    BY <1>0, <1>1, <1>4, <2>2, <2>3, <2>4, <2>5 DEF SyncedUpTo, WriterOK
  <2>7. SyncedOK'
    BY <1>0, <1>1, <2>6 DEF SyncedOK
  <2> QED
    BY <1>1, <1>2, <2>7, FsyncStepKeeps
<1> QED
  BY <1>3, <1>4

LEMMA RotateCreateKeeps == ASSUME WalInv, RotateCreate PROVE WalInv'
<1>0. /\ WalTypeOK /\ WriterOK /\ phase = "rotate_create" /\ phase' = "rotate_dir" /\ index' = index + 1
      /\ cur \in DOMAIN files /\ IsDir(files)
      /\ files' = WithSegment(files, index', << >>) /\ durable' = WithSegment(durable, index', 0)
      /\ UNCHANGED <<entries, buf, cur, bytes, rec, parts, log, synced, torn, stranded, walCrashes, errors>>
  BY TypeFacts DEF WalInv, WalTypeOK, RotateCreate, ghost
<1>1. /\ index < MaxSegment /\ Settled(cur) /\ buf = << >> /\ index \in Nat /\ cur \in Nat /\ cur <= index
      /\ \A s \in DOMAIN files : s \in 0..index /\ s # index'
  <2>1. /\ index < MaxSegment /\ Settled(cur) /\ buf = << >>
        /\ DOMAIN files \subseteq 0..index
    BY <1>0 DEF WriterOK, Rotating
  <2>2. index \in Nat /\ cur \in Nat /\ cur <= index
    BY <1>0 DEF WalTypeOK
  <2> QED
    BY <1>0, <2>1, <2>2
<1>2. /\ DOMAIN files' = DOMAIN files \cup {index'} /\ DOMAIN durable' = DOMAIN files \cup {index'}
      /\ \A s \in DOMAIN files : files'[s] = files[s] /\ durable'[s] = durable[s]
      /\ files'[index'] = << >> /\ durable'[index'] = 0
  BY <1>0, <1>1 DEF WithSegment, WalTypeOK
<1>3. WalTypeOK'
  <2>1. index' \in 0..MaxSegment /\ cur' \in 0..index' /\ 0..index \subseteq 0..MaxSegment
    BY <1>0, <1>1, WalBounds
  <2>2. << >> \in Seq(Cells) /\ Len(<< >>) = 0 /\ 0 \in 0..0
    OBVIOUS
  <2>3. \A s \in DOMAIN files' : files'[s] \in Seq(Cells) /\ durable'[s] \in 0..Len(files'[s])
    <3>1. files'[index'] \in Seq(Cells) /\ durable'[index'] \in 0..Len(files'[index'])
      BY <1>2, <2>2
    <3>2. \A s \in DOMAIN files : files[s] \in Seq(Cells) /\ durable[s] \in 0..Len(files[s])
      BY <1>0, TypeFacts
    <3>3. \A s \in DOMAIN files : files'[s] \in Seq(Cells) /\ durable'[s] \in 0..Len(files'[s])
      BY <1>2, <3>2
    <3> QED BY <1>2, <3>1, <3>3
  <2>4. DOMAIN files' \subseteq 0..MaxSegment /\ entries' \subseteq DOMAIN files'
    BY <1>0, <1>1, <1>2, <2>1 DEF WalTypeOK
  <2> QED
    BY <1>0, <1>2, <2>1, <2>3, <2>4 DEF WalTypeOK, Phases
<1>d. IsDir(files')
  BY <1>3 DEF WalTypeOK, IsDir
<1>4. \A s \in DOMAIN files : Settled(s)' <=> Settled(s)
  BY <1>0, <1>2 DEF Settled
<1>5. WriterOK'
  <2>1. cur < index' /\ ~(index' < cur) /\ DOMAIN files' \subseteq 0..index' /\ index' \in DOMAIN files'
    BY <1>0, <1>1, <1>2
  <2>2. \A s \in DOMAIN files' : (s < cur' /\ ~stranded' => Settled(s)') /\ (s > cur' => files'[s] = << >>)
    BY <1>0, <1>2, <1>4, <2>1 DEF WriterOK
  <2>3. Settled(cur)' /\ (FsyncEntry => cur' \in entries') /\ parts' = 0 /\ rec' > 0
    BY <1>0, <1>1, <1>4 DEF WriterOK, Rotating
  <2> QED
    BY <1>0, <1>1, <2>1, <2>2, <2>3 DEF WriterOK, Rotating
<1>6. HeadsOK'
  <2>1. /\ \A s \in DOMAIN files : Held'[s] = Held[s]
        /\ Held'[index'] = << >>
    BY <1>0, <1>1, <1>2 DEF Held
  <2>2. Fresh' /\ Fresh
    BY <1>0 DEF Fresh, Rotating
  <2>3. rec <= rec' /\ rec \in Nat /\ rec' \in Nat /\ rec' = rec
    BY <1>0, Numbers
  <2>4. ASSUME NEW s \in DOMAIN files', NEW i \in 1..Len(Held'[s])
        PROVE  s \in DOMAIN files /\ Held'[s] = Held[s]
    <3>1. s = index' => Len(Held'[s]) = 0
      BY <2>1
    <3> QED BY <1>2, <2>1, <3>1
  <2> QED
    BY <2>2, <2>3, <2>4, HeadsKept, HeldDomain DEF WalInv
<1>7. \A s \in 0..MaxSegment : s < index' => SegmentRecords(files', s) = SegmentRecords(files, s)
  <2>1. \A s \in 0..MaxSegment : s < index' => s # index'
    BY <1>0, <1>1
  <2> QED
    BY <1>2, <2>1 DEF SegmentRecords
<1>8. ~torn' => StreamOK'
  <2>1. Underway' = Underway
    BY <1>0 DEF Underway
  <2>2. cur \in 0..(MaxSegment + 1) /\ \A s \in 0..MaxSegment : s < cur => s < index'
    BY <1>0, <1>1, WalBounds
  <2>3. Before(files', cur) = Before(files, cur)
    BY <1>0, <1>d, <1>7, <2>2, BeforeSame
  <2> QED
    BY <1>0, <1>2, <2>1, <2>3 DEF WalInv, StreamOK
<1>9. SyncedOK'
  <2>1. ASSUME NEW m \in DOMAIN files, SyncedUpTo(m) PROVE SyncedUpTo(m)'
    <3>1. m <= cur /\ m \in entries /\ m \in 0..index
      BY <1>0, <1>1, <2>1 DEF SyncedUpTo
    <3>2. \A s \in DOMAIN files' : s < m => Settled(s)'
      <4>1. ~(index' < m)
        BY <1>0, <1>1, <3>1
      <4> QED BY <1>2, <1>4, <2>1, <4>1 DEF SyncedUpTo
    <3>3. \A s \in 0..MaxSegment : s < m => SegmentRecords(files', s) = SegmentRecords(files, s)
      <4>1. \A s \in 0..MaxSegment : s < m => s < index'
        BY <1>0, <1>1, <3>1
      <4> QED BY <1>7, <4>1
    <3>4. durable[m] \in 0..Len(files[m]) /\ files[m] \in Seq(Cells) /\ synced \in Seq(Payloads)
      BY <1>0, TypeFacts DEF WalTypeOK, Payloads
    <3>5. RecordsOf(SubSeq(files[m], 1, durable[m])) \in Seq(Payloads)
      BY <3>4, CutAt, ScanType
    <3>6. StartsWith(RecordsOf(SubSeq(files'[m], 1, durable'[m])),
                     RecordsOf(SubSeq(files[m], 1, durable[m])))
      BY <1>2, <3>5, StartsWithSelf
    <3>7. m \in DOMAIN files' /\ durable'[m] \in 0..Len(files'[m])
      BY <1>2, <3>4
    <3> QED
      BY <1>0, <1>d, <2>1, <3>1, <3>2, <3>3, <3>4, <3>6, <3>7, SyncedKept
  <2> QED
    BY <1>0, <1>2, <2>1 DEF SyncedOK, WalInv
<1> QED
  BY <1>0, <1>3, <1>5, <1>6, <1>8, <1>9 DEF WalInv

LEMMA NothingReplays ==
    ASSUME NEW fs, IsDir(fs), \A s \in 0..MaxSegment : SegmentRecords(fs, s) = << >>
    PROVE  ReplayOf(fs) = << >>
<1>1. 0 \in 0..(MaxSegment + 1) /\ MaxSegment + 1 \in 0..(MaxSegment + 1) /\ MaxSegment + 1 - 1 = MaxSegment
  BY WalBounds
<1>2. \A s \in 0..((MaxSegment + 1) - 1) : SegmentRecords(fs, s) = << >>
  <2>1. (MaxSegment + 1) - 1 = MaxSegment
    BY WalBounds
  <2> QED BY <2>1
<1>3. MaxSegment + 1 \in 0..(MaxSegment + 1)
  BY <1>1
<1>4. Before(fs, MaxSegment + 1) = Before(fs, 0)
  BY <1>1, <1>2, <1>3, BeforeGrows
<1> QED
  BY <1>4, BeforeStep, ReplayIsBefore

(* What the directory replays when segment c is the last that is not empty. *)
LEMMA ReplayUpTo ==
    ASSUME NEW fs, IsDir(fs), NEW c \in DOMAIN fs, NEW d \in (c + 1)..(MaxSegment + 1),
           \A s \in DOMAIN fs : s > c => fs[s] = << >>
    PROVE  Before(fs, d) = Before(fs, c) \o RecordsOf(fs[c])
<1>1. c \in 0..MaxSegment /\ MaxSegment \in Nat /\ c + 1 \in 0..(MaxSegment + 1) /\ d \in (c + 1)..(MaxSegment + 1)
  BY WalBounds DEF IsDir
<1>2. Before(fs, c + 1) = Before(fs, c) \o RecordsOf(fs[c])
  BY <1>1, BeforeStep DEF SegmentRecords
<1>3. \A s \in (c + 1)..(d - 1) : SegmentRecords(fs, s) = << >>
  <2>1. \A s \in (c + 1)..(d - 1) : s > c
    BY <1>1
  <2> QED
    BY <2>1, EmptyScan DEF SegmentRecords
<1> QED
  BY <1>1, <1>2, <1>3, BeforeGrows

LEMMA RotateDirKeeps == ASSUME WalInv, RotateDir PROVE WalInv'
<1>0. /\ WalTypeOK /\ WriterOK /\ phase = "rotate_dir" /\ phase' = "write" /\ cur \in DOMAIN files
      /\ entries' = DOMAIN files /\ cur' = index /\ buf' = << >> /\ bytes' = 0
      /\ UNCHANGED <<files, durable, index, rec, parts, log, synced, torn, stranded, walCrashes, errors>>
  BY DEF WalInv, WalTypeOK, RotateDir, ghost
<1>1. /\ index \in DOMAIN files /\ cur < index /\ Settled(cur) /\ buf = << >> /\ parts = 0 /\ rec > 0
      /\ DOMAIN files \subseteq 0..index /\ index \in Nat /\ cur \in Nat /\ index \in 0..MaxSegment
      /\ \A s \in DOMAIN files : (s < cur /\ ~stranded => Settled(s)) /\ (s > cur => files[s] = << >>)
  BY <1>0, Numbers, TypeFacts DEF WriterOK, Rotating
<1>2. IsDir(files) /\ IsDir(files')
  BY <1>0, TypeFacts DEF IsDir
<1>3. WalTypeOK'
  <2>1. << >> \in Seq(Cells) /\ Len(<< >>) = 0 /\ 0 <= BufCells /\ 0 \in Nat /\ index \in 0..index
    BY <1>1, WalBounds
  <2> QED
    BY <1>0, <1>1, <2>1 DEF WalTypeOK, Phases
<1>4. WriterOK'
  <2>1. \A s \in DOMAIN files : s \in 0..index /\ durable[s] \in 0..Len(files[s])
    BY <1>0, <1>1, TypeFacts
  <2>2. \A s \in DOMAIN files : Settled(s)' \/ s > cur \/ s = cur \/ stranded
    BY <1>0, <1>1, <2>1 DEF Settled
  <2>3. \A s \in DOMAIN files : s > cur => Settled(s)'
    <3> SUFFICES ASSUME NEW s \in DOMAIN files, s > cur PROVE Settled(s)'
      OBVIOUS
    <3>1. files[s] = << >> /\ Len(<< >>) = 0 /\ durable[s] \in 0..0
      BY <1>1, <2>1, EmptyScan
    <3> QED BY <1>0, <3>1 DEF Settled
  <2>4. Settled(cur) => durable[cur] = Len(files[cur])
    BY DEF Settled
  <2>5. \A s \in DOMAIN files : ~stranded => Settled(s)'
    BY <1>0, <1>1, <2>2, <2>3, <2>4 DEF Settled
  <2>6. \A s \in DOMAIN files : ~(s > index)
    BY <1>1, <2>1
  <2>7. parts < RecordCells
    BY <1>1 DEF RecordCells
  <2> QED
    BY <1>0, <1>1, <2>5, <2>6, <2>7 DEF WriterOK, Rotating
<1>5. HeadsOK'
  <2>1. \A s \in DOMAIN files : Held'[s] = Held[s]
    <3>1. \A s \in DOMAIN files : files[s] \o << >> = files[s]
      BY <1>2 DEF IsDir
    <3> QED BY <1>0, <1>1, <3>1 DEF Held
  <2>2. Fresh
    BY <1>0 DEF Fresh, Rotating
  <2>3. rec <= rec' /\ rec \in Nat /\ rec' \in Nat /\ rec' = rec
    BY <1>0, Numbers
  <2> QED
    BY <1>0, <2>1, <2>2, <2>3, HeadsKept, HeldDomain DEF WalInv
<1>6. ~torn' => StreamOK'
  <2> SUFFICES ASSUME ~torn PROVE StreamOK'
    BY <1>0
  <2>1. Underway = << >>
    BY <1>0 DEF Underway
  <2>2. log = Before(files, cur) \o RecordsOf(files[cur])
    BY <1>0, <1>1, <2>1, StreamFlushed
  <2>3. index \in (cur + 1)..(MaxSegment + 1)
    BY <1>1, WalBounds
  <2>4. log = Before(files, index)
    BY <1>0, <1>1, <1>2, <2>2, <2>3, ReplayUpTo
  <2>5. Before(files, index) \in Seq(Payloads)
    BY <1>1, <1>2, BeforeStep, WalBounds
  <2>6. log' = Before(files', index) \o RecordsOf(<< >>)
    BY <1>0, <2>4, <2>5, EmptyScan, ConcatEmptySeq
  <2>7. Underway' = << >>
    <3>1. SubSeq(Frame(rec'), 1, 0) = << >>
      BY SubSeqEmpty
    <3> QED BY <1>0, <1>1, <3>1 DEF Underway, Part
  <2>8. files'[index] = << >>
    BY <1>0, <1>1
  <2> QED
    BY <1>0, <2>6, <2>7, <2>8, EmptyScan DEF StreamOK
<1>7. SyncedOK'
  <2>1. ASSUME NEW m \in DOMAIN files, SyncedUpTo(m) PROVE SyncedUpTo(m)'
    <3>1. m <= cur /\ m \in Nat
      BY <1>0, <1>1, <2>1 DEF SyncedUpTo
    <3>2. m <= index
      BY <1>1, <3>1
    <3> QED
      BY <1>0, <2>1, <3>2 DEF SyncedUpTo, Settled
  <2> QED
    BY <1>0, <2>1 DEF SyncedOK, WalInv
<1> QED
  BY <1>0, <1>3, <1>4, <1>5, <1>6, <1>7 DEF WalInv

LEMMA OpenFreshKeeps == ASSUME WalInv, OpenFresh PROVE WalInv' /\ Replay' = Replay
<1>0. /\ WalTypeOK /\ ClosedOK /\ phase = "down" /\ phase' = "idle" /\ DOMAIN files = {}
      /\ files' = WithSegment(files, 0, << >>) /\ durable' = WithSegment(durable, 0, 0)
      /\ entries' = {0} /\ buf' = << >> /\ cur' = 0 /\ index' = 0 /\ bytes' = 0
      /\ UNCHANGED <<rec, parts, log, synced, torn, stranded, walCrashes, errors>>
  BY DEF WalInv, OpenFresh, ghost
<1>1. /\ DOMAIN files' = {0} /\ DOMAIN durable' = {0} /\ files'[0] = << >> /\ durable'[0] = 0
  BY <1>0 DEF WithSegment, WalTypeOK
<1>2. << >> \in Seq(Cells) /\ Len(<< >>) = 0 /\ 0 <= BufCells /\ 0 \in Nat /\ 0 \in 0..0 /\ 0 \in 0..MaxSegment
  BY WalBounds
<1>3. WalTypeOK'
  BY <1>0, <1>1, <1>2 DEF WalTypeOK, Phases
<1>4. IsDir(files) /\ IsDir(files')
  BY <1>0, <1>1, <1>2, TypeFacts DEF IsDir
<1>5. Replay = << >> /\ Replay' = << >>
  <2>1. \A s \in 0..MaxSegment : SegmentRecords(files, s) = << >> /\ SegmentRecords(files', s) = << >>
    BY <1>0, <1>1, EmptyScan DEF SegmentRecords
  <2> QED
    BY <1>4, <2>1, NothingReplays DEF Replay
<1>6. WriterOK'
  BY <1>0, <1>1, <1>2 DEF WriterOK, Rotating
<1>7. HeadsOK'
  <2>1. DOMAIN Held' = {0} /\ Held'[0] = << >> \o << >>
    BY <1>0, <1>1 DEF Held
  <2>2. Len(Held'[0]) = 0
    BY <2>1
  <2> QED
    BY <1>1, <2>1, <2>2 DEF HeadsOK, DirAscends
<1>8. StreamOK'
  <2>1. log' = << >>
    BY <1>0, <1>5 DEF ClosedOK
  <2>2. Before(files', 0) = << >>
    BY <1>4, BeforeStep
  <2>3. Underway' = << >> /\ << >> \o << >> = << >>
    BY <1>0 DEF Underway
  <2> QED
    BY <1>0, <1>1, <2>1, <2>2, <2>3, EmptyScan DEF StreamOK
<1>9. SyncedOK'
  BY <1>0 DEF SyncedOK, WalInv
<1> QED
  BY <1>0, <1>3, <1>5, <1>6, <1>7, <1>8, <1>9 DEF WalInv

LEMMA LastSegment ==
    ASSUME NEW S \in SUBSET (0..MaxSegment), S # {}
    PROVE  Max(S) \in S /\ \A s \in S : s <= Max(S)
<1> DEFINE C == {k \in Nat : MaxSegment - k \in S}
<1>0. MaxSegment \in Nat
  BY WalBounds
<1>1. PICK s0 \in S : TRUE
  OBVIOUS
<1>2. MaxSegment - s0 \in C
  <2>1. MaxSegment - s0 \in Nat /\ MaxSegment - (MaxSegment - s0) = s0
    BY <1>0
  <2> QED BY <2>1
<1>3. PICK m \in C : \A k \in C : m <= k
  BY <1>2, LeastNumber
<1>4. ASSUME NEW s \in S PROVE MaxSegment - m >= s
  <2>1. MaxSegment - s \in Nat /\ MaxSegment - (MaxSegment - s) = s /\ s \in Nat /\ m \in Nat
    BY <1>0
  <2>2. m <= MaxSegment - s
    BY <1>3, <2>1
  <2> QED BY <1>0, <2>1, <2>2
<1>5. \E x \in S : \A y \in S : x >= y
  BY <1>3, <1>4
<1>6. Max(S) \in S /\ \A y \in S : Max(S) >= y
  BY <1>5 DEF Max
<1> QED
  BY <1>0, <1>6

LEMMA ReplaySame ==
    ASSUME NEW fs, IsDir(fs), NEW gs, IsDir(gs),
           \A s \in 0..MaxSegment : SegmentRecords(fs, s) = SegmentRecords(gs, s)
    PROVE  /\ \A n \in 0..(MaxSegment + 1) : Before(fs, n) = Before(gs, n)
           /\ ReplayOf(fs) = ReplayOf(gs)
<1>1. \A n \in 0..(MaxSegment + 1) : Before(fs, n) = Before(gs, n)
  BY BeforeSame
<1>2. MaxSegment + 1 \in 0..(MaxSegment + 1)
  BY WalBounds
<1> QED
  BY <1>1, <1>2, ReplayIsBefore

LEMMA OpenRecoverKeeps == ASSUME WalInv, OpenRecover PROVE WalInv' /\ Replay' = Replay
<1> DEFINE last == Max(DOMAIN files)
           keep == ValidLength(files[last])
           cut  == SubSeq(files[last], 1, keep)
<1>0. /\ WalTypeOK /\ ClosedOK /\ phase = "down" /\ phase' = "idle" /\ DOMAIN files # {}
      /\ files' = [files EXCEPT ![last] = cut]
      /\ durable' = IF keep < Len(files[last]) THEN [durable EXCEPT ![last] = keep] ELSE durable
      /\ cur' = last /\ index' = last /\ bytes' = Bytes(cut) /\ buf' = << >> /\ buf = << >>
      /\ UNCHANGED <<entries, rec, parts, log, synced, torn, stranded, walCrashes, errors>>
  <2>1. last \in DOMAIN files
    BY LastSegment DEF WalInv, OpenRecover, WalTypeOK
  <2>2. [files EXCEPT ![last] = cut][last] = cut
    BY <2>1
  <2> QED BY <2>2 DEF WalInv, OpenRecover, ghost, ClosedOK
<1> HIDE DEF last, keep, cut
<1>1. IsDir(files) /\ DOMAIN durable = DOMAIN files /\ entries \subseteq DOMAIN files /\ MaxSegment \in Nat
      /\ \A s \in DOMAIN files : /\ s \in 0..MaxSegment /\ files[s] \in Seq(Cells)
                                 /\ durable[s] \in 0..Len(files[s]) /\ Len(files[s]) \in Nat
  BY <1>0, TypeFacts DEF WalTypeOK
<1>2. last \in DOMAIN files /\ \A s \in DOMAIN files : s <= last
  BY <1>0, <1>1, LastSegment DEF last
<1>3. /\ cut \in Seq(Cells) /\ Whole(cut) /\ Len(cut) = keep /\ RecordsOf(cut) = RecordsOf(files[last])
      /\ keep \in 0..Len(files[last]) /\ \A i \in 1..keep : cut[i] = files[last][i]
      /\ keep = Len(files[last]) => cut = files[last]
  <2>1. keep \in 0..Len(files[last])
    BY <1>1, <1>2, ScanType DEF keep
  <2>2. cut \in Seq(Cells) /\ Whole(cut) /\ Len(cut) = keep /\ RecordsOf(cut) = RecordsOf(files[last])
    BY <1>1, <1>2, ScanCut DEF cut, keep
  <2>3. \A i \in 1..keep : cut[i] = files[last][i]
    BY <1>1, <1>2, <2>1, CutAt DEF cut
  <2>4. keep = Len(files[last]) => cut = files[last]
    BY <1>1, <1>2, SubSeqFull DEF cut
  <2> QED
    BY <2>1, <2>2, <2>3, <2>4
<1>4. /\ DOMAIN files' = DOMAIN files /\ files'[last] = cut
      /\ \A s \in DOMAIN files : s # last => files'[s] = files[s]
      /\ DOMAIN durable' = DOMAIN files
      /\ \A s \in DOMAIN files : s # last => durable'[s] = durable[s]
      /\ durable'[last] = IF keep < Len(files[last]) THEN keep ELSE durable[last]
  BY <1>0, <1>1, <1>2
<1>5. IsDir(files')
  BY <1>1, <1>3, <1>4 DEF IsDir
<1>6. \A s \in 0..MaxSegment : SegmentRecords(files', s) = SegmentRecords(files, s)
  BY <1>3, <1>4 DEF SegmentRecords
<1>7. /\ \A n \in 0..(MaxSegment + 1) : Before(files', n) = Before(files, n)
      /\ Replay' = Replay
  BY <1>1, <1>5, <1>6, ReplaySame DEF Replay
<1>d. \A s \in DOMAIN files : durable'[s] \in 0..Len(files'[s])
  <2> SUFFICES ASSUME NEW s \in DOMAIN files PROVE durable'[s] \in 0..Len(files'[s])
    OBVIOUS
  <2>1. CASE s # last
    BY <1>1, <1>4, <2>1
  <2>2. CASE s = last /\ keep < Len(files[last])
    BY <1>3, <1>4, <2>2
  <2>3. CASE s = last /\ ~(keep < Len(files[last]))
    <3>1. keep = Len(files[last])
      BY <1>1, <1>2, <1>3, <2>3
    <3> QED BY <1>1, <1>3, <1>4, <2>3, <3>1
  <2> QED
    BY <2>1, <2>2, <2>3
<1>8. WalTypeOK'
  <2>1. << >> \in Seq(Cells) /\ Len(<< >>) = 0 /\ 0 <= BufCells
    BY WalBounds
  <2>2. last \in 0..MaxSegment /\ last \in 0..last /\ Bytes(cut) \in Nat
    BY <1>1, <1>2, <1>3, BytesType
  <2>3. \A s \in DOMAIN files' : files'[s] \in Seq(Cells)
    BY <1>5 DEF IsDir
  <2> QED
    BY <1>0, <1>1, <1>2, <1>4, <1>d, <2>1, <2>2, <2>3 DEF WalTypeOK, Phases
<1>s. \A s \in DOMAIN files : s < last /\ ~stranded => Settled(s)'
  <2>1. \A s \in DOMAIN files : s < last /\ ~stranded => s # last /\ Settled(s)
    BY <1>0, <1>1, <1>2 DEF ClosedOK
  <2> QED
    BY <1>0, <1>4, <2>1 DEF Settled
<1>9. WriterOK'
  <2>1. \A s \in DOMAIN files : ~(s > last) /\ s \in 0..last
    BY <1>1, <1>2
  <2> QED
    BY <1>0, <1>4, <1>s, <2>1 DEF WriterOK, Rotating
<1>10. StreamOK'
  <2>1. last + 1 \in 0..(MaxSegment + 1) /\ MaxSegment + 1 \in (last + 1)..(MaxSegment + 1) /\ last \in 0..(MaxSegment + 1)
    BY <1>1, <1>2
  <2>2. \A s \in DOMAIN files : s > last => files[s] = << >>
    BY <1>1, <1>2
  <2>3. Before(files, MaxSegment + 1) = Before(files, last) \o RecordsOf(files[last])
    BY <1>1, <1>2, <2>1, <2>2, ReplayUpTo
  <2>4. log' = Before(files', last) \o RecordsOf(cut)
    BY <1>0, <1>3, <1>7, <2>1, <2>3, ReplayIsBefore DEF ClosedOK, Replay
  <2>5. files'[last] \o << >> = cut \o << >> /\ Underway' = << >>
    BY <1>0, <1>4 DEF Underway
  <2> QED
    BY <1>0, <1>3, <2>4, <2>5 DEF StreamOK
<1>11. HeadsOK'
  <2>1. \A s \in DOMAIN files : Held'[s] = files'[s] /\ Held[s] = files[s]
    <3>1. \A s \in DOMAIN files : files[s] \o << >> = files[s] /\ files'[s] \o << >> = files'[s]
      BY <1>1, <1>4, <1>5 DEF IsDir
    <3> QED BY <1>0, <1>4, <3>1 DEF Held
  <2>2. ASSUME NEW s \in DOMAIN files', NEW i \in 1..Len(Held'[s]), NEW a \in Payloads, HeadAt(Held'[s], i, a)
        PROVE  s \in DOMAIN files /\ i \in 1..Len(Held[s]) /\ HeadAt(Held[s], i, a)
    <3>1. CASE s # last
      BY <1>4, <2>1, <2>2, <3>1
    <3>2. CASE s = last
      <4>1. i \in 1..keep /\ cut[i] = files[last][i]
        BY <1>3, <1>4, <2>1, <3>2
      <4>2. i \in 1..Len(files[last])
        BY <1>1, <1>2, <1>3, <4>1
      <4> QED BY <1>2, <1>4, <2>1, <2>2, <3>2, <4>1, <4>2 DEF HeadAt
    <3> QED BY <3>1, <3>2
  <2>3. ~Fresh'
    BY <1>0 DEF Fresh, Rotating
  <2>4. rec <= rec' /\ rec \in Nat /\ rec' \in Nat
    BY <1>0, Numbers
  <2> QED
    BY <2>2, <2>3, <2>4, HeadsKept, HeldDomain DEF WalInv
<1>12. SyncedOK'
  <2>1. ASSUME NEW m \in DOMAIN files, SyncedUpTo(m) PROVE SyncedUpTo(m)'
    <3>1. m \in entries /\ m <= last /\ m \in Int /\ last \in Int
      BY <1>1, <1>2, <2>1 DEF SyncedUpTo
    <3>2. \A s \in DOMAIN files' : s < m => Settled(s)'
      <4>1. \A s \in DOMAIN files : s < m => s # last /\ Settled(s)
        BY <1>1, <2>1, <3>1 DEF SyncedUpTo
      <4> QED BY <1>0, <1>4, <4>1 DEF Settled
    <3>3. synced \in Seq(Payloads) /\ durable[m] \in 0..Len(files[m]) /\ durable'[m] \in 0..Len(files'[m])
      BY <1>0, <1>1, <1>d DEF WalTypeOK, Payloads
    <3> DEFINE d == SubSeq(files[m], 1, durable[m])
    <3>4. d \in Seq(Cells) /\ RecordsOf(d) \in Seq(Payloads) /\ \E t \in Seq(Cells) : files[m] = d \o t
      BY <1>1, <3>3, CutAt, ScanType
    <3> HIDE DEF d
    <3>5. StartsWith(RecordsOf(SubSeq(files'[m], 1, durable'[m])), RecordsOf(d))
      <4>1. CASE m = last /\ keep < Len(files[last])
        <5>1. SubSeq(files'[m], 1, durable'[m]) = cut
          BY <1>3, <1>4, <4>1, SubSeqFull
        <5>2. PICK t \in Seq(Cells) : files[m] = d \o t
          BY <3>4
        <5>3. StartsWith(RecordsOf(files[m]), RecordsOf(d))
          BY <3>4, <5>2, ScanGrows
        <5> QED BY <1>3, <4>1, <5>1, <5>3
      <4>2. CASE ~(m = last /\ keep < Len(files[last]))
        <5>1. files'[m] = files[m] /\ durable'[m] = durable[m]
          <6>1. CASE m # last
            BY <1>4, <6>1
          <6>2. CASE m = last
            <7>1. keep = Len(files[last])
              BY <1>1, <1>2, <1>3, <4>2, <6>2
            <7> QED BY <1>3, <1>4, <4>2, <6>2, <7>1
          <6> QED BY <6>1, <6>2
        <5> QED BY <3>4, <5>1, StartsWithSelf DEF d
      <4> QED BY <4>1, <4>2
    <3>6. \A s \in 0..MaxSegment : s < m => SegmentRecords(files', s) = SegmentRecords(files, s)
      BY <1>6
    <3>7. m \in entries' /\ m \in DOMAIN files' /\ m <= cur' /\ synced' = synced
      BY <1>0, <1>4, <3>1
    <3> QED
      BY <1>1, <1>5, <2>1, <3>2, <3>3, <3>5, <3>6, <3>7, SyncedKept DEF d
  <2> QED
    BY <1>0, <1>4, <2>1 DEF SyncedOK, WalInv
<1> QED
  BY <1>0, <1>7, <1>8, <1>9, <1>10, <1>11, <1>12 DEF WalInv

(* What a crash leaves of a segment: its durable cells, and after them     *)
(* cells as they were or zeroes.                                           *)
LEMMA RemainsFacts ==
    ASSUME WalTypeOK, NEW s \in DOMAIN files, NEW g \in Remains(s)
    PROVE  /\ \E k \in durable[s]..Len(files[s]), z \in Nat :
                g = SubSeq(files[s], 1, k) \o [i \in 1..z |-> Zero]
           /\ g \in Seq(Cells) /\ durable[s] <= Len(g)
           /\ \A i \in 1..durable[s] : g[i] = files[s][i]
           /\ \A i \in 1..Len(g) : (i \in 1..Len(files[s]) /\ g[i] = files[s][i]) \/ g[i] = Zero
           /\ durable[s] = Len(files[s]) => g = files[s]
           /\ SubSeq(g, 1, durable[s]) = SubSeq(files[s], 1, durable[s])
<1>1. files[s] \in Seq(Cells) /\ durable[s] \in 0..Len(files[s]) /\ Len(files[s]) \in Nat
  BY TypeFacts
<1> DEFINE Lost(k) == Bytes(SubSeq(files[s], k + 1, Len(files[s])))
<1>2. PICK k \in durable[s]..Len(files[s]) : \E z \in 0..(Lost(k) \div 4) :
         g = SubSeq(files[s], 1, k) \o [i \in 1..z |-> Zero]
  BY DEF Remains
<1>3. PICK z \in 0..(Lost(k) \div 4) : g = SubSeq(files[s], 1, k) \o [i \in 1..z |-> Zero]
  BY <1>2
<1>l. Lost(k) \in Nat /\ (k = Len(files[s]) => Lost(k) = 0)
  <2> DEFINE t == SubSeq(files[s], k + 1, Len(files[s]))
  <2>1. k + 1 \in Int /\ Len(files[s]) \in Int /\ \A i \in (k + 1)..Len(files[s]) : files[s][i] \in Cells
    BY <1>1
  <2>2. t \in Seq(Cells) /\ (k = Len(files[s]) => Len(t) = 0)
    BY <1>1, <2>1, SubSeqProperties
  <2> HIDE DEF t
  <2>3. Bytes(t) \in Nat
    BY <2>2, BytesType
  <2>4. Len(t) = 0 => Bytes(t) = 0
    BY <2>2, SumEmpty DEF Bytes
  <2> QED BY <2>2, <2>3, <2>4 DEF t
<1> HIDE DEF Lost
<1> DEFINE h == SubSeq(files[s], 1, k)
           o == [i \in 1..z |-> Zero]
<1>4. k \in 0..Len(files[s]) /\ k \in Nat /\ z \in Nat /\ (k = Len(files[s]) => z = 0)
  BY <1>1, <1>l
<1>5. h \in Seq(Cells) /\ Len(h) = k /\ \A i \in 1..k : h[i] = files[s][i]
  BY <1>1, <1>4, CutAt
<1>6. o \in Seq(Cells) /\ Len(o) = z /\ \A i \in 1..z : o[i] = Zero
  <2>1. Zero \in Cells
    BY DEF Cells
  <2> QED BY <1>4, <2>1
<1> HIDE DEF h, o
<1>7. /\ g \in Seq(Cells) /\ Len(g) = k + z
      /\ \A i \in 1..(k + z) : g[i] = IF i <= k THEN h[i] ELSE o[i - k]
  BY <1>3, <1>5, <1>6, ConcatProperties DEF h, o
<1>8. durable[s] <= Len(g)
  BY <1>1, <1>4, <1>7
<1>9. \A i \in 1..Len(g) : (i \in 1..Len(files[s]) /\ g[i] = files[s][i]) \/ g[i] = Zero
  <2> SUFFICES ASSUME NEW i \in 1..Len(g)
               PROVE  (i \in 1..Len(files[s]) /\ g[i] = files[s][i]) \/ g[i] = Zero
    OBVIOUS
  <2>1. CASE i <= k
    <3>1. i \in 1..k /\ i \in 1..(k + z) /\ i \in 1..Len(files[s])
      BY <1>1, <1>4, <1>7, <2>1
    <3> QED BY <1>5, <1>7, <2>1, <3>1
  <2>2. CASE ~(i <= k)
    <3>1. i - k \in 1..z
      BY <1>4, <1>7, <2>2
    <3> QED BY <1>6, <1>7, <2>2, <3>1
  <2> QED BY <2>1, <2>2
<1>10. \A i \in 1..durable[s] : g[i] = files[s][i]
  <2> SUFFICES ASSUME NEW i \in 1..durable[s] PROVE g[i] = files[s][i]
    OBVIOUS
  <2>1. i <= k /\ i \in 1..k /\ i \in 1..(k + z)
    BY <1>1, <1>4
  <2> QED BY <1>5, <1>7, <2>1
<1>11. durable[s] = Len(files[s]) => g = files[s]
  <2> SUFFICES ASSUME durable[s] = Len(files[s]) PROVE g = files[s]
    OBVIOUS
  <2>1. Len(g) = Len(files[s]) /\ \A i \in 1..Len(g) : g[i] = files[s][i]
    <3>1. k = Len(files[s]) /\ z = 0
      BY <1>1, <1>4
    <3> QED BY <1>1, <1>4, <1>7, <1>10, <3>1
  <2> QED BY <1>1, <1>7, <2>1, SeqEqual
<1>12. SubSeq(g, 1, durable[s]) = SubSeq(files[s], 1, durable[s])
  <2>1. durable[s] \in 0..Len(g)
    BY <1>1, <1>7, <1>8
  <2> DEFINE a == SubSeq(g, 1, durable[s])
             b == SubSeq(files[s], 1, durable[s])
  <2>2. a \in Seq(Cells) /\ Len(a) = durable[s] /\ \A i \in 1..durable[s] : a[i] = g[i]
    BY <1>7, <2>1, CutAt
  <2>3. b \in Seq(Cells) /\ Len(b) = durable[s] /\ \A i \in 1..durable[s] : b[i] = files[s][i]
    BY <1>1, CutAt
  <2> HIDE DEF a, b
  <2>4. a = b
    BY <1>10, <2>2, <2>3, SeqEqual
  <2> QED BY <2>4 DEF a, b
<1> QED
  BY <1>3, <1>4, <1>7, <1>8, <1>9, <1>10, <1>11, <1>12

(* A file is the first part of what the writer holds for it.               *)
LEMMA HeldHolds ==
    ASSUME WalTypeOK
    PROVE  \A s \in DOMAIN files : /\ Len(Held[s]) \in Nat /\ Len(files[s]) <= Len(Held[s])
                                   /\ \A i \in 1..Len(files[s]) : Held[s][i] = files[s][i]
<1> SUFFICES ASSUME NEW s \in DOMAIN files
             PROVE  /\ Len(Held[s]) \in Nat /\ Len(files[s]) <= Len(Held[s])
                    /\ \A i \in 1..Len(files[s]) : Held[s][i] = files[s][i]
  OBVIOUS
<1>1. CASE s = cur
  <2> DEFINE f == files[s]
  <2>1. f \in Seq(Cells) /\ buf \in Seq(Cells) /\ Held[s] = f \o buf
    BY TypeFacts, <1>1 DEF Held, WalTypeOK
  <2> HIDE DEF f
  <2>2. Len(f \o buf) \in Nat /\ Len(f) <= Len(f \o buf) /\ \A i \in 1..Len(f) : (f \o buf)[i] = f[i]
    BY <2>1
  <2> QED BY <2>1, <2>2 DEF f
<1>2. CASE s # cur
  <2>1. Held[s] = files[s]
    BY <1>2 DEF Held
  <2> QED BY TypeFacts, <2>1
<1> QED BY <1>1, <1>2

LEMMA WalCrashKeeps == ASSUME WalInv, Crash PROVE WalInv'
<1>0. /\ WalTypeOK /\ WriterOK /\ phase # "down" /\ phase' = "down" /\ walCrashes < MaxWalCrashes
      /\ walCrashes' = walCrashes + 1 /\ log' = Replay' /\ buf' = << >> /\ parts' = 0
      /\ stranded' = (stranded \/ /\ \E s \in DOMAIN files : s > cur
                                  /\ durable[cur] < Len(files[cur]))
      /\ UNCHANGED <<entries, cur, index, bytes, rec, synced, torn, errors>>
      /\ cur \in DOMAIN files
  BY DEF WalInv, Crash, WalTypeOK
<1>1. PICK kept \in SUBSET DOMAIN files :
         /\ entries \subseteq kept
         /\ \E left \in [kept -> UNION {Remains(s) : s \in DOMAIN files}] :
               /\ \A s \in kept : left[s] \in Remains(s)
               /\ files' = left
               /\ durable' = [s \in kept |-> durable[s]]
  BY DEF Crash
<1>2. /\ DOMAIN files' = kept /\ DOMAIN durable' = kept
      /\ \A s \in kept : s \in DOMAIN files /\ files'[s] \in Remains(s) /\ durable'[s] = durable[s]
  BY <1>1
<1>3. \A s \in kept :
         /\ files'[s] \in Seq(Cells) /\ durable[s] <= Len(files'[s])
         /\ \A i \in 1..durable[s] : files'[s][i] = files[s][i]
         /\ \A i \in 1..Len(files'[s]) :
               (i \in 1..Len(files[s]) /\ files'[s][i] = files[s][i]) \/ files'[s][i] = Zero
         /\ durable[s] = Len(files[s]) => files'[s] = files[s]
         /\ SubSeq(files'[s], 1, durable[s]) = SubSeq(files[s], 1, durable[s])
  BY <1>0, <1>2, RemainsFacts
<1>4. /\ IsDir(files) /\ MaxSegment \in Nat /\ cur \in Nat
      /\ \A s \in DOMAIN files : /\ s \in 0..MaxSegment /\ files[s] \in Seq(Cells)
                                 /\ durable[s] \in 0..Len(files[s]) /\ Len(files[s]) \in Nat
  BY <1>0, TypeFacts, Numbers
<1>5. IsDir(files') /\ \A s \in kept : durable[s] \in 0..Len(files'[s])
  <2>1. \A s \in kept : durable[s] \in 0..Len(files'[s])
    BY <1>2, <1>3, <1>4
  <2> QED BY <1>2, <1>3, <1>4, <2>1 DEF IsDir
<1>6. WalTypeOK'
  <2>1. log' \in Seq(1..MaxRecords)
    BY <1>0, <1>5, ReplayType DEF Replay, Payloads
  <2>2. walCrashes' \in 0..MaxWalCrashes /\ 0 \in 0..RecordCells
    BY <1>0, WalBounds DEF WalTypeOK, RecordCells
  <2>3. << >> \in Seq(Cells) /\ Len(<< >>) = 0 /\ 0 <= BufCells /\ stranded' \in BOOLEAN
    BY <1>0, WalBounds
  <2>4. /\ DOMAIN files' \subseteq 0..MaxSegment /\ DOMAIN durable' = DOMAIN files' /\ entries' \subseteq DOMAIN files'
        /\ \A s \in DOMAIN files' : files'[s] \in Seq(Cells) /\ durable'[s] \in 0..Len(files'[s])
    BY <1>0, <1>1, <1>2, <1>3, <1>4, <1>5
  <2> QED
    BY <1>0, <2>1, <2>2, <2>3, <2>4 DEF WalTypeOK, Phases
<1>7. \A s \in kept : Settled(s) => Settled(s)' /\ files'[s] = files[s]
  BY <1>0, <1>2, <1>3 DEF Settled
<1>8. ClosedOK'
  <2>1. ASSUME ~stranded', NEW s \in kept, NEW t \in kept, s < t PROVE Settled(s)
    <3>1. s \in Nat /\ t \in Nat /\ s \in DOMAIN files /\ t \in DOMAIN files
      BY <1>2, <1>4
    <3>2. CASE s < cur
      BY <1>0, <2>1, <3>1, <3>2 DEF WriterOK
    <3>3. CASE s = cur
      <4>1. t > cur /\ ~(durable[cur] < Len(files[cur]))
        BY <1>0, <1>4, <2>1, <3>1, <3>3
      <4>2. durable[cur] = Len(files[cur])
        BY <1>0, <1>4, <4>1
      <4> QED BY <1>0, <3>1, <3>3, <4>1, <4>2 DEF WriterOK, Settled
    <3>4. CASE s > cur
      <4>1. files[s] = << >> /\ Len(<< >>) = 0
        BY <1>0, <3>1, <3>4 DEF WriterOK
      <4>2. durable[s] = 0
        BY <1>4, <3>1, <4>1
      <4> QED BY <4>1, <4>2 DEF Settled
    <3> QED BY <1>4, <3>1, <3>2, <3>3, <3>4
  <2> QED
    BY <1>0, <1>2, <1>7, <2>1 DEF ClosedOK
<1>9. HeadsOK'
  <2>1. \A s \in kept : Held'[s] = files'[s]
    <3>1. \A s \in kept : files'[s] \o << >> = files'[s]
      BY <1>3
    <3> QED BY <1>0, <1>2, <3>1 DEF Held
  <2>2. \A s \in DOMAIN files : /\ Len(Held[s]) \in Nat /\ Len(files[s]) <= Len(Held[s])
                                /\ \A i \in 1..Len(files[s]) : Held[s][i] = files[s][i]
    BY <1>0, HeldHolds
  <2>3. ASSUME NEW s \in DOMAIN files', NEW i \in 1..Len(Held'[s]), NEW a \in Payloads, HeadAt(Held'[s], i, a)
        PROVE  s \in DOMAIN files /\ i \in 1..Len(Held[s]) /\ HeadAt(Held[s], i, a)
    <3>1. s \in kept /\ s \in DOMAIN files /\ i \in 1..Len(files'[s]) /\ files'[s][i] = <<a, "len">>
      BY <1>2, <2>1, <2>3 DEF HeadAt
    <3>2. files'[s][i] = files[s][i] /\ i \in 1..Len(files[s])
      BY <1>3, <3>1 DEF Zero
    <3>3. i \in 1..Len(Held[s])
      BY <1>4, <2>2, <3>1, <3>2
    <3> QED BY <2>2, <3>1, <3>2, <3>3 DEF HeadAt
  <2>4. ~Fresh'
    BY <1>0 DEF Fresh, Rotating
  <2>5. rec <= rec' /\ rec \in Nat /\ rec' \in Nat
    BY <1>0, Numbers
  <2> QED
    BY <2>3, <2>4, <2>5, HeadsKept, HeldDomain DEF WalInv
<1>10. SyncedOK'
  <2>1. ASSUME FsyncEntry, NEW m \in DOMAIN files, SyncedUpTo(m) PROVE m \in DOMAIN files' /\ SyncedUpTo(m)'
    <3>1. m \in entries /\ m \in kept /\ m \in 0..MaxSegment
      BY <1>1, <1>4, <2>1 DEF SyncedUpTo
    <3>2. \A s \in DOMAIN files' : s < m => Settled(s)'
      BY <1>2, <1>7, <2>1 DEF SyncedUpTo
    <3>3. \A s \in 0..MaxSegment : s < m => SegmentRecords(files', s) = SegmentRecords(files, s)
      <4> SUFFICES ASSUME NEW s \in 0..MaxSegment, s < m
                   PROVE  SegmentRecords(files', s) = SegmentRecords(files, s)
        OBVIOUS
      <4>1. CASE s \in kept
        <5>1. s \in DOMAIN files /\ files'[s] = files[s] /\ s \in DOMAIN files'
          BY <1>2, <1>7, <2>1, <4>1 DEF SyncedUpTo
        <5> QED BY <5>1 DEF SegmentRecords
      <4>2. CASE s \in DOMAIN files /\ s \notin kept
        <5>1. files[s] = << >>
          BY <1>1, <2>1, <4>2 DEF SyncedUpTo, Settled
        <5> QED BY <1>2, <4>2, <5>1, EmptyScan DEF SegmentRecords
      <4>3. CASE s \notin DOMAIN files
        BY <1>2, <4>3 DEF SegmentRecords
      <4> QED BY <4>1, <4>2, <4>3
    <3>4. synced \in Seq(Payloads) /\ durable[m] \in 0..Len(files[m]) /\ durable'[m] \in 0..Len(files'[m])
      BY <1>0, <1>2, <1>4, <1>5, <3>1 DEF WalTypeOK, Payloads
    <3>5. SubSeq(files'[m], 1, durable'[m]) = SubSeq(files[m], 1, durable[m])
      BY <1>2, <1>3, <3>1
    <3>6. RecordsOf(SubSeq(files[m], 1, durable[m])) \in Seq(Payloads)
      BY <1>4, <3>4, CutAt, ScanType
    <3>7. StartsWith(RecordsOf(SubSeq(files'[m], 1, durable'[m])),
                     RecordsOf(SubSeq(files[m], 1, durable[m])))
      BY <3>5, <3>6, StartsWithSelf
    <3>8. m \in entries' /\ m \in DOMAIN files' /\ ((phase # "down")' => m <= cur') /\ synced' = synced
      BY <1>0, <1>2, <3>1
    <3> QED
      BY <1>4, <1>5, <2>1, <3>2, <3>3, <3>4, <3>7, <3>8, SyncedKept
  <2> QED
    BY <1>0, <2>1 DEF SyncedOK, WalInv
<1> QED
  BY <1>0, <1>6, <1>8, <1>9, <1>10 DEF WalInv

-----------------------------------------------------------------------------
(* The log from its creation on.                                           *)

LEMMA WalNextKeeps == WalInv /\ [WalNext]_walVars => WalInv'
<1> SUFFICES ASSUME WalInv, [WalNext]_walVars PROVE WalInv'
  OBVIOUS
<1>1. CASE OpenFresh
  BY <1>1, OpenFreshKeeps
<1>2. CASE OpenRecover
  BY <1>2, OpenRecoverKeeps
<1>3. CASE AppendCall
  BY <1>3, AppendCallKeeps
<1>4. CASE WritePart
  BY <1>4, WritePartKeeps
<1>5. CASE WritePartFails
  BY <1>5, WritePartFailsKeeps
<1>6. CASE Flush
  BY <1>6, FlushKeeps
<1>7. CASE FlushFails
  BY <1>7, FlushFailsKeeps
<1>8. CASE Sync
  BY <1>8, SyncKeeps
<1>9. CASE FsyncFails
  BY <1>9, FsyncFailsKeeps
<1>10. CASE RotateSync
  BY <1>10, RotateSyncKeeps
<1>11. CASE RotateCreate
  BY <1>11, RotateCreateKeeps
<1>12. CASE RotateCreateFails
  BY <1>12, RotateCreateFailsKeeps
<1>13. CASE RotateDir
  BY <1>13, RotateDirKeeps
<1>14. CASE RotateDirFails
  BY <1>14, RotateDirFailsKeeps
<1>15. CASE Crash
  BY <1>15, WalCrashKeeps
<1>16. CASE UNCHANGED walVars
  <2>1. /\ files' = files /\ durable' = durable /\ entries' = entries /\ buf' = buf /\ cur' = cur
        /\ index' = index /\ bytes' = bytes /\ phase' = phase /\ rec' = rec /\ parts' = parts
        /\ log' = log /\ synced' = synced /\ torn' = torn /\ stranded' = stranded /\ walCrashes' = walCrashes /\ errors' = errors
    BY <1>16 DEF walVars
  <2>2. (WalTypeOK' <=> WalTypeOK) /\ (WriterOK' <=> WriterOK)
    BY <2>1 DEF WalTypeOK, WriterOK, Settled
  <2>3. ClosedOK' <=> ClosedOK
    BY <2>1 DEF ClosedOK, Settled, Replay
  <2>4. StreamOK' <=> StreamOK
    BY <2>1 DEF StreamOK, Underway
  <2>5. HeadsOK' <=> HeadsOK
    BY <2>1 DEF HeadsOK, Held, Fresh
  <2>6. SyncedOK' <=> SyncedOK
    BY <2>1 DEF SyncedOK, SyncedUpTo, Settled
  <2> QED
    BY <2>1, <2>2, <2>3, <2>4, <2>5, <2>6 DEF WalInv
<1> QED
  BY <1>1, <1>2, <1>3, <1>4, <1>5, <1>6, <1>7, <1>8, <1>9, <1>10, <1>11, <1>12, <1>13, <1>14,
     <1>15, <1>16 DEF WalNext

LEMMA WalInvAlways == WalSpec => []WalInv
<1> QED
  BY InitInv, WalNextKeeps, PTL DEF WalSpec

(* The cells of the record under way are no record yet.                    *)
LEMMA UnderwayScan ==
    ASSUME WalTypeOK, WriterOK
    PROVE  Underway \in Seq(Cells) /\ RecordsOf(Underway) = << >>
<1>1. CASE phase = "write"
  <2>1. rec \in Payloads /\ parts \in 0..2
    BY <1>1, WalBounds DEF WriterOK, WalTypeOK, Payloads, RecordCells
  <2> QED BY <1>1, <2>1, PartScan, FrameCells DEF Underway
<1>2. CASE phase # "write"
  BY <1>2, EmptyScan DEF Underway
<1> QED BY <1>1, <1>2

(* Without a torn append a reader sees a prefix of the log.                *)
LEMMA InvNoGap == ASSUME WalInv PROVE NoGap
<1> SUFFICES ASSUME ~torn PROVE IsPrefix(Replay, log)
  BY DEF NoGap
<1>0. /\ WalTypeOK /\ IsDir(files) /\ MaxSegment \in Nat
      /\ Replay \in Seq(Payloads) /\ log \in Seq(Payloads)
  BY TypeFacts, ReplayType DEF WalInv, WalTypeOK, Payloads, Replay
<1>1. CASE phase = "down"
  <2>1. StartsWith(log, Replay)
    BY <1>0, <1>1, StartsWithSelf DEF WalInv, ClosedOK
  <2> QED BY <1>0, <2>1, StartsWithPrefix
<1>2. CASE phase # "down"
  <2>1. /\ cur \in DOMAIN files /\ cur \in 0..MaxSegment /\ files[cur] \in Seq(Cells) /\ buf \in Seq(Cells)
        /\ \A s \in DOMAIN files : s > cur => files[s] = << >>
    BY <1>0, <1>2, TypeFacts DEF WalInv, WalTypeOK, WriterOK
  <2>2. PICK v \in Seq(Cells) : /\ files[cur] \o buf = v \o Underway
                                /\ Whole(v) /\ log = Before(files, cur) \o RecordsOf(v)
    BY <1>2 DEF WalInv, StreamOK
  <2>3. Underway \in Seq(Cells) /\ RecordsOf(Underway) = << >>
    BY <1>0, <1>2, UnderwayScan DEF WalInv
  <2>4. RecordsOf(v \o Underway) = RecordsOf(v)
    <3>1. RecordsOf(v) \in Seq(Payloads)
      BY ScanType
    <3>2. RecordsOf(v \o Underway) = RecordsOf(v) \o RecordsOf(Underway)
      BY <2>2, <2>3, ScanAppend
    <3>3. RecordsOf(v) \o << >> = RecordsOf(v)
      BY ONLY <3>1, ConcatEmptySeq
    <3> QED BY ONLY <2>3, <3>2, <3>3
  <2>5. StartsWith(RecordsOf(v), RecordsOf(files[cur]))
    <3>1. StartsWith(RecordsOf(files[cur] \o buf), RecordsOf(files[cur]))
      BY <2>1, ScanGrows
    <3> QED BY <2>2, <2>4, <3>1
  <2>6. Replay = Before(files, cur) \o RecordsOf(files[cur])
    <3>1. MaxSegment + 1 \in (cur + 1)..(MaxSegment + 1)
      BY <1>0, <2>1
    <3>2. Before(files, MaxSegment + 1) = Before(files, cur) \o RecordsOf(files[cur])
      BY <1>0, <2>1, <3>1, ReplayUpTo
    <3> QED BY <3>2, ReplayIsBefore DEF Replay
  <2>7. Before(files, cur) \in Seq(Payloads) /\ RecordsOf(files[cur]) \in Seq(Payloads)
    <3>1. cur \in 0..(MaxSegment + 1)
      BY <1>0, <2>1
    <3> QED BY <1>0, <2>1, <3>1, BeforeStep, ScanType
  <2>8. StartsWith(log, Replay)
    BY <2>2, <2>5, <2>6, <2>7, StartsWithBehind
  <2> QED BY <1>0, <2>8, StartsWithPrefix
<1> QED
  BY <1>1, <1>2

(* A reader sees the records in the order of their appends.                *)
LEMMA InvInOrder == ASSUME WalInv PROVE ReplayInOrder
<1>0. WalTypeOK /\ IsDir(files) /\ DirAscends(Held)
  BY TypeFacts DEF WalInv, HeadsOK
<1>1. \A s \in DOMAIN files : /\ Len(Held[s]) \in Nat /\ Len(files[s]) <= Len(Held[s])
                              /\ \A i \in 1..Len(files[s]) : Held[s][i] = files[s][i]
  BY <1>0, HeldHolds
<1>2. ASSUME NEW s \in DOMAIN files, NEW i \in 1..Len(files[s]), NEW a \in Payloads,
             HeadAt(files[s], i, a)
      PROVE  s \in DOMAIN Held /\ i \in 1..Len(Held[s]) /\ HeadAt(Held[s], i, a)
  <2>1. i \in 1..Len(Held[s]) /\ Held[s][i] = files[s][i]
    BY <1>0, <1>1, TypeFacts
  <2> QED BY <1>2, <2>1, HeldDomain DEF HeadAt
<1>3. DirAscends(files)
  BY <1>0, <1>2 DEF DirAscends
<1>4. Ascending(Replay)
  BY <1>0, <1>3, ReplayAscends DEF Replay
<1> QED
  BY <1>4 DEF Ascending, ReplayInOrder

(* The records a sync covered come first.                                  *)
LEMMA InvSynced == ASSUME WalInv, FsyncEntry PROVE SyncedSurvive
<1>0. /\ WalTypeOK /\ IsDir(files) /\ MaxSegment \in Nat
      /\ Replay \in Seq(Payloads) /\ synced \in Seq(Payloads)
  BY TypeFacts, ReplayType DEF WalInv, WalTypeOK, Payloads, Replay
<1>1. CASE synced = << >>
  <2>1. Replay = synced \o Replay
    BY <1>0, <1>1, ConcatEmptySeq
  <2> QED BY <1>0, <2>1, StartsWithPrefix DEF StartsWith, SyncedSurvive
<1>2. CASE synced # << >>
  <2>1. PICK m \in DOMAIN files : SyncedUpTo(m)
    BY <1>2 DEF WalInv, SyncedOK
  <2>2. /\ m \in 0..MaxSegment /\ m \in 0..(MaxSegment + 1) /\ m + 1 \in 0..(MaxSegment + 1)
        /\ MaxSegment + 1 \in (m + 1)..(MaxSegment + 1)
        /\ files[m] \in Seq(Cells) /\ durable[m] \in 0..Len(files[m])
    BY <1>0, TypeFacts
  <2> DEFINE a == Before(files, m)
             d == RecordsOf(SubSeq(files[m], 1, durable[m]))
             f == RecordsOf(files[m])
  <2>3. a \in Seq(Payloads) /\ d \in Seq(Payloads) /\ f \in Seq(Payloads)
    BY <1>0, <2>2, BeforeStep, CutAt, ScanType
  <2>4. StartsWith(f, d)
    BY <2>2, CutAt, ScanGrows
  <2>5. Before(files, m + 1) = a \o f
    BY <1>0, <2>2, BeforeStep DEF SegmentRecords
  <2>6. StartsWith(Replay, Before(files, m + 1))
    BY <1>0, <2>2, BeforeGrows, ReplayIsBefore DEF Replay
  <2>7. StartsWith(a \o d, synced)
    BY <2>1 DEF SyncedUpTo
  <2> HIDE DEF a, d, f
  <2>8. StartsWith(a \o f, a \o d)
    BY <2>3, <2>4, StartsWithBehind
  <2>9. StartsWith(a \o f, synced)
    BY <1>0, <2>7, <2>8, StartsWithTrans
  <2>10. StartsWith(Replay, synced)
    BY <1>0, <2>5, <2>6, <2>9, StartsWithTrans
  <2> QED BY <1>0, <2>10, StartsWithPrefix DEF SyncedSurvive
<1> QED
  BY <1>1, <1>2

(* wal.rs: at every moment, during appends, rotations and their failures,  *)
(* after any crash and before and after recovery, a WalReader takes only   *)
(* records for records, yields them in the order of their appends, none    *)
(* twice, and unless an append was torn by an I/O error it skips none: for *)
(* every segment size, every buffer size and any number of crashes.        *)
THEOREM ReaderSoundAlways == WalSpec => []ReaderSound
<1>1. WalInv => ReaderSound
  BY InvNoGap, InvInOrder DEF ReaderSound, WalInv
<1> QED
  BY <1>1, WalInvAlways, PTL

(* wal.rs, "anything acked by the writer side can be replayed": on a file  *)
(* system whose fsync of a new file also makes its directory entry         *)
(* durable, the records that a Wal::sync returned Ok for, before an append *)
(* was torn and before a crash stranded unsynced cells in a segment that   *)
(* has a successor, are what a reader yields first, whatever crashes,      *)
(* failed flushes, failed rotations and recoveries come after, and         *)
(* whatever the sizes of the records.                                      *)
THEOREM SyncedSurviveAlways == ASSUME FsyncEntry PROVE WalSpec => []SyncedSurvive
<1>1. WalInv => SyncedSurvive
  BY InvSynced
<1> QED
  BY <1>1, WalInvAlways, PTL

(* A crash takes records from the end only: the segments below the open    *)
(* one are settled, and of the open one it leaves a part that replays a    *)
(* part of what the log stands for.                                        *)
LEMMA CrashTakesTail ==
    ASSUME WalInv, Crash, FsyncEntry, ~torn, ~stranded
    PROVE  IsPrefix(Replay', log)
<1>0. /\ WalTypeOK /\ WriterOK /\ phase # "down" /\ IsDir(files) /\ MaxSegment \in Nat
      /\ cur \in DOMAIN files /\ cur \in 0..MaxSegment /\ cur \in 0..(MaxSegment + 1)
      /\ MaxSegment + 1 \in (cur + 1)..(MaxSegment + 1) /\ MaxSegment + 1 \in 0..(MaxSegment + 1)
      /\ files[cur] \in Seq(Cells) /\ buf \in Seq(Cells) /\ log \in Seq(Payloads)
  <2>1. /\ WalTypeOK /\ WriterOK /\ phase # "down" /\ cur \in DOMAIN files
    BY DEF WalInv, Crash, WalTypeOK
  <2>2. IsDir(files) /\ MaxSegment \in Nat /\ cur \in 0..MaxSegment /\ files[cur] \in Seq(Cells)
    BY <2>1, TypeFacts
  <2> QED BY <2>1, <2>2 DEF WalTypeOK, Payloads
<1>1. PICK kept \in SUBSET DOMAIN files :
         /\ entries \subseteq kept /\ DOMAIN files' = kept
         /\ \A s \in kept : files'[s] \in Remains(s)
  BY DEF Crash
<1>2. ASSUME NEW s \in kept
      PROVE  /\ files'[s] \in Seq(Cells)
             /\ durable[s] = Len(files[s]) => files'[s] = files[s]
             /\ \E k \in 0..Len(files[s]), z \in Nat : files'[s] = SubSeq(files[s], 1, k) \o ZeroCells(z)
  <2>1. PICK k \in durable[s]..Len(files[s]), z \in Nat :
            files'[s] = SubSeq(files[s], 1, k) \o [i \in 1..z |-> Zero]
    BY <1>0, <1>1, RemainsFacts
  <2>2. k \in 0..Len(files[s])
    BY <1>0, <1>1, TypeFacts
  <2> QED BY <1>0, <1>1, <2>1, <2>2, RemainsFacts DEF ZeroCells
<1>3. IsDir(files')
  BY <1>0, <1>1, <1>2 DEF IsDir
<1>4. \A s \in 0..MaxSegment : s < cur => SegmentRecords(files', s) = SegmentRecords(files, s)
  <2> SUFFICES ASSUME NEW s \in 0..MaxSegment, s < cur, s \in DOMAIN files
               PROVE  SegmentRecords(files', s) = SegmentRecords(files, s)
    BY <1>1 DEF SegmentRecords
  <2>1. Settled(s)
    BY <1>0 DEF WriterOK
  <2>2. CASE s \in kept
    <3>1. files'[s] = files[s]
      BY <1>2, <2>1, <2>2 DEF Settled
    <3> QED BY <1>1, <2>2, <3>1 DEF SegmentRecords
  <2>3. CASE s \notin kept
    <3>1. files[s] = << >>
      BY <1>1, <2>1, <2>3 DEF Settled
    <3> QED BY <1>1, <2>3, <3>1, EmptyScan DEF SegmentRecords
  <2> QED BY <2>2, <2>3
<1>5. Before(files', cur) = Before(files, cur) /\ Before(files, cur) \in Seq(Payloads)
  BY <1>0, <1>3, <1>4, BeforeSame, BeforeStep
<1>6. PICK v \in Seq(Cells) : /\ files[cur] \o buf = v \o Underway
                              /\ Whole(v) /\ log = Before(files, cur) \o RecordsOf(v)
  BY <1>0 DEF WalInv, StreamOK
<1>7. RecordsOf(files[cur] \o buf) = RecordsOf(v) /\ RecordsOf(v) \in Seq(Payloads)
  <2>1. Underway \in Seq(Cells) /\ RecordsOf(Underway) = << >>
    BY <1>0, UnderwayScan
  <2>2. RecordsOf(v) \in Seq(Payloads)
    BY ScanType
  <2>3. RecordsOf(v \o Underway) = RecordsOf(v) \o RecordsOf(Underway)
    BY <1>6, <2>1, ScanAppend
  <2>4. RecordsOf(v) \o << >> = RecordsOf(v)
    BY ONLY <2>2, ConcatEmptySeq
  <2> QED BY ONLY <1>6, <2>1, <2>2, <2>3, <2>4
<1>8. StartsWith(RecordsOf(v), SegmentRecords(files', cur)) /\ SegmentRecords(files', cur) \in Seq(Payloads)
  <2>1. CASE cur \in kept
    <3>1. PICK k \in 0..Len(files[cur]), z \in Nat : files'[cur] = SubSeq(files[cur], 1, k) \o ZeroCells(z)
      BY <1>2, <2>1
    <3> DEFINE h == SubSeq(files[cur], 1, k)
    <3>2. h \in Seq(Cells) /\ \E t \in Seq(Cells) : files[cur] = h \o t
      BY <1>0, CutAt
    <3>3. PICK t \in Seq(Cells) : files[cur] = h \o t
      BY <3>2
    <3>4. SegmentRecords(files', cur) = RecordsOf(h) /\ RecordsOf(h) \in Seq(Payloads)
      BY <1>1, <2>1, <3>1, <3>2, ZeroesAddNothing, ScanType DEF SegmentRecords
    <3> HIDE DEF h
    <3>5. files[cur] \o buf = h \o (t \o buf) /\ t \o buf \in Seq(Cells)
      <4>1. h \in Seq(Cells) /\ t \in Seq(Cells) /\ buf \in Seq(Cells)
        BY <1>0, <3>2, <3>3
      <4>2. (h \o t) \o buf = h \o (t \o buf)
        BY <4>1, CellAssoc
      <4>3. t \o buf \in Seq(Cells)
        BY ONLY <4>1, ConcatProperties
      <4> QED BY <3>3, <4>2, <4>3
    <3>6. StartsWith(RecordsOf(h \o (t \o buf)), RecordsOf(h))
      BY <3>2, <3>5, ScanGrows
    <3> QED BY <1>7, <3>4, <3>5, <3>6
  <2>2. CASE cur \notin kept
    <3>1. SegmentRecords(files', cur) = << >> /\ RecordsOf(v) = << >> \o RecordsOf(v)
      BY <1>1, <1>7, <2>2, ConcatEmptySeq DEF SegmentRecords
    <3> QED BY <1>7, <3>1 DEF StartsWith
  <2> QED BY <2>1, <2>2
<1>9. Replay' = Before(files', cur) \o SegmentRecords(files', cur)
  <2>1. \A s \in (cur + 1)..MaxSegment : SegmentRecords(files', s) = << >>
    <3> SUFFICES ASSUME NEW s \in (cur + 1)..MaxSegment, s \in kept PROVE RecordsOf(files'[s]) = << >>
      BY <1>1 DEF SegmentRecords
    <3>1. s > cur /\ s \in DOMAIN files
      BY <1>0
    <3>2. files[s] = << >> /\ durable[s] \in 0..Len(files[s])
      BY <1>0, <3>1, TypeFacts DEF WriterOK
    <3>3. durable[s] = Len(files[s])
      BY <3>2
    <3>4. files'[s] = << >>
      BY <1>2, <3>2, <3>3
    <3> QED BY <3>4, EmptyScan
  <2>2. Before(files', cur + 1) = Before(files', cur) \o SegmentRecords(files', cur)
    BY <1>0, <1>3, BeforeStep
  <2>3. Before(files', MaxSegment + 1) = Before(files', cur + 1)
    <3>1. cur + 1 \in 0..(MaxSegment + 1) /\ (MaxSegment + 1) - 1 = MaxSegment
      BY <1>0
    <3> QED BY <1>0, <1>3, <2>1, <3>1, BeforeGrows
  <2> QED BY <2>2, <2>3, ReplayIsBefore DEF Replay
<1>10. StartsWith(log, Replay')
  BY <1>5, <1>6, <1>8, <1>9, StartsWithBehind
<1>11. Replay' \in Seq(Payloads)
  BY <1>3, ReplayType DEF Replay
<1> QED
  BY <1>0, <1>10, <1>11, StartsWithPrefix

(* wal.rs: on such a file system a crash never makes a hole.  Whatever it  *)
(* leaves of the unsynced part of each file, what a reader finds after it  *)
(* is a prefix of the log, as long as no append was torn and no earlier    *)
(* crash has stranded unsynced cells below the last segment.               *)
THEOREM CrashLosesTailAlways == ASSUME FsyncEntry PROVE WalSpec => CrashLosesTail
<1>1. WalInv /\ [WalNext]_walVars =>
        [Crash /\ ~torn /\ ~stranded => IsPrefix(Replay', log)]_walVars
  BY CrashTakesTail
<1> QED
  BY <1>1, WalInvAlways, PTL DEF WalSpec, CrashLosesTail

(* Wal::open_or_create, which truncates the last segment at its first      *)
(* record that does not scan, changes nothing of what a reader yields.     *)
THEOREM RecoveryKeepsAlways == WalSpec => RecoveryKeepsRecords
<1>1. WalInv /\ [WalNext]_walVars => [phase = "down" /\ phase' # "down" => Replay' = Replay]_walVars
  <2> SUFFICES ASSUME WalInv, WalNext, phase = "down", phase' # "down" PROVE Replay' = Replay
    OBVIOUS
  <2>1. OpenFresh \/ OpenRecover
    BY DEF WalNext, AppendCall, WritePart, WritePartFails, Flush, FlushFails, Sync, FsyncFails,
       RotateSync, RotateCreate, RotateCreateFails, RotateDir, RotateDirFails, Crash
  <2> QED BY <2>1, OpenFreshKeeps, OpenRecoverKeeps
<1> QED
  BY <1>1, WalInvAlways, PTL DEF WalSpec, RecoveryKeepsRecords

=============================================================================
