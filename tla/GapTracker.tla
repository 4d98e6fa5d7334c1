------------------------------ MODULE GapTracker ------------------------------
(***************************************************************************)
(* MoldUDP64 ingress: the frame iterator and GapTracker of                 *)
(* replay/src/moldudp.rs, driven by UdpFeedHandler of                      *)
(* replay/src/udp_source.rs.                                               *)
(*                                                                         *)
(* The publisher has sent messages 1..MaxSeq in frames of consecutive      *)
(* sequence numbers.  UDP loses, duplicates and reorders frames, so any    *)
(* frame may arrive at any moment, any number of times or never; a caller  *)
(* answers open_gap with retransmitted messages.  A payload is identified  *)
(* with its sequence number: the exchange never reuses one.                *)
(*                                                                         *)
(* ingest is one call of one thread.  Its loops are steps here, pc naming  *)
(* the loop that runs: "iter" is the for loop over the messages of a       *)
(* frame, "drain" the while loop over the contiguous buffered messages.    *)
(* Nothing else happens until pc is back at "idle".  Of GapStats only      *)
(* dropped_overflow is kept, as a flag; the counters steer nothing.        *)
(***************************************************************************)
EXTENDS Integers, Sequences, FiniteSets

CONSTANTS
    MaxSeq,           \* messages the publisher has sent
    MaxFrame,         \* bound on the messages of one frame
    max_buffered      \* capacity of the forward buffer

ASSUME TrackerAssumption ==
    /\ MaxSeq \in Nat
    /\ MaxFrame \in Nat \ {0}
    /\ max_buffered \in Nat

VARIABLES
    expected,     \* next sequence number to deliver
    pending,      \* keys of the forward buffer
    overflowed,   \* stats.dropped_overflow > 0
    delivered,    \* what ingest has pushed to its result so far; step hands
                  \* it to the sink, in order, when ingest returns
    iter,         \* MoldMessageIter: next_seq, remaining, and how many of the
                  \* remaining messages the body really holds
    pc            \* "idle", "iter" or "drain"

trackerVars == <<expected, pending, overflowed, delivered, iter, pc>>

NoFrame == [next_seq |-> 1, remaining |-> 0, whole |-> 0]

Init ==
    /\ expected = 1
    /\ pending = {}
    /\ overflowed = FALSE
    /\ delivered = <<>>
    /\ iter = NoFrame
    /\ pc = "idle"

-----------------------------------------------------------------------------
(* ingest_one.                                                             *)

First(S) == CHOOSE x \in S : \A y \in S : x <= y

(* The while loop's test: the first key of the buffer is the next message. *)
NextIsBuffered == pending # {} /\ First(pending) = expected

(* Faulty variant: what was already delivered is delivered again.          *)
IngestOneNoDup(seq) ==
    \/ /\ seq <= expected
       /\ delivered' = Append(delivered, seq)
       /\ expected' = seq + 1
       /\ pc' = "drain"
       /\ UNCHANGED <<pending, overflowed>>
    \/ /\ seq > expected
       /\ pending' = pending \cup {seq}
       /\ pc' = "iter"
       /\ UNCHANGED <<expected, overflowed, delivered>>

(* Faulty variant: the forward buffer has no capacity check.               *)
IngestOneUnbounded(seq) ==
    \/ /\ seq < expected
       /\ pc' = "iter"
       /\ UNCHANGED <<expected, pending, overflowed, delivered>>
    \/ /\ seq = expected
       /\ delivered' = Append(delivered, seq)
       /\ expected' = expected + 1
       /\ pc' = "drain"
       /\ UNCHANGED <<pending, overflowed>>
    \/ /\ seq > expected
       /\ pending' = pending \cup {seq}
       /\ pc' = "iter"
       /\ UNCHANGED <<expected, overflowed, delivered>>

(* A message behind expected is a duplicate.  The expected one is          *)
(* delivered and the drain loop follows.  A later one is dropped when the  *)
(* buffer is full (a duplicate of a buffered one too) and kept otherwise.  *)
IngestOne(seq) ==
    \/ /\ seq < expected
       /\ pc' = "iter"
       /\ UNCHANGED <<expected, pending, overflowed, delivered>>
    \/ /\ seq = expected
       /\ delivered' = Append(delivered, seq)
       /\ expected' = expected + 1
       /\ pc' = "drain"
       /\ UNCHANGED <<pending, overflowed>>
    \/ /\ seq > expected
       /\ Cardinality(pending) >= max_buffered
       /\ overflowed' = TRUE
       /\ pc' = "iter"
       /\ UNCHANGED <<expected, pending, delivered>>
    \/ /\ seq > expected
       /\ Cardinality(pending) < max_buffered
       /\ pending' = pending \cup {seq}
       /\ pc' = "iter"
       /\ UNCHANGED <<expected, overflowed, delivered>>

(* Faulty variant: only one buffered message is drained per delivery.      *)
DrainOneOnly ==
    /\ pc = "drain"
    /\ NextIsBuffered
    /\ pending' = pending \ {expected}
    /\ delivered' = Append(delivered, expected)
    /\ expected' = expected + 1
    /\ pc' = "iter"
    /\ UNCHANGED <<overflowed, iter>>

(* One turn of the while loop.                                             *)
DrainOne ==
    /\ pc = "drain"
    /\ NextIsBuffered
    /\ pending' = pending \ {expected}
    /\ delivered' = Append(delivered, expected)
    /\ expected' = expected + 1
    /\ UNCHANGED <<overflowed, iter, pc>>

DrainEnd ==
    /\ pc = "drain"
    /\ ~NextIsBuffered
    /\ pc' = "iter"
    /\ UNCHANGED <<expected, pending, overflowed, delivered, iter>>

-----------------------------------------------------------------------------
(* ingest: the for loop over MoldMessageIter.                              *)

(* Faulty variant: the cursor of the iterator does not move.               *)
IterMessageStuck ==
    /\ pc = "iter"
    /\ iter.remaining > 0 /\ iter.whole > 0
    /\ iter' = iter
    /\ IngestOne(iter.next_seq)

(* The iterator yields the next whole message.                             *)
IterMessage ==
    /\ pc = "iter"
    /\ iter.remaining > 0 /\ iter.whole > 0
    /\ iter' = [next_seq |-> iter.next_seq + 1,
                remaining |-> iter.remaining - 1,
                whole |-> iter.whole - 1]
    /\ IngestOne(iter.next_seq)

(* The body ends before the declared count: next returns an error without  *)
(* moving, and ingest continues with the loop.                             *)
IterError ==
    /\ pc = "iter"
    /\ iter.remaining > 0 /\ iter.whole = 0
    /\ UNCHANGED trackerVars

IterEnd ==
    /\ pc = "iter"
    /\ iter.remaining = 0
    /\ pc' = "idle"
    /\ iter' = NoFrame
    /\ UNCHANGED <<expected, pending, overflowed, delivered>>

(* UdpFeedHandler::step: a datagram arrives and its header parses (one     *)
(* that is too short for a header is dropped).  A heartbeat and an end of  *)
(* session have no messages; a body may end before the declared count.     *)
Receive ==
    \E first \in 1..MaxSeq, count \in 0..MaxFrame :
        \E whole \in 0..count :
            /\ pc = "idle"
            /\ first + count - 1 <= MaxSeq
            /\ iter' = [next_seq |-> first, remaining |-> count, whole |-> whole]
            /\ pc' = "iter"
            /\ UNCHANGED <<expected, pending, overflowed, delivered>>

(* open_gap: the missing range, empty when nothing is buffered.            *)
OpenGap ==
    IF pending # {} /\ First(pending) > expected
    THEN expected..(First(pending) - 1)
    ELSE {}

(* ingest_retransmit: the caller obtained a message of the open gap.       *)
Retransmit(seq) ==
    /\ pc = "idle"
    /\ seq \in OpenGap
    /\ iter' = [next_seq |-> seq, remaining |-> 1, whole |-> 1]
    /\ pc' = "iter"
    /\ UNCHANGED <<expected, pending, overflowed, delivered>>

Handler == IterMessage \/ IterError \/ IterEnd \/ DrainOne \/ DrainEnd

Next ==
    \/ IterMessage
    \/ IterError
    \/ IterEnd
    \/ DrainOne
    \/ DrainEnd
    \/ Receive
    \/ \E seq \in 1..MaxSeq : Retransmit(seq)

Spec == Init /\ [][Next]_trackerVars

(* The thread that runs a handler goes on running it.  The network owes    *)
(* nothing; the caller asks for every message of an open gap, as the doc   *)
(* of GapTracker shows, and the rewinder answers.                          *)
FairSpec ==
    /\ Spec
    /\ WF_trackerVars(Handler)
    /\ \A seq \in 1..MaxSeq : SF_trackerVars(Retransmit(seq))

-----------------------------------------------------------------------------
(* Properties.                                                             *)

(* Type invariant.                                                         *)
TypeOK ==
    /\ expected \in Nat \ {0}
    /\ pending \in SUBSET Nat
    /\ overflowed \in BOOLEAN
    /\ delivered \in Seq(Nat)
    /\ iter \in [next_seq : Nat, remaining : Nat, whole : Nat]
    /\ pc \in {"idle", "iter", "drain"}

(* "A single message delivered to the consumer in strict sequence order":  *)
(* whatever is lost, duplicated or reordered, the sink sees 1, 2, 3, ...   *)
(* with nothing skipped and nothing twice.                                 *)
DeliveredInOrder ==
    /\ Len(delivered) = expected - 1
    /\ \A i \in 1..Len(delivered) : delivered[i] = i

(* Between calls everything buffered lies strictly ahead of expected, so   *)
(* the drain loop never stops short and never strands a message behind.    *)
NothingStranded == pc = "idle" => \A s \in pending : s > expected

(* The forward buffer is bounded and holds nothing that was delivered.     *)
BufferBounded ==
    /\ Cardinality(pending) <= max_buffered
    /\ \A s \in pending : s >= expected

(* open_gap tells the caller exactly what to ask for: whenever something   *)
(* is buffered it is the non-empty range up to the first buffered message, *)
(* all of it undelivered and unbuffered.                                   *)
GapIsExact ==
    pc = "idle" /\ pending # {} =>
        /\ OpenGap # {}
        /\ OpenGap \cap pending = {}
        /\ \A s \in OpenGap : s >= expected
        /\ \A s \in pending : \A g \in OpenGap : g < s

(* The loop is at an error it will meet again.                             *)
Stuck == pc = "iter" /\ iter.remaining > 0 /\ iter.whole = 0

(* Once a message is known to be missing (a later one is buffered) it is   *)
(* eventually delivered, even if retransmits overflow the buffer, unless a *)
(* truncated frame keeps the handler from returning.                       *)
GapsClose ==
    \A s \in 1..MaxSeq : (s \in pending) ~> (expected > s \/ Stuck)

(* The handler always returns to its caller: ingest takes any datagram     *)
(* ("ignore malformed mid-stream") and ends.  Not true of the code: a      *)
(* truncated frame is Stuck.                                               *)
IngestReturns == (pc # "idle") ~> (pc = "idle")

=============================================================================
