------------------------------ MODULE ChaosFeed ------------------------------
(***************************************************************************)
(* The detector chain under any order flow over a small listing of orders: *)
(* an order is added when it is not live, and a live one is cancelled,     *)
(* traded or modified, with the fields that the sources in replay and      *)
(* chaos set (a delete and an execution by reference carry no price).      *)
(***************************************************************************)
EXTENDS ChaosChain

CONSTANTS
    Listing,     \* order id -> [side, price, qty], the orders of the feed
    Opening,     \* sequence of ids added first, to open the market
    MaxEvents    \* bound on the length of the feed

ASSUME ListingAssumption ==
    \A o \in DOMAIN Listing :
        /\ o \in Nat \ {0} /\ Listing[o].side \in Sides
        /\ Listing[o].price \in Nat \ {0} /\ Listing[o].qty \in Nat \ {0}

VARIABLES
    seq,       \* sequence number of the last event
    live,      \* what really rests: order id -> remaining quantity
    lastPrint, \* level -> seq of the last trade that named that level
    lastFill   \* level -> seq of the last trade of an order resting there

feedVars == <<detectorVars, seq, live, lastPrint, lastFill>>

Init ==
    /\ DetectorsInit
    /\ seq = 0
    /\ live = EmptyMap
    /\ lastPrint = EmptyMap /\ lastFill = EmptyMap

Emit(type, side, price, qty, o) ==
    /\ seq < MaxEvents
    /\ seq' = seq + 1
    /\ ProcessInto(SequencedEvent(seq + 1, seq + 1, type, side, price, qty, o))

Left(o, qty) ==
    IF qty = 0 \/ qty >= live[o] THEN Without(live, o) ELSE [live EXCEPT ![o] = @ - qty]

Add(o) ==
    LET l == Listing[o]
    IN  /\ o \notin DOMAIN live
        /\ seq < Len(Opening) => o = Opening[seq + 1]
        /\ Emit("OrderAdd", l.side, l.price, l.qty, o)
        /\ live' = With(live, o, l.qty)
        /\ UNCHANGED <<lastPrint, lastFill>>

Opened(o) == seq >= Len(Opening) /\ o \in DOMAIN live

(* A full delete by reference, or a partial cancel that names its level.   *)
Cancel(o, qty) ==
    LET l == Listing[o]
    IN  /\ Opened(o)
        /\ IF qty = 0 THEN Emit("OrderCancel", "Bid", 0, 0, o)
           ELSE Emit("OrderCancel", l.side, l.price, qty, o)
        /\ live' = Left(o, qty)
        /\ UNCHANGED <<lastPrint, lastFill>>

(* A full fill that names its level, or a partial execution by reference.  *)
Trade(o, full) ==
    LET l == Listing[o]
    IN  /\ Opened(o)
        /\ IF full THEN Emit("Trade", l.side, l.price, live[o], o)
           ELSE Emit("Trade", "Bid", 0, 1, o)
        /\ live' = Left(o, IF full THEN 0 ELSE 1)
        /\ lastPrint' = IF full THEN With(lastPrint, <<l.side, l.price>>, seq + 1) ELSE lastPrint
        /\ lastFill' = With(lastFill, <<l.side, l.price>>, seq + 1)

(* A modify to the listed quantity, in place.                              *)
Modify(o) ==
    LET l == Listing[o]
    IN  /\ Opened(o)
        /\ Emit("OrderModify", l.side, l.price, l.qty, o)
        /\ live' = [live EXCEPT ![o] = l.qty]
        /\ UNCHANGED <<lastPrint, lastFill>>

Snapshot ==
    /\ seq >= Len(Opening)
    /\ Emit("BookSnapshot", "Bid", 0, 0, 0)
    /\ UNCHANGED <<live, lastPrint, lastFill>>

Next ==
    \/ \E o \in DOMAIN Listing : Add(o)
    \/ \E o \in DOMAIN Listing : Cancel(o, 0)
    \/ \E o \in DOMAIN Listing : Cancel(o, 1)
    \/ \E o \in DOMAIN Listing : Trade(o, TRUE)
    \/ \E o \in DOMAIN Listing : Trade(o, FALSE)
    \/ \E o \in DOMAIN Listing : Modify(o)
    \/ Snapshot

Spec == Init /\ [][Next]_feedVars

-----------------------------------------------------------------------------
FlaggedAfter(last) ==
    (IsSome(phantom.flag) /\ phantom.key[1] \in DOMAIN last) =>
        last[phantom.key[1]] < phantom.flag[1].start_seq

(* phantom_liquidity.rs: since a flagged level was created, no trade named *)
(* its side and price.                                                     *)
PhantomUntraded == FlaggedAfter(lastPrint)

(* What its documentation says: "A level created by OrderAdd, never        *)
(* traded".  An execution by reference carries no price, and the detector  *)
(* does not look its order up: this is not true of the code.               *)
PhantomNeverTraded == FlaggedAfter(lastFill)

(* flash_crash.rs, cancellation_storm.rs, phantom_liquidity.rs, spoof.rs:  *)
(* what the detectors maintain incrementally is what their windows and     *)
(* ladders hold, within the caps.                                          *)
CachesExact ==
    /\ CachedBestExact /\ BandDepthExact /\ CancelCountExact
    /\ SpoofListBounded /\ PhantomLevelsBounded

(* chaos/src: no ignition, crash or storm is flagged within the refractory *)
(* of its detector; no print is reported twice, or when it fell into the   *)
(* refractory of the latency proxy; and no level is called a phantom after *)
(* a trade that named it.                                                  *)
FlagsEarned == FlagsSpaced /\ OneFlagPerPrint /\ NoPrintInRefractory /\ PhantomUntraded

=============================================================================
