--------------------------- MODULE CircuitBreaker ---------------------------
(***************************************************************************)
(* The pre-trade risk gate of flow/src/circuit_breaker.rs, shared by       *)
(* threads that send orders, report fills and feed gaps, operate it and    *)
(* sample it.  Each action is one critical section or one atomic access:   *)
(* check takes and drops a lock per guard, and reserves nothing, so other  *)
(* threads act between any two of its guards.                              *)
(*                                                                         *)
(* One instrument: check and record_fill touch one entry of the positions. *)
(* A sender stands for one order in flight: it checks, sends, and may      *)
(* check again once its order is filled or dead.                           *)
(***************************************************************************)
EXTENDS Integers, FiniteSetsExt

CONSTANTS
    Senders,            \* orders that may be in flight at the same time
    Intents,            \* signed order quantities: positive buys, negative sells
    Prices,             \* execution prices, in ticks
    Configs,            \* the sets of guards that a BreakerConfig may enable
    MaxPosition, MaxDailyLoss, MaxOrderToTrade, OtrWarmup, GapThreshold,
    Burst,              \* capacity of the token bucket
    None,               \* no halt reason
    MaxOrders,          \* bound: calls of check that pass the latch
    MaxGaps,            \* bound: gaps inside the window
    MaxInterventions    \* bound: operator calls

Reasons == {"RateLimit", "PositionCap", "DailyLossFloor", "OrderToTradeRatio",
            "FeedGap", "Manual"}

\* Quantities and prices are machine words: finitely many
ASSUME BreakerConstants ==
    /\ IsFiniteSet(Senders) /\ Senders # {}
    /\ Intents \subseteq Int \ {0} /\ IsFiniteSet(Intents)
    /\ Configs \subseteq SUBSET {"rate", "position", "loss", "ratio", "gap"}
    /\ Prices \subseteq Nat /\ IsFiniteSet(Prices)
    /\ None \notin Reasons
    /\ {MaxPosition, MaxDailyLoss, MaxOrderToTrade, OtrWarmup, GapThreshold,
        Burst, MaxOrders, MaxGaps, MaxInterventions} \subseteq Nat

VARIABLES
    guards,                                     \* cfg: the guards that are not None
    halted, reason,                             \* the latch
    orders_sent, trades_done, cash, position,   \* accumulators
    tokens,                                     \* TokenBucket::tokens
    gaps,                                       \* entries of gap_log inside the window
    pc,         \* where each sender is inside check
    want,       \* the quantity it asks for, 0 outside check
    seen,       \* orders_sent as the ratio guard read it
    trip,       \* the reason a guard is about to latch
    open,       \* what is still unfilled of its order at the venue
    fill,       \* the execution report being recorded: stage and quantity
    op,         \* the operator's thread
    gapper,     \* the feed thread
    snap,       \* the telemetry thread's snapshot: the flag it read, and (history)
                \* whether a reset overlaps it
    sent, calls,    \* bounds
    late        \* history: orders each sender was allowed since the breaker latched

latch    == <<halted, reason>>
totals   == <<orders_sent, trades_done, cash, position>>
checking == <<pc, want, seen, trip, open>>
others   == <<fill, op, gapper, snap>>
vars == <<guards, halted, reason, orders_sent, trades_done, cash, position, tokens, gaps,
          pc, want, seen, trip, open, fill, op, gapper, snap, sent, calls, late>>

Stages == {"idle", "rate", "position", "loss", "orders", "trades", "count", "latch"}
NoFill == [stage |-> "none", qty |-> 0]
NoSnap == [open |-> FALSE, halted |-> FALSE, reset |-> FALSE]

Largest(S) == Max(S \cup {0})
Abs(n) == IF n < 0 THEN -n ELSE n
PartOf(q) == IF q > 0 THEN 1..q ELSE q..(-1)

BreakerInit ==
    /\ guards \in Configs
    /\ halted = FALSE /\ reason = None
    /\ orders_sent = 0 /\ trades_done = 0 /\ cash = 0 /\ position = 0
    /\ tokens = Burst /\ gaps = 0
    /\ pc = [s \in Senders |-> "idle"]
    /\ want = [s \in Senders |-> 0] /\ seen = [s \in Senders |-> 0]
    /\ trip = [s \in Senders |-> None] /\ open = [s \in Senders |-> 0]
    /\ fill = NoFill /\ op = "idle" /\ gapper = "idle" /\ snap = NoSnap
    /\ sent = 0 /\ calls = 0 /\ late = [s \in Senders |-> 0]

----------------------------------------------------------------------------
(* CircuitBreaker::check, one guard at a time *)

Goto(s, l) == pc' = [pc EXCEPT ![s] = l]

\* A guard of check fails: the reason is latched in a step of its own
Trip(s, r) == Goto(s, "latch") /\ trip' = [trip EXCEPT ![s] = r]

\* A guard passes
Pass(s, l) == Goto(s, l) /\ UNCHANGED trip

\* Faulty variant: check does not look at the latch first
CheckIgnoresLatch(s) ==
    /\ pc[s] = "idle" /\ open[s] = 0 /\ op # "day" /\ sent < MaxOrders
    /\ sent' = sent + 1
    /\ want' \in {[want EXCEPT ![s] = q] : q \in Intents}
    /\ Goto(s, "rate")
    /\ UNCHANGED <<latch, totals, tokens, gaps, seen, trip, open, others, calls, late>>

\* A latched breaker blocks at once, which changes nothing.  No sender asks while the operator is
\* busy with the session boundary
Check(s) ==
    /\ pc[s] = "idle" /\ open[s] = 0 /\ op # "day" /\ sent < MaxOrders
    /\ reason = None
    /\ sent' = sent + 1
    /\ want' \in {[want EXCEPT ![s] = q] : q \in Intents}
    /\ Goto(s, "rate")
    /\ UNCHANGED <<latch, totals, tokens, gaps, seen, trip, open, others, calls, late>>

\* Faulty variant: the bucket is refilled beyond its capacity
RateGuardUncapped(s) ==
    /\ pc[s] = "rate"
    /\ \E refill \in 0..Burst :
          IF "rate" \notin guards
          THEN refill = 0 /\ UNCHANGED tokens /\ Pass(s, "position")
          ELSE IF tokens + refill >= 1
          THEN tokens' = tokens + refill - 1 /\ Pass(s, "position")
          ELSE tokens' = tokens + refill /\ Trip(s, "RateLimit")
    /\ UNCHANGED <<latch, totals, gaps, want, seen, open, others, sent, calls, late>>

\* Guard 1, TokenBucket::try_take: any time may have passed since the last call
RateGuard(s) ==
    /\ pc[s] = "rate"
    /\ \E refill \in 0..(Burst - tokens) :
          IF "rate" \notin guards
          THEN refill = 0 /\ UNCHANGED tokens /\ Pass(s, "position")
          ELSE IF tokens + refill >= 1
          THEN tokens' = tokens + refill - 1 /\ Pass(s, "position")
          ELSE tokens' = tokens + refill /\ Trip(s, "RateLimit")
    /\ UNCHANGED <<latch, totals, gaps, want, seen, open, others, sent, calls, late>>

\* Faulty variant: the guard looks at the position without the new order
PositionGuardCurrent(s) ==
    /\ pc[s] = "position"
    /\ IF "position" \in guards /\ Abs(position) > MaxPosition
       THEN Trip(s, "PositionCap") ELSE Pass(s, "loss")
    /\ UNCHANGED <<latch, totals, tokens, gaps, want, seen, open, others, sent, calls, late>>

\* Guard 2: the position as if this order were filled
PositionGuard(s) ==
    /\ pc[s] = "position"
    /\ IF "position" \in guards /\ Abs(position + want[s]) > MaxPosition
       THEN Trip(s, "PositionCap") ELSE Pass(s, "loss")
    /\ UNCHANGED <<latch, totals, tokens, gaps, want, seen, open, others, sent, calls, late>>

\* Faulty variant: the floor is compared with the wrong sign
LossGuardSign(s) ==
    /\ pc[s] = "loss"
    /\ IF "loss" \in guards /\ cash > MaxDailyLoss
       THEN Trip(s, "DailyLossFloor") ELSE Pass(s, "orders")
    /\ UNCHANGED <<latch, totals, tokens, gaps, want, seen, open, others, sent, calls, late>>

\* Guard 3
LossGuard(s) ==
    /\ pc[s] = "loss"
    /\ IF "loss" \in guards /\ cash < -MaxDailyLoss
       THEN Trip(s, "DailyLossFloor") ELSE Pass(s, "orders")
    /\ UNCHANGED <<latch, totals, tokens, gaps, want, seen, open, others, sent, calls, late>>

\* Guard 4 reads orders_sent ...
OrdersRead(s) ==
    /\ pc[s] = "orders"
    /\ seen' = [seen EXCEPT ![s] = orders_sent]
    /\ Pass(s, IF "ratio" \in guards /\ orders_sent >= OtrWarmup THEN "trades" ELSE "count")
    /\ UNCHANGED <<latch, totals, tokens, gaps, want, open, others, sent, calls, late>>

\* Faulty variant: a session without a trade has no ratio
RatioGuardNoTrades(s) ==
    /\ pc[s] = "trades"
    /\ IF trades_done > 0 /\ seen[s] > MaxOrderToTrade * trades_done
       THEN Trip(s, "OrderToTradeRatio") ELSE Pass(s, "count")
    /\ UNCHANGED <<latch, totals, tokens, gaps, want, seen, open, others, sent, calls, late>>

\* ... and then trades_done, which may have grown since
RatioGuard(s) ==
    /\ pc[s] = "trades"
    /\ IF seen[s] > MaxOrderToTrade * Max({1, trades_done})
       THEN Trip(s, "OrderToTradeRatio") ELSE Pass(s, "count")
    /\ UNCHANGED <<latch, totals, tokens, gaps, want, seen, open, others, sent, calls, late>>

\* The order is counted, allowed, and goes to the venue
Allow(s) ==
    /\ pc[s] = "count"
    /\ orders_sent' = orders_sent + 1
    /\ open' = [open EXCEPT ![s] = want[s]]
    /\ want' = [want EXCEPT ![s] = 0] /\ seen' = [seen EXCEPT ![s] = 0]
    /\ late' = [late EXCEPT ![s] = IF reason = None THEN @ ELSE @ + 1]
    /\ Pass(s, "idle")
    /\ UNCHANGED <<latch, trades_done, cash, position, tokens, gaps, others, sent, calls>>

\* CircuitBreaker::latch: the first reason stays.  halted is stored while
\* the lock on reason is held
Latch(r) ==
    /\ reason' = IF reason = None THEN r ELSE reason
    /\ halted' = IF reason = None THEN TRUE ELSE halted

Block(s) ==
    /\ pc[s] = "latch"
    /\ Latch(trip[s])
    /\ Goto(s, "idle") /\ trip' = [trip EXCEPT ![s] = None]
    /\ want' = [want EXCEPT ![s] = 0] /\ seen' = [seen EXCEPT ![s] = 0]
    /\ UNCHANGED <<totals, tokens, gaps, open, others, sent, calls, late>>

----------------------------------------------------------------------------
(* The venue and record_fill *)

\* The venue fills an order, or a part of it, and the report reaches
\* record_fill, which counts the trade first
FillTrade ==
    /\ fill = NoFill
    /\ \E s \in Senders : \E q \in PartOf(open[s]) :
          /\ open[s] # 0
          /\ open' = [open EXCEPT ![s] = @ - q]
          /\ fill' = [stage |-> "position", qty |-> q]
    /\ trades_done' = trades_done + 1
    /\ UNCHANGED <<latch, orders_sent, cash, position, tokens, gaps, pc, want, seen,
                   trip, op, gapper, snap, sent, calls, late>>

\* then updates the position
FillPosition ==
    /\ fill.stage = "position"
    /\ position' = position + fill.qty
    /\ fill' = [fill EXCEPT !.stage = "cash"]
    /\ UNCHANGED <<latch, orders_sent, trades_done, cash, tokens, gaps, checking,
                   op, gapper, snap, sent, calls, late>>

\* and the cash flow: a buy pays, a sell earns
FillCash ==
    /\ fill.stage = "cash"
    /\ \E price \in Prices : cash' = cash - fill.qty * price
    /\ fill' = NoFill
    /\ UNCHANGED <<latch, orders_sent, trades_done, position, tokens, gaps, checking,
                   op, gapper, snap, sent, calls, late>>

\* The venue cancels or rejects what is left of an order
OrderDies ==
    /\ \E s \in Senders : open[s] # 0 /\ open' = [open EXCEPT ![s] = 0]
    /\ UNCHANGED <<latch, totals, tokens, gaps, pc, want, seen, trip, others,
                   sent, calls, late>>

----------------------------------------------------------------------------
(* Feed gaps *)

\* CircuitBreaker::record_gap: any of the older entries may have left the window
RecordGap ==
    /\ "gap" \in guards /\ gapper = "idle"
    /\ \E kept \in 0..gaps : kept < MaxGaps /\ gaps' = kept + 1
    /\ gapper' = IF gaps' >= GapThreshold THEN "latch" ELSE "idle"
    /\ UNCHANGED <<latch, totals, tokens, checking, fill, op, snap, sent, calls, late>>

\* The lock on gap_log is dropped before the breaker is latched
GapLatch ==
    /\ gapper = "latch"
    /\ Latch("FeedGap")
    /\ gapper' = "idle"
    /\ UNCHANGED <<totals, tokens, gaps, checking, fill, op, snap, sent, calls, late>>

----------------------------------------------------------------------------
(* The operator *)

\* CircuitBreaker::manual_halt, from the operator or a supervisor
ManualHalt ==
    /\ calls < MaxInterventions /\ calls' = calls + 1
    /\ Latch("Manual")
    /\ UNCHANGED <<totals, tokens, gaps, checking, others, sent, late>>

\* The first statement of CircuitBreaker::reset.  A snapshot that is being
\* taken overlaps it from here on
ClearReason ==
    /\ reason' = None
    /\ op' = "clear"
    /\ late' = [s \in Senders |-> 0]
    /\ snap' = [snap EXCEPT !.reset = snap.open]

Reset ==
    /\ op = "idle" /\ calls < MaxInterventions /\ calls' = calls + 1
    /\ ClearReason
    /\ UNCHANGED <<halted, totals, tokens, gaps, checking, fill, gapper, sent>>

\* Faulty variant: reset leaves the flag
ResetFlagForgotten ==
    /\ op = "clear"
    /\ op' = "idle"
    /\ UNCHANGED <<latch, totals, tokens, gaps, checking, fill, gapper, snap,
                   sent, calls, late>>

\* The second statement of reset; a breaker latched in between keeps its
\* reason and loses its flag
ResetFlag ==
    /\ op = "clear"
    /\ halted' = FALSE
    /\ op' = "idle"
    /\ UNCHANGED <<reason, totals, tokens, gaps, checking, fill, gapper, snap,
                   sent, calls, late>>

\* CircuitBreaker::start_of_day, called at a session boundary, when nothing
\* is being checked, in flight or being recorded
StartOfDay ==
    /\ op = "idle" /\ calls < MaxInterventions /\ calls' = calls + 1
    /\ \A s \in Senders : pc[s] = "idle" /\ open[s] = 0
    /\ fill = NoFill
    /\ orders_sent' = 0 /\ trades_done' = 0 /\ cash' = 0 /\ position' = 0 /\ gaps' = 0
    /\ op' = "day"
    /\ UNCHANGED <<latch, tokens, checking, fill, gapper, snap, sent, late>>

\* start_of_day ends with a reset
DayReset ==
    /\ op = "day"
    /\ ClearReason
    /\ UNCHANGED <<halted, totals, tokens, gaps, checking, fill, gapper, sent, calls>>

----------------------------------------------------------------------------
(* CircuitBreaker::snapshot.  The counters it copies change nothing *)

\* The accumulators are read, the gap log is pruned, is_halted is called
SnapHalted ==
    /\ snap = NoSnap
    /\ gaps' \in 0..gaps
    /\ snap' = [open |-> TRUE, halted |-> halted, reset |-> op = "clear"]
    /\ UNCHANGED <<latch, totals, tokens, checking, fill, op, gapper, sent, calls, late>>

\* halt_reason is called and the snapshot is returned
SnapReason ==
    /\ snap.open
    /\ snap' = NoSnap
    /\ UNCHANGED <<latch, totals, tokens, gaps, checking, fill, op, gapper, sent, calls, late>>

BreakerStep ==
    \/ \E s \in Senders :
          \/ Check(s) \/ RateGuard(s) \/ PositionGuard(s) \/ LossGuard(s)
          \/ OrdersRead(s) \/ RatioGuard(s) \/ Allow(s) \/ Block(s)
    \/ FillTrade \/ FillPosition \/ FillCash \/ OrderDies
    \/ RecordGap \/ GapLatch
    \/ ManualHalt \/ Reset \/ ResetFlag \/ StartOfDay \/ DayReset
    \/ SnapHalted \/ SnapReason

\* The configuration is fixed when the breaker is built
BreakerNext == BreakerStep /\ UNCHANGED guards

BreakerSpec == BreakerInit /\ [][BreakerNext]_vars

----------------------------------------------------------------------------
(* Properties *)

\* Type invariant
BreakerTypeOK ==
    /\ halted \in BOOLEAN /\ reason \in Reasons \cup {None}
    /\ orders_sent \in Nat /\ trades_done \in Nat /\ cash \in Int /\ position \in Int
    /\ tokens \in 0..Burst /\ gaps \in 0..MaxGaps
    /\ \A s \in Senders :
          /\ pc[s] \in Stages /\ want[s] \in Intents \cup {0} /\ seen[s] \in Nat
          /\ trip[s] \in Reasons \cup {None} /\ (trip[s] # None <=> pc[s] = "latch")
          /\ open[s] \in Int /\ late[s] \in Nat
    /\ fill.stage \in {"none", "position", "cash"}
    /\ op \in {"idle", "clear", "day"} /\ gapper \in {"idle", "latch"}
    /\ snap \in [open : BOOLEAN, halted : BOOLEAN, reset : BOOLEAN]

LargestIntent == Largest({Abs(q) : q \in Intents})

\* Stages of check behind the position guard and behind the loss guard
PastPosition == {"loss", "orders", "trades", "count"}
PastLoss == {"orders", "trades", "count"}

\* What sender s may still add: its order at the venue, or the one that has
\* passed the guard; and the fill that is not recorded yet
Pending(s, past) == IF pc[s] \in past THEN want[s] ELSE open[s]
Recording(stages) == IF fill.stage \in stages THEN fill.qty ELSE 0

Buys(stages, past)  == Largest({Recording(stages)})
                       + SumFunctionOnSet([s \in Senders |-> Largest({Pending(s, past)})], Senders)
Sells(stages, past) == Largest({-Recording(stages)})
                       + SumFunctionOnSet([s \in Senders |-> Largest({-Pending(s, past)})], Senders)

\* check reserves nothing, so orders in flight together, and a fill that is
\* not recorded yet, can carry the position beyond the cap; but even if all
\* of them fill, never by more than one largest order for each sender
ExposureBounded ==
    LET limit == MaxPosition + Cardinality(Senders) * LargestIntent
    IN  "position" \in guards =>
        /\ position + Buys({"position"}, PastPosition) <= limit
        /\ -position + Sells({"position"}, PastPosition) <= limit

\* The daily-loss floor is exceeded by no more than what the senders and the
\* report being recorded can spend on one order each
LossBounded ==
    "loss" \in guards =>
    cash - Largest(Prices) * Buys({"position", "cash"}, PastLoss)
        >= -MaxDailyLoss - Largest(Prices) * LargestIntent * (Cardinality(Senders) + 1)

\* The ratio guard reads two counters and increments later: between them the
\* other senders can slip through, one order each, never more
RatioBounded ==
    "ratio" \in guards =>
    orders_sent + Cardinality({s \in Senders : pc[s] = "count"})
        <= Max({OtrWarmup, MaxOrderToTrade * Max({1, trades_done}) + 1})
           + Cardinality(Senders) - 1

\* "Once any guard trips the breaker latches": a sender whose check was under
\* way when the breaker latched may still be allowed, once; no check that
\* starts later is, until a reset
LateAllowOnce == \A s \in Senders : late[s] <= 1

\* A snapshot that no reset overlaps and that shows a halt shows its reason
HaltExplained == [][snap.open /\ ~snap'.open /\ snap.halted /\ ~snap.reset => reason # None]_vars

\* circuit_breaker.rs: how far concurrent orders can carry the totals beyond
\* the limits that check compares them with: one order for each sender
OvershootBounded == BreakerTypeOK /\ ExposureBounded /\ LossBounded /\ RatioBounded

=============================================================================
