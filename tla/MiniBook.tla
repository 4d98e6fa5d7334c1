------------------------------ MODULE MiniBook ------------------------------
(***************************************************************************)
(* What the chaos detectors share (chaos/src): the sequenced events they   *)
(* read, the flags they return, the OrderTracker that resolves an event to *)
(* a level (order_tracker.rs), and the two-sided mini-book of aggregated   *)
(* quantities that three of them keep (momentum_ignition.rs, with copies   *)
(* in flash_crash.rs and latency_arb_proxy.rs).                            *)
(*                                                                         *)
(* A HashMap or BTreeMap is a function whose domain is its key set.  An    *)
(* Option is a sequence of length at most one.  Severities are floating-   *)
(* point scores that nothing in the chain reads, and are left out.         *)
(***************************************************************************)
EXTENDS Integers, Sequences, FiniteSets, SequencesExt

Sides == {"Bid", "Ask"}

None == <<>>
Some(x) == <<x>>
IsSome(o) == o # <<>>

EmptyMap == [x \in {} |-> 0]
With(f, k, v) == [x \in DOMAIN f \cup {k} |-> IF x = k THEN v ELSE f[x]]
Without(f, k) == [x \in DOMAIN f \ {k} |-> f[x]]

(* Vec::retain: the entries of s at the positions idx, in their order.     *)
Retain(s, idx) ==
    [k \in 1..Cardinality(idx) |->
        s[CHOOSE i \in idx : Cardinality({j \in idx : j <= i}) = k]]

(* u64::saturating_sub.                                                    *)
SatSub(a, b) == IF a > b THEN a - b ELSE 0

(* An order id of 0 means that the event names no order.                   *)
SequencedEvent(seq, ts, type, side, price, qty, oid) ==
    [seq |-> seq, ts |-> ts, type |-> type, side |-> side, price |-> price,
     qty |-> qty, order_id |-> oid]

(* ChaosEvent: the flag that a detector returns.                           *)
ChaosFlag(kind, start_seq, start_ts, e, initiator) ==
    [kind |-> kind, start_seq |-> start_seq, end_seq |-> e.seq,
     start_ts |-> start_ts, end_ts |-> e.ts, initiator |-> initiator]

(* Faulty variant: the refractory ends one event early.                    *)
InRefractoryEarly(d, e) == e.seq + 1 < d.refractory_until

(* A detector d stays quiet until refractory_until is reached.             *)
InRefractory(d, e) == e.seq < d.refractory_until

-----------------------------------------------------------------------------
(* OrderTracker: each operation returns the new map and the book update it *)
(* resolved, if any.                                                       *)

AnonymousUpdate(e) ==
    IF e.side \in Sides
    THEN Some([side |-> e.side, price |-> e.price, qty |-> e.qty])
    ELSE None

AggressorFromRestingSide(side) == IF side = "Bid" THEN "Sell" ELSE "Buy"

ResolvedQty(known, qty) == IF qty = 0 \/ qty >= known THEN known ELSE qty

OnAdd(orders, e) ==
    [orders |-> IF e.side \in Sides /\ e.order_id # 0
                THEN With(orders, e.order_id, AnonymousUpdate(e)[1])
                ELSE orders,
     update |-> AnonymousUpdate(e)]

(* What a cancel or a fill of a known order takes off it: the order leaves *)
(* the map with its last share.                                            *)
TakeFrom(orders, e, price) ==
    LET meta == orders[e.order_id]
        qty == ResolvedQty(meta.qty, e.qty)
    IN  [orders |-> IF qty >= meta.qty THEN Without(orders, e.order_id)
                    ELSE [orders EXCEPT ![e.order_id].qty = @ - qty],
         update |-> Some([side |-> meta.side, price |-> price, qty |-> qty])]

(* An order the tracker does not know is taken at the event's own level,   *)
(* unless the event carries no price.                                      *)
Unknown(orders, e) ==
    [orders |-> orders,
     update |-> IF e.order_id # 0 /\ e.price = 0 THEN None ELSE AnonymousUpdate(e)]

OnCancel(orders, e) ==
    IF e.order_id \in DOMAIN orders
    THEN TakeFrom(orders, e, orders[e.order_id].price)
    ELSE Unknown(orders, e)

OnTrade(orders, e) ==
    IF e.order_id \in DOMAIN orders
    THEN TakeFrom(orders, e, IF e.price # 0 THEN e.price ELSE orders[e.order_id].price)
    ELSE Unknown(orders, e)

-----------------------------------------------------------------------------
(* The mini-book: per side, the aggregated quantity of each price.         *)

EmptyBook == [s \in Sides |-> EmptyMap]

(* The level farthest from the best: the lowest bid, the highest ask.      *)
Farthest(side, levels) ==
    IF side = "Bid" THEN Min(DOMAIN levels) ELSE Max(DOMAIN levels)

(* prune_levels.  One add creates at most one level, so the loop evicts at *)
(* most one.                                                               *)
PruneLevels(levels, side, cap) ==
    IF Cardinality(DOMAIN levels) > cap
    THEN Without(levels, Farthest(side, levels))
    ELSE levels

Held(levels, price) == IF price \in DOMAIN levels THEN levels[price] ELSE 0

AddQty(book, u, cap) ==
    [book EXCEPT ![u.side] =
        PruneLevels(With(@, u.price, Held(@, u.price) + u.qty), u.side, cap)]

(* How much sub_qty takes off the level: all of it for a quantity of 0.    *)
Taken(book, u) ==
    LET held == Held(book[u.side], u.price)
    IN  IF u.qty = 0 \/ u.qty > held THEN held ELSE u.qty

(* A level leaves its side with its last share.                            *)
Reduced(levels, price, qty) ==
    IF qty = levels[price] THEN Without(levels, price) ELSE [levels EXCEPT ![price] = @ - qty]

SubQty(book, u) ==
    IF u.price \notin DOMAIN book[u.side] THEN book
    ELSE [book EXCEPT ![u.side] = Reduced(@, u.price, Taken(book, u))]

BestBid(book) ==
    IF book["Bid"] = EmptyMap THEN None ELSE Some(Max(DOMAIN book["Bid"]))

BestAsk(book) ==
    IF book["Ask"] = EmptyMap THEN None ELSE Some(Min(DOMAIN book["Ask"]))

(* midprice: none while a side is empty or the book is crossed.            *)
Mid(bid, ask) ==
    IF IsSome(bid) /\ IsSome(ask) /\ ask[1] >= bid[1]
    THEN Some((ask[1] + bid[1]) \div 2)
    ELSE None

BpsMove(from, to) ==
    IF from = 0 THEN 0
    ELSE ((IF to >= from THEN to - from ELSE from - to) * 10000) \div from

(* The order and book half of process, the same in every detector that     *)
(* keeps a book: the resolved update is returned, with the aggressor of a  *)
(* trade.                                                                  *)
Resolve(orders, e) ==
    CASE e.type = "OrderAdd" -> OnAdd(orders, e)
      [] e.type = "OrderCancel" -> OnCancel(orders, e)
      [] e.type = "Trade" -> OnTrade(orders, e)
      [] OTHER -> [orders |-> orders, update |-> None]

ApplyTo(book, e, update, cap) ==
    IF ~IsSome(update) THEN book
    ELSE IF e.type = "OrderAdd" THEN AddQty(book, update[1], cap)
    ELSE SubQty(book, update[1])

(* The aggressor of a resolved trade, and none for any other event.        *)
Aggressor(e, update) ==
    IF e.type = "Trade" /\ IsSome(update)
    THEN Some(AggressorFromRestingSide(update[1].side))
    ELSE None

=============================================================================
