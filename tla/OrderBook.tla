------------------------------ MODULE OrderBook ------------------------------
(***************************************************************************)
(* The reference order book of core/src/orderbook.rs: two BTreeMaps of     *)
(* price levels (an aggregated quantity and an order count per price) and  *)
(* a HashMap of resting orders, changed by one canonical event at a time.  *)
(*                                                                         *)
(* A map is a total function here.  An order that is not in the HashMap is *)
(* NoOrder, a level that is not in the BTreeMap is EmptyLevel: the code    *)
(* creates a level with count 1 and removes it when the count returns to   *)
(* 0, so a level is present exactly when its order_count is positive.      *)
(* Quantities are u64 in the code; the sums stay far below 2^64 for the    *)
(* u32 share counts an ITCH message can carry, so no wrap is modelled.     *)
(***************************************************************************)
EXTENDS ItchEvents, FiniteSetsExt

CONSTANT NoOrder   \* a reference that is not in the orders map

VARIABLE book   \* the OrderBook struct: levels (bids and asks) and orders

Order == [side : Sides, price : Prices, qty : Nat]

ASSUME NoOrderAssumption == NoOrder \notin Order

Level == [total_qty : Nat, order_count : Nat]

EmptyLevel == [total_qty |-> 0, order_count |-> 0]

Grid == Sides \X Prices

Book == [levels : [Grid -> Level], orders : [OrderIds -> Order \cup {NoOrder}]]

NewBook ==
    [levels |-> [l \in Grid |-> EmptyLevel],
     orders |-> [o \in OrderIds |-> NoOrder]]

-----------------------------------------------------------------------------
(* Helpers.                                                                *)

Live(b) == {o \in OrderIds : b.orders[o] # NoOrder}

OrdersAt(b, l) ==
    {o \in Live(b) : <<b.orders[o].side, b.orders[o].price>> = l}

(* The quantity of each resting order.                                     *)
Qtys(b) == [o \in Live(b) |-> b.orders[o].qty]

(* Faulty variant: the count only drops with the last share of the level.  *)
DeductLevelByQty(lv, qty, release) ==
    LET left == SatSub(lv.total_qty, qty)
    IN  IF left = 0 THEN EmptyLevel
        ELSE [total_qty |-> left, order_count |-> lv.order_count]

(* What a cancel or a trade does to the level its order rests at: deduct   *)
(* the quantity and, when the order itself leaves, its place in the count; *)
(* a level whose count reaches 0 is removed from the map.                  *)
DeductLevel(lv, qty, release) ==
    LET count == IF release THEN SatSub(lv.order_count, 1) ELSE lv.order_count
    IN  IF release /\ count = 0
        THEN EmptyLevel
        ELSE [total_qty |-> SatSub(lv.total_qty, qty), order_count |-> count]

-----------------------------------------------------------------------------
(* The four operations, each the whole method.                             *)

(* add_order: an unknown side is refused; otherwise the level is created   *)
(* or grown and the order stored, replacing an order of the same id.       *)
AddOrder(b, e) ==
    IF e.side = BadSide THEN b
    ELSE LET l == <<e.side, e.price>>
         IN  [levels |->
                [b.levels EXCEPT ![l] =
                    [total_qty |-> @.total_qty + e.qty,
                     order_count |-> @.order_count + 1]],
              orders |->
                [b.orders EXCEPT ![e.order_id] =
                    [side |-> e.side, price |-> e.price, qty |-> e.qty]]]

(* cancel_order: quantity 0 (ITCH D) or at least the resting quantity      *)
(* deletes the order; a smaller one (ITCH X) leaves a residual.            *)
CancelOrder(b, e) ==
    IF b.orders[e.order_id] = NoOrder THEN b
    ELSE LET o == b.orders[e.order_id]
             full == e.qty = 0 \/ e.qty >= o.qty
             deduct == IF full THEN o.qty ELSE e.qty
         IN  [levels |->
                [b.levels EXCEPT ![<<o.side, o.price>>] =
                    DeductLevel(@, deduct, full)],
              orders |->
                [b.orders EXCEPT ![e.order_id] =
                    IF full THEN NoOrder ELSE [o EXCEPT !.qty = @ - e.qty]]]

(* modify_order: cancel_order and then add_order, both with the event.     *)
ModifyOrder(b, e) == AddOrder(CancelOrder(b, e), e)

(* Faulty variant: an over-fill takes its full quantity from the level.    *)
ExecuteTradeUnclamped(b, e) ==
    IF b.orders[e.order_id] = NoOrder THEN b
    ELSE LET o == b.orders[e.order_id]
             left == SatSub(o.qty, e.qty)
         IN  [levels |->
                [b.levels EXCEPT ![<<o.side, o.price>>] =
                    DeductLevel(@, e.qty, left = 0)],
              orders |->
                [b.orders EXCEPT ![e.order_id] =
                    IF left = 0 THEN NoOrder ELSE [o EXCEPT !.qty = left]]]

(* execute_trade: an over-fill is clamped to the resting quantity.         *)
ExecuteTrade(b, e) ==
    IF b.orders[e.order_id] = NoOrder THEN b
    ELSE LET o == b.orders[e.order_id]
             left == SatSub(o.qty, e.qty)
         IN  [levels |->
                [b.levels EXCEPT ![<<o.side, o.price>>] =
                    DeductLevel(@, Least(e.qty, o.qty), left = 0)],
              orders |->
                [b.orders EXCEPT ![e.order_id] =
                    IF left = 0 THEN NoOrder ELSE [o EXCEPT !.qty = left]]]

(* apply: dispatch on the event type; a BookSnapshot changes nothing.      *)
Apply(b, e) ==
    CASE e.type = "OrderAdd"     -> AddOrder(b, e)
      [] e.type = "OrderCancel"  -> CancelOrder(b, e)
      [] e.type = "OrderModify"  -> ModifyOrder(b, e)
      [] e.type = "Trade"        -> ExecuteTrade(b, e)
      [] e.type = "BookSnapshot" -> b

-----------------------------------------------------------------------------
(* The keys of one side's BTreeMap.                                        *)
PricesOn(b, side) == {p \in Prices : b.levels[<<side, p>>].order_count > 0}

-----------------------------------------------------------------------------
(* Behaviour.  The feed is what the exchange can send: it never reuses    *)
(* the reference of a live order and never posts an order of 0 shares, but *)
(* a delete, cancel, execution or trade may name an order this book never  *)
(* saw or has already lost.  U yields no event, so it leaves the book as   *)
(* it is.                                                                  *)

Init == book = NewBook

Step(e) == book' = Apply(book, e)

Conformant(b, m) == m.kind \in {"A", "F"} => b.orders[m.ref] = NoOrder

Feed(kinds) ==
    \E m \in ItchMessage :
        /\ m.kind \in kinds
        /\ Conformant(book, m)
        /\ Step(Dispatch(m))

OrderAdded == Feed({"A"})
OrderDeleted == Feed({"D"})
OrderCancelled == Feed({"X"})
OrderExecuted == Feed({"E", "C"})
NonCrossTrade == Feed({"P"})

(* Events no ITCH message yields, but other producers (the generators of   *)
(* tests/chaos and tests/fuzz) feed through the same apply.  A modify may  *)
(* name an order that is gone; the two actions separate the modifies that  *)
(* keep or grow the resting quantity from those that reduce it.            *)
Modified(reduces) ==
    \E id \in OrderIds, side \in Sides, price \in Prices, qty \in 1..MaxQty :
        /\ reduces <=> (id \in Live(book) /\ qty < book.orders[id].qty)
        /\ Step(MkEvent("OrderModify", id, side, price, qty))

OrderModified == Modified(FALSE)
OrderReduced == Modified(TRUE)

RejectedEvent ==
    \E id \in OrderIds, price \in Prices, qty \in 1..MaxQty,
       type \in {"OrderAdd", "BookSnapshot"} :
        Step(MkEvent(type, id, BadSide, price, qty))

Next ==
    \/ OrderAdded
    \/ OrderDeleted
    \/ OrderCancelled
    \/ OrderExecuted
    \/ NonCrossTrade
    \/ OrderModified
    \/ RejectedEvent

(* Every event but a reducing modify.                                      *)
Spec == Init /\ [][Next]_book

(* Every event.                                                            *)
FullSpec == Init /\ [][Next \/ OrderReduced]_book

-----------------------------------------------------------------------------
(* Properties.                                                             *)

(* Type invariant: the maps hold orders and levels, and no order of 0      *)
(* shares stays in the book.                                               *)
TypeOK ==
    /\ book \in Book
    /\ \A o \in Live(book) : book.orders[o].qty > 0

(* The order_count of every level is the number of orders resting there:   *)
(* add_order, cancel_order and execute_trade keep the level maps and the   *)
(* orders map in step, so no level outlives its last order (a ghost best   *)
(* price) and none is removed under a resting order.                       *)
CountsMatchOrders ==
    \A l \in Grid :
        book.levels[l].order_count = Cardinality(OrdersAt(book, l))

(* The total_qty of every level is the sum of the quantities resting       *)
(* there, through partial cancels, partial fills and over-fills; it is     *)
(* what canonical_l2_hash publishes.                                       *)
QtysMatchOrders ==
    \A l \in Grid :
        book.levels[l].total_qty = SumFunctionOnSet(Qtys(book), OrdersAt(book, l))

=============================================================================
