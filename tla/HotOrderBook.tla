---------------------------- MODULE HotOrderBook ----------------------------
(***************************************************************************)
(* HotOrderBook of core/src/hot_book.rs: the production book.  Each side   *)
(* is an array of at most MAX_LEVELS price levels, best price first, found *)
(* by binary search; orders live in an OrderSlab.  Order id 0 is anonymous *)
(* and never enters the slab.                                              *)
(*                                                                         *)
(* hot.grid[side] is the used prefix of bids or asks (its length is        *)
(* bid_count or ask_count; the code zeroes the slots behind it).           *)
(***************************************************************************)
EXTENDS ItchEvents, Sequences, SequencesExt

CONSTANTS
    MAX_LEVELS,   \* capacity of one side (256 in production)
    AnonId,       \* order reference 0
    NoOrder       \* an id that is not in the slab

ASSUME MaxLevelsAssumption == MAX_LEVELS \in Nat \ {0}

VARIABLE hot      \* [grid, slab]

Order == [side : Sides, price : Prices, qty : Nat]

ASSUME NoOrderIsNone == NoOrder \notin Order

HotLevel == [price : Prices, total_qty : Nat, order_count : Nat]

Slab == INSTANCE OrderSlab
            WITH Ids <- OrderIds \ {AnonId}, Meta <- Order, NoMeta <- NoOrder,
                 slab <- hot.slab

NewHotBook ==
    [grid |-> [side \in Sides |-> <<>>], slab |-> Slab!NewSlab]

(* The order an id names; NoOrder for 0 and for ids not in the slab.       *)
OrderOf(h, id) == IF id = AnonId THEN NoOrder ELSE Slab!SlabGet(h.slab, id)

(* is_bid == (side byte == Bid): every other byte counts as an ask.        *)
SideOf(side) == IF side = "Bid" THEN "Bid" ELSE "Ask"

-----------------------------------------------------------------------------
(* The price grid.                                                         *)

Before(side, p, q) == IF side = "Bid" THEN p > q ELSE p < q

(* partition_point on a sorted side: the first position, counting from 1,  *)
(* whose level is not strictly better than price.                          *)
PartitionPoint(levels, side, price) ==
    1 + Cardinality({i \in DOMAIN levels : Before(side, levels[i].price, price)})

(* find_level: the position of the level at price, 0 if there is none.     *)
FindLevel(levels, side, price) ==
    LET pos == PartitionPoint(levels, side, price)
    IN  IF pos <= Len(levels) /\ levels[pos].price = price THEN pos ELSE 0

(* Faulty variant: a new level always goes to the end of the array.        *)
OpenLevelAtEnd(levels, pos, price, qty) ==
    Append(levels, [price |-> price, total_qty |-> qty, order_count |-> 1])

(* The memmove of add_order and the new level written in the gap.          *)
OpenLevel(levels, pos, price, qty) ==
    InsertAt(levels, pos, [price |-> price, total_qty |-> qty, order_count |-> 1])

(* The level of add_order: grown where there is one at price, opened where *)
(* there is none.                                                          *)
GrowLevel(levels, side, price, qty) ==
    LET pos == PartitionPoint(levels, side, price)
    IN  IF FindLevel(levels, side, price) # 0
        THEN [levels EXCEPT ![pos] =
                [price |-> @.price, total_qty |-> @.total_qty + qty,
                 order_count |-> @.order_count + 1]]
        ELSE OpenLevel(levels, pos, price, qty)

(* Deduct qty from level pos; when the order leaves, take it out of the    *)
(* count and remove_level (memmove left) the level once the count is 0.    *)
DeductAt(levels, pos, qty, release) ==
    LET lv == levels[pos]
        count == IF release THEN SatSub(lv.order_count, 1) ELSE lv.order_count
    IN  IF release /\ count = 0
        THEN RemoveAt(levels, pos)
        ELSE [levels EXCEPT ![pos] =
                [price |-> lv.price, total_qty |-> SatSub(lv.total_qty, qty),
                 order_count |-> count]]

(* Deduct at a price, if the side has a level there.                       *)
DeductPrice(grid, side, price, qty, release) ==
    LET pos == FindLevel(grid[side], side, price)
    IN  IF pos = 0 THEN grid
        ELSE [grid EXCEPT ![side] = DeductAt(@, pos, qty, release)]

-----------------------------------------------------------------------------
(* Operations.                                                             *)

(* Faulty variant: the order is recorded even when its level did not fit.  *)
HotAddUnchecked(h, e) ==
    LET side == SideOf(e.side)
        levels == h.grid[side]
        exists == FindLevel(levels, side, e.price) # 0
        meta == [side |-> side, price |-> e.price, qty |-> e.qty]
    IN  [grid |->
            IF ~exists /\ Len(levels) >= MAX_LEVELS THEN h.grid
            ELSE [h.grid EXCEPT ![side] = GrowLevel(@, side, e.price, e.qty)],
         slab |->
            IF e.order_id = AnonId THEN h.slab
            ELSE Slab!SlabInsert(h.slab, e.order_id, meta)]

(* Faulty variant: the capacity test is off by one.                        *)
HotAddOffByOne(h, e) ==
    LET side == SideOf(e.side)
        levels == h.grid[side]
        exists == FindLevel(levels, side, e.price) # 0
        meta == [side |-> side, price |-> e.price, qty |-> e.qty]
    IN  IF ~exists /\ Len(levels) > MAX_LEVELS THEN h
        ELSE [grid |->
                [h.grid EXCEPT ![side] = GrowLevel(@, side, e.price, e.qty)],
              slab |->
                IF e.order_id = AnonId THEN h.slab
                ELSE Slab!SlabInsert(h.slab, e.order_id, meta)]

(* add_order: grow the level, or open one if the side has room; an order   *)
(* is recorded only when its level is there and it has an id.              *)
HotAdd(h, e) ==
    LET side == SideOf(e.side)
        levels == h.grid[side]
        exists == FindLevel(levels, side, e.price) # 0
        meta == [side |-> side, price |-> e.price, qty |-> e.qty]
    IN  IF ~exists /\ Len(levels) >= MAX_LEVELS THEN h
        ELSE [grid |->
                [h.grid EXCEPT ![side] = GrowLevel(@, side, e.price, e.qty)],
              slab |->
                IF e.order_id = AnonId THEN h.slab
                ELSE Slab!SlabInsert(h.slab, e.order_id, meta)]

(* Faulty variant: a partial cancel leaves the stored quantity as it was.  *)
HotCancelStale(h, e) ==
    LET o == OrderOf(h, e.order_id)
        full == e.qty = 0 \/ e.qty >= o.qty
    IN  IF o = NoOrder THEN h
        ELSE [grid |-> DeductPrice(h.grid, o.side, o.price,
                                   IF full THEN o.qty ELSE e.qty, full),
              slab |-> IF full THEN Slab!SlabRemove(h.slab, e.order_id) ELSE h.slab]

(* cancel_order: by stored order (full or partial) when the id is known,   *)
(* nothing when it is unknown, by the event's own fields when it is 0.     *)
HotCancel(h, e) ==
    LET o == OrderOf(h, e.order_id)
        full == e.qty = 0 \/ e.qty >= o.qty
    IN  CASE e.order_id = AnonId ->
                [h EXCEPT !.grid =
                    DeductPrice(@, SideOf(e.side), e.price, e.qty, TRUE)]
          [] e.order_id # AnonId /\ o = NoOrder -> h
          [] e.order_id # AnonId /\ o # NoOrder ->
                [grid |-> DeductPrice(h.grid, o.side, o.price,
                                      IF full THEN o.qty ELSE e.qty, full),
                 slab |->
                    IF full THEN Slab!SlabRemove(h.slab, e.order_id)
                    ELSE Slab!SlabUpdate(h.slab, e.order_id,
                                         [o EXCEPT !.qty = @ - e.qty])]

(* trade_anon: the order count only drops when the level's quantity does.  *)
HotTradeAnon(h, e) ==
    LET side == SideOf(e.side)
        pos == FindLevel(h.grid[side], side, e.price)
        left == SatSub(h.grid[side][pos].total_qty, e.qty)
    IN  IF pos = 0 THEN h
        ELSE [h EXCEPT !.grid[side] = DeductAt(@, pos, e.qty, left = 0)]

(* Faulty variant: an over-fill takes its full quantity from the level.    *)
HotTradeUnclamped(h, e) ==
    LET o == OrderOf(h, e.order_id)
        left == SatSub(o.qty, e.qty)
    IN  IF o = NoOrder THEN h
        ELSE [grid |-> DeductPrice(h.grid, o.side, o.price, e.qty, left = 0),
              slab |->
                IF left = 0 THEN Slab!SlabRemove(h.slab, e.order_id)
                ELSE Slab!SlabUpdate(h.slab, e.order_id, [o EXCEPT !.qty = left])]

(* trade and trade_full_fill: a fill is clamped to the resting quantity.   *)
HotTrade(h, e) ==
    LET o == OrderOf(h, e.order_id)
        fill == Least(e.qty, o.qty)
        left == o.qty - fill
    IN  CASE e.order_id = AnonId -> HotTradeAnon(h, e)
          [] e.order_id # AnonId /\ o = NoOrder -> h
          [] e.order_id # AnonId /\ o # NoOrder ->
                [grid |-> DeductPrice(h.grid, o.side, o.price, fill, left = 0),
                 slab |->
                    IF left = 0 THEN Slab!SlabRemove(h.slab, e.order_id)
                    ELSE Slab!SlabUpdate(h.slab, e.order_id,
                                         [o EXCEPT !.qty = left])]

(* apply: dispatch on the event type.                                      *)
HotApply(h, e) ==
    CASE e.type = "OrderAdd"     -> HotAdd(h, e)
      [] e.type = "OrderCancel"  -> HotCancel(h, e)
      [] e.type = "OrderModify"  -> HotAdd(HotCancel(h, e), e)
      [] e.type = "Trade"        -> HotTrade(h, e)
      [] e.type = "BookSnapshot" -> h

(* One lane: the events of the given types, in order.  Of a modify the add *)
(* lane applies the add half.                                              *)
ApplyLane(h, events, types) ==
    FoldLeft(LAMBDA g, e :
                CASE e.type \notin types -> g
                  [] e.type \in types /\ e.type = "OrderModify" -> HotAdd(g, e)
                  [] OTHER -> HotApply(g, e),
             h, events)

(* Faulty variant: the cancel lane runs first.                             *)
ApplyLanesCancelFirst(h, events) ==
    LET cancelled == ApplyLane(h, events, {"OrderCancel"})
        added == ApplyLane(cancelled, events, {"OrderAdd", "OrderModify"})
    IN  ApplyLane(added, events, {"Trade"})

(* apply_lanes: all adds, then all trades, then all cancels of the batch.  *)
ApplyLanes(h, events) ==
    LET added == ApplyLane(h, events, {"OrderAdd", "OrderModify"})
        traded == ApplyLane(added, events, {"Trade"})
    IN  ApplyLane(traded, events, {"OrderCancel"})

(* What canonical_l2_hash digests: the (price, total_qty) pairs in array   *)
(* order, bids then asks.                                                  *)
HotL2(h) ==
    [side \in Sides |->
        [i \in DOMAIN h.grid[side] |->
            <<h.grid[side][i].price, h.grid[side][i].total_qty>>]]

-----------------------------------------------------------------------------
(* Behaviour.  As for the reference book: references of live orders are    *)
(* not reused, and only a P (trade outside the book) carries reference 0.  *)

HotInit == hot = NewHotBook

HotConformant(h, m) ==
    /\ m.kind = "A" => OrderOf(h, m.ref) = NoOrder
    /\ m.ref = AnonId => m.kind = "P"

-----------------------------------------------------------------------------
(* Properties.                                                             *)

(* Type invariant, with the capacity of the arrays.                        *)
HotTypeOK ==
    /\ hot.grid \in [Sides -> Seq(HotLevel)]
    /\ \A side \in Sides : Len(hot.grid[side]) <= MAX_LEVELS
    /\ Slab!SlabTypeOK

(* Bids strictly descending, asks strictly ascending, best price first:    *)
(* what every binary search of add_order, cancel_order and trade relies on *)
(* and every insertion and removal must restore.                           *)
GridSorted ==
    \A side \in Sides : \A i, j \in DOMAIN hot.grid[side] :
        i < j => Before(side, hot.grid[side][i].price, hot.grid[side][j].price)

(* Every level is exactly the orders of the slab that rest there, even     *)
(* when adds are refused because the side is full: a refused order leaves  *)
(* no trace, and no order in the slab lacks its level.                     *)
GridMatchesSlab ==
    \A side \in Sides, price \in Prices :
        LET ids == {id \in OrderIds \ {AnonId} :
                        /\ OrderOf(hot, id) # NoOrder
                        /\ OrderOf(hot, id).side = side
                        /\ OrderOf(hot, id).price = price}
            pos == FindLevel(hot.grid[side], side, price)
        IN  IF ids = {} THEN pos = 0
            ELSE /\ pos # 0
                 /\ hot.grid[side][pos].order_count = Cardinality(ids)
                 /\ hot.grid[side][pos].total_qty =
                        SumFunctionOnSet([id \in ids |-> OrderOf(hot, id).qty], ids)

(* hot_book.rs: the sorted arrays, through every insertion, removal and    *)
(* refusal, are a well-formed, sorted and exact aggregate of the slab.     *)
GridSound == HotTypeOK /\ GridSorted /\ GridMatchesSlab

=============================================================================
