----------------------------- MODULE FlashCrash -----------------------------
(***************************************************************************)
(* The flash-crash detector of chaos/src/flash_crash.rs: a mini-book with  *)
(* its best prices and the depth around them cached and maintained         *)
(* incrementally, a short ring of snapshots taken before each event, and a *)
(* flag when the mid jumps away from a snapshot while the depth around it  *)
(* collapses.  A None price is 0: prices are positive.                     *)
(***************************************************************************)
EXTENDS MiniBook

CONSTANTS
    CrashMinGapBps, CrashGapWindow, CrashMaxLevels, CrashBandTicks,
    CrashDropPct,      \* depth_drop_pct, in percent
    CrashMinAggr, CrashCooldown

ASSUME CrashAssumption ==
    CrashMaxLevels \in Nat \ {0} /\ CrashBandTicks \in Nat /\ CrashCooldown \in Nat

VARIABLE crash

CrashInit ==
    crash = [book |-> EmptyBook, orders |-> EmptyMap, bb |-> None, ba |-> None,
             band_depth |-> 0, band_depth_valid |-> TRUE, snaps |-> <<>>,
             buy_aggr |-> 0, sell_aggr |-> 0, refractory_until |-> 0, flag |-> None]

-----------------------------------------------------------------------------
(* Depth in the band around an anchor pair of best prices.                 *)
DepthAround(book, bb, ba) ==
    LET bids == {p \in DOMAIN book["Bid"] : SatSub(bb, CrashBandTicks) <= p /\ p <= bb}
        asks == {p \in DOMAIN book["Ask"] : ba <= p /\ p <= ba + CrashBandTicks}
    IN  SumFunctionOnSet(book["Bid"], bids)
        + SumFunctionOnSet(book["Ask"], asks)

FreshBandDepth(d) ==
    IF IsSome(d.bb) /\ IsSome(d.ba) THEN DepthAround(d.book, d.bb[1], d.ba[1]) ELSE 0

(* depth_in_band: recompute the cached depth when it is not valid.         *)
RefreshBand(d) ==
    IF d.band_depth_valid THEN d
    ELSE [d EXCEPT !.band_depth = FreshBandDepth(d), !.band_depth_valid = TRUE]

(* push_snap: the ring keeps the last gap_window_events + 1 snapshots.     *)
PushSnap(snaps, s) ==
    LET all == Append(snaps, s)
    IN  IF Len(all) > CrashGapWindow + 1 THEN Tail(all) ELSE all

(* Step 1 of process: snapshot the top of the book before the event.       *)
SnapBefore(d, e) ==
    LET mid == Mid(d.bb, d.ba)
        r == RefreshBand(d)
    IN  IF ~IsSome(mid) THEN d
        ELSE [r EXCEPT !.snaps = PushSnap(@,
                [seq |-> e.seq, ts |-> e.ts, mid |-> mid[1], best_bid |-> d.bb[1],
                 best_ask |-> d.ba[1], depth_in_band |-> r.band_depth])]

InBandSameSide(d, side, price) ==
    IF side = "Bid"
    THEN IsSome(d.bb) /\ SatSub(d.bb[1], CrashBandTicks) <= price /\ price <= d.bb[1]
    ELSE IsSome(d.ba) /\ d.ba[1] <= price /\ price <= d.ba[1] + CrashBandTicks

(* add_qty: an add can only improve the best of its side; a move of the    *)
(* best or an eviction makes the cached depth stale.                       *)
CrashAdd(d, u) ==
    LET book == AddQty(d.book, u, CrashMaxLevels)
        pruned == Cardinality(DOMAIN d.book[u.side] \cup {u.price}) # Cardinality(DOMAIN book[u.side])
        bidMoved == u.side = "Bid" /\ (~IsSome(d.bb) \/ u.price > d.bb[1])
        askMoved == u.side = "Ask" /\ (~IsSome(d.ba) \/ u.price < d.ba[1])
        n == [d EXCEPT !.book = book,
                       !.bb = IF bidMoved THEN Some(u.price) ELSE @,
                       !.ba = IF askMoved THEN Some(u.price) ELSE @]
    IN  IF bidMoved \/ askMoved \/ pruned THEN [n EXCEPT !.band_depth_valid = FALSE]
        ELSE IF d.band_depth_valid /\ InBandSameSide(n, u.side, u.price)
        THEN [n EXCEPT !.band_depth = @ + u.qty]
        ELSE n

(* Faulty variant: the cached depth follows the requested quantity, not    *)
(* the quantity that the level held.                                       *)
CrashSubRequested(d, u) ==
    LET book == SubQty(d.book, u)
        n == [d EXCEPT !.book = book, !.bb = BestBid(book), !.ba = BestAsk(book)]
    IN  IF n.bb # d.bb \/ n.ba # d.ba THEN [n EXCEPT !.band_depth_valid = FALSE]
        ELSE [n EXCEPT !.band_depth = SatSub(@, u.qty)]

(* Faulty variant: the best price outlives the last share of its level.    *)
CrashSubKeepsBest(d, u) ==
    [d EXCEPT !.book = SubQty(d.book, u), !.band_depth_valid = FALSE]

(* sub_qty: the best moves when its level empties; otherwise the cached    *)
(* depth follows what was really removed.                                  *)
CrashSub(d, u) ==
    LET book == SubQty(d.book, u)
        emptied == u.price \in DOMAIN d.book[u.side] /\ u.price \notin DOMAIN book[u.side]
        bidMoved == emptied /\ u.side = "Bid" /\ d.bb = Some(u.price)
        askMoved == emptied /\ u.side = "Ask" /\ d.ba = Some(u.price)
        n == [d EXCEPT !.book = book,
                       !.bb = IF bidMoved THEN BestBid(book) ELSE @,
                       !.ba = IF askMoved THEN BestAsk(book) ELSE @]
    IN  IF bidMoved \/ askMoved THEN [n EXCEPT !.band_depth_valid = FALSE]
        ELSE IF d.band_depth_valid /\ InBandSameSide(n, u.side, u.price)
        THEN [n EXCEPT !.band_depth = SatSub(@, Taken(d.book, u))]
        ELSE n

(* The book half of process, with the aggression counters of a trade.      *)
CrashApply(d, e) ==
    LET r == Resolve(d.orders, e)
        a == Aggressor(e, r.update)
        n == [d EXCEPT !.orders = r.orders,
                       !.buy_aggr = IF a = Some("Buy") THEN @ + 1 ELSE @,
                       !.sell_aggr = IF a = Some("Sell") THEN @ + 1 ELSE @]
    IN  IF ~IsSome(r.update) THEN n
        ELSE IF e.type = "OrderAdd" THEN CrashAdd(n, r.update[1])
        ELSE CrashSub(n, r.update[1])

-----------------------------------------------------------------------------
(* Steps 4 to 8: the oldest snapshot of the window that the mid has jumped *)
(* away from, the depth left where that snapshot's book was, aggression in *)
(* the direction of the jump, and the flag.                                *)

(* Indices of the snapshots that are inside the gap window and far enough. *)
GapHits(d, e, mid) ==
    {i \in DOMAIN d.snaps :
        /\ e.seq - d.snaps[i].seq \in 1..CrashGapWindow
        /\ BpsMove(d.snaps[i].mid, mid) >= CrashMinGapBps}

DepthCollapsed(then, now) ==
    \/ CrashDropPct = 0
    \/ then > 0 /\ SatSub(then, now) * 100 >= CrashDropPct * then

CrashQualifies(d, snap, mid) ==
    /\ DepthCollapsed(snap.depth_in_band, DepthAround(d.book, snap.best_bid, snap.best_ask))
    /\ CrashMinAggr <= IF mid < snap.mid THEN d.sell_aggr ELSE d.buy_aggr

CrashDetect(d, e) ==
    LET mid == Mid(d.bb, d.ba)
        hits == GapHits(d, e, mid[1])
        snap == d.snaps[Min(hits)]
    IN  IF ~IsSome(mid) THEN d
        ELSE IF InRefractory(d, e)
        THEN [d EXCEPT !.buy_aggr = 0, !.sell_aggr = 0]
        ELSE IF hits = {} THEN d
        ELSE IF ~CrashQualifies(d, snap, mid[1]) THEN d
        ELSE [d EXCEPT !.flag = Some(ChaosFlag("FlashCrash", snap.seq, snap.ts, e, None)),
                       !.refractory_until = e.seq + CrashCooldown,
                       !.buy_aggr = 0, !.sell_aggr = 0, !.snaps = <<>>]

(* A BookSnapshot event is snapshotted like any other and goes no further. *)
CrashProcess(e) ==
    LET s == SnapBefore([crash EXCEPT !.flag = None], e)
    IN  crash' = IF e.type = "BookSnapshot" THEN s ELSE CrashDetect(CrashApply(s, e), e)

-----------------------------------------------------------------------------
(* flash_crash.rs keeps cached_bb and cached_ba "in sync via add_qty /     *)
(* sub_qty", and prune_levels is trusted never to evict the best: in every *)
(* state they are the best prices of the maps.                             *)
CachedBestExact == crash.bb = BestBid(crash.book) /\ crash.ba = BestAsk(crash.book)

(* band_depth is maintained in O(1) by add_qty and sub_qty and read by the *)
(* next snapshot: whenever it is marked valid it is the depth that a scan  *)
(* of the maps around the current best prices would give.                  *)
BandDepthExact == crash.band_depth_valid => crash.band_depth = FreshBandDepth(crash)

=============================================================================
