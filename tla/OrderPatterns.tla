--------------------------- MODULE OrderPatterns ----------------------------
(***************************************************************************)
(* The detectors that follow orders rather than prices: quote stuffing and *)
(* spoofing (chaos/src/detection.rs) and phantom liquidity                 *)
(* (chaos/src/phantom_liquidity.rs).                                       *)
(***************************************************************************)
EXTENDS MiniBook

CONSTANTS
    QuoteWindow, QuoteRatio,                 \* window_size, cancel_ratio_threshold
    SpoofQty, SpoofWindow,                   \* large_qty_threshold, cancel_window
    PhantomSeqGap, PhantomTimeGap,           \* 0 disables a window
    PhantomMaxTracked, PhantomMinQty

ASSUME PatternAssumption == SpoofWindow \in Nat /\ PhantomMaxTracked \in Nat \ {0}

VARIABLES
    quote,     \* [window, flag]
    spoof,     \* [large, flag]: the large orders seen, in order
    phantom    \* [levels, orders, flag, key]

-----------------------------------------------------------------------------
(* QuoteStuffDetector.                                                     *)

QuoteInit == quote = [window |-> <<>>, flag |-> None]

OfType(window, t) == Cardinality({i \in DOMAIN window : window[i].type = t})

QuoteProcess(e) ==
    LET old == IF Len(quote.window) >= QuoteWindow THEN Tail(quote.window) ELSE quote.window
        window == Append(old, [seq |-> e.seq, ts |-> e.ts, type |-> e.type])
        trades == OfType(window, "Trade")
        stuffed == /\ OfType(window, "OrderCancel") >= QuoteRatio * (IF trades = 0 THEN 1 ELSE trades)
                   /\ Len(window) >= QuoteWindow \div 2
    IN  quote' =
          IF e.type \notin {"OrderAdd", "OrderCancel", "Trade"} THEN [quote EXCEPT !.flag = None]
          ELSE [window |-> window,
                flag |-> IF stuffed
                         THEN Some(ChaosFlag("QuoteStuff", window[1].seq, window[1].ts, e, None))
                         ELSE None]

-----------------------------------------------------------------------------
(* SpoofDetector.                                                          *)

SpoofInit == spoof = [large |-> <<>>, flag |-> None]

(* Faulty variant: a large add does not prune the list.                    *)
SpoofAddUnpruned(e) ==
    Append(spoof.large, [seq |-> e.seq, ts |-> e.ts, order_id |-> e.order_id])

(* A large add is remembered, and only then are old ones pruned.           *)
SpoofAdd(e) ==
    LET all == Append(spoof.large, [seq |-> e.seq, ts |-> e.ts, order_id |-> e.order_id])
    IN  Retain(all, {i \in DOMAIN all : e.seq - all[i].seq < SpoofWindow * 2})

(* A cancel forgets the first entry of its order, and flags a recent one.  *)
SpoofCancel(e) ==
    LET at == {i \in DOMAIN spoof.large : spoof.large[i].order_id = e.order_id}
        i == CHOOSE k \in at : \A j \in at : k <= j
        o == spoof.large[i]
    IN  IF at = {} THEN [spoof EXCEPT !.flag = None]
        ELSE [large |-> RemoveAt(spoof.large, i),
              flag |-> IF e.seq - o.seq <= SpoofWindow
                       THEN Some(ChaosFlag("Spoof", o.seq, o.ts, e, Some(e.order_id)))
                       ELSE None]

SpoofProcess(e) ==
    spoof' = CASE e.type = "OrderAdd" /\ e.qty >= SpoofQty -> [large |-> SpoofAdd(e), flag |-> None]
               [] e.type = "OrderCancel" -> SpoofCancel(e)
               [] OTHER -> [spoof EXCEPT !.flag = None]

-----------------------------------------------------------------------------
(* PhantomLiquidityDetector.                                               *)

PhantomInit ==
    phantom = [levels |-> EmptyMap, orders |-> EmptyMap, flag |-> None, key |-> None]

(* The tracked level with the smallest created_seq.                        *)
EvictOldest(levels) ==
    IF levels = EmptyMap THEN levels
    ELSE Without(levels, CHOOSE k \in DOMAIN levels :
                            \A j \in DOMAIN levels : levels[k].created_seq <= levels[j].created_seq)

(* Faulty variant: the limit is tested after the insertion.                *)
PhantomAddLate(p, e) ==
    LET key == <<e.side, e.price>>
        t == IF key \in DOMAIN p.levels
             THEN [p.levels[key] EXCEPT !.added = @ + e.qty, !.order_count = @ + 1]
             ELSE [created_seq |-> e.seq, created_ts |-> e.ts, added |-> e.qty,
                   cancelled |-> 0, order_count |-> 1, cancel_count |-> 0]
        levels == IF Cardinality(DOMAIN p.levels) > PhantomMaxTracked
                  THEN EvictOldest(p.levels) ELSE p.levels
    IN  [p EXCEPT !.levels = With(levels, key, t),
                  !.orders = IF e.order_id # 0 THEN With(@, e.order_id, key) ELSE @]

(* on_add: room is made before the insertion, even for a level that is     *)
(* already tracked; the order map is not bounded.                          *)
PhantomAdd(p, e) ==
    LET levels == IF Cardinality(DOMAIN p.levels) >= PhantomMaxTracked
                  THEN EvictOldest(p.levels) ELSE p.levels
        key == <<e.side, e.price>>
        t == IF key \in DOMAIN levels
             THEN [levels[key] EXCEPT !.added = @ + e.qty, !.order_count = @ + 1]
             ELSE [created_seq |-> e.seq, created_ts |-> e.ts, added |-> e.qty,
                   cancelled |-> 0, order_count |-> 1, cancel_count |-> 0]
    IN  [p EXCEPT !.levels = With(levels, key, t),
                  !.orders = IF e.order_id # 0 THEN With(@, e.order_id, key) ELSE @]

(* A full delete carries no quantity: the level's average per order.       *)
RemovedQty(t, e) ==
    LET left == SatSub(t.added, t.cancelled)
    IN  IF e.qty # 0 THEN e.qty ELSE (IF left = 0 THEN 1 ELSE left) \div t.order_count

FullyCancelled(t) == t.cancelled >= t.added /\ t.cancel_count >= t.order_count

PhantomInWindow(t, e) ==
    \/ PhantomSeqGap > 0 /\ SatSub(e.seq, t.created_seq) <= PhantomSeqGap
    \/ PhantomTimeGap > 0 /\ SatSub(e.ts, t.created_ts) <= PhantomTimeGap

(* on_cancel: the order's mapping is one-shot, so a partial cancel uses it *)
(* up; a level that is fully cancelled is dropped, and flagged when large  *)
(* and young enough.                                                       *)
PhantomCancel(p, e) ==
    LET known == e.order_id = 0 \/ e.order_id \in DOMAIN p.orders
        key == IF e.order_id = 0 THEN <<e.side, e.price>> ELSE p.orders[e.order_id]
        n == [p EXCEPT !.orders = Without(@, e.order_id)]
        t == [p.levels[key] EXCEPT !.cancelled = @ + RemovedQty(p.levels[key], e),
                                   !.cancel_count = @ + 1]
    IN  IF ~known THEN p
        ELSE IF key \notin DOMAIN p.levels THEN n
        ELSE IF ~FullyCancelled(t) THEN [n EXCEPT !.levels[key] = t]
        ELSE [n EXCEPT !.levels = Without(@, key), !.key = Some(key),
                       !.flag = IF t.added >= PhantomMinQty /\ PhantomInWindow(t, e)
                                THEN Some(ChaosFlag("PhantomLiquidity", t.created_seq,
                                                    t.created_ts, e, None))
                                ELSE None]

(* Faulty variant: a trade leaves its level a candidate.                   *)
PhantomTradeIgnored(p, e) == p

(* A trade drops the level at the event's own side and price.              *)
PhantomTrade(p, e) == [p EXCEPT !.levels = Without(@, <<e.side, e.price>>)]

(* A modify is a cancel and then an add.                                   *)
PhantomProcess(e) ==
    LET p == [phantom EXCEPT !.flag = None, !.key = None]
    IN  phantom' = CASE e.type = "OrderAdd" -> PhantomAdd(p, e)
                     [] e.type = "OrderCancel" -> PhantomCancel(p, e)
                     [] e.type = "OrderModify" -> PhantomAdd(PhantomCancel(p, e), e)
                     [] e.type = "Trade" -> PhantomTrade(p, e)
                     [] OTHER -> p

-----------------------------------------------------------------------------
(* The spoof detector of detection.rs prunes its list on large adds only,  *)
(* never on a cancel, a trade or the passing of time: the list still never *)
(* holds more entries than twice the cancel window.                        *)
SpoofListBounded == Len(spoof.large) <= 2 * SpoofWindow

(* phantom_liquidity.rs: max_tracked is a "Hard cap on the tracker size":  *)
(* no interleaving of adds, modifies and evictions exceeds it.             *)
PhantomLevelsBounded == Cardinality(DOMAIN phantom.levels) <= PhantomMaxTracked

=============================================================================
