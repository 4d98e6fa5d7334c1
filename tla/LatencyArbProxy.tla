-------------------------- MODULE LatencyArbProxy ---------------------------
(***************************************************************************)
(* The latency-arbitrage proxy of chaos/src/latency_arb_proxy.rs: a large  *)
(* print seeds a trigger, which flags once enough adds and cancels of the  *)
(* opposite side arrive near its price inside the reaction window and,     *)
(* optionally, the mid then reverts.                                       *)
(***************************************************************************)
EXTENDS MiniBook

CONSTANTS
    ArbReactionSeq, ArbReactionTime,   \* 0 disables a window
    ArbMaxLevels, ArbBandTicks, ArbMinTradeQty, ArbMinBurst,
    ArbRequireReversion, ArbReversionBps, ArbCooldown,
    ArbMaxPending                      \* 64 in the code

ASSUME ArbAssumption ==
    ArbMaxLevels \in Nat \ {0} /\ ArbMaxPending \in Nat \ {0} /\ ArbCooldown \in Nat

VARIABLE arb

ArbInit ==
    arb = [book |-> EmptyBook, orders |-> EmptyMap, pending |-> <<>>,
           refractory_until |-> 0, flag |-> None]

ArbMid(d) == Mid(BestBid(d.book), BestAsk(d.book))

(* Faulty variant: the refractory does not hold back new triggers.         *)
SeedAlways(d, e, update, midBefore) ==
    LET trig == [seq |-> e.seq, ts |-> e.ts, price |-> update[1].price,
                 dir |-> AggressorFromRestingSide(update[1].side), mid |-> midBefore[1],
                 burst_count |-> 0, last_burst_seq |-> e.seq]
        all == Append(d.pending, trig)
    IN  IF /\ e.type = "Trade" /\ IsSome(update) /\ IsSome(midBefore)
           /\ update[1].qty >= ArbMinTradeQty
        THEN [d EXCEPT !.pending = IF Len(all) > ArbMaxPending THEN Tail(all) ELSE all]
        ELSE d

(* A resolved trade outside the refractory seeds a trigger when the book   *)
(* had a mid before it; the oldest trigger gives way above the limit.  The *)
(* refractory gates nothing else: triggers seeded before a flag may still  *)
(* flag inside it.                                                         *)
Seed(d, e, update, midBefore) ==
    LET trig == [seq |-> e.seq, ts |-> e.ts, price |-> update[1].price,
                 dir |-> AggressorFromRestingSide(update[1].side), mid |-> midBefore[1],
                 burst_count |-> 0, last_burst_seq |-> e.seq]
        all == Append(d.pending, trig)
    IN  IF /\ ~InRefractory(d, e)
           /\ e.type = "Trade" /\ IsSome(update) /\ IsSome(midBefore)
           /\ update[1].qty >= ArbMinTradeQty
        THEN [d EXCEPT !.pending = IF Len(all) > ArbMaxPending THEN Tail(all) ELSE all]
        ELSE d

InsideWindow(t, e) ==
    \/ ArbReactionSeq > 0 /\ SatSub(e.seq, t.seq) <= ArbReactionSeq
    \/ ArbReactionTime > 0 /\ SatSub(e.ts, t.ts) <= ArbReactionTime

Qualified(t) == t.burst_count >= ArbMinBurst

(* An add or cancel of the opposite side near the trigger's price.         *)
CountsTowards(t, e) ==
    /\ e.type \in {"OrderAdd", "OrderCancel"}
    /\ e.side = IF t.dir = "Buy" THEN "Bid" ELSE "Ask"
    /\ e.price - t.price \in -ArbBandTicks..ArbBandTicks

Reacted(t, e) ==
    IF InsideWindow(t, e) /\ ~Qualified(t) /\ CountsTowards(t, e)
    THEN [t EXCEPT !.burst_count = @ + 1, !.last_burst_seq = e.seq]
    ELSE t

(* The mid has come back against the print by enough.                      *)
Reverted(t, mid) ==
    LET back == IF t.dir = "Buy" THEN t.mid - mid[1] ELSE mid[1] - t.mid
    IN  /\ IsSome(mid)
        /\ back > 0
        /\ (back * 10000) \div (IF t.mid = 0 THEN 1 ELSE t.mid) >= ArbReversionBps

WaitsForReversion(t, e) == SatSub(e.seq, t.last_burst_seq) <= ArbReactionSeq

MayFlag(t, e, mid) ==
    /\ InsideWindow(t, e) /\ Qualified(t)
    /\ ArbRequireReversion => WaitsForReversion(t, e) /\ Reverted(t, mid)

(* Faulty variant: a trigger that flags is kept.                           *)
KeptAfterFlag(t, e, flags) ==
    /\ InsideWindow(t, e)
    /\ Qualified(t) => (flags \/ (ArbRequireReversion /\ WaitsForReversion(t, e)))

(* Which triggers outlive the event: one that flags does not, nor, when no *)
(* reversion is required, a second one that qualified on the same event.   *)
Kept(t, e, flags) ==
    /\ InsideWindow(t, e)
    /\ Qualified(t) => (~flags /\ ArbRequireReversion /\ WaitsForReversion(t, e))

(* The loop over the pending triggers: the first that may flag does.       *)
Scan(d, e) ==
    LET mid == ArbMid(d)
        ts == [i \in DOMAIN d.pending |-> Reacted(d.pending[i], e)]
        may == {i \in DOMAIN ts : MayFlag(ts[i], e, mid)}
        first == CHOOSE i \in may : \A j \in may : i <= j
        idx == {i \in DOMAIN ts : Kept(ts[i], e, may # {} /\ i = first)}
        keep == Retain(ts, idx)
    IN  IF may = {} THEN [d EXCEPT !.pending = keep]
        ELSE [d EXCEPT !.pending = keep,
                       !.flag = Some(ChaosFlag("LatencyArbitrage", ts[first].seq,
                                               ts[first].ts, e, None)),
                       !.refractory_until = e.seq + ArbCooldown]

ArbProcess(e) ==
    LET d == [arb EXCEPT !.flag = None]
        r == Resolve(d.orders, e)
        n == [d EXCEPT !.orders = r.orders, !.book = ApplyTo(@, e, r.update, ArbMaxLevels)]
    IN  arb' = IF e.type = "BookSnapshot" THEN d
               ELSE Scan(Seed(n, e, r.update, ArbMid(d)), e)

=============================================================================
