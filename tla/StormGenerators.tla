-------------------------- MODULE StormGenerators ---------------------------
(***************************************************************************)
(* The storm generators of chaos/src/generators.rs: seven deterministic    *)
(* programmes that write the event streams their detectors look for, with  *)
(* the prices, quantities and pauses of the code (times in nanoseconds).   *)
(*                                                                         *)
(* The xorshift generator is abstracted to its outcomes: a storm's seed is *)
(* a sequence of draws [bid, high : BOOLEAN, pct : 0..99], used in         *)
(* rotation by the cycles of every step.  A severity is one end of its     *)
(* range, 0 or 1, where lerp is exact.                                     *)
(***************************************************************************)
EXTENDS MiniBook


CONSTANTS
    BasePrice,
    StormBatch,        \* events of one cancellation-storm step, 128 in the code
    StormWarmBatches,  \* its warmup steps, 16 in the code
    StormPeakBatches   \* its storm steps at severity 0, 40 in the code

Lerp(severity, lo, hi) == lo + (hi - lo) * severity

DrawAt(r, k) == r[((k - 1) % Len(r)) + 1]

SideOf(draw) == IF draw.bid THEN "Bid" ELSE "Ask"

Away(side, ticks) == IF side = "Bid" THEN BasePrice - ticks ELSE BasePrice + ticks

(* One event before its sequence number is assigned.                       *)
Raw(type, side, price, qty, ts, oid) ==
    [type |-> type, side |-> side, price |-> price, qty |-> qty, ts |-> ts, oid |-> oid]

(* mk, over a batch: sequence numbers run on from the base.                *)
Numbered(raw, base) ==
    [i \in DOMAIN raw |->
        SequencedEvent(base + i - 1, raw[i].ts, raw[i].type, raw[i].side, raw[i].price,
                       raw[i].qty, raw[i].oid)]

(* What a step yields: the events, their first sequence number, and the    *)
(* generator after it, due again one period later.                         *)
Yield(g, raw, base, now, period, oids) ==
    [out |-> Numbered(raw, base),
     gen |-> [g EXCEPT !.next_due = now + period, !.next_oid = @ + oids]]

-----------------------------------------------------------------------------
(* The generators as new builds them.                                      *)

FirstOid(kind) ==
    CASE kind = "PhantomLiquidity" -> 1000000
      [] kind = "QuoteStuff" -> 1500000
      [] kind = "Spoof" -> 1750000
      [] kind = "CancellationStorm" -> 2000000
      [] kind = "MomentumIgnition" -> 3000000
      [] kind = "FlashCrash" -> 4000000
      [] kind = "LatencyArbitrage" -> 5000000

(* cycles_from_duration.                                                   *)
CyclesFromDuration(duration, period, minimum) ==
    Max({minimum, (duration + period - 1) \div period})

(* How many cycles, bursts or batches a new generator has to run; the      *)
(* momentum and cancellation programmes do not depend on the duration.     *)
Programme(spec) ==
    CASE spec.kind = "PhantomLiquidity" -> CyclesFromDuration(spec.duration, 5000000, 4)
      [] spec.kind = "Spoof" -> CyclesFromDuration(spec.duration, 5000000, 4)
      [] spec.kind = "FlashCrash" -> CyclesFromDuration(spec.duration, 80000000, 1)
      [] spec.kind = "LatencyArbitrage" -> CyclesFromDuration(spec.duration, 40000000, 1)
      [] spec.kind = "QuoteStuff" -> CyclesFromDuration(spec.duration, 10000000, 1)
      [] spec.kind = "MomentumIgnition" -> Max({40, 4 * Lerp(spec.severity, 8, 40)})
      [] spec.kind = "CancellationStorm" ->
            StormWarmBatches + Lerp(spec.severity, StormPeakBatches, 3 * StormPeakBatches)

NewGenerator(spec) ==
    [kind |-> spec.kind, severity |-> spec.severity, next_due |-> 0,
     next_oid |-> FirstOid(spec.kind), left |-> Programme(spec), seeded |-> FALSE,
     bid |-> BasePrice - 1, ask |-> BasePrice + 1]

Finished(g) == g.left = 0

-----------------------------------------------------------------------------
(* Phantom liquidity and spoofing: an order added and cancelled in full,   *)
(* half a gap apart, on either side of the base price.                     *)
AddCancelCycles(g, r, cycles, now, gap, ticks(_), qty(_)) ==
    [i \in 1..(2 * cycles) |->
        LET k == (i + 1) \div 2
            side == SideOf(DrawAt(r, k))
        IN  Raw(IF i % 2 = 1 THEN "OrderAdd" ELSE "OrderCancel", side,
                Away(side, ticks(DrawAt(r, k))), qty(DrawAt(r, k)),
                now + (i - 1) * (gap \div 2), g.next_oid + k - 1)]

PhantomStep(g, r, now, base) ==
    LET cycles == Min({Lerp(g.severity, 1, 8), g.left})
        raw == AddCancelCycles(g, r, cycles, now, Lerp(g.severity, 2000000, 50000),
                               LAMBDA d : IF d.high THEN 33 ELSE 2,
                               LAMBDA d : IF d.high THEN 999 ELSE 200)
    IN  Yield([g EXCEPT !.left = @ - cycles], raw, base, now,
              Lerp(g.severity, 50000000, 5000000), cycles)

SpoofStep(g, r, now, base) ==
    LET cycles == Min({Lerp(g.severity, 1, 6), g.left})
        raw == AddCancelCycles(g, r, cycles, now, Lerp(g.severity, 1000000, 50000),
                               LAMBDA d : IF d.high THEN 4 ELSE 1,
                               LAMBDA d : Lerp(g.severity, 2000, 20000))
    IN  Yield([g EXCEPT !.left = @ - cycles], raw, base, now,
              Lerp(g.severity, 25000000, 5000000), cycles)

(* Quote stuffing: trades on alternating sides, each followed by cancels   *)
(* of orders nobody added on the other side.                               *)
QuoteStep(g, r, now, base) ==
    LET group == 1 + Lerp(g.severity, 8, 16)
        total == group * Lerp(g.severity, 4, 6)
        period == Lerp(g.severity, 20000000, 5000000)
        raw == [i \in 1..total |->
                  LET even == ((i - 1) \div group) % 2 = 0
                      print == (i - 1) % group = 0
                      side == IF even = print THEN "Ask" ELSE "Bid"
                  IN  Raw(IF print THEN "Trade" ELSE "OrderCancel", side,
                          Away(side, IF ~print /\ DrawAt(r, i).high THEN 4 ELSE 1), 100,
                          now + (i - 1) * (period \div total), g.next_oid + i - 1)]
    IN  Yield([g EXCEPT !.left = @ - 1], raw, base, now, period, total)

(* Cancellation storm: a warmup at 30 % cancels, then a storm; the first   *)
(* storm batch jumps the sequence numbers past the detector's window.      *)
CancelStep(g, r, now, base) ==
    LET storming == g.seeded \/ g.left <= Lerp(g.severity, StormPeakBatches, 3 * StormPeakBatches)
        onset == storming /\ ~g.seeded
        p == IF storming THEN Lerp(g.severity, 92, 99) ELSE 30
        type(d) == IF d.pct < 5 THEN "Trade"
                   ELSE IF d.pct * 100 < 500 + 95 * p THEN "OrderCancel" ELSE "OrderAdd"
        raw == [i \in 1..StormBatch |->
                  LET d == DrawAt(r, i)
                  IN  Raw(type(d), SideOf(d), Away(SideOf(d), IF d.high THEN 8 ELSE 1),
                          IF d.high THEN 499 ELSE 100,
                          now + (i - 1) * (1000000 \div StormBatch), g.next_oid + i - 1)]
    IN  Yield([g EXCEPT !.left = @ - 1, !.seeded = storming], raw,
              IF onset THEN base + 4096 ELSE base, now, 1000000, StormBatch)

(* Momentum ignition, upwards: one touch per side, then cycles that add a  *)
(* higher ask, buy the old one away and lift the bid, until the mid has    *)
(* moved by the target.                                                    *)
JumpTicks == Max({BasePrice \div 10000, 1})

BpsUp(g) == (SatSub((g.bid + g.ask) \div 2, BasePrice) * 10000) \div BasePrice

MomentumCycle(acc, k) ==
    LET g == acc.gen
        ask == g.ask + JumpTicks
        bid == g.bid + JumpTicks
    IN  IF acc.done THEN acc
        ELSE IF BpsUp(g) >= Lerp(g.severity, 8, 40)
        THEN [acc EXCEPT !.gen.left = 0, !.done = TRUE]
        ELSE [acc EXCEPT
                !.raw = @ \o <<Raw("OrderAdd", "Ask", ask, 500, acc.ts, g.next_oid),
                               Raw("Trade", "Ask", g.ask, 500, acc.ts + 20000, g.next_oid + 1),
                               Raw("OrderAdd", "Bid", bid, 500, acc.ts + 40000, g.next_oid + 2)>>,
                !.ts = @ + 90000,
                !.gen = [g EXCEPT !.bid = bid, !.ask = ask, !.next_oid = @ + 3,
                                  !.left = SatSub(@, 1)]]

MomentumStep(g, r, now, base) ==
    LET seed == IF g.seeded THEN <<>>
                ELSE <<Raw("OrderAdd", "Bid", g.bid, 500, now, g.next_oid),
                       Raw("OrderAdd", "Ask", g.ask, 500, now, g.next_oid + 1)>>
        g1 == [g EXCEPT !.seeded = TRUE, !.next_oid = @ + Len(seed)]
        end == FoldLeft(MomentumCycle, [gen |-> g1, raw |-> seed, ts |-> now, done |-> FALSE],
                        [k \in 1..Min({Lerp(g.severity, 1, 6), g.left}) |-> k])
    IN  Yield(end.gen, end.raw, base, now, Lerp(g.severity, 5000000, 1000000), 0)

(* Flash crash, up to base - 200: a heavy touch and a thin fallback level  *)
(* per side, then the top bid cancelled, the top ask cut, and four sells   *)
(* at the fallback bid.                                                    *)
SeedDepth(oid, now) ==
    <<Raw("OrderAdd", "Bid", BasePrice - 1, 5000, now, oid),
      Raw("OrderAdd", "Ask", BasePrice + 1, 3000, now, oid + 1),
      Raw("OrderAdd", "Bid", BasePrice - 200, 200, now, oid + 2),
      Raw("OrderAdd", "Ask", BasePrice + 200, 200, now, oid + 3)>>

(* Faulty variant: the top ask is cut to the last share.                   *)
OneBurstNoFloor(oid, ts, want) ==
    LET cut == 3000
        cancels == <<Raw("OrderCancel", "Bid", BasePrice - 1, 5000, ts, oid),
                     Raw("OrderCancel", "Ask", BasePrice + 1, cut, ts + 20000, oid + 1)>>
    IN  cancels \o [i \in 1..4 |->
            Raw("Trade", "Bid", BasePrice - 200, 50, ts + (i + 1) * 20000, oid + 3 + i)]

(* The seeded orders are oid and oid + 1; every burst follows a seeding.   *)
OneBurst(oid, ts, want) ==
    LET cut == Min({SatSub(want, 5000), 2900})
        cancels == <<Raw("OrderCancel", "Bid", BasePrice - 1, 5000, ts, oid)>>
                   \o IF cut = 0 THEN <<>>
                      ELSE <<Raw("OrderCancel", "Ask", BasePrice + 1, cut, ts + 20000, oid + 1)>>
        from == ts + Len(cancels) * 20000
    IN  cancels \o [i \in 1..4 |->
            Raw("Trade", "Bid", BasePrice - 200, 50, from + (i - 1) * 20000, oid + 3 + i)]

CrashStep(g, r, now, base) ==
    Yield([g EXCEPT !.left = @ - 1],
          SeedDepth(g.next_oid, now)
            \o OneBurst(g.next_oid, now + 1000, (8000 * Lerp(g.severity, 65, 95)) \div 100),
          base, now, Lerp(g.severity, 200000000, 80000000), 8)

(* Latency arbitrage: ten levels per side once, then a print at the touch  *)
(* and a burst of adds and cancels of the opposite side around it.         *)
ArbStep(g, r, now, base) ==
    LET seed == IF g.seeded THEN <<>>
                ELSE [i \in 1..20 |->
                        LET side == IF i % 2 = 1 THEN "Bid" ELSE "Ask"
                        IN  Raw("OrderAdd", side, Away(side, (i + 1) \div 2), 500, now,
                                g.next_oid + i - 1)]
        oid == g.next_oid + Len(seed)
        buy == DrawAt(r, 1).bid
        at == IF buy THEN BasePrice + 1 ELSE BasePrice - 1
        burst == [k \in 1..Lerp(g.severity, 4, 16) |->
                    LET off == ((k - 1) % 4) + 1
                    IN  Raw(IF k % 2 = 1 THEN "OrderAdd" ELSE "OrderCancel",
                            IF buy THEN "Bid" ELSE "Ask",
                            IF buy THEN at - off ELSE at + off, 200,
                            now + 100000 + (k - 1) * 50000, oid + k)]
        raw == seed \o <<Raw("Trade", IF buy THEN "Ask" ELSE "Bid", at, 400, now, oid)>> \o burst
    IN  Yield([g EXCEPT !.left = @ - 1, !.seeded = TRUE], raw, base, now,
              Lerp(g.severity, 50000000, 10000000), Len(raw))

Step(g, r, now, base) ==
    CASE g.kind = "PhantomLiquidity" -> PhantomStep(g, r, now, base)
      [] g.kind = "Spoof" -> SpoofStep(g, r, now, base)
      [] g.kind = "QuoteStuff" -> QuoteStep(g, r, now, base)
      [] g.kind = "CancellationStorm" -> CancelStep(g, r, now, base)
      [] g.kind = "MomentumIgnition" -> MomentumStep(g, r, now, base)
      [] g.kind = "FlashCrash" -> CrashStep(g, r, now, base)
      [] g.kind = "LatencyArbitrage" -> ArbStep(g, r, now, base)

=============================================================================
