------------------------- MODULE CancellationStorm --------------------------
(***************************************************************************)
(* The cancellation-storm detector of chaos/src/cancellation_storm.rs: the *)
(* share of cancels in a rolling window against an adaptive threshold      *)
(* mean + k * sigma of the calm samples seen so far.                       *)
(*                                                                         *)
(* The Welford accumulator is kept as the count, sum and sum of squares of *)
(* its samples, which determine the mean and the variance it computes; a   *)
(* rate is an integer multiple of 1/StormScale, so the comparison with the *)
(* threshold is exact (the code rounds in f64).                            *)
(***************************************************************************)
EXTENDS MiniBook

CONSTANTS
    StormSeqWindow, StormTimeWindow,   \* 0 disables a window
    StormMinWindow, StormWarmup, StormKSigma, StormMinConsecutive, StormCooldown,
    StormSigmaFloor,   \* sigma_floor, in units of 1/StormScale
    StormScale         \* a common multiple of the window lengths

ASSUME StormAssumption ==
    StormSeqWindow \in Nat /\ StormTimeWindow \in Nat /\ StormWarmup \in Nat /\ StormCooldown \in Nat

VARIABLE storm

StormInit ==
    storm = [window |-> <<>>, cancels |-> 0, n |-> 0, sum |-> 0, sumsq |-> 0,
             above |-> 0, burst |-> [seq |-> 0, ts |-> 0], refractory_until |-> 0,
             flag |-> None]

RateTypes == {"OrderAdd", "OrderCancel", "Trade"}

CancelsIn(window) == Cardinality({i \in DOMAIN window : window[i].type = "OrderCancel"})

StormExpired(w, e) ==
    \/ StormSeqWindow > 0 /\ SatSub(e.seq, w.seq) > StormSeqWindow
    \/ StormTimeWindow > 0 /\ SatSub(e.ts, w.ts) > StormTimeWindow

(* Faulty variant: an evicted cancel stays in the running count.           *)
StormEvictKeepsCount(d, e) ==
    LET fresh == {i \in DOMAIN d.window : ~StormExpired(d.window[i], e)}
        from == CHOOSE i \in fresh : \A j \in fresh : i <= j
    IN  [d EXCEPT !.window = SubSeq(@, from, Len(@))]

(* evict_expired pops the front of the window, each cancel out of the      *)
(* running count.  The event just pushed is never expired.                 *)
StormEvict(d, e) ==
    LET fresh == {i \in DOMAIN d.window : ~StormExpired(d.window[i], e)}
        from == CHOOSE i \in fresh : \A j \in fresh : i <= j
    IN  [d EXCEPT !.window = SubSeq(@, from, Len(@)),
                  !.cancels = SatSub(@, CancelsIn(SubSeq(d.window, 1, from - 1)))]

StormPush(d, e) ==
    StormEvict([d EXCEPT !.window = Append(@, [seq |-> e.seq, ts |-> e.ts, type |-> e.type]),
                         !.cancels = IF e.type = "OrderCancel" THEN @ + 1 ELSE @], e)

Rate(d) == (d.cancels * StormScale) \div Len(d.window)

Welford(d, x) == [d EXCEPT !.n = @ + 1, !.sum = @ + x, !.sumsq = @ + x * x]

(* rate > mean + k * max(stddev, floor), both sides times n.               *)
AboveThreshold(d, x) ==
    LET dev == x * d.n - d.sum
    IN  /\ dev > 0
        /\ dev > StormKSigma * StormSigmaFloor * d.n
        /\ d.n >= 2 => dev * dev * (d.n - 1)
                        > StormKSigma * StormKSigma * d.n * (d.n * d.sumsq - d.sum * d.sum)

(* An above-threshold sample: note where the burst began, count it, and    *)
(* flag when the burst has lasted long enough outside the refractory.      *)
AboveSample(d, e) ==
    LET n == [d EXCEPT !.above = @ + 1,
                       !.burst = IF d.above = 0 THEN [seq |-> e.seq, ts |-> e.ts] ELSE @]
    IN  IF n.above >= StormMinConsecutive /\ ~InRefractory(d, e)
        THEN [n EXCEPT !.flag = Some(ChaosFlag("CancellationStorm", n.burst.seq, n.burst.ts,
                                               e, None)),
                       !.refractory_until = e.seq + StormCooldown, !.above = 0]
        ELSE n

(* Faulty variant: the tail of a storm feeds the baseline.                 *)
CalmSampleAlwaysFeeds(d, e, x) == Welford([d EXCEPT !.above = 0], x)

(* A sample at or below the threshold ends the burst and, outside the      *)
(* refractory, feeds the baseline.                                         *)
CalmSample(d, e, x) ==
    LET n == [d EXCEPT !.above = 0]
    IN  IF InRefractory(d, e) THEN n ELSE Welford(n, x)

StormProcess(e) ==
    LET d0 == [storm EXCEPT !.flag = None]
        d == StormPush(d0, e)
        x == Rate(d)
    IN  storm' = IF e.type \notin RateTypes THEN d0
                 ELSE IF Len(d.window) < StormMinWindow THEN d
                 ELSE IF d.n < StormWarmup THEN Welford(d, x)
                 ELSE IF AboveThreshold(d, x) THEN AboveSample(d, e)
                 ELSE CalmSample(d, e, x)

-----------------------------------------------------------------------------
(* cancels_in_window is maintained incrementally across pushes and         *)
(* evictions of cancellation_storm.rs: it is the number of cancels that    *)
(* the window holds, so the rate never drifts from the window.             *)
CancelCountExact == storm.cancels = CancelsIn(storm.window)

(* Once warm, the baseline of cancellation_storm.rs is fed by calm samples *)
(* only ("Updates are paused during bursts + refractory"): a step that     *)
(* changes it neither runs inside the refractory nor leaves a burst open,  *)
(* and cannot be the step that flags.                                      *)
BaselinePaused ==
    [][(storm.n >= StormWarmup /\ storm'.n # storm.n) =>
          /\ storm'.window[Len(storm'.window)].seq >= storm.refractory_until
          /\ storm'.above = 0 /\ ~IsSome(storm'.flag)]_storm

=============================================================================
