-------------------------- MODULE MomentumIgnition --------------------------
(***************************************************************************)
(* The momentum-ignition detector of chaos/src/momentum_ignition.rs: a     *)
(* mini-book, the samples of a changing mid inside a window of sequence    *)
(* numbers and time, the current monotone run of samples, and the          *)
(* aggressors seen since the window was last empty.                        *)
(***************************************************************************)
EXTENDS MiniBook

CONSTANTS
    IgnSeqWindow, IgnTimeWindow,   \* 0 disables a window
    IgnMaxLevels, IgnMinMoveBps, IgnMinTrades, IgnMinConsecutive, IgnCooldown

ASSUME IgnAssumption == IgnMaxLevels \in Nat \ {0} /\ IgnCooldown \in Nat

VARIABLE ign

IgnInit ==
    ign = [book |-> EmptyBook, orders |-> EmptyMap, mids |-> <<>>, buy |-> 0,
           sell |-> 0, trades |-> 0, run_dir |-> "None", run_len |-> 0,
           run_start |-> [seq |-> 0, ts |-> 0, mid |-> 0], refractory_until |-> 0,
           flag |-> None, displacement |-> 0]

IgnMid(d) == Mid(BestBid(d.book), BestAsk(d.book))

IgnApply(d, e) ==
    LET r == Resolve(d.orders, e)
        a == Aggressor(e, r.update)
    IN  [d EXCEPT !.orders = r.orders,
                  !.book = ApplyTo(@, e, r.update, IgnMaxLevels),
                  !.trades = IF IsSome(a) THEN @ + 1 ELSE @,
                  !.buy = IF a = Some("Buy") THEN @ + 1 ELSE @,
                  !.sell = IF a = Some("Sell") THEN @ + 1 ELSE @]

Expired(cur, old, window) == window > 0 /\ SatSub(cur, old) > window

(* evict_expired: drop samples from the front; counters go with the last.  *)
IgnEvict(d, e) ==
    LET fresh(i) == /\ ~Expired(e.seq, d.mids[i].seq, IgnSeqWindow)
                    /\ ~Expired(e.ts, d.mids[i].ts, IgnTimeWindow)
        kept == {i \in DOMAIN d.mids : fresh(i)}
        n == [d EXCEPT !.mids = IF kept = {} THEN <<>>
                                ELSE SubSeq(@, CHOOSE i \in kept : \A j \in kept : i <= j, Len(@))]
    IN  IF kept = {} THEN [n EXCEPT !.buy = 0, !.sell = 0, !.trades = 0] ELSE n

(* Faulty variant: a change of direction restarts the run at the new       *)
(* sample and forgets the one it turned at.                                *)
UpdateRunFromHere(d, s) ==
    LET prev == d.mids[Len(d.mids) - 1]
        dir == IF s.mid > prev.mid THEN "Up" ELSE "Down"
    IN  IF Len(d.mids) < 2
        THEN [d EXCEPT !.run_dir = "None", !.run_len = 1, !.run_start = s]
        ELSE IF dir = d.run_dir THEN [d EXCEPT !.run_len = @ + 1]
        ELSE [d EXCEPT !.run_dir = dir, !.run_len = 2, !.run_start = s]

(* update_run, for a sample that was just appended.                        *)
UpdateRun(d, s) ==
    LET prev == d.mids[Len(d.mids) - 1]
        dir == IF s.mid > prev.mid THEN "Up" ELSE "Down"
    IN  IF Len(d.mids) < 2
        THEN [d EXCEPT !.run_dir = "None", !.run_len = 1, !.run_start = s]
        ELSE IF dir = d.run_dir THEN [d EXCEPT !.run_len = @ + 1]
        ELSE [d EXCEPT !.run_dir = dir, !.run_len = 2, !.run_start = prev]

(* A sample is recorded only when the mid changes.                         *)
Sample(d, e, mid) ==
    LET s == [seq |-> e.seq, ts |-> e.ts, mid |-> mid]
        changed == d.mids = <<>> \/ d.mids[Len(d.mids)].mid # mid
        n == IgnEvict(IF changed THEN [d EXCEPT !.mids = Append(@, s)] ELSE d, e)
    IN  IF changed THEN UpdateRun(n, s) ELSE n

IgnQualifies(d, mid) ==
    /\ d.run_dir # "None"
    /\ d.run_len >= IgnMinConsecutive
    /\ d.trades >= IgnMinTrades
    /\ BpsMove(d.run_start.mid, mid) >= IgnMinMoveBps
    /\ IF d.run_dir = "Up" THEN d.buy > d.sell ELSE d.sell > d.buy

(* The flag arms the refractory and resets the run; the counters stay.     *)
IgnDetect(d, e, mid) ==
    IF InRefractory(d, e) THEN d
    ELSE IF ~IgnQualifies(d, mid) THEN d
    ELSE [d EXCEPT !.flag = Some(ChaosFlag("MomentumIgnition", d.run_start.seq,
                                           d.run_start.ts, e, None)),
                   !.displacement = mid - d.run_start.mid,
                   !.refractory_until = e.seq + IgnCooldown,
                   !.run_dir = "None", !.run_len = 0]

IgnProcess(e) ==
    LET d == IgnApply([ign EXCEPT !.flag = None, !.displacement = 0], e)
        mid == IgnMid(d)
    IN  ign' = IF e.type = "BookSnapshot" \/ ~IsSome(mid) THEN d
               ELSE IgnDetect(Sample(d, e, mid[1]), e, mid[1])

-----------------------------------------------------------------------------
(* The run counters survive evictions, restarts and flags of the sampled   *)
(* mids: a directed run of momentum_ignition.rs has at least two samples   *)
(* and its start lies strictly on the side that the direction claims of    *)
(* the newest sample, so a flag's displacement has its aggressors' sign.   *)
RunDirected ==
    /\ (ign.run_dir # "None" /\ ign.mids # <<>>) =>
         LET last == ign.mids[Len(ign.mids)].mid
         IN  /\ ign.run_len >= 2
             /\ IF ign.run_dir = "Up" THEN ign.run_start.mid < last ELSE ign.run_start.mid > last
    /\ IsSome(ign.flag) =>
         /\ ign.displacement # 0
         /\ (ign.displacement > 0) <=> (ign.buy > ign.sell)

=============================================================================
