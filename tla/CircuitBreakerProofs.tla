------------------------ MODULE CircuitBreakerProofs ------------------------
(***************************************************************************)
(* Proofs about the pre-trade risk gate, for every number of threads,      *)
(* every finite set of order quantities and prices, every configuration    *)
(* and every limit: how far the totals can run beyond the limits that      *)
(* check compares them with, how often an order can slip through a latched *)
(* breaker, and when a snapshot explains a halt.                           *)
(*                                                                         *)
(* BreakerInv is the inductive invariant.  What it adds to the properties: *)
(* a thread inside check has nothing at the venue, quantities in flight    *)
(* are within the largest intent, a halted breaker has a reason unless a   *)
(* reset is half done, and CountBounded, which bounds the orders sent for  *)
(* every threshold the ratio guard may still reach, not only the present.  *)
(***************************************************************************)
EXTENDS CircuitBreaker, Sums

Quantities == {q \in Int : Abs(q) <= LargestIntent}

Typed ==
    /\ halted \in BOOLEAN /\ reason \in Reasons \cup {None}
    /\ orders_sent \in Nat /\ trades_done \in Nat /\ cash \in Int /\ position \in Int
    /\ tokens \in 0..Burst /\ gaps \in 0..MaxGaps
    /\ pc \in [Senders -> Stages] /\ want \in [Senders -> Intents \cup {0}]
    /\ seen \in [Senders -> Nat] /\ trip \in [Senders -> Reasons \cup {None}]
    /\ open \in [Senders -> Quantities] /\ late \in [Senders -> Nat]
    /\ fill \in [stage : {"none", "position", "cash"}, qty : Quantities]
    /\ op \in {"idle", "clear", "day"} /\ gapper \in {"idle", "latch"}
    /\ snap \in [open : BOOLEAN, halted : BOOLEAN, reset : BOOLEAN]

(* What the threads hold.                                                  *)
Held ==
    /\ \A s \in Senders : pc[s] # "idle" => open[s] = 0
    /\ \A s \in Senders : trip[s] # None <=> pc[s] = "latch"
    /\ fill.stage = "none" => fill = NoFill

LateHeld ==
    \A s \in Senders : late[s] # 0 => late[s] = 1 /\ pc[s] = "idle" /\ reason # None

HaltHeld ==
    /\ halted => reason # None \/ op = "clear"
    /\ snap.open /\ snap.halted /\ ~snap.reset => reason # None

(* The largest order count that lets a sender past the ratio guard, after n trades. *)
Threshold(n) == Max({OtrWarmup - 1, MaxOrderToTrade * Max({1, n})})

(* The senders behind the first read of the ratio guard that read at most t. *)
Low(at, read, t) == {s \in Senders : at[s] \in {"trades", "count"} /\ read[s] <= t}

(* Whatever threshold t is reached later, the orders sent and those that    *)
(* can still pass under t exceed it by no more than one for each sender.    *)
Countable(n, at, read, limit) ==
    /\ \A s \in Senders : at[s] = "count" => read[s] <= limit
    /\ \A t \in Nat : t >= limit => n + Cardinality(Low(at, read, t)) <= t + Cardinality(Senders)

CountBounded ==
    "ratio" \in guards => Countable(orders_sent, pc, seen, Threshold(trades_done))

BreakerInv ==
    Typed /\ Held /\ LateHeld /\ HaltHeld /\ ExposureBounded /\ LossBounded /\ CountBounded

-----------------------------------------------------------------------------
(* Numbers.                                                                *)

(* A finite set of integers has a largest element.                         *)
LEMMA MaxOfFinite ==
    ASSUME NEW S \in SUBSET Int, IsFiniteSet(S), S # {}
    PROVE  Max(S) \in S /\ \A y \in S : Max(S) >= y
<1> DEFINE G == {s \in SUBSET S : s # {} => \E m \in s : \A y \in s : m >= y}
<1>1. {} \in G
  OBVIOUS
<1>2. ASSUME NEW s \in SUBSET S, s # {}, \A x \in s : s \ {x} \in G PROVE s \in G
  <2>1. PICK x : x \in s
    BY <1>2
  <2>2. CASE s \ {x} = {}
    BY <2>1, <2>2
  <2>3. CASE s \ {x} # {}
    <3>1. PICK m \in s \ {x} : \A y \in s \ {x} : m >= y
      BY <1>2, <2>1, <2>3
    <3>2. m \in Int /\ x \in Int /\ \A y \in s : y \in Int
      BY <2>1
    <3>3. CASE m >= x
      BY <3>1, <3>2, <3>3
    <3>4. CASE ~(m >= x)
      <4>1. \A y \in s : x >= y
        BY <3>1, <3>2, <3>4
      <4> QED
        BY <2>1, <4>1
    <3> QED
      BY <3>3, <3>4
  <2> QED
    BY <2>2, <2>3
<1> HIDE DEF G
<1>3. \A s \in SUBSET S : s \in G
  BY <1>1, <1>2, SubsetsByStep
<1>4. \E m \in S : \A y \in S : m >= y
  BY <1>3 DEF G
<1> QED
  BY <1>4 DEF Max

LEMMA LargestOfFinite ==
    ASSUME NEW S \in SUBSET Int, IsFiniteSet(S)
    PROVE  Largest(S) \in Nat /\ \A y \in S : y <= Largest(S)
<1>1. IsFiniteSet(S \cup {0}) /\ S \cup {0} \in SUBSET Int /\ S \cup {0} # {}
  BY FS_AddElement
<1>2. Max(S \cup {0}) \in S \cup {0} /\ \A y \in S \cup {0} : Max(S \cup {0}) >= y
  BY <1>1, MaxOfFinite
<1> DEFINE m == Max(S \cup {0})
<1> HIDE DEF m
<1>3. m \in Int /\ m >= 0 /\ \A y \in S : y \in Int /\ m >= y
  BY <1>1, <1>2 DEF m
<1>4. m \in Nat /\ \A y \in S : y <= m
  BY <1>3
<1> QED
  BY <1>4 DEF m, Largest

Positive(n) == IF n > 0 THEN n ELSE 0

LEMMA LargestOfOne ==
    ASSUME NEW n \in Int PROVE Largest({n}) = Positive(n) /\ Largest({n}) \in Nat
<1>1. IsFiniteSet({n}) /\ {n} \in SUBSET Int
  BY FS_Singleton
<1>2. Max({n} \cup {0}) \in {n, 0}
  <2>1. IsFiniteSet({n} \cup {0}) /\ {n} \cup {0} # {} /\ {n} \cup {0} \in SUBSET Int
    BY <1>1, FS_AddElement
  <2> QED
    BY <2>1, MaxOfFinite
<1>3. Largest({n}) \in Nat /\ n <= Largest({n})
  BY <1>1, LargestOfFinite
<1> QED
  BY <1>2, <1>3 DEF Largest, Positive

LEMMA MaxOfTwo ==
    ASSUME NEW a \in Int, NEW b \in Int
    PROVE  /\ Max({a, b}) = IF a >= b THEN a ELSE b
           /\ Max({a, b}) \in Int
<1>1. IsFiniteSet({a, b}) /\ {a, b} # {} /\ {a, b} \in SUBSET Int
  <2>1. IsFiniteSet({a}) /\ {a, b} = {a} \cup {b}
    BY FS_Singleton
  <2> QED
    BY <2>1, FS_AddElement
<1>2. Max({a, b}) \in {a, b} /\ \A y \in {a, b} : Max({a, b}) >= y
  BY <1>1, MaxOfFinite
<1> QED
  BY <1>2

LEMMA IntentBound ==
    /\ LargestIntent \in Nat
    /\ \A q \in Intents \cup {0} : q \in Quantities
    /\ \A q \in Quantities : q \in Int /\ Positive(q) <= LargestIntent /\ Positive(-q) <= LargestIntent
<1> DEFINE S == {Abs(q) : q \in Intents}
<1>1. IsFiniteSet(S)
  <2> DEFINE f == [q \in Intents |-> Abs(q)]
  <2>1. f \in Surjection(Intents, S)
    BY DEF Surjection
  <2> HIDE DEF f
  <2> QED
    BY <2>1, FS_Surjection, BreakerConstants
<1>2. \A q \in Int : Abs(q) \in Nat
  BY DEF Abs
<1>3. S \in SUBSET Int
  BY <1>2, BreakerConstants
<1>4. LargestIntent \in Nat /\ \A y \in S : y <= LargestIntent
  BY <1>1, <1>3, LargestOfFinite DEF LargestIntent
<1>5. \A q \in Intents : q \in Int /\ Abs(q) <= LargestIntent
  BY <1>4, BreakerConstants
<1>6. Abs(0) = 0
  BY DEF Abs
<1> HIDE DEF S
<1>7. \A q \in Intents \cup {0} : q \in Quantities
  BY <1>4, <1>5, <1>6 DEF Quantities
<1>8. \A q \in Quantities : q \in Int /\ Positive(q) <= LargestIntent /\ Positive(-q) <= LargestIntent
  BY <1>4 DEF Quantities, Abs, Positive
<1> QED
  BY <1>4, <1>7, <1>8

LEMMA PriceBound == Largest(Prices) \in Nat /\ \A p \in Prices : p \in Nat /\ p <= Largest(Prices)
BY LargestOfFinite, BreakerConstants

LEMMA SenderCount == IsFiniteSet(Senders) /\ Cardinality(Senders) \in Nat \ {0}
BY BreakerConstants, FS_CardinalityType, FS_EmptySet

-----------------------------------------------------------------------------
(* Types, and what the threads hold.                                       *)

LEMMA TypedInit == BreakerInit => Typed /\ Held
<1> SUFFICES ASSUME BreakerInit PROVE Typed /\ Held
  OBVIOUS
<1>1. 0 \in Quantities /\ Burst \in 0..Burst /\ 0 \in 0..MaxGaps
  BY IntentBound, BreakerConstants
<1>2. NoFill \in [stage : {"none", "position", "cash"}, qty : Quantities]
  BY <1>1 DEF NoFill
<1>3. NoSnap \in [open : BOOLEAN, halted : BOOLEAN, reset : BOOLEAN]
  BY DEF NoSnap
<1>a. /\ pc \in [Senders -> Stages] /\ want \in [Senders -> Intents \cup {0}]
      /\ seen \in [Senders -> Nat] /\ trip \in [Senders -> Reasons \cup {None}]
      /\ open \in [Senders -> Quantities] /\ late \in [Senders -> Nat]
  BY <1>1 DEF BreakerInit, Stages
<1>b. halted \in BOOLEAN /\ reason \in Reasons \cup {None}
  BY Zenon DEF BreakerInit
<1>d. /\ orders_sent \in Nat /\ trades_done \in Nat /\ cash \in Int /\ position \in Int
      /\ tokens \in 0..Burst /\ gaps \in 0..MaxGaps
  BY <1>1 DEF BreakerInit
<1>e. /\ fill \in [stage : {"none", "position", "cash"}, qty : Quantities]
      /\ op \in {"idle", "clear", "day"} /\ gapper \in {"idle", "latch"}
      /\ snap \in [open : BOOLEAN, halted : BOOLEAN, reset : BOOLEAN]
  BY <1>2, <1>3, Zenon DEF BreakerInit
<1>4. Typed
  BY <1>a, <1>b, <1>d, <1>e, Zenon DEF Typed
<1>5. Held
  BY DEF BreakerInit, Held
<1> QED
  BY <1>4, <1>5

LEMMA TypedStep == Typed /\ Held /\ [BreakerNext]_vars => Typed' /\ Held'
<1> SUFFICES ASSUME Typed, Held, [BreakerNext]_vars PROVE Typed' /\ Held'
  OBVIOUS
<1>c. /\ None \notin Reasons /\ Intents \subseteq Int \ {0} /\ Burst \in Nat /\ MaxGaps \in Nat
      /\ 0 \in Quantities
  BY BreakerConstants, IntentBound
<1>q. \A q \in Intents \cup {0} : q \in Quantities
  BY IntentBound
<1> USE DEF Typed, Held
<1>1. ASSUME NEW s \in Senders, Check(s) PROVE Typed' /\ Held'
  BY <1>1, <1>c DEF Check, Goto, latch, totals, others, Stages
<1>2. ASSUME NEW s \in Senders, RateGuard(s) PROVE Typed' /\ Held'
  BY <1>2, <1>c DEF RateGuard, Pass, Trip, Goto, latch, totals, others, Stages, Reasons
<1>3. ASSUME NEW s \in Senders, PositionGuard(s) PROVE Typed' /\ Held'
  BY <1>3, <1>c DEF PositionGuard, Pass, Trip, Goto, latch, totals, others, Stages, Reasons
<1>4. ASSUME NEW s \in Senders, LossGuard(s) PROVE Typed' /\ Held'
  BY <1>4, <1>c DEF LossGuard, Pass, Trip, Goto, latch, totals, others, Stages, Reasons
<1>5. ASSUME NEW s \in Senders, OrdersRead(s) PROVE Typed' /\ Held'
  BY <1>5, <1>c DEF OrdersRead, Pass, Goto, latch, totals, others, Stages
<1>6. ASSUME NEW s \in Senders, RatioGuard(s) PROVE Typed' /\ Held'
  BY <1>6, <1>c DEF RatioGuard, Pass, Trip, Goto, latch, totals, others, Stages, Reasons
<1>7. ASSUME NEW s \in Senders, Allow(s) PROVE Typed' /\ Held'
  <2>1. want[s] \in Quantities /\ trip[s] = None /\ pc[s] = "count"
    BY <1>7, <1>q DEF Allow
  <2> QED
    BY <1>7, <1>c, <2>1 DEF Allow, Pass, Goto, latch, others, Stages
<1>8. ASSUME NEW s \in Senders, Block(s) PROVE Typed' /\ Held'
  BY <1>8, <1>c DEF Block, Latch, Goto, totals, others, Stages
<1>9. ASSUME FillTrade PROVE Typed' /\ Held'
  <2>1. PICK s \in Senders : \E q \in PartOf(open[s]) :
            /\ open[s] # 0 /\ open' = [open EXCEPT ![s] = @ - q]
            /\ fill' = [stage |-> "position", qty |-> q]
    BY <1>9 DEF FillTrade
  <2>2. PICK q \in PartOf(open[s]) :
            /\ open[s] # 0 /\ open' = [open EXCEPT ![s] = @ - q]
            /\ fill' = [stage |-> "position", qty |-> q]
    BY <2>1
  <2>3. open[s] \in Int /\ Abs(open[s]) <= LargestIntent /\ LargestIntent \in Nat
    BY IntentBound DEF Quantities
  <2>4. q \in Quantities /\ open[s] - q \in Quantities
    BY <2>2, <2>3 DEF PartOf, Abs, Quantities
  <2>5. Typed'
    BY <1>9, <2>2, <2>4 DEF FillTrade, latch
  <2>6. pc[s] = "idle" /\ fill'.stage = "position"
    BY <2>2
  <2>7. Held'
    BY <1>9, <2>2, <2>6 DEF FillTrade, latch
  <2> QED
    BY <2>5, <2>7
<1>10. ASSUME FillPosition PROVE Typed' /\ Held'
  <2>1. /\ fill.qty \in Quantities /\ fill.qty \in Int
        /\ fill' \in [stage : {"none", "position", "cash"}, qty : Quantities]
        /\ fill'.stage = "cash"
    BY <1>10, IntentBound DEF FillPosition
  <2>2. Typed'
    BY <1>10, <2>1 DEF FillPosition, latch, checking
  <2>3. Held'
    BY <1>10, <2>1 DEF FillPosition, latch, checking
  <2> QED
    BY <2>2, <2>3
<1>11. ASSUME FillCash PROVE Typed' /\ Held'
  <2>1. PICK price \in Prices : cash' = cash - fill.qty * price
    BY <1>11 DEF FillCash
  <2>2. fill.qty \in Int /\ price \in Int
    BY IntentBound, PriceBound
  <2>3. cash' \in Int
    BY <2>1, <2>2
  <2>4. NoFill \in [stage : {"none", "position", "cash"}, qty : Quantities]
    BY <1>c DEF NoFill
  <2> QED
    BY <1>11, <2>3, <2>4 DEF FillCash, latch, checking
<1>12. ASSUME OrderDies PROVE Typed' /\ Held'
  BY <1>12, <1>c DEF OrderDies, latch, totals, others
<1>13. ASSUME RecordGap PROVE Typed' /\ Held'
  BY <1>13, <1>c DEF RecordGap, latch, totals, checking
<1>14. ASSUME GapLatch PROVE Typed' /\ Held'
  BY <1>14, <1>c DEF GapLatch, Latch, totals, checking, Reasons
<1>15. ASSUME ManualHalt PROVE Typed' /\ Held'
  BY <1>15, <1>c DEF ManualHalt, Latch, totals, checking, others, Reasons
<1>16. ASSUME Reset PROVE Typed' /\ Held'
  BY <1>16, <1>c DEF Reset, ClearReason, totals, checking
<1>17. ASSUME ResetFlag PROVE Typed' /\ Held'
  BY <1>17, <1>c DEF ResetFlag, totals, checking
<1>18. ASSUME StartOfDay PROVE Typed' /\ Held'
  BY <1>18, <1>c DEF StartOfDay, latch, checking
<1>19. ASSUME DayReset PROVE Typed' /\ Held'
  BY <1>19, <1>c DEF DayReset, ClearReason, totals, checking
<1>20. ASSUME SnapHalted PROVE Typed' /\ Held'
  BY <1>20, <1>c DEF SnapHalted, latch, totals, checking
<1>21. ASSUME SnapReason PROVE Typed' /\ Held'
  BY <1>21, <1>c DEF SnapReason, latch, totals, checking, NoSnap
<1>22. ASSUME UNCHANGED vars PROVE Typed' /\ Held'
  BY <1>22 DEF vars
<1> QED
  BY <1>1, <1>2, <1>3, <1>4, <1>5, <1>6, <1>7, <1>8, <1>9, <1>10, <1>11, <1>12, <1>13,
     <1>14, <1>15, <1>16, <1>17, <1>18, <1>19, <1>20, <1>21, <1>22 DEF BreakerNext, BreakerStep

-----------------------------------------------------------------------------
(* The latch.                                                              *)

(* Only Check takes a sender out of idle, and only a reset clears the reason. *)
LEMMA LateStep == Typed /\ Held /\ LateHeld /\ [BreakerNext]_vars => LateHeld'
<1> SUFFICES ASSUME Typed, Held, LateHeld, [BreakerNext]_vars PROVE LateHeld'
  OBVIOUS
<1>c. /\ None \notin Reasons
      /\ \A s \in Senders : late[s] \in Nat /\ trip[s] \in Reasons \cup {None}
      /\ "FeedGap" \in Reasons /\ "Manual" \in Reasons
  BY BreakerConstants DEF Typed, Reasons
<1>f. /\ pc \in [Senders -> Stages] /\ late \in [Senders -> Nat]
  BY DEF Typed
<1> USE DEF LateHeld
<1>1. ASSUME NEW s \in Senders, Check(s) PROVE LateHeld'
  BY <1>1, <1>f DEF Check, Goto, latch
<1>2. ASSUME NEW s \in Senders,
             RateGuard(s) \/ PositionGuard(s) \/ LossGuard(s) \/ OrdersRead(s) \/ RatioGuard(s)
      PROVE  LateHeld'
  <2>1. pc[s] # "idle" /\ UNCHANGED <<late, reason>> /\ \E l \in Stages : Goto(s, l)
    BY <1>2 DEF RateGuard, PositionGuard, LossGuard, OrdersRead, RatioGuard, Pass, Trip, latch, Stages
  <2> QED
    BY <2>1, <1>f DEF Goto
<1>3. ASSUME NEW s \in Senders, Allow(s) PROVE LateHeld'
  <2>1. late[s] = 0 /\ UNCHANGED reason /\ Goto(s, "idle")
    BY <1>3, <1>f DEF Allow, Pass, latch
  <2>2. late' = [late EXCEPT ![s] = IF reason = None THEN 0 ELSE 1]
    BY <1>3, <1>f, <2>1 DEF Allow
  <2> QED
    BY <1>f, <2>1, <2>2 DEF Goto
<1>4. ASSUME NEW s \in Senders, Block(s) PROVE LateHeld'
  <2>1. trip[s] # None
    BY <1>4 DEF Held, Block
  <2> QED
    BY <1>4, <1>c, <1>f, <2>1 DEF Block, Latch, Goto
<1>5. ASSUME GapLatch \/ ManualHalt PROVE LateHeld'
  BY <1>5, <1>c DEF GapLatch, ManualHalt, Latch, checking
<1>6. ASSUME Reset \/ DayReset PROVE LateHeld'
  BY <1>6, <1>c DEF Reset, DayReset, ClearReason, checking
<1>7. ASSUME UNCHANGED <<pc, late, reason>> PROVE LateHeld'
  BY <1>7
<1>8. ASSUME \/ FillTrade \/ FillPosition \/ FillCash \/ OrderDies \/ RecordGap
             \/ ResetFlag \/ StartOfDay \/ SnapHalted \/ SnapReason \/ UNCHANGED vars
      PROVE  UNCHANGED <<pc, late, reason>>
  BY <1>8 DEF FillTrade, FillPosition, FillCash, OrderDies, RecordGap, ResetFlag, StartOfDay,
              SnapHalted, SnapReason, vars, latch, checking
<1> QED
  BY <1>1, <1>2, <1>3, <1>4, <1>5, <1>6, <1>7, <1>8 DEF BreakerNext, BreakerStep

(* A reset marks the snapshots it overlaps before it clears the reason, and *)
(* takes the flag back before it ends.                                      *)
LEMMA HaltStep == Typed /\ Held /\ HaltHeld /\ [BreakerNext]_vars => HaltHeld'
<1> SUFFICES ASSUME Typed, Held, HaltHeld, [BreakerNext]_vars PROVE HaltHeld'
  OBVIOUS
<1>c. /\ None \notin Reasons /\ "FeedGap" \in Reasons /\ "Manual" \in Reasons
      /\ snap \in [open : BOOLEAN, halted : BOOLEAN, reset : BOOLEAN] /\ halted \in BOOLEAN
      /\ op \in {"idle", "clear", "day"}
  BY BreakerConstants DEF Typed, Reasons
<1> USE DEF HaltHeld
<1>1. ASSUME UNCHANGED <<halted, reason, op, snap>> PROVE HaltHeld'
  BY <1>1
<1>2. ASSUME NEW s \in Senders,
             \/ Check(s) \/ RateGuard(s) \/ PositionGuard(s) \/ LossGuard(s) \/ OrdersRead(s)
             \/ RatioGuard(s) \/ Allow(s)
      PROVE  UNCHANGED <<halted, reason, op, snap>>
  BY <1>2 DEF Check, RateGuard, PositionGuard, LossGuard, OrdersRead, RatioGuard, Allow, latch, others
<1>3. ASSUME \/ FillTrade \/ FillPosition \/ FillCash \/ OrderDies \/ RecordGap \/ UNCHANGED vars
      PROVE  UNCHANGED <<halted, reason, op, snap>>
  BY <1>3 DEF FillTrade, FillPosition, FillCash, OrderDies, RecordGap, vars, latch, others
<1>4. ASSUME NEW r \in Reasons, Latch(r), UNCHANGED <<op, snap>> PROVE HaltHeld'
  BY <1>4, <1>c DEF Latch
<1>5. ASSUME NEW s \in Senders, Block(s) PROVE HaltHeld'
  <2>1. trip[s] \in Reasons
    BY <1>5 DEF Held, Block, Typed
  <2> QED
    BY <1>4, <1>5, <2>1 DEF Block, others
<1>6. ASSUME GapLatch \/ ManualHalt PROVE HaltHeld'
  BY <1>4, <1>6, <1>c DEF GapLatch, ManualHalt, others
<1>7. ASSUME Reset \/ DayReset PROVE HaltHeld'
  <2>1. ClearReason
    BY <1>7 DEF Reset, DayReset
  <2>2. op' = "clear" /\ snap'.open = snap.open /\ snap'.reset = snap.open
    BY <1>c, <2>1 DEF ClearReason
  <2> QED
    BY <2>2
<1>8. ASSUME ResetFlag PROVE HaltHeld'
  BY <1>8 DEF ResetFlag
<1>9. ASSUME StartOfDay PROVE HaltHeld'
  BY <1>9, <1>c DEF StartOfDay, latch
<1>10. ASSUME SnapHalted PROVE HaltHeld'
  BY <1>10, <1>c DEF SnapHalted, latch
<1>11. ASSUME SnapReason PROVE HaltHeld'
  BY <1>11 DEF SnapReason, NoSnap, latch
<1> QED
  BY <1>1, <1>2, <1>3, <1>5, <1>6, <1>7, <1>8, <1>9, <1>10, <1>11 DEF BreakerNext, BreakerStep

-----------------------------------------------------------------------------
(* What is under way.  p gives the quantity that each sender may still add; *)
(* the lemmas are about such functions, so that they serve a state and its  *)
(* successor, buys and sells, and both guards.                              *)

Flows == [Senders -> Quantities]

Total(p) == SumFunctionOnSet([s \in Senders |-> Largest({p[s]})], Senders)

Negated(p) == [s \in Senders |-> -p[s]]

LEMMA NegatedFlow == ASSUME NEW p \in Flows PROVE Negated(p) \in Flows
<1>1. \A q \in Quantities : -q \in Quantities
  BY IntentBound DEF Quantities, Abs
<1> QED
  BY <1>1 DEF Negated, Flows

(* The positive parts that Total adds up.                                  *)
LEMMA PartsOfTotal ==
    ASSUME NEW p \in Flows
    PROVE  \A s \in Senders :
               LET f == [r \in Senders |-> Largest({p[r]})]
               IN  f[s] = Positive(p[s]) /\ f[s] \in Nat /\ f[s] <= LargestIntent
<1> SUFFICES ASSUME NEW s \in Senders
             PROVE  Largest({p[s]}) = Positive(p[s]) /\ Largest({p[s]}) \in Nat
                    /\ Largest({p[s]}) <= LargestIntent
  OBVIOUS
<1>1. p[s] \in Quantities
  BY DEF Flows
<1>2. p[s] \in Int /\ Positive(p[s]) <= LargestIntent
  BY <1>1, IntentBound
<1> QED
  BY <1>2, LargestOfOne

LEMMA TotalBound ==
    ASSUME NEW p \in Flows
    PROVE  Total(p) \in Nat /\ Total(p) <= Cardinality(Senders) * LargestIntent
<1> DEFINE f == [r \in Senders |-> Largest({p[r]})]
<1>1. \A s \in Senders : f[s] \in Nat /\ f[s] \in Int /\ f[s] <= LargestIntent
  BY PartsOfTotal
<1>2. IsFiniteSet(Senders) /\ LargestIntent \in Nat
  BY SenderCount, IntentBound
<1> HIDE DEF f
<1>3. SumFunctionOnSet(f, Senders) \in Nat
  BY <1>1, <1>2, SumNat
<1>4. SumFunctionOnSet(f, Senders) <= Cardinality(Senders) * LargestIntent
  BY <1>1, <1>2, SumWithin
<1> QED
  BY <1>3, <1>4 DEF f, Total

(* An order goes or stays.                                                 *)
LEMMA TotalShrinks ==
    ASSUME NEW p \in Flows, NEW q \in Flows, \A s \in Senders : q[s] \in {p[s], 0}
    PROVE  Total(q) <= Total(p)
<1> DEFINE f == [r \in Senders |-> Largest({p[r]})]
           g == [r \in Senders |-> Largest({q[r]})]
<1>1. \A s \in Senders : /\ f[s] = Positive(p[s]) /\ f[s] \in Nat
                         /\ g[s] = Positive(q[s]) /\ g[s] \in Nat
  BY PartsOfTotal
<1> HIDE DEF f, g
<1>2. \A s \in Senders : g[s] \in {f[s], 0}
  BY <1>1 DEF Positive
<1>3. \A s \in Senders : f[s] \in Int /\ g[s] \in Int /\ g[s] <= f[s]
  BY <1>1, <1>2
<1>4. SumFunctionOnSet(g, Senders) <= SumFunctionOnSet(f, Senders)
  BY <1>3, SenderCount, SumAtMost
<1> QED
  BY <1>4 DEF f, g, Total

(* One order changes; all the others together are within their bound.      *)
LEMMA TotalUpdated ==
    ASSUME NEW p \in Flows, NEW q \in Flows, NEW s \in Senders,
           \A r \in Senders \ {s} : q[r] = p[r]
    PROVE  /\ Total(q) = Total(p) - Positive(p[s]) + Positive(q[s])
           /\ Total(q) <= Positive(q[s]) + (Cardinality(Senders) - 1) * LargestIntent
<1> DEFINE f == [r \in Senders |-> Largest({p[r]})]
           g == [r \in Senders |-> Largest({q[r]})]
<1>1. \A r \in Senders : /\ f[r] = Positive(p[r]) /\ f[r] \in Int
                         /\ g[r] = Positive(q[r]) /\ g[r] \in Int /\ g[r] <= LargestIntent
  BY PartsOfTotal
<1>2. IsFiniteSet(Senders) /\ IsFiniteSet(Senders \ {s}) /\ LargestIntent \in Nat
      /\ Cardinality(Senders \ {s}) = Cardinality(Senders) - 1
  BY SenderCount, IntentBound, FS_RemoveElement
<1>3. \A r \in Senders \ {s} : f[r] = g[r]
  OBVIOUS
<1> HIDE DEF f, g
<1>4. SumFunctionOnSet(g, Senders) = SumFunctionOnSet(f, Senders) - f[s] + g[s]
  BY <1>1, <1>2, <1>3, SumUpdated
<1>5. SumFunctionOnSet(g, Senders) = g[s] + SumFunctionOnSet(g, Senders \ {s})
  BY <1>1, <1>2, SumWithout
<1>6. SumFunctionOnSet(g, Senders \ {s}) <= Cardinality(Senders \ {s}) * LargestIntent
  BY <1>1, <1>2, SumWithin
<1>7. SumFunctionOnSet(g, Senders \ {s}) \in Int
  BY <1>1, <1>2, SumType
<1> DEFINE n == Cardinality(Senders \ {s}) * LargestIntent
<1>8. n \in Int /\ n = (Cardinality(Senders) - 1) * LargestIntent
  BY <1>2, FS_CardinalityType
<1> HIDE DEF n
<1>9. SumFunctionOnSet(g, Senders) <= g[s] + n
  BY <1>1, <1>5, <1>6, <1>7, <1>8 DEF n
<1> QED
  BY <1>1, <1>4, <1>8, <1>9 DEF f, g, Total

(* The exposure on one side: the position, the fill that is not in it yet, *)
(* and what may still be filled.                                           *)
Exposed(pos, rec, p) ==
    pos + (Positive(rec) + Total(p)) <= MaxPosition + Cardinality(Senders) * LargestIntent

LEMMA ExposedShrinks ==
    ASSUME NEW pos \in Int, NEW rec \in Int, NEW p \in Flows, NEW q \in Flows,
           Exposed(pos, rec, p), \A s \in Senders : q[s] \in {p[s], 0}
    PROVE  Exposed(pos, rec, q)
<1> DEFINE n == Cardinality(Senders) * LargestIntent
<1>1. Total(q) <= Total(p) /\ Total(p) \in Nat /\ Total(q) \in Nat /\ Positive(rec) \in Nat
  BY TotalShrinks, TotalBound DEF Positive
<1>2. MaxPosition \in Nat /\ n \in Nat
  BY BreakerConstants, SenderCount, IntentBound
<1>3. pos + (Positive(rec) + Total(p)) <= MaxPosition + n
  BY DEF Exposed
<1> HIDE DEF n
<1>4. pos + (Positive(rec) + Total(q)) <= MaxPosition + n
  BY <1>1, <1>2, <1>3
<1> QED
  BY <1>4 DEF n, Exposed

(* The position guard lets an order pass: the others together are one      *)
(* order fewer, and the fill being recorded is one.                        *)
LEMMA ExposedPass ==
    ASSUME NEW pos \in Int, NEW rec \in Quantities, NEW p \in Flows, NEW q \in Flows,
           Exposed(pos, rec, p), NEW s \in Senders, p[s] = 0, pos + q[s] <= MaxPosition,
           \A r \in Senders \ {s} : q[r] = p[r]
    PROVE  Exposed(pos, rec, q)
<1> DEFINE N == Cardinality(Senders)
           n == N * LargestIntent
           m == (N - 1) * LargestIntent
           a == q[s]
<1>1. /\ Total(q) = Total(p) - Positive(p[s]) + Positive(a) /\ Total(q) <= Positive(a) + m
      /\ Total(p) \in Nat /\ Total(q) \in Nat
  BY TotalUpdated, TotalBound
<1>2. MaxPosition \in Nat /\ LargestIntent \in Nat /\ N \in Nat \ {0}
  BY BreakerConstants, SenderCount, IntentBound
<1>3. n \in Int /\ m \in Int /\ m + LargestIntent = n
  BY <1>2
<1>4. rec \in Int /\ Positive(rec) <= LargestIntent /\ a \in Int /\ pos + a <= MaxPosition
  BY IntentBound DEF Flows
<1>5. pos + (Positive(rec) + Total(p)) <= MaxPosition + n
  BY DEF Exposed
<1>6. p[s] = 0 /\ Positive(p[s]) = 0
  BY DEF Positive
<1> HIDE DEF N, n, m, a
<1>7. CASE a > 0
  <2>1. Positive(a) = a
    BY <1>7 DEF Positive
  <2>2. Positive(rec) \in Nat
    BY <1>4 DEF Positive
  <2>3. pos + (Positive(rec) + Total(q)) <= MaxPosition + n
    BY <1>1, <1>2, <1>3, <1>4, <2>1, <2>2
  <2> QED
    BY <2>3 DEF Exposed, n, N
<1>8. CASE ~(a > 0)
  <2>1. Positive(a) = 0
    BY <1>8 DEF Positive
  <2>2. Total(q) = Total(p)
    BY <1>1, <1>6, <2>1
  <2> QED
    BY <2>2 DEF Exposed
<1> QED
  BY <1>7, <1>8

(* A fill moves from the venue to the report.                              *)
LEMMA FillMoves ==
    ASSUME NEW p \in Flows, NEW q \in Flows, NEW s \in Senders, NEW f \in Int,
           f = p[s] - q[s],
           \/ 0 <= f /\ f <= p[s]
           \/ p[s] <= f /\ f <= 0,
           \A r \in Senders \ {s} : q[r] = p[r]
    PROVE  Positive(f) + Total(q) = Total(p)
<1>1. Total(q) = Total(p) - Positive(p[s]) + Positive(q[s]) /\ Total(p) \in Nat /\ Total(q) \in Nat
  BY TotalUpdated, TotalBound
<1>2. p[s] \in Int /\ q[s] \in Int
  BY IntentBound DEF Flows
<1>3. Positive(f) + Positive(q[s]) = Positive(p[s])
  BY <1>2 DEF Positive
<1>4. Positive(f) \in Int /\ Positive(q[s]) \in Int /\ Positive(p[s]) \in Int
  BY <1>2 DEF Positive
<1> QED
  BY <1>1, <1>3, <1>4

LEMMA NothingTotal ==
    ASSUME NEW p \in Flows, \A s \in Senders : p[s] = 0
    PROVE  Total(p) = 0
<1> DEFINE f == [r \in Senders |-> Largest({p[r]})]
<1>1. \A s \in Senders : f[s] \in Int /\ f[s] <= 0
  BY PartsOfTotal DEF Positive
<1> HIDE DEF f
<1>2. SumFunctionOnSet(f, Senders) <= Cardinality(Senders) * 0
  BY <1>1, SenderCount, SumWithin
<1>3. Total(p) <= 0
  BY <1>2, SenderCount DEF f, Total
<1> QED
  BY <1>3, TotalBound

(* The loss: the cash flow, and what may still be spent.                   *)
Spending(rec, p) == Positive(rec) + Total(p)

Lossy(c, n) ==
    c - Largest(Prices) * n
        >= -MaxDailyLoss - Largest(Prices) * LargestIntent * (Cardinality(Senders) + 1)

LEMMA LossyShrinks ==
    ASSUME NEW c \in Int, NEW n \in Nat, NEW m \in Nat, m <= n, Lossy(c, n)
    PROVE  Lossy(c, m)
<1> DEFINE M == Largest(Prices)
           k == -MaxDailyLoss - M * LargestIntent * (Cardinality(Senders) + 1)
<1>1. M \in Nat /\ k \in Int
  BY PriceBound, BreakerConstants, SenderCount, IntentBound
<1>2. c - M * n >= k
  BY DEF Lossy
<1> HIDE DEF M, k
<1>3. PICK d \in Nat : n = m + d
  <2>1. n - m \in Nat /\ n = m + (n - m)
    OBVIOUS
  <2> QED
    BY <2>1
<1>4. M * n = M * m + M * d /\ M * d \in Nat /\ M * m \in Int
  BY <1>1, <1>3
<1>5. c - M * m >= k
  BY <1>1, <1>2, <1>4
<1> QED
  BY <1>5 DEF M, k, Lossy

(* A loss within the limit, and one order for each sender and the report.  *)
LEMMA LossyPass ==
    ASSUME NEW c \in Int, c >= -MaxDailyLoss, NEW n \in Nat,
           n <= LargestIntent * (Cardinality(Senders) + 1)
    PROVE  Lossy(c, n)
<1> DEFINE M == Largest(Prices)
           m == LargestIntent * (Cardinality(Senders) + 1)
<1>1. M \in Nat /\ m \in Nat /\ MaxDailyLoss \in Nat
  BY PriceBound, BreakerConstants, SenderCount, IntentBound
<1>2. M * LargestIntent * (Cardinality(Senders) + 1) = M * m
  BY PriceBound, SenderCount, IntentBound
<1> HIDE DEF M, m
<1>3. c - M * m >= -MaxDailyLoss - M * m
  <2> DEFINE k == M * m
  <2>1. k \in Int
    BY <1>1
  <2> HIDE DEF k
  <2>2. c - k >= -MaxDailyLoss - k
    BY <1>1, <2>1
  <2> QED
    BY <2>2 DEF k
<1>4. Lossy(c, m)
  BY <1>2, <1>3 DEF M, Lossy
<1> QED
  BY <1>1, <1>4, LossyShrinks DEF m

(* A fill is paid for, at no more than the largest price.                  *)
LEMMA LossyPaid ==
    ASSUME NEW c \in Int, NEW f \in Int, NEW price \in Prices, NEW t \in Nat,
           Lossy(c, Positive(f) + t)
    PROVE  Lossy(c - f * price, t)
<1> DEFINE M == Largest(Prices)
           k == -MaxDailyLoss - M * LargestIntent * (Cardinality(Senders) + 1)
<1>1. M \in Nat /\ k \in Int /\ price \in Nat /\ price <= M
  BY PriceBound, BreakerConstants, SenderCount, IntentBound
<1>2. c - M * (Positive(f) + t) >= k
  BY DEF Lossy
<1> HIDE DEF M, k
<1>3. Positive(f) \in Nat
  BY DEF Positive
<1>4. M * (Positive(f) + t) = M * Positive(f) + M * t /\ M * t \in Int /\ M * Positive(f) \in Int
  BY <1>1, <1>3
<1>5. f * price \in Int /\ f * price <= M * Positive(f)
  <2>1. CASE f > 0
    <3>1. Positive(f) = f
      BY <2>1 DEF Positive
    <3>2. PICK d \in Nat : M = price + d
      <4>1. M - price \in Nat /\ M = price + (M - price)
        BY <1>1
      <4> QED
        BY <4>1
    <3>3. M * f = f * price + d * f /\ d * f \in Nat /\ f * price \in Int
      BY <1>1, <2>1, <3>2
    <3> QED
      BY <3>1, <3>3
  <2>2. CASE ~(f > 0)
    <3>1. Positive(f) = 0 /\ -f \in Nat
      BY <2>2 DEF Positive
    <3>2. (-f) * price \in Nat /\ f * price \in Int /\ f * price = -((-f) * price)
      BY <1>1, <3>1
    <3> QED
      BY <1>1, <3>1, <3>2
  <2> QED
    BY <2>1, <2>2
<1>6. (c - f * price) - M * t >= k
  BY <1>1, <1>2, <1>4, <1>5
<1> QED
  BY <1>6 DEF M, k, Lossy

-----------------------------------------------------------------------------
(* The totals and the limits.                                              *)

Under(past) == [s \in Senders |-> Pending(s, past)]

LEMMA NegatedQuantity == \A q \in Quantities : q \in Int /\ -q \in Int /\ -q \in Quantities
BY IntentBound DEF Quantities, Abs

LEMMA FlowTotals ==
    ASSUME NEW rec \in Quantities, NEW p \in Flows
    PROVE  /\ rec \in Int /\ -rec \in Quantities
           /\ Largest({rec}) + SumFunctionOnSet([s \in Senders |-> Largest({p[s]})], Senders)
                  = Spending(rec, p)
           /\ Largest({-rec}) + SumFunctionOnSet([s \in Senders |-> Largest({-p[s]})], Senders)
                  = Spending(-rec, Negated(p))
<1>1. rec \in Int /\ -rec \in Int /\ -rec \in Quantities
  BY IntentBound DEF Quantities, Abs
<1>2. Largest({rec}) = Positive(rec) /\ Largest({-rec}) = Positive(-rec)
  BY <1>1, LargestOfOne
<1>3. [s \in Senders |-> Largest({-p[s]})] = [s \in Senders |-> Largest({Negated(p)[s]})]
  BY DEF Negated
<1> QED
  BY <1>1, <1>2, <1>3 DEF Spending, Total

(* What Buys and Sells are, in a state ...                                 *)
LEMMA FlowsNow ==
    ASSUME Typed, NEW stages, NEW past
    PROVE  /\ Under(past) \in Flows /\ Recording(stages) \in Quantities
           /\ Buys(stages, past) = Spending(Recording(stages), Under(past))
           /\ Sells(stages, past) = Spending(-Recording(stages), Negated(Under(past)))
<1>1. \A s \in Senders : want[s] \in Quantities /\ open[s] \in Quantities
  BY IntentBound DEF Typed
<1>2. Under(past) \in Flows
  BY <1>1 DEF Under, Pending, Flows
<1>3. Recording(stages) \in Quantities
  <2>1. 0 \in Quantities /\ fill.qty \in Quantities
    BY IntentBound DEF Typed
  <2> QED
    BY <2>1 DEF Recording
<1>4. /\ [s \in Senders |-> Largest({Pending(s, past)})]
             = [s \in Senders |-> Largest({Under(past)[s]})]
      /\ [s \in Senders |-> Largest({-Pending(s, past)})]
             = [s \in Senders |-> Largest({-Under(past)[s]})]
  BY DEF Under
<1> QED
  BY <1>2, <1>3, <1>4, FlowTotals DEF Buys, Sells

(* ... and in the next.                                                    *)
LEMMA FlowsNext ==
    ASSUME Typed', NEW CONSTANT stages, NEW CONSTANT past
    PROVE  /\ Under(past)' \in Flows /\ Recording(stages)' \in Quantities
           /\ Buys(stages, past)' = Spending(Recording(stages)', Under(past)')
           /\ Sells(stages, past)' = Spending(-Recording(stages)', Negated(Under(past)'))
<1>1. \A s \in Senders : want'[s] \in Quantities /\ open'[s] \in Quantities
  BY IntentBound DEF Typed
<1>2. Under(past)' \in Flows
  BY <1>1 DEF Under, Pending, Flows
<1>3. Recording(stages)' \in Quantities
  <2>1. 0 \in Quantities /\ fill'.qty \in Quantities
    BY IntentBound DEF Typed
  <2> QED
    BY <2>1 DEF Recording
<1> DEFINE p == Under(past)'
<1>4. /\ [s \in Senders |-> Largest({Pending(s, past)'})] = [s \in Senders |-> Largest({p[s]})]
      /\ [s \in Senders |-> Largest({-Pending(s, past)'})] = [s \in Senders |-> Largest({-p[s]})]
  BY DEF Under
<1> HIDE DEF p
<1>5. /\ Largest({Recording(stages)'}) + SumFunctionOnSet([s \in Senders |-> Largest({p[s]})], Senders)
             = Spending(Recording(stages)', p)
      /\ Largest({-Recording(stages)'}) + SumFunctionOnSet([s \in Senders |-> Largest({-p[s]})], Senders)
             = Spending(-Recording(stages)', Negated(p))
  BY <1>2, <1>3, FlowTotals DEF p
<1> QED
  BY <1>2, <1>3, <1>4, <1>5 DEF Buys, Sells, p

(* Both sides of the exposure.                                             *)
BothExposed(pos, rec, p) == Exposed(pos, rec, p) /\ Exposed(-pos, -rec, Negated(p))

LEMMA ExposureNow ==
    ASSUME Typed
    PROVE  ExposureBounded <=>
           ("position" \in guards =>
                BothExposed(position, Recording({"position"}), Under(PastPosition)))
BY FlowsNow DEF ExposureBounded, BothExposed, Exposed, Spending

LEMMA ExposureNext ==
    ASSUME Typed'
    PROVE  ExposureBounded' <=>
           ("position" \in guards' =>
                BothExposed(position', Recording({"position"})', Under(PastPosition)'))
<1>1. /\ Buys({"position"}, PastPosition)'
             = Spending(Recording({"position"})', Under(PastPosition)')
      /\ Sells({"position"}, PastPosition)'
             = Spending(-Recording({"position"})', Negated(Under(PastPosition)'))
  BY FlowsNext
<1> QED
  BY <1>1 DEF ExposureBounded, BothExposed, Exposed, Spending

LEMMA LossNow ==
    ASSUME Typed
    PROVE  LossBounded <=>
           ("loss" \in guards =>
                Lossy(cash, Spending(Recording({"position", "cash"}), Under(PastLoss))))
BY FlowsNow DEF LossBounded, Lossy

LEMMA LossNext ==
    ASSUME Typed'
    PROVE  LossBounded' <=>
           ("loss" \in guards' =>
                Lossy(cash', Spending(Recording({"position", "cash"})', Under(PastLoss)')))
<1>1. Buys({"position", "cash"}, PastLoss)'
             = Spending(Recording({"position", "cash"})', Under(PastLoss)')
  BY FlowsNext
<1> QED
  BY <1>1 DEF LossBounded, Lossy

(* What a sender may still add stays or goes, for every sender.            *)
Shrinks(past) == \A s \in Senders : Pending(s, past)' \in {Pending(s, past), 0}

LEMMA CheckShrinks ==
    ASSUME Typed, Held, NEW s \in Senders,
           \/ Check(s) \/ RateGuard(s) \/ OrdersRead(s) \/ RatioGuard(s) \/ Allow(s) \/ Block(s)
    PROVE  Shrinks(PastPosition) /\ Shrinks(PastLoss)
<1>f. pc \in [Senders -> Stages] /\ want \in [Senders -> Intents \cup {0}] /\ open \in [Senders -> Quantities]
  BY DEF Typed
<1>1. CASE Check(s)
  <2>1. /\ open[s] = 0 /\ UNCHANGED open /\ pc' = [pc EXCEPT ![s] = "rate"]
        /\ \A r \in Senders \ {s} : want'[r] = want[r]
    BY <1>1, <1>f DEF Check, Goto
  <2> QED
    BY <1>f, <2>1 DEF Shrinks, Pending, PastPosition, PastLoss
<1>2. CASE RateGuard(s)
  <2>1. /\ pc[s] = "rate" /\ UNCHANGED <<open, want>>
        /\ pc' = [pc EXCEPT ![s] = "position"] \/ pc' = [pc EXCEPT ![s] = "latch"]
    BY <1>2 DEF RateGuard, Pass, Trip, Goto
  <2> QED
    BY <1>f, <2>1 DEF Shrinks, Pending, PastPosition, PastLoss
<1>3. CASE OrdersRead(s)
  <2>1. /\ pc[s] = "orders" /\ UNCHANGED <<open, want>>
        /\ pc' = [pc EXCEPT ![s] = "trades"] \/ pc' = [pc EXCEPT ![s] = "count"]
    BY <1>3 DEF OrdersRead, Pass, Goto
  <2> QED
    BY <1>f, <2>1 DEF Shrinks, Pending, PastPosition, PastLoss
<1>4. CASE RatioGuard(s)
  <2>1. /\ pc[s] = "trades" /\ open[s] = 0 /\ UNCHANGED <<open, want>>
        /\ pc' = [pc EXCEPT ![s] = "count"] \/ pc' = [pc EXCEPT ![s] = "latch"]
    BY <1>4 DEF RatioGuard, Pass, Trip, Goto, Held
  <2> QED
    BY <1>f, <2>1 DEF Shrinks, Pending, PastPosition, PastLoss
<1>5. CASE Allow(s)
  <2>1. /\ pc[s] = "count" /\ open' = [open EXCEPT ![s] = want[s]]
        /\ want' = [want EXCEPT ![s] = 0] /\ pc' = [pc EXCEPT ![s] = "idle"]
    BY <1>5 DEF Allow, Pass, Goto
  <2> QED
    BY <1>f, <2>1 DEF Shrinks, Pending, PastPosition, PastLoss
<1>6. CASE Block(s)
  <2>1. /\ pc[s] = "latch" /\ UNCHANGED open
        /\ want' = [want EXCEPT ![s] = 0] /\ pc' = [pc EXCEPT ![s] = "idle"]
    BY <1>6 DEF Block, Goto
  <2> QED
    BY <1>f, <2>1 DEF Shrinks, Pending, PastPosition, PastLoss
<1> QED
  BY <1>1, <1>2, <1>3, <1>4, <1>5, <1>6

(* A guard that trips takes the order out; one that passes leaves the      *)
(* other total alone.                                                      *)
LEMMA GuardShrinks ==
    ASSUME Typed, Held, NEW s \in Senders
    PROVE  /\ PositionGuard(s) => Shrinks(PastLoss)
           /\ LossGuard(s) => Shrinks(PastPosition)
           /\ PositionGuard(s) /\ pc'[s] # "loss" => Shrinks(PastPosition)
           /\ LossGuard(s) /\ pc'[s] # "orders" => Shrinks(PastLoss)
<1>f. pc \in [Senders -> Stages] /\ want \in [Senders -> Intents \cup {0}] /\ open \in [Senders -> Quantities]
  BY DEF Typed
<1>1. ASSUME PositionGuard(s)
      PROVE  /\ pc[s] = "position" /\ open[s] = 0 /\ UNCHANGED <<open, want>>
             /\ pc' = [pc EXCEPT ![s] = "loss"] \/ pc' = [pc EXCEPT ![s] = "latch"]
  BY <1>1 DEF PositionGuard, Pass, Trip, Goto, Held
<1>2. ASSUME LossGuard(s)
      PROVE  /\ pc[s] = "loss" /\ open[s] = 0 /\ UNCHANGED <<open, want>>
             /\ pc' = [pc EXCEPT ![s] = "orders"] \/ pc' = [pc EXCEPT ![s] = "latch"]
  BY <1>2 DEF LossGuard, Pass, Trip, Goto, Held
<1> QED
  BY <1>f, <1>1, <1>2 DEF Shrinks, Pending, PastPosition, PastLoss

LEMMA OtherShrinks ==
    ASSUME Typed, Held,
           \/ OrderDies
           \/ UNCHANGED <<pc, want, open>>
    PROVE  Shrinks(PastPosition) /\ Shrinks(PastLoss)
<1>f. pc \in [Senders -> Stages] /\ open \in [Senders -> Quantities]
  BY DEF Typed
<1>1. CASE OrderDies
  <2>1. PICK s \in Senders : open[s] # 0 /\ open' = [open EXCEPT ![s] = 0]
    BY <1>1 DEF OrderDies
  <2>2. pc[s] = "idle" /\ UNCHANGED <<pc, want>>
    BY <1>1, <2>1 DEF OrderDies, Held
  <2> QED
    BY <1>f, <2>1, <2>2 DEF Shrinks, Pending, PastPosition, PastLoss
<1>2. CASE UNCHANGED <<pc, want, open>>
  BY <1>2 DEF Shrinks, Pending
<1> QED
  BY <1>1, <1>2

(* An execution: what leaves the venue is in the report.                   *)
LEMMA FillTradeMoves ==
    ASSUME Typed, Held, FillTrade, NEW past \in {PastPosition, PastLoss}
    PROVE  /\ fill = NoFill /\ fill'.stage = "position"
           /\ \E s \in Senders, q \in Int :
                 /\ fill'.qty = q
                 /\ Under(past)'[s] = Under(past)[s] - q
                 /\ \/ 0 <= q /\ q <= Under(past)[s]
                    \/ Under(past)[s] <= q /\ q <= 0
                 /\ \A r \in Senders \ {s} : Under(past)'[r] = Under(past)[r]
<1>1. PICK s \in Senders : \E q \in PartOf(open[s]) :
          /\ open[s] # 0 /\ open' = [open EXCEPT ![s] = @ - q]
          /\ fill' = [stage |-> "position", qty |-> q]
  BY DEF FillTrade
<1>2. PICK q \in PartOf(open[s]) :
          /\ open[s] # 0 /\ open' = [open EXCEPT ![s] = @ - q]
          /\ fill' = [stage |-> "position", qty |-> q]
  BY <1>1
<1>3. open[s] \in Int
  BY IntentBound DEF Typed
<1>4. q \in Int /\ ((0 <= q /\ q <= open[s]) \/ (open[s] <= q /\ q <= 0))
  <2> DEFINE o == open[s]
  <2>1. o \in Int /\ q \in PartOf(o)
    BY <1>2, <1>3
  <2> HIDE DEF o
  <2>2. q \in Int /\ (o > 0 => 0 <= q /\ q <= o) /\ (~(o > 0) => o <= q /\ q <= 0)
    BY ONLY <2>1 DEF PartOf
  <2>3. (0 <= q /\ q <= o) \/ (o <= q /\ q <= 0)
    BY ONLY <2>2
  <2> QED
    BY <2>2, <2>3 DEF o
<1>5. pc[s] = "idle" /\ UNCHANGED <<pc, want>> /\ open \in [Senders -> Quantities]
  BY <1>2 DEF FillTrade, Held, Typed
<1>6. "idle" \notin past
  BY DEF PastPosition, PastLoss
<1>7. Under(past)[s] = open[s] /\ Under(past)'[s] = open'[s]
  BY <1>5, <1>6 DEF Under, Pending
<1>8. open'[s] = open[s] - q /\ \A r \in Senders \ {s} : open'[r] = open[r]
  BY <1>2, <1>5
<1>9. \A r \in Senders \ {s} : Under(past)'[r] = Under(past)[r]
  BY <1>5, <1>8 DEF Under, Pending
<1>10. fill'.qty = q /\ fill'.stage = "position" /\ fill = NoFill
  BY <1>2 DEF FillTrade
<1> QED
  BY <1>4, <1>7, <1>8, <1>9, <1>10

(* Each action on the exposure.                                            *)
LEMMA BothShrink ==
    ASSUME NEW pos \in Int, NEW rec \in Int, NEW p \in Flows, NEW q \in Flows,
           BothExposed(pos, rec, p), \A s \in Senders : q[s] \in {p[s], 0}
    PROVE  BothExposed(pos, rec, q)
<1>1. Negated(p) \in Flows /\ Negated(q) \in Flows
  BY NegatedFlow
<1>2. \A s \in Senders : Negated(q)[s] \in {Negated(p)[s], 0}
  BY DEF Negated
<1>3. Exposed(pos, rec, q)
  BY ExposedShrinks DEF BothExposed
<1>4. -pos \in Int /\ -rec \in Int
  OBVIOUS
<1>5. Exposed(-pos, -rec, Negated(q))
  BY <1>1, <1>2, <1>4, ExposedShrinks DEF BothExposed
<1> QED
  BY <1>3, <1>5 DEF BothExposed

LEMMA BothPass ==
    ASSUME NEW pos \in Int, NEW rec \in Quantities, NEW p \in Flows, NEW q \in Flows,
           BothExposed(pos, rec, p), NEW s \in Senders, p[s] = 0,
           Abs(pos + q[s]) <= MaxPosition, \A r \in Senders \ {s} : q[r] = p[r]
    PROVE  BothExposed(pos, rec, q)
<1>1. Negated(p) \in Flows /\ Negated(q) \in Flows
  BY NegatedFlow
<1>2. q[s] \in Int /\ MaxPosition \in Nat
  BY IntentBound, BreakerConstants DEF Flows
<1>3. pos + q[s] <= MaxPosition /\ -pos + -q[s] <= MaxPosition
  BY <1>2 DEF Abs
<1>4. rec \in Int /\ -rec \in Quantities /\ -pos \in Int
  BY NegatedQuantity
<1>5. /\ Negated(p)[s] = 0 /\ Negated(q)[s] = -q[s]
      /\ \A r \in Senders \ {s} : Negated(q)[r] = Negated(p)[r]
  BY DEF Negated
<1>6. Exposed(pos, rec, q)
  BY <1>3, ExposedPass DEF BothExposed
<1>7. Exposed(-pos, -rec, Negated(p)) /\ -pos + Negated(q)[s] <= MaxPosition
  BY <1>3, <1>5 DEF BothExposed
<1>8. Exposed(-pos, -rec, Negated(q))
  BY <1>1, <1>4, <1>5, <1>7, ExposedPass
<1> QED
  BY <1>6, <1>8 DEF BothExposed

(* The parts of an execution, as a relation of what was under way.         *)
Moves(p, q, f) ==
    \E s \in Senders :
        /\ q[s] = p[s] - f
        /\ \/ 0 <= f /\ f <= p[s]
           \/ p[s] <= f /\ f <= 0
        /\ \A r \in Senders \ {s} : q[r] = p[r]

LEMMA MovesTotal ==
    ASSUME NEW p \in Flows, NEW q \in Flows, NEW f \in Int, Moves(p, q, f)
    PROVE  Spending(f, q) = Spending(0, p) /\ Spending(-f, Negated(q)) = Spending(0, Negated(p))
<1>1. PICK s \in Senders :
        /\ q[s] = p[s] - f
        /\ \/ 0 <= f /\ f <= p[s]
           \/ p[s] <= f /\ f <= 0
        /\ \A r \in Senders \ {s} : q[r] = p[r]
  BY DEF Moves
<1>2. p[s] \in Int /\ q[s] \in Int
  BY IntentBound DEF Flows
<1>3. Positive(f) + Total(q) = Total(p)
  <2>1. f = p[s] - q[s]
    BY <1>1, <1>2
  <2> QED
    BY <1>1, <2>1, FillMoves
<1>4. Negated(p) \in Flows /\ Negated(q) \in Flows
  BY NegatedFlow
<1>5. /\ Negated(p)[s] = -p[s] /\ Negated(q)[s] = -q[s]
      /\ \A r \in Senders \ {s} : Negated(q)[r] = Negated(p)[r]
  BY <1>1 DEF Negated
<1>6. Positive(-f) + Total(Negated(q)) = Total(Negated(p))
  <2> DEFINE g == -f
  <2>1. g \in Int /\ g = Negated(p)[s] - Negated(q)[s]
    BY <1>1, <1>2, <1>5
  <2>2. \/ 0 <= g /\ g <= Negated(p)[s]
        \/ Negated(p)[s] <= g /\ g <= 0
    BY <1>1, <1>2, <1>5
  <2> HIDE DEF g
  <2>3. Positive(g) + Total(Negated(q)) = Total(Negated(p))
    BY <1>4, <1>5, <2>1, <2>2, FillMoves
  <2> QED
    BY <2>3 DEF g
<1>7. Positive(0) = 0 /\ Total(p) \in Nat /\ Total(Negated(p)) \in Nat
  BY <1>4, TotalBound DEF Positive
<1> QED
  BY <1>3, <1>6, <1>7 DEF Spending

LEMMA ExposureStep ==
    ASSUME Typed, Held, Typed', ExposureBounded, [BreakerNext]_vars
    PROVE  ExposureBounded'
<1> DEFINE p == Under(PastPosition)
           q == Under(PastPosition)'
           rec == Recording({"position"})
           rec2 == Recording({"position"})'
<1>0. /\ p \in Flows /\ q \in Flows /\ rec \in Quantities /\ rec2 \in Quantities
      /\ rec \in Int /\ rec2 \in Int /\ position \in Int
  <2>1. p \in Flows /\ rec \in Quantities
    BY FlowsNow
  <2>2. q \in Flows /\ rec2 \in Quantities
    BY FlowsNext
  <2> QED
    BY <2>1, <2>2, FlowTotals DEF Typed
<1>i. UNCHANGED guards
  BY DEF BreakerNext, vars
<1> SUFFICES ASSUME "position" \in guards, BothExposed(position, rec, p)
             PROVE  BothExposed(position', rec2, q)
  BY <1>i, ExposureNow, ExposureNext
<1>s. ASSUME Shrinks(PastPosition) PROVE \A s \in Senders : q[s] \in {p[s], 0}
  BY <1>s DEF Shrinks, Under
<1>1. ASSUME Shrinks(PastPosition), position' = position, rec2 = rec
      PROVE  BothExposed(position', rec2, q)
  <2>1. \A s \in Senders : q[s] \in {p[s], 0}
    BY <1>1, <1>s
  <2> HIDE DEF p, q, rec, rec2
  <2>2. BothExposed(position, rec, q)
    BY <1>0, <2>1, BothShrink
  <2> QED
    BY <1>1, <2>2
<1>2. ASSUME NEW s \in Senders,
             \/ Check(s) \/ RateGuard(s) \/ OrdersRead(s) \/ RatioGuard(s) \/ Allow(s) \/ Block(s)
      PROVE  BothExposed(position', rec2, q)
  <2>1. position' = position /\ fill' = fill
    BY <1>2 DEF Check, RateGuard, OrdersRead, RatioGuard, Allow, Block, totals, others
  <2> QED
    BY <1>1, <1>2, <2>1, CheckShrinks DEF Recording
<1>3. ASSUME NEW s \in Senders, PositionGuard(s) PROVE BothExposed(position', rec2, q)
  <2>1. position' = position /\ fill' = fill
    BY <1>3 DEF PositionGuard, totals, others
  <2>2. rec2 = rec
    BY <2>1 DEF Recording
  <2>3. CASE pc'[s] # "loss"
    BY <1>1, <1>3, <2>1, <2>2, <2>3, GuardShrinks
  <2>4. CASE pc'[s] = "loss"
    <3>f. pc \in [Senders -> Stages]
      BY DEF Typed
    <3>1. /\ pc[s] = "position" /\ open[s] = 0 /\ UNCHANGED <<open, want>>
          /\ pc' = [pc EXCEPT ![s] = "loss"]
          /\ ~(Abs(position + want[s]) > MaxPosition)
      BY <1>3, <2>4, <3>f DEF PositionGuard, Pass, Trip, Goto, Held
    <3>2. p[s] = 0 /\ q[s] = want[s] /\ \A r \in Senders \ {s} : q[r] = p[r]
      BY <3>1, <3>f DEF Under, Pending, PastPosition
    <3>3. want[s] \in Int /\ MaxPosition \in Nat
      BY IntentBound, BreakerConstants DEF Typed
    <3>4. Abs(position + want[s]) <= MaxPosition
      BY <1>0, <3>1, <3>3 DEF Abs
    <3>5. Abs(position + q[s]) <= MaxPosition
      BY <3>2, <3>4
    <3> HIDE DEF p, q, rec, rec2
    <3>6. BothExposed(position, rec, q)
      BY <1>0, <3>2, <3>5, BothPass
    <3> QED
      BY <2>1, <2>2, <3>6
  <2> QED
    BY <2>3, <2>4
<1>4. ASSUME NEW s \in Senders, LossGuard(s) PROVE BothExposed(position', rec2, q)
  <2>1. position' = position /\ fill' = fill
    BY <1>4 DEF LossGuard, totals, others
  <2> QED
    BY <1>1, <1>4, <2>1, GuardShrinks DEF Recording
<1>5. ASSUME FillTrade PROVE BothExposed(position', rec2, q)
  <2>1. /\ fill = NoFill /\ fill'.stage = "position"
        /\ \E s \in Senders, f \in Int :
                 /\ fill'.qty = f
                 /\ q[s] = p[s] - f
                 /\ \/ 0 <= f /\ f <= p[s]
                    \/ p[s] <= f /\ f <= 0
                 /\ \A r \in Senders \ {s} : q[r] = p[r]
    BY <1>5, FillTradeMoves
  <2>2. rec = 0 /\ rec2 = fill'.qty /\ position' = position
    BY <1>5, <2>1 DEF Recording, FillTrade, NoFill
  <2> HIDE DEF p, q, rec, rec2
  <2>3. Moves(p, q, rec2)
    BY <2>1, <2>2 DEF Moves
  <2>4. Spending(rec2, q) = Spending(0, p) /\ Spending(-rec2, Negated(q)) = Spending(0, Negated(p))
    BY <1>0, <2>3, MovesTotal
  <2>5. Positive(0) = Positive(rec) /\ Positive(0) = Positive(-rec)
    BY <2>2 DEF Positive
  <2> QED
    BY <2>2, <2>4, <2>5 DEF BothExposed, Exposed, Spending
<1>6. ASSUME FillPosition PROVE BothExposed(position', rec2, q)
  <2>1. rec = fill.qty /\ rec2 = 0 /\ position' = position + rec /\ q = p
    BY <1>6 DEF FillPosition, Recording, checking, Under, Pending, Typed
  <2>2. Positive(0) = 0 /\ Positive(-0) = 0 /\ Positive(rec) >= rec /\ Positive(-rec) >= -rec
        /\ Positive(rec) \in Nat /\ Positive(-rec) \in Nat
    BY <1>0 DEF Positive
  <2>3. /\ Total(p) \in Nat /\ Total(Negated(p)) \in Nat
        /\ MaxPosition + Cardinality(Senders) * LargestIntent \in Int
    BY <1>0, NegatedFlow, TotalBound, BreakerConstants, SenderCount, IntentBound
  <2>4. /\ position + (Positive(rec) + Total(p)) <= MaxPosition + Cardinality(Senders) * LargestIntent
        /\ -position + (Positive(-rec) + Total(Negated(p)))
               <= MaxPosition + Cardinality(Senders) * LargestIntent
    BY DEF BothExposed, Exposed
  <2> DEFINE lim == MaxPosition + Cardinality(Senders) * LargestIntent
  <2> HIDE DEF p, q, rec, rec2, lim
  <2>5. /\ position' + (Positive(0) + Total(p)) <= lim
        /\ -position' + (Positive(-0) + Total(Negated(p))) <= lim
    BY <1>0, <2>1, <2>2, <2>3, <2>4 DEF lim
  <2> QED
    BY <2>1, <2>5 DEF BothExposed, Exposed, lim
<1>7. ASSUME FillCash PROVE BothExposed(position', rec2, q)
  <2>1. rec = 0 /\ rec2 = 0 /\ position' = position /\ UNCHANGED <<pc, want, open>>
    BY <1>7 DEF FillCash, Recording, NoFill, checking
  <2> QED
    BY <1>1, <2>1, OtherShrinks
<1>8. ASSUME OrderDies PROVE BothExposed(position', rec2, q)
  <2>1. position' = position /\ fill' = fill
    BY <1>8 DEF OrderDies, totals, others
  <2> QED
    BY <1>1, <1>8, <2>1, OtherShrinks DEF Recording
<1>9. ASSUME StartOfDay PROVE BothExposed(position', rec2, q)
  <2>1. position' = 0 /\ rec2 = 0 /\ \A s \in Senders : q[s] = 0
    BY <1>9 DEF StartOfDay, Recording, NoFill, checking, Under, Pending, PastPosition
  <2>2. Negated(q) \in Flows /\ \A s \in Senders : Negated(q)[s] = 0
    BY <1>0, <2>1, NegatedFlow DEF Negated
  <2> HIDE DEF p, q, rec, rec2
  <2>3. Total(q) = 0 /\ Total(Negated(q)) = 0
    BY <1>0, <2>1, <2>2, NothingTotal
  <2>4. MaxPosition \in Nat /\ Cardinality(Senders) * LargestIntent \in Nat
    BY BreakerConstants, SenderCount, IntentBound
  <2>5. Positive(0) = 0 /\ Positive(-0) = 0
    BY DEF Positive
  <2> QED
    BY <2>1, <2>3, <2>4, <2>5 DEF BothExposed, Exposed
<1>10. ASSUME UNCHANGED <<pc, want, open, fill, position>> PROVE BothExposed(position', rec2, q)
  BY <1>1, <1>10, OtherShrinks DEF Recording
<1>11. ASSUME \/ RecordGap \/ GapLatch \/ ManualHalt \/ Reset \/ ResetFlag \/ DayReset
              \/ SnapHalted \/ SnapReason \/ UNCHANGED vars
       PROVE  UNCHANGED <<pc, want, open, fill, position>>
  BY <1>11 DEF RecordGap, GapLatch, ManualHalt, Reset, ResetFlag, DayReset, SnapHalted,
               SnapReason, vars, totals, checking, others
<1> QED
  BY <1>2, <1>3, <1>4, <1>5, <1>6, <1>7, <1>8, <1>9, <1>10, <1>11 DEF BreakerNext, BreakerStep

(* Each action on the loss.                                                *)
LEMMA SpendingBound ==
    ASSUME NEW rec \in Quantities, NEW p \in Flows
    PROVE  /\ Spending(rec, p) \in Nat
           /\ Spending(rec, p) <= LargestIntent * (Cardinality(Senders) + 1)
<1> DEFINE n == Cardinality(Senders) * LargestIntent
           L == LargestIntent
<1>1. Total(p) \in Nat /\ Total(p) <= n
  BY TotalBound
<1>2. rec \in Int /\ Positive(rec) <= L
  BY IntentBound
<1>3. Positive(rec) \in Nat
  BY <1>2 DEF Positive
<1>4. L \in Nat /\ n \in Nat /\ L * (Cardinality(Senders) + 1) = n + L
  BY SenderCount, IntentBound
<1> HIDE DEF n, L
<1>5. Positive(rec) + Total(p) \in Nat /\ Positive(rec) + Total(p) <= n + L
  BY <1>1, <1>2, <1>3, <1>4
<1> QED
  BY <1>4, <1>5 DEF Spending, L

LEMMA SpendingShrinks ==
    ASSUME NEW rec \in Quantities, NEW p \in Flows, NEW q \in Flows,
           \A s \in Senders : q[s] \in {p[s], 0}
    PROVE  Spending(rec, q) <= Spending(rec, p)
<1>1. Total(q) <= Total(p) /\ Total(p) \in Nat /\ Total(q) \in Nat
  BY TotalShrinks, TotalBound
<1>2. Positive(rec) \in Int
  BY IntentBound DEF Positive
<1> QED
  BY <1>1, <1>2 DEF Spending

LEMMA LossStep ==
    ASSUME Typed, Held, Typed', LossBounded, [BreakerNext]_vars
    PROVE  LossBounded'
<1> DEFINE p == Under(PastLoss)
           q == Under(PastLoss)'
           rec == Recording({"position", "cash"})
           rec2 == Recording({"position", "cash"})'
<1>0. /\ p \in Flows /\ q \in Flows /\ rec \in Quantities /\ rec2 \in Quantities
      /\ rec \in Int /\ rec2 \in Int /\ cash \in Int /\ cash' \in Int
  <2>1. p \in Flows /\ rec \in Quantities
    BY FlowsNow
  <2>2. q \in Flows /\ rec2 \in Quantities
    BY FlowsNext
  <2> QED
    BY <2>1, <2>2, NegatedQuantity DEF Typed
<1>i. UNCHANGED guards
  BY DEF BreakerNext, vars
<1> SUFFICES ASSUME "loss" \in guards, Lossy(cash, Spending(rec, p))
             PROVE  Lossy(cash', Spending(rec2, q))
  BY <1>i, LossNow, LossNext
<1>n. Spending(rec, p) \in Nat /\ Spending(rec2, q) \in Nat
  BY <1>0, SpendingBound
<1>1. ASSUME Shrinks(PastLoss), cash' = cash, rec2 = rec PROVE Lossy(cash', Spending(rec2, q))
  <2>1. \A s \in Senders : q[s] \in {p[s], 0}
    BY <1>1 DEF Shrinks, Under
  <2> HIDE DEF p, q, rec, rec2
  <2>2. Spending(rec, q) <= Spending(rec, p)
    BY <1>0, <2>1, SpendingShrinks
  <2> QED
    BY <1>0, <1>1, <1>n, <2>2, LossyShrinks
<1>2. ASSUME NEW s \in Senders,
             \/ Check(s) \/ RateGuard(s) \/ OrdersRead(s) \/ RatioGuard(s) \/ Allow(s) \/ Block(s)
      PROVE  Lossy(cash', Spending(rec2, q))
  <2>1. cash' = cash /\ fill' = fill
    BY <1>2 DEF Check, RateGuard, OrdersRead, RatioGuard, Allow, Block, totals, others
  <2> QED
    BY <1>1, <1>2, <2>1, CheckShrinks DEF Recording
<1>3. ASSUME NEW s \in Senders, PositionGuard(s) PROVE Lossy(cash', Spending(rec2, q))
  <2>1. cash' = cash /\ fill' = fill
    BY <1>3 DEF PositionGuard, totals, others
  <2> QED
    BY <1>1, <1>3, <2>1, GuardShrinks DEF Recording
<1>4. ASSUME NEW s \in Senders, LossGuard(s) PROVE Lossy(cash', Spending(rec2, q))
  <2>1. cash' = cash /\ fill' = fill
    BY <1>4 DEF LossGuard, totals, others
  <2>2. CASE pc'[s] # "orders"
    BY <1>1, <1>4, <2>1, <2>2, GuardShrinks DEF Recording
  <2>3. CASE pc'[s] = "orders"
    <3>1. ~(cash < -MaxDailyLoss)
      <4>1. pc \in [Senders -> Stages]
        BY DEF Typed
      <4> QED
        BY <1>4, <2>3, <4>1 DEF LossGuard, Pass, Trip, Goto
    <3>2. MaxDailyLoss \in Nat
      BY BreakerConstants
    <3>3. cash >= -MaxDailyLoss
      BY <1>0, <3>1, <3>2
    <3>4. Spending(rec2, q) <= LargestIntent * (Cardinality(Senders) + 1)
      BY <1>0, SpendingBound
    <3> HIDE DEF p, q, rec, rec2
    <3> QED
      BY <1>0, <1>n, <2>1, <3>3, <3>4, LossyPass
  <2> QED
    BY <2>2, <2>3
<1>5. ASSUME FillTrade PROVE Lossy(cash', Spending(rec2, q))
  <2>1. /\ fill = NoFill /\ fill'.stage = "position"
        /\ \E s \in Senders, f \in Int :
                 /\ fill'.qty = f
                 /\ q[s] = p[s] - f
                 /\ \/ 0 <= f /\ f <= p[s]
                    \/ p[s] <= f /\ f <= 0
                 /\ \A r \in Senders \ {s} : q[r] = p[r]
    BY <1>5, FillTradeMoves
  <2>2. rec = 0 /\ rec2 = fill'.qty /\ cash' = cash
    BY <1>5, <2>1 DEF Recording, FillTrade, NoFill
  <2> HIDE DEF p, q, rec, rec2
  <2>3. Moves(p, q, rec2)
    BY <2>1, <2>2 DEF Moves
  <2>4. Spending(rec2, q) = Spending(0, p)
    BY <1>0, <2>3, MovesTotal
  <2> QED
    BY <2>2, <2>4
<1>6. ASSUME FillPosition PROVE Lossy(cash', Spending(rec2, q))
  <2>1. rec2 = rec /\ cash' = cash /\ UNCHANGED <<pc, want, open>>
    BY <1>6 DEF FillPosition, Recording, checking, Typed
  <2> QED
    BY <1>1, <2>1, OtherShrinks
<1>7. ASSUME FillCash PROVE Lossy(cash', Spending(rec2, q))
  <2>1. PICK price \in Prices : cash' = cash - fill.qty * price
    BY <1>7 DEF FillCash
  <2>2. rec = fill.qty /\ rec2 = 0 /\ q = p
    BY <1>7 DEF FillCash, Recording, NoFill, checking, Under, Pending
  <2>3. Total(p) \in Nat
    BY <1>0, TotalBound
  <2> HIDE DEF p, q, rec, rec2
  <2>4. Lossy(cash - rec * price, Total(p))
    BY <1>0, <2>3, LossyPaid DEF Spending
  <2>5. Spending(0, p) = Total(p)
    BY <2>3 DEF Spending, Positive
  <2> QED
    BY <2>1, <2>2, <2>4, <2>5
<1>8. ASSUME OrderDies PROVE Lossy(cash', Spending(rec2, q))
  <2>1. cash' = cash /\ fill' = fill
    BY <1>8 DEF OrderDies, totals, others
  <2> QED
    BY <1>1, <1>8, <2>1, OtherShrinks DEF Recording
<1>9. ASSUME StartOfDay PROVE Lossy(cash', Spending(rec2, q))
  <2>1. cash' = 0
    BY <1>9 DEF StartOfDay
  <2>2. Spending(rec2, q) <= LargestIntent * (Cardinality(Senders) + 1)
    BY <1>0, SpendingBound
  <2>3. 0 >= -MaxDailyLoss
    BY BreakerConstants
  <2> HIDE DEF p, q, rec, rec2
  <2> QED
    BY <1>n, <2>1, <2>2, <2>3, LossyPass
<1>10. ASSUME UNCHANGED <<pc, want, open, fill, cash>> PROVE Lossy(cash', Spending(rec2, q))
  BY <1>1, <1>10, OtherShrinks DEF Recording
<1>11. ASSUME \/ RecordGap \/ GapLatch \/ ManualHalt \/ Reset \/ ResetFlag \/ DayReset
              \/ SnapHalted \/ SnapReason \/ UNCHANGED vars
       PROVE  UNCHANGED <<pc, want, open, fill, cash>>
  BY <1>11 DEF RecordGap, GapLatch, ManualHalt, Reset, ResetFlag, DayReset, SnapHalted,
               SnapReason, vars, totals, checking, others
<1> QED
  BY <1>2, <1>3, <1>4, <1>5, <1>6, <1>7, <1>8, <1>9, <1>10, <1>11 DEF BreakerNext, BreakerStep

-----------------------------------------------------------------------------
(* The order-to-trade ratio.                                               *)

LEMMA ThresholdFacts ==
    ASSUME NEW n \in Nat
    PROVE  /\ Max({1, n}) \in Nat /\ Threshold(n) \in Nat /\ Threshold(n) >= OtrWarmup - 1
           /\ MaxOrderToTrade * Max({1, n}) \in Nat
           /\ Threshold(n) >= MaxOrderToTrade * Max({1, n})
           /\ Threshold(n) <= Threshold(n + 1)
           /\ Max({OtrWarmup, MaxOrderToTrade * Max({1, n}) + 1}) = Threshold(n) + 1
<1>1. MaxOrderToTrade \in Nat /\ OtrWarmup \in Nat
  BY BreakerConstants
<1> DEFINE a == Max({1, n})
           b == Max({1, n + 1})
           x == MaxOrderToTrade * a
           y == MaxOrderToTrade * b
<1>2. a \in Nat /\ b \in Nat /\ a <= b
  BY MaxOfTwo
<1> HIDE DEF a, b
<1>3. x \in Nat /\ y \in Nat /\ x <= y
  <2>1. PICK d \in Nat : b = a + d
    <3>1. b - a \in Nat /\ b = a + (b - a)
      BY <1>2
    <3> QED
      BY <3>1
  <2>2. y = x + MaxOrderToTrade * d /\ MaxOrderToTrade * d \in Nat /\ x \in Nat
    BY <1>1, <1>2, <2>1
  <2> QED
    BY <2>2
<1> HIDE DEF x, y
<1>4. /\ Max({OtrWarmup - 1, x}) = IF OtrWarmup - 1 >= x THEN OtrWarmup - 1 ELSE x
      /\ Max({OtrWarmup - 1, y}) = IF OtrWarmup - 1 >= y THEN OtrWarmup - 1 ELSE y
      /\ Max({OtrWarmup, x + 1}) = IF OtrWarmup >= x + 1 THEN OtrWarmup ELSE x + 1
  BY <1>1, <1>3, MaxOfTwo
<1>5. Threshold(n) = Max({OtrWarmup - 1, x}) /\ Threshold(n + 1) = Max({OtrWarmup - 1, y})
  BY DEF Threshold, x, y, a, b
<1>6. /\ a \in Nat /\ Threshold(n) \in Nat /\ Threshold(n) >= OtrWarmup - 1
      /\ x \in Nat /\ Threshold(n) >= x /\ Threshold(n) <= Threshold(n + 1)
      /\ Max({OtrWarmup, x + 1}) = Threshold(n) + 1
  BY <1>1, <1>2, <1>3, <1>4, <1>5
<1> QED
  BY <1>6 DEF x, a

LEMMA LowSize ==
    ASSUME NEW at, NEW read, NEW t
    PROVE  /\ IsFiniteSet(Low(at, read, t)) /\ Cardinality(Low(at, read, t)) \in Nat
           /\ Cardinality(Low(at, read, t)) <= Cardinality(Senders)
<1>1. Low(at, read, t) \subseteq Senders
  BY DEF Low
<1> QED
  BY <1>1, SenderCount, FS_Subset, FS_CardinalityType

(* Senders leave, or the threshold rises.                                  *)
LEMMA CountShrinks ==
    ASSUME NEW n \in Nat, NEW at, NEW read, NEW at2, NEW read2, NEW l \in Nat, NEW m \in Nat, l <= m,
           Countable(n, at, read, l),
           \A s \in Senders : at2[s] \in {"trades", "count"} =>
               at[s] \in {"trades", "count"} /\ read2[s] = read[s],
           \A s \in Senders : at2[s] = "count" => read2[s] <= m
    PROVE  Countable(n, at2, read2, m)
<1> SUFFICES ASSUME NEW t \in Nat, t >= m
             PROVE  n + Cardinality(Low(at2, read2, t)) <= t + Cardinality(Senders)
  BY DEF Countable
<1>1. n + Cardinality(Low(at, read, t)) <= t + Cardinality(Senders)
  BY DEF Countable
<1>2. Low(at2, read2, t) \subseteq Low(at, read, t)
  BY DEF Low
<1>3. Cardinality(Low(at2, read2, t)) <= Cardinality(Low(at, read, t))
  BY <1>2, LowSize, FS_Subset
<1>4. Cardinality(Low(at2, read2, t)) \in Nat /\ Cardinality(Low(at, read, t)) \in Nat
  BY LowSize
<1> QED
  BY <1>1, <1>3, <1>4, SenderCount

(* A sender reads the count: it counts for the thresholds it is under.     *)
LEMMA CountRead ==
    ASSUME NEW n \in Nat, NEW at, NEW read, NEW at2, NEW read2, NEW l \in Nat, NEW s \in Senders,
           Countable(n, at, read, l), at[s] \notin {"trades", "count"}, read2[s] = n,
           \A r \in Senders \ {s} : at2[r] = at[r] /\ read2[r] = read[r],
           at2[s] = "count" => n <= l
    PROVE  Countable(n, at2, read2, l)
<1>1. \A r \in Senders : at2[r] = "count" => read2[r] <= l
  BY DEF Countable
<1> SUFFICES ASSUME NEW t \in Nat, t >= l
             PROVE  n + Cardinality(Low(at2, read2, t)) <= t + Cardinality(Senders)
  BY <1>1 DEF Countable
<1>2. n + Cardinality(Low(at, read, t)) <= t + Cardinality(Senders)
  BY DEF Countable
<1>3. CASE n <= t
  <2>1. Cardinality(Low(at2, read2, t)) \in Nat
        /\ Cardinality(Low(at2, read2, t)) <= Cardinality(Senders)
    BY LowSize
  <2> QED
    BY <1>3, <2>1, SenderCount
<1>4. CASE ~(n <= t)
  <2>1. Low(at2, read2, t) = Low(at, read, t)
    BY <1>4 DEF Low
  <2> QED
    BY <1>2, <2>1
<1> QED
  BY <1>3, <1>4

(* An order is counted and its sender leaves.                              *)
LEMMA CountAllowed ==
    ASSUME NEW n \in Nat, NEW at, NEW read, NEW at2, NEW read2, NEW l \in Nat, NEW s \in Senders,
           Countable(n, at, read, l), at[s] = "count", at2[s] = "idle", read[s] \in Nat,
           \A r \in Senders \ {s} : at2[r] = at[r] /\ read2[r] = read[r]
    PROVE  Countable(n + 1, at2, read2, l)
<1>1. \A r \in Senders : at2[r] = "count" => read2[r] <= l
  BY DEF Countable
<1> SUFFICES ASSUME NEW t \in Nat, t >= l
             PROVE  n + 1 + Cardinality(Low(at2, read2, t)) <= t + Cardinality(Senders)
  BY <1>1 DEF Countable
<1>2. n + Cardinality(Low(at, read, t)) <= t + Cardinality(Senders) /\ read[s] <= l
  BY DEF Countable
<1>3. read[s] <= t
  BY <1>2
<1>4. s \in Low(at, read, t) /\ Low(at2, read2, t) = Low(at, read, t) \ {s}
  BY <1>3 DEF Low
<1>5. IsFiniteSet(Low(at, read, t)) /\ Cardinality(Low(at, read, t)) \in Nat
  BY LowSize
<1>6. Cardinality(Low(at2, read2, t)) = Cardinality(Low(at, read, t)) - 1
  <2> DEFINE S == Low(at, read, t)
  <2>1. IsFiniteSet(S) /\ s \in S
    BY <1>4, <1>5
  <2> HIDE DEF S
  <2>2. Cardinality(S \ {s}) = Cardinality(S) - 1
    BY ONLY <2>1, FS_RemoveElement
  <2> QED
    BY <1>4, <2>2 DEF S
<1> QED
  BY <1>2, <1>5, <1>6, SenderCount

LEMMA CountNothing ==
    ASSUME NEW at, NEW read, NEW l \in Nat, \A s \in Senders : at[s] = "idle"
    PROVE  Countable(0, at, read, l)
<1> SUFFICES ASSUME NEW t \in Nat PROVE 0 + Cardinality(Low(at, read, t)) <= t + Cardinality(Senders)
  BY DEF Countable
<1>1. Cardinality(Low(at, read, t)) \in Nat /\ Cardinality(Low(at, read, t)) <= Cardinality(Senders)
  BY LowSize
<1> QED
  BY <1>1, SenderCount

LEMMA CountStep ==
    ASSUME Typed, Typed', CountBounded, [BreakerNext]_vars
    PROVE  CountBounded'
<1> DEFINE l == Threshold(trades_done)
           m == Threshold(trades_done')
<1>0. /\ trades_done \in Nat /\ trades_done' \in Nat /\ orders_sent \in Nat
      /\ l \in Nat /\ m \in Nat
  BY ThresholdFacts DEF Typed
<1>f. pc \in [Senders -> Stages] /\ seen \in [Senders -> Nat]
  BY DEF Typed
<1>i. UNCHANGED guards
  BY DEF BreakerNext, vars
<1> SUFFICES ASSUME "ratio" \in guards, Countable(orders_sent, pc, seen, l)
             PROVE  Countable(orders_sent', pc', seen', m)
  BY <1>i DEF CountBounded
<1>k. \A s \in Senders : pc[s] = "count" => seen[s] <= l
  BY DEF Countable
<1> HIDE DEF l, m
<1>1. ASSUME NEW s \in Senders, UNCHANGED <<orders_sent, trades_done>>,
             \A r \in Senders \ {s} : pc'[r] = pc[r] /\ seen'[r] = seen[r],
             \/ pc'[s] \notin {"trades", "count"}
             \/ pc[s] = "trades" /\ pc'[s] = "count" /\ seen'[s] = seen[s] /\ seen[s] <= l
      PROVE  Countable(orders_sent', pc', seen', m)
  <2>1. m = l
    BY <1>1 DEF l, m
  <2>2. \A r \in Senders : pc'[r] \in {"trades", "count"} =>
               pc[r] \in {"trades", "count"} /\ seen'[r] = seen[r]
    BY <1>1
  <2>3. \A r \in Senders : pc'[r] = "count" => seen'[r] <= l
    BY <1>1, <1>k
  <2>4. l <= l
    BY <1>0
  <2>5. Countable(orders_sent, pc', seen', l)
    BY <1>0, <2>2, <2>3, <2>4, CountShrinks
  <2> QED
    BY <1>1, <2>1, <2>5
<1>2. ASSUME NEW s \in Senders,
             \/ Check(s) \/ RateGuard(s) \/ PositionGuard(s) \/ LossGuard(s) \/ Block(s)
      PROVE  Countable(orders_sent', pc', seen', m)
  <2>1. /\ UNCHANGED <<orders_sent, trades_done>>
        /\ seen' = seen \/ seen' = [seen EXCEPT ![s] = 0]
        /\ \E where \in {"rate", "position", "loss", "orders", "latch", "idle"} : Goto(s, where)
    BY <1>2 DEF Check, RateGuard, PositionGuard, LossGuard, Block, Pass, Trip, totals
  <2>2. /\ \A r \in Senders \ {s} : pc'[r] = pc[r] /\ seen'[r] = seen[r]
        /\ pc'[s] \notin {"trades", "count"}
    BY <1>f, <2>1 DEF Goto
  <2> QED
    BY <1>1, <2>1, <2>2
<1>3. ASSUME NEW s \in Senders, OrdersRead(s) PROVE Countable(orders_sent', pc', seen', m)
  <2>1. UNCHANGED <<orders_sent, trades_done>> /\ pc[s] = "orders"
    BY <1>3 DEF OrdersRead, totals
  <2>2. /\ seen' = [seen EXCEPT ![s] = orders_sent]
        /\ pc' = [pc EXCEPT ![s] = IF orders_sent >= OtrWarmup THEN "trades" ELSE "count"]
    BY <1>3 DEF OrdersRead, Pass, Goto
  <2>3. /\ \A r \in Senders \ {s} : pc'[r] = pc[r] /\ seen'[r] = seen[r]
        /\ seen'[s] = orders_sent /\ (pc'[s] = "count" => ~(orders_sent >= OtrWarmup))
    BY <1>f, <2>2
  <2>4. l >= OtrWarmup - 1 /\ OtrWarmup \in Nat
    BY <1>0, ThresholdFacts, BreakerConstants DEF l
  <2>5. pc'[s] = "count" => orders_sent <= l
    BY <1>0, <2>3, <2>4
  <2>6. pc[s] \notin {"trades", "count"}
    BY <2>1
  <2>7. Countable(orders_sent, pc', seen', l)
    BY <1>0, <2>3, <2>5, <2>6, CountRead
  <2> QED
    BY <2>1, <2>7 DEF l, m
<1>4. ASSUME NEW s \in Senders, RatioGuard(s) PROVE Countable(orders_sent', pc', seen', m)
  <2>1. UNCHANGED <<orders_sent, trades_done, seen>> /\ pc[s] = "trades"
    BY <1>4 DEF RatioGuard, totals
  <2>2. \/ pc' = [pc EXCEPT ![s] = "latch"]
        \/ pc' = [pc EXCEPT ![s] = "count"] /\ ~(seen[s] > MaxOrderToTrade * Max({1, trades_done}))
    BY <1>4 DEF RatioGuard, Pass, Trip, Goto
  <2>3. /\ l >= MaxOrderToTrade * Max({1, trades_done}) /\ seen[s] \in Nat
        /\ MaxOrderToTrade * Max({1, trades_done}) \in Nat
    BY <1>0, <1>f, ThresholdFacts DEF l
  <2>4. \/ pc' = [pc EXCEPT ![s] = "latch"]
        \/ pc' = [pc EXCEPT ![s] = "count"] /\ seen[s] <= l
    BY <1>0, <2>2, <2>3
  <2>5. \A r \in Senders \ {s} : pc'[r] = pc[r]
    BY <1>f, <2>4
  <2>6. \/ pc'[s] = "latch"
        \/ pc'[s] = "count" /\ seen[s] <= l
    BY <1>f, <2>4
  <2> QED
    BY <1>1, <2>1, <2>5, <2>6
<1>5. ASSUME NEW s \in Senders, Allow(s) PROVE Countable(orders_sent', pc', seen', m)
  <2>1. /\ pc[s] = "count" /\ orders_sent' = orders_sent + 1 /\ UNCHANGED trades_done
        /\ pc' = [pc EXCEPT ![s] = "idle"] /\ seen' = [seen EXCEPT ![s] = 0]
    BY <1>5 DEF Allow, Pass, Goto
  <2>2. /\ pc'[s] = "idle" /\ seen[s] \in Nat
        /\ \A r \in Senders \ {s} : pc'[r] = pc[r] /\ seen'[r] = seen[r]
    BY <1>f, <2>1
  <2>3. Countable(orders_sent + 1, pc', seen', l)
    BY <1>0, <2>1, <2>2, CountAllowed
  <2> QED
    BY <2>1, <2>3 DEF l, m
<1>6. ASSUME FillTrade PROVE Countable(orders_sent', pc', seen', m)
  <2>1. UNCHANGED <<orders_sent, pc, seen>> /\ trades_done' = trades_done + 1
    BY <1>6 DEF FillTrade
  <2>2. l <= m
    BY <1>0, <2>1, ThresholdFacts DEF l, m
  <2>3. \A s \in Senders : pc[s] = "count" => seen[s] <= m
    BY <1>0, <1>f, <1>k, <2>2
  <2>4. Countable(orders_sent, pc, seen, m)
    BY <1>0, <2>2, <2>3, CountShrinks
  <2> QED
    BY <2>1, <2>4
<1>7. ASSUME StartOfDay PROVE Countable(orders_sent', pc', seen', m)
  <2>1. orders_sent' = 0 /\ \A s \in Senders : pc'[s] = "idle"
    BY <1>7 DEF StartOfDay, checking
  <2> QED
    BY <1>0, <2>1, CountNothing
<1>8. ASSUME UNCHANGED <<orders_sent, trades_done, pc, seen>>
      PROVE  Countable(orders_sent', pc', seen', m)
  BY <1>8 DEF l, m
<1>9. ASSUME \/ FillPosition \/ FillCash \/ OrderDies \/ RecordGap \/ GapLatch \/ ManualHalt
             \/ Reset \/ ResetFlag \/ DayReset \/ SnapHalted \/ SnapReason \/ UNCHANGED vars
      PROVE  UNCHANGED <<orders_sent, trades_done, pc, seen>>
  BY <1>9 DEF FillPosition, FillCash, OrderDies, RecordGap, GapLatch, ManualHalt, Reset,
              ResetFlag, DayReset, SnapHalted, SnapReason, vars, totals, checking, others
<1> QED
  BY <1>2, <1>3, <1>4, <1>5, <1>6, <1>7, <1>8, <1>9 DEF BreakerNext, BreakerStep

(* The bound that RatioBounded states is the one for the present threshold. *)
LEMMA CountImpliesRatio == Typed /\ CountBounded => RatioBounded
<1> SUFFICES ASSUME Typed, Countable(orders_sent, pc, seen, Threshold(trades_done))
             PROVE  orders_sent + Cardinality({s \in Senders : pc[s] = "count"})
                        <= Max({OtrWarmup, MaxOrderToTrade * Max({1, trades_done}) + 1})
                           + Cardinality(Senders) - 1
  BY DEF CountBounded, RatioBounded
<1> DEFINE l == Threshold(trades_done)
           C == {s \in Senders : pc[s] = "count"}
           N == Cardinality(Senders)
<1>1. l \in Nat /\ Max({OtrWarmup, MaxOrderToTrade * Max({1, trades_done}) + 1}) = l + 1
  BY ThresholdFacts DEF Typed
<1>2. C \subseteq Low(pc, seen, l) /\ orders_sent + Cardinality(Low(pc, seen, l)) <= l + N
  BY <1>1 DEF Countable, Low
<1>3. Cardinality(C) \in Nat /\ Cardinality(C) <= Cardinality(Low(pc, seen, l))
      /\ Cardinality(Low(pc, seen, l)) \in Nat
  BY <1>2, LowSize, FS_Subset, FS_CardinalityType
<1>4. N \in Nat /\ orders_sent \in Nat
  BY SenderCount DEF Typed
<1> HIDE DEF l, C, N
<1>5. orders_sent + Cardinality(C) <= l + 1 + N - 1
  BY <1>1, <1>2, <1>3, <1>4
<1> QED
  BY <1>1, <1>5 DEF l, C, N

-----------------------------------------------------------------------------
(* The theorems.                                                           *)

LEMMA InvInit == BreakerInit => BreakerInv
<1> SUFFICES ASSUME BreakerInit PROVE BreakerInv
  OBVIOUS
<1>1. Typed /\ Held
  BY TypedInit
<1>2. LateHeld /\ HaltHeld
  BY DEF BreakerInit, LateHeld, HaltHeld, NoSnap
<1>3. /\ \A past \in {PastPosition, PastLoss} : Under(past) \in Flows /\ \A s \in Senders : Under(past)[s] = 0
      /\ \A stages : Recording(stages) = 0
  BY <1>1, FlowsNow DEF BreakerInit, Under, Pending, Recording, NoFill, PastPosition, PastLoss
<1>4. Total(Under(PastPosition)) = 0 /\ Total(Negated(Under(PastPosition))) = 0
      /\ Total(Under(PastLoss)) = 0
  <2> DEFINE p == Under(PastPosition)
  <2>1. p \in Flows /\ \A s \in Senders : p[s] = 0
    BY <1>3
  <2>2. Negated(p) \in Flows /\ \A s \in Senders : Negated(p)[s] = 0
    BY <2>1, NegatedFlow DEF Negated
  <2> QED
    BY <1>3, <2>1, <2>2, NothingTotal
<1>5. Positive(0) = 0 /\ Positive(-0) = 0 /\ position = 0 /\ cash = 0
  BY DEF Positive, BreakerInit
<1>6. /\ MaxPosition \in Nat /\ MaxDailyLoss \in Nat /\ Cardinality(Senders) * LargestIntent \in Nat
      /\ LargestIntent * (Cardinality(Senders) + 1) \in Nat
  BY BreakerConstants, SenderCount, IntentBound
<1>7. ExposureBounded
  <2>1. BothExposed(position, Recording({"position"}), Under(PastPosition))
    BY <1>3, <1>4, <1>5, <1>6 DEF BothExposed, Exposed
  <2> QED
    BY <1>1, <2>1, ExposureNow
<1>8. LossBounded
  <2>1. Spending(Recording({"position", "cash"}), Under(PastLoss)) = 0
    BY <1>3, <1>4, <1>5 DEF Spending
  <2>2. Lossy(0, 0)
    <3>1. 0 >= -MaxDailyLoss /\ 0 <= LargestIntent * (Cardinality(Senders) + 1)
      BY <1>6
    <3> QED
      BY <3>1, LossyPass
  <2> QED
    BY <1>1, <1>5, <2>1, <2>2, LossNow
<1>9. CountBounded
  BY ThresholdFacts, CountNothing DEF BreakerInit, CountBounded
<1> QED
  BY <1>1, <1>2, <1>7, <1>8, <1>9 DEF BreakerInv

LEMMA InvStep == BreakerInv /\ [BreakerNext]_vars => BreakerInv'
<1> SUFFICES ASSUME BreakerInv, [BreakerNext]_vars PROVE BreakerInv'
  OBVIOUS
<1>1. Typed' /\ Held'
  BY TypedStep DEF BreakerInv
<1>2. LateHeld' /\ HaltHeld'
  BY LateStep, HaltStep DEF BreakerInv
<1>3. ExposureBounded' /\ LossBounded' /\ CountBounded'
  BY <1>1, ExposureStep, LossStep, CountStep DEF BreakerInv
<1> QED
  BY <1>1, <1>2, <1>3 DEF BreakerInv

(* circuit_breaker.rs check reads each total under a lock of its own and   *)
(* reserves nothing.  However its guards interleave with other checks,     *)
(* fills, resets and a new day, the exposure, the loss and the order count *)
(* exceed their limits by at most one order for each thread.               *)
THEOREM OvershootStaysBounded == BreakerSpec => []OvershootBounded
<1>1. BreakerInv => OvershootBounded
  <2> SUFFICES ASSUME BreakerInv PROVE OvershootBounded
    OBVIOUS
  <2>1. BreakerTypeOK
    <3>1. \A s \in Senders : open[s] \in Int
      BY IntentBound DEF BreakerInv, Typed
    <3> QED
      BY <3>1 DEF BreakerInv, Typed, Held, BreakerTypeOK
  <2>2. RatioBounded
    BY CountImpliesRatio DEF BreakerInv
  <2> QED
    BY <2>1, <2>2 DEF BreakerInv, OvershootBounded
<1> QED
  BY <1>1, InvInit, InvStep, PTL DEF BreakerSpec

(* circuit_breaker.rs check tests the latch first and never again: a       *)
(* sender whose check was under way when the breaker latched is allowed at *)
(* most once more, until a reset.                                          *)
THEOREM AllowedLateOnce == BreakerSpec => []LateAllowOnce
<1>1. BreakerInv => LateAllowOnce
  BY DEF BreakerInv, Typed, LateHeld, LateAllowOnce
<1> QED
  BY <1>1, InvInit, InvStep, PTL DEF BreakerSpec

(* circuit_breaker.rs snapshot calls is_halted and then halt_reason, which *)
(* are two accesses: unless a reset comes between or is half done, a       *)
(* snapshot that shows a halt shows its reason.                            *)
THEOREM HaltStaysExplained == BreakerSpec => HaltExplained
<1>1. BreakerInv => (snap.open /\ ~snap'.open /\ snap.halted /\ ~snap.reset => reason # None)
  BY DEF BreakerInv, HaltHeld
<1> QED
  BY <1>1, InvInit, InvStep, PTL DEF BreakerSpec, HaltExplained

=============================================================================
