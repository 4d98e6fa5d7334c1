--------------------------- MODULE CrossImplProofs ---------------------------
(***************************************************************************)
(* Proofs about the hot book and the cross-implementation gate, for every  *)
(* finite set of order references, every set of prices, every bound on the *)
(* share count and every capacity of the arrays.                           *)
(*                                                                         *)
(* AsBook(h) reads a hot book as a reference book: the level at a price is *)
(* the array's entry there, or an empty one, and the orders are what the   *)
(* slab returns.  Each hot operation is then the reference operation on    *)
(* AsBook(h), or a refusal that changes nothing, so the results of         *)
(* BookProofs about the reference book and about the slab carry over.  The *)
(* steps are: what insertion and removal do to a sorted array, what one    *)
(* side says about the whole grid, one lemma per operation, the invariant  *)
(* CrossInv, and that one set of prices has one order.                     *)
(***************************************************************************)
EXTENDS CrossImpl, Sums, SequenceTheorems

BP == INSTANCE BookProofs
          WITH book <- ref, slab <- hot.slab, Ids <- OrderIds \ {AnonId}, Meta <- Order,
               NoMeta <- NoOrder

-----------------------------------------------------------------------------
(* Arrays of levels.                                                       *)

(* What InsertAt and RemoveAt (the two memmoves) return.                   *)
Inserted(X, s, i, x, t) ==
    /\ t \in Seq(X) /\ Len(t) = Len(s) + 1
    /\ \A k \in 1..Len(t) : t[k] = IF k < i THEN s[k] ELSE IF k = i THEN x ELSE s[k - 1]

LEMMA InsertAtFacts ==
    ASSUME NEW X, NEW s \in Seq(X), NEW i, i \in 1..(Len(s) + 1), NEW x \in X
    PROVE  Inserted(X, s, i, x, InsertAt(s, i, x))
<1> DEFINE a == SubSeq(s, 1, i - 1)
           b == SubSeq(s, i, Len(s))
           c == a \o <<x>>
           t == InsertAt(s, i, x)
<1>0. Len(s) \in Nat /\ i \in Int
  OBVIOUS
<1>1. a \in Seq(X) /\ Len(a) = i - 1 /\ \A k \in 1..(i - 1) : a[k] = s[k]
  BY <1>0
<1>2. b \in Seq(X) /\ Len(b) = Len(s) - i + 1 /\ \A k \in 1..(Len(s) - i + 1) : b[k] = s[i + k - 1]
  BY <1>0
<1> HIDE DEF a, b
<1>3. c \in Seq(X) /\ Len(c) = i /\ \A k \in 1..i : c[k] = IF k < i THEN s[k] ELSE x
  BY <1>0, <1>1
<1> HIDE DEF c
<1>4. t = c \o b
  BY DEF InsertAt, a, b, c
<1> HIDE DEF t
<1>5. t \in Seq(X) /\ Len(t) = Len(s) + 1
  <2>0. c \in Seq(X) /\ b \in Seq(X)
    BY <1>2, <1>3
  <2>1. t \in Seq(X) /\ Len(t) = Len(c) + Len(b)
    BY ONLY <1>4, <2>0
  <2> QED
    BY <1>0, <1>2, <1>3, <2>1
<1>6. ASSUME NEW k \in 1..Len(t)
      PROVE  t[k] = IF k < i THEN s[k] ELSE IF k = i THEN x ELSE s[k - 1]
  <2>1. CASE k <= i
    <3>1. t[k] = c[k]
      BY <1>3, <1>2, <1>4, <2>1, <1>5
    <3> QED
      BY <1>3, <2>1, <3>1, <1>0
  <2>2. CASE k > i
    <3>1. t[k] = b[k - i]
      BY <1>3, <1>2, <1>4, <2>2, <1>5, <1>0
    <3>2. b[k - i] = s[i + (k - i) - 1]
      BY <1>2, <1>5, <2>2, <1>0
    <3>3. i + (k - i) - 1 = k - 1
      BY <1>0
    <3> QED
      BY <3>1, <3>2, <3>3, <2>2, <1>0
  <2> QED
    BY <2>1, <2>2, <1>0
<1>7. Inserted(X, s, i, x, t)
  BY <1>5, <1>6 DEF Inserted
<1> QED
  BY <1>7 DEF t

Removed(X, s, i, t) ==
    /\ t \in Seq(X) /\ Len(t) = Len(s) - 1
    /\ \A k \in 1..Len(t) : t[k] = IF k < i THEN s[k] ELSE s[k + 1]

LEMMA RemoveAtFacts ==
    ASSUME NEW X, NEW s \in Seq(X), NEW i, i \in 1..Len(s)
    PROVE  Removed(X, s, i, RemoveAt(s, i))
<1> DEFINE a == SubSeq(s, 1, i - 1)
           b == SubSeq(s, i + 1, Len(s))
           t == RemoveAt(s, i)
<1>0. Len(s) \in Nat /\ i \in Int
  OBVIOUS
<1>1. a \in Seq(X) /\ Len(a) = i - 1 /\ \A k \in 1..(i - 1) : a[k] = s[k]
  BY <1>0
<1>2. b \in Seq(X) /\ Len(b) = Len(s) - i /\ \A k \in 1..(Len(s) - i) : b[k] = s[i + k]
  BY <1>0
<1> HIDE DEF a, b
<1>4. t = a \o b
  BY DEF RemoveAt, a, b
<1> HIDE DEF t
<1>5. t \in Seq(X) /\ Len(t) = Len(s) - 1
  BY <1>0, <1>2, <1>1, <1>4
<1>6. ASSUME NEW k \in 1..Len(t)
      PROVE  t[k] = IF k < i THEN s[k] ELSE s[k + 1]
  <2>1. CASE k < i
    <3>1. t[k] = a[k]
      BY <1>1, <1>2, <1>4, <2>1, <1>5, <1>0
    <3> QED
      BY <1>1, <2>1, <3>1, <1>0
  <2>2. CASE ~(k < i)
    <3>1. t[k] = b[k - i + 1]
      BY <1>1, <1>2, <1>4, <2>2, <1>5, <1>0
    <3>2. b[k - i + 1] = s[i + (k - i + 1)]
      BY <1>2, <1>5, <2>2, <1>0
    <3>3. i + (k - i + 1) = k + 1
      BY <1>0
    <3> QED
      BY <3>1, <3>2, <3>3, <2>2, <1>0
  <2> QED
    BY <2>1, <2>2, <1>0
<1>7. Removed(X, s, i, t)
  BY <1>5, <1>6 DEF Removed
<1> QED
  BY <1>7 DEF t

-----------------------------------------------------------------------------
(* A side of the grid: typed, no level without an order, best price first. *)
SideSorted(levels, side) ==
    /\ levels \in Seq(HotLevel)
    /\ \A i \in 1..Len(levels) : levels[i].order_count > 0
    /\ \A i, j \in 1..Len(levels) : i < j => Before(side, levels[i].price, levels[j].price)

EmptyAt == [total_qty |-> 0, order_count |-> 0]

Has(levels, price) == \E i \in 1..Len(levels) : levels[i].price = price

(* The level of a side at a price, as the reference book stores it.        *)
LevelAt(levels, price) ==
    IF Has(levels, price)
    THEN LET i == CHOOSE k \in 1..Len(levels) : levels[k].price = price
         IN  [total_qty |-> levels[i].total_qty, order_count |-> levels[i].order_count]
    ELSE EmptyAt

(* The entries of a sorted side.                                           *)
LEMMA LevelTyped ==
    ASSUME NEW side, NEW levels, SideSorted(levels, side), NEW i \in 1..Len(levels)
    PROVE  /\ levels[i] \in HotLevel /\ levels[i].price \in Prices /\ levels[i].price \in Nat
           /\ levels[i].total_qty \in Nat /\ levels[i].order_count \in Nat \ {0}
<1>1. levels[i] \in HotLevel /\ levels[i].order_count > 0
  BY DEF SideSorted
<1>2. /\ levels[i].price \in Prices /\ levels[i].total_qty \in Nat /\ levels[i].order_count \in Nat
  BY <1>1 DEF HotLevel
<1>3. levels[i].price \in Nat
  BY <1>2, PricesAssumption
<1>4. levels[i].order_count \in Nat \ {0}
  BY <1>1, <1>2
<1> QED
  BY <1>1, <1>2, <1>3, <1>4

(* No price has two entries.                                               *)
LEMMA PricesDiffer ==
    ASSUME NEW side, NEW levels, SideSorted(levels, side), NEW i \in 1..Len(levels), NEW j \in 1..Len(levels),
           levels[i].price = levels[j].price
    PROVE  i = j
<1>0. Len(levels) \in Nat /\ i \in Int /\ j \in Int
  BY DEF SideSorted
<1>1. levels[i].price \in Nat /\ levels[j].price \in Nat
  BY LevelTyped
<1>2. ~(i < j) /\ ~(j < i)
  BY <1>1 DEF SideSorted, Before
<1> QED
  BY <1>0, <1>2

(* The entry at its own price is what is read back there.                  *)
LEMMA LevelIs ==
    ASSUME NEW side, NEW levels, SideSorted(levels, side), NEW i \in 1..Len(levels)
    PROVE  LevelAt(levels, levels[i].price) =
             [total_qty |-> levels[i].total_qty, order_count |-> levels[i].order_count]
<1> DEFINE c == CHOOSE k \in 1..Len(levels) : levels[k].price = levels[i].price
<1>1. c \in 1..Len(levels) /\ levels[c].price = levels[i].price
  OBVIOUS
<1>2. c = i
  BY <1>1, PricesDiffer
<1>3. Has(levels, levels[i].price)
  BY DEF Has
<1> QED
  BY <1>2, <1>3 DEF LevelAt

(* partition_point splits a sorted side: everything before it is strictly  *)
(* better than the price, nothing from it on is.                           *)
LEMMA PartitionIs ==
    ASSUME NEW side, NEW levels, SideSorted(levels, side), NEW price \in Nat,
           NEW pos, pos = PartitionPoint(levels, side, price)
    PROVE  /\ pos \in 1..(Len(levels) + 1)
           /\ \A i \in 1..Len(levels) : i < pos => Before(side, levels[i].price, price)
           /\ \A i \in 1..Len(levels) : i >= pos => ~Before(side, levels[i].price, price)
<1> DEFINE S == {i \in DOMAIN levels : Before(side, levels[i].price, price)}
           C == {n \in Nat : n + 1 \notin S}
<1>0. Len(levels) \in Nat /\ DOMAIN levels = 1..Len(levels)
  BY DEF SideSorted
<1>1. ASSUME NEW i \in S, NEW j \in 1..Len(levels), j < i PROVE j \in S
  <2>1. levels[i].price \in Nat /\ levels[j].price \in Nat /\ Before(side, levels[j].price, levels[i].price)
    BY <1>0, <1>1, LevelTyped DEF SideSorted
  <2> QED
    BY <1>0, <1>1, <2>1 DEF Before
<1>2. Len(levels) \in C
  BY <1>0
<1>3. PICK m \in C : \A n \in C : m <= n
  BY <1>2, LeastNumber
<1>4. m <= Len(levels)
  BY <1>2, <1>3
<1>5. S = 1..m
  <2>1. ASSUME NEW i \in 1..m PROVE i \in S
    <3>1. i - 1 \in Nat /\ ~(m <= i - 1) /\ (i - 1) + 1 = i
      BY <1>3
    <3> QED
      BY <1>3, <3>1
  <2>2. ASSUME NEW i \in S PROVE i \in 1..m
    <3>1. i \in 1..Len(levels)
      BY <1>0
    <3>2. CASE i > m
      <4>1. m + 1 \notin S /\ m + 1 \in 1..Len(levels)
        BY <1>0, <1>3, <3>1, <3>2
      <4>2. m + 1 = i \/ m + 1 < i
        BY <1>3, <3>1, <3>2
      <4> QED
        BY <1>1, <4>1, <4>2
    <3> QED
      BY <3>1, <3>2, <1>3, <1>0
  <2> QED
    BY <2>1, <2>2
<1>6. Cardinality(S) = m
  <2>1. Cardinality(1..m) = m
    BY <1>3, FS_Interval
  <2> QED
    BY <1>5, <2>1
<1>7. pos = m + 1
  BY <1>6, <1>3 DEF PartitionPoint
<1> QED
  BY <1>0, <1>3, <1>4, <1>5, <1>7

(* find_level finds the entry at a price exactly when there is one.        *)
LEMMA FindIs ==
    ASSUME NEW side, NEW levels, SideSorted(levels, side), NEW price \in Nat
    PROVE  /\ \A i \in 1..Len(levels) : levels[i].price = price =>
                /\ FindLevel(levels, side, price) = i
                /\ PartitionPoint(levels, side, price) = i
           /\ ~Has(levels, price) => FindLevel(levels, side, price) = 0
<1> DEFINE pos == PartitionPoint(levels, side, price)
<1>0. Len(levels) \in Nat
  BY DEF SideSorted
<1>1. /\ pos \in 1..(Len(levels) + 1)
      /\ \A i \in 1..Len(levels) : i < pos => Before(side, levels[i].price, price)
      /\ \A i \in 1..Len(levels) : i >= pos => ~Before(side, levels[i].price, price)
  BY PartitionIs
<1>3. FindLevel(levels, side, price) = IF pos <= Len(levels) /\ levels[pos].price = price THEN pos ELSE 0
  BY DEF FindLevel
<1> HIDE DEF pos
<1>2. ASSUME NEW i \in 1..Len(levels), levels[i].price = price PROVE pos = i
  <2>1. ~Before(side, levels[i].price, price)
    BY <1>2 DEF Before
  <2>2. pos <= i
    BY <1>1, <2>1
  <2>3. CASE pos < i
    <3>1. pos \in 1..Len(levels) /\ ~Before(side, levels[pos].price, price)
      BY <1>0, <1>1, <2>3
    <3>2. Before(side, levels[pos].price, levels[i].price)
      BY <2>3, <3>1 DEF SideSorted
    <3> QED
      BY <1>2, <3>1, <3>2
  <2> QED
    BY <2>2, <2>3, <1>1
<1>4. ASSUME ~Has(levels, price), pos <= Len(levels), levels[pos].price = price PROVE FALSE
  BY <1>0, <1>1, <1>4 DEF Has
<1>5. ASSUME NEW i \in 1..Len(levels), levels[i].price = price
      PROVE  FindLevel(levels, side, price) = i
  <2>1. pos = i
    BY <1>2, <1>5
  <2> QED
    BY <1>0, <1>3, <1>5, <2>1
<1>6. ~Has(levels, price) => FindLevel(levels, side, price) = 0
  BY <1>3, <1>4
<1> QED
  BY <1>2, <1>5, <1>6 DEF pos

LEMMA LevelAbsent ==
    ASSUME NEW levels, NEW price, ~Has(levels, price)
    PROVE  LevelAt(levels, price) = EmptyAt
BY DEF LevelAt

(* The level read back at a price only depends on the entry there.         *)
LEMMA LevelSame ==
    ASSUME NEW side, NEW a, SideSorted(a, side), NEW b, SideSorted(b, side), NEW price,
           \A i \in 1..Len(a) : a[i].price = price => \E k \in 1..Len(b) : b[k] = a[i],
           \A k \in 1..Len(b) : b[k].price = price => \E i \in 1..Len(a) : a[i] = b[k]
    PROVE  LevelAt(b, price) = LevelAt(a, price)
<1>1. CASE Has(a, price)
  <2>1. PICK i \in 1..Len(a) : a[i].price = price
    BY <1>1 DEF Has
  <2>2. PICK k \in 1..Len(b) : b[k] = a[i]
    BY <2>1
  <2>3. LevelAt(a, a[i].price) = [total_qty |-> a[i].total_qty, order_count |-> a[i].order_count]
    BY LevelIs
  <2>4. LevelAt(b, b[k].price) = [total_qty |-> b[k].total_qty, order_count |-> b[k].order_count]
    BY LevelIs
  <2> QED
    BY <2>1, <2>2, <2>3, <2>4
<1>2. CASE ~Has(a, price)
  <2>1. ~Has(b, price)
    BY <1>2 DEF Has
  <2> QED
    BY <1>2, <2>1, LevelAbsent
<1> QED
  BY <1>1, <1>2

(* Rewriting an entry in place changes the level at its price only.        *)
LEMMA SetLevelIs ==
    ASSUME NEW side, NEW levels, SideSorted(levels, side), NEW i \in 1..Len(levels),
           NEW lv \in HotLevel, lv.price = levels[i].price, lv.order_count > 0,
           NEW t \in Seq(HotLevel), Len(t) = Len(levels),
           \A k \in 1..Len(levels) : t[k] = IF k = i THEN lv ELSE levels[k]
    PROVE  /\ SideSorted(t, side) /\ Len(t) = Len(levels)
           /\ LevelAt(t, lv.price) = [total_qty |-> lv.total_qty, order_count |-> lv.order_count]
           /\ \A p \in Prices : p # lv.price => LevelAt(t, p) = LevelAt(levels, p)
<1>0. levels \in Seq(HotLevel)
  BY DEF SideSorted
<1>1. /\ t \in Seq(HotLevel) /\ Len(t) = Len(levels)
      /\ \A j \in 1..Len(levels) : t[j] = IF j = i THEN lv ELSE levels[j]
  OBVIOUS
<1>2. \A j \in 1..Len(t) : t[j].price = levels[j].price /\ t[j].order_count > 0
  BY <1>1 DEF SideSorted
<1>3. SideSorted(t, side)
  BY <1>1, <1>2 DEF SideSorted
<1>4. t[i] = lv /\ i \in 1..Len(t)
  BY <1>1
<1>5. LevelAt(t, lv.price) = [total_qty |-> lv.total_qty, order_count |-> lv.order_count]
  BY <1>3, <1>4, LevelIs
<1>6. ASSUME NEW p \in Prices, p # lv.price PROVE LevelAt(t, p) = LevelAt(levels, p)
  <2>1. \A j \in 1..Len(levels) : levels[j].price = p => \E k \in 1..Len(t) : t[k] = levels[j]
    BY <1>1, <1>6
  <2>2. \A k \in 1..Len(t) : t[k].price = p => \E j \in 1..Len(levels) : levels[j] = t[k]
    BY <1>1, <1>6
  <2>3. SideSorted(levels, side)
    OBVIOUS
  <2> QED
    BY ONLY <1>3, <2>1, <2>2, <2>3, LevelSame
<1> QED
  BY <1>1, <1>3, <1>5, <1>6

(* Opening a level where partition_point says keeps the side sorted and    *)
(* changes the level at that price only.                                   *)
LEMMA OpenLevelIs ==
    ASSUME NEW side, NEW levels, SideSorted(levels, side), NEW price \in Prices, ~Has(levels, price),
           NEW qty \in Nat, NEW t,
           t = OpenLevel(levels, PartitionPoint(levels, side, price), price, qty)
    PROVE  /\ SideSorted(t, side) /\ Len(t) = Len(levels) + 1
           /\ LevelAt(t, price) = [total_qty |-> qty, order_count |-> 1]
           /\ \A p \in Prices : p # price => LevelAt(t, p) = LevelAt(levels, p)
<1> DEFINE pos == PartitionPoint(levels, side, price)
           lv == [price |-> price, total_qty |-> qty, order_count |-> 1]
<1>0. levels \in Seq(HotLevel) /\ Len(levels) \in Nat /\ price \in Nat /\ lv \in HotLevel
  BY PricesAssumption DEF SideSorted, HotLevel
<1>1. /\ pos \in 1..(Len(levels) + 1)
      /\ \A i \in 1..Len(levels) : i < pos => Before(side, levels[i].price, price)
      /\ \A i \in 1..Len(levels) : i >= pos => ~Before(side, levels[i].price, price)
  BY <1>0, PartitionIs
<1>a. t = InsertAt(levels, pos, lv)
  BY DEF OpenLevel
<1>b. lv.price = price /\ lv.total_qty = qty /\ lv.order_count = 1
  OBVIOUS
<1> HIDE DEF pos, lv
<1>2. /\ t \in Seq(HotLevel) /\ Len(t) = Len(levels) + 1
      /\ \A k \in 1..Len(t) : t[k] = IF k < pos THEN levels[k] ELSE IF k = pos THEN lv ELSE levels[k - 1]
  <2>1. levels \in Seq(HotLevel) /\ pos \in 1..(Len(levels) + 1) /\ lv \in HotLevel
    BY <1>0, <1>1
  <2>2. Inserted(HotLevel, levels, pos, lv, InsertAt(levels, pos, lv))
    BY ONLY <2>1, InsertAtFacts
  <2> QED
    BY ONLY <1>a, <2>2 DEF Inserted
<1>3. ASSUME NEW i \in 1..Len(levels), i >= pos PROVE Before(side, price, levels[i].price)
  <2>1. levels[i].price \in Nat /\ levels[i].price # price /\ ~Before(side, levels[i].price, price)
    BY <1>1, <1>3, LevelTyped DEF Has
  <2> QED
    BY <1>0, <2>1 DEF Before
<1>4. \A k \in 1..Len(t) : t[k].order_count > 0
  <2> SUFFICES ASSUME NEW k \in 1..Len(t) PROVE t[k].order_count > 0
    OBVIOUS
  <2>1. k < pos => k \in 1..Len(levels)
    BY <1>0, <1>1, <1>2
  <2>2. k > pos => k - 1 \in 1..Len(levels)
    BY <1>0, <1>1, <1>2
  <2>3. k < pos \/ k = pos \/ k > pos
    BY <1>1, <1>0
  <2> QED
    BY <1>1, <1>2, <1>b, <2>1, <2>2, <2>3 DEF SideSorted
<1>5. ASSUME NEW i \in 1..Len(t), NEW j \in 1..Len(t), i < j
      PROVE  Before(side, t[i].price, t[j].price)
  <2>0. i \in Int /\ j \in Int /\ pos \in Int
    BY <1>0, <1>1, <1>2
  <2>1. CASE j < pos
    <3>1. t[i] = levels[i] /\ t[j] = levels[j] /\ i \in 1..Len(levels) /\ j \in 1..Len(levels)
      BY <1>0, <1>1, <1>2, <1>5, <2>0, <2>1
    <3> QED
      BY <1>5, <3>1 DEF SideSorted
  <2>2. CASE j = pos
    <3>1. t[i] = levels[i] /\ t[j] = lv /\ i \in 1..Len(levels) /\ i < pos
      BY <1>0, <1>1, <1>2, <1>5, <2>0, <2>2
    <3> QED
      BY <1>1, <1>b, <3>1
  <2>3. CASE j > pos /\ i < pos
    <3>1. t[i] = levels[i] /\ t[j] = levels[j - 1] /\ i \in 1..Len(levels) /\ j - 1 \in 1..Len(levels) /\ i < j - 1
      BY <1>0, <1>1, <1>2, <1>5, <2>0, <2>3
    <3> QED
      BY <3>1 DEF SideSorted
  <2>4. CASE j > pos /\ i = pos
    <3>1. t[i] = lv /\ t[j] = levels[j - 1] /\ j - 1 \in 1..Len(levels) /\ j - 1 >= pos
      BY <1>0, <1>1, <1>2, <1>5, <2>0, <2>4
    <3> QED
      BY <1>3, <1>b, <3>1
  <2>5. CASE j > pos /\ i > pos
    <3>1. t[i] = levels[i - 1] /\ t[j] = levels[j - 1] /\ i - 1 \in 1..Len(levels) /\ j - 1 \in 1..Len(levels)
          /\ i - 1 < j - 1
      BY <1>0, <1>1, <1>2, <1>5, <2>0, <2>5
    <3> QED
      BY <3>1 DEF SideSorted
  <2> QED
    BY <2>0, <2>1, <2>2, <2>3, <2>4, <2>5
<1>6. SideSorted(t, side)
  BY <1>2, <1>4, <1>5 DEF SideSorted
<1>7. pos \in 1..Len(t) /\ t[pos] = lv
  BY <1>0, <1>1, <1>2
<1>8. LevelAt(t, price) = [total_qty |-> qty, order_count |-> 1]
  BY <1>6, <1>7, <1>b, LevelIs
<1>9. ASSUME NEW p \in Prices, p # price PROVE LevelAt(t, p) = LevelAt(levels, p)
  <2>1. ASSUME NEW j \in 1..Len(levels), levels[j].price = p PROVE \E k \in 1..Len(t) : t[k] = levels[j]
    <3>1. CASE j < pos
      BY <1>0, <1>1, <1>2, <3>1
    <3>2. CASE j >= pos
      <4>1. j + 1 \in 1..Len(t) /\ ~(j + 1 < pos) /\ j + 1 # pos /\ (j + 1) - 1 = j
        BY <1>0, <1>1, <1>2, <3>2
      <4>2. t[j + 1] = levels[(j + 1) - 1]
        BY <1>2, <4>1
      <4> QED
        BY <4>1, <4>2
    <3> QED
      BY <1>1, <3>1, <3>2
  <2>2. ASSUME NEW k \in 1..Len(t), t[k].price = p PROVE \E j \in 1..Len(levels) : levels[j] = t[k]
    <3>1. CASE k < pos
      BY <1>0, <1>1, <1>2, <3>1
    <3>2. CASE k = pos
      BY <1>7, <1>9, <1>b, <2>2, <3>2
    <3>3. CASE k > pos
      <4>1. k - 1 \in 1..Len(levels) /\ t[k] = levels[k - 1]
        BY <1>0, <1>1, <1>2, <3>3
      <4> QED
        BY <4>1
    <3> QED
      BY <1>1, <1>0, <1>2, <3>1, <3>2, <3>3
  <2> QED
    BY <1>6, <2>1, <2>2, LevelSame
<1> QED
  BY <1>2, <1>6, <1>8, <1>9

(* Removing an entry keeps the side sorted and empties the level at its    *)
(* price only.                                                             *)
LEMMA RemoveLevelIs ==
    ASSUME NEW side, NEW levels, SideSorted(levels, side), NEW i \in 1..Len(levels), NEW t, t = RemoveAt(levels, i)
    PROVE  /\ SideSorted(t, side) /\ Len(t) = Len(levels) - 1
           /\ LevelAt(t, levels[i].price) = EmptyAt
           /\ \A p \in Prices : p # levels[i].price => LevelAt(t, p) = LevelAt(levels, p)
<1>0. levels \in Seq(HotLevel) /\ Len(levels) \in Nat /\ i \in Int
  BY DEF SideSorted
<1>1. /\ t \in Seq(HotLevel) /\ Len(t) = Len(levels) - 1
      /\ \A k \in 1..Len(t) : t[k] = IF k < i THEN levels[k] ELSE levels[k + 1]
  <2>1. levels \in Seq(HotLevel) /\ i \in 1..Len(levels)
    BY <1>0
  <2>2. Removed(HotLevel, levels, i, RemoveAt(levels, i))
    BY ONLY <2>1, RemoveAtFacts
  <2> QED
    BY <2>2 DEF Removed
<1> DEFINE at(k) == IF k < i THEN k ELSE k + 1
<1>2. \A k \in 1..Len(t) : at(k) \in 1..Len(levels) /\ t[k] = levels[at(k)] /\ at(k) # i
  BY <1>0, <1>1
<1>3. \A j, k \in 1..Len(t) : j < k => at(j) < at(k)
  BY <1>0, <1>1
<1> HIDE DEF at
<1>4. SideSorted(t, side)
  <2>1. \A k \in 1..Len(t) : t[k].order_count > 0
    BY <1>2 DEF SideSorted
  <2>2. \A j, k \in 1..Len(t) : j < k => Before(side, t[j].price, t[k].price)
    BY <1>2, <1>3 DEF SideSorted
  <2> QED
    BY <1>1, <2>1, <2>2 DEF SideSorted
<1>5. ~Has(t, levels[i].price)
  <2> SUFFICES ASSUME NEW k \in 1..Len(t), t[k].price = levels[i].price PROVE FALSE
    BY DEF Has
  <2> QED
    BY <1>2, PricesDiffer
<1>6. ASSUME NEW p \in Prices, p # levels[i].price PROVE LevelAt(t, p) = LevelAt(levels, p)
  <2>1. ASSUME NEW j \in 1..Len(levels), levels[j].price = p PROVE \E k \in 1..Len(t) : t[k] = levels[j]
    <3>1. CASE j < i
      BY <1>0, <1>1, <3>1
    <3>2. CASE j > i
      <4>1. j - 1 \in 1..Len(t) /\ ~(j - 1 < i) /\ (j - 1) + 1 = j
        BY <1>0, <1>1, <3>2
      <4>2. t[j - 1] = levels[(j - 1) + 1]
        BY <1>1, <4>1
      <4> QED
        BY <4>1, <4>2
    <3> QED
      BY <1>0, <1>6, <2>1, <3>1, <3>2
  <2>2. ASSUME NEW k \in 1..Len(t), t[k].price = p PROVE \E j \in 1..Len(levels) : levels[j] = t[k]
    BY <1>2
  <2> QED
    BY <1>4, <2>1, <2>2, LevelSame
<1> QED
  BY <1>1, <1>4, <1>5, <1>6, LevelAbsent

(* A deduction does to the level what it does in the reference book.       *)
LEMMA DeductAtIs ==
    ASSUME NEW side, NEW levels, SideSorted(levels, side), NEW i \in 1..Len(levels), NEW price,
           price = levels[i].price, NEW qty \in Nat, NEW release \in BOOLEAN,
           NEW t, t = DeductAt(levels, i, qty, release)
    PROVE  /\ SideSorted(t, side) /\ Len(t) <= Len(levels)
           /\ LevelAt(t, price) = BP!DeductLevel(LevelAt(levels, price), qty, release)
           /\ \A p \in Prices : p # price => LevelAt(t, p) = LevelAt(levels, p)
<1> DEFINE count == IF release THEN SatSub(levels[i].order_count, 1) ELSE levels[i].order_count
           lv == [price |-> levels[i].price, total_qty |-> SatSub(levels[i].total_qty, qty),
                  order_count |-> count]
           old == [total_qty |-> levels[i].total_qty, order_count |-> levels[i].order_count]
<1>0. Len(levels) \in Nat
  BY DEF SideSorted
<1>1. /\ levels[i].price \in Prices /\ levels[i].total_qty \in Nat
      /\ levels[i].order_count \in Nat /\ levels[i].order_count > 0
  BY LevelTyped
<1>2. LevelAt(levels, price) = old
  BY LevelIs
<1>3. old.total_qty = levels[i].total_qty /\ old.order_count = levels[i].order_count
  OBVIOUS
<1>4. BP!DeductLevel(old, qty, release) =
        IF release /\ count = 0 THEN EmptyAt
        ELSE [total_qty |-> SatSub(levels[i].total_qty, qty), order_count |-> count]
  BY DEF BP!DeductLevel, BP!SatSub, SatSub, BP!EmptyLevel, EmptyAt
<1>5. t = IF release /\ count = 0 THEN RemoveAt(levels, i) ELSE [levels EXCEPT ![i] = lv]
  BY DEF DeductAt
<1>6. CASE release /\ count = 0
  <2>1. t = RemoveAt(levels, i)
    BY <1>5, <1>6
  <2>2. /\ SideSorted(t, side) /\ Len(t) = Len(levels) - 1
        /\ LevelAt(t, levels[i].price) = EmptyAt
        /\ \A p \in Prices : p # levels[i].price => LevelAt(t, p) = LevelAt(levels, p)
    BY <2>1, RemoveLevelIs
  <2>3. BP!DeductLevel(LevelAt(levels, price), qty, release) = EmptyAt
    BY <1>2, <1>4, <1>6
  <2> QED
    BY <1>0, <2>2, <2>3
<1>7. CASE ~(release /\ count = 0)
  <2>1. t = [levels EXCEPT ![i] = lv]
    BY <1>5, <1>7
  <2>2. count \in Nat /\ count > 0 /\ SatSub(levels[i].total_qty, qty) \in Nat
    BY <1>1, <1>7 DEF SatSub
  <2>3. /\ lv \in HotLevel /\ lv.price = levels[i].price /\ lv.order_count = count
        /\ lv.total_qty = SatSub(levels[i].total_qty, qty)
    BY <1>1, <2>2 DEF HotLevel
  <2>4. BP!DeductLevel(LevelAt(levels, price), qty, release) =
          [total_qty |-> SatSub(levels[i].total_qty, qty), order_count |-> count]
    BY <1>2, <1>4, <1>7
  <2> HIDE DEF lv, count
  <2>5. /\ SideSorted(t, side) /\ Len(t) = Len(levels)
        /\ LevelAt(t, lv.price) = [total_qty |-> lv.total_qty, order_count |-> lv.order_count]
        /\ \A p \in Prices : p # lv.price => LevelAt(t, p) = LevelAt(levels, p)
    <3>1. lv.order_count > 0 /\ SideSorted(levels, side) /\ i \in 1..Len(levels) /\ levels \in Seq(HotLevel)
      BY <2>2, <2>3 DEF SideSorted
    <3>2. /\ t \in Seq(HotLevel) /\ Len(t) = Len(levels)
          /\ \A k \in 1..Len(levels) : t[k] = IF k = i THEN lv ELSE levels[k]
      BY <2>1, <2>3, <3>1, ExceptSeq
    <3> QED
      BY ONLY <2>3, <3>1, <3>2, SetLevelIs
  <2> QED
    BY <1>0, <2>3, <2>4, <2>5
<1> QED
  BY <1>6, <1>7

(* What add_order does to an array: the level at the price grows by one    *)
(* order, whether it was there or is opened.                               *)
LEMMA GrowIs ==
    ASSUME NEW side, NEW levels, SideSorted(levels, side), NEW price \in Prices, NEW qty \in Nat,
           NEW t,
           t = GrowLevel(levels, side, price, qty)
    PROVE  /\ (FindLevel(levels, side, price) # 0) <=> Has(levels, price)
           /\ SideSorted(t, side)
           /\ Len(t) = IF Has(levels, price) THEN Len(levels) ELSE Len(levels) + 1
           /\ LevelAt(t, price) = [total_qty |-> LevelAt(levels, price).total_qty + qty,
                                   order_count |-> LevelAt(levels, price).order_count + 1]
           /\ \A p \in Prices : p # price => LevelAt(t, p) = LevelAt(levels, p)
<1>0. price \in Nat /\ Len(levels) \in Nat
  BY PricesAssumption DEF SideSorted
<1>1. CASE Has(levels, price)
  <2>1. PICK i \in 1..Len(levels) : levels[i].price = price
    BY <1>1 DEF Has
  <2> DEFINE lv == [price |-> price, total_qty |-> levels[i].total_qty + qty,
                    order_count |-> levels[i].order_count + 1]
  <2>2. FindLevel(levels, side, price) = i /\ PartitionPoint(levels, side, price) = i
    BY <1>0, <2>1, FindIs
  <2>3. i # 0
    BY <1>0
  <2>4. /\ levels[i] \in HotLevel /\ levels[i].total_qty \in Nat /\ levels[i].order_count \in Nat
    BY LevelTyped
  <2>5. lv \in HotLevel /\ lv.price = price /\ lv.order_count > 0
        /\ lv.total_qty = levels[i].total_qty + qty /\ lv.order_count = levels[i].order_count + 1
    BY <2>4 DEF HotLevel
  <2>6. /\ t \in Seq(HotLevel) /\ Len(t) = Len(levels)
        /\ \A k \in 1..Len(levels) : t[k] = IF k = i THEN lv ELSE levels[k]
    <3>1. t = [levels EXCEPT ![i] = [price |-> @.price, total_qty |-> @.total_qty + qty, order_count |-> @.order_count + 1]]
      BY <2>2, <2>3 DEF GrowLevel
    <3>2. DOMAIN levels = 1..Len(levels)
      BY DEF SideSorted
    <3>4. t[i] = lv
      BY <2>1, <3>1, <3>2
    <3>5. \A k \in 1..Len(levels) : k # i => t[k] = levels[k]
      BY <3>1, <3>2
    <3>6. t = [k \in 1..Len(levels) |-> t[k]]
      BY <3>1, <3>2
    <3>7. \A k \in 1..Len(levels) : levels[k] \in HotLevel
      BY LevelTyped
    <3> HIDE DEF lv
    <3>8. \A k \in 1..Len(levels) : t[k] \in HotLevel /\ t[k] = IF k = i THEN lv ELSE levels[k]
      BY ONLY <2>5, <3>4, <3>5, <3>7
    <3> QED
      BY ONLY <1>0, <3>6, <3>8
  <2>7. LevelAt(levels, price) = [total_qty |-> levels[i].total_qty, order_count |-> levels[i].order_count]
    BY <2>1, LevelIs
  <2> HIDE DEF lv
  <2>8. /\ SideSorted(t, side) /\ Len(t) = Len(levels)
        /\ LevelAt(t, lv.price) = [total_qty |-> lv.total_qty, order_count |-> lv.order_count]
        /\ \A p \in Prices : p # lv.price => LevelAt(t, p) = LevelAt(levels, p)
    <3>1. SideSorted(levels, side) /\ i \in 1..Len(levels) /\ lv.price = levels[i].price
      BY <2>1, <2>5
    <3> QED
      BY ONLY <2>5, <2>6, <3>1, SetLevelIs
  <2>9. /\ LevelAt(levels, price).total_qty = levels[i].total_qty
        /\ LevelAt(levels, price).order_count = levels[i].order_count
    BY <2>7
  <2> QED
    BY ONLY <1>1, <2>2, <2>3, <2>5, <2>9, <2>8
<1>2. CASE ~Has(levels, price)
  <2>1. FindLevel(levels, side, price) = 0
    BY <1>0, <1>2, FindIs
  <2>2. t = OpenLevel(levels, PartitionPoint(levels, side, price), price, qty)
    BY <2>1 DEF GrowLevel
  <2>3. /\ SideSorted(t, side) /\ Len(t) = Len(levels) + 1
        /\ LevelAt(t, price) = [total_qty |-> qty, order_count |-> 1]
        /\ \A p \in Prices : p # price => LevelAt(t, p) = LevelAt(levels, p)
    BY <1>2, <2>2, OpenLevelIs
  <2>4. LevelAt(levels, price).total_qty = 0 /\ LevelAt(levels, price).order_count = 0
    BY <1>2, LevelAbsent DEF EmptyAt
  <2> QED
    BY <1>2, <2>1, <2>3, <2>4
<1> QED
  BY <1>1, <1>2

-----------------------------------------------------------------------------
(* The two sides together, read as the level maps of the reference book.   *)

GridOK(grid) ==
    /\ grid \in [Sides -> Seq(HotLevel)]
    /\ \A side \in Sides : SideSorted(grid[side], side) /\ Len(grid[side]) <= MAX_LEVELS

GridLevels(grid) == [l \in Sides \X Prices |-> LevelAt(grid[l[1]], l[2])]

WithSide(grid, side, t) == [grid EXCEPT ![side] = t]

WithLevel(levels, side, price, lv) == [levels EXCEPT ![<<side, price>>] = lv]

(* One side replaced by an array that differs at one price.                *)
LEMMA SideReplaced ==
    ASSUME NEW grid, GridOK(grid), NEW side \in Sides, NEW t, SideSorted(t, side),
           Len(t) <= MAX_LEVELS, NEW price \in Prices,
           \A p \in Prices : p # price => LevelAt(t, p) = LevelAt(grid[side], p)
    PROVE  /\ GridOK(WithSide(grid, side, t))
           /\ GridLevels(WithSide(grid, side, t)) =
                WithLevel(GridLevels(grid), side, price, LevelAt(t, price))
<1> DEFINE g == [grid EXCEPT ![side] = t]
<1>1. t \in Seq(HotLevel)
  BY DEF SideSorted
<1>2. g \in [Sides -> Seq(HotLevel)] /\ g[side] = t /\ \A s \in Sides : s # side => g[s] = grid[s]
  BY <1>1 DEF GridOK
<1>3. GridOK(g)
  BY <1>2 DEF GridOK
<1>4. ASSUME NEW s \in Sides, NEW p \in Prices
      PROVE  LevelAt(g[s], p) = IF s = side /\ p = price THEN LevelAt(t, price) ELSE LevelAt(grid[s], p)
  BY <1>2
<1>5. \A s \in Sides, p \in Prices : GridLevels(g)[<<s, p>>] =
         IF s = side /\ p = price THEN LevelAt(t, price) ELSE GridLevels(grid)[<<s, p>>]
  BY <1>4 DEF GridLevels
<1>6. \A l \in Sides \X Prices : GridLevels(g)[l] = [GridLevels(grid) EXCEPT ![<<side, price>>] = LevelAt(t, price)][l]
  <2> TAKE l \in Sides \X Prices
  <2>1. DOMAIN GridLevels(grid) = Sides \X Prices
    BY DEF GridLevels
  <2>2. PICK s \in Sides, p \in Prices : l = <<s, p>>
    OBVIOUS
  <2>3. <<s, p>> = <<side, price>> <=> s = side /\ p = price
    OBVIOUS
  <2>4. GridLevels(g)[<<s, p>>] =
         IF s = side /\ p = price THEN LevelAt(t, price) ELSE GridLevels(grid)[<<s, p>>]
    BY <1>5
  <2> QED
    BY <2>1, <2>2, <2>3, <2>4
<1>7. GridLevels(g) = [GridLevels(grid) EXCEPT ![<<side, price>>] = LevelAt(t, price)]
  <2>1. DOMAIN GridLevels(grid) = Sides \X Prices /\ DOMAIN GridLevels(g) = Sides \X Prices
    BY DEF GridLevels
  <2>2. GridLevels(g) = [l \in Sides \X Prices |-> GridLevels(g)[l]]
    BY DEF GridLevels
  <2> QED
    BY <1>6, <2>1, <2>2
<1> QED
  BY <1>3, <1>7 DEF WithSide, WithLevel

(* A deduction at a price that has a level, seen in the level maps.        *)
LEMMA DeductPriceIs ==
    ASSUME NEW grid, GridOK(grid), NEW side \in Sides, NEW price \in Prices,
           Has(grid[side], price), NEW qty \in Nat, NEW release \in BOOLEAN,
           NEW g, g = DeductPrice(grid, side, price, qty, release)
    PROVE  /\ GridOK(g)
           /\ GridLevels(g) =
                WithLevel(GridLevels(grid), side, price,
                          BP!DeductLevel(GridLevels(grid)[<<side, price>>], qty, release))
<1> DEFINE levels == grid[side]
<1>1. SideSorted(levels, side) /\ Len(levels) <= MAX_LEVELS /\ Len(levels) \in Nat
  BY DEF GridOK, SideSorted
<1>2. PICK i \in 1..Len(levels) : levels[i].price = price
  BY DEF Has
<1>3. FindLevel(levels, side, price) = i /\ i # 0
  BY <1>1, <1>2, FindIs, PricesAssumption
<1> DEFINE t == DeductAt(levels, i, qty, release)
<1>4. g = WithSide(grid, side, t)
  BY <1>3 DEF DeductPrice, WithSide
<1>5. /\ SideSorted(t, side) /\ Len(t) <= Len(levels)
      /\ LevelAt(t, price) = BP!DeductLevel(LevelAt(levels, price), qty, release)
      /\ \A p \in Prices : p # price => LevelAt(t, p) = LevelAt(levels, p)
  BY <1>1, <1>2, DeductAtIs
<1>6. Len(t) <= MAX_LEVELS
  <2>1. Len(t) \in Nat
    BY <1>5 DEF SideSorted
  <2> QED
    BY <1>1, <1>5, <2>1, MaxLevelsAssumption
<1>7. GridLevels(grid)[<<side, price>>] = LevelAt(levels, price)
  BY DEF GridLevels
<1> HIDE DEF t
<1>8. /\ GridOK(g)
      /\ GridLevels(g) = WithLevel(GridLevels(grid), side, price, LevelAt(t, price))
  <2>1. GridOK(grid) /\ side \in Sides /\ price \in Prices
    OBVIOUS
  <2>2. \A p \in Prices : p # price => LevelAt(t, p) = LevelAt(grid[side], p)
    BY <1>5
  <2>3. SideSorted(t, side)
    BY <1>5
  <2> QED
    BY ONLY <1>4, <1>6, <2>1, <2>2, <2>3, SideReplaced
<1> QED
  BY <1>5, <1>7, <1>8

-----------------------------------------------------------------------------
(* The hot book, read as a reference book.                                 *)

(* No message carries reference 0.                                         *)
Named == AnonId \notin OrderIds

HotOK(h) ==
    /\ h \in [grid : [Sides -> Seq(HotLevel)], slab : BP!SlabType]
    /\ GridOK(h.grid)
    /\ BP!Sound(h.slab)

AsBook(h) ==
    [levels |-> GridLevels(h.grid), orders |-> [id \in OrderIds |-> OrderOf(h, id)]]

(* Finiteness is the same in the instance.                                 *)
LEMMA FiniteIsFinite == \A S : BP!IsFiniteSet(S) <=> IsFiniteSet(S)
BY DEF IsFiniteSet, BP!IsFiniteSet

(* What the instantiated lemmas assume.                                    *)
LEMMA BookAssumptions ==
    /\ BP!IsFiniteSet(OrderIds) /\ BP!IsFiniteSet(OrderIds \ {AnonId})
    /\ Prices \subseteq Nat \ {0} /\ MaxQty \in Nat \ {0}
    /\ NoOrder \notin BP!Order /\ NoOrder \notin Order
<1>1. IsFiniteSet(OrderIds) /\ IsFiniteSet(OrderIds \ {AnonId})
  BY OrderIdsAssumption, FS_Subset
<1>2. BP!Order = Order
  BY DEF BP!Order, Order, BP!Sides, Sides
<1> QED
  BY <1>1, <1>2, FiniteIsFinite, PricesAssumption, MaxQtyAssumption, NoOrderIsNone

(* The hot book and BookProofs instantiate the same slab.                  *)
LEMMA SlabOperations ==
    ASSUME NEW s, NEW id
    PROVE  /\ Slab!SlabGet(s, id) = BP!SlabGet(s, id)
           /\ Slab!SlabRemove(s, id) = BP!SlabRemove(s, id)
           /\ \A m : Slab!SlabInsert(s, id, m) = BP!SlabInsert(s, id, m)
           /\ \A m : Slab!SlabUpdate(s, id, m) = BP!SlabUpdate(s, id, m)
<1>1. Slab!SlabGet(s, id) = BP!SlabGet(s, id)
  BY DEF Slab!SlabGet, BP!SlabGet, Slab!NoSlot, BP!NoSlot
<1>2. Slab!SlabRemove(s, id) = BP!SlabRemove(s, id)
  BY DEF Slab!SlabRemove, BP!SlabRemove, Slab!NoSlot, BP!NoSlot
<1>3. \A m : Slab!SlabInsert(s, id, m) = BP!SlabInsert(s, id, m)
  BY DEF Slab!SlabInsert, BP!SlabInsert, Slab!SlabUpdate, BP!SlabUpdate, Slab!Pop, BP!Pop,
         Slab!NoSlot, BP!NoSlot
<1>4. \A m : Slab!SlabUpdate(s, id, m) = BP!SlabUpdate(s, id, m)
  BY DEF Slab!SlabUpdate, BP!SlabUpdate
<1> QED
  BY <1>1, <1>2, <1>3, <1>4

(* Without reference 0 every order is read from the slab.                  *)
LEMMA OrderOfIs ==
    ASSUME Named, NEW h, NEW id \in OrderIds
    PROVE  /\ id \in OrderIds \ {AnonId} /\ id # AnonId
           /\ OrderOf(h, id) = BP!SlabGet(h.slab, id)
BY SlabOperations DEF Named, OrderOf

(* Books are equal when their maps are.                                    *)
LEMMA AsBookFields ==
    ASSUME NEW h
    PROVE  /\ AsBook(h).levels = GridLevels(h.grid)
           /\ \A id \in OrderIds : AsBook(h).orders[id] = OrderOf(h, id)
           /\ DOMAIN AsBook(h).orders = OrderIds
BY DEF AsBook

(* The orders map after one id was written, or cleared, in the slab.       *)
Put(orders, id, m) == [orders EXCEPT ![id] = m]

SlabPut(old, new, id, m) ==
    \A x \in OrderIds \ {AnonId} : BP!SlabGet(new, x) = IF x = id THEN m ELSE BP!SlabGet(old, x)

LEMMA OrdersPut ==
    ASSUME Named, NEW h, NEW n, NEW id \in OrderIds, NEW m, SlabPut(h.slab, n.slab, id, m)
    PROVE  AsBook(n).orders = Put(AsBook(h).orders, id, m) /\ OrderOf(n, id) = m
<1>1. ASSUME NEW x \in OrderIds
      PROVE  OrderOf(n, x) = IF x = id THEN m ELSE OrderOf(h, x)
  <2>1. x \in OrderIds \ {AnonId} /\ OrderOf(n, x) = BP!SlabGet(n.slab, x) /\ OrderOf(h, x) = BP!SlabGet(h.slab, x)
    BY OrderOfIs
  <2> QED
    BY <2>1 DEF SlabPut
<1>2. AsBook(h).orders = [x \in OrderIds |-> OrderOf(h, x)] /\ AsBook(n).orders = [x \in OrderIds |-> OrderOf(n, x)]
  BY DEF AsBook
<1> QED
  BY <1>1, <1>2 DEF Put

(* add_order on a free reference: refused without a trace, or the same as  *)
(* the reference book's add_order.                                         *)
LEMMA AddIs ==
    ASSUME Named, NEW h, HotOK(h), NEW e \in Event, e.side \in Sides, e.price \in Prices, e.qty > 0,
           OrderOf(h, e.order_id) = NoOrder, NEW n, n = HotAdd(h, e)
    PROVE  \/ n = h
           \/ HotOK(n) /\ AsBook(n) = BP!AddOrder(AsBook(h), e) /\ OrderOf(n, e.order_id) # NoOrder
<1> DEFINE side == e.side
           price == e.price
           id == e.order_id
           levels == h.grid[side]
           exists == FindLevel(levels, side, price) # 0
           m == [side |-> side, price |-> price, qty |-> e.qty]
           t == GrowLevel(levels, side, price, e.qty)
           s == BP!SlabInsert(h.slab, id, m)
<1>0. /\ id \in OrderIds /\ e.qty \in Nat /\ id \in OrderIds \ {AnonId} /\ id # AnonId
  BY OrderOfIs DEF Event
<1>1. SideOf(e.side) = side
  BY DEF SideOf, Sides
<1>2. m \in Order /\ m # NoOrder
  BY <1>0, NoOrderIsNone DEF Order
<1>3. /\ SideSorted(levels, side) /\ Len(levels) <= MAX_LEVELS /\ Len(levels) \in Nat
      /\ h.grid \in [Sides -> Seq(HotLevel)]
  BY DEF HotOK, GridOK, SideSorted
<1>4. n = IF ~exists /\ Len(levels) >= MAX_LEVELS THEN h
          ELSE [grid |-> WithSide(h.grid, side, t), slab |-> s]
  <2>1. Slab!SlabInsert(h.slab, id, m) = s
    BY SlabOperations
  <2> QED
    BY <1>0, <1>1, <2>1 DEF HotAdd, WithSide
<1>5. /\ exists <=> Has(levels, price)
      /\ SideSorted(t, side)
      /\ Len(t) = IF Has(levels, price) THEN Len(levels) ELSE Len(levels) + 1
      /\ LevelAt(t, price) = [total_qty |-> LevelAt(levels, price).total_qty + e.qty,
                              order_count |-> LevelAt(levels, price).order_count + 1]
      /\ \A p \in Prices : p # price => LevelAt(t, p) = LevelAt(levels, p)
  <2>1. SideSorted(levels, side) /\ price \in Prices /\ e.qty \in Nat
    BY <1>0, <1>3
  <2> QED
    BY ONLY <2>1, GrowIs
<1> HIDE DEF t, exists, s, m, levels
<1>6. CASE ~exists /\ Len(levels) >= MAX_LEVELS
  BY <1>4, <1>6
<1>7. CASE ~(~exists /\ Len(levels) >= MAX_LEVELS)
  <2>0. n = [grid |-> WithSide(h.grid, side, t), slab |-> s]
    BY <1>4, <1>7
  <2>1. n.grid = WithSide(h.grid, side, t) /\ n.slab = s /\ n = [grid |-> n.grid, slab |-> n.slab]
    BY <2>0
  <2>2. Len(t) <= MAX_LEVELS
    <3>1. CASE Has(levels, price)
      BY <1>3, <1>5, <3>1
    <3>2. CASE ~Has(levels, price)
      <4>1. Len(levels) < MAX_LEVELS
        BY <1>3, <1>5, <1>7, <3>2, MaxLevelsAssumption
      <4> QED
        BY <1>3, <1>5, <3>2, <4>1, MaxLevelsAssumption
    <3> QED
      BY <3>1, <3>2
  <2>3. /\ GridOK(n.grid)
        /\ GridLevels(n.grid) = WithLevel(GridLevels(h.grid), side, price, LevelAt(t, price))
    <3>1. GridOK(h.grid) /\ side \in Sides /\ price \in Prices
      BY DEF HotOK
    <3>2. SideSorted(t, side) /\ \A p \in Prices : p # price => LevelAt(t, p) = LevelAt(h.grid[side], p)
      BY <1>5 DEF levels
    <3> QED
      BY ONLY <2>1, <2>2, <3>1, <3>2, SideReplaced
  <2>4. /\ BP!Sound(s)
        /\ \A x \in OrderIds \ {AnonId} : BP!SlabGet(s, x) = IF x = id THEN m ELSE BP!SlabGet(h.slab, x)
    <3>1. BP!Sound(h.slab)
      BY DEF HotOK
    <3> QED
      BY <1>0, <1>2, <3>1, BookAssumptions, BP!InsertSound DEF s
  <2>5. /\ AsBook(n).orders = Put(AsBook(h).orders, id, m)
        /\ OrderOf(n, id) = m
    <3>1. SlabPut(h.slab, n.slab, id, m)
      BY <2>1, <2>4 DEF SlabPut
    <3>2. Named /\ id \in OrderIds
      BY <1>0
    <3> QED
      BY ONLY <3>1, <3>2, OrdersPut
  <2>6. HotOK(n)
    BY <2>1, <2>3, <2>4 DEF HotOK, GridOK, BP!Sound
  <2>7. AsBook(n) = BP!AddOrder(AsBook(h), e)
    <3> DEFINE l == <<side, price>>
    <3>1. AsBook(h).levels = GridLevels(h.grid) /\ GridLevels(h.grid)[l] = LevelAt(levels, price)
      BY DEF AsBook, GridLevels, levels
    <3>2. AsBook(n) = [levels |-> GridLevels(n.grid), orders |-> [AsBook(h).orders EXCEPT ![id] = m]]
      BY <2>5 DEF AsBook, Put
    <3>3. GridLevels(n.grid) = [AsBook(h).levels EXCEPT ![l] =
                [total_qty |-> @.total_qty + e.qty, order_count |-> @.order_count + 1]]
      BY <1>5, <2>3, <3>1 DEF WithLevel
    <3>4. e.side # BP!BadSide
      BY DEF Sides, BP!BadSide
    <3> QED
      BY <3>2, <3>3, <3>4 DEF BP!AddOrder, m
  <2> QED
    BY <1>2, <2>5, <2>6, <2>7
<1> QED
  BY <1>6, <1>7

(* What a cancel and a trade of a live order do, in the hot book and in    *)
(* the reference book.                                                     *)
HotTake(h, id, o, qty, release, left) ==
    [grid |-> DeductPrice(h.grid, o.side, o.price, qty, release),
     slab |-> IF release THEN BP!SlabRemove(h.slab, id)
              ELSE BP!SlabUpdate(h.slab, id, [o EXCEPT !.qty = left])]

BookTake(b, id, o, qty, release, left) ==
    [levels |-> [b.levels EXCEPT ![<<o.side, o.price>>] = BP!DeductLevel(@, qty, release)],
     orders |-> [b.orders EXCEPT ![id] = IF release THEN NoOrder ELSE [o EXCEPT !.qty = left]]]

(* A live order has its level, so the lookup by price cannot miss.         *)
LEMMA LiveOrder ==
    ASSUME Named, NEW h, HotOK(h), BP!Consistent(AsBook(h)), NEW id \in OrderIds, NEW o,
           o = OrderOf(h, id), o # NoOrder
    PROVE  /\ o \in Order /\ o.side \in Sides /\ o.price \in Prices /\ o.qty \in Nat /\ o.qty > 0
           /\ Has(h.grid[o.side], o.price)
           /\ id \in BP!LiveIds(h.slab)
<1>1. AsBook(h).orders[id] = o
  BY AsBookFields
<1>2. /\ o \in BP!Order /\ o.qty > 0
      /\ AsBook(h).levels[<<o.side, o.price>>].order_count > 0
  BY <1>1, BookAssumptions, BP!LiveHasLevel
<1>3. o \in Order
  BY <1>2 DEF BP!Order, Order, BP!Sides, Sides
<1>4. o.side \in Sides /\ o.price \in Prices /\ o.qty \in Nat
  BY <1>3 DEF Order
<1>5. AsBook(h).levels[<<o.side, o.price>>] = LevelAt(h.grid[o.side], o.price)
  BY <1>4 DEF AsBook, GridLevels
<1>6. Has(h.grid[o.side], o.price)
  <2>1. CASE ~Has(h.grid[o.side], o.price)
    <3>1. LevelAt(h.grid[o.side], o.price).order_count = 0
      BY <2>1, LevelAbsent DEF EmptyAt
    <3> QED
      BY <1>2, <1>5, <3>1
  <2> QED
    BY <2>1
<1>7. BP!SlabGet(h.slab, id) # NoOrder /\ id \in OrderIds \ {AnonId}
  BY OrderOfIs
<1>8. id \in BP!LiveIds(h.slab)
  BY <1>7 DEF BP!SlabGet, BP!LiveIds, BP!NoSlot
<1> QED
  BY <1>2, <1>3, <1>4, <1>6, <1>8

(* Taking quantity or the whole order agrees with the reference book.      *)
LEMMA TakeIs ==
    ASSUME Named, NEW h, HotOK(h), BP!Consistent(AsBook(h)), NEW id \in OrderIds, NEW o,
           o = OrderOf(h, id), o # NoOrder, NEW qty \in Nat, NEW release \in BOOLEAN, NEW left \in Nat,
           NEW n, n = HotTake(h, id, o, qty, release, left)
    PROVE  HotOK(n) /\ AsBook(n) = BookTake(AsBook(h), id, o, qty, release, left)
<1> DEFINE s == IF release THEN BP!SlabRemove(h.slab, id)
                ELSE BP!SlabUpdate(h.slab, id, [o EXCEPT !.qty = left])
           m == IF release THEN NoOrder ELSE [o EXCEPT !.qty = left]
<1>1. /\ o \in Order /\ o.side \in Sides /\ o.price \in Prices /\ o.qty \in Nat /\ o.qty > 0
      /\ Has(h.grid[o.side], o.price)
      /\ id \in BP!LiveIds(h.slab)
  BY LiveOrder
<1>2. [o EXCEPT !.qty = left] \in Order
  BY <1>1 DEF Order
<1>3. n.grid = DeductPrice(h.grid, o.side, o.price, qty, release) /\ n.slab = s /\ n = [grid |-> n.grid, slab |-> n.slab]
  BY DEF HotTake
<1>4. BP!Sound(h.slab) /\ GridOK(h.grid) /\ id \in OrderIds \ {AnonId}
  BY OrderOfIs DEF HotOK
<1>5. BP!Sound(s) /\ SlabPut(h.slab, s, id, m)
  <2>1. CASE release
    BY <1>4, <2>1, BP!RemoveSound, BookAssumptions DEF SlabPut
  <2>2. CASE ~release
    <3>1. BP!SlabUpdate(h.slab, id, m) =
            [data |-> [h.slab.data EXCEPT ![h.slab.index[id]] = m], free_list |-> h.slab.free_list, index |-> h.slab.index]
      BY <1>4 DEF BP!SlabUpdate, BP!Sound, BP!SlabType
    <3>2. m \in Order /\ s = BP!SlabUpdate(h.slab, id, m) /\ id \in BP!LiveIds(h.slab) /\ BP!Sound(h.slab)
      BY <1>1, <1>2, <1>4, <2>2
    <3> HIDE DEF m, s
    <3>3. BP!Sound(s) /\ \A x \in OrderIds \ {AnonId} : BP!SlabGet(s, x) = IF x = id THEN m ELSE BP!SlabGet(h.slab, x)
      BY ONLY <3>1, <3>2, BP!UpdateSound, BookAssumptions
    <3> QED
      BY <3>3 DEF SlabPut
  <2> QED
    BY <2>1, <2>2
<1> HIDE DEF s, m
<1>6. AsBook(n).orders = Put(AsBook(h).orders, id, m)
  <2>1. SlabPut(h.slab, n.slab, id, m) /\ Named /\ id \in OrderIds
    BY <1>3, <1>5
  <2> QED
    BY ONLY <2>1, OrdersPut
<1>7. /\ GridOK(n.grid)
      /\ GridLevels(n.grid) =
            WithLevel(GridLevels(h.grid), o.side, o.price,
                      BP!DeductLevel(GridLevels(h.grid)[<<o.side, o.price>>], qty, release))
  <2>1. qty \in Nat /\ release \in BOOLEAN
    OBVIOUS
  <2> QED
    BY ONLY <1>1, <1>3, <1>4, <2>1, DeductPriceIs
<1>8. HotOK(n)
  BY <1>3, <1>5, <1>7 DEF HotOK, GridOK, BP!Sound
<1>9. AsBook(n) = [levels |-> GridLevels(n.grid), orders |-> Put(AsBook(h).orders, id, m)]
  BY <1>6 DEF AsBook
<1>10. AsBook(h).levels = GridLevels(h.grid)
  BY DEF AsBook
<1> QED
  BY <1>7, <1>8, <1>9, <1>10 DEF BookTake, WithLevel, Put, m

(* cancel_order agrees with the reference book.                            *)
LEMMA CancelIs ==
    ASSUME Named, NEW h, HotOK(h), BP!Consistent(AsBook(h)), NEW e \in Event, NEW n, n = HotCancel(h, e)
    PROVE  HotOK(n) /\ AsBook(n) = BP!CancelOrder(AsBook(h), e)
<1> DEFINE id == e.order_id
           o == OrderOf(h, id)
           full == e.qty = 0 \/ e.qty >= o.qty
           deduct == IF full THEN o.qty ELSE e.qty
           left == IF full THEN 0 ELSE o.qty - e.qty
<1>0. id \in OrderIds /\ e.qty \in Nat /\ id # AnonId /\ AsBook(h).orders[id] = o
  BY OrderOfIs, AsBookFields DEF Event
<1>1. CASE o = NoOrder
  BY <1>0, <1>1 DEF HotCancel, BP!CancelOrder
<1>2. CASE o # NoOrder
  <2>1. o \in Order /\ o.qty \in Nat
    BY <1>0, <1>2, LiveOrder
  <2>2. deduct \in Nat /\ left \in Nat /\ full \in BOOLEAN /\ (~full => left = o.qty - e.qty)
    BY <1>0, <2>1
  <2>3. ~full => [o EXCEPT !.qty = @ - e.qty] = [o EXCEPT !.qty = left]
    BY <2>2
  <2>4. n = HotTake(h, id, o, deduct, full, left)
    BY <1>0, <1>2, <2>3, SlabOperations DEF HotCancel, HotTake
  <2>5. BP!CancelOrder(AsBook(h), e) = BookTake(AsBook(h), id, o, deduct, full, left)
    BY <1>0, <1>2, <2>3 DEF BP!CancelOrder, BookTake
  <2> HIDE DEF deduct, full, left
  <2>6. HotOK(n) /\ AsBook(n) = BookTake(AsBook(h), id, o, deduct, full, left)
    <3>1. Named /\ HotOK(h) /\ BP!Consistent(AsBook(h))
      OBVIOUS
    <3> QED
      BY ONLY <1>0, <1>2, <2>2, <2>4, <3>1, TakeIs
  <2> QED
    BY <2>5, <2>6
<1> QED
  BY <1>1, <1>2

(* trade agrees with the reference book.                                   *)
LEMMA TradeIs ==
    ASSUME Named, NEW h, HotOK(h), BP!Consistent(AsBook(h)), NEW e \in Event, NEW n, n = HotTrade(h, e)
    PROVE  HotOK(n) /\ AsBook(n) = BP!ExecuteTrade(AsBook(h), e)
<1> DEFINE id == e.order_id
           o == OrderOf(h, id)
           fill == Least(e.qty, o.qty)
           left == o.qty - fill
           release == left = 0
<1>0. id \in OrderIds /\ e.qty \in Nat /\ id # AnonId /\ AsBook(h).orders[id] = o
  BY OrderOfIs, AsBookFields DEF Event
<1>1. CASE o = NoOrder
  BY <1>0, <1>1 DEF HotTrade, BP!ExecuteTrade
<1>2. CASE o # NoOrder
  <2>1. o \in Order /\ o.qty \in Nat
    BY <1>0, <1>2, LiveOrder
  <2>2. fill \in Nat /\ left \in Nat /\ release \in BOOLEAN
    BY <1>0, <2>1 DEF Least
  <2>3. BP!SatSub(o.qty, e.qty) = left /\ BP!Least(e.qty, o.qty) = fill
    BY <1>0, <2>1 DEF Least, BP!Least, BP!SatSub
  <2>4. n = HotTake(h, id, o, fill, release, left)
    BY <1>0, <1>2, SlabOperations DEF HotTrade, HotTake
  <2>5. BP!ExecuteTrade(AsBook(h), e) = BookTake(AsBook(h), id, o, fill, release, left)
    BY <1>0, <1>2, <2>3 DEF BP!ExecuteTrade, BookTake
  <2> HIDE DEF fill, release, left
  <2>6. HotOK(n) /\ AsBook(n) = BookTake(AsBook(h), id, o, fill, release, left)
    <3>1. Named /\ HotOK(h) /\ BP!Consistent(AsBook(h))
      OBVIOUS
    <3> QED
      BY ONLY <1>0, <1>2, <2>2, <2>4, <3>1, TakeIs
  <2> QED
    BY <2>5, <2>6
<1> QED
  BY <1>1, <1>2

-----------------------------------------------------------------------------
(* One event.                                                              *)

LEMMA RefOperations ==
    /\ \A b, e : Ref!AddOrder(b, e) = BP!AddOrder(b, e)
    /\ \A b, e : Ref!CancelOrder(b, e) = BP!CancelOrder(b, e)
    /\ \A b, e : Ref!ExecuteTrade(b, e) = BP!ExecuteTrade(b, e)
<1>1. \A lv, q, r : Ref!DeductLevel(lv, q, r) = BP!DeductLevel(lv, q, r)
  BY DEF Ref!DeductLevel, BP!DeductLevel, Ref!SatSub, BP!SatSub, Ref!EmptyLevel, BP!EmptyLevel
<1>2. \A b, e : Ref!AddOrder(b, e) = BP!AddOrder(b, e)
  BY DEF Ref!AddOrder, BP!AddOrder, Ref!BadSide, BP!BadSide
<1>3. \A b, e : Ref!CancelOrder(b, e) = BP!CancelOrder(b, e)
  BY <1>1, SMTT(30) DEF Ref!CancelOrder, BP!CancelOrder
<1>4. \A b, e : Ref!ExecuteTrade(b, e) = BP!ExecuteTrade(b, e)
  BY <1>1, SMTT(30) DEF Ref!ExecuteTrade, BP!ExecuteTrade, Ref!SatSub, BP!SatSub, Ref!Least, BP!Least
<1> QED
  BY <1>2, <1>3, <1>4

LEMMA EventIsEvent == BP!Event = Event
BY DEF BP!Event, Event, BP!EventTypes, EventTypes, BP!Sides, Sides, BP!BadSide, BadSide

(* Each operation keeps the invariant of the hot book.                     *)
LEMMA AddKeeps ==
    ASSUME Named, NEW h, HotOK(h), BP!Consistent(AsBook(h)), NEW e \in Event, e.side \in Sides,
           e.price \in Prices, e.qty > 0, OrderOf(h, e.order_id) = NoOrder, NEW n, n = HotAdd(h, e)
    PROVE  /\ HotOK(n) /\ BP!Consistent(AsBook(n))
           /\ OrderOf(n, e.order_id) # NoOrder => AsBook(n) = BP!AddOrder(AsBook(h), e)
<1>1. CASE n = h
  BY <1>1
<1>2. CASE HotOK(n) /\ AsBook(n) = BP!AddOrder(AsBook(h), e)
  <2>1. AsBook(h).orders[e.order_id] = NoOrder /\ e \in BP!Event
    BY AsBookFields, EventIsEvent DEF Event
  <2>2. BP!Consistent(BP!AddOrder(AsBook(h), e))
    BY <2>1, BP!AddConsistent, BookAssumptions
  <2> QED
    BY <1>2, <2>2
<1> QED
  BY <1>1, <1>2, AddIs

LEMMA CancelKeeps ==
    ASSUME Named, NEW h, HotOK(h), BP!Consistent(AsBook(h)), NEW e \in Event, NEW n, n = HotCancel(h, e)
    PROVE  /\ HotOK(n) /\ BP!Consistent(AsBook(n)) /\ AsBook(n) = BP!CancelOrder(AsBook(h), e)
           /\ (OrderOf(h, e.order_id) # NoOrder => e.qty >= OrderOf(h, e.order_id).qty)
              => OrderOf(n, e.order_id) = NoOrder
<1>1. HotOK(n) /\ AsBook(n) = BP!CancelOrder(AsBook(h), e)
  BY CancelIs
<1>2. e \in BP!Event /\ e.order_id \in OrderIds
  BY EventIsEvent DEF Event
<1>3. AsBook(h).orders[e.order_id] = OrderOf(h, e.order_id) /\ AsBook(n).orders[e.order_id] = OrderOf(n, e.order_id)
  BY <1>2, AsBookFields
<1>4. /\ BP!Consistent(BP!CancelOrder(AsBook(h), e))
      /\ \/ AsBook(h).orders[e.order_id] = NoOrder
         \/ e.qty = 0
         \/ e.qty >= AsBook(h).orders[e.order_id].qty
         => BP!CancelOrder(AsBook(h), e).orders[e.order_id] = NoOrder
  BY <1>2, BP!CancelConsistent, BookAssumptions
<1> QED
  BY <1>1, <1>3, <1>4

LEMMA TradeKeeps ==
    ASSUME Named, NEW h, HotOK(h), BP!Consistent(AsBook(h)), NEW e \in Event, NEW n, n = HotTrade(h, e)
    PROVE  HotOK(n) /\ BP!Consistent(AsBook(n)) /\ AsBook(n) = BP!ExecuteTrade(AsBook(h), e)
<1>1. HotOK(n) /\ AsBook(n) = BP!ExecuteTrade(AsBook(h), e)
  BY TradeIs
<1>2. e \in BP!Event
  BY EventIsEvent
<1>3. BP!Consistent(BP!ExecuteTrade(AsBook(h), e))
  BY <1>2, BP!TradeConsistent, BookAssumptions
<1> QED
  BY <1>1, <1>3

(* What a feed may ask of the hot book.                                    *)
Admissible(h, e) ==
    /\ e \in Event
    /\ e.type \in {"OrderAdd", "OrderCancel", "OrderModify", "Trade"}
    /\ e.type \in {"OrderAdd", "OrderModify"} => e.side \in Sides /\ e.price \in Prices /\ e.qty > 0
    /\ e.type = "OrderAdd" => OrderOf(h, e.order_id) = NoOrder
    /\ e.type = "OrderModify" =>
            (OrderOf(h, e.order_id) # NoOrder => e.qty >= OrderOf(h, e.order_id).qty)

(* apply keeps it, and agrees with the reference book unless an order was  *)
(* refused.                                                                *)
LEMMA ApplyKeeps ==
    ASSUME Named, NEW h, HotOK(h), BP!Consistent(AsBook(h)), NEW e, Admissible(h, e),
           NEW n, n = HotApply(h, e)
    PROVE  /\ HotOK(n) /\ BP!Consistent(AsBook(n))
           /\ ~Refused(n, e) => AsBook(n) = Ref!Apply(AsBook(h), e)
<1>0. e \in Event /\ e.type \in {"OrderAdd", "OrderCancel", "OrderModify", "Trade"}
  BY DEF Admissible
<1>1. CASE e.type = "OrderAdd"
  <2>1. n = HotAdd(h, e)
    BY <1>1 DEF HotApply
  <2>2. e.side \in Sides /\ e.price \in Prices /\ e.qty > 0 /\ OrderOf(h, e.order_id) = NoOrder
    BY <1>1 DEF Admissible
  <2>3. /\ HotOK(n) /\ BP!Consistent(AsBook(n))
        /\ OrderOf(n, e.order_id) # NoOrder => AsBook(n) = BP!AddOrder(AsBook(h), e)
    BY <1>0, <2>1, <2>2, AddKeeps
  <2>4. Ref!Apply(AsBook(h), e) = BP!AddOrder(AsBook(h), e)
    BY <1>1, RefOperations DEF Ref!Apply
  <2>5. ~Refused(n, e) => OrderOf(n, e.order_id) # NoOrder
    BY <1>1 DEF Refused
  <2> QED
    BY <2>3, <2>4, <2>5
<1>2. CASE e.type = "OrderCancel"
  <2>1. n = HotCancel(h, e)
    BY <1>2 DEF HotApply
  <2>2. Ref!Apply(AsBook(h), e) = BP!CancelOrder(AsBook(h), e)
    BY <1>2, RefOperations DEF Ref!Apply
  <2> QED
    BY <1>0, <2>1, <2>2, CancelKeeps
<1>3. CASE e.type = "OrderModify"
  <2> DEFINE c == HotCancel(h, e)
  <2>1. n = HotAdd(c, e)
    BY <1>3 DEF HotApply
  <2>2. /\ e.side \in Sides /\ e.price \in Prices /\ e.qty > 0
        /\ OrderOf(h, e.order_id) # NoOrder => e.qty >= OrderOf(h, e.order_id).qty
    BY <1>3 DEF Admissible
  <2>3. HotOK(c) /\ BP!Consistent(AsBook(c)) /\ AsBook(c) = BP!CancelOrder(AsBook(h), e)
        /\ OrderOf(c, e.order_id) = NoOrder
    BY <1>0, <2>2, CancelKeeps
  <2> HIDE DEF c
  <2>4. /\ HotOK(n) /\ BP!Consistent(AsBook(n))
        /\ OrderOf(n, e.order_id) # NoOrder => AsBook(n) = BP!AddOrder(AsBook(c), e)
    BY <1>0, <2>1, <2>2, <2>3, AddKeeps
  <2>5. Ref!Apply(AsBook(h), e) = BP!AddOrder(BP!CancelOrder(AsBook(h), e), e)
    BY <1>3, RefOperations DEF Ref!Apply, Ref!ModifyOrder
  <2>6. ~Refused(n, e) => OrderOf(n, e.order_id) # NoOrder
    BY <1>3 DEF Refused
  <2> QED
    BY <2>3, <2>4, <2>5, <2>6
<1>4. CASE e.type = "Trade"
  <2>1. n = HotTrade(h, e)
    BY <1>4 DEF HotApply
  <2>2. Ref!Apply(AsBook(h), e) = BP!ExecuteTrade(AsBook(h), e)
    BY <1>4, RefOperations DEF Ref!Apply
  <2> QED
    BY <1>0, <2>1, <2>2, TradeKeeps
<1> QED
  BY <1>0, <1>1, <1>2, <1>3, <1>4

-----------------------------------------------------------------------------
(* The inductive invariant of the two books side by side.                  *)

CrossInv ==
    /\ HotOK(hot)
    /\ BP!Consistent(AsBook(hot))
    /\ ~refused => ref = AsBook(hot)

(* Two empty books.                                                        *)
LEMMA CrossInitInv == Named /\ CrossInit => CrossInv
<1> SUFFICES ASSUME Named, CrossInit PROVE CrossInv
  OBVIOUS
<1>1. /\ hot = [grid |-> [side \in Sides |-> <<>>], slab |-> Slab!NewSlab]
      /\ ref = Ref!NewBook
  BY DEF CrossInit, HotInit, NewHotBook
<1>2. hot.slab = BP!NewSlab /\ hot.grid = [side \in Sides |-> <<>>]
  BY <1>1 DEF Slab!NewSlab, BP!NewSlab, Slab!NoSlot, BP!NoSlot
<1>3. BP!Sound(hot.slab)
  BY <1>2, BP!InitSound, BP!InvIsSound, BookAssumptions DEF BP!SlabInit
<1>4. GridOK(hot.grid)
  <2>1. \A side \in Sides : hot.grid[side] = <<>> /\ Len(hot.grid[side]) = 0
    BY <1>2
  <2>2. ASSUME NEW side \in Sides PROVE SideSorted(hot.grid[side], side)
    <3>0. <<>> \in Seq(HotLevel) /\ 1..0 = {}
      OBVIOUS
    <3>1. hot.grid[side] \in Seq(HotLevel) /\ 1..Len(hot.grid[side]) = {}
      BY <2>1, <3>0
    <3> QED
      BY <3>1 DEF SideSorted
  <2>3. \A side \in Sides : Len(hot.grid[side]) <= MAX_LEVELS
    BY <2>1, MaxLevelsAssumption
  <2> QED
    BY <1>2, <2>2, <2>3 DEF GridOK
<1>5. HotOK(hot)
  BY <1>1, <1>2, <1>3, <1>4 DEF HotOK, GridOK, BP!Sound
<1>6. AsBook(hot) = ref
  <2>1. \A l \in Sides \X Prices : GridLevels(hot.grid)[l] = EmptyAt
    <3> SUFFICES ASSUME NEW l \in Sides \X Prices PROVE LevelAt(hot.grid[l[1]], l[2]) = EmptyAt
      BY DEF GridLevels
    <3>1. Len(hot.grid[l[1]]) = 0
      BY <1>2
    <3> QED
      BY <3>1 DEF LevelAt, Has
  <2>2. GridLevels(hot.grid) = [l \in Sides \X Prices |-> EmptyAt]
    BY <2>1 DEF GridLevels
  <2>3. \A id \in OrderIds : OrderOf(hot, id) = NoOrder
    BY <1>2, OrderOfIs DEF BP!NewSlab, BP!SlabGet, BP!NoSlot
  <2> QED
    BY <1>1, <2>2, <2>3 DEF AsBook, Ref!NewBook, Ref!Grid, Ref!Sides, Sides, Ref!EmptyLevel, EmptyAt
<1>7. BP!Consistent(ref)
  <2>1. BP!Init
    BY <1>1 DEF BP!Init, BP!NewBook, Ref!NewBook, Ref!Grid, BP!Grid, Ref!Sides, BP!Sides, Ref!EmptyLevel, BP!EmptyLevel
  <2> QED
    BY <2>1, BP!InitInv, BP!InvIsConsistent, BookAssumptions
<1> QED
  BY <1>5, <1>6, <1>7 DEF CrossInv

(* One event applied to both books.                                        *)
LEMMA BothKeeps ==
    ASSUME Named, CrossInv, NEW e, Admissible(hot, e), Both(e)
    PROVE  CrossInv'
<1>1. /\ hot' = HotApply(hot, e)
      /\ refused' = (refused \/ Refused(hot', e))
      /\ ref' = IF refused' THEN Ref!NewBook ELSE Ref!Apply(ref, e)
  BY DEF Both
<1>2. HotOK(hot) /\ BP!Consistent(AsBook(hot)) /\ (~refused => ref = AsBook(hot))
  BY DEF CrossInv
<1>3. /\ HotOK(hot') /\ BP!Consistent(AsBook(hot'))
      /\ ~Refused(hot', e) => AsBook(hot') = Ref!Apply(AsBook(hot), e)
  BY <1>1, <1>2, ApplyKeeps
<1>4. ~refused' => ref' = AsBook(hot')
  BY <1>1, <1>2, <1>3
<1> QED
  BY <1>3, <1>4 DEF CrossInv

(* Every message of the feed becomes such an event.                        *)
LEMMA FeedAdmissible ==
    ASSUME Named, NEW m \in ItchMessage, m.kind \in {"A", "D", "X", "E", "C", "P"}, HotConformant(hot, m)
    PROVE  Admissible(hot, Dispatch(m))
<1> DEFINE e == Dispatch(m)
<1>1. 1..MaxQty \subseteq Nat \ {0} /\ Prices \subseteq Prices \cup {0}
  BY MaxQtyAssumption
<1>2. CASE m.kind \in {"A", "P"}
  <2>1. /\ m.ref \in OrderIds /\ m.side \in Sides /\ m.price \in Prices
        /\ m.shares \in Nat /\ m.shares > 0
    BY <1>1, <1>2 DEF ItchMessage
  <2>2. CASE m.kind = "A"
    <3>1. e = MkEvent("OrderAdd", m.ref, m.side, m.price, m.shares) /\ OrderOf(hot, m.ref) = NoOrder
      BY <2>2 DEF Dispatch, HotConformant
    <3> HIDE DEF e
    <3> QED
      BY <2>1, <3>1 DEF Admissible, MkEvent, Event, EventTypes, e
  <2>3. CASE m.kind = "P"
    <3>1. e = MkEvent("Trade", m.ref, m.side, m.price, m.shares)
      BY <2>3 DEF Dispatch
    <3> QED
      BY <2>1, <3>1 DEF Admissible, MkEvent, Event, EventTypes
  <2> QED
    BY <1>2, <2>2, <2>3
<1>3. CASE m.kind \in {"C", "X", "E"}
  <2>1. m.ref \in OrderIds /\ m.shares \in Nat /\ (m.kind = "C" => m.price \in Prices)
    BY <1>1, <1>3 DEF ItchMessage
  <2>2. \/ e = MkEvent("Trade", m.ref, "Bid", m.price, m.shares) /\ m.kind = "C"
        \/ e = MkEvent("OrderCancel", m.ref, "Bid", 0, m.shares)
        \/ e = MkEvent("Trade", m.ref, "Bid", 0, m.shares)
    BY <1>3 DEF Dispatch
  <2> QED
    BY <2>1, <2>2 DEF Admissible, MkEvent, Event, EventTypes, Sides
<1>4. CASE m.kind = "D"
  <2>1. m.ref \in OrderIds /\ e = MkEvent("OrderCancel", m.ref, "Bid", 0, 0)
    BY <1>4 DEF ItchMessage, Dispatch
  <2> QED
    BY <2>1 DEF Admissible, MkEvent, Event, EventTypes, Sides
<1> QED
  BY <1>2, <1>3, <1>4

(* CrossInv is inductive.                                                  *)
LEMMA CrossNextInv == Named /\ CrossInv /\ [CrossNext]_both => CrossInv'
<1> SUFFICES ASSUME Named, CrossInv, [CrossNext]_both PROVE CrossInv'
  OBVIOUS
<1>1. ASSUME NEW kinds \in SUBSET {"A", "D", "X", "E", "C", "P"}, CrossFeed(kinds) PROVE CrossInv'
  <2>1. PICK m \in ItchMessage : m.kind \in kinds /\ HotConformant(hot, m) /\ Both(Dispatch(m))
    BY <1>1 DEF CrossFeed
  <2>2. Admissible(hot, Dispatch(m))
    BY <2>1, FeedAdmissible
  <2> QED
    BY <2>1, <2>2, BothKeeps
<1>2. CASE CrossModify
  <2>1. PICK id \in OrderIds \ {AnonId}, side \in Sides, price \in Prices, qty \in 1..MaxQty :
            /\ OrderOf(hot, id) # NoOrder => qty >= OrderOf(hot, id).qty
            /\ Both(MkEvent("OrderModify", id, side, price, qty))
    BY <1>2 DEF CrossModify
  <2>2. qty \in Nat /\ qty > 0
    BY MaxQtyAssumption
  <2>3. Admissible(hot, MkEvent("OrderModify", id, side, price, qty))
    BY <2>1, <2>2 DEF Admissible, MkEvent, Event, EventTypes
  <2> QED
    BY <2>1, <2>3, BothKeeps
<1>3. CASE UNCHANGED both
  BY <1>3 DEF both, CrossInv
<1> QED
  BY <1>1, <1>2, <1>3 DEF CrossNext

-----------------------------------------------------------------------------
(* What the invariant says of the grid.                                    *)

(* Where the aggregate of a price is read off the array.                   *)
LEMMA FoundLevel ==
    ASSUME NEW side, NEW levels, SideSorted(levels, side), NEW price \in Prices, NEW pos,
           pos = FindLevel(levels, side, price)
    PROVE  /\ LevelAt(levels, price).order_count = 0 => pos = 0
           /\ LevelAt(levels, price).order_count # 0 =>
                /\ pos # 0
                /\ levels[pos].order_count = LevelAt(levels, price).order_count
                /\ levels[pos].total_qty = LevelAt(levels, price).total_qty
<1>0. price \in Nat /\ Len(levels) \in Nat
  BY PricesAssumption DEF SideSorted
<1>1. CASE Has(levels, price)
  <2>1. PICK i \in 1..Len(levels) : levels[i].price = price
    BY <1>1 DEF Has
  <2>2. pos = i /\ i # 0
    BY <1>0, <2>1, FindIs
  <2>3. LevelAt(levels, price) = [total_qty |-> levels[i].total_qty, order_count |-> levels[i].order_count]
    BY <2>1, LevelIs
  <2>4. levels[i].order_count # 0
    BY LevelTyped
  <2> QED
    BY <2>2, <2>3, <2>4
<1>2. CASE ~Has(levels, price)
  <2>1. pos = 0 /\ LevelAt(levels, price).order_count = 0
    BY <1>0, <1>2, FindIs, LevelAbsent DEF EmptyAt
  <2> QED
    BY <2>1
<1> QED
  BY <1>1, <1>2

(* Sums and cardinalities are the same in the instance.                    *)
LEMMA SumIsSum ==
    ASSUME NEW f, NEW S PROVE BP!SumFunctionOnSet(f, S) = SumFunctionOnSet(f, S)
BY DEF BP!SumFunctionOnSet, SumFunctionOnSet, BP!FoldFunctionOnSet, FoldFunctionOnSet,
       BP!MapThenFoldSet, MapThenFoldSet

LEMMA CountIsCount ==
    ASSUME NEW S PROVE BP!Cardinality(S) = Cardinality(S)
BY DEF BP!Cardinality, Cardinality, BP!IsFiniteSet, IsFiniteSet

(* CrossInv implies GridSound.                                             *)
LEMMA GridIsSound == Named /\ CrossInv => GridSound
<1> SUFFICES ASSUME Named, CrossInv PROVE GridSound
  OBVIOUS
<1>0. HotOK(hot) /\ BP!Consistent(AsBook(hot)) /\ GridOK(hot.grid)
  BY DEF CrossInv, HotOK
<1>1. HotTypeOK
  BY <1>0 DEF HotTypeOK, HotOK, GridOK, BP!Sound, BP!SlabType, Slab!SlabTypeOK
<1>2. GridSorted
  <2> SUFFICES ASSUME NEW side \in Sides, NEW i \in DOMAIN hot.grid[side], NEW j \in DOMAIN hot.grid[side], i < j
               PROVE  Before(side, hot.grid[side][i].price, hot.grid[side][j].price)
    BY DEF GridSorted
  <2>1. SideSorted(hot.grid[side], side)
    BY <1>0 DEF GridOK
  <2>2. DOMAIN hot.grid[side] = 1..Len(hot.grid[side])
    BY <2>1 DEF SideSorted
  <2> QED
    BY <2>1, <2>2 DEF SideSorted
<1>3. GridMatchesSlab
  <2> SUFFICES ASSUME NEW side \in Sides, NEW price \in Prices
               PROVE  LET ids == {id \in OrderIds \ {AnonId} :
                                    /\ OrderOf(hot, id) # NoOrder
                                    /\ OrderOf(hot, id).side = side
                                    /\ OrderOf(hot, id).price = price}
                          pos == FindLevel(hot.grid[side], side, price)
                      IN  IF ids = {} THEN pos = 0
                          ELSE /\ pos # 0
                               /\ hot.grid[side][pos].order_count = Cardinality(ids)
                               /\ hot.grid[side][pos].total_qty =
                                    SumFunctionOnSet([id \in ids |-> OrderOf(hot, id).qty], ids)
    BY DEF GridMatchesSlab
  <2> DEFINE b == AsBook(hot)
             l == <<side, price>>
             ids == {id \in OrderIds \ {AnonId} :
                        /\ OrderOf(hot, id) # NoOrder
                        /\ OrderOf(hot, id).side = side
                        /\ OrderOf(hot, id).price = price}
             lv == LevelAt(hot.grid[side], price)
             pos == FindLevel(hot.grid[side], side, price)
             qtys == [id \in ids |-> OrderOf(hot, id).qty]
  <2>1. ids = BP!OrdersAt(b, l)
    <3>1. OrderIds \ {AnonId} = OrderIds
      BY DEF Named
    <3>2. \A id \in OrderIds : b.orders[id] = OrderOf(hot, id)
      BY AsBookFields
    <3> QED
      BY <3>1, <3>2 DEF BP!OrdersAt, BP!Live
  <2>2. l \in BP!Grid /\ b.levels[l] = lv
    BY DEF BP!Grid, BP!Sides, Sides, AsBook, GridLevels
  <2>3. IsFiniteSet(ids)
    BY OrderIdsAssumption, FS_Subset
  <2>4. lv.order_count = Cardinality(ids)
    BY <1>0, <2>1, <2>2, CountIsCount DEF BP!Consistent, BP!Counted
  <2>5. lv.total_qty = SumFunctionOnSet(BP!Qtys(b), ids)
    BY <1>0, <2>1, <2>2, SumIsSum DEF BP!Consistent, BP!Summed
  <2>6. SumFunctionOnSet(BP!Qtys(b), ids) = SumFunctionOnSet(qtys, ids)
    <3>1. \A id \in ids : BP!Qtys(b)[id] = qtys[id]
      BY AsBookFields DEF BP!Qtys, BP!Live
    <3> QED
      BY <2>3, <3>1, SumSame
  <2>7. Cardinality(ids) = 0 <=> ids = {}
    BY <2>3, FS_EmptySet
  <2>8. SideSorted(hot.grid[side], side)
    BY <1>0 DEF GridOK
  <2>9. /\ lv.order_count = 0 => pos = 0
        /\ lv.order_count # 0 =>
                /\ pos # 0
                /\ hot.grid[side][pos].order_count = lv.order_count
                /\ hot.grid[side][pos].total_qty = lv.total_qty
    BY <2>8, FoundLevel
  <2> HIDE DEF ids, lv, pos, qtys, b
  <2>10. IF ids = {} THEN pos = 0
         ELSE /\ pos # 0
              /\ hot.grid[side][pos].order_count = Cardinality(ids)
              /\ hot.grid[side][pos].total_qty = SumFunctionOnSet(qtys, ids)
    BY <2>4, <2>5, <2>6, <2>7, <2>9
  <2> QED
    BY <2>10 DEF ids, pos, qtys
<1> QED
  BY <1>1, <1>2, <1>3 DEF GridSound

-----------------------------------------------------------------------------
(* What the invariant says of the published levels.                        *)

Ordered(f, side) == \A i, j \in DOMAIN f : i < j => Before(side, f[i], f[j])

(* An ordered enumeration meets every element of a set of its size.        *)
LEMMA OrderedCovers ==
    ASSUME NEW side, NEW n \in Nat, NEW S \in SUBSET Nat, IsFiniteSet(S), Cardinality(S) = n,
           NEW f \in [1..n -> S], Ordered(f, side)
    PROVE  \A x \in S : \E i \in 1..n : f[i] = x
<1>1. \A i, j \in 1..n : f[i] = f[j] => i = j
  <2> SUFFICES ASSUME NEW i \in 1..n, NEW j \in 1..n, f[i] = f[j] PROVE i = j
    OBVIOUS
  <2>0. f[i] \in S /\ f[j] \in S /\ i \in Int /\ j \in Int
    OBVIOUS
  <2>1. f[i] \in Nat /\ f[j] \in Nat
    BY <2>0
  <2>2. ~(i < j) /\ ~(j < i)
    BY <2>1 DEF Ordered, Before
  <2> QED
    BY <2>0, <2>2
<1>2. f \in Injection(1..n, S)
  BY <1>1 DEF Injection, IsInjective
<1>3. IsFiniteSet(1..n) /\ Cardinality(1..n) = n
  BY FS_Interval
<1>4. f \in Surjection(1..n, S)
  BY <1>2, <1>3, FS_Injection
<1> QED
  BY <1>4 DEF Surjection

(* Of two ordered enumerations of one set neither is ahead where they      *)
(* first differ.                                                           *)
LEMMA NotAhead ==
    ASSUME NEW side, NEW n \in Nat, NEW S \in SUBSET Nat,
           NEW f \in [1..n -> S], Ordered(f, side), NEW g \in [1..n -> S], Ordered(g, side),
           \A x \in S : \E i \in 1..n : g[i] = x,
           NEW i \in 1..n, \A k \in 1..n : k < i => f[k] = g[k]
    PROVE  ~Before(side, f[i], g[i])
<1> SUFFICES ASSUME Before(side, f[i], g[i]) PROVE FALSE
  OBVIOUS
<1>1. PICK k \in 1..n : g[k] = f[i]
  OBVIOUS
<1>0. f[i] \in S /\ g[i] \in S /\ f[k] \in S /\ i \in Int /\ k \in Int
  OBVIOUS
<1>2. f[i] \in Nat /\ g[i] \in Nat /\ f[k] \in Nat /\ i \in Int /\ k \in Int
  BY <1>0
<1>3. CASE k < i
  <2>1. f[k] = f[i] /\ Before(side, f[k], f[i])
    BY <1>1, <1>3 DEF Ordered
  <2> QED
    BY <1>2, <2>1 DEF Before
<1>4. CASE k = i
  BY <1>1, <1>2, <1>4 DEF Before
<1>5. CASE k > i
  <2>1. Before(side, g[i], f[i])
    BY <1>1, <1>2, <1>5 DEF Ordered
  <2> QED
    BY <1>2, <2>1 DEF Before
<1> QED
  BY <1>2, <1>3, <1>4, <1>5

(* A set of prices has one ordered enumeration.                            *)
LEMMA OrderedUnique ==
    ASSUME NEW side, NEW n \in Nat, NEW S \in SUBSET Nat, IsFiniteSet(S), Cardinality(S) = n,
           NEW f \in [1..n -> S], Ordered(f, side), NEW g \in [1..n -> S], Ordered(g, side)
    PROVE  f = g
<1> DEFINE D == {i \in 1..n : f[i] # g[i]}
<1> SUFFICES ASSUME D # {} PROVE FALSE
  OBVIOUS
<1>1. PICK i \in D : \A k \in D : i <= k
  <2>1. D \in SUBSET Nat
    OBVIOUS
  <2> QED
    BY <2>1, LeastNumber
<1>2. i \in 1..n /\ \A k \in 1..n : k < i => f[k] = g[k]
  BY <1>1
<1>3. \A x \in S : \E k \in 1..n : f[k] = x
  BY OrderedCovers
<1>4. \A x \in S : \E k \in 1..n : g[k] = x
  BY OrderedCovers
<1>5. ~Before(side, f[i], g[i])
  <2>1. /\ n \in Nat /\ S \in SUBSET Nat /\ f \in [1..n -> S] /\ g \in [1..n -> S]
        /\ Ordered(f, side) /\ Ordered(g, side)
    OBVIOUS
  <2> QED
    BY ONLY <1>2, <1>4, <2>1, NotAhead
<1>6. ~Before(side, g[i], f[i])
  <2>1. /\ n \in Nat /\ S \in SUBSET Nat /\ f \in [1..n -> S] /\ g \in [1..n -> S]
        /\ Ordered(f, side) /\ Ordered(g, side) /\ \A k \in 1..n : k < i => g[k] = f[k]
    BY <1>2
  <2> QED
    BY ONLY <1>2, <1>3, <2>1, NotAhead
<1>7. f[i] \in Nat /\ g[i] \in Nat /\ f[i] # g[i]
  BY <1>1
<1> QED
  BY <1>5, <1>6, <1>7 DEF Before

(* The keys of the reference book's map, in order, are the grid's prices.  *)
LEMMA KeysInOrder ==
    ASSUME NEW side \in Sides, NEW levels, SideSorted(levels, side), NEW S,
           S = {p \in Prices : LevelAt(levels, p).order_count > 0}
    PROVE  InOrder(side, S) = [i \in 1..Len(levels) |-> levels[i].price]
<1> DEFINE n == Len(levels)
           f == [i \in 1..n |-> levels[i].price]
<1>0. n \in Nat /\ Prices \subseteq Nat
  BY PricesAssumption DEF SideSorted
<1>1. ASSUME NEW i \in 1..n PROVE levels[i].price \in S
  <2>1. levels[i].price \in Prices /\ levels[i].order_count \in Nat \ {0}
    BY LevelTyped
  <2>2. LevelAt(levels, levels[i].price) = [total_qty |-> levels[i].total_qty, order_count |-> levels[i].order_count]
    BY LevelIs
  <2>3. LevelAt(levels, levels[i].price).order_count > 0
    BY <2>1, <2>2
  <2> QED
    BY <2>1, <2>3
<1>2. ASSUME NEW p \in S PROVE \E i \in 1..n : f[i] = p
  <2>1. CASE ~Has(levels, p)
    <3>1. LevelAt(levels, p).order_count = 0
      BY <2>1, LevelAbsent DEF EmptyAt
    <3> QED
      BY <3>1
  <2> QED
    BY <2>1 DEF Has
<1>3. f \in [1..n -> S] /\ DOMAIN f = 1..n
  BY <1>1
<1>4. Ordered(f, side)
  BY DEF Ordered, SideSorted
<1>5. S \in SUBSET Nat
  BY <1>0
<1>6. IsFiniteSet(S) /\ Cardinality(S) = n
  <2>1. IsFiniteSet(1..n) /\ Cardinality(1..n) = n
    <3> HIDE DEF n
    <3> QED
      BY <1>0, FS_Interval
  <2>2. f \in Surjection(1..n, S)
    BY <1>2, <1>3 DEF Surjection
  <2>3. f \in Injection(1..n, S)
    <3>1. \A i, j \in 1..n : f[i] = f[j] => i = j
      BY PricesDiffer
    <3> QED
      BY <1>3, <3>1 DEF Injection, IsInjective
  <2> QED
    BY <2>1, <2>2, <2>3, FS_Surjection
<1> DEFINE g == InOrder(side, S)
<1>7. g \in [1..n -> S] /\ Ordered(g, side)
  <2>1. \E h \in [1..Cardinality(S) -> S] : \A i, j \in DOMAIN h : i < j => Before(side, h[i], h[j])
    BY <1>3, <1>4, <1>6 DEF Ordered
  <2> QED
    BY <1>6, <2>1 DEF InOrder, Ordered
<1> HIDE DEF f, g
<1>8. f = g
  BY ONLY <1>0, <1>3, <1>4, <1>5, <1>6, <1>7, OrderedUnique
<1> QED
  BY <1>8 DEF f, g

(* CrossInv implies BooksAgree.                                            *)
LEMMA BooksDoAgree == Named /\ CrossInv => BooksAgree
<1> SUFFICES ASSUME Named, CrossInv, ~refused
             PROVE  HotL2(hot) = RefL2 /\ \A id \in OrderIds : OrderOf(hot, id) = ref.orders[id]
  BY DEF BooksAgree, SameL2, SameOrders
<1>0. ref = AsBook(hot) /\ GridOK(hot.grid)
  BY DEF CrossInv, HotOK
<1>1. \A id \in OrderIds : OrderOf(hot, id) = ref.orders[id]
  BY <1>0, AsBookFields
<1>2. ASSUME NEW side \in Sides
      PROVE  [i \in DOMAIN hot.grid[side] |-> <<hot.grid[side][i].price, hot.grid[side][i].total_qty>>] =
             LET prices == InOrder(side, Ref!PricesOn(ref, side))
             IN  [i \in DOMAIN prices |-> <<prices[i], ref.levels[<<side, prices[i]>>].total_qty>>]
  <2> DEFINE levels == hot.grid[side]
             prices == InOrder(side, Ref!PricesOn(ref, side))
  <2>1. SideSorted(levels, side) /\ DOMAIN levels = 1..Len(levels)
    BY <1>0 DEF GridOK, SideSorted
  <2>2. \A p \in Prices : ref.levels[<<side, p>>] = LevelAt(levels, p)
    BY <1>0 DEF AsBook, GridLevels
  <2>3. Ref!PricesOn(ref, side) = {p \in Prices : LevelAt(levels, p).order_count > 0}
    BY <2>2 DEF Ref!PricesOn
  <2>4. prices = [i \in 1..Len(levels) |-> levels[i].price]
    BY <2>1, <2>3, KeysInOrder
  <2> HIDE DEF prices, levels
  <2>5. DOMAIN prices = 1..Len(levels) /\ \A i \in 1..Len(levels) : prices[i] = levels[i].price
    BY <2>4
  <2>6. \A i \in 1..Len(levels) : ref.levels[<<side, prices[i]>>].total_qty = levels[i].total_qty
    <3> SUFFICES ASSUME NEW i \in 1..Len(levels) PROVE ref.levels[<<side, prices[i]>>].total_qty = levels[i].total_qty
      OBVIOUS
    <3>1. levels[i].price \in Prices
      BY <2>1, LevelTyped
    <3>2. LevelAt(levels, levels[i].price) = [total_qty |-> levels[i].total_qty, order_count |-> levels[i].order_count]
      BY <2>1, LevelIs
    <3> QED
      BY <2>2, <2>5, <3>1, <3>2
  <2>7. [i \in DOMAIN levels |-> <<levels[i].price, levels[i].total_qty>>] =
        [i \in DOMAIN prices |-> <<prices[i], ref.levels[<<side, prices[i]>>].total_qty>>]
    BY <2>1, <2>5, <2>6
  <2> QED
    BY <2>7 DEF prices, levels
<1>3. HotL2(hot) = RefL2
  BY <1>2 DEF HotL2, RefL2
<1> QED
  BY <1>1, <1>3

-----------------------------------------------------------------------------
LEMMA CrossAlways == ASSUME Named PROVE CrossSpec => []CrossInv
<1>1. CrossInit => CrossInv
  BY CrossInitInv
<1>2. CrossInv /\ [CrossNext]_both => CrossInv'
  BY CrossNextInv
<1> QED
  BY <1>1, <1>2, PTL DEF CrossSpec

(* hot_book.rs, whatever the capacity of the arrays and whichever orders   *)
(* they refuse: both sides stay sorted from the best price and within      *)
(* MAX_LEVELS, and every level is the exact count and quantity of the      *)
(* orders the slab keeps at its price.  Stated for a feed without          *)
(* reference 0, which the hot book trades against a level without naming   *)
(* an order of it.                                                         *)
THEOREM GridAlwaysSound == ASSUME Named PROVE CrossSpec => []GridSound
<1>1. CrossSpec => []CrossInv
  BY CrossAlways
<1>2. CrossInv => GridSound
  BY GridIsSound
<1> QED
  BY <1>1, <1>2, PTL

(* The gate of bench/src/lib.rs (cross_impl_l2_hash_agreement), for every  *)
(* feed without reference 0 and not for one generated stream: until the    *)
(* hot book refuses an order for want of a level, both books publish the   *)
(* same (price, total_qty) sequence after every event and keep the same    *)
(* orders.                                                                 *)
THEOREM BooksAlwaysAgree == ASSUME Named PROVE CrossSpec => []BooksAgree
<1>1. CrossSpec => []CrossInv
  BY CrossAlways
<1>2. CrossInv => BooksAgree
  BY BooksDoAgree
<1> QED
  BY <1>1, <1>2, PTL

=============================================================================
