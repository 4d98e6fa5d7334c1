----------------------------- MODULE BookProofs ------------------------------
(***************************************************************************)
(* Proofs about the two halves of an order book: the reference book, and   *)
(* the slab in which the hot book keeps its orders.  CrossImplProofs puts  *)
(* them together.                                                          *)
(*                                                                         *)
(* The reference book, for every finite set of order references, every set *)
(* of prices and every bound on the share count: the level maps and the    *)
(* orders map never drift apart.  The argument is about book values.       *)
(* Consistent(b) is the inductive invariant; each of the four operations   *)
(* maps a consistent book to a consistent book under the condition its     *)
(* events satisfy, because it either adds one fresh order to one level,    *)
(* removes one order from its level, or changes the quantity of one order  *)
(* in place.                                                               *)
(*                                                                         *)
(* The slab, for every finite set of ids and every set of metadata: the    *)
(* unchecked reads of get and get_mut stay in bounds, slots are neither    *)
(* shared nor leaked, and the slab implements OrderMap.  The four          *)
(* invariants are inductive together.  Sound(s) states them of a slab      *)
(* value; one lemma per operation shows that it keeps Sound and what it    *)
(* does to the value read back for every id.                               *)
(***************************************************************************)
EXTENDS OrderBook, OrderSlab, Sums

-----------------------------------------------------------------------------
(* The reference book.                                                     *)

Typed(b) == b \in Book /\ \A o \in Live(b) : b.orders[o].qty > 0

Counted(b) ==
    \A l \in Grid : b.levels[l].order_count = Cardinality(OrdersAt(b, l))

Summed(b) ==
    \A l \in Grid : b.levels[l].total_qty = SumFunctionOnSet(Qtys(b), OrdersAt(b, l))

Consistent(b) == Typed(b) /\ Counted(b) /\ Summed(b)

(* The place of an order in the level maps.                                *)
Place(o) == <<o.side, o.price>>

(* The orders resting at one level are finitely many.                      *)
LEMMA OrdersAtFinite ==
    ASSUME NEW b, NEW l PROVE IsFiniteSet(OrdersAt(b, l))
BY OrderIdsAssumption, FS_Subset DEF OrdersAt, Live

(* Their quantities are positive.                                          *)
LEMMA QtysTyped ==
    ASSUME NEW b, Typed(b), NEW l
    PROVE  \A o \in OrdersAt(b, l) : /\ Qtys(b)[o] = b.orders[o].qty
                                     /\ Qtys(b)[o] \in Nat /\ Qtys(b)[o] > 0
<1> SUFFICES ASSUME NEW o \in OrdersAt(b, l)
             PROVE  Qtys(b)[o] = b.orders[o].qty /\ b.orders[o].qty \in Nat /\ b.orders[o].qty > 0
  OBVIOUS
<1>1. o \in Live(b) /\ b.orders[o] \in Order
  BY DEF OrdersAt, Live, Typed, Book
<1> QED
  BY <1>1 DEF Qtys, Typed, Order

(* A level whose orders are the same has the same total.                   *)
LEMMA SameTotal ==
    ASSUME NEW b, NEW c, Typed(b), Typed(c), NEW l, OrdersAt(c, l) = OrdersAt(b, l),
           \A o \in OrdersAt(b, l) : c.orders[o].qty = b.orders[o].qty
    PROVE  SumFunctionOnSet(Qtys(c), OrdersAt(c, l)) = SumFunctionOnSet(Qtys(b), OrdersAt(b, l))
<1>1. \A o \in OrdersAt(b, l) : Qtys(c)[o] = Qtys(b)[o]
  BY QtysTyped
<1> QED
  BY <1>1, OrdersAtFinite, SumSame

(* Storing a fresh order puts it in its own level and no other.            *)
LEMMA PutFresh ==
    ASSUME NEW b \in Book, NEW id \in OrderIds, b.orders[id] = NoOrder,
           NEW o \in Order, NEW c \in Book,
           c.orders = [b.orders EXCEPT ![id] = o]
    PROVE  /\ id \notin OrdersAt(b, Place(o))
           /\ OrdersAt(c, Place(o)) = OrdersAt(b, Place(o)) \cup {id}
           /\ \A l \in Grid : l # Place(o) => OrdersAt(c, l) = OrdersAt(b, l)
BY NoOrderAssumption DEF Book, OrdersAt, Live, Place

(* Removing a live order takes it from its own level and no other.         *)
LEMMA TakeOut ==
    ASSUME NEW b \in Book, NEW id \in Live(b), NEW c \in Book,
           c.orders = [b.orders EXCEPT ![id] = NoOrder],
           NEW l, l = Place(b.orders[id])
    PROVE  /\ id \in OrdersAt(b, l)
           /\ OrdersAt(c, l) = OrdersAt(b, l) \ {id}
           /\ \A k \in Grid : k # l => OrdersAt(c, k) = OrdersAt(b, k)
BY DEF Book, OrdersAt, Live, Place

(* Changing the quantity of a live order moves no order.                   *)
LEMMA Resize ==
    ASSUME NEW b \in Book, NEW id \in Live(b), NEW q \in Nat, NEW c \in Book,
           c.orders = [b.orders EXCEPT ![id] = [@ EXCEPT !.qty = q]]
    PROVE  \A l \in Grid : OrdersAt(c, l) = OrdersAt(b, l)
<1>1. b.orders[id] \in Order
  BY DEF Book, Live
<1>2. [b.orders[id] EXCEPT !.qty = q] \in Order
  BY <1>1 DEF Order
<1>3. /\ c.orders[id] # NoOrder
      /\ Place(c.orders[id]) = Place(b.orders[id])
  BY <1>1, <1>2, NoOrderAssumption DEF Book, Live, Place, Order
<1>4. \A x \in OrderIds : x # id => c.orders[x] = b.orders[x]
  BY DEF Book
<1> QED
  BY <1>3, <1>4 DEF OrdersAt, Live, Place

(* Deducting from a level keeps it a level, and a release lowers the count *)
(* of a populated level by one.                                            *)
LEMMA DeductTyped ==
    ASSUME NEW lv \in Level, NEW q \in Nat, NEW r \in BOOLEAN
    PROVE  /\ DeductLevel(lv, q, r) \in Level
           /\ ~r => DeductLevel(lv, q, r).order_count = lv.order_count
           /\ r /\ lv.order_count > 0 =>
                DeductLevel(lv, q, r).order_count = lv.order_count - 1
           /\ (/\ lv.total_qty >= q
               /\ r => /\ lv.order_count > 0
                       /\ lv.order_count = 1 => lv.total_qty = q)
              => DeductLevel(lv, q, r).total_qty = lv.total_qty - q
BY DEF DeductLevel, Level, EmptyLevel, SatSub

(* Book c is b without order id, which rests at level l.                   *)
Released(b, c, id, l) ==
    /\ Typed(b) /\ Counted(b) /\ Summed(b) /\ Typed(c)
    /\ id \in Live(b) /\ l \in Grid /\ l = Place(b.orders[id])
    /\ c.orders = [b.orders EXCEPT ![id] = NoOrder]
    /\ c.levels[l] = DeductLevel(b.levels[l], b.orders[id].qty, TRUE)
    /\ \A k \in Grid : k # l => c.levels[k] = b.levels[k]

(* A level that gives up one order gives up its quantity.                  *)
LEMMA ReleaseSummed ==
    ASSUME NEW b, NEW c, NEW id, NEW l, Released(b, c, id, l)
    PROVE  Summed(c)
<1> SUFFICES ASSUME Typed(b), Counted(b), Summed(b), Typed(c), id \in Live(b),
                    c.orders = [b.orders EXCEPT ![id] = NoOrder],
                    l \in Grid, l = Place(b.orders[id]),
                    c.levels[l] = DeductLevel(b.levels[l], b.orders[id].qty, TRUE),
                    \A k \in Grid : k # l => c.levels[k] = b.levels[k]
             PROVE  Summed(c)
  BY DEF Released
<1> DEFINE S == OrdersAt(b, l)
           R == OrdersAt(c, l)
           q == b.orders[id].qty
           t == SumFunctionOnSet(Qtys(b), R)
<1>10. b \in Book /\ c \in Book
  BY DEF Typed
<1>11. /\ id \in OrdersAt(b, l) /\ OrdersAt(c, l) = OrdersAt(b, l) \ {id}
      /\ \A k \in Grid : k # l => OrdersAt(c, k) = OrdersAt(b, k)
  BY ONLY <1>10, id \in Live(b), c.orders = [b.orders EXCEPT ![id] = NoOrder],
          l = Place(b.orders[id]), TakeOut
<1>12. \A x \in OrderIds : x # id => c.orders[x] = b.orders[x]
  BY <1>10 DEF Book, Live
<1>1. IsFiniteSet(S) /\ IsFiniteSet(R) /\ R = S \ {id} /\ id \in S /\ S \subseteq OrderIds
  <2>1. IsFiniteSet(S) /\ IsFiniteSet(R)
    BY OrdersAtFinite
  <2>2. S \subseteq OrderIds
    BY DEF OrdersAt, Live
  <2> QED
    BY <1>11, <2>1, <2>2
<1>2. /\ \A x \in S : Qtys(b)[x] \in Nat /\ Qtys(b)[x] = b.orders[x].qty
      /\ \A x \in R : Qtys(c)[x] = c.orders[x].qty
  BY ONLY Typed(b), Typed(c), QtysTyped
<1>3. b.levels[l].order_count = Cardinality(S) /\ b.levels[l].total_qty = SumFunctionOnSet(Qtys(b), S)
  BY DEF Counted, Summed
<1>4. b.levels[l] \in Level
  BY DEF Typed, Book
<1>0. q \in Nat /\ Qtys(b)[id] = q /\ c.levels[l] = DeductLevel(b.levels[l], q, TRUE)
  BY <1>1, <1>2
<1> HIDE DEF S, R, q
<1>5. SumFunctionOnSet(Qtys(b), S) = q + t /\ t \in Nat
  <2>1. \A x \in S : Qtys(b)[x] \in Int
    BY <1>2
  <2>2. SumFunctionOnSet(Qtys(b), S) = Qtys(b)[id] + SumFunctionOnSet(Qtys(b), S \ {id})
    BY <1>1, <2>1, SumWithout
  <2>3. \A x \in R : Qtys(b)[x] \in Nat
    BY <1>1, <1>2
  <2>4. t \in Nat
    BY <1>1, <2>3, SumNat
  <2> QED
    BY <1>0, <1>1, <2>2, <2>4
<1>6. SumFunctionOnSet(Qtys(c), R) = t
  <2>1. \A x \in R : Qtys(c)[x] = Qtys(b)[x]
    BY <1>1, <1>2, <1>12
  <2> QED
    BY <1>1, <2>1, SumSame
<1>7. Cardinality(S) > 0 /\ (Cardinality(S) = 1 => t = 0)
  <2>1. Cardinality(S) \in Nat /\ Cardinality(R) \in Nat /\ Cardinality(R) = Cardinality(S) - 1
    BY <1>1, FS_CardinalityType, FS_RemoveElement
  <2>2. Cardinality(R) = 0 => R = {}
    BY <1>1, FS_EmptySet
  <2>3. R = {} => t = 0
    BY SumEmpty
  <2> QED
    BY <2>1, <2>2, <2>3
<1> HIDE DEF t
<1>8. c.levels[l].total_qty = t
  <2> DEFINE lv == b.levels[l]
  <2>1. /\ lv \in Level /\ lv.total_qty = q + t /\ lv.order_count > 0
        /\ lv.order_count = 1 => t = 0
    BY <1>3, <1>4, <1>5, <1>7
  <2> HIDE DEF lv
  <2>2. lv.total_qty >= q /\ (lv.order_count = 1 => lv.total_qty = q)
    BY <1>0, <1>5, <2>1
  <2>3. DeductLevel(lv, q, TRUE).total_qty = lv.total_qty - q
    BY <1>0, <2>1, <2>2, DeductTyped
  <2>4. lv.total_qty - q = t
    BY <1>0, <1>5, <2>1
  <2> QED
    BY <1>0, <2>3, <2>4 DEF lv
<1>9. ASSUME NEW k \in Grid, k # l
      PROVE  c.levels[k].total_qty = SumFunctionOnSet(Qtys(c), OrdersAt(c, k))
  <2>1. b.levels[k].total_qty = SumFunctionOnSet(Qtys(b), OrdersAt(b, k))
    BY DEF Summed
  <2>2. \A x \in OrdersAt(b, k) : x \in OrderIds /\ x # id
    BY <1>9 DEF OrdersAt, Live, Place
  <2>3. \A x \in OrdersAt(b, k) : c.orders[x].qty = b.orders[x].qty
    BY <1>12, <2>2
  <2>4. OrdersAt(c, k) = OrdersAt(b, k)
    BY <1>9, <1>11
  <2>5. SumFunctionOnSet(Qtys(c), OrdersAt(c, k)) = SumFunctionOnSet(Qtys(b), OrdersAt(b, k))
    BY <2>3, <2>4, SameTotal
  <2> QED
    BY <1>9, <2>1, <2>5
<1> QED
  BY <1>6, <1>8, <1>9 DEF Summed, R

(* Book c is b with order id, which rests at level l, reduced by q.        *)
Resized(b, c, id, l, q, left) ==
    /\ Typed(b) /\ Summed(b) /\ Typed(c)
    /\ l \in Grid /\ id \in OrdersAt(b, l) /\ \A k \in Grid : OrdersAt(c, k) = OrdersAt(b, k)
    /\ \A x \in OrderIds : x # id => c.orders[x] = b.orders[x]
    /\ q \in Nat /\ left \in Nat /\ q + left = b.orders[id].qty /\ c.orders[id].qty = left
    /\ c.levels[l] = DeductLevel(b.levels[l], q, FALSE)
    /\ \A k \in Grid : k # l => c.levels[k] = b.levels[k]

(* A level whose order shrinks gives up as much.                           *)
LEMMA ResizeSummed ==
    ASSUME NEW b, NEW c, NEW id, NEW l, NEW q, NEW left, Resized(b, c, id, l, q, left)
    PROVE  Summed(c)
<1> SUFFICES ASSUME Typed(b), Summed(b), Typed(c), l \in Grid,
                    id \in OrdersAt(b, l), \A k \in Grid : OrdersAt(c, k) = OrdersAt(b, k),
                    \A x \in OrderIds : x # id => c.orders[x] = b.orders[x],
                    q \in Nat, left \in Nat, q + left = b.orders[id].qty, c.orders[id].qty = left,
                    c.levels[l] = DeductLevel(b.levels[l], q, FALSE),
                    \A k \in Grid : k # l => c.levels[k] = b.levels[k]
             PROVE  Summed(c)
  BY DEF Resized
<1> DEFINE S == OrdersAt(b, l)
           t == SumFunctionOnSet(Qtys(b), S \ {id})
<1>0. IsFiniteSet(S) /\ id \in S /\ S \subseteq OrderIds /\ OrdersAt(c, l) = S
  BY OrdersAtFinite DEF OrdersAt, Live
<1>1. /\ IsFiniteSet(S) /\ IsFiniteSet(S \ {id}) /\ id \in S /\ S \subseteq OrderIds
      /\ OrdersAt(c, l) = S
  BY <1>0, FS_RemoveElement
<1>2. /\ \A x \in S : Qtys(b)[x] \in Nat /\ Qtys(b)[x] = b.orders[x].qty
      /\ \A x \in S : Qtys(c)[x] \in Nat /\ Qtys(c)[x] = c.orders[x].qty
  BY <1>1, QtysTyped
<1>3. b.levels[l] \in Level /\ b.levels[l].total_qty = SumFunctionOnSet(Qtys(b), S)
  BY DEF Typed, Book, Summed
<1> HIDE DEF S
<1>4. SumFunctionOnSet(Qtys(b), S) = (q + left) + t /\ t \in Nat
  <2>1. \A x \in S : Qtys(b)[x] \in Int
    BY <1>2
  <2>2. SumFunctionOnSet(Qtys(b), S) = Qtys(b)[id] + SumFunctionOnSet(Qtys(b), S \ {id})
    BY <1>1, <2>1, SumWithout
  <2>3. t \in Nat
    BY <1>1, <1>2, SumNat
  <2> QED
    BY <1>1, <1>2, <2>2, <2>3
<1>5. SumFunctionOnSet(Qtys(c), S) = left + t
  <2>1. \A x \in S : Qtys(c)[x] \in Int
    BY <1>2
  <2>2. SumFunctionOnSet(Qtys(c), S) = Qtys(c)[id] + SumFunctionOnSet(Qtys(c), S \ {id})
    BY <1>1, <2>1, SumWithout
  <2>3. \A x \in S \ {id} : Qtys(c)[x] = Qtys(b)[x]
    <3> SUFFICES ASSUME NEW x \in S \ {id} PROVE Qtys(c)[x] = Qtys(b)[x]
      OBVIOUS
    <3>1. x \in S /\ x \in OrderIds /\ c.orders[x] = b.orders[x]
      BY <1>1
    <3> QED
      BY <1>2, <3>1
  <2>4. SumFunctionOnSet(Qtys(c), S \ {id}) = t
    BY <1>1, <2>3, SumSame
  <2> QED
    BY <1>1, <1>2, <2>2, <2>4
<1> HIDE DEF t
<1>6. c.levels[l].total_qty = left + t
  <2> DEFINE lv == b.levels[l]
  <2>1. lv \in Level /\ lv.total_qty = (q + left) + t
    BY <1>3, <1>4
  <2> HIDE DEF lv
  <2>2. lv.total_qty >= q
    BY <1>4, <2>1
  <2>3. DeductLevel(lv, q, FALSE).total_qty = lv.total_qty - q
    BY <2>1, <2>2, DeductTyped
  <2>4. lv.total_qty - q = left + t
    BY <1>4, <2>1
  <2> QED
    BY <2>3, <2>4 DEF lv
<1>7. ASSUME NEW k \in Grid, k # l
      PROVE  c.levels[k].total_qty = SumFunctionOnSet(Qtys(c), OrdersAt(c, k))
  <2>1. b.levels[k].total_qty = SumFunctionOnSet(Qtys(b), OrdersAt(b, k))
    BY DEF Summed
  <2>2. \A x \in OrdersAt(b, k) : x \in OrderIds /\ x # id
    BY <1>7 DEF OrdersAt, Live
  <2>3. \A x \in OrdersAt(b, k) : c.orders[x].qty = b.orders[x].qty
    BY <2>2
  <2>4. SumFunctionOnSet(Qtys(c), OrdersAt(c, k)) = SumFunctionOnSet(Qtys(b), OrdersAt(b, k))
    BY <2>3, SameTotal
  <2> QED
    BY <1>7, <2>1, <2>4
<1> QED
  BY <1>1, <1>5, <1>6, <1>7 DEF Summed

(* add_order keeps a consistent book consistent if the side is refused or  *)
(* the order is fresh and has shares.                                      *)
LEMMA AddConsistent ==
    ASSUME NEW b, Consistent(b), NEW e \in Event,
           \/ e.side = BadSide
           \/ e.price \in Prices /\ e.qty > 0 /\ b.orders[e.order_id] = NoOrder
    PROVE  Consistent(AddOrder(b, e))
<1>1. CASE e.side = BadSide
  BY <1>1 DEF AddOrder
<1>2. CASE e.side # BadSide
  <2> DEFINE l == <<e.side, e.price>>
             o == [side |-> e.side, price |-> e.price, qty |-> e.qty]
             c == AddOrder(b, e)
  <2>1. /\ e.order_id \in OrderIds /\ e.side \in Sides /\ e.price \in Prices
        /\ e.qty \in Nat /\ e.qty > 0 /\ b.orders[e.order_id] = NoOrder
    BY <1>2 DEF Event
  <2>2. o \in Order /\ l \in Grid /\ Place(o) = l
    BY <2>1 DEF Order, Grid, Place
  <2>3. /\ c.orders = [b.orders EXCEPT ![e.order_id] = o]
        /\ c.levels = [b.levels EXCEPT ![l] =
                            [total_qty |-> b.levels[l].total_qty + e.qty,
                             order_count |-> b.levels[l].order_count + 1]]
        /\ c = [levels |-> c.levels, orders |-> c.orders]
    BY <1>2 DEF AddOrder
  <2>4. b \in Book /\ b.levels[l] \in Level
    BY <2>2 DEF Consistent, Typed, Book
  <2>5. c \in Book
    <3>0. [total_qty |-> b.levels[l].total_qty + e.qty,
           order_count |-> b.levels[l].order_count + 1] \in Level
      BY <2>1, <2>4 DEF Level
    <3>1. c.levels \in [Grid -> Level]
      <4> HIDE DEF l, c
      <4> QED
        BY <3>0, <2>2, <2>3, <2>4 DEF Book
    <3>2. c.orders \in [OrderIds -> Order \cup {NoOrder}]
      BY <2>2, <2>3, <2>4 DEF Book
    <3> HIDE DEF c
    <3> QED
      BY <3>1, <3>2, <2>3 DEF Book
  <2> HIDE DEF c
  <2>6. Typed(c)
    BY <2>1, <2>2, <2>3, <2>4, <2>5 DEF Consistent, Typed, Live, Book
  <2>7. /\ e.order_id \notin OrdersAt(b, l)
        /\ OrdersAt(c, l) = OrdersAt(b, l) \cup {e.order_id}
        /\ \A k \in Grid : k # l => OrdersAt(c, k) = OrdersAt(b, k)
    <3> HIDE DEF l, o
    <3> QED
      BY <2>1, <2>2, <2>3, <2>4, <2>5, PutFresh
  <2>8. Cardinality(OrdersAt(c, l)) = Cardinality(OrdersAt(b, l)) + 1
    BY <2>7, OrdersAtFinite, FS_AddElement
  <2>9. Counted(c)
    <3> SUFFICES ASSUME NEW k \in Grid
                 PROVE  c.levels[k].order_count = Cardinality(OrdersAt(c, k))
      BY DEF Counted
    <3>1. b.levels[k].order_count = Cardinality(OrdersAt(b, k))
      BY DEF Consistent, Counted
    <3>2. b.levels \in [Grid -> Level]
      BY <2>4 DEF Book
    <3> HIDE DEF l
    <3>3. CASE k = l
      <4>1. c.levels[l].order_count = b.levels[l].order_count + 1
        BY <2>2, <2>3, <3>2
      <4> QED
        BY <4>1, <3>1, <3>3, <2>8
    <3>4. CASE k # l
      <4>1. c.levels[k] = b.levels[k]
        BY <2>2, <2>3, <3>2, <3>4
      <4> QED
        BY <4>1, <3>1, <3>4, <2>7
    <3> QED
      BY <3>3, <3>4
  <2>10. Summed(c)
    <3> SUFFICES ASSUME NEW k \in Grid
                 PROVE  c.levels[k].total_qty = SumFunctionOnSet(Qtys(c), OrdersAt(c, k))
      BY DEF Summed
    <3>1. b.levels[k].total_qty = SumFunctionOnSet(Qtys(b), OrdersAt(b, k))
      BY DEF Consistent, Summed
    <3>2. b.levels \in [Grid -> Level] /\ Typed(b)
      BY <2>4 DEF Book, Consistent
    <3>3. \A x \in OrdersAt(b, k) : c.orders[x] = b.orders[x]
      BY <2>1, <2>3, <2>4 DEF OrdersAt, Live, Book
    <3> HIDE DEF l
    <3>4. CASE k = l
      <4> DEFINE S == OrdersAt(b, l)
      <4>1. c.levels[l].total_qty = b.levels[l].total_qty + e.qty
        BY <2>2, <2>3, <3>2
      <4>2. IsFiniteSet(S) /\ \A x \in S : Qtys(b)[x] \in Nat /\ Qtys(c)[x] = Qtys(b)[x]
        <5>1. \A x \in S : x \in OrdersAt(c, l)
          BY <2>7
        <5> QED
          BY <2>6, <3>2, <3>3, <3>4, <5>1, OrdersAtFinite, QtysTyped
      <4>3. Qtys(c)[e.order_id] = e.qty
        <5>1. e.order_id \in OrdersAt(c, l) /\ c.orders[e.order_id].qty = e.qty
          BY <2>1, <2>3, <2>4, <2>7 DEF Book
        <5> QED
          BY <2>6, <5>1, QtysTyped
      <4>4. SumFunctionOnSet(Qtys(c), S \cup {e.order_id})
              = e.qty + SumFunctionOnSet(Qtys(c), S)
        <5>1. \A x \in S : Qtys(c)[x] \in Int
          BY <4>2
        <5>2. Qtys(c)[e.order_id] \in Int /\ e.order_id \notin S
          BY <2>1, <2>7, <4>3
        <5> HIDE DEF S
        <5>3. SumFunctionOnSet(Qtys(c), S \cup {e.order_id})
                = Qtys(c)[e.order_id] + SumFunctionOnSet(Qtys(c), S)
          BY <4>2, <5>1, <5>2, SumWith
        <5> QED
          BY <4>3, <5>3
      <4>5. SumFunctionOnSet(Qtys(c), S) = SumFunctionOnSet(Qtys(b), S)
        BY <4>2, SumSame
      <4>6. SumFunctionOnSet(Qtys(b), S) \in Nat
        BY <4>2, SumNat
      <4>7. SumFunctionOnSet(Qtys(c), OrdersAt(c, l)) = e.qty + SumFunctionOnSet(Qtys(b), S)
        BY <2>7, <4>4, <4>5
      <4>8. c.levels[l].total_qty = SumFunctionOnSet(Qtys(b), S) + e.qty
        BY <3>1, <3>4, <4>1
      <4> HIDE DEF S
      <4> QED
        BY <2>1, <3>4, <4>6, <4>7, <4>8
    <3>5. CASE k # l
      <4>1. c.levels[k] = b.levels[k]
        BY <2>2, <2>3, <3>2, <3>5
      <4>2. OrdersAt(c, k) = OrdersAt(b, k)
        BY <2>7, <3>5
      <4> QED
        BY <2>6, <3>1, <3>2, <3>3, <4>1, <4>2, SameTotal
    <3> QED
      BY <3>4, <3>5
  <2> QED
    BY <2>6, <2>9, <2>10 DEF Consistent, c
<1> QED
  BY <1>1, <1>2

(* A book that loses one live order and its share of the level stays       *)
(* consistent: the full branch of cancel_order and of execute_trade.       *)
LEMMA ReleaseConsistent ==
    ASSUME NEW b, Consistent(b), NEW id \in Live(b), NEW q \in Nat, q = b.orders[id].qty, NEW c,
           c = [levels |-> [b.levels EXCEPT ![Place(b.orders[id])] =
                                DeductLevel(b.levels[Place(b.orders[id])], q, TRUE)],
                orders |-> [b.orders EXCEPT ![id] = NoOrder]]
    PROVE  Consistent(c) /\ c.orders[id] = NoOrder
<1> DEFINE l == Place(b.orders[id])
<1>1. /\ b \in Book /\ id \in OrderIds /\ b.orders[id] \in Order
      /\ l \in Grid /\ b.levels[l] \in Level
  BY DEF Consistent, Typed, Live, Book, Order, Place, Grid
<1>2. DeductLevel(b.levels[l], q, TRUE) \in Level
  BY <1>1, DeductTyped
<1>3. c \in Book
  BY <1>1, <1>2 DEF Book
<1>4. Typed(c)
  BY <1>1, <1>3 DEF Consistent, Typed, Live, Book
<1>5. /\ id \in OrdersAt(b, l)
      /\ OrdersAt(c, l) = OrdersAt(b, l) \ {id}
      /\ \A k \in Grid : k # l => OrdersAt(c, k) = OrdersAt(b, k)
  <2>1. c.orders = [b.orders EXCEPT ![id] = NoOrder]
    OBVIOUS
  <2>2. l = Place(b.orders[id])
    OBVIOUS
  <2> HIDE DEF l
  <2>3. id \in Live(b) /\ b \in Book /\ c \in Book
    BY <1>1, <1>3
  <2> QED
    BY ONLY <2>1, <2>2, <2>3, TakeOut
<1>6. /\ Cardinality(OrdersAt(c, l)) = Cardinality(OrdersAt(b, l)) - 1
      /\ Cardinality(OrdersAt(b, l)) \in Nat
      /\ Cardinality(OrdersAt(c, l)) \in Nat
  <2> HIDE DEF l
  <2>1. IsFiniteSet(OrdersAt(b, l)) /\ IsFiniteSet(OrdersAt(c, l))
    BY OrdersAtFinite
  <2>2. Cardinality(OrdersAt(b, l) \ {id}) = Cardinality(OrdersAt(b, l)) - 1
    BY <2>1, <1>5, FS_RemoveElement
  <2> QED
    BY <2>1, <2>2, <1>5, FS_CardinalityType
<1>7. b.levels[l].order_count = Cardinality(OrdersAt(b, l))
  BY <1>1 DEF Consistent, Counted
<1>8. DeductLevel(b.levels[l], q, TRUE).order_count = b.levels[l].order_count - 1
  <2>1. b.levels[l].order_count > 0
    BY <1>6, <1>7
  <2> QED
    BY <2>1, <1>1, DeductTyped
<1>9. Counted(c)
  <2> SUFFICES ASSUME NEW k \in Grid
               PROVE  c.levels[k].order_count = Cardinality(OrdersAt(c, k))
    BY DEF Counted
  <2>1. b.levels[k].order_count = Cardinality(OrdersAt(b, k))
    BY DEF Consistent, Counted
  <2> HIDE DEF l
  <2> QED
    BY <2>1, <1>1, <1>5, <1>6, <1>7, <1>8 DEF Book, l
<1>10. Summed(c)
  <2>1. /\ c.orders = [b.orders EXCEPT ![id] = NoOrder]
        /\ c.levels[l] = DeductLevel(b.levels[l], b.orders[id].qty, TRUE)
        /\ \A k \in Grid : k # l => c.levels[k] = b.levels[k]
    BY <1>1 DEF Book
  <2>2. Typed(b) /\ Counted(b) /\ Summed(b)
    BY DEF Consistent
  <2>3. l \in Grid /\ l = Place(b.orders[id]) /\ id \in Live(b)
    BY <1>1
  <2> HIDE DEF l
  <2>4. Released(b, c, id, l)
    BY ONLY <1>4, <2>1, <2>2, <2>3 DEF Released
  <2> QED
    BY ONLY <2>4, ReleaseSummed
<1> QED
  BY <1>1, <1>4, <1>9, <1>10 DEF Consistent, Book

(* A book in which one live order keeps some shares and its level gives up *)
(* a quantity stays consistent: the partial branch of both operations.     *)
LEMMA ResizeConsistent ==
    ASSUME NEW b, Consistent(b), NEW id \in Live(b), NEW q \in Nat,
           NEW left \in Nat, left > 0, q + left = b.orders[id].qty, NEW c,
           c = [levels |-> [b.levels EXCEPT ![Place(b.orders[id])] =
                                DeductLevel(b.levels[Place(b.orders[id])], q, FALSE)],
                orders |-> [b.orders EXCEPT ![id] =
                                [b.orders[id] EXCEPT !.qty = left]]]
    PROVE  Consistent(c)
<1> DEFINE l == Place(b.orders[id])
           o == [b.orders[id] EXCEPT !.qty = left]
<1>1. /\ b \in Book /\ id \in OrderIds /\ b.orders[id] \in Order
      /\ l \in Grid /\ b.levels[l] \in Level
  BY DEF Consistent, Typed, Live, Book, Order, Place, Grid
<1>2. /\ DeductLevel(b.levels[l], q, FALSE) \in Level
      /\ DeductLevel(b.levels[l], q, FALSE).order_count = b.levels[l].order_count
  BY <1>1, DeductTyped
<1>3. o \in Order /\ o.qty = left
  BY <1>1 DEF Order
<1> HIDE DEF o
<1>4. c \in Book
  BY <1>1, <1>2, <1>3 DEF Book, o
<1>5. Typed(c)
  BY <1>1, <1>3, <1>4 DEF Consistent, Typed, Live, Book, o
<1>6. \A k \in Grid : OrdersAt(c, k) = OrdersAt(b, k)
  BY <1>1, <1>4, Resize
<1>7. Counted(c)
  BY <1>1, <1>2, <1>6 DEF Consistent, Counted, Book
<1>8. Summed(c)
  <2>1. /\ \A x \in OrderIds : x # id => c.orders[x] = b.orders[x]
        /\ c.orders[id].qty = left
        /\ c.levels[l] = DeductLevel(b.levels[l], q, FALSE)
        /\ \A k \in Grid : k # l => c.levels[k] = b.levels[k]
    BY <1>1, <1>3 DEF Book, o
  <2>2. Typed(b) /\ Summed(b)
    BY DEF Consistent
  <2>3. l \in Grid /\ q \in Nat /\ left \in Nat /\ q + left = b.orders[id].qty
    BY <1>1
  <2>4. id \in OrdersAt(b, l)
    BY DEF OrdersAt, Place
  <2> HIDE DEF l
  <2>5. Resized(b, c, id, l, q, left)
    BY ONLY <1>5, <1>6, <2>1, <2>2, <2>3, <2>4 DEF Resized
  <2> QED
    BY ONLY <2>5, ResizeSummed
<1> QED
  BY <1>5, <1>7, <1>8 DEF Consistent

(* cancel_order keeps every consistent book consistent, and afterwards the *)
(* order is gone if the event had no quantity or at least the resting one. *)
LEMMA CancelConsistent ==
    ASSUME NEW b, Consistent(b), NEW e \in Event
    PROVE  /\ Consistent(CancelOrder(b, e))
           /\ \/ b.orders[e.order_id] = NoOrder
              \/ e.qty = 0
              \/ e.qty >= b.orders[e.order_id].qty
              => CancelOrder(b, e).orders[e.order_id] = NoOrder
<1> DEFINE id == e.order_id
           o == b.orders[id]
<1>1. id \in OrderIds /\ e.qty \in Nat
  BY DEF Event
<1>2. CASE o = NoOrder
  BY <1>2 DEF CancelOrder
<1>3. CASE o # NoOrder /\ (e.qty = 0 \/ e.qty >= o.qty)
  <2>1. id \in Live(b) /\ o \in Order /\ o.qty \in Nat
    BY <1>1, <1>3 DEF Live, Consistent, Typed, Book, Order
  <2>2. CancelOrder(b, e) =
            [levels |-> [b.levels EXCEPT ![Place(o)] =
                            DeductLevel(b.levels[Place(o)], o.qty, TRUE)],
             orders |-> [b.orders EXCEPT ![id] = NoOrder]]
    BY <1>3 DEF CancelOrder, Place
  <2> QED
    BY <2>1, <2>2, ReleaseConsistent
<1>4. CASE o # NoOrder /\ ~(e.qty = 0 \/ e.qty >= o.qty)
  <2>1. /\ id \in Live(b) /\ o \in Order /\ o.qty \in Nat
        /\ o.qty - e.qty \in Nat /\ o.qty - e.qty > 0
    BY <1>1, <1>4 DEF Live, Consistent, Typed, Book, Order
  <2>2. CancelOrder(b, e) =
            [levels |-> [b.levels EXCEPT ![Place(o)] =
                            DeductLevel(b.levels[Place(o)], e.qty, FALSE)],
             orders |-> [b.orders EXCEPT ![id] =
                            [o EXCEPT !.qty = o.qty - e.qty]]]
    BY <1>4 DEF CancelOrder, Place
  <2>3. e.qty + (o.qty - e.qty) = o.qty
    BY <1>1, <2>1
  <2> HIDE DEF o
  <2>4. /\ o.qty - e.qty \in Nat /\ o.qty - e.qty > 0 /\ e.qty \in Nat
        /\ e.qty + (o.qty - e.qty) = b.orders[id].qty
    BY <1>1, <2>1, <2>3 DEF o
  <2>5. Consistent(CancelOrder(b, e))
    BY <2>1, <2>2, <2>4, ResizeConsistent DEF o
  <2> QED
    BY <1>4, <2>5 DEF o
<1> QED
  BY <1>2, <1>3, <1>4

(* execute_trade keeps every consistent book consistent.                   *)
LEMMA TradeConsistent ==
    ASSUME NEW b, Consistent(b), NEW e \in Event
    PROVE  Consistent(ExecuteTrade(b, e))
<1> DEFINE id == e.order_id
           o == b.orders[id]
           left == SatSub(o.qty, e.qty)
           fill == Least(e.qty, o.qty)
<1>1. id \in OrderIds /\ e.qty \in Nat
  BY DEF Event
<1>2. CASE o = NoOrder
  BY <1>2 DEF ExecuteTrade
<1>3. CASE o # NoOrder
  <2>1. id \in Live(b) /\ o \in Order /\ o.qty \in Nat
    BY <1>1, <1>3 DEF Live, Consistent, Typed, Book, Order
  <2>2. left \in Nat /\ fill \in Nat
    BY <1>1, <2>1 DEF SatSub, Least
  <2>3. CASE left = 0
    <3>1. ExecuteTrade(b, e) =
            [levels |-> [b.levels EXCEPT ![Place(o)] =
                            DeductLevel(b.levels[Place(o)], fill, TRUE)],
             orders |-> [b.orders EXCEPT ![id] = NoOrder]]
      BY <1>3, <2>3 DEF ExecuteTrade, Place
    <3>2. fill = o.qty
      BY <1>1, <2>1, <2>3 DEF SatSub, Least
    <3> HIDE DEF fill
    <3> QED
      BY <2>1, <2>2, <3>1, <3>2, ReleaseConsistent
  <2>4. CASE left # 0
    <3>1. ExecuteTrade(b, e) =
            [levels |-> [b.levels EXCEPT ![Place(o)] =
                            DeductLevel(b.levels[Place(o)], fill, FALSE)],
             orders |-> [b.orders EXCEPT ![id] = [o EXCEPT !.qty = left]]]
      BY <1>3, <2>4 DEF ExecuteTrade, Place
    <3>2. left > 0
      BY <2>2, <2>4
    <3>3. fill + left = o.qty
      BY <1>1, <2>1, <2>4 DEF SatSub, Least
    <3> HIDE DEF fill, left
    <3> QED
      BY <2>1, <2>2, <3>1, <3>2, <3>3, ResizeConsistent
  <2> QED
    BY <2>3, <2>4
<1> QED
  BY <1>2, <1>3

(* modify_order keeps a consistent book consistent when the event does not *)
(* reduce a live order: then its cancel half removes the order.            *)
LEMMA ModifyConsistent ==
    ASSUME NEW b, Consistent(b), NEW e \in Event,
           e.price \in Prices, e.qty > 0,
           ~(e.order_id \in Live(b) /\ e.qty < b.orders[e.order_id].qty)
    PROVE  Consistent(ModifyOrder(b, e))
<1> DEFINE c == CancelOrder(b, e)
<1>1. e.order_id \in OrderIds /\ e.qty \in Nat
  BY DEF Event
<1>2. \/ b.orders[e.order_id] = NoOrder
      \/ e.qty >= b.orders[e.order_id].qty
  BY <1>1 DEF Live, Consistent, Typed, Book, Order
<1>3. Consistent(c) /\ c.orders[e.order_id] = NoOrder
  BY <1>2, CancelConsistent
<1> HIDE DEF c
<1>4. Consistent(AddOrder(c, e))
  BY <1>3, AddConsistent
<1> QED
  BY <1>4 DEF ModifyOrder, c

-----------------------------------------------------------------------------
(* Every step of Spec applies one of those operations.  Inv is inductive:  *)
(* the totals need the counts, because a level is emptied when its count   *)
(* reaches 0, and the counts need the positive quantities of TypeOK.       *)

Inv == TypeOK /\ CountsMatchOrders /\ QtysMatchOrders

(* An order in the map has its level.                                      *)
LEMMA LiveHasLevel ==
    ASSUME NEW b, Consistent(b), NEW id \in OrderIds, b.orders[id] # NoOrder
    PROVE  /\ b.orders[id] \in Order /\ b.orders[id].qty > 0
           /\ b.levels[<<b.orders[id].side, b.orders[id].price>>].order_count > 0
<1> DEFINE l == <<b.orders[id].side, b.orders[id].price>>
<1>1. b.orders[id] \in Order /\ b.orders[id].qty > 0
  BY DEF Consistent, Typed, Book, Live
<1>2. l \in Grid
  BY <1>1 DEF Order, Grid
<1>3. id \in OrdersAt(b, l)
  BY DEF OrdersAt, Live
<1>4. IsFiniteSet(OrdersAt(b, l)) /\ b.levels[l].order_count = Cardinality(OrdersAt(b, l))
  BY <1>2, OrdersAtFinite DEF Consistent, Counted
<1>5. Cardinality(OrdersAt(b, l)) \in Nat /\ Cardinality(OrdersAt(b, l)) # 0
  BY <1>3, <1>4, FS_CardinalityType, FS_EmptySet
<1> QED
  BY <1>1, <1>4, <1>5

(* Inv is Consistent, stated of the variable.                              *)
LEMMA InvIsConsistent == Inv <=> Consistent(book)
BY DEF Inv, TypeOK, CountsMatchOrders, QtysMatchOrders, Consistent, Typed, Counted, Summed

(* The empty book is consistent.                                           *)
LEMMA InitInv == Init => Inv
<1> SUFFICES ASSUME Init PROVE Inv
  OBVIOUS
<1>1. EmptyLevel \in Level /\ EmptyLevel.order_count = 0 /\ EmptyLevel.total_qty = 0
  BY DEF EmptyLevel, Level
<1>2. NewBook \in Book /\ Live(NewBook) = {}
  BY <1>1 DEF NewBook, Book, Live
<1>3. \A l \in Grid : OrdersAt(NewBook, l) = {} /\ NewBook.levels[l] = EmptyLevel
  BY <1>2 DEF OrdersAt, NewBook
<1>4. Typed(NewBook) /\ Counted(NewBook) /\ Summed(NewBook)
  BY <1>1, <1>2, <1>3, FS_EmptySet, SumEmpty DEF Typed, Counted, Summed
<1> QED
  BY <1>4, InvIsConsistent DEF Init, Consistent

(* A message of the feed becomes an add of a fresh order with shares, a    *)
(* cancel or a trade.                                                      *)
LEMMA DispatchTyped ==
    ASSUME NEW m \in ItchMessage, NEW e, e = Dispatch(m)
    PROVE  /\ e \in Event
           /\ e.order_id = m.ref
           /\ e.type \in {"OrderAdd", "OrderCancel", "Trade"}
           /\ e.type = "OrderAdd" =>
                m.kind = "A" /\ e.price \in Prices /\ e.qty > 0
<1>1. 1..MaxQty \subseteq Nat \ {0} /\ Prices \subseteq Prices \cup {0}
  BY MaxQtyAssumption
<1>2. CASE m \in [kind : {"A", "P"}, ref : OrderIds, side : Sides,
                  shares : 1..MaxQty, price : Prices]
  BY <1>1, <1>2 DEF Dispatch, MkEvent, Event, EventTypes, Sides, BadSide
<1>3. CASE m \in [kind : {"C"}, ref : OrderIds, shares : 1..MaxQty, price : Prices]
  BY <1>1, <1>3 DEF Dispatch, MkEvent, Event, EventTypes, Sides, BadSide
<1>4. CASE m \in [kind : {"X", "E"}, ref : OrderIds, shares : 1..MaxQty]
  BY <1>1, <1>4 DEF Dispatch, MkEvent, Event, EventTypes, Sides, BadSide
<1>5. CASE m \in [kind : {"D"}, ref : OrderIds]
  BY <1>5 DEF Dispatch, MkEvent, Event, EventTypes, Sides, BadSide
<1> QED
  BY <1>2, <1>3, <1>4, <1>5 DEF ItchMessage

(* Applying a conformant message keeps the invariant.                      *)
LEMMA FeedInv ==
    ASSUME Inv, NEW kinds, Feed(kinds) PROVE Inv'
<1>1. PICK m \in ItchMessage :
        /\ m.kind \in {"A", "F"} => book.orders[m.ref] = NoOrder
        /\ book' = Apply(book, Dispatch(m))
  BY DEF Feed, Conformant, Step
<1>2. PICK e : e = Dispatch(m)
  OBVIOUS
<1>3. /\ e \in Event /\ e.order_id = m.ref
      /\ e.type \in {"OrderAdd", "OrderCancel", "Trade"}
      /\ e.type = "OrderAdd" => m.kind = "A" /\ e.price \in Prices /\ e.qty > 0
  BY <1>2, DispatchTyped
<1>4. Consistent(book)
  BY InvIsConsistent
<1>5. Consistent(Apply(book, e))
  <2>1. CASE e.type = "OrderAdd"
    <3>1. Apply(book, e) = AddOrder(book, e)
      BY <2>1 DEF Apply
    <3> QED
      BY <3>1, <2>1, <1>1, <1>3, <1>4, AddConsistent
  <2>2. CASE e.type = "OrderCancel"
    <3>1. Apply(book, e) = CancelOrder(book, e)
      BY <2>2 DEF Apply
    <3> QED
      BY <3>1, <1>3, <1>4, CancelConsistent
  <2>3. CASE e.type = "Trade"
    <3>1. Apply(book, e) = ExecuteTrade(book, e)
      BY <2>3 DEF Apply
    <3> QED
      BY <3>1, <1>3, <1>4, TradeConsistent
  <2> QED
    BY <1>3, <2>1, <2>2, <2>3
<1>6. Consistent(book')
  BY <1>1, <1>2, <1>5
<1>7. Inv' <=> Consistent(book')
  BY DEF Inv, TypeOK, CountsMatchOrders, QtysMatchOrders, Consistent, Typed, Counted, Summed
<1> QED
  BY <1>6, <1>7

(* Every step keeps the invariant.                                         *)
LEMMA NextInv == Inv /\ [Next]_book => Inv'
<1> SUFFICES ASSUME Inv, [Next]_book PROVE Inv'
  OBVIOUS
<1>0. Consistent(book)
  BY InvIsConsistent
<1>1. Inv' <=> Consistent(book')
  BY DEF Inv, TypeOK, CountsMatchOrders, QtysMatchOrders, Consistent, Typed, Counted, Summed
<1>2. CASE OrderAdded
  BY <1>2, FeedInv DEF OrderAdded
<1>3. CASE OrderDeleted
  BY <1>3, FeedInv DEF OrderDeleted
<1>4. CASE OrderCancelled
  BY <1>4, FeedInv DEF OrderCancelled
<1>5. CASE OrderExecuted
  BY <1>5, FeedInv DEF OrderExecuted
<1>6. CASE NonCrossTrade
  BY <1>6, FeedInv DEF NonCrossTrade
<1>7. CASE OrderModified
  <2>1. PICK id \in OrderIds, side \in Sides, price \in Prices, qty \in 1..MaxQty :
            /\ ~(id \in Live(book) /\ qty < book.orders[id].qty)
            /\ Step(MkEvent("OrderModify", id, side, price, qty))
    BY <1>7 DEF OrderModified, Modified
  <2>2. PICK e : e = MkEvent("OrderModify", id, side, price, qty)
    OBVIOUS
  <2>3. /\ e \in Event /\ e.order_id = id /\ e.price \in Prices
        /\ e.qty = qty /\ e.qty > 0 /\ e.type = "OrderModify"
    BY <2>2, MaxQtyAssumption DEF MkEvent, Event, EventTypes
  <2>4. Consistent(ModifyOrder(book, e))
    BY <1>0, <2>1, <2>3, ModifyConsistent
  <2>5. book' = ModifyOrder(book, e)
    BY <2>1, <2>2, <2>3 DEF Step, Apply
  <2> QED
    BY <2>4, <2>5, <1>1
<1>8. CASE RejectedEvent
  <2>1. PICK id \in OrderIds, price \in Prices, qty \in 1..MaxQty,
             type \in {"OrderAdd", "BookSnapshot"} :
            Step(MkEvent(type, id, BadSide, price, qty))
    BY <1>8 DEF RejectedEvent
  <2>2. book' = book
    BY <2>1 DEF Step, Apply, AddOrder, MkEvent
  <2> QED
    BY <2>2, <1>0, <1>1
<1>9. CASE UNCHANGED book
  BY <1>9, <1>0, <1>1
<1> QED
  BY <1>2, <1>3, <1>4, <1>5, <1>6, <1>7, <1>8, <1>9 DEF Next

(* Along every behaviour of conformant events the type invariant holds: no *)
(* cancel or trade ever leaves an order of 0 shares in the orders map.     *)
THEOREM TypeCorrect == Spec => []TypeOK
<1>1. Spec => []Inv
  BY InitInv, NextInv, PTL DEF Spec
<1>2. Inv => TypeOK
  BY DEF Inv
<1> QED
  BY <1>1, <1>2, PTL

(* Along every behaviour of conformant events the count of each level of   *)
(* OrderBook is the number of orders resting there.                        *)
THEOREM CountsCorrect == Spec => []CountsMatchOrders
<1>1. Spec => []Inv
  BY InitInv, NextInv, PTL DEF Spec
<1>2. Inv => CountsMatchOrders
  BY DEF Inv
<1> QED
  BY <1>1, <1>2, PTL

(* Along every behaviour of conformant events, partial cancels, partial    *)
(* fills and over-fills included, the total_qty of each level of OrderBook *)
(* is the sum of the quantities resting there.                             *)
THEOREM QtysCorrect == Spec => []QtysMatchOrders
<1>1. Spec => []Inv
  BY InitInv, NextInv, PTL DEF Spec
<1>2. Inv => QtysMatchOrders
  BY DEF Inv
<1> QED
  BY <1>1, <1>2, PTL

-----------------------------------------------------------------------------
(* The slab of the hot book.                                               *)

SlabType == [data : Seq(Meta), free_list : Seq(Nat), index : [Ids -> Nat]]

IndexOK(s) ==
    /\ \A id \in LiveIds(s) : s.index[id] \in Slots(s)
    /\ \A a, b \in LiveIds(s) : s.index[a] = s.index[b] => a = b

FreeOK(s) ==
    /\ \A i \in DOMAIN s.free_list : s.free_list[i] \in Slots(s)
    /\ \A i, j \in DOMAIN s.free_list : s.free_list[i] = s.free_list[j] => i = j
    /\ \A i \in DOMAIN s.free_list, id \in LiveIds(s) :
            s.free_list[i] # s.index[id]

LeakOK(s) ==
    \A k \in Slots(s) :
        \/ \E id \in LiveIds(s) : s.index[id] = k
        \/ \E i \in DOMAIN s.free_list : s.free_list[i] = k

Sound(s) == s \in SlabType /\ IndexOK(s) /\ FreeOK(s) /\ LeakOK(s)

(* Writing through the reference of a live id changes that id's value and  *)
(* no other, because no other id has its slot.                             *)
LEMMA UpdateSound ==
    ASSUME NEW s, Sound(s), NEW id \in LiveIds(s), NEW meta \in Meta, NEW t,
           t = [data |-> [s.data EXCEPT ![s.index[id]] = meta],
                free_list |-> s.free_list, index |-> s.index]
    PROVE  /\ Sound(t)
           /\ \A x \in Ids : SlabGet(t, x) = IF x = id THEN meta ELSE SlabGet(s, x)
<1>1. /\ s.data \in Seq(Meta) /\ s.free_list \in Seq(Nat) /\ s.index \in [Ids -> Nat]
      /\ id \in Ids /\ s.index[id] # NoSlot /\ s.index[id] \in 1..Len(s.data)
  BY DEF Sound, SlabType, IndexOK, LiveIds, Slots
<1>2. /\ t.data \in Seq(Meta) /\ Len(t.data) = Len(s.data)
      /\ t.data[s.index[id]] = meta
      /\ \A k \in 1..Len(s.data) : k # s.index[id] => t.data[k] = s.data[k]
  BY <1>1
<1>3. t.free_list = s.free_list /\ t.index = s.index /\ t \in SlabType
  BY <1>1, <1>2 DEF SlabType
<1>4. LiveIds(t) = LiveIds(s) /\ Slots(t) = Slots(s)
  BY <1>2, <1>3 DEF LiveIds, Slots
<1>5. IndexOK(t) /\ FreeOK(t) /\ LeakOK(t)
  BY <1>3, <1>4 DEF Sound, IndexOK, FreeOK, LeakOK
<1>6. ASSUME NEW x \in Ids
      PROVE  SlabGet(t, x) = IF x = id THEN meta ELSE SlabGet(s, x)
  <2>1. CASE s.index[x] = NoSlot
    BY <2>1, <1>1, <1>3 DEF SlabGet
  <2>2. CASE s.index[x] # NoSlot
    <3>1. s.index[x] \in 1..Len(s.data) /\ (x # id => s.index[x] # s.index[id])
      BY <2>2, <1>1 DEF Sound, IndexOK, LiveIds, Slots
    <3> QED
      BY <3>1, <2>2, <1>1, <1>2, <1>3 DEF SlabGet
  <2> QED
    BY <2>1, <2>2
<1> QED
  BY <1>3, <1>5, <1>6 DEF Sound

(* Pop drops the last element and keeps the others in place.               *)
LEMMA PopProperties ==
    ASSUME NEW q \in Seq(Nat), NEW n \in Nat, n = Len(q), n > 0
    PROVE  /\ Pop(q) \in Seq(Nat) /\ DOMAIN Pop(q) = 1..(n - 1)
           /\ \A i \in 1..(n - 1) : Pop(q)[i] = q[i]
BY DEF Pop

(* Taking a freed slot for a new id.                                       *)
LEMMA ReuseSound ==
    ASSUME NEW s, Sound(s), NEW id \in Ids, s.index[id] = NoSlot,
           s.free_list # <<>>, NEW meta \in Meta,
           NEW slot, slot = s.free_list[Len(s.free_list)], NEW t,
           t = [data |-> [s.data EXCEPT ![slot] = meta],
                free_list |-> Pop(s.free_list),
                index |-> [s.index EXCEPT ![id] = slot]]
    PROVE  /\ Sound(t)
           /\ \A x \in Ids : SlabGet(t, x) = IF x = id THEN meta ELSE SlabGet(s, x)
<1> DEFINE n == Len(s.free_list)
<1>1. /\ s.data \in Seq(Meta) /\ s.free_list \in Seq(Nat) /\ s.index \in [Ids -> Nat]
      /\ n \in Nat /\ n > 0 /\ DOMAIN s.free_list = 1..n
  BY DEF Sound, SlabType
<1>2. /\ slot \in 1..Len(s.data) /\ slot \in Nat /\ slot # NoSlot
      /\ \A i \in 1..(n - 1) : s.free_list[i] # slot
      /\ \A x \in LiveIds(s) : s.index[x] # slot
  <2>1. /\ \A i \in 1..n : s.free_list[i] \in 1..Len(s.data)
        /\ \A i, j \in 1..n : s.free_list[i] = s.free_list[j] => i = j
        /\ \A i \in 1..n, x \in LiveIds(s) : s.free_list[i] # s.index[x]
    BY <1>1 DEF Sound, FreeOK, Slots
  <2>2. n \in 1..n /\ slot = s.free_list[n] /\ \A i \in 1..(n - 1) : i \in 1..n /\ i # n
    BY <1>1
  <2> HIDE DEF n
  <2> QED
    BY <2>1, <2>2 DEF NoSlot
<1>3. /\ t.data \in Seq(Meta) /\ Len(t.data) = Len(s.data)
      /\ t.data[slot] = meta
      /\ \A k \in 1..Len(s.data) : k # slot => t.data[k] = s.data[k]
  BY <1>1, <1>2
<1>4. /\ t.free_list \in Seq(Nat) /\ DOMAIN t.free_list = 1..(n - 1)
      /\ \A i \in 1..(n - 1) : t.free_list[i] = s.free_list[i]
  BY <1>1, PopProperties
<1>5. /\ t.index \in [Ids -> Nat] /\ t.index[id] = slot
      /\ \A x \in Ids : x # id => t.index[x] = s.index[x]
  BY <1>1, <1>2
<1>6. t \in SlabType /\ Slots(t) = Slots(s) /\ LiveIds(t) = LiveIds(s) \cup {id}
  <2>1. Slots(t) = Slots(s)
    BY <1>3 DEF Slots
  <2>2. LiveIds(t) = LiveIds(s) \cup {id}
    BY <1>2, <1>5 DEF LiveIds
  <2> QED
    BY <2>1, <2>2, <1>3, <1>4, <1>5 DEF SlabType
<1>7. IndexOK(t)
  BY <1>2, <1>5, <1>6 DEF Sound, IndexOK, LiveIds, Slots
<1>8. FreeOK(t)
  <2>1. \A i \in 1..(n - 1) : i \in DOMAIN s.free_list
    BY <1>1
  <2>2. FreeOK(s)
    BY DEF Sound
  <2> HIDE DEF n
  <2>3. /\ \A i \in DOMAIN t.free_list : t.free_list[i] \in Slots(t)
        /\ \A i, j \in DOMAIN t.free_list : t.free_list[i] = t.free_list[j] => i = j
    BY ONLY <2>1, <2>2, <1>4, <1>6 DEF FreeOK
  <2>4. ASSUME NEW i \in 1..(n - 1), NEW x \in LiveIds(t)
        PROVE  t.free_list[i] # t.index[x]
    <3>1. CASE x = id
      BY <3>1, <1>2, <1>4, <1>5
    <3>2. CASE x # id
      BY <3>2, <2>1, <1>4, <1>5, <1>6 DEF Sound, FreeOK, LiveIds
    <3> QED
      BY <3>1, <3>2
  <2> QED
    BY ONLY <2>3, <2>4, <1>4 DEF FreeOK
<1>9. LeakOK(t)
  <2> SUFFICES ASSUME NEW k \in Slots(s)
               PROVE  \/ \E x \in LiveIds(t) : t.index[x] = k
                      \/ \E i \in DOMAIN t.free_list : t.free_list[i] = k
    BY <1>6 DEF LeakOK
  <2>1. CASE \E x \in LiveIds(s) : s.index[x] = k
    BY <2>1, <1>5, <1>6 DEF LiveIds
  <2>2. CASE \E i \in 1..n : s.free_list[i] = k
    <3>1. PICK i \in 1..n : s.free_list[i] = k
      BY <2>2
    <3>2. CASE i = n
      BY <3>1, <3>2, <1>5, <1>6
    <3>3. CASE i # n
      <4>1. i \in 1..(n - 1)
        BY <3>3, <1>1
      <4> HIDE DEF n
      <4> QED
        BY <4>1, <3>1, <1>4
    <3> QED
      BY <3>2, <3>3
  <2> QED
    BY <2>1, <2>2, <1>1 DEF Sound, LeakOK
<1>10. ASSUME NEW x \in Ids
       PROVE  SlabGet(t, x) = IF x = id THEN meta ELSE SlabGet(s, x)
  <2>1. CASE x = id
    BY <2>1, <1>2, <1>3, <1>5 DEF SlabGet
  <2>2. CASE x # id /\ s.index[x] = NoSlot
    BY <2>2, <1>5 DEF SlabGet
  <2>3. CASE x # id /\ s.index[x] # NoSlot
    <3>1. s.index[x] \in 1..Len(s.data) /\ s.index[x] # slot
      BY <2>3, <1>2 DEF Sound, IndexOK, LiveIds, Slots
    <3> QED
      BY <3>1, <2>3, <1>3, <1>5 DEF SlabGet
  <2> QED
    BY <2>1, <2>2, <2>3
<1> QED
  BY <1>6, <1>7, <1>8, <1>9, <1>10 DEF Sound

(* The slab with one more slot, which id gets.                             *)
Grown(s, id, meta) ==
    [data |-> Append(s.data, meta), free_list |-> s.free_list,
     index |-> [s.index EXCEPT ![id] = Len(s.data) + 1]]

(* Growing the data for a new id.                                          *)
LEMMA GrowSound ==
    ASSUME NEW s, Sound(s), NEW id \in Ids, s.index[id] = NoSlot,
           s.free_list = <<>>, NEW meta \in Meta
    PROVE  /\ Sound(Grown(s, id, meta))
           /\ \A x \in Ids : SlabGet(Grown(s, id, meta), x) =
                                IF x = id THEN meta ELSE SlabGet(s, x)
<1> DEFINE t == Grown(s, id, meta)
<1>t. t = [data |-> Append(s.data, meta), free_list |-> s.free_list,
           index |-> [s.index EXCEPT ![id] = Len(s.data) + 1]]
  BY DEF Grown
<1> HIDE DEF t
<1> USE <1>t
<1> DEFINE n == Len(s.data)
<1>1. /\ s.data \in Seq(Meta) /\ s.index \in [Ids -> Nat] /\ n \in Nat
      /\ DOMAIN s.free_list = {} /\ s.free_list \in Seq(Nat)
  BY DEF Sound, SlabType
<1>2. /\ t.data \in Seq(Meta) /\ Len(t.data) = n + 1 /\ t.data[n + 1] = meta
      /\ \A k \in 1..n : t.data[k] = s.data[k]
  BY <1>1
<1>3. /\ t.index \in [Ids -> Nat] /\ t.index[id] = n + 1
      /\ \A x \in Ids : x # id => t.index[x] = s.index[x]
      /\ t.free_list = s.free_list
  BY <1>1
<1>4. /\ t \in SlabType /\ Slots(t) = 1..(n + 1)
      /\ LiveIds(t) = LiveIds(s) \cup {id}
  <2>1. Slots(t) = 1..(n + 1)
    BY <1>2 DEF Slots
  <2>2. LiveIds(t) = LiveIds(s) \cup {id}
    BY <1>1, <1>3 DEF LiveIds, NoSlot
  <2> QED
    BY <2>1, <2>2, <1>1, <1>2, <1>3 DEF SlabType
<1>5. \A x \in LiveIds(s) : x # id /\ s.index[x] \in 1..n
  BY DEF Sound, IndexOK, Slots, LiveIds
<1> HIDE DEF n
<1>6. IndexOK(t)
  <2>1. \A x \in LiveIds(t) : t.index[x] \in Slots(t)
    BY <1>1, <1>3, <1>4, <1>5 DEF LiveIds
  <2>2. \A a, b \in LiveIds(s) : t.index[a] = t.index[b] => a = b
    BY <1>3, <1>5 DEF Sound, IndexOK, LiveIds
  <2>3. \A a \in LiveIds(s) : t.index[a] # n + 1
    BY <1>1, <1>3, <1>5 DEF LiveIds
  <2> QED
    BY ONLY <2>1, <2>2, <2>3, <1>3, <1>4 DEF IndexOK
<1>7. FreeOK(t)
  BY <1>1, <1>3 DEF FreeOK
<1>8. LeakOK(t)
  <2> SUFFICES ASSUME NEW k \in 1..(n + 1)
               PROVE  \E x \in LiveIds(t) : t.index[x] = k
    BY <1>4 DEF LeakOK
  <2>1. CASE k = n + 1
    BY <2>1, <1>3, <1>4
  <2>2. CASE k # n + 1
    <3>1. k \in Slots(s)
      BY <2>2, <1>1 DEF Slots, n
    <3>2. PICK x \in LiveIds(s) : s.index[x] = k
      BY <3>1, <1>1 DEF Sound, LeakOK
    <3> QED
      BY <3>2, <1>3, <1>4, <1>5 DEF LiveIds
  <2> QED
    BY <2>1, <2>2
<1>9. ASSUME NEW x \in Ids
      PROVE  SlabGet(t, x) = IF x = id THEN meta ELSE SlabGet(s, x)
  <2>1. CASE x = id
    BY <2>1, <1>1, <1>2, <1>3 DEF SlabGet, NoSlot
  <2>2. CASE x # id /\ s.index[x] = NoSlot
    BY <2>2, <1>3 DEF SlabGet
  <2>3. CASE x # id /\ s.index[x] # NoSlot
    <3>1. s.index[x] \in 1..n
      BY <2>3, <1>5 DEF LiveIds
    <3> QED
      BY <3>1, <2>3, <1>2, <1>3 DEF SlabGet
  <2> QED
    BY <2>1, <2>2, <2>3
<1>10. Sound(t)
  BY <1>4, <1>6, <1>7, <1>8 DEF Sound
<1> QED
  BY ONLY <1>9, <1>10 DEF t

(* insert keeps the slab sound and sets the value of its id alone.         *)
LEMMA InsertSound ==
    ASSUME NEW s, Sound(s), NEW id \in Ids, NEW meta \in Meta
    PROVE  /\ Sound(SlabInsert(s, id, meta))
           /\ \A x \in Ids : SlabGet(SlabInsert(s, id, meta), x) =
                                IF x = id THEN meta ELSE SlabGet(s, x)
<1>1. CASE s.index[id] # NoSlot
  <2>1. id \in LiveIds(s)
    BY <1>1 DEF LiveIds
  <2>2. SlabInsert(s, id, meta) = SlabUpdate(s, id, meta)
    BY <1>1 DEF SlabInsert
  <2>3. SlabUpdate(s, id, meta) =
            [data |-> [s.data EXCEPT ![s.index[id]] = meta],
             free_list |-> s.free_list, index |-> s.index]
    BY DEF SlabUpdate
  <2> QED
    BY <2>1, <2>2, <2>3, UpdateSound
<1>2. CASE s.index[id] = NoSlot /\ s.free_list # <<>>
  <2> DEFINE slot == s.free_list[Len(s.free_list)]
  <2>1. SlabInsert(s, id, meta) =
            [data |-> [s.data EXCEPT ![slot] = meta],
             free_list |-> Pop(s.free_list),
             index |-> [s.index EXCEPT ![id] = slot]]
    BY <1>2 DEF SlabInsert
  <2> QED
    BY <2>1, <1>2, ReuseSound
<1>3. CASE s.index[id] = NoSlot /\ s.free_list = <<>>
  <2>1. SlabInsert(s, id, meta) = Grown(s, id, meta)
    BY <1>3 DEF SlabInsert, Grown
  <2> QED
    BY <2>1, <1>3, GrowSound
<1> QED
  BY <1>1, <1>2, <1>3

(* remove keeps the slab sound and clears the value of its id alone.       *)
LEMMA RemoveSound ==
    ASSUME NEW s, Sound(s), NEW id \in Ids
    PROVE  /\ Sound(SlabRemove(s, id))
           /\ \A x \in Ids : SlabGet(SlabRemove(s, id), x) =
                                IF x = id THEN NoMeta ELSE SlabGet(s, x)
<1>1. CASE s.index[id] = NoSlot
  BY <1>1 DEF SlabRemove, SlabGet
<1>2. CASE s.index[id] # NoSlot
  <2> DEFINE t == SlabRemove(s, id)
             n == Len(s.free_list)
             slot == s.index[id]
  <2>1. /\ s.data \in Seq(Meta) /\ s.free_list \in Seq(Nat) /\ s.index \in [Ids -> Nat]
        /\ n \in Nat /\ DOMAIN s.free_list = 1..n /\ slot \in Nat
        /\ id \in LiveIds(s)
    BY <1>2 DEF Sound, SlabType, LiveIds
  <2>2. /\ t.data = s.data /\ t.index \in [Ids -> Nat] /\ t.index[id] = NoSlot
        /\ \A x \in Ids : x # id => t.index[x] = s.index[x]
        /\ t.free_list = Append(s.free_list, slot)
        /\ t = [data |-> t.data, free_list |-> t.free_list, index |-> t.index]
    BY <1>2, <2>1 DEF SlabRemove, NoSlot
  <2> HIDE DEF t
  <2>3. /\ t.free_list \in Seq(Nat) /\ DOMAIN t.free_list = 1..(n + 1)
        /\ t.free_list[n + 1] = slot
        /\ \A i \in 1..n : t.free_list[i] = s.free_list[i]
    BY <2>1, <2>2
  <2>4. /\ t \in SlabType /\ Slots(t) = Slots(s)
        /\ LiveIds(t) = LiveIds(s) \ {id}
    <3>1. LiveIds(t) = LiveIds(s) \ {id}
      BY <2>2 DEF LiveIds
    <3>2. Slots(t) = Slots(s)
      BY <2>2 DEF Slots
    <3> QED
      BY <3>1, <3>2, <2>1, <2>2, <2>3 DEF SlabType
  <2>5. IndexOK(t)
    BY <2>2, <2>4 DEF Sound, IndexOK, LiveIds
  <2>6. slot \in Slots(s) /\ \A x \in LiveIds(t) : t.index[x] # slot
    BY <2>1, <2>2, <2>4 DEF Sound, IndexOK, LiveIds
  <2>7. /\ \A i \in 1..n : s.free_list[i] \in Slots(s)
        /\ \A i, j \in 1..n : s.free_list[i] = s.free_list[j] => i = j
        /\ \A i \in 1..n, x \in LiveIds(s) : s.free_list[i] # s.index[x]
    BY <2>1 DEF Sound, FreeOK
  <2>8. /\ \A i \in 1..(n + 1) : i \in 1..n \/ i = n + 1
        /\ \A i \in 1..n : i \in 1..(n + 1)
        /\ n + 1 \in 1..(n + 1)
    BY <2>1
  <2>9. FreeOK(t)
    <3> HIDE DEF n, slot
    <3>1. \A i \in 1..(n + 1) : t.free_list[i] \in Slots(t)
      BY <2>3, <2>4, <2>6, <2>7, <2>8
    <3>2. \A i \in 1..n : t.free_list[i] # slot
      BY <2>1, <2>3, <2>7 DEF slot
    <3>3. \A i, j \in 1..(n + 1) : t.free_list[i] = t.free_list[j] => i = j
      BY <3>2, <2>3, <2>7, <2>8
    <3>4. \A i \in 1..(n + 1), x \in LiveIds(t) : t.free_list[i] # t.index[x]
      <4>1. \A x \in LiveIds(t) : x \in LiveIds(s) /\ t.index[x] = s.index[x]
        BY ONLY <2>2, <2>4 DEF LiveIds
      <4> QED
        BY ONLY <4>1, <2>3, <2>6, <2>7, <2>8
    <3> QED
      BY ONLY <3>1, <3>3, <3>4, <2>3 DEF FreeOK
  <2>10. LeakOK(t)
    <3> SUFFICES ASSUME NEW k \in Slots(s)
                 PROVE  \/ \E x \in LiveIds(t) : t.index[x] = k
                        \/ \E i \in DOMAIN t.free_list : t.free_list[i] = k
      BY <2>4 DEF LeakOK
    <3> HIDE DEF n
    <3>1. CASE k = slot
      BY ONLY <3>1, <2>3, <2>8
    <3>2. CASE k # slot /\ \E x \in LiveIds(s) : s.index[x] = k
      BY <3>2, <2>2, <2>4 DEF LiveIds
    <3>3. CASE \E i \in 1..n : s.free_list[i] = k
      BY ONLY <3>3, <2>3, <2>8
    <3> QED
      BY <3>1, <3>2, <3>3, <2>1 DEF Sound, LeakOK
  <2>11. \A x \in Ids : SlabGet(t, x) = IF x = id THEN NoMeta ELSE SlabGet(s, x)
    BY <2>2 DEF SlabGet
  <2> QED
    BY <2>4, <2>5, <2>9, <2>10, <2>11 DEF Sound, t
<1> QED
  BY <1>1, <1>2

-----------------------------------------------------------------------------
(* The inductive invariant.                                                *)

SlabInv == SlabTypeOK /\ IndexSound /\ FreeListSound /\ NoSlotLeak

(* SlabInv is Sound, stated of the variable.                               *)
LEMMA InvIsSound == SlabInv <=> Sound(slab)
BY DEF SlabInv, SlabTypeOK, IndexSound, FreeListSound, NoSlotLeak,
       Sound, SlabType, IndexOK, FreeOK, LeakOK

(* The empty slab satisfies it, and reads back NoMeta for every id.        *)
LEMMA InitSound == SlabInit => SlabInv /\ Map!Init
<1> SUFFICES ASSUME SlabInit PROVE SlabInv /\ Map!Init
  OBVIOUS
<1>1. /\ slab.data = <<>> /\ slab.free_list = <<>>
      /\ slab.index \in [Ids -> Nat] /\ \A id \in Ids : slab.index[id] = NoSlot
      /\ slab \in SlabType
  BY DEF SlabInit, NewSlab, SlabType, NoSlot
<1>2. LiveIds(slab) = {} /\ Slots(slab) = {} /\ DOMAIN slab.free_list = {}
  BY <1>1 DEF LiveIds, Slots
<1>3. Sound(slab)
  BY <1>1, <1>2 DEF Sound, IndexOK, FreeOK, LeakOK
<1>4. Map!Init
  BY <1>1 DEF Map!Init, SlabGet
<1> QED
  BY <1>3, <1>4, InvIsSound

(* Every step of the slab keeps the invariant and is a step of the map.    *)
LEMMA StepSound ==
    SlabInv /\ [SlabNext]_slab =>
        SlabInv' /\ [Map!Next]_([id \in Ids |-> SlabGet(slab, id)])
<1> SUFFICES ASSUME SlabInv, [SlabNext]_slab
             PROVE  /\ SlabInv'
                    /\ [Map!Next]_([id \in Ids |-> SlabGet(slab, id)])
  OBVIOUS
<1> DEFINE m == [id \in Ids |-> SlabGet(slab, id)]
<1>1. Sound(slab)
  BY InvIsSound
<1>2. SlabInv' <=> Sound(slab')
  BY DEF SlabInv, SlabTypeOK, IndexSound, FreeListSound, NoSlotLeak,
         Sound, SlabType, IndexOK, FreeOK, LeakOK
<1>3. m' = [id \in Ids |-> SlabGet(slab', id)]
  BY DEF SlabGet
<1>4. CASE \E id \in Ids, meta \in Meta : Insert(id, meta)
  <2>1. PICK id \in Ids, meta \in Meta : slab' = SlabInsert(slab, id, meta)
    BY <1>4 DEF Insert
  <2>2. Sound(slab') /\ \A x \in Ids : SlabGet(slab', x) =
                            IF x = id THEN meta ELSE SlabGet(slab, x)
    BY <2>1, <1>1, InsertSound
  <2>3. m' = [m EXCEPT ![id] = meta]
    BY <2>2, <1>3
  <2> QED
    BY <2>2, <2>3, <1>2 DEF Map!Next, Map!Insert
<1>5. CASE \E id \in Ids, meta \in Meta : Update(id, meta)
  <2>1. PICK id \in Ids, meta \in Meta :
            slab.index[id] # NoSlot /\ slab' = SlabUpdate(slab, id, meta)
    BY <1>5 DEF Update
  <2>2. id \in LiveIds(slab)
    BY <2>1 DEF LiveIds
  <2>3. Sound(slab') /\ \A x \in Ids : SlabGet(slab', x) =
                            IF x = id THEN meta ELSE SlabGet(slab, x)
    BY <2>1, <2>2, <1>1, UpdateSound DEF SlabUpdate
  <2>4. m' = [m EXCEPT ![id] = meta]
    BY <2>3, <1>3
  <2> QED
    BY <2>3, <2>4, <1>2 DEF Map!Next, Map!Insert
<1>6. CASE \E id \in Ids : Remove(id)
  <2>1. PICK id \in Ids : slab' = SlabRemove(slab, id)
    BY <1>6 DEF Remove
  <2>2. Sound(slab') /\ \A x \in Ids : SlabGet(slab', x) =
                            IF x = id THEN NoMeta ELSE SlabGet(slab, x)
    BY <2>1, <1>1, RemoveSound
  <2>3. m' = [m EXCEPT ![id] = NoMeta]
    BY <2>2, <1>3
  <2> QED
    BY <2>2, <2>3, <1>2 DEF Map!Next, Map!Remove
<1>7. CASE UNCHANGED slab
  BY <1>7, <1>1, <1>2, <1>3
<1> QED
  BY <1>4, <1>5, <1>6, <1>7 DEF SlabNext

(* Along every behaviour the index only names slots inside data, one per   *)
(* order: the unchecked accesses of get and get_mut are in bounds.         *)
THEOREM IndexAlwaysSound == SlabSpec => []IndexSound
<1>1. SlabSpec => []SlabInv
  BY InitSound, StepSound, PTL DEF SlabSpec
<1>2. SlabInv => IndexSound
  BY DEF SlabInv
<1> QED
  BY <1>1, <1>2, PTL

(* Along every behaviour no slot is both free and in use, free twice, or   *)
(* neither free nor in use.                                                *)
THEOREM SlotsAlwaysAccounted == SlabSpec => [](FreeListSound /\ NoSlotLeak)
<1>1. SlabSpec => []SlabInv
  BY InitSound, StepSound, PTL DEF SlabSpec
<1>2. SlabInv => FreeListSound /\ NoSlotLeak
  BY DEF SlabInv
<1> QED
  BY <1>1, <1>2, PTL

(* The slab implements the map from id to metadata.                        *)
THEOREM SlabRefinesMap == SlabSpec => ImplementsMap
<1>1. SlabSpec => []SlabInv
  BY InitSound, StepSound, PTL DEF SlabSpec
<1> QED
  BY <1>1, InitSound, StepSound, PTL DEF SlabSpec, ImplementsMap, Map!Spec

=============================================================================
