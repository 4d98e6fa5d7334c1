------------------------------ MODULE CrossImpl ------------------------------
(***************************************************************************)
(* The cross-implementation gate (bench/src/lib.rs, test                   *)
(* cross_impl_l2_hash_agreement; docs/reference-vs-hot.md): the reference  *)
(* book and the hot book are fed the same events and must publish the same *)
(* canonical L2 state.  Where the test replays one generated stream, every *)
(* interleaving of messages and every reuse of a freed slot is covered.    *)
(*                                                                         *)
(* The reference book has no capacity, so the comparison ends with the     *)
(* first order the hot book refuses; ref is left empty from then on.       *)
(***************************************************************************)
EXTENDS HotOrderBook

VARIABLES
    ref,      \* the reference book's state
    refused   \* the hot book has refused an order for want of a level

Ref == INSTANCE OrderBook WITH book <- ref

both == <<hot, ref, refused>>

CrossInit == HotInit /\ ref = Ref!NewBook /\ refused = FALSE

(* An add, or the add half of a modify, that left no order behind.         *)
Refused(h, e) ==
    /\ e.type \in {"OrderAdd", "OrderModify"}
    /\ OrderOf(h, e.order_id) = NoOrder

(* One event applied to both books.                                        *)
Both(e) ==
    /\ hot' = HotApply(hot, e)
    /\ refused' = (refused \/ Refused(hot', e))
    /\ ref' = IF refused' THEN Ref!NewBook ELSE Ref!Apply(ref, e)

CrossFeed(kinds) ==
    \E m \in ItchMessage :
        m.kind \in kinds /\ HotConformant(hot, m) /\ Both(Dispatch(m))

(* A modify that does not reduce a live order (see OrderBook).             *)
CrossModify ==
    \E id \in OrderIds \ {AnonId}, side \in Sides, price \in Prices, qty \in 1..MaxQty :
        /\ OrderOf(hot, id) # NoOrder => qty >= OrderOf(hot, id).qty
        /\ Both(MkEvent("OrderModify", id, side, price, qty))

CrossNext ==
    \/ CrossFeed({"A"})
    \/ CrossFeed({"D"})
    \/ CrossFeed({"X"})
    \/ CrossFeed({"E", "C"})
    \/ CrossFeed({"P"})
    \/ CrossModify

CrossSpec == CrossInit /\ [][CrossNext]_both

-----------------------------------------------------------------------------
(* Properties.                                                             *)

(* The keys of a BTreeMap in the order a walk from the best price visits.  *)
InOrder(side, S) ==
    CHOOSE f \in [1..Cardinality(S) -> S] :
        \A i, j \in DOMAIN f : i < j => Before(side, f[i], f[j])

(* The L2 pairs of the reference book, in the order canonical_l2_hash      *)
(* visits them: bids from the highest price, asks from the lowest.         *)
RefL2 ==
    [side \in Sides |->
        LET prices == InOrder(side, Ref!PricesOn(ref, side))
        IN  [i \in DOMAIN prices |->
                <<prices[i], ref.levels[<<side, prices[i]>>].total_qty>>]]

(* "They must produce the same number when fed the same events"            *)
(* (docs/reference-vs-hot.md): after every event the two books hash the    *)
(* same sequence of (price, total_qty).                                    *)
SameL2 == ~refused => HotL2(hot) = RefL2

(* The order maps agree too: the same ids are live with the same residual  *)
(* quantity, so later cancels and fills keep agreeing.                     *)
SameOrders ==
    ~refused => \A id \in OrderIds : OrderOf(hot, id) = ref.orders[id]

(* bench/src/lib.rs: the gate.  The books agree in what they publish and   *)
(* in the orders that later events will refer to.                          *)
BooksAgree == SameL2 /\ SameOrders

=============================================================================
