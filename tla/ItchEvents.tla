------------------------------ MODULE ItchEvents ------------------------------
(***************************************************************************)
(* Canonical events (core/src/event.rs) and their translation from NASDAQ  *)
(* ITCH 5.0 messages (replay/src/itch.rs), shared by every order book.     *)
(*                                                                         *)
(* A message keeps the fields that reach the event: its type letter, order *)
(* reference, side, share count and price.  Timestamps, instrument ids and *)
(* the byte layout are left out: no book operation reads them.             *)
(***************************************************************************)
EXTENDS Integers, FiniteSets

CONSTANTS
    OrderIds,   \* order reference numbers a feed may carry
    Prices,     \* price ticks a feed may carry
    MaxQty      \* bound on the share count of one message

ASSUME OrderIdsAssumption == IsFiniteSet(OrderIds)
ASSUME PricesAssumption == Prices \subseteq Nat \ {0}
ASSUME MaxQtyAssumption == MaxQty \in Nat \ {0}

Sides == {"Bid", "Ask"}

(* A side byte that Side::from_u8 rejects.                                 *)
BadSide == "Invalid"

EventTypes == {"OrderAdd", "OrderCancel", "OrderModify", "Trade", "BookSnapshot"}

(* The Event struct.  Prices and side are zeroed where a message has none. *)
Event ==
    [type : EventTypes, order_id : OrderIds, side : Sides \cup {BadSide},
     price : Prices \cup {0}, qty : Nat]

NoEvent == "None"

MkEvent(type, id, side, price, qty) ==
    [type |-> type, order_id |-> id, side |-> side, price |-> price, qty |-> qty]

(* dispatch: which event a message becomes.  D carries no quantity, which  *)
(* the books read as a full delete; E carries neither side nor price; U    *)
(* (order replace) and every administrative message yield no event.        *)
Dispatch(m) ==
    CASE m.kind \in {"A", "F"} ->
            MkEvent("OrderAdd", m.ref, m.side, m.price, m.shares)
      [] m.kind = "D" -> MkEvent("OrderCancel", m.ref, "Bid", 0, 0)
      [] m.kind = "X" -> MkEvent("OrderCancel", m.ref, "Bid", 0, m.shares)
      [] m.kind = "E" -> MkEvent("Trade", m.ref, "Bid", 0, m.shares)
      [] m.kind = "C" -> MkEvent("Trade", m.ref, "Bid", m.price, m.shares)
      [] m.kind = "P" -> MkEvent("Trade", m.ref, m.side, m.price, m.shares)
      [] OTHER -> NoEvent

(* The messages a feed may carry, each with the fields of its type.        *)
ItchMessage ==
    [kind : {"A", "P"}, ref : OrderIds, side : Sides, shares : 1..MaxQty, price : Prices]
    \cup [kind : {"C"}, ref : OrderIds, shares : 1..MaxQty, price : Prices]
    \cup [kind : {"X", "E"}, ref : OrderIds, shares : 1..MaxQty]
    \cup [kind : {"D"}, ref : OrderIds]

(* u64::saturating_sub and u64::min.                                       *)
SatSub(a, b) == IF a > b THEN a - b ELSE 0
Least(a, b) == IF a < b THEN a ELSE b

=============================================================================
