------------------------------- MODULE HotLanes -------------------------------
(***************************************************************************)
(* apply_lanes of core/src/hot_book.rs against the serial apply loop.  A   *)
(* batch of events grows one conformant event at a time on top of a book   *)
(* some earlier batches have left; hot is what the serial loop makes of    *)
(* it, ApplyLanes(base, batch) what the lanes would.                       *)
(***************************************************************************)
EXTENDS HotOrderBook

CONSTANTS
    MaxBatch,      \* bound on the events of one batch
    AllowModify    \* whether the input holds modifies

ASSUME LanesAssumption == MaxBatch \in Nat /\ AllowModify \in BOOLEAN

VARIABLES
    base,   \* the book before the batch
    batch,  \* the events of the batch so far
    used    \* ids some add has already carried

lanesVars == <<hot, base, batch, used>>

LanesInit ==
    /\ HotInit
    /\ base = NewHotBook
    /\ batch = <<>>
    /\ used = {}

(* "ITCH-conformant input: unique oids per ADD, CANCEL/TRADE never         *)
(* precedes its ADD, MODIFY references a live oid."                        *)
ConformantEvent(e) ==
    CASE e.type = "OrderAdd" -> e.order_id \notin used
      [] e.type \in {"OrderCancel", "Trade"} -> e.order_id \in used
      [] e.type = "OrderModify" ->
            /\ OrderOf(hot, e.order_id) # NoOrder
            /\ e.qty >= OrderOf(hot, e.order_id).qty

(* C and P reach trade with an order id exactly as E does.  Modifies do    *)
(* not reduce their order (see OrderBook).                                 *)
LaneEvents ==
    {Dispatch(m) : m \in {msg \in ItchMessage : msg.kind \in {"A", "D", "X", "E"}}}
    \cup IF ~AllowModify THEN {}
         ELSE {MkEvent("OrderModify", id, side, price, qty) :
                  id \in OrderIds, side \in Sides, price \in Prices, qty \in 1..MaxQty}

BatchEvent ==
    \E e \in LaneEvents :
        /\ Len(batch) < MaxBatch
        /\ ConformantEvent(e)
        /\ hot' = HotApply(hot, e)
        /\ batch' = Append(batch, e)
        /\ used' = used \cup {e.order_id}
        /\ UNCHANGED base

(* The batch ends; the next one starts from the book it left.              *)
NextBatch ==
    /\ batch # <<>>
    /\ base' = hot
    /\ batch' = <<>>
    /\ UNCHANGED <<hot, used>>

LanesNext == BatchEvent \/ NextBatch

LanesSpec == LanesInit /\ [][LanesNext]_lanesVars

-----------------------------------------------------------------------------
(* Properties.                                                             *)

(* "Final post-batch state matches the interleaved apply loop on any       *)
(* ITCH-conformant input": the same levels and the same live orders, with  *)
(* the trades and cancels of one order overtaking each other.  It holds of *)
(* batches without modifies on a side with room for every price.           *)
LanesMatchSerial ==
    LET lanes == ApplyLanes(base, batch)
    IN  /\ lanes.grid = hot.grid
        /\ \A id \in OrderIds : OrderOf(lanes, id) = OrderOf(hot, id)

=============================================================================
