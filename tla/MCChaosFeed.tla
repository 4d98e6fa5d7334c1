---------------------------- MODULE MCChaosFeed ----------------------------
(* Model-checking instance of ChaosFeed: a bid and two asks open the       *)
(* market, a second order may join the first bid's level, and two more may *)
(* step in front of it, which makes one bid level more than a mini-book    *)
(* keeps.                                                                  *)
EXTENDS ChaosFeed

ListedOrder(side, price, qty) == [side |-> side, price |-> price, qty |-> qty]

MCListing ==
    <<ListedOrder("Bid", 100, 2), ListedOrder("Ask", 102, 2), ListedOrder("Ask", 110, 2),
      ListedOrder("Bid", 100, 1), ListedOrder("Bid", 108, 1), ListedOrder("Bid", 104, 1)>>

MCOpening == <<1, 2, 3>>

=============================================================================
