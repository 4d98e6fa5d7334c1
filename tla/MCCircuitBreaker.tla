------------------------- MODULE MCCircuitBreaker -------------------------
(***************************************************************************)
(* Two senders with orders on both sides, and limits small enough that     *)
(* every guard trips.  The guards are enabled apart from each other,       *)
(* so that one does not hide what another lets through.                    *)
(***************************************************************************)
EXTENDS CircuitBreaker, TLC

CONSTANTS s1, s2

MCSenders == {s1, s2}
MCIntents == {1, -1}
MCPrices == {1, 2}
MCConfigs == {{"rate"}, {"gap"}, {"position"}, {"loss"}, {"ratio"}}
SenderSymmetry == Permutations(MCSenders)
=============================================================================
