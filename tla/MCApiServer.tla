---------------------------- MODULE MCApiServer ----------------------------
(* Model-checking instance of ApiServer: two goroutines, storms of one     *)
(* millisecond and storms whose duration wraps a small word: started at 1  *)
(* they never expire, started at 2 they have expired already.              *)
EXTENDS ApiServer

MCSpecs ==
    {[kind |-> "FlashCrash", severity |-> 2, duration |-> 1],
     [kind |-> "PhantomLiquidity", severity |-> -1, duration |-> 15]}

(* A bot in debt: one that is silent at one end gives a delta of -100,     *)
(* which is the kill threshold, or of 100.                                 *)
MCEquities == {-100}

(* The newline fails, and two events come to stand on one line.            *)
MCBadWrites == {[body |-> "whole", newline |-> FALSE]}

MCDamaged == -10
MCKilled == -100

=============================================================================
