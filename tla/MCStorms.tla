------------------------------ MODULE MCStorms ------------------------------
(* Model-checking instance of StormOrchestrator: every kind of storm, both *)
(* severities, short and long, against detectors with the tuning of        *)
(* ChaosChain::default_itch (the cancellation storm's scaled down with its *)
(* generator).                                                             *)
EXTENDS StormOrchestrator

MCSeeds ==
    {<<[bid |-> TRUE, high |-> FALSE, pct |-> 10], [bid |-> FALSE, high |-> TRUE, pct |-> 99]>>,
     <<[bid |-> FALSE, high |-> FALSE, pct |-> 2]>>}

MCSpecs == [kind : Kinds, severity : {0, 1}, duration : {10000000}, seed : MCSeeds]
           \cup [kind : Kinds, severity : {0}, duration : {50000000},
                 seed : {<<[bid |-> TRUE, high |-> TRUE, pct |-> 50]>>}]

=============================================================================
