----------------------------- MODULE ChaosChain -----------------------------
(***************************************************************************)
(* The detector chain (chaos/src/chain.rs): every event goes through seven *)
(* independent detectors, in a fixed order that decides the order of the   *)
(* flags; and the clusterer (chaos/src/clustering.rs) that turns the flags *)
(* into episodes.                                                          *)
(***************************************************************************)
EXTENDS FlashCrash, MomentumIgnition, LatencyArbProxy, CancellationStorm, OrderPatterns

CONSTANTS ClusterGap, ClusterTimeGap   \* 0 disables a window

VARIABLES
    counts,    \* flags per kind
    log        \* every flag returned so far

detectorVars == <<crash, ign, arb, storm, quote, spoof, phantom, counts, log>>

Kinds == {"QuoteStuff", "Spoof", "PhantomLiquidity", "CancellationStorm",
          "MomentumIgnition", "FlashCrash", "LatencyArbitrage"}

DetectorsInit ==
    /\ QuoteInit /\ SpoofInit /\ PhantomInit /\ StormInit /\ IgnInit /\ CrashInit /\ ArbInit
    /\ counts = [k \in Kinds |-> 0]
    /\ log = <<>>

(* process_into, with bump.                                                *)
ProcessInto(e) ==
    /\ QuoteProcess(e)
    /\ SpoofProcess(e)
    /\ PhantomProcess(e)
    /\ StormProcess(e)
    /\ IgnProcess(e)
    /\ CrashProcess(e)
    /\ ArbProcess(e)
    /\ LET out == quote'.flag \o spoof'.flag \o phantom'.flag \o storm'.flag
                  \o ign'.flag \o crash'.flag \o arb'.flag
       IN  /\ log' = log \o out
           /\ counts' = [k \in Kinds |->
                counts[k] + Cardinality({i \in DOMAIN out : out[i].kind = k})]

-----------------------------------------------------------------------------
(* ChaosClusterer.                                                         *)

FromEvent(f) ==
    [start_seq |-> f.start_seq, end_seq |-> f.end_seq, end_ts |-> f.end_ts,
     kind |-> f.kind, initiator |-> f.initiator, events |-> <<f>>]

Greater(a, b) == IF a > b THEN a ELSE b

Absorb(c, f) ==
    [c EXCEPT !.end_seq = Greater(@, f.end_seq), !.end_ts = Greater(@, f.end_ts),
              !.events = Append(@, f)]

Close(c, f) ==
    \/ ClusterGap > 0 /\ f.start_seq <= c.end_seq + ClusterGap
    \/ ClusterTimeGap > 0 /\ f.start_ts <= c.end_ts + ClusterTimeGap

PriceMove == {"FlashCrash", "MomentumIgnition"}

(* Faulty variant: two flags of one kind merge whoever started them.       *)
ShouldMergeAnyActor(c, f) ==
    Close(c, f) /\ (f.kind = c.kind \/ {f.kind, c.kind} = PriceMove)

ShouldMerge(c, f) ==
    /\ Close(c, f)
    /\ \/ {f.kind, c.kind} = PriceMove
       \/ f.kind = c.kind /\ IsSome(f.initiator) /\ f.initiator = c.initiator

(* sort_by_key is stable.                                                  *)
SortedFlags(flags) ==
    LET before(i, j) == \/ flags[i].start_seq < flags[j].start_seq
                        \/ flags[i].start_seq = flags[j].start_seq /\ i < j
        order == SortSeq([i \in DOMAIN flags |-> i], before)
    IN  [i \in DOMAIN flags |-> flags[order[i]]]

(* The last cluster is the open one.                                       *)
Extend(cs, f) ==
    IF cs # <<>> /\ ShouldMerge(cs[Len(cs)], f)
    THEN [cs EXCEPT ![Len(cs)] = Absorb(@, f)]
    ELSE Append(cs, FromEvent(f))

Cluster(flags) == FoldLeft(Extend, <<>>, SortedFlags(flags))

-----------------------------------------------------------------------------
(* Two flags of one kind are at least its cooldown apart.                  *)
KindSpaced(kind, cooldown) ==
    \A i, j \in DOMAIN log :
        (i < j /\ log[i].kind = kind /\ log[j].kind = kind) =>
            log[j].end_seq - log[i].end_seq >= cooldown

(* momentum_ignition.rs, flash_crash.rs and cancellation_storm.rs stay     *)
(* silent for the cooldown "after a flag", over every interleaving of      *)
(* order flow.                                                             *)
FlagsSpaced ==
    /\ KindSpaced("MomentumIgnition", IgnCooldown)
    /\ KindSpaced("FlashCrash", CrashCooldown)
    /\ KindSpaced("CancellationStorm", StormCooldown)

(* latency_arb_proxy.rs: "Refractory in seq numbers after a flag", and its *)
(* test: "two qualifying patterns back-to-back -> only first".  Not true   *)
(* of the code.                                                            *)
ArbSpaced == KindSpaced("LatencyArbitrage", ArbCooldown)

(* What the refractory of latency_arb_proxy.rs does: it seeds no trigger,  *)
(* so a print that falls into the cooldown after a flag is never reported, *)
(* however late its burst comes.                                           *)
NoPrintInRefractory ==
    \A i, j \in DOMAIN log :
        (i < j /\ log[i].kind = "LatencyArbitrage" /\ log[j].kind = "LatencyArbitrage")
            => \/ log[j].start_seq <= log[i].end_seq
               \/ log[j].start_seq >= log[i].end_seq + ArbCooldown

(* latency_arb_proxy.rs drops a trigger when it flags: a print is reported *)
(* at most once, although later events keep satisfying its conditions.     *)
OneFlagPerPrint ==
    \A i, j \in DOMAIN log :
        (i # j /\ log[i].kind = "LatencyArbitrage" /\ log[j].kind = "LatencyArbitrage")
            => log[i].start_seq # log[j].start_seq

(* The merge policy of clustering.rs, over episodes rather than pairs: two *)
(* flags of one episode share a kind and a known initiator, or both belong *)
(* to the price move of a crash and an ignition; and an episode spans its  *)
(* flags.                                                                  *)
EpisodesPure ==
    LET cs == Cluster(log)
    IN  \A c \in DOMAIN cs : \A i, j \in DOMAIN cs[c].events :
            LET f == cs[c].events[i]
                g == cs[c].events[j]
            IN  /\ i # j => \/ {f.kind, g.kind} \subseteq PriceMove
                            \/ f.kind = g.kind /\ f.initiator = g.initiator /\ IsSome(f.initiator)
                /\ cs[c].start_seq <= f.start_seq /\ f.end_seq <= cs[c].end_seq

=============================================================================
