------------------------- MODULE StormOrchestrator --------------------------
(***************************************************************************)
(* The storm orchestrator of chaos/src/storm.rs over its generators, in a  *)
(* closed loop with the detector chain: a poll appends the events that are *)
(* due to a queue, and the chain takes them one by one.                    *)
(*                                                                         *)
(* The caller polls with a clock that advances by a fixed step, and passes *)
(* the sequence number after the last event as base_seq.                   *)
(***************************************************************************)
EXTENDS ChaosChain, StormGenerators

CONSTANTS
    Specs,       \* the StormSpec records a caller may start: kind, severity, duration, seed
    PollPeriod,  \* nanoseconds between polls
    MaxSteps,    \* generator steps of one poll, 32 in the code
    MaxStarts    \* bound on the storms started

VARIABLES
    active,    \* None, or the running storm: spec, start, expiry, restarts, generator
    now,       \* the caller's clock
    last_seq,  \* the last sequence number handed out
    feed,      \* events that the chain has not seen yet
    starts     \* storms started

orchVars == <<detectorVars, active, now, last_seq, feed, starts>>

OrchInit ==
    /\ DetectorsInit
    /\ active = None
    /\ now = 0
    /\ last_seq = 0
    /\ feed = <<>>
    /\ starts = 0

(* start: replaces whatever runs.                                          *)
Start(spec) ==
    /\ starts < MaxStarts
    /\ feed = <<>>
    /\ active' = Some([spec |-> spec, started_at |-> now, expires_at |-> now + spec.duration,
                       restarts |-> 0, gen |-> NewGenerator(spec)])
    /\ starts' = starts + 1
    /\ UNCHANGED <<detectorVars, now, last_seq, feed>>

Stop ==
    /\ IsSome(active) /\ feed = <<>>
    /\ active' = None
    /\ UNCHANGED <<detectorVars, now, last_seq, feed, starts>>

HasExpired(at) == at >= active[1].expires_at

(* Faulty variant: a restart also renews the storm's lease.                *)
RestartedRenewed(a, at) ==
    [a EXCEPT !.restarts = @ + 1, !.gen = NewGenerator(a.spec), !.expires_at = at + a.spec.duration]

(* A finished generator is replaced by a new one, which is due at once.    *)
Restarted(a, at) == [a EXCEPT !.restarts = @ + 1, !.gen = NewGenerator(a.spec)]

(* Faulty variant: every step of a poll starts at the same base_seq.       *)
NextBaseStuck(base, out) == base

(* The base of the next step: after the highest number of the batch.       *)
NextBase(base, out) == IF out = <<>> THEN base ELSE out[Len(out)].seq + 1

(* One turn of the loop in poll: restart, leave, or step.                  *)
Turn(acc, at, r) ==
    LET g == acc.storm.gen
        s == Step(g, r, at, acc.base)
    IN  IF acc.done THEN acc
        ELSE IF Finished(g) THEN [acc EXCEPT !.storm = Restarted(@, at)]
        ELSE IF g.next_due > at THEN [acc EXCEPT !.done = TRUE]
        ELSE [acc EXCEPT !.storm.gen = s.gen, !.out = @ \o s.out,
                         !.base = NextBase(@, s.out), !.steps = @ + 1,
                         !.done = acc.steps + 1 >= MaxSteps]

(* The loop of poll: it runs until nothing is due or the limit is reached  *)
(* (a restart is not a step).                                              *)
RunDue(a, at, base) ==
    LET turn(acc, k) == Turn(acc, at, a.spec.seed)
    IN  FoldLeft(turn, [storm |-> a, out |-> <<>>, base |-> base, steps |-> 0, done |-> FALSE],
                 [k \in 1..(2 * MaxSteps) |-> k])

(* poll: an expired storm stops; otherwise what is due is written.         *)
Poll ==
    LET at == now + PollPeriod
    IN  /\ IsSome(active) /\ feed = <<>>
        /\ now' = at
        /\ \/ /\ HasExpired(at)
              /\ active' = None
              /\ UNCHANGED <<last_seq, feed>>
           \/ /\ ~HasExpired(at)
              /\ \E end \in {RunDue(active[1], at, last_seq + 1)} :
                    /\ active' = Some(end.storm)
                    /\ feed' = end.out
                    /\ last_seq' = end.base - 1
        /\ UNCHANGED <<detectorVars, starts>>

Deliver ==
    /\ feed # <<>>
    /\ ProcessInto(Head(feed))
    /\ feed' = Tail(feed)
    /\ UNCHANGED <<active, now, last_seq, starts>>

OrchNext ==
    \/ \E spec \in Specs : Start(spec)
    \/ Stop
    \/ Poll
    \/ Deliver

OrchSpec == OrchInit /\ [][OrchNext]_orchVars

-----------------------------------------------------------------------------
(* The generator has written its pattern at least once: one step, or for   *)
(* the momentum walk the whole way to its target.                          *)
PatternWritten(g) ==
    g.next_due > 0 /\ (g.kind = "MomentumIgnition" => BpsUp(g) >= Lerp(g.severity, 8, 40))

(* generators.rs: each stream "fed into its matching *Detector, fires the  *)
(* corresponding ChaosKind", whatever the random draws: when a first       *)
(* storm's generator has written its pattern and the chain has seen it,    *)
(* its kind has been counted.  (The cancellation storm is a matter of      *)
(* probabilities and thousands of events, and is not claimed.)             *)
ClosedLoop ==
    (IsSome(active) /\ starts = 1 /\ feed = <<>>) =>
        LET a == active[1]
        IN  (a.spec.kind # "CancellationStorm" /\ PatternWritten(a.gen)) => counts[a.spec.kind] > 0

(* The trait StormGenerator and storm.rs hand base_seq from step to step,  *)
(* across restarts and the jump of the cancellation storm: what the chain  *)
(* is fed has strictly increasing sequence numbers, up to last_seq.        *)
SeqsIncrease ==
    feed # <<>> =>
        /\ \A i \in 1..(Len(feed) - 1) : feed[i].seq < feed[i + 1].seq
        /\ feed[Len(feed)].seq <= last_seq

(* storm.rs restarts a generator that runs dry so that the storm "keeps    *)
(* alive until ttl": and no longer, however often it restarts and however  *)
(* late the polls come.                                                    *)
StormOnTime == IsSome(active) => now < active[1].started_at + active[1].spec.duration

(* storm.rs, generators.rs: what an orchestrated storm feeds to the chain  *)
(* is in sequence and shows the pattern it was started for.                *)
StormSound == ClosedLoop /\ SeqsIncrease

=============================================================================
