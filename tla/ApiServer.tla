------------------------------ MODULE ApiServer ------------------------------
(***************************************************************************)
(* The request handlers of api/server (server.go, recorder.go, stream.go)  *)
(* over the storm controller, the recorder and the synthetic feed.  Each   *)
(* request runs on a goroutine of its own; between two critical sections   *)
(* of a handler any other handler may run.                                 *)
(*                                                                         *)
(* The numbers of a synthetic tick are left out; what remains of the feed  *)
(* is its mutex, the storm a tick shows, and the gap counter and breaker   *)
(* latch, whose random causes are free choices.                            *)
(***************************************************************************)
EXTENDS Recorder

CONSTANTS
    Specs,        \* bodies of POST /storm/start: kind, severity, duration
    GapLimit,     \* 8 in the code
    MaxRequests   \* bound on the requests

ASSUME SpecAssumption == Specs \subseteq [kind : Kinds, severity : Int, duration : Nat]

ASSUME LimitAssumption == GapLimit \in Nat

VARIABLES
    pc, loc,         \* where each handler is and what it holds
    feedMu,          \* the goroutine inside SyntheticFeed.Next, or nobody
    gaps, halted,    \* the feed's gap counter and breaker latch
    requests,        \* requests so far
    answer,          \* the answer of a request, as long as nothing has changed since
    disturbed,       \* whether the state changed under a request in flight
    overlapped,      \* whether two storm requests were ever in flight together
    earned           \* gaps since the last reset

feedVars == <<feedMu, gaps, halted, earned>>
vars == <<ctlVars, now, recVars, pc, loc, feedVars, requests, answer, disturbed, overlapped>>

Init ==
    /\ CtlInit /\ RecInit
    /\ pc = [p \in Procs |-> "idle"]
    /\ loc = [p \in Procs |-> None]
    /\ feedMu = {} /\ gaps = 0 /\ halted = FALSE /\ earned = 0
    /\ requests = 0
    /\ answer = [p \in Procs |-> None]
    /\ disturbed = [p \in Procs |-> FALSE]
    /\ overlapped = FALSE

-----------------------------------------------------------------------------
(* What an answer is compared with: the storm and the run as they are.     *)
TheStorm ==
    IF Running
    THEN Some([kind |-> spec.kind, severity |-> spec.severity, started |-> startMs,
               expires |-> IF expMs > 0 THEN Some(expMs) ELSE None])
    ELSE None

TheTick == IF Running THEN <<spec.severity, spec.kind>> ELSE <<0, NoKind>>

TheRun == IF IsSome(run) THEN Some(run[1].id) ELSE None

View == <<TheStorm, TheRun>>

StormPcs == {"start_locked", "start_log", "stop_stop", "stop_log"}

InFlight(q) == pc[q] \in StormPcs

(* Process p goes to "to" with locals l, the others notice a change of the *)
(* view; "own" is what p makes of a disturbance so far.                    *)
Goto(p, to, l, own) ==
    /\ pc' = [pc EXCEPT ![p] = to]
    /\ loc' = [loc EXCEPT ![p] = l]
    /\ disturbed' = [q \in Procs |->
                        IF q = p THEN own ELSE pc[q] # "idle" /\ (disturbed[q] \/ View' # View)]
    /\ answer' = [q \in Procs |-> IF q = p \/ View' # View THEN None ELSE answer[q]]
    /\ UNCHANGED requests

(* Process p writes its response.                                          *)
Respond(p, a) ==
    /\ pc' = [pc EXCEPT ![p] = "idle"]
    /\ loc' = [loc EXCEPT ![p] = None]
    /\ disturbed' = [q \in Procs |-> q # p /\ pc[q] # "idle" /\ (disturbed[q] \/ View' # View)]
    /\ answer' = [q \in Procs |->
                    IF q = p THEN IF disturbed[p] THEN None ELSE a
                    ELSE IF View' # View THEN None ELSE answer[q]]
    /\ UNCHANGED requests

(* A request arrives; its first step follows at once.                      *)
Arrive(p) == pc[p] = "idle" /\ requests < MaxRequests

First(p, to, l) ==
    /\ pc' = [pc EXCEPT ![p] = to]
    /\ loc' = [loc EXCEPT ![p] = l]
    /\ disturbed' = [q \in Procs |-> q # p /\ pc[q] # "idle" /\ (disturbed[q] \/ View' # View)]
    /\ answer' = [q \in Procs |-> IF q = p \/ View' # View THEN None ELSE answer[q]]
    /\ requests' = requests + 1

-----------------------------------------------------------------------------
(* POST /storm/start: StormController.Start, LogStormStart, the response.  *)
StormStart(p, s) ==
    /\ Arrive(p)
    /\ StartLock(p, s)
    /\ UNCHANGED <<recVars, feedVars>>
    /\ First(p, "start_locked", None)
    /\ overlapped' = (overlapped \/ \E q \in Procs : InFlight(q))

(* The snapshot of Start is not checked against the expiry, which may have *)
(* passed already.                                                         *)
StormStarted(p) ==
    /\ pc[p] = "start_locked"
    /\ StartUnlock(p)
    /\ UNCHANGED <<recVars, feedVars, overlapped>>
    /\ Goto(p, "start_log", Some([snap |-> SnapshotLocked(active), kind |-> spec.kind, gen |-> starts]),
            ~Running')

StormStartLogged(p) ==
    /\ pc[p] = "start_log"
    /\ \E w \in Writes : LogStormStart(loc[p][1].kind, loc[p][1].gen, w)
    /\ UNCHANGED <<feedVars, overlapped>>
    /\ Goto(p, "encode_started", loc[p][1].snap, disturbed[p])

(* The encoder follows the pointers of an active snapshot one by one.      *)
EncodeStarted(p) ==
    LET s == loc[p][1]
        a == [kind |-> s.kind, severity |-> s.severity, started |-> startMs, expires |-> None]
    IN  /\ pc[p] = "encode_started"
        /\ UNCHANGED <<ctlVars, now, recVars, feedVars, overlapped>>
        /\ IF s.hasExpiry THEN Goto(p, "encode_expires", Some(a), disturbed[p])
           ELSE Respond(p, Some([storm |-> Some(a)]))

EncodeExpires(p) ==
    /\ pc[p] = "encode_expires"
    /\ UNCHANGED <<ctlVars, now, recVars, feedVars, overlapped>>
    /\ Respond(p, Some([storm |-> [loc[p] EXCEPT ![1].expires = Some(expMs)]]))

(* POST /storm/stop: ActiveKind, Stop, LogStormStop, an idle response.     *)
StormStop(p) ==
    /\ Arrive(p)
    /\ CheckExpiry
    /\ UNCHANGED <<recVars, feedVars>>
    /\ First(p, "stop_stop", Some([stopping |-> ActiveKind]))
    /\ overlapped' = (overlapped \/ \E q \in Procs : InFlight(q))

StormStopped(p) ==
    /\ pc[p] = "stop_stop"
    /\ Stop
    /\ UNCHANGED <<recVars, feedVars, overlapped>>
    /\ Goto(p, "stop_log", loc[p], FALSE)

StormStopLogged(p) ==
    /\ pc[p] = "stop_log"
    /\ \E w \in Writes : LogStormStop(loc[p][1].stopping, w)
    /\ UNCHANGED <<feedVars, overlapped>>
    /\ Respond(p, Some([storm |-> None]))

(* GET /storm/status.                                                      *)
StormStatus(p) ==
    /\ Arrive(p)
    /\ CheckExpiry
    /\ UNCHANGED <<recVars, feedVars, overlapped>>
    /\ IF Running THEN First(p, "encode_started", SnapshotLocked(TRUE))
       ELSE First(p, "encode_idle", None)

EncodeIdle(p) ==
    /\ pc[p] = "encode_idle"
    /\ UNCHANGED <<ctlVars, now, recVars, feedVars, overlapped>>
    /\ Respond(p, Some([storm |-> None]))

-----------------------------------------------------------------------------
(* POST /run/start, POST /run/stop, GET /run/status.                       *)
RunStartRequest(p) ==
    /\ Arrive(p)
    /\ \E a \in BotAnswers, opened \in BOOLEAN, w \in Writes : RunStart(a, opened, w)
    /\ UNCHANGED <<feedVars, overlapped>>
    /\ First(p, "idle", None)

RunStopRequest(p) ==
    /\ Arrive(p)
    /\ \E a \in BotAnswers, made \in Makings, w \in Writes : RunStop(a, made, w)
    /\ UNCHANGED <<feedVars, overlapped>>
    /\ First(p, "idle", None)

(* Active and CurrentID are two critical sections.                         *)
RunStatus(p) ==
    /\ Arrive(p)
    /\ UNCHANGED <<ctlVars, now, recVars, feedVars, overlapped>>
    /\ First(p, "run_id", Some([recording |-> IsSome(run)]))

RunStatusId(p) ==
    /\ pc[p] = "run_id"
    /\ UNCHANGED <<ctlVars, now, recVars, feedVars, overlapped>>
    /\ Respond(p, Some([status |-> <<loc[p][1].recording, TheRun>>]))

-----------------------------------------------------------------------------
(* One turn of handleStream.  Next holds the feed's mutex throughout and   *)
(* asks the controller twice.                                              *)
StreamTick(p) ==
    /\ Arrive(p)
    /\ feedMu = {}
    /\ CheckExpiry
    /\ feedMu' = {p}
    /\ UNCHANGED <<recVars, gaps, halted, earned, overlapped>>
    /\ First(p, "tick_kind", Some([storm_severity |-> ActiveSeverity]))

(* The second question, the gap counter (rarely, under stress) and the     *)
(* breaker, which latches in the extreme regime above the gap limit.       *)
TickKind(p) ==
    /\ pc[p] = "tick_kind"
    /\ CheckExpiry
    /\ \E gap \in {0, 1}, extreme \in BOOLEAN :
          /\ gaps' = gaps + gap
          /\ earned' = earned + gap
          /\ halted' = (halted \/ (extreme /\ gaps + gap > GapLimit))
    /\ feedMu' = feedMu \ {p}
    /\ UNCHANGED <<recVars, overlapped>>
    /\ Goto(p, "tick_log", Some([tick |-> <<loc[p][1].storm_severity, ActiveKind>>]), disturbed[p])

TickLogged(p) ==
    /\ pc[p] = "tick_log"
    /\ LogTick
    /\ UNCHANGED <<feedVars, overlapped>>
    /\ Respond(p, loc[p])

(* Faulty variant: the counter survives the reset.                         *)
ResetGapsNot == gaps

ResetGaps == 0

(* POST /reset.                                                            *)
Reset(p) ==
    /\ Arrive(p)
    /\ feedMu = {}
    /\ halted' = FALSE
    /\ gaps' = ResetGaps
    /\ earned' = 0
    /\ UNCHANGED <<ctlVars, now, recVars, feedMu, overlapped>>
    /\ First(p, "idle", None)

TimePasses ==
    /\ Clock
    /\ UNCHANGED <<recVars, pc, loc, feedVars, requests, overlapped>>
    /\ disturbed' = [q \in Procs |-> pc[q] # "idle" /\ (disturbed[q] \/ View' # View)]
    /\ answer' = [q \in Procs |-> IF View' # View THEN None ELSE answer[q]]

-----------------------------------------------------------------------------
(* A handler that has started goes on.                                     *)
Step(p) ==
    \/ StormStarted(p)
    \/ StormStartLogged(p)
    \/ EncodeStarted(p)
    \/ EncodeExpires(p)
    \/ StormStopped(p)
    \/ StormStopLogged(p)
    \/ EncodeIdle(p)
    \/ RunStatusId(p)
    \/ TickKind(p)
    \/ TickLogged(p)

Request(p) ==
    \/ \E s \in Specs : StormStart(p, s)
    \/ StormStop(p)
    \/ StormStatus(p)
    \/ RunStartRequest(p)
    \/ RunStopRequest(p)
    \/ RunStatus(p)
    \/ StreamTick(p)
    \/ Reset(p)

Next ==
    \/ \E p \in Procs : Request(p)
    \/ \E p \in Procs : Step(p)
    \/ TimePasses

Spec == Init /\ [][Next]_vars

(* The runtime schedules every goroutine, a mutex that is free again goes  *)
(* to a waiter, and the call to the bot has a timeout.                     *)
FairSpec == Spec /\ \A p \in Procs : WF_vars(Step(p))

-----------------------------------------------------------------------------
(* api/server: the fields of the controller, the recorder and the feed;    *)
(* "severity [0.0, 1.0]" of storm.go holds for what the controller runs.   *)
ApiTypeOK ==
    /\ mu \subseteq Procs /\ feedMu \subseteq Procs
    /\ now \in 1..MaxTime
    /\ spec.kind \in Kinds \cup {NoKind} /\ spec.severity \in 0..1
    /\ startMs \in 0..MaxTime /\ expMs \in Int
    /\ active => starts > 0
    /\ \A p \in Procs : pc[p] = "start_locked" => mu = {p}

(* server.go, storm.go, recorder.go, stream.go: an answer is put together  *)
(* from several critical sections, and the times of a snapshot are read    *)
(* after the mutex is gone.  If nothing changed meanwhile (no start, stop, *)
(* deadline, or run) every answer shows the storm and the run as they are, *)
(* an expired storm that nobody has looked at included.                    *)
AnswersExact ==
    \A p \in Procs : IsSome(answer[p]) =>
        answer[p][1] \in {[storm |-> TheStorm], [status |-> <<IsSome(TheRun), TheRun>>],
                          [tick |-> TheTick]}

(* server.go handleStormStart tells the controller and then the recorder.  *)
(* While storm requests come one at a time, and between them, the last     *)
(* record of a run is the storm that was started last, whatever the run    *)
(* requests and the ticks in between did.                                  *)
LastRecordIsTheStorm ==
    (~overlapped /\ IsSome(run) /\ \A q \in Procs : ~InFlight(q)) =>
        LET s == run[1].storms
        IN  s # <<>> => s[Len(s)].gen = starts

(* recorder.go LogStormStop "closes the most recent storm record": while   *)
(* storm requests come one at a time, a stop that found a storm running    *)
(* closes a record of that storm's kind.                                   *)
StopClosesOwnRecord ==
    (~overlapped /\ IsSome(run)) =>
        \A i \in DOMAIN run[1].storms :
            run[1].storms[i].closers \subseteq {NoKind, run[1].storms[i].kind}

(* feed.go: Reset clears the latch and its cause; the breaker latches      *)
(* again only after more than GapLimit new gaps.                           *)
HaltEarned == halted => earned > GapLimit

(* Every request is answered: no handler keeps a mutex.                    *)
RequestsAnswered == \A p \in Procs : (pc[p] # "idle") ~> (pc[p] = "idle")

(* server.go, feed.go: what the API reports is the case, and its breaker   *)
(* has a cause that no reset has cleared.                                  *)
AnswersEarned == AnswersExact /\ HaltEarned

(* storm.go, recorder.go: controller and recorder stay together while      *)
(* storm requests come one at a time, whatever else is in flight.          *)
RecordsFollowStorms == ApiTypeOK /\ LastRecordIsTheStorm /\ StopClosesOwnRecord

=============================================================================
