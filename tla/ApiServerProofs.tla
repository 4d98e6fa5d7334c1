--------------------------- MODULE ApiServerProofs ---------------------------
(***************************************************************************)
(* Proofs about the request handlers, for every number of goroutines,      *)
(* every set of storm bodies, every word width and any number of requests: *)
(* the records of a run follow the storms, an answer that nothing          *)
(* disturbed shows the storm and the run as they are, and the files of the *)
(* runs agree with each other.                                             *)
(*                                                                         *)
(* Four inductive invariants.  Kept types the state and says who holds the *)
(* controller's mutex; Followed says what the last record of a run is      *)
(* unless a start is between the controller and the recorder; Shown says,  *)
(* for every place in a handler, how what it holds relates to the view;    *)
(* Archived says of every event file how many runs are open at each line,  *)
(* and where the run begins that is being counted.                         *)
(***************************************************************************)
EXTENDS ApiServer, FiniteSetTheorems, SequenceTheorems, TLAPS

Pcs == {"idle", "start_locked", "start_log", "encode_started", "encode_expires", "stop_stop",
        "stop_log", "encode_idle", "run_id", "tick_kind", "tick_log"}

Names == Kinds \cup {NoKind}

StormRecords == [kind : Names, gen : Nat, closers : SUBSET Names]

IsRun(r) ==
    /\ r = [id |-> r.id, storms |-> r.storms, lastTick |-> r.lastTick, ticks |-> r.ticks,
            startEquity |-> r.startEquity, answered |-> r.answered]
    /\ r.storms \in Seq(StormRecords) /\ r.startEquity \in Int
    /\ ~r.answered => r.startEquity = 0

CtlTyped ==
    /\ mu \in SUBSET Procs /\ now \in 1..MaxTime /\ active \in BOOLEAN
    /\ spec \in [kind : Names, severity : 0..1, duration : Nat]
    /\ startMs \in 0..MaxTime /\ expMs \in Int /\ starts \in Nat
    /\ active => starts > 0
    /\ mu # {} => active

FeedTyped ==
    /\ feedMu \in SUBSET Procs /\ gaps \in Nat /\ earned = gaps /\ halted \in BOOLEAN
    /\ halted => gaps > GapLimit

RunTyped == IsSome(run) => run = Some(run[1]) /\ IsRun(run[1])

ProcsTyped ==
    /\ pc \in [Procs -> Pcs] /\ DOMAIN loc = Procs /\ disturbed \in [Procs -> BOOLEAN]
    /\ overlapped \in BOOLEAN

Holding ==
    \A p \in Procs :
        /\ pc[p] = "start_locked" => mu = {p}
        /\ pc[p] = "start_log" => loc[p][1].kind \in Names /\ loc[p][1].gen \in Nat
        /\ pc[p] \in {"stop_stop", "stop_log"} => loc[p][1].stopping \in Names

Kept == CtlTyped /\ FeedTyped /\ RunTyped /\ ProcsTyped /\ Holding

-----------------------------------------------------------------------------
(* Values.                                                                 *)

LEMMA SignedType == ASSUME NEW x \in Int PROVE Signed(x) \in Int
<1> DEFINE m == 2^Bits
<1>1. m \in Nat \ {0}
  BY WordAssumption
<1> HIDE DEF m
<1>2. x % m \in 0..(m - 1) /\ m \div 2 \in Nat
  BY <1>1
<1>3. (IF x % m >= m \div 2 THEN (x % m) - m ELSE x % m) \in Int
  BY <1>1, <1>2
<1> QED
  BY <1>3 DEF Signed, m

LEMMA Options == ASSUME NEW x PROVE IsSome(Some(x)) /\ Some(x)[1] = x /\ ~IsSome(None)
BY DEF Some, None, IsSome

LEMMA ClampedType ==
    ASSUME NEW s \in Specs PROVE Clamped(s) \in [kind : Names, severity : 0..1, duration : Nat]
<1>1. s \in [kind : Kinds, severity : Int, duration : Nat]
  BY SpecAssumption
<1> QED
  BY <1>1 DEF Clamped, Names

LEMMA OptionReplaced == ASSUME NEW x, NEW y PROVE [Some(x) EXCEPT ![1] = y] = Some(y)
<1>1. [<<x>> EXCEPT ![1] = y] = <<y>>
  OBVIOUS
<1> QED
  BY <1>1 DEF Some

(* The storms of a run are replaced.                                       *)
Restormed(r, storms) ==
    [id |-> r.id, storms |-> storms, lastTick |-> r.lastTick, ticks |-> r.ticks,
     startEquity |-> r.startEquity, answered |-> r.answered]

LEMMA RunRestormed ==
    ASSUME NEW o, o = Some(o[1]), IsRun(o[1]), NEW storms \in Seq(StormRecords)
    PROVE  LET n == [o EXCEPT ![1].storms = storms]
           IN  /\ IsSome(n) /\ n = Some(n[1]) /\ IsRun(n[1]) /\ n[1].id = o[1].id
               /\ n[1].storms = storms
<1> DEFINE r == o[1]
           u == Restormed(r, storms)
<1>1. [r EXCEPT !.storms = storms] = u
  <2>1. r = [id |-> r.id, storms |-> r.storms, lastTick |-> r.lastTick, ticks |-> r.ticks,
             startEquity |-> r.startEquity, answered |-> r.answered]
    BY DEF IsRun
  <2> HIDE DEF r
  <2> QED
    BY ONLY <2>1 DEF Restormed
<1>2. [o EXCEPT ![1].storms = storms] = [o EXCEPT ![1] = [r EXCEPT !.storms = storms]]
  OBVIOUS
<1>3. [Some(r) EXCEPT ![1] = u] = Some(u)
  BY OptionReplaced
<1>4. [o EXCEPT ![1].storms = storms] = Some(u)
  BY <1>1, <1>2, <1>3
<1>5. u.id = r.id /\ u.storms = storms
  BY DEF Restormed
<1>6. IsRun(u)
  BY DEF IsRun, Restormed
<1> HIDE DEF u
<1>7. IsSome(Some(u)) /\ Some(u)[1] = u
  BY Options
<1> QED
  BY <1>4, <1>5, <1>6, <1>7

-----------------------------------------------------------------------------
(* What the recorder's calls do to the run.                                *)

SameRun == IsSome(run') = IsSome(run) /\ (IsSome(run) => run'[1].id = run[1].id)

LEMMA StartLogged ==
    ASSUME RunTyped, NEW kind \in Names, NEW gen \in Nat, NEW w, LogStormStart(kind, gen, w)
    PROVE  /\ RunTyped' /\ SameRun
           /\ IsSome(run) =>
                run'[1].storms = Append(run[1].storms, [kind |-> kind, gen |-> gen, closers |-> {}])
<1>1. CASE ~IsSome(run)
  <2>1. run' = run
    BY <1>1 DEF LogStormStart, recVars
  <2> QED
    BY <1>1, <2>1 DEF RunTyped, SameRun
<1>2. CASE IsSome(run)
  <2> DEFINE storms == Append(run[1].storms, [kind |-> kind, gen |-> gen, closers |-> {}])
             n == [run EXCEPT ![1].storms = storms]
  <2>1. run' = n
    BY <1>2 DEF LogStormStart
  <2>2. run = Some(run[1]) /\ IsRun(run[1])
    BY <1>2 DEF RunTyped
  <2>3. storms \in Seq(StormRecords)
    <3>1. run[1].storms \in Seq(StormRecords)
      BY <2>2 DEF IsRun
    <3>2. [kind |-> kind, gen |-> gen, closers |-> {}] \in StormRecords
      BY DEF StormRecords
    <3> QED
      BY <3>1, <3>2
  <2> HIDE DEF storms
  <2>4. /\ IsSome(n) /\ n = Some(n[1]) /\ IsRun(n[1]) /\ n[1].id = run[1].id
        /\ n[1].storms = storms
    BY <2>2, <2>3, RunRestormed
  <2> HIDE DEF n
  <2> QED
    BY <1>2, <2>1, <2>4 DEF RunTyped, SameRun, storms
<1> QED
  BY <1>1, <1>2

Closed(storms, kind) == [storms EXCEPT ![Len(storms)].closers = @ \cup {kind}]

LEMMA ClosedFacts ==
    ASSUME NEW storms \in Seq(StormRecords), storms # <<>>, NEW kind \in Names
    PROVE  /\ Closed(storms, kind) \in Seq(StormRecords) /\ Len(Closed(storms, kind)) = Len(storms)
           /\ \A i \in 1..Len(storms) :
                /\ Closed(storms, kind)[i].kind = storms[i].kind
                /\ Closed(storms, kind)[i].gen = storms[i].gen
                /\ Closed(storms, kind)[i].closers
                     = IF i = Len(storms) THEN storms[i].closers \cup {kind} ELSE storms[i].closers
<1> DEFINE n == Len(storms)
           c == [storms[n] EXCEPT !.closers = @ \cup {kind}]
<1>1. n \in Nat /\ n \in 1..n /\ DOMAIN storms = 1..n /\ \A i \in 1..n : storms[i] \in StormRecords
  BY EmptySeq, LenProperties, ElementOfSeq
<1>2. /\ c \in StormRecords /\ c.kind = storms[n].kind /\ c.gen = storms[n].gen
      /\ c.closers = storms[n].closers \cup {kind}
  BY <1>1 DEF StormRecords
<1>3. Closed(storms, kind) = [storms EXCEPT ![n] = c]
  BY DEF Closed
<1> HIDE DEF c
<1>4. [storms EXCEPT ![n] = c] \in Seq(StormRecords) /\ Len([storms EXCEPT ![n] = c]) = n
  BY <1>1, <1>2, ExceptSeq
<1>5. \A i \in 1..n : [storms EXCEPT ![n] = c][i] = IF i = n THEN c ELSE storms[i]
  BY <1>1
<1> QED
  BY <1>2, <1>3, <1>4, <1>5

LEMMA StopLogged ==
    ASSUME RunTyped, NEW kind \in Names, NEW w, LogStormStop(kind, w)
    PROVE  /\ RunTyped' /\ SameRun
           /\ IsSome(run) =>
                run'[1].storms = IF run[1].storms = <<>> THEN <<>> ELSE Closed(run[1].storms, kind)
<1>1. CASE ~IsSome(run) \/ run[1].storms = <<>>
  <2>1. run' = run
    BY <1>1 DEF LogStormStop, recVars
  <2> QED
    BY <1>1, <2>1 DEF RunTyped, SameRun
<1>2. CASE IsSome(run) /\ run[1].storms # <<>>
  <2> DEFINE storms == Closed(run[1].storms, kind)
             n == [run EXCEPT ![1].storms = storms]
  <2>1. run' = n
    BY <1>2 DEF LogStormStop, MostRecent, Closed
  <2>2. run = Some(run[1]) /\ IsRun(run[1])
    BY <1>2 DEF RunTyped
  <2>3. storms \in Seq(StormRecords)
    BY <1>2, <2>2, ClosedFacts DEF IsRun
  <2> HIDE DEF storms
  <2>4. /\ IsSome(n) /\ n = Some(n[1]) /\ IsRun(n[1]) /\ n[1].id = run[1].id
        /\ n[1].storms = storms
    BY <2>2, <2>3, RunRestormed
  <2> HIDE DEF n
  <2> QED
    BY <1>2, <2>1, <2>4 DEF RunTyped, SameRun, storms
<1> QED
  BY <1>1, <1>2

LEMMA TickLoggedRun ==
    ASSUME RunTyped, LogTick
    PROVE  RunTyped' /\ SameRun /\ (IsSome(run) => run'[1].storms = run[1].storms)
<1>1. CASE run' = run
  BY <1>1 DEF RunTyped, SameRun
<1>2. CASE run' # run
  <2> DEFINE r == run[1]
             u == [id |-> r.id, storms |-> r.storms, lastTick |-> Some(now), ticks |-> r.ticks + 1,
                   startEquity |-> r.startEquity, answered |-> r.answered]
  <2>1. IsSome(run) /\ run' = [run EXCEPT ![1].lastTick = Some(now), ![1].ticks = @ + 1]
    BY <1>2 DEF LogTick
  <2>2. run = Some(r) /\ IsRun(r)
    BY <2>1 DEF RunTyped
  <2>3. [[r EXCEPT !.lastTick = Some(now)] EXCEPT !.ticks = r.ticks + 1] = u
    <3>1. r = [id |-> r.id, storms |-> r.storms, lastTick |-> r.lastTick, ticks |-> r.ticks,
               startEquity |-> r.startEquity, answered |-> r.answered]
      BY <2>2 DEF IsRun
    <3> HIDE DEF r
    <3> DEFINE v == [id |-> r.id, storms |-> r.storms, lastTick |-> Some(now), ticks |-> r.ticks,
                     startEquity |-> r.startEquity, answered |-> r.answered]
    <3>2. [r EXCEPT !.lastTick = Some(now)] = v
      BY ONLY <3>1
    <3>3. [v EXCEPT !.ticks = r.ticks + 1] = u
      BY ONLY TRUE
    <3> HIDE DEF v, u
    <3> QED
      BY ONLY <3>2, <3>3
  <2>4. run' = [[run EXCEPT ![1] = [r EXCEPT !.lastTick = Some(now)]]
                EXCEPT ![1] = [[r EXCEPT !.lastTick = Some(now)] EXCEPT !.ticks = r.ticks + 1]]
    <3>1. [Some(r) EXCEPT ![1] = [r EXCEPT !.lastTick = Some(now)]]
             = Some([r EXCEPT !.lastTick = Some(now)])
      BY OptionReplaced
    <3>2. [r EXCEPT !.lastTick = Some(now)].ticks = r.ticks
      BY <2>2 DEF IsRun
    <3> QED
      BY <2>1, <2>2, <3>1, <3>2, Options
  <2>5. run' = Some(u)
    <3> DEFINE v == [r EXCEPT !.lastTick = Some(now)]
    <3>1. [Some(r) EXCEPT ![1] = v] = Some(v) /\ [Some(v) EXCEPT ![1] = u] = Some(u)
      BY OptionReplaced
    <3>2. run' = [[run EXCEPT ![1] = v] EXCEPT ![1] = u]
      BY <2>3, <2>4
    <3>3. run' = [[Some(r) EXCEPT ![1] = v] EXCEPT ![1] = u]
      BY <2>2, <3>2
    <3> HIDE DEF v, u
    <3> QED
      BY <3>1, <3>3
  <2>6. u.id = r.id /\ u.storms = r.storms /\ IsRun(u)
    BY <2>2 DEF IsRun
  <2> HIDE DEF u
  <2>7. IsSome(Some(u)) /\ Some(u)[1] = u
    BY Options
  <2> QED
    BY <2>1, <2>5, <2>6, <2>7 DEF RunTyped, SameRun
<1> QED
  BY <1>1, <1>2

LEMMA EquityKnown ==
    ASSUME NEW a \in BotAnswers
    PROVE  EquityOr0(a) \in Int /\ (~IsSome(a) => EquityOr0(a) = 0)
BY EquityAssumption, Options DEF BotAnswers, EquityOr0

(* A run starts without records, or nothing changes.                       *)
LEMMA RunStarted ==
    ASSUME RunTyped, NEW answer_ \in BotAnswers, NEW opened, NEW w,
           RunStart(answer_, opened, w)
    PROVE  RunTyped' /\ (run' = run \/ (IsSome(run') /\ run'[1].storms = <<>>))
<1>1. CASE run' = run
  BY <1>1 DEF RunTyped
<1>2. CASE run' # run
  <2> DEFINE u == [id |-> RunId, storms |-> <<>>, lastTick |-> None, ticks |-> 0,
                   startEquity |-> EquityOr0(answer_), answered |-> IsSome(answer_)]
  <2>1. run' = Some(u)
    BY <1>2 DEF RunStart, recVars
  <2>2. EquityOr0(answer_) \in Int /\ (~IsSome(answer_) => EquityOr0(answer_) = 0)
    BY EquityKnown
  <2>3. u.storms = <<>> /\ u.startEquity \in Int /\ IsRun(u)
    BY <2>2 DEF IsRun
  <2> HIDE DEF u
  <2>4. IsSome(Some(u)) /\ Some(u)[1] = u
    BY Options
  <2> QED
    BY <2>1, <2>3, <2>4 DEF RunTyped
<1> QED
  BY <1>1, <1>2

LEMMA RunStopped ==
    ASSUME RunTyped, NEW answer_, NEW made, NEW w, RunStop(answer_, made, w)
    PROVE  RunTyped' /\ ~IsSome(run')
<1>1. run' = None
  BY DEF RunStop, recVars, IsSome
<1> QED
  BY <1>1 DEF RunTyped, IsSome

-----------------------------------------------------------------------------
(* A handler's turn.                                                       *)

Turn(p, to, l) == pc' = [pc EXCEPT ![p] = to] /\ loc' = [loc EXCEPT ![p] = l]

LEMMA Turned ==
    ASSUME ProcsTyped, NEW p \in Procs, NEW to \in Pcs, NEW l, NEW own, NEW a,
           \/ Goto(p, to, l, own) /\ own \in BOOLEAN
           \/ First(p, to, l)
           \/ Respond(p, a) /\ to = "idle" /\ l = None
    PROVE  /\ Turn(p, to, l) /\ pc' \in [Procs -> Pcs] /\ DOMAIN loc' = Procs
           /\ disturbed' \in [Procs -> BOOLEAN]
<1>1. Turn(p, to, l)
  BY DEF Goto, First, Respond, Turn
<1>2. pc' \in [Procs -> Pcs] /\ DOMAIN loc' = Procs
  BY <1>1 DEF Turn, ProcsTyped
<1>3. disturbed' \in [Procs -> BOOLEAN]
  <2>1. CASE Goto(p, to, l, own) /\ own \in BOOLEAN
    BY <2>1 DEF Goto
  <2>2. CASE First(p, to, l)
    BY <2>2 DEF First
  <2>3. CASE Respond(p, a)
    BY <2>3 DEF Respond
  <2> QED
    BY <2>1, <2>2, <2>3
<1> QED
  BY <1>1, <1>2, <1>3

LEMMA TurnHolds ==
    ASSUME ProcsTyped, NEW p \in Procs, NEW to \in Pcs, NEW l, Turn(p, to, l)
    PROVE  /\ pc'[p] = to /\ loc'[p] = l
           /\ \A q \in Procs \ {p} : pc'[q] = pc[q] /\ loc'[q] = loc[q]
BY DEF Turn, ProcsTyped

(* Who holds what, after a turn that takes no storm forward.               *)
LEMMA HoldingKept ==
    ASSUME ProcsTyped, Holding, NEW p \in Procs, NEW to \in Pcs, NEW l, Turn(p, to, l),
           mu' = mu \/ \A q \in Procs \ {p} : pc[q] # "start_locked",
           to = "start_locked" => mu' = {p},
           to = "start_log" => l[1].kind \in Names /\ l[1].gen \in Nat,
           to \in {"stop_stop", "stop_log"} => l[1].stopping \in Names
    PROVE  Holding'
BY TurnHolds DEF Holding

LEMMA KeptInit == Init => Kept
<1> SUFFICES ASSUME Init PROVE Kept
  OBVIOUS
<1>1. CtlTyped
  <2>1. /\ 1 \in 1..MaxTime /\ 0 \in 0..MaxTime
    BY TimeAssumption
  <2>2. spec \in [kind : Names, severity : 0..1, duration : Nat]
    BY DEF Init, CtlInit, Names
  <2>3. active = FALSE /\ active \in BOOLEAN
    BY Zenon DEF Init, CtlInit
  <2>4. mu = {} /\ now \in 1..MaxTime /\ startMs \in 0..MaxTime /\ expMs \in Int /\ starts \in Nat
    BY <2>1 DEF Init, CtlInit
  <2> QED
    BY <2>2, <2>3, <2>4 DEF CtlTyped
<1>2. FeedTyped /\ RunTyped
  BY DEF Init, RecInit, FeedTyped, RunTyped, IsSome
<1>3. ProcsTyped /\ Holding
  BY DEF Init, ProcsTyped, Holding, Pcs
<1> QED
  BY <1>1, <1>2, <1>3 DEF Kept

(* The controller's calls.                                                 *)
LEMMA CtlChecked == ASSUME CtlTyped, CheckExpiry PROVE CtlTyped' /\ mu' = mu /\ spec' = spec
BY DEF CtlTyped, CheckExpiry, Running

LEMMA CtlSame ==
    ASSUME CtlTyped, UNCHANGED <<ctlVars, now>> PROVE CtlTyped' /\ mu' = mu /\ spec' = spec
BY DEF CtlTyped, ctlVars

LEMMA CtlStarted ==
    ASSUME CtlTyped, NEW p \in Procs, NEW s \in Specs, StartLock(p, s) PROVE CtlTyped' /\ mu' = {p}
<1>1. spec' \in [kind : Names, severity : 0..1, duration : Nat]
  BY ClampedType DEF StartLock
<1> QED
  BY <1>1, TimeAssumption DEF CtlTyped, StartLock

LEMMA CtlUnlocked ==
    ASSUME CtlTyped, NEW p \in Procs, StartUnlock(p) PROVE CtlTyped' /\ mu = {p} /\ spec' = spec
<1>1. expMs' \in Int
  <2>1. spec.duration \in Int /\ startMs \in Int /\ expMs \in Int
    BY TimeAssumption DEF CtlTyped
  <2>2. Signed(spec.duration) \in Int
    BY <2>1, SignedType
  <2>3. startMs + Signed(spec.duration) \in Int
    BY <2>1, <2>2
  <2>4. Signed(startMs + Signed(spec.duration)) \in Int
    BY <2>3, SignedType
  <2> QED
    BY <2>1, <2>4 DEF StartUnlock
<1> QED
  BY <1>1 DEF CtlTyped, StartUnlock

LEMMA NameOfStorm == ASSUME CtlTyped PROVE ActiveKind \in Names /\ spec.kind \in Names
BY DEF CtlTyped, ActiveKind, Names

LEMMA KeptStep == Kept /\ [Next]_vars => Kept'
<1> SUFFICES ASSUME Kept, [Next]_vars PROVE Kept'
  OBVIOUS
<1> USE DEF Kept
<1>o. ASSUME overlapped' \in {overlapped, overlapped \/ \E q \in Procs : InFlight(q)}
      PROVE  overlapped' \in BOOLEAN
  BY <1>o, Zenon DEF ProcsTyped
<1>f. ASSUME UNCHANGED feedVars PROVE FeedTyped'
  BY <1>f DEF feedVars, FeedTyped
<1>r. ASSUME UNCHANGED recVars PROVE RunTyped'
  BY <1>r DEF recVars, RunTyped
<1>1. ASSUME NEW p \in Procs, NEW s \in Specs, StormStart(p, s) PROVE Kept'
  <2>1. StartLock(p, s) /\ First(p, "start_locked", None) /\ mu = {}
    BY <1>1 DEF StormStart, StartLock
  <2>2. CtlTyped' /\ mu' = {p}
    BY <2>1, CtlStarted
  <2>3. /\ Turn(p, "start_locked", None) /\ pc' \in [Procs -> Pcs] /\ DOMAIN loc' = Procs
        /\ disturbed' \in [Procs -> BOOLEAN]
    BY <2>1, Turned DEF Pcs
  <2>4. \A q \in Procs : pc[q] # "start_locked"
    BY <2>1 DEF Holding
  <2>5. Holding'
    BY <2>2, <2>3, <2>4, HoldingKept DEF Pcs
  <2>6. FeedTyped' /\ RunTyped' /\ overlapped' \in BOOLEAN
    BY <1>1, <1>f, <1>r, <1>o DEF StormStart
  <2> QED
    BY <2>2, <2>3, <2>5, <2>6 DEF ProcsTyped
<1>2. ASSUME NEW p \in Procs, StormStarted(p) PROVE Kept'
  <2> DEFINE l == Some([snap |-> SnapshotLocked(active), kind |-> spec.kind, gen |-> starts])
  <2>1. StartUnlock(p) /\ Goto(p, "start_log", l, ~Running') /\ pc[p] = "start_locked"
    BY <1>2 DEF StormStarted
  <2>2. CtlTyped' /\ mu = {p}
    BY <2>1, CtlUnlocked
  <2>3. l[1].kind = spec.kind /\ l[1].gen = starts
    BY Options
  <2> HIDE DEF l
  <2>4. /\ Turn(p, "start_log", l) /\ pc' \in [Procs -> Pcs] /\ DOMAIN loc' = Procs
        /\ disturbed' \in [Procs -> BOOLEAN]
    <3>1. (~Running') \in BOOLEAN
      OBVIOUS
    <3> QED
      BY <2>1, <3>1, Turned DEF Pcs
  <2>5. \A q \in Procs \ {p} : pc[q] # "start_locked"
    BY <2>2 DEF Holding
  <2>6. l[1].kind \in Names /\ l[1].gen \in Nat
    BY <2>3, NameOfStorm DEF CtlTyped
  <2>7. Holding'
    BY <2>4, <2>5, <2>6, HoldingKept DEF Pcs
  <2>8. FeedTyped' /\ RunTyped' /\ overlapped' \in BOOLEAN
    BY <1>2, <1>f, <1>r, <1>o DEF StormStarted
  <2> QED
    BY <2>2, <2>4, <2>7, <2>8 DEF ProcsTyped
<1>3. ASSUME NEW p \in Procs, NEW to \in Pcs \ {"start_locked", "start_log", "stop_stop", "stop_log"},
             NEW l, NEW own, NEW a,
             \/ Goto(p, to, l, own) /\ own \in BOOLEAN
             \/ First(p, to, l)
             \/ Respond(p, a) /\ to = "idle" /\ l = None,
             CtlTyped', mu' = mu, FeedTyped', RunTyped', UNCHANGED overlapped
      PROVE  Kept'
  <2>1. /\ Turn(p, to, l) /\ pc' \in [Procs -> Pcs] /\ DOMAIN loc' = Procs
        /\ disturbed' \in [Procs -> BOOLEAN]
    BY <1>3, Turned
  <2>2. Holding'
    BY <1>3, <2>1, HoldingKept
  <2> QED
    BY <1>3, <2>1, <2>2 DEF ProcsTyped
<1>d. \A p \in Procs : disturbed[p] \in BOOLEAN
  BY DEF ProcsTyped
<1>4. ASSUME NEW p \in Procs, StormStartLogged(p) PROVE Kept'
  <2>1. loc[p][1].kind \in Names /\ loc[p][1].gen \in Nat
    BY <1>4 DEF StormStartLogged, Holding
  <2>2. RunTyped'
    BY <1>4, <2>1, StartLogged DEF StormStartLogged
  <2>3. CtlTyped' /\ mu' = mu
    BY <1>4, CtlSame DEF StormStartLogged, LogStormStart
  <2>4. FeedTyped'
    BY <1>4, <1>f DEF StormStartLogged
  <2>5. Goto(p, "encode_started", loc[p][1].snap, disturbed[p]) /\ UNCHANGED overlapped
    BY <1>4 DEF StormStartLogged
  <2> QED
    BY <1>3, <1>d, <2>2, <2>3, <2>4, <2>5 DEF Pcs
<1>5. ASSUME NEW p \in Procs, EncodeStarted(p) PROVE Kept'
  <2>1. CtlTyped' /\ mu' = mu /\ FeedTyped' /\ RunTyped' /\ UNCHANGED overlapped
    BY <1>5, <1>f, <1>r, CtlSame DEF EncodeStarted
  <2>2. \/ \E l : Goto(p, "encode_expires", l, disturbed[p])
        \/ \E a : Respond(p, a)
    BY <1>5 DEF EncodeStarted
  <2> QED
    BY <1>3, <1>d, <2>1, <2>2 DEF Pcs
<1>6. ASSUME NEW p \in Procs, EncodeExpires(p) \/ EncodeIdle(p) \/ RunStatusId(p) PROVE Kept'
  <2>1. CtlTyped' /\ mu' = mu /\ FeedTyped' /\ RunTyped' /\ UNCHANGED overlapped
    BY <1>6, <1>f, <1>r, CtlSame DEF EncodeExpires, EncodeIdle, RunStatusId
  <2>2. \E a : Respond(p, a)
    BY <1>6 DEF EncodeExpires, EncodeIdle, RunStatusId
  <2> QED
    BY <1>3, <2>1, <2>2 DEF Pcs
<1>7. ASSUME NEW p \in Procs, StormStop(p) PROVE Kept'
  <2> DEFINE l == Some([stopping |-> ActiveKind])
  <2>1. CheckExpiry /\ First(p, "stop_stop", l)
    BY <1>7 DEF StormStop
  <2>2. CtlTyped' /\ mu' = mu
    BY <2>1, CtlChecked
  <2>3. l[1].stopping \in Names
    BY Options, NameOfStorm
  <2> HIDE DEF l
  <2>4. /\ Turn(p, "stop_stop", l) /\ pc' \in [Procs -> Pcs] /\ DOMAIN loc' = Procs
        /\ disturbed' \in [Procs -> BOOLEAN]
    BY <2>1, Turned DEF Pcs
  <2>5. Holding'
    BY <2>2, <2>3, <2>4, HoldingKept DEF Pcs
  <2>6. FeedTyped' /\ RunTyped' /\ overlapped' \in BOOLEAN
    BY <1>7, <1>f, <1>r, <1>o DEF StormStop
  <2> QED
    BY <2>2, <2>4, <2>5, <2>6 DEF ProcsTyped
<1>8. ASSUME NEW p \in Procs, StormStopped(p) PROVE Kept'
  <2>1. Stop /\ Goto(p, "stop_log", loc[p], FALSE) /\ pc[p] = "stop_stop"
    BY <1>8 DEF StormStopped
  <2>2. CtlTyped' /\ mu' = mu
    BY <2>1 DEF CtlTyped, Stop
  <2>3. loc[p][1].stopping \in Names
    BY <2>1 DEF Holding
  <2>4. /\ Turn(p, "stop_log", loc[p]) /\ pc' \in [Procs -> Pcs] /\ DOMAIN loc' = Procs
        /\ disturbed' \in [Procs -> BOOLEAN]
    BY <2>1, Turned DEF Pcs
  <2>5. Holding'
    BY <2>2, <2>3, <2>4, HoldingKept DEF Pcs
  <2>6. FeedTyped' /\ RunTyped' /\ overlapped' \in BOOLEAN
    BY <1>8, <1>f, <1>r, <1>o DEF StormStopped
  <2> QED
    BY <2>2, <2>4, <2>5, <2>6 DEF ProcsTyped
<1>9. ASSUME NEW p \in Procs, StormStopLogged(p) PROVE Kept'
  <2>1. loc[p][1].stopping \in Names
    BY <1>9 DEF StormStopLogged, Holding
  <2>2. RunTyped'
    BY <1>9, <2>1, StopLogged DEF StormStopLogged
  <2>3. CtlTyped' /\ mu' = mu
    BY <1>9, CtlSame DEF StormStopLogged, LogStormStop
  <2>4. FeedTyped' /\ UNCHANGED overlapped /\ \E a : Respond(p, a)
    BY <1>9, <1>f DEF StormStopLogged
  <2> QED
    BY <1>3, <2>2, <2>3, <2>4 DEF Pcs
<1>10. ASSUME NEW p \in Procs, StormStatus(p) PROVE Kept'
  <2>1. CtlTyped' /\ mu' = mu /\ FeedTyped' /\ RunTyped' /\ UNCHANGED overlapped
    BY <1>10, <1>f, <1>r, CtlChecked DEF StormStatus
  <2>2. \E to \in {"encode_started", "encode_idle"}, l \in {SnapshotLocked(TRUE), None} : First(p, to, l)
    BY <1>10 DEF StormStatus
  <2> QED
    BY <1>3, <2>1, <2>2 DEF Pcs
<1>11. ASSUME NEW p \in Procs, RunStartRequest(p) PROVE Kept'
  <2>1. PICK a \in BotAnswers, opened \in BOOLEAN, w \in Writes : RunStart(a, opened, w)
    BY <1>11 DEF RunStartRequest
  <2>2. RunTyped' /\ CtlTyped' /\ mu' = mu
    BY <2>1, RunStarted, CtlSame DEF RunStart
  <2>3. FeedTyped' /\ UNCHANGED overlapped /\ First(p, "idle", None)
    BY <1>11, <1>f DEF RunStartRequest
  <2> QED
    BY <1>3, <2>2, <2>3 DEF Pcs
<1>12. ASSUME NEW p \in Procs, RunStopRequest(p) PROVE Kept'
  <2>1. PICK a \in BotAnswers, made \in Makings, w \in Writes : RunStop(a, made, w)
    BY <1>12 DEF RunStopRequest
  <2>2. RunTyped' /\ CtlTyped' /\ mu' = mu
    BY <2>1, RunStopped, CtlSame DEF RunStop
  <2>3. FeedTyped' /\ UNCHANGED overlapped /\ First(p, "idle", None)
    BY <1>12, <1>f DEF RunStopRequest
  <2> QED
    BY <1>3, <2>2, <2>3 DEF Pcs
<1>13. ASSUME NEW p \in Procs, RunStatus(p) PROVE Kept'
  <2>1. CtlTyped' /\ mu' = mu /\ FeedTyped' /\ RunTyped' /\ UNCHANGED overlapped
    BY <1>13, <1>f, <1>r, CtlSame DEF RunStatus
  <2>2. \E l : First(p, "run_id", l)
    BY <1>13 DEF RunStatus
  <2> QED
    BY <1>3, <2>1, <2>2 DEF Pcs
<1>14. ASSUME NEW p \in Procs, StreamTick(p) PROVE Kept'
  <2>1. CtlTyped' /\ mu' = mu /\ RunTyped' /\ UNCHANGED overlapped
    BY <1>14, <1>r, CtlChecked DEF StreamTick
  <2>2. FeedTyped'
    BY <1>14 DEF StreamTick, FeedTyped
  <2>3. \E l : First(p, "tick_kind", l)
    BY <1>14 DEF StreamTick
  <2> QED
    BY <1>3, <2>1, <2>2, <2>3 DEF Pcs
<1>15. ASSUME NEW p \in Procs, TickKind(p) PROVE Kept'
  <2>1. CtlTyped' /\ mu' = mu /\ RunTyped' /\ UNCHANGED overlapped
    BY <1>15, <1>r, CtlChecked DEF TickKind
  <2>2. FeedTyped'
    BY <1>15, LimitAssumption DEF TickKind, FeedTyped
  <2>3. \E l : Goto(p, "tick_log", l, disturbed[p])
    BY <1>15 DEF TickKind
  <2> QED
    BY <1>3, <1>d, <2>1, <2>2, <2>3 DEF Pcs
<1>16. ASSUME NEW p \in Procs, TickLogged(p) PROVE Kept'
  <2>1. RunTyped' /\ CtlTyped' /\ mu' = mu
    BY <1>16, TickLoggedRun, CtlSame DEF TickLogged, LogTick
  <2>2. FeedTyped' /\ UNCHANGED overlapped /\ \E a : Respond(p, a)
    BY <1>16, <1>f DEF TickLogged
  <2> QED
    BY <1>3, <2>1, <2>2 DEF Pcs
<1>17. ASSUME NEW p \in Procs, Reset(p) PROVE Kept'
  <2>1. CtlTyped' /\ mu' = mu /\ RunTyped' /\ UNCHANGED overlapped
    BY <1>17, <1>r, CtlSame DEF Reset
  <2>2. FeedTyped' /\ First(p, "idle", None)
    BY <1>17 DEF Reset, ResetGaps, FeedTyped
  <2> QED
    BY <1>3, <2>1, <2>2 DEF Pcs
<1>18. ASSUME TimePasses PROVE Kept'
  <2>1. CtlTyped' /\ mu' = mu
    BY <1>18, TimeAssumption DEF TimePasses, Clock, CtlTyped, ctlVars
  <2>2. FeedTyped' /\ RunTyped'
    BY <1>18, <1>f, <1>r DEF TimePasses
  <2>3. ProcsTyped' /\ Holding'
    BY <1>18, <2>1 DEF TimePasses, ProcsTyped, Holding
  <2> QED
    BY <2>1, <2>2, <2>3
<1>19. ASSUME UNCHANGED vars PROVE Kept'
  BY <1>19 DEF vars, ctlVars, recVars, feedVars, CtlTyped, FeedTyped, RunTyped, ProcsTyped, Holding
<1> QED
  BY <1>1, <1>2, <1>4, <1>5, <1>6, <1>7, <1>8, <1>9, <1>10, <1>11, <1>12, <1>13, <1>14, <1>15,
     <1>16, <1>17, <1>18, <1>19 DEF Next, Step, Request

-----------------------------------------------------------------------------
(* The records follow the storms.                                          *)

LastIs(storms, gen, kind) ==
    storms # <<>> => storms[Len(storms)].gen = gen /\ storms[Len(storms)].kind = kind

OwnClosers(storms) ==
    \A i \in 1..Len(storms) : storms[i].closers \subseteq {NoKind, storms[i].kind}

Starting(p) == pc[p] \in {"start_locked", "start_log"}

Followed ==
    ~overlapped =>
        /\ \A p, q \in Procs : InFlight(p) /\ InFlight(q) => p = q
        /\ \A p \in Procs : pc[p] = "start_log" => loc[p][1].gen = starts /\ loc[p][1].kind = spec.kind
        /\ \A p \in Procs : pc[p] \in {"stop_stop", "stop_log"} =>
               loc[p][1].stopping \in {NoKind, spec.kind}
        /\ IsSome(run) =>
               /\ (\A p \in Procs : ~Starting(p)) => LastIs(run[1].storms, starts, spec.kind)
               /\ OwnClosers(run[1].storms)

(* A run keeps its records, or has none yet.                               *)
Recorded == IsSome(run') => run'[1].storms = <<>> \/ (IsSome(run) /\ run'[1].storms = run[1].storms)

LEMMA EmptyFollows == \A g, k : LastIs(<<>>, g, k) /\ OwnClosers(<<>>)
BY DEF LastIs, OwnClosers

LEMMA FollowedElsewhere ==
    ASSUME Kept, Followed, NEW p \in Procs, NEW to \in Pcs, NEW l, Turn(p, to, l),
           pc[p] \notin StormPcs, to \notin StormPcs,
           UNCHANGED <<spec, starts, overlapped>>, Recorded
    PROVE  Followed'
<1>1. /\ pc'[p] = to /\ \A q \in Procs \ {p} : pc'[q] = pc[q] /\ loc'[q] = loc[q]
  BY TurnHolds DEF Kept
<1>2. \A q \in Procs : InFlight(q)' => InFlight(q) /\ q # p
  BY <1>1 DEF InFlight
<1>3. (\A q \in Procs : ~Starting(q)') => (\A q \in Procs : ~Starting(q))
  BY <1>1 DEF Starting, StormPcs
<1> SUFFICES ASSUME ~overlapped
             PROVE  /\ \A q, r \in Procs : InFlight(q)' /\ InFlight(r)' => q = r
                    /\ \A q \in Procs : pc'[q] = "start_log" => loc'[q][1].gen = starts /\ loc'[q][1].kind = spec.kind
                    /\ \A q \in Procs : pc'[q] \in {"stop_stop", "stop_log"} =>
                           loc'[q][1].stopping \in {NoKind, spec.kind}
                    /\ IsSome(run') =>
                           /\ (\A q \in Procs : ~Starting(q)') => LastIs(run'[1].storms, starts, spec.kind)
                           /\ OwnClosers(run'[1].storms)
  BY DEF Followed
<1>4. \A q, r \in Procs : InFlight(q)' /\ InFlight(r)' => q = r
  BY <1>2 DEF Followed
<1>5. \A q \in Procs : pc'[q] = "start_log" => loc'[q][1].gen = starts /\ loc'[q][1].kind = spec.kind
  BY <1>1 DEF Followed, StormPcs
<1>6. \A q \in Procs : pc'[q] \in {"stop_stop", "stop_log"} => loc'[q][1].stopping \in {NoKind, spec.kind}
  BY <1>1 DEF Followed, StormPcs
<1>7. ASSUME IsSome(run')
      PROVE  /\ (\A q \in Procs : ~Starting(q)') => LastIs(run'[1].storms, starts, spec.kind)
             /\ OwnClosers(run'[1].storms)
  <2>1. CASE run'[1].storms = <<>>
    BY <2>1, EmptyFollows
  <2>2. CASE IsSome(run) /\ run'[1].storms = run[1].storms
    BY <1>3, <2>2 DEF Followed
  <2> QED
    BY <1>7, <2>1, <2>2 DEF Recorded
<1> QED
  BY <1>4, <1>5, <1>6, <1>7

LEMMA FollowedInit == Init => Followed
BY DEF Init, RecInit, Followed, InFlight, StormPcs, IsSome

LEMMA FollowedStep == Kept /\ Followed /\ [Next]_vars => Followed'
<1> SUFFICES ASSUME Kept, Followed, [Next]_vars PROVE Followed'
  OBVIOUS
<1>t. ProcsTyped /\ RunTyped /\ Holding
  BY DEF Kept
<1>r. ASSUME UNCHANGED recVars PROVE Recorded
  BY <1>r DEF recVars, Recorded
<1>1. ASSUME NEW p \in Procs, NEW s \in Specs, StormStart(p, s) PROVE Followed'
  <2> SUFFICES ASSUME ~overlapped' PROVE Followed'
    BY DEF Followed
  <2>1. ~overlapped /\ (\A q \in Procs : ~InFlight(q)) /\ run' = run
    BY <1>1, <1>t DEF StormStart, recVars, ProcsTyped
  <2>2. Turn(p, "start_locked", None)
    BY <1>1 DEF StormStart, First, Turn
  <2>3. pc'[p] = "start_locked" /\ \A q \in Procs \ {p} : pc'[q] = pc[q] /\ loc'[q] = loc[q]
    BY <1>t, <2>2, TurnHolds DEF Pcs
  <2>4. \A q \in Procs : pc'[q] \in StormPcs => q = p
    BY <2>1, <2>3 DEF InFlight
  <2>5. Starting(p)'
    BY <2>3 DEF Starting
  <2>6. IsSome(run') => OwnClosers(run'[1].storms)
    BY <2>1 DEF Followed
  <2> QED
    BY <2>3, <2>4, <2>5, <2>6 DEF Followed, InFlight, StormPcs
<1>2. ASSUME NEW p \in Procs, StormStarted(p) PROVE Followed'
  <2> DEFINE l == Some([snap |-> SnapshotLocked(active), kind |-> spec.kind, gen |-> starts])
  <2>1. /\ pc[p] = "start_locked" /\ run' = run /\ UNCHANGED <<spec, starts, overlapped>>
        /\ Turn(p, "start_log", l)
    BY <1>2 DEF StormStarted, StartUnlock, recVars, Goto, Turn
  <2>2. l[1].kind = spec.kind /\ l[1].gen = starts
    BY Options
  <2> HIDE DEF l
  <2>3. pc'[p] = "start_log" /\ loc'[p] = l /\ \A q \in Procs \ {p} : pc'[q] = pc[q] /\ loc'[q] = loc[q]
    BY <1>t, <2>1, TurnHolds DEF Pcs
  <2>4. Starting(p)' /\ \A q \in Procs : InFlight(q)' => InFlight(q)
    BY <2>1, <2>3 DEF Starting, InFlight, StormPcs
  <2> QED
    BY <2>1, <2>2, <2>3, <2>4 DEF Followed
<1>3. ASSUME NEW p \in Procs, StormStartLogged(p) PROVE Followed'
  <2>0. PICK w \in Writes : LogStormStart(loc[p][1].kind, loc[p][1].gen, w)
    BY <1>3 DEF StormStartLogged
  <2>1. /\ pc[p] = "start_log" /\ LogStormStart(loc[p][1].kind, loc[p][1].gen, w)
        /\ UNCHANGED <<spec, starts, overlapped>> /\ Turn(p, "encode_started", loc[p][1].snap)
    BY <1>3, <2>0 DEF StormStartLogged, LogStormStart, ctlVars, Goto, Turn
  <2>2. loc[p][1].kind \in Names /\ loc[p][1].gen \in Nat
    BY <1>t, <2>1 DEF Holding
  <2>3. pc'[p] = "encode_started" /\ \A q \in Procs \ {p} : pc'[q] = pc[q] /\ loc'[q] = loc[q]
    BY <1>t, <2>1, TurnHolds DEF Pcs
  <2>4. /\ RunTyped' /\ SameRun
        /\ IsSome(run) => run'[1].storms = Append(run[1].storms, [kind |-> loc[p][1].kind,
                                                gen |-> loc[p][1].gen, closers |-> {}])
    BY <1>t, <2>1, <2>2, StartLogged
  <2> SUFFICES ASSUME ~overlapped PROVE Followed'
    BY <2>1 DEF Followed
  <2>5. /\ \A q \in Procs : ~InFlight(q)'
        /\ loc[p][1].gen = starts /\ loc[p][1].kind = spec.kind
    BY <2>1, <2>3 DEF Followed, InFlight, StormPcs
  <2>6. ASSUME IsSome(run')
        PROVE  LastIs(run'[1].storms, starts, spec.kind) /\ OwnClosers(run'[1].storms)
    <3> DEFINE storms == run[1].storms
               rec == [kind |-> loc[p][1].kind, gen |-> loc[p][1].gen, closers |-> {}]
    <3>1. IsSome(run)
      BY <2>4, <2>6 DEF SameRun
    <3>2. run'[1].storms = Append(storms, rec)
      BY <2>4, <3>1
    <3>3. storms \in Seq(StormRecords) /\ OwnClosers(storms)
      BY <1>t, <3>1 DEF RunTyped, IsRun, Followed
    <3>4. rec \in StormRecords /\ rec.kind = spec.kind /\ rec.gen = starts /\ rec.closers = {}
      BY <2>2, <2>5 DEF StormRecords
    <3> HIDE DEF rec, storms
    <3>5. /\ Len(Append(storms, rec)) = Len(storms) + 1
          /\ Append(storms, rec)[Len(storms) + 1] = rec
          /\ \A i \in 1..Len(storms) : Append(storms, rec)[i] = storms[i]
          /\ Len(storms) \in Nat
      BY <3>3, <3>4, AppendProperties, LenProperties
    <3>6. LastIs(Append(storms, rec), starts, spec.kind)
      BY <3>4, <3>5 DEF LastIs
    <3>7. OwnClosers(Append(storms, rec))
      BY <3>3, <3>4, <3>5 DEF OwnClosers
    <3> QED
      BY <3>2, <3>6, <3>7
  <2> QED
    BY <2>1, <2>5, <2>6 DEF Followed, InFlight, StormPcs
<1>4. ASSUME NEW p \in Procs, StormStop(p) PROVE Followed'
  <2> DEFINE l == Some([stopping |-> ActiveKind])
  <2> SUFFICES ASSUME ~overlapped' PROVE Followed'
    BY DEF Followed
  <2>1. ~overlapped /\ (\A q \in Procs : ~InFlight(q)) /\ run' = run /\ UNCHANGED <<spec, starts>>
    BY <1>4, <1>t DEF StormStop, recVars, ProcsTyped, CheckExpiry
  <2>2. Turn(p, "stop_stop", l)
    BY <1>4 DEF StormStop, First, Turn
  <2>3. l[1].stopping \in {NoKind, spec.kind}
    BY Options DEF ActiveKind
  <2> HIDE DEF l
  <2>4. pc'[p] = "stop_stop" /\ loc'[p] = l /\ \A q \in Procs \ {p} : pc'[q] = pc[q] /\ loc'[q] = loc[q]
    BY <1>t, <2>2, TurnHolds DEF Pcs
  <2>5. \A q \in Procs : pc'[q] \in StormPcs => q = p
    BY <2>1, <2>4 DEF InFlight
  <2>6. \A q \in Procs : ~Starting(q)
    BY <2>1 DEF Starting, InFlight, StormPcs
  <2>7. IsSome(run') => LastIs(run'[1].storms, starts', spec'.kind) /\ OwnClosers(run'[1].storms)
    BY <2>1, <2>6 DEF Followed
  <2> QED
    BY <2>1, <2>3, <2>4, <2>5, <2>7 DEF Followed, InFlight, StormPcs
<1>5. ASSUME NEW p \in Procs, StormStopped(p) PROVE Followed'
  <2>1. /\ pc[p] = "stop_stop" /\ run' = run /\ UNCHANGED <<spec, starts, overlapped>>
        /\ Turn(p, "stop_log", loc[p])
    BY <1>5 DEF StormStopped, Stop, recVars, Goto, Turn
  <2>2. pc'[p] = "stop_log" /\ loc'[p] = loc[p]
        /\ \A q \in Procs \ {p} : pc'[q] = pc[q] /\ loc'[q] = loc[q]
    BY <1>t, <2>1, TurnHolds DEF Pcs
  <2>3. \A q \in Procs : (Starting(q)' <=> Starting(q)) /\ (InFlight(q)' <=> InFlight(q))
    BY <2>1, <2>2 DEF Starting, InFlight, StormPcs
  <2> QED
    BY <2>1, <2>2, <2>3 DEF Followed
<1>6. ASSUME NEW p \in Procs, StormStopLogged(p) PROVE Followed'
  <2>0. PICK w \in Writes : LogStormStop(loc[p][1].stopping, w)
    BY <1>6 DEF StormStopLogged
  <2>1. /\ pc[p] = "stop_log" /\ LogStormStop(loc[p][1].stopping, w)
        /\ UNCHANGED <<spec, starts, overlapped>> /\ Turn(p, "idle", None)
    BY <1>6, <2>0 DEF StormStopLogged, LogStormStop, ctlVars, Respond, Turn
  <2>2. loc[p][1].stopping \in Names
    BY <1>t, <2>1 DEF Holding
  <2>3. pc'[p] = "idle" /\ \A q \in Procs \ {p} : pc'[q] = pc[q] /\ loc'[q] = loc[q]
    BY <1>t, <2>1, TurnHolds DEF Pcs
  <2> DEFINE kind == loc[p][1].stopping
             storms == run[1].storms
  <2>4. /\ RunTyped' /\ SameRun
        /\ IsSome(run) => run'[1].storms = IF storms = <<>> THEN <<>> ELSE Closed(storms, kind)
    BY <1>t, <2>1, <2>2, StopLogged
  <2> SUFFICES ASSUME ~overlapped PROVE Followed'
    BY <2>1 DEF Followed
  <2>5. /\ \A q \in Procs : ~InFlight(q)' /\ ~Starting(q)
        /\ kind \in {NoKind, spec.kind}
    BY <2>1, <2>3 DEF Followed, InFlight, StormPcs, Starting
  <2>6. ASSUME IsSome(run')
        PROVE  LastIs(run'[1].storms, starts, spec.kind) /\ OwnClosers(run'[1].storms)
    <3>1. IsSome(run)
      BY <2>4, <2>6 DEF SameRun
    <3>2. storms \in Seq(StormRecords) /\ OwnClosers(storms) /\ LastIs(storms, starts, spec.kind)
      BY <1>t, <2>5, <3>1 DEF RunTyped, IsRun, Followed
    <3>3. CASE storms = <<>>
      BY <2>4, <3>1, <3>3, EmptyFollows
    <3>4. CASE storms # <<>>
      <4>1. run'[1].storms = Closed(storms, kind)
        BY <2>4, <3>1, <3>4
      <4> HIDE DEF storms, kind
      <4>2. /\ Closed(storms, kind) \in Seq(StormRecords) /\ Len(Closed(storms, kind)) = Len(storms)
            /\ \A i \in 1..Len(storms) :
                 /\ Closed(storms, kind)[i].kind = storms[i].kind
                 /\ Closed(storms, kind)[i].gen = storms[i].gen
                 /\ Closed(storms, kind)[i].closers
                     = IF i = Len(storms) THEN storms[i].closers \cup {kind} ELSE storms[i].closers
        BY <2>2, <3>2, <3>4, ClosedFacts DEF kind
      <4>3. Len(storms) \in 1..Len(storms)
        BY <3>2, <3>4, EmptySeq, LenProperties
      <4>4. LastIs(Closed(storms, kind), starts, spec.kind)
        BY <3>2, <3>4, <4>2, <4>3 DEF LastIs
      <4>5. storms[Len(storms)].kind = spec.kind
        BY <3>2, <3>4 DEF LastIs
      <4>6. OwnClosers(Closed(storms, kind))
        <5>1. ASSUME NEW i \in 1..Len(storms)
              PROVE  Closed(storms, kind)[i].closers \subseteq {NoKind, Closed(storms, kind)[i].kind}
          <6>1. storms[i].closers \subseteq {NoKind, storms[i].kind}
            BY <3>2, <5>1 DEF OwnClosers
          <6>2. i = Len(storms) => storms[i].kind = spec.kind /\ kind \in {NoKind, storms[i].kind}
            BY <2>5, <4>5
          <6> QED
            BY <4>2, <5>1, <6>1, <6>2
        <5> QED
          BY <4>2, <5>1 DEF OwnClosers
      <4> QED
        BY <4>1, <4>4, <4>6
    <3> QED
      BY <3>3, <3>4
  <2> QED
    BY <2>1, <2>5, <2>6 DEF Followed, InFlight, StormPcs
<1>e. ASSUME NEW p \in Procs, NEW to \in Pcs \ StormPcs, NEW l, NEW own, NEW a,
             pc[p] \notin StormPcs,
             \/ Goto(p, to, l, own)
             \/ First(p, to, l)
             \/ Respond(p, a) /\ to = "idle" /\ l = None,
             UNCHANGED <<spec, starts, overlapped>>, Recorded
      PROVE  Followed'
  <2>1. Turn(p, to, l)
    BY <1>e DEF Goto, First, Respond, Turn
  <2> QED
    BY <1>e, <2>1, FollowedElsewhere
<1>7. ASSUME NEW p \in Procs,
             \/ EncodeStarted(p) \/ EncodeExpires(p) \/ EncodeIdle(p) \/ RunStatusId(p)
             \/ StormStatus(p) \/ RunStatus(p) \/ StreamTick(p) \/ Reset(p) \/ TickKind(p)
      PROVE  Followed'
  <2>1. UNCHANGED <<spec, starts, overlapped>> /\ Recorded
    BY <1>7, <1>r DEF EncodeStarted, EncodeExpires, EncodeIdle, RunStatusId, StormStatus, RunStatus,
                      StreamTick, Reset, TickKind, CheckExpiry, ctlVars
  <2>2. pc[p] \notin StormPcs
    BY <1>7 DEF EncodeStarted, EncodeExpires, EncodeIdle, RunStatusId, StormStatus, RunStatus,
                StreamTick, Reset, TickKind, Arrive, StormPcs
  <2>3. \E to \in Pcs \ StormPcs : \E l, own, a :
            \/ Goto(p, to, l, own)
            \/ First(p, to, l)
            \/ Respond(p, a) /\ to = "idle" /\ l = None
    <3>1. CASE \/ \E l, own : Goto(p, "encode_expires", l, own) \/ Goto(p, "tick_log", l, own)
               \/ \E a : Respond(p, a)
               \/ \E l : \/ First(p, "encode_started", l) \/ First(p, "encode_idle", l)
                         \/ First(p, "run_id", l) \/ First(p, "tick_kind", l) \/ First(p, "idle", l)
      BY <3>1 DEF Pcs, StormPcs
    <3> QED
      BY <1>7, <3>1 DEF EncodeStarted, EncodeExpires, EncodeIdle, RunStatusId, StormStatus,
                        RunStatus, StreamTick, Reset, TickKind
  <2> QED
    BY <1>e, <2>1, <2>2, <2>3
<1>8. ASSUME NEW p \in Procs, TickLogged(p) PROVE Followed'
  <2>1. SameRun /\ (IsSome(run) => run'[1].storms = run[1].storms)
    BY <1>8, <1>t, TickLoggedRun DEF TickLogged
  <2>2. Recorded
    BY <2>1 DEF Recorded, SameRun
  <2>3. UNCHANGED <<spec, starts, overlapped>> /\ pc[p] \notin StormPcs /\ \E a : Respond(p, a)
    BY <1>8 DEF TickLogged, LogTick, ctlVars, StormPcs
  <2>4. "idle" \in Pcs \ StormPcs
    BY DEF Pcs, StormPcs
  <2> QED
    BY <1>e, <2>2, <2>3, <2>4
<1>9. ASSUME NEW p \in Procs, RunStartRequest(p) PROVE Followed'
  <2>1. PICK a \in BotAnswers, opened \in BOOLEAN, w \in Writes : RunStart(a, opened, w)
    BY <1>9 DEF RunStartRequest
  <2>2. Recorded
    BY <1>t, <2>1, RunStarted DEF Recorded
  <2>3. UNCHANGED <<spec, starts, overlapped>> /\ pc[p] \notin StormPcs /\ First(p, "idle", None)
    BY <1>9, <2>1 DEF RunStartRequest, RunStart, ctlVars, Arrive, StormPcs
  <2>4. "idle" \in Pcs \ StormPcs
    BY DEF Pcs, StormPcs
  <2> QED
    BY <1>e, <2>2, <2>3, <2>4
<1>10. ASSUME NEW p \in Procs, RunStopRequest(p) PROVE Followed'
  <2>1. PICK a \in BotAnswers, made \in Makings, w \in Writes : RunStop(a, made, w)
    BY <1>10 DEF RunStopRequest
  <2>2. Recorded
    BY <1>t, <2>1, RunStopped DEF Recorded
  <2>3. UNCHANGED <<spec, starts, overlapped>> /\ pc[p] \notin StormPcs /\ First(p, "idle", None)
    BY <1>10, <2>1 DEF RunStopRequest, RunStop, ctlVars, Arrive, StormPcs
  <2>4. "idle" \in Pcs \ StormPcs
    BY DEF Pcs, StormPcs
  <2> QED
    BY <1>e, <2>2, <2>3, <2>4
<1>11. ASSUME TimePasses \/ UNCHANGED vars PROVE Followed'
  <2>1. UNCHANGED <<pc, loc, run, spec, starts, overlapped>>
    BY <1>11 DEF TimePasses, Clock, vars, ctlVars, recVars
  <2> QED
    BY <2>1 DEF Followed, InFlight, Starting
<1> QED
  BY <1>1, <1>2, <1>3, <1>4, <1>5, <1>6, <1>7, <1>8, <1>9, <1>10, <1>11 DEF Next, Step, Request

-----------------------------------------------------------------------------
(* Answers show the view.                                                  *)

(* What a tick shows, as a function of the storm.                          *)
TickOf(storm) == IF IsSome(storm) THEN <<storm[1].severity, storm[1].kind>> ELSE <<0, NoKind>>

AnswersOf(storm, id) ==
    {[storm |-> storm], [status |-> <<IsSome(id), id>>], [tick |-> TickOf(storm)]}

(* A snapshot s of a storm: its times are read later.                      *)
Pictures(s, storm) ==
    /\ IsSome(storm)
    /\ storm[1] = [kind |-> s[1].kind, severity |-> s[1].severity, started |-> storm[1].started,
                   expires |-> storm[1].expires]
    /\ s[1].hasExpiry <=> IsSome(storm[1].expires)

(* An encoded answer l that lacks the expiry.                              *)
Misses(l, storm) ==
    /\ IsSome(storm) /\ IsSome(storm[1].expires)
    /\ l = Some([kind |-> storm[1].kind, severity |-> storm[1].severity,
                 started |-> storm[1].started, expires |-> None])

(* What a handler at "at" holds, if nothing has changed since it started.  *)
Shows(at, l, storm, id) ==
    /\ at = "start_log" => Pictures(l[1].snap, storm)
    /\ at = "encode_started" => Pictures(l, storm)
    /\ at = "encode_expires" => Misses(l, storm)
    /\ at \in {"stop_log", "encode_idle"} => ~IsSome(storm)
    /\ at = "run_id" => l[1].recording = IsSome(id)
    /\ at = "tick_kind" => l[1].storm_severity = TickOf(storm)[1]
    /\ at = "tick_log" => l = Some([tick |-> TickOf(storm)])

Shown ==
    /\ DOMAIN answer = Procs
    /\ \A p \in Procs : disturbed[p] \/ Shows(pc[p], loc[p], TheStorm, TheRun)
    /\ \A p \in Procs : IsSome(answer[p]) => answer[p][1] \in AnswersOf(TheStorm, TheRun)

LEMMA TheTickIs == TheTick = TickOf(TheStorm)
<1>1. CASE Running
  <2> DEFINE st == [kind |-> spec.kind, severity |-> spec.severity, started |-> startMs,
                    expires |-> IF expMs > 0 THEN Some(expMs) ELSE None]
  <2>1. TheStorm = Some(st) /\ st.kind = spec.kind /\ st.severity = spec.severity
    BY <1>1 DEF TheStorm
  <2> HIDE DEF st
  <2> QED
    BY <1>1, <2>1, Options DEF TheTick, TickOf
<1>2. CASE ~Running
  BY <1>2, Options DEF TheStorm, TheTick, TickOf
<1> QED
  BY <1>1, <1>2

(* The others: what they hold and what they answered is of the view, which *)
(* stays, or they are told.                                                *)
LEMMA OthersShown ==
    ASSUME Kept, Shown, NEW p \in Procs, NEW to \in Pcs, NEW l, NEW own, NEW a,
           \/ Goto(p, to, l, own)
           \/ First(p, to, l)
           \/ Respond(p, a) /\ to = "idle" /\ l = None,
           disturbed'[p] \/ Shows(to, l, TheStorm', TheRun'),
           IsSome(answer'[p]) => answer'[p][1] \in AnswersOf(TheStorm', TheRun')
    PROVE  Shown'
<1>t. ProcsTyped
  BY DEF Kept
<1>1. Turn(p, to, l)
  BY DEF Goto, First, Respond, Turn
<1>2. pc'[p] = to /\ loc'[p] = l /\ \A q \in Procs \ {p} : pc'[q] = pc[q] /\ loc'[q] = loc[q]
  BY <1>t, <1>1, TurnHolds
<1>3. /\ DOMAIN answer' = Procs
      /\ \A q \in Procs \ {p} : answer'[q] = IF View' # View THEN None ELSE answer[q]
      /\ \A q \in Procs \ {p} : disturbed'[q] = (pc[q] # "idle" /\ (disturbed[q] \/ View' # View))
  <2>1. CASE Goto(p, to, l, own)
    BY <2>1 DEF Goto
  <2>2. CASE First(p, to, l)
    BY <2>2 DEF First
  <2>3. CASE Respond(p, a)
    BY <2>3 DEF Respond
  <2> QED
    BY <2>1, <2>2, <2>3
<1>4. View' = View => TheStorm' = TheStorm /\ TheRun' = TheRun
  BY DEF View
<1>5. ASSUME NEW q \in Procs \ {p}
      PROVE  disturbed'[q] \/ Shows(pc'[q], loc'[q], TheStorm', TheRun')
  <2>1. CASE pc[q] = "idle"
    BY <1>2, <2>1 DEF Shows
  <2>2. CASE pc[q] # "idle" /\ View' # View
    BY <1>3, <2>2
  <2>3. CASE pc[q] # "idle" /\ View' = View
    BY <1>2, <1>3, <1>4, <2>3 DEF Shown
  <2> QED
    BY <2>1, <2>2, <2>3
<1>6. ASSUME NEW q \in Procs \ {p}, IsSome(answer'[q])
      PROVE  answer'[q][1] \in AnswersOf(TheStorm', TheRun')
  <2>1. View' = View /\ answer'[q] = answer[q]
    BY <1>3, <1>6 DEF IsSome
  <2> QED
    BY <1>4, <1>6, <2>1 DEF Shown
<1> QED
  BY <1>2, <1>3, <1>5, <1>6 DEF Shown

LEMMA ShownInit == Init => Shown
<1> SUFFICES ASSUME Init PROVE Shown
  OBVIOUS
<1>1. \A p \in Procs : pc[p] = "idle" /\ ~IsSome(answer[p])
  BY DEF Init, IsSome
<1> QED
  BY <1>1 DEF Init, Shown, Shows

(* When the view keeps the storm.                                          *)
LEMMA StormKept ==
    /\ UNCHANGED <<ctlVars, now>> => TheStorm' = TheStorm
    /\ CtlTyped /\ CheckExpiry => TheStorm' = TheStorm /\ Running' = Running
<1>1. ASSUME UNCHANGED <<ctlVars, now>> PROVE TheStorm' = TheStorm
  BY <1>1 DEF ctlVars, TheStorm, Running
<1>2. ASSUME CtlTyped, CheckExpiry PROVE TheStorm' = TheStorm /\ Running' = Running
  <2>1. active' = Running /\ UNCHANGED <<spec, startMs, expMs, now>>
    BY <1>2 DEF CheckExpiry
  <2>2. Running' = Running
    BY <2>1 DEF Running
  <2> QED
    BY <2>1, <2>2 DEF TheStorm
<1> QED
  BY <1>1, <1>2

(* A snapshot taken now is a picture of the storm.                         *)
LEMMA SnapshotPictures ==
    ASSUME Running', UNCHANGED spec, NEW s, s = SnapshotLocked(TRUE)
    PROVE  Pictures(s, TheStorm')
<1> DEFINE st == [kind |-> spec.kind, severity |-> spec.severity, started |-> startMs',
                  expires |-> IF expMs' > 0 THEN Some(expMs') ELSE None]
           sn == [kind |-> spec.kind, severity |-> spec.severity, hasExpiry |-> expMs' > 0]
<1>1. TheStorm' = Some(st)
  BY DEF TheStorm
<1>2. s = Some(sn)
  BY DEF SnapshotLocked
<1>3. IsSome(Some(st)) /\ Some(st)[1] = st /\ Some(sn)[1] = sn
  BY Options
<1>4. sn.kind = spec.kind /\ sn.severity = spec.severity /\ sn.hasExpiry = (expMs' > 0)
  OBVIOUS
<1>5. st.expires = IF expMs' > 0 THEN Some(expMs') ELSE None
  OBVIOUS
<1>6. IsSome(st.expires) <=> expMs' > 0
  BY <1>5, Options
<1>7. st = [kind |-> sn.kind, severity |-> sn.severity, started |-> st.started, expires |-> st.expires]
  OBVIOUS
<1> HIDE DEF st, sn
<1> QED
  BY <1>1, <1>2, <1>3, <1>4, <1>6, <1>7 DEF Pictures

(* What a storm's answer is made of.                                       *)
LEMMA StormIs ==
    ASSUME IsSome(TheStorm)
    PROVE  /\ TheStorm = Some(TheStorm[1]) /\ TheStorm[1].started = startMs
           /\ IsSome(TheStorm[1].expires) => TheStorm[1].expires = Some(expMs)
           /\ ~IsSome(TheStorm[1].expires) => TheStorm[1].expires = None
<1> DEFINE st == [kind |-> spec.kind, severity |-> spec.severity, started |-> startMs,
                  expires |-> IF expMs > 0 THEN Some(expMs) ELSE None]
<1>1. Running
  BY Options DEF TheStorm
<1>2. TheStorm = Some(st) /\ Some(st)[1] = st
  BY <1>1, Options DEF TheStorm
<1>3. /\ st.started = startMs
      /\ IsSome(st.expires) => st.expires = Some(expMs)
      /\ ~IsSome(st.expires) => st.expires = None
  BY Options
<1> HIDE DEF st
<1> QED
  BY <1>2, <1>3


(* A handler that goes on, or answers.                                     *)
LEMMA GoesOn ==
    ASSUME Kept, Shown, NEW p \in Procs, NEW to \in Pcs, NEW l, NEW own,
           Goto(p, to, l, own), own \/ Shows(to, l, TheStorm', TheRun')
    PROVE  Shown'
<1>1. disturbed'[p] = own /\ answer'[p] = None
  BY DEF Goto
<1>2. ~IsSome(answer'[p])
  BY <1>1 DEF IsSome
<1> QED
  BY <1>1, <1>2, OthersShown

LEMMA Begins ==
    ASSUME Kept, Shown, NEW p \in Procs, NEW to \in Pcs, NEW l,
           First(p, to, l), Shows(to, l, TheStorm', TheRun')
    PROVE  Shown'
<1>1. answer'[p] = None
  BY DEF First
<1>2. ~IsSome(answer'[p])
  BY <1>1 DEF IsSome
<1> QED
  BY <1>2, OthersShown

LEMMA Answers ==
    ASSUME Kept, Shown, NEW p \in Procs, NEW a, Respond(p, Some(a)),
           disturbed[p] \/ a \in AnswersOf(TheStorm', TheRun')
    PROVE  Shown'
<1>1. answer'[p] = IF disturbed[p] THEN None ELSE Some(a)
  BY DEF Respond
<1>2. IsSome(answer'[p]) => answer'[p][1] \in AnswersOf(TheStorm', TheRun')
  BY <1>1, Options
<1>3. Shows("idle", None, TheStorm', TheRun') /\ "idle" \in Pcs
  BY DEF Shows, Pcs
<1> QED
  BY <1>2, <1>3, OthersShown

LEMMA ShownStep == Kept /\ Shown /\ [Next]_vars => Shown'
<1> SUFFICES ASSUME Kept, Shown, [Next]_vars PROVE Shown'
  OBVIOUS
<1>t. CtlTyped /\ RunTyped /\ ProcsTyped
  BY DEF Kept
<1>o. \A p \in Procs : disturbed[p] \/ Shows(pc[p], loc[p], TheStorm, TheRun)
  BY DEF Shown
<1>i. "idle" \in Pcs /\ \A l, st, r : Shows("idle", l, st, r)
  BY DEF Shows, Pcs
<1>r. UNCHANGED recVars => TheRun' = TheRun
  BY DEF recVars, TheRun
<1>1. ASSUME NEW p \in Procs, NEW s \in Specs, StormStart(p, s) PROVE Shown'
  <2>1. First(p, "start_locked", None)
    BY <1>1 DEF StormStart
  <2>2. Shows("start_locked", None, TheStorm', TheRun') /\ "start_locked" \in Pcs
    BY DEF Shows, Pcs
  <2> QED
    BY <2>1, <2>2, Begins
<1>2. ASSUME NEW p \in Procs, StormStarted(p) PROVE Shown'
  <2> DEFINE sn == SnapshotLocked(active)
             l == Some([snap |-> sn, kind |-> spec.kind, gen |-> starts])
  <2>1. StartUnlock(p) /\ Goto(p, "start_log", l, ~Running')
    BY <1>2 DEF StormStarted
  <2>2. active = TRUE /\ UNCHANGED spec
    BY <1>t, <2>1 DEF StartUnlock, CtlTyped
  <2>3. sn = SnapshotLocked(TRUE)
    BY <2>2 DEF SnapshotLocked
  <2> HIDE DEF sn
  <2>4. l[1].snap = sn
    BY Options
  <2>5. Running' => Pictures(sn, TheStorm')
    BY <2>2, <2>3, SnapshotPictures
  <2> HIDE DEF l
  <2>6. ~Running' \/ Shows("start_log", l, TheStorm', TheRun')
    BY <2>4, <2>5 DEF Shows
  <2>7. "start_log" \in Pcs
    BY DEF Pcs
  <2> QED
    BY <2>1, <2>6, <2>7, GoesOn
<1>3. ASSUME NEW p \in Procs, StormStartLogged(p) PROVE Shown'
  <2>1. pc[p] = "start_log" /\ Goto(p, "encode_started", loc[p][1].snap, disturbed[p])
    BY <1>3 DEF StormStartLogged
  <2>2. TheStorm' = TheStorm
    BY <1>3, StormKept DEF StormStartLogged, LogStormStart
  <2>3. disturbed[p] \/ Pictures(loc[p][1].snap, TheStorm')
    BY <1>o, <2>1, <2>2 DEF Shows
  <2>4. disturbed[p] \/ Shows("encode_started", loc[p][1].snap, TheStorm', TheRun')
    BY <2>3 DEF Shows
  <2>5. "encode_started" \in Pcs
    BY DEF Pcs
  <2> QED
    BY <2>1, <2>4, <2>5, GoesOn
<1>4. ASSUME NEW p \in Procs, EncodeStarted(p) PROVE Shown'
  <2> DEFINE s == loc[p][1]
             a == [kind |-> s.kind, severity |-> s.severity, started |-> startMs, expires |-> None]
  <2>1. /\ pc[p] = "encode_started" /\ TheStorm' = TheStorm
        /\ IF s.hasExpiry THEN Goto(p, "encode_expires", Some(a), disturbed[p])
           ELSE Respond(p, Some([storm |-> Some(a)]))
    BY <1>4, StormKept DEF EncodeStarted
  <2>2. disturbed[p] \/ Pictures(loc[p], TheStorm)
    BY <1>o, <2>1 DEF Shows
  <2>3. ASSUME Pictures(loc[p], TheStorm)
        PROVE  /\ IsSome(TheStorm) /\ TheStorm = Some(TheStorm[1])
               /\ s.hasExpiry <=> IsSome(TheStorm[1].expires)
               /\ a = [kind |-> TheStorm[1].kind, severity |-> TheStorm[1].severity,
                       started |-> TheStorm[1].started, expires |-> None]
               /\ ~s.hasExpiry => a = TheStorm[1]
    <3>1. /\ IsSome(TheStorm) /\ (s.hasExpiry <=> IsSome(TheStorm[1].expires))
          /\ TheStorm[1] = [kind |-> s.kind, severity |-> s.severity,
                            started |-> TheStorm[1].started, expires |-> TheStorm[1].expires]
      BY <2>3 DEF Pictures
    <3>2. /\ TheStorm = Some(TheStorm[1]) /\ TheStorm[1].started = startMs
          /\ ~IsSome(TheStorm[1].expires) => TheStorm[1].expires = None
      BY <3>1, StormIs
    <3>3. TheStorm[1].kind = s.kind /\ TheStorm[1].severity = s.severity
      BY <3>1
    <3> QED
      BY <3>1, <3>2, <3>3
  <2> HIDE DEF s, a
  <2>4. CASE s.hasExpiry
    <3>1. disturbed[p] \/ Misses(Some(a), TheStorm')
      BY <2>1, <2>2, <2>3, <2>4 DEF Misses
    <3>2. disturbed[p] \/ Shows("encode_expires", Some(a), TheStorm', TheRun')
      BY <3>1 DEF Shows
    <3>3. "encode_expires" \in Pcs
      BY DEF Pcs
    <3> QED
      BY <2>1, <2>4, <3>2, <3>3, GoesOn
  <2>5. CASE ~s.hasExpiry
    <3>1. disturbed[p] \/ [storm |-> Some(a)] = [storm |-> TheStorm']
      BY <2>1, <2>2, <2>3, <2>5
    <3>2. disturbed[p] \/ [storm |-> Some(a)] \in AnswersOf(TheStorm', TheRun')
      BY <3>1 DEF AnswersOf
    <3> QED
      BY <2>1, <2>5, <3>2, Answers
  <2> QED
    BY <2>4, <2>5
<1>5. ASSUME NEW p \in Procs, EncodeExpires(p) PROVE Shown'
  <2> DEFINE a == [storm |-> [loc[p] EXCEPT ![1].expires = Some(expMs)]]
  <2>1. pc[p] = "encode_expires" /\ TheStorm' = TheStorm /\ Respond(p, Some(a))
    BY <1>5, StormKept DEF EncodeExpires
  <2>2. disturbed[p] \/ Misses(loc[p], TheStorm)
    BY <1>o, <2>1 DEF Shows
  <2>3. ASSUME Misses(loc[p], TheStorm) PROVE a = [storm |-> TheStorm]
    <3> DEFINE st == TheStorm[1]
               m == [kind |-> st.kind, severity |-> st.severity, started |-> st.started, expires |-> None]
    <3>1. IsSome(TheStorm) /\ IsSome(st.expires) /\ loc[p] = Some(m)
      BY <2>3 DEF Misses
    <3>2. TheStorm = Some(st) /\ st.expires = Some(expMs)
      BY <3>1, StormIs
    <3>3. st = [kind |-> st.kind, severity |-> st.severity, started |-> st.started, expires |-> st.expires]
      <4>1. Running
        BY <3>1, Options DEF TheStorm
      <4> DEFINE u == [kind |-> spec.kind, severity |-> spec.severity, started |-> startMs,
                       expires |-> IF expMs > 0 THEN Some(expMs) ELSE None]
      <4>2. TheStorm = Some(u) /\ Some(u)[1] = u
        BY <4>1, Options DEF TheStorm
      <4>3. u = [kind |-> u.kind, severity |-> u.severity, started |-> u.started, expires |-> u.expires]
        OBVIOUS
      <4> HIDE DEF u
      <4> QED
        BY <4>2, <4>3
    <3>4. [m EXCEPT !.expires = Some(expMs)] = [kind |-> st.kind, severity |-> st.severity,
                                                 started |-> st.started, expires |-> Some(expMs)]
      OBVIOUS
    <3>5. [m EXCEPT !.expires = Some(expMs)] = st
      BY <3>2, <3>3, <3>4
    <3>6. Some(m)[1] = m /\ [Some(m) EXCEPT ![1] = st] = Some(st)
      BY Options, OptionReplaced
    <3> HIDE DEF m, st
    <3>7. [loc[p] EXCEPT ![1].expires = Some(expMs)]
             = [Some(m) EXCEPT ![1] = [Some(m)[1] EXCEPT !.expires = Some(expMs)]]
      BY <3>1
    <3>8. [loc[p] EXCEPT ![1].expires = Some(expMs)] = TheStorm
      BY <3>2, <3>5, <3>6, <3>7
    <3> QED
      BY <3>8
  <2> HIDE DEF a
  <2>4. disturbed[p] \/ a \in AnswersOf(TheStorm', TheRun')
    BY <2>1, <2>2, <2>3 DEF AnswersOf
  <2> QED
    BY <2>1, <2>4, Answers
<1>6. ASSUME NEW p \in Procs, StormStop(p) PROVE Shown'
  <2>1. \E l : First(p, "stop_stop", l)
    BY <1>6 DEF StormStop
  <2>2. (\A l : Shows("stop_stop", l, TheStorm', TheRun')) /\ "stop_stop" \in Pcs
    BY DEF Shows, Pcs
  <2> QED
    BY <2>1, <2>2, Begins
<1>7. ASSUME NEW p \in Procs, StormStopped(p) PROVE Shown'
  <2>1. Goto(p, "stop_log", loc[p], FALSE) /\ active' = FALSE
    BY <1>7 DEF StormStopped, Stop
  <2>2. ~IsSome(TheStorm')
    BY <2>1, Options DEF TheStorm, Running
  <2>3. Shows("stop_log", loc[p], TheStorm', TheRun') /\ "stop_log" \in Pcs
    BY <2>2 DEF Shows, Pcs
  <2> QED
    BY <2>1, <2>3, GoesOn
<1>8. ASSUME NEW p \in Procs, StormStopLogged(p) PROVE Shown'
  <2>1. pc[p] = "stop_log" /\ Respond(p, Some([storm |-> None])) /\ TheStorm' = TheStorm
    BY <1>8, StormKept DEF StormStopLogged, LogStormStop
  <2>2. disturbed[p] \/ TheStorm' = None
    BY <1>o, <2>1 DEF Shows, IsSome
  <2>3. disturbed[p] \/ [storm |-> None] \in AnswersOf(TheStorm', TheRun')
    BY <2>2 DEF AnswersOf
  <2> QED
    BY <2>1, <2>3, Answers
<1>9. ASSUME NEW p \in Procs, StormStatus(p) PROVE Shown'
  <2>1. CheckExpiry /\ Running' = Running /\ TheStorm' = TheStorm /\ UNCHANGED spec
    BY <1>9, <1>t, StormKept DEF StormStatus, CheckExpiry
  <2>2. CASE Running
    <3>1. First(p, "encode_started", SnapshotLocked(TRUE))
      BY <1>9, <2>2 DEF StormStatus
    <3>2. Pictures(SnapshotLocked(TRUE), TheStorm')
      BY <2>1, <2>2, SnapshotPictures
    <3>3. Shows("encode_started", SnapshotLocked(TRUE), TheStorm', TheRun') /\ "encode_started" \in Pcs
      BY <3>2 DEF Shows, Pcs
    <3> QED
      BY <3>1, <3>3, Begins
  <2>3. CASE ~Running
    <3>1. First(p, "encode_idle", None)
      BY <1>9, <2>3 DEF StormStatus
    <3>2. ~IsSome(TheStorm')
      BY <2>1, <2>3, Options DEF TheStorm
    <3>3. Shows("encode_idle", None, TheStorm', TheRun') /\ "encode_idle" \in Pcs
      BY <3>2 DEF Shows, Pcs
    <3> QED
      BY <3>1, <3>3, Begins
  <2> QED
    BY <2>2, <2>3
<1>10. ASSUME NEW p \in Procs, EncodeIdle(p) PROVE Shown'
  <2>1. pc[p] = "encode_idle" /\ Respond(p, Some([storm |-> None])) /\ TheStorm' = TheStorm
    BY <1>10, StormKept DEF EncodeIdle
  <2>2. disturbed[p] \/ TheStorm' = None
    BY <1>o, <2>1 DEF Shows, IsSome
  <2>3. disturbed[p] \/ [storm |-> None] \in AnswersOf(TheStorm', TheRun')
    BY <2>2 DEF AnswersOf
  <2> QED
    BY <2>1, <2>3, Answers
<1>11. ASSUME NEW p \in Procs, RunStartRequest(p) \/ RunStopRequest(p) \/ Reset(p) PROVE Shown'
  <2>1. First(p, "idle", None)
    BY <1>11 DEF RunStartRequest, RunStopRequest, Reset
  <2> QED
    BY <1>i, <2>1, Begins
<1>12. ASSUME NEW p \in Procs, RunStatus(p) PROVE Shown'
  <2> DEFINE l == Some([recording |-> IsSome(run)])
  <2>1. First(p, "run_id", l) /\ run' = run
    BY <1>12 DEF RunStatus, recVars
  <2>2. l[1].recording = IsSome(run)
    BY Options
  <2>3. IsSome(TheRun') = IsSome(run)
    <3>1. CASE run = None
      <4>1. TheRun' = None
        BY <2>1, <3>1, Options DEF TheRun
      <4> QED
        BY <4>1, <3>1
    <3>2. CASE run # None
      <4>1. TheRun' = Some(run[1].id)
        BY <2>1, <3>2 DEF TheRun, IsSome
      <4>2. IsSome(TheRun') /\ IsSome(run)
        BY <4>1, <3>2, Options DEF IsSome
      <4>3. IsSome(TheRun') = TRUE /\ IsSome(run) = TRUE
        BY <4>2 DEF IsSome
      <4> QED
        BY <4>3
    <3> QED
      BY <3>1, <3>2
  <2> HIDE DEF l
  <2>4. Shows("run_id", l, TheStorm', TheRun') /\ "run_id" \in Pcs
    BY <2>2, <2>3 DEF Shows, Pcs
  <2> QED
    BY <2>1, <2>4, Begins
<1>13. ASSUME NEW p \in Procs, RunStatusId(p) PROVE Shown'
  <2> DEFINE a == [status |-> <<loc[p][1].recording, TheRun>>]
  <2>1. pc[p] = "run_id" /\ Respond(p, Some(a)) /\ TheRun' = TheRun
    BY <1>13, <1>r DEF RunStatusId
  <2>2. disturbed[p] \/ loc[p][1].recording = IsSome(TheRun')
    BY <1>o, <2>1 DEF Shows
  <2>3. disturbed[p] \/ a = [status |-> <<IsSome(TheRun'), TheRun'>>]
    BY <2>1, <2>2
  <2> HIDE DEF a
  <2>4. disturbed[p] \/ a \in AnswersOf(TheStorm', TheRun')
    BY <2>3 DEF AnswersOf
  <2> QED
    BY <2>1, <2>4, Answers
<1>14. ASSUME NEW p \in Procs, StreamTick(p) PROVE Shown'
  <2> DEFINE l == Some([storm_severity |-> ActiveSeverity])
  <2>1. First(p, "tick_kind", l) /\ TheStorm' = TheStorm
    BY <1>14, <1>t, StormKept DEF StreamTick
  <2>2. l[1].storm_severity = ActiveSeverity
    BY Options
  <2>3. ActiveSeverity = TheTick[1]
    BY DEF ActiveSeverity, TheTick
  <2>4. ActiveSeverity = TickOf(TheStorm')[1]
    BY <2>1, <2>3, TheTickIs
  <2> HIDE DEF l
  <2>5. Shows("tick_kind", l, TheStorm', TheRun') /\ "tick_kind" \in Pcs
    BY <2>2, <2>4 DEF Shows, Pcs
  <2> QED
    BY <2>1, <2>5, Begins
<1>15. ASSUME NEW p \in Procs, TickKind(p) PROVE Shown'
  <2> DEFINE l == Some([tick |-> <<loc[p][1].storm_severity, ActiveKind>>])
  <2>1. pc[p] = "tick_kind" /\ Goto(p, "tick_log", l, disturbed[p]) /\ TheStorm' = TheStorm
    BY <1>15, <1>t, StormKept DEF TickKind
  <2>2. disturbed[p] \/ loc[p][1].storm_severity = TheTick[1]
    BY <1>o, <2>1, TheTickIs DEF Shows
  <2>3. ActiveKind = TheTick[2] /\ TheTick = <<TheTick[1], TheTick[2]>>
    BY DEF ActiveKind, TheTick
  <2>4. disturbed[p] \/ l = Some([tick |-> TheTick])
    BY <2>2, <2>3
  <2> HIDE DEF l
  <2>5. disturbed[p] \/ Shows("tick_log", l, TheStorm', TheRun')
    BY <2>1, <2>4, TheTickIs DEF Shows
  <2>6. "tick_log" \in Pcs
    BY DEF Pcs
  <2> QED
    BY <2>1, <2>5, <2>6, GoesOn
<1>16. ASSUME NEW p \in Procs, TickLogged(p) PROVE Shown'
  <2>1. pc[p] = "tick_log" /\ Respond(p, loc[p]) /\ TheStorm' = TheStorm
    BY <1>16, StormKept DEF TickLogged, LogTick
  <2>2. disturbed[p] \/ loc[p] = Some([tick |-> TickOf(TheStorm')])
    BY <1>o, <2>1 DEF Shows
  <2>3. CASE disturbed[p]
    <3>1. answer'[p] = None
      BY <2>1, <2>3 DEF Respond
    <3>2. ~IsSome(answer'[p])
      BY <3>1 DEF IsSome
    <3> QED
      BY <1>i, <2>1, <3>2, OthersShown
  <2>4. CASE loc[p] = Some([tick |-> TickOf(TheStorm')])
    <3>1. [tick |-> TickOf(TheStorm')] \in AnswersOf(TheStorm', TheRun')
      BY DEF AnswersOf
    <3>2. Respond(p, Some([tick |-> TickOf(TheStorm')]))
      BY <2>1, <2>4
    <3> QED
      BY <3>1, <3>2, Answers
  <2> QED
    BY <2>2, <2>3, <2>4
<1>17. ASSUME TimePasses PROVE Shown'
  <2>1. /\ UNCHANGED <<pc, loc>> /\ DOMAIN answer' = Procs
        /\ \A q \in Procs : disturbed'[q] = (pc[q] # "idle" /\ (disturbed[q] \/ View' # View))
        /\ \A q \in Procs : answer'[q] = IF View' # View THEN None ELSE answer[q]
    BY <1>17 DEF TimePasses
  <2>2. View' = View => TheStorm' = TheStorm /\ TheRun' = TheRun
    BY DEF View
  <2>3. ASSUME NEW q \in Procs PROVE disturbed'[q] \/ Shows(pc'[q], loc'[q], TheStorm', TheRun')
    <3>1. CASE pc[q] = "idle"
      BY <1>i, <2>1, <3>1
    <3>2. CASE pc[q] # "idle" /\ View' # View
      BY <2>1, <3>2
    <3>3. CASE pc[q] # "idle" /\ View' = View
      BY <1>o, <2>1, <2>2, <3>3
    <3> QED
      BY <3>1, <3>2, <3>3
  <2>4. ASSUME NEW q \in Procs, IsSome(answer'[q])
        PROVE  answer'[q][1] \in AnswersOf(TheStorm', TheRun')
    <3>1. View' = View /\ answer'[q] = answer[q]
      BY <2>1, <2>4 DEF IsSome
    <3> QED
      BY <2>2, <2>4, <3>1 DEF Shown
  <2> QED
    BY <2>1, <2>3, <2>4 DEF Shown
<1>18. ASSUME UNCHANGED vars PROVE Shown'
  <2>1. UNCHANGED <<pc, loc, answer, disturbed>> /\ TheStorm' = TheStorm /\ TheRun' = TheRun
    BY <1>18, <1>r, StormKept DEF vars
  <2> QED
    BY <2>1 DEF Shown
<1> QED
  BY <1>1, <1>2, <1>3, <1>4, <1>5, <1>6, <1>7, <1>8, <1>9, <1>10, <1>11, <1>12, <1>13, <1>14,
     <1>15, <1>16, <1>17, <1>18 DEF Next, Step, Request

-----------------------------------------------------------------------------
(* The events of a run directory.                                          *)

EventNames == {"run_start", "run_stop", "storm_start", "storm_stop"}

(* Runs open at event i, and at the end.                                   *)
OpenAt(ev, i) ==
    Cardinality({j \in Opens(ev) : j <= i}) - Cardinality({j \in Closes(ev) : j < i})

Balance(ev) == Cardinality(Opens(ev)) - Cardinality(Closes(ev))

(* m is where the run that event i belongs to starts.                      *)
Latest(ev, m, i) == m \in Opens(ev) /\ m <= i /\ \A j \in Opens(ev) : j <= i => j <= m

Since(ev, m, i) == Cardinality({j \in m..i : ev[j] = "storm_start"})

(* The open run of the file has k storms so far.                           *)
Counting(ev, k) == \E m \in Opens(ev) : Latest(ev, m, Len(ev)) /\ Since(ev, m, Len(ev)) = k

(* A closed run of the file has k storms.                                  *)
Listed(ev, k) ==
    \E i \in Closes(ev) : \E m \in Opens(ev) : Latest(ev, m, i) /\ Since(ev, m, i) = k

LEMMA LatestIsOpened ==
    ASSUME NEW ev \in Seq(EventNames), NEW m, NEW i \in Nat, Latest(ev, m, i)
    PROVE  OpenedAt(ev, i) = m
<1> DEFINE S == {j \in Opens(ev) : j <= i}
<1>1. Opens(ev) \subseteq Nat
  BY LenProperties DEF Opens
<1>2. m \in S /\ \A j \in S : m >= j
  BY <1>1 DEF Latest
<1>3. \A x \in S : (\A y \in S : x >= y) => x = m
  <2> SUFFICES ASSUME NEW x \in S, \A y \in S : x >= y PROVE x = m
    OBVIOUS
  <2>1. x >= m /\ m >= x /\ x \in Nat /\ m \in Nat
    BY <1>1, <1>2
  <2> QED
    BY <2>1
<1> QED
  BY <1>2, <1>3 DEF OpenedAt, Max

LEMMA EventAppended ==
    ASSUME NEW ev \in Seq(EventNames), NEW e \in EventNames
    PROVE  /\ Append(ev, e) \in Seq(EventNames) /\ Len(ev) \in Nat /\ Len(Append(ev, e)) = Len(ev) + 1
           /\ DOMAIN ev = 1..Len(ev) /\ DOMAIN Append(ev, e) = 1..(Len(ev) + 1)
           /\ \A i \in 1..Len(ev) : Append(ev, e)[i] = ev[i]
           /\ Append(ev, e)[Len(ev) + 1] = e
BY AppendProperties, LenProperties

LEMMA OpensAppended ==
    ASSUME NEW ev \in Seq(EventNames), NEW e \in EventNames
    PROVE  /\ Opens(Append(ev, e)) = IF e = "run_start" THEN Opens(ev) \cup {Len(ev) + 1} ELSE Opens(ev)
           /\ Closes(Append(ev, e)) = IF e = "run_stop" THEN Closes(ev) \cup {Len(ev) + 1} ELSE Closes(ev)
           /\ Opens(ev) \subseteq 1..Len(ev) /\ Closes(ev) \subseteq 1..Len(ev)
           /\ IsFiniteSet(Opens(ev)) /\ IsFiniteSet(Closes(ev))
<1> DEFINE n == Len(ev)
           w == Append(ev, e)
<1>1. /\ n \in Nat /\ DOMAIN ev = 1..n /\ DOMAIN w = 1..(n + 1)
      /\ \A i \in 1..n : w[i] = ev[i]
      /\ w[n + 1] = e
  BY EventAppended
<1>2. Opens(ev) \subseteq 1..n /\ Closes(ev) \subseteq 1..n
  BY <1>1 DEF Opens, Closes
<1>3. IsFiniteSet(1..n)
  BY <1>1, FS_Interval
<1>4. IsFiniteSet(Opens(ev)) /\ IsFiniteSet(Closes(ev))
  BY <1>2, <1>3, FS_Subset
<1> HIDE DEF n, w
<1>5. \A i : i \in 1..(n + 1) <=> i \in 1..n \/ i = n + 1
  BY <1>1
<1>6. \A x \in EventNames : {i \in DOMAIN w : w[i] = x}
                = IF e = x THEN {i \in DOMAIN ev : ev[i] = x} \cup {n + 1} ELSE {i \in DOMAIN ev : ev[i] = x}
  BY <1>1, <1>5
<1> QED
  BY <1>2, <1>4, <1>6 DEF Opens, Closes, EventNames, n, w

LEMMA BalanceAppended ==
    ASSUME NEW ev \in Seq(EventNames), NEW e \in EventNames
    PROVE  /\ Balance(ev) \in Int
           /\ Balance(Append(ev, e)) = IF e = "run_start" THEN Balance(ev) + 1
                                       ELSE IF e = "run_stop" THEN Balance(ev) - 1 ELSE Balance(ev)
           /\ OpenAt(Append(ev, e), Len(ev) + 1) = IF e = "run_start" THEN Balance(ev) + 1 ELSE Balance(ev)
           /\ \A i \in 1..Len(ev) : OpenAt(Append(ev, e), i) = OpenAt(ev, i)
<1> DEFINE n == Len(ev)
           w == Append(ev, e)
<1>1. n \in Nat
  BY EventAppended
<1>2. /\ Opens(w) = IF e = "run_start" THEN Opens(ev) \cup {n + 1} ELSE Opens(ev)
      /\ Closes(w) = IF e = "run_stop" THEN Closes(ev) \cup {n + 1} ELSE Closes(ev)
      /\ Opens(ev) \subseteq 1..n /\ Closes(ev) \subseteq 1..n
      /\ IsFiniteSet(Opens(ev)) /\ IsFiniteSet(Closes(ev))
  BY OpensAppended
<1> HIDE DEF n, w
<1>3. n + 1 \notin Opens(ev) /\ n + 1 \notin Closes(ev)
  BY <1>1, <1>2
<1>4. /\ Cardinality(Opens(ev)) \in Nat /\ Cardinality(Closes(ev)) \in Nat
      /\ Cardinality(Opens(ev) \cup {n + 1}) = Cardinality(Opens(ev)) + 1
      /\ Cardinality(Closes(ev) \cup {n + 1}) = Cardinality(Closes(ev)) + 1
  BY <1>2, <1>3, FS_CardinalityType, FS_AddElement
<1>5. /\ Cardinality(Opens(w)) = IF e = "run_start" THEN Cardinality(Opens(ev)) + 1 ELSE Cardinality(Opens(ev))
      /\ Cardinality(Closes(w)) = IF e = "run_stop" THEN Cardinality(Closes(ev)) + 1 ELSE Cardinality(Closes(ev))
  BY <1>2, <1>4
<1>6. {j \in Opens(w) : j <= n + 1} = Opens(w) /\ {j \in Closes(w) : j < n + 1} = Closes(ev)
  BY <1>1, <1>2
<1>7. ASSUME NEW i \in 1..n PROVE OpenAt(w, i) = OpenAt(ev, i)
  <2>1. /\ {j \in Opens(w) : j <= i} = {j \in Opens(ev) : j <= i}
        /\ {j \in Closes(w) : j < i} = {j \in Closes(ev) : j < i}
    BY <1>1, <1>2
  <2> QED
    BY <2>1 DEF OpenAt
<1>8. Balance(ev) \in Int
  BY <1>4 DEF Balance
<1>9. Balance(w) = IF e = "run_start" THEN Balance(ev) + 1
                   ELSE IF e = "run_stop" THEN Balance(ev) - 1 ELSE Balance(ev)
  BY <1>4, <1>5 DEF Balance
<1>10. OpenAt(w, n + 1) = IF e = "run_start" THEN Balance(ev) + 1 ELSE Balance(ev)
  <2>1. OpenAt(w, n + 1) = Cardinality(Opens(w)) - Cardinality(Closes(ev))
    BY <1>6 DEF OpenAt
  <2> QED
    BY <1>4, <1>5, <2>1 DEF Balance
<1> QED
  BY <1>7, <1>8, <1>9, <1>10 DEF n, w

(* What was counted stays counted.                                         *)
LEMMA SinceKept ==
    ASSUME NEW ev \in Seq(EventNames), NEW e \in EventNames, NEW i \in 1..Len(ev), NEW m,
           Latest(ev, m, i)
    PROVE  Latest(Append(ev, e), m, i) /\ Since(Append(ev, e), m, i) = Since(ev, m, i)
<1> DEFINE n == Len(ev)
           w == Append(ev, e)
<1>1. n \in Nat /\ \A j \in 1..n : w[j] = ev[j]
  BY EventAppended
<1>2. /\ Opens(w) = IF e = "run_start" THEN Opens(ev) \cup {n + 1} ELSE Opens(ev)
      /\ Opens(ev) \subseteq 1..n
  BY OpensAppended
<1> HIDE DEF n, w
<1>3. i \in 1..n
  BY DEF n
<1>4. Latest(w, m, i)
  BY <1>1, <1>2, <1>3 DEF Latest
<1>5. {j \in m..i : w[j] = "storm_start"} = {j \in m..i : ev[j] = "storm_start"}
  <2>1. m \in 1..n
    BY <1>2 DEF Latest
  <2>2. m..i \subseteq 1..n
    BY <1>1, <1>3, <2>1
  <2> QED
    BY <1>1, <2>2
<1> QED
  BY <1>4, <1>5 DEF Since, w

LEMMA ListedKept ==
    ASSUME NEW ev \in Seq(EventNames), NEW e \in EventNames, NEW k, Listed(ev, k)
    PROVE  Listed(Append(ev, e), k)
<1>1. PICK i \in Closes(ev), m \in Opens(ev) : Latest(ev, m, i) /\ Since(ev, m, i) = k
  BY DEF Listed
<1>2. i \in 1..Len(ev)
  BY OpensAppended
<1>3. Latest(Append(ev, e), m, i) /\ Since(Append(ev, e), m, i) = k
  BY <1>1, <1>2, SinceKept
<1>4. i \in Closes(Append(ev, e)) /\ m \in Opens(Append(ev, e))
  BY OpensAppended
<1> QED
  BY <1>3, <1>4 DEF Listed

(* The open run counts the event that follows.                             *)
LEMMA SinceExtended ==
    ASSUME NEW ev \in Seq(EventNames), NEW e \in EventNames, e # "run_start", NEW m \in Opens(ev),
           Latest(ev, m, Len(ev))
    PROVE  /\ Latest(Append(ev, e), m, Len(ev) + 1) /\ Since(ev, m, Len(ev)) \in Nat
           /\ Since(Append(ev, e), m, Len(ev) + 1)
                = IF e = "storm_start" THEN Since(ev, m, Len(ev)) + 1 ELSE Since(ev, m, Len(ev))
<1> DEFINE n == Len(ev)
           w == Append(ev, e)
           S == {j \in m..n : ev[j] = "storm_start"}
<1>1. n \in Nat /\ (\A j \in 1..n : w[j] = ev[j]) /\ w[n + 1] = e
  BY EventAppended
<1>2. Opens(w) = Opens(ev) /\ Opens(ev) \subseteq 1..n
  BY OpensAppended
<1>3. m \in 1..n
  BY <1>2
<1>4. IsFiniteSet(S) /\ n + 1 \notin S
  <2>1. IsFiniteSet(1..n)
    BY <1>1, FS_Interval
  <2>2. S \subseteq 1..n
    BY <1>1, <1>3
  <2> QED
    BY <1>1, <2>1, <2>2, FS_Subset
<1>5. Cardinality(S) \in Nat /\ Cardinality(S \cup {n + 1}) = Cardinality(S) + 1
  BY <1>4, FS_CardinalityType, FS_AddElement
<1> HIDE DEF n, w
<1>6. {j \in m..(n + 1) : w[j] = "storm_start"} = IF e = "storm_start" THEN S \cup {n + 1} ELSE S
  <2>1. \A j : j \in m..(n + 1) <=> j \in m..n \/ j = n + 1
    BY <1>1, <1>3
  <2>2. m..n \subseteq 1..n
    BY <1>1, <1>3
  <2> QED
    BY <1>1, <2>1, <2>2
<1>7. Latest(w, m, n + 1)
  BY <1>1, <1>2, <1>3 DEF Latest, n
<1> QED
  BY <1>5, <1>6, <1>7 DEF Since, n, w

LEMMA CountingExtended ==
    ASSUME NEW ev \in Seq(EventNames), NEW k, Counting(ev, k)
    PROVE  /\ k \in Nat /\ Counting(Append(ev, "storm_start"), k + 1)
           /\ Counting(Append(ev, "storm_stop"), k)
           /\ Listed(Append(ev, "run_stop"), k)
<1>1. PICK m \in Opens(ev) : Latest(ev, m, Len(ev)) /\ Since(ev, m, Len(ev)) = k
  BY DEF Counting
<1>2. ASSUME NEW e \in EventNames, e # "run_start"
      PROVE  /\ Latest(Append(ev, e), m, Len(ev) + 1) /\ k \in Nat
             /\ Since(Append(ev, e), m, Len(ev) + 1) = IF e = "storm_start" THEN k + 1 ELSE k
             /\ Len(Append(ev, e)) = Len(ev) + 1 /\ m \in Opens(Append(ev, e))
             /\ e = "run_stop" => Len(ev) + 1 \in Closes(Append(ev, e))
  BY <1>1, <1>2, SinceExtended, EventAppended, OpensAppended
<1>3. k \in Nat /\ Counting(Append(ev, "storm_start"), k + 1)
  BY <1>2 DEF Counting, EventNames
<1>4. Counting(Append(ev, "storm_stop"), k)
  BY <1>2 DEF Counting, EventNames
<1>5. Listed(Append(ev, "run_stop"), k)
  BY <1>2 DEF Listed, EventNames
<1> QED
  BY <1>3, <1>4, <1>5

LEMMA CountingBegins ==
    ASSUME NEW ev \in Seq(EventNames)
    PROVE  Counting(Append(ev, "run_start"), 0)
<1> DEFINE n == Len(ev)
           w == Append(ev, "run_start")
<1>1. n \in Nat /\ w[n + 1] = "run_start" /\ Len(w) = n + 1
  BY EventAppended DEF EventNames
<1>2. Opens(w) = Opens(ev) \cup {n + 1} /\ Opens(ev) \subseteq 1..n
  BY OpensAppended DEF EventNames
<1> HIDE DEF n, w
<1>3. Latest(w, n + 1, n + 1)
  BY <1>1, <1>2 DEF Latest
<1>4. {j \in (n + 1)..(n + 1) : w[j] = "storm_start"} = {}
  BY <1>1
<1>5. Since(w, n + 1, n + 1) = 0
  BY <1>4, FS_EmptySet DEF Since
<1> QED
  BY <1>1, <1>2, <1>3, <1>5 DEF Counting, w

-----------------------------------------------------------------------------
(* A run directory and the disk.                                           *)

IsDir(d) ==
    /\ d = [events |-> d.events, lost |-> d.lost, unended |-> d.unended, manifest |-> d.manifest]
    /\ d.events \in Seq(EventNames)

Explained(m) ==
    /\ m.verdict = "TARGET_KILLED" <=> m.delta < KilledBelow
    /\ m.verdict = "TARGET_INTACT" <=> m.delta >= DamagedBelow
    /\ m.silent => m.delta = 0 /\ m.verdict = "TARGET_INTACT"

Certified(d) ==
    IsSome(d.manifest) =>
        /\ d.manifest = Some(d.manifest[1])
        /\ Listed(d.events, d.manifest[1].storms)
        /\ Explained(d.manifest[1])

Bracketed(d, open) ==
    /\ \A i \in DOMAIN d.events : OpenAt(d.events, i) = 1
    /\ Balance(d.events) = IF open THEN 1 ELSE 0

Filed(d, open) == IsDir(d) /\ Bracketed(d, open) /\ Certified(d)

Recording(id) == IsSome(run) /\ run[1].id = id

Archived ==
    /\ \A id \in DOMAIN disk : Filed(disk[id], Recording(id))
    /\ IsSome(run) => /\ run[1].id \in DOMAIN disk
                      /\ Counting(disk[run[1].id].events, Len(run[1].storms))

LEMMA DirAppended ==
    ASSUME NEW d, IsDir(d), NEW e \in EventNames, NEW w
    PROVE  LET n == Written(d, e, w)
           IN  IsDir(n) /\ n.events = Append(d.events, e) /\ n.manifest = d.manifest
<1> DEFINE x == Append(d.events, e)
           mf == d.manifest
           l == d.lost \cup LostBy(d, w)
           u == IF w.newline THEN {}
                ELSE d.unended \cup (IF w.body # "none" THEN {Len(d.events) + 1} ELSE {})
           r == [events |-> x, lost |-> l, unended |-> u, manifest |-> mf]
<1>1. x \in Seq(EventNames)
  BY EventAppended DEF IsDir
<1>2. Written(d, e, w) = r
  BY DEF Written
<1> HIDE DEF x, mf, l, u
<1>3. r.events = x /\ r.lost = l /\ r.unended = u /\ r.manifest = mf
  OBVIOUS
<1>4. IsDir(r)
  BY <1>1, <1>3 DEF IsDir
<1> HIDE DEF r
<1> QED
  BY <1>2, <1>3, <1>4 DEF x, mf

LEMMA FiledAppended ==
    ASSUME NEW d, NEW open \in BOOLEAN, Filed(d, open), NEW e \in EventNames,
           (e = "run_start") <=> ~open, NEW wr
    PROVE  Filed(Written(d, e, wr), e # "run_stop")
<1> DEFINE n == Written(d, e, wr)
           ev == d.events
           w == Append(ev, e)
<1>1. IsDir(n) /\ n.events = w /\ n.manifest = d.manifest
  BY DirAppended DEF Filed
<1>2. ev \in Seq(EventNames)
  BY DEF Filed, IsDir
<1>3. /\ Balance(ev) \in Int
      /\ Balance(w) = IF e = "run_start" THEN Balance(ev) + 1
                      ELSE IF e = "run_stop" THEN Balance(ev) - 1 ELSE Balance(ev)
      /\ OpenAt(w, Len(ev) + 1) = IF e = "run_start" THEN Balance(ev) + 1 ELSE Balance(ev)
      /\ \A i \in 1..Len(ev) : OpenAt(w, i) = OpenAt(ev, i)
  BY <1>2, BalanceAppended
<1>4. /\ Balance(ev) = IF open THEN 1 ELSE 0
      /\ \A i \in DOMAIN ev : OpenAt(ev, i) = 1
  BY DEF Filed, Bracketed
<1>5. Len(ev) \in Nat /\ DOMAIN ev = 1..Len(ev) /\ DOMAIN w = 1..(Len(ev) + 1)
  BY <1>2, EventAppended
<1>6. Certified(n)
  <2> SUFFICES ASSUME IsSome(n.manifest)
               PROVE  /\ n.manifest = Some(n.manifest[1])
                      /\ Listed(n.events, n.manifest[1].storms)
                      /\ Explained(n.manifest[1])
    BY DEF Certified
  <2>1. /\ d.manifest = Some(d.manifest[1]) /\ Listed(ev, d.manifest[1].storms)
        /\ Explained(d.manifest[1])
    BY <1>1 DEF Filed, Certified
  <2>2. Listed(w, d.manifest[1].storms)
    BY <1>2, <2>1, ListedKept
  <2> HIDE DEF n, ev, w
  <2> QED
    BY <1>1, <2>1, <2>2
<1> HIDE DEF n, ev, w
<1>7. \A i \in DOMAIN w : OpenAt(w, i) = 1
  <2> SUFFICES ASSUME NEW i \in DOMAIN w PROVE OpenAt(w, i) = 1
    OBVIOUS
  <2>1. CASE i \in 1..Len(ev)
    BY <1>3, <1>4, <1>5, <2>1
  <2>2. CASE i = Len(ev) + 1
    BY <1>3, <1>4, <2>2
  <2> QED
    BY <1>5, <2>1, <2>2
<1>8. Balance(w) = IF e # "run_stop" THEN 1 ELSE 0
  BY <1>3, <1>4
<1> QED
  BY <1>1, <1>6, <1>7, <1>8 DEF Filed, Bracketed, n

LEMMA EmptyFiled ==
    Filed([events |-> <<>>, lost |-> {}, unended |-> {}, manifest |-> None], FALSE)
<1> DEFINE d == [events |-> <<>>, lost |-> {}, unended |-> {}, manifest |-> None]
<1>1. d.events = <<>> /\ d.lost = {} /\ d.unended = {} /\ d.manifest = None /\ IsDir(d)
  BY DEF IsDir
<1>2. Certified(d)
  BY <1>1, Options DEF Certified
<1>3. DOMAIN <<>> = {}
  OBVIOUS
<1>4. Opens(<<>>) = {} /\ Closes(<<>>) = {}
  BY <1>3 DEF Opens, Closes
<1>5. Balance(<<>>) = 0
  BY <1>4, FS_EmptySet DEF Balance
<1> HIDE DEF d
<1> QED
  BY <1>1, <1>2, <1>3, <1>5 DEF Filed, Bracketed, d

(* Event e has come to the file of run id, and d is the disk.              *)
EventIn(d, id, e) ==
    /\ DOMAIN d = DOMAIN disk \cup {id}
    /\ d[id].events = Append(Directory(id).events, e) /\ Filed(d[id], e # "run_stop")
    /\ \A x \in DOMAIN disk \ {id} : d[x] = disk[x]

(* writeEventLocked.                                                       *)
LEMMA EventWritten ==
    ASSUME NEW id, NEW w, NEW e \in EventNames, Archived, (e = "run_start") <=> ~Recording(id)
    PROVE  /\ Directory(id).events \in Seq(EventNames)
           /\ EventIn(WriteEvent(id, e, w), id, e)
<1>1. Filed(Directory(id), Recording(id)) /\ Recording(id) \in BOOLEAN
  <2>1. CASE id \in DOMAIN disk
    BY <2>1 DEF Archived, Directory, Recording, IsSome
  <2>2. CASE id \notin DOMAIN disk
    <3>1. ~Recording(id)
      BY <2>2 DEF Archived, Recording
    <3>2. Recording(id) = FALSE
      BY <3>1 DEF Recording, IsSome
    <3> QED
      BY <2>2, <3>2, EmptyFiled DEF Directory
  <2> QED
    BY <2>1, <2>2
<1> DEFINE n == Written(Directory(id), e, w)
<1>2. Filed(n, e # "run_stop") /\ n.events = Append(Directory(id).events, e)
  BY <1>1, FiledAppended, DirAppended DEF Filed
<1>3. Directory(id).events \in Seq(EventNames)
  BY <1>1 DEF Filed, IsDir
<1>4. WriteEvent(id, e, w) = [x \in DOMAIN disk \cup {id} |-> IF x = id THEN n ELSE disk[x]]
  BY DEF WriteEvent
<1> HIDE DEF n
<1> QED
  BY <1>2, <1>3, <1>4 DEF EventIn

(* The run goes on, or begins, with the event just written.                *)
LEMMA ArchivedGoesOn ==
    ASSUME Archived, NEW id, NEW e \in EventNames \ {"run_stop"}, (e = "run_start") <=> ~Recording(id),
           IsSome(run) => run[1].id = id, NEW w, disk' = WriteEvent(id, e, w),
           IsSome(run'), run'[1].id = id,
           e = "run_start" => Len(run'[1].storms) = 0,
           e = "storm_start" => Len(run'[1].storms) = Len(run[1].storms) + 1,
           e = "storm_stop" => Len(run'[1].storms) = Len(run[1].storms)
    PROVE  Archived'
<1>1. /\ DOMAIN disk' = DOMAIN disk \cup {id} /\ Directory(id).events \in Seq(EventNames)
      /\ disk'[id].events = Append(Directory(id).events, e) /\ Filed(disk'[id], TRUE)
      /\ \A x \in DOMAIN disk \ {id} : disk'[x] = disk[x]
  <2>1. Directory(id).events \in Seq(EventNames) /\ EventIn(disk', id, e)
    BY EventWritten
  <2>2. (e # "run_stop") = TRUE
    OBVIOUS
  <2> QED
    BY <2>1, <2>2 DEF EventIn
<1>2. ASSUME NEW x \in DOMAIN disk' PROVE Filed(disk'[x], Recording(x)')
  <2>1. CASE x = id
    <3>1. Recording(x)' = TRUE
      BY <2>1 DEF Recording
    <3> QED
      BY <1>1, <2>1, <3>1
  <2>2. CASE x # id
    <3>1. Recording(x)' = FALSE /\ Recording(x) = FALSE
      BY <2>2 DEF Recording
    <3>2. x \in DOMAIN disk /\ disk'[x] = disk[x]
      BY <1>1, <2>2
    <3> QED
      BY <3>1, <3>2 DEF Archived
  <2> QED
    BY <2>1, <2>2
<1>3. Counting(disk'[id].events, Len(run'[1].storms))
  <2>1. CASE e = "run_start"
    BY <1>1, <2>1, CountingBegins
  <2>2. CASE e # "run_start"
    <3>1. IsSome(run) /\ Counting(disk[id].events, Len(run[1].storms)) /\ id \in DOMAIN disk
      BY <2>2 DEF Recording, Archived
    <3>2. Directory(id) = disk[id]
      BY <3>1 DEF Directory
    <3> QED
      BY <1>1, <2>2, <3>1, <3>2, CountingExtended DEF EventNames
  <2> QED
    BY <2>1, <2>2
<1> QED
  BY <1>1, <1>2, <1>3 DEF Archived

(* writeManifestLocked.                                                    *)
LEMMA ManifestExplained ==
    ASSUME NEW r, r.startEquity \in Int, ~r.answered => r.startEquity = 0, NEW a \in BotAnswers
    PROVE  Explained(Manifest(r, a)) /\ Manifest(r, a).storms = Len(r.storms)
<1> DEFINE delta == EquityOr0(a) - r.startEquity
<1>1. EquityOr0(a) \in Int /\ (~IsSome(a) => EquityOr0(a) = 0)
  BY EquityKnown
<1>2. delta \in Int /\ (~r.answered /\ ~IsSome(a) => delta = 0)
  BY <1>1
<1> HIDE DEF delta
<1>3. /\ Verdict(delta) = "TARGET_KILLED" <=> delta < KilledBelow
      /\ Verdict(delta) = "TARGET_INTACT" <=> delta >= DamagedBelow
      /\ delta = 0 => Verdict(delta) = "TARGET_INTACT"
  BY <1>2, VerdictAssumption DEF Verdict
<1> DEFINE m == [verdict |-> Verdict(delta), delta |-> delta, storms |-> Len(r.storms),
                 ticks |-> r.ticks, silent |-> ~r.answered /\ ~IsSome(a)]
<1>4. Manifest(r, a) = m
  BY DEF Manifest, delta
<1>5. /\ m.verdict = Verdict(delta) /\ m.delta = delta /\ m.storms = Len(r.storms)
      /\ m.silent => ~r.answered /\ ~IsSome(a)
  OBVIOUS
<1> HIDE DEF m
<1> QED
  BY <1>2, <1>3, <1>4, <1>5 DEF Explained

(* Stop writes its event and, if it can, the manifest of the run.          *)
LEMMA ArchivedStops ==
    ASSUME RunTyped, Archived, NEW a \in BotAnswers, NEW made \in Makings, NEW w,
           RunStop(a, made, w)
    PROVE  Archived'
<1>1. CASE ~IsSome(run)
  <2>1. run' = run /\ disk' = disk
    BY <1>1 DEF RunStop, recVars
  <2> QED
    BY <2>1 DEF Archived, Recording
<1>2. CASE IsSome(run)
  <2> DEFINE id == run[1].id
             d == WriteEvent(id, "run_stop", w)
             m == Manifest(run[1], a)
             n == [d[id] EXCEPT !.manifest = Some(m)]
             c == [d[id] EXCEPT !.manifest = None]
  <2>1. /\ run' = None
        /\ disk' \in {[d EXCEPT ![id].manifest = Some(m)], [d EXCEPT ![id].manifest = None], d}
    BY <1>2 DEF RunStop, Makings
  <2>2. Recording(id)
    BY <1>2 DEF Recording
  <2>3. /\ DOMAIN d = DOMAIN disk \cup {id}
        /\ d[id].events = Append(Directory(id).events, "run_stop") /\ Filed(d[id], FALSE)
        /\ \A x \in DOMAIN disk \ {id} : d[x] = disk[x]
    <3>1. "run_stop" \in EventNames /\ (("run_stop" = "run_start") <=> ~Recording(id))
      BY <2>2 DEF EventNames
    <3>2. EventIn(d, id, "run_stop")
      BY <3>1, EventWritten
    <3>3. ("run_stop" # "run_stop") = FALSE
      OBVIOUS
    <3> QED
      BY <3>2, <3>3 DEF EventIn
  <2>4. Listed(d[id].events, Len(run[1].storms))
    <3>1. id \in DOMAIN disk /\ Counting(disk[id].events, Len(run[1].storms))
      BY <1>2 DEF Archived
    <3>2. Directory(id) = disk[id] /\ disk[id].events \in Seq(EventNames)
      BY <3>1 DEF Directory, Archived, Filed, IsDir
    <3> QED
      BY <2>3, <3>1, <3>2, CountingExtended
  <2>5. run[1].startEquity \in Int /\ (~run[1].answered => run[1].startEquity = 0)
    BY <1>2 DEF RunTyped, IsRun
  <2>6. Explained(m) /\ m.storms = Len(run[1].storms)
    BY <2>5, ManifestExplained
  <2> HIDE DEF m, d
  <2>7. Filed(n, FALSE) /\ Filed(c, FALSE)
    <3>1. IsDir(d[id]) /\ Bracketed(d[id], FALSE)
      BY <2>3 DEF Filed
    <3> DEFINE ev == d[id].events
               l == d[id].lost
               u == d[id].unended
               mf == d[id].manifest
               r(x) == [events |-> ev, lost |-> l, unended |-> u, manifest |-> x]
    <3>2. d[id] = r(mf) /\ ev \in Seq(EventNames)
      BY <3>1 DEF IsDir
    <3> HIDE DEF ev, l, u, mf
    <3>3. n = r(Some(m)) /\ c = r(None)
      BY <3>2
    <3>4. \A x : r(x).events = ev /\ r(x).manifest = x /\ r(x).lost = l /\ r(x).unended = u
      OBVIOUS
    <3>5. IsSome(Some(m)) /\ Some(m)[1] = m /\ ~IsSome(None)
      BY Options
    <3>6. \A x : IsDir(r(x))
      BY <3>2, <3>4 DEF IsDir
    <3> HIDE DEF n, c, r
    <3>7. \A x : Bracketed(r(x), FALSE)
      BY <3>1, <3>4 DEF Bracketed, ev
    <3>8. Certified(r(Some(m))) /\ Certified(r(None))
      BY <2>4, <2>6, <3>4, <3>5 DEF Certified, ev
    <3> QED
      BY <3>3, <3>6, <3>7, <3>8 DEF Filed
  <2>8. /\ DOMAIN disk' = DOMAIN disk \cup {id} /\ Filed(disk'[id], FALSE)
        /\ \A x \in DOMAIN disk \ {id} : disk'[x] = disk[x]
    BY <2>1, <2>3, <2>7
  <2>9. \A x \in DOMAIN disk' : Filed(disk'[x], FALSE)
    <3> SUFFICES ASSUME NEW x \in DOMAIN disk', x # id PROVE Filed(disk'[x], FALSE)
      BY <2>8
    <3>1. x \in DOMAIN disk /\ Filed(disk[x], Recording(x)) /\ disk'[x] = disk[x]
      BY <2>8 DEF Archived
    <3>2. Recording(x) = FALSE
      BY DEF Recording
    <3> QED
      BY <3>1, <3>2
  <2>10. ~IsSome(run')
    BY <2>1, Options
  <2>11. \A x : Recording(x)' = FALSE
    BY <2>10 DEF Recording
  <2> QED
    BY <2>9, <2>10, <2>11 DEF Archived
<1> QED
  BY <1>1, <1>2

LEMMA ArchivedInit == Init => Archived
<1> SUFFICES ASSUME Init PROVE Archived
  OBVIOUS
<1>1. run = None /\ disk = <<>>
  BY DEF Init, RecInit
<1> QED
  BY <1>1, Options DEF Archived

LEMMA ArchivedStep == Kept /\ Archived /\ [Next]_vars => Archived'
<1> SUFFICES ASSUME Kept, Archived, [Next]_vars PROVE Archived'
  OBVIOUS
<1>t. RunTyped /\ Holding
  BY DEF Kept
<1>1. ASSUME UNCHANGED recVars PROVE Archived'
  BY <1>1 DEF recVars, Archived, Recording
<1>2. ASSUME NEW p \in Procs, StormStartLogged(p) PROVE Archived'
  <2> DEFINE kind == loc[p][1].kind
             gen == loc[p][1].gen
  <2>0. PICK w \in Writes : LogStormStart(kind, gen, w)
    BY <1>2 DEF StormStartLogged
  <2>1. LogStormStart(kind, gen, w) /\ kind \in Names /\ gen \in Nat
    BY <1>2, <1>t, <2>0 DEF StormStartLogged, Holding
  <2> HIDE DEF kind, gen
  <2>2. CASE ~IsSome(run)
    BY <1>1, <2>1, <2>2 DEF LogStormStart
  <2>3. CASE IsSome(run)
    <3>1. disk' = WriteEvent(run[1].id, "storm_start", w) /\ Recording(run[1].id)
      BY <2>1, <2>3 DEF LogStormStart, Recording
    <3> DEFINE s == [kind |-> kind, gen |-> gen, closers |-> {}]
    <3>2. IsSome(run') /\ run'[1].id = run[1].id /\ run'[1].storms = Append(run[1].storms, s)
      BY <1>t, <2>1, <2>3, StartLogged DEF SameRun
    <3>3. run[1].storms \in Seq(StormRecords) /\ s \in StormRecords
      BY <1>t, <2>1, <2>3 DEF RunTyped, IsRun, StormRecords
    <3> HIDE DEF s
    <3>4. Len(run'[1].storms) = Len(run[1].storms) + 1
      BY <3>2, <3>3, AppendProperties
    <3> QED
      BY <2>3, <3>1, <3>2, <3>4, ArchivedGoesOn DEF EventNames
  <2> QED
    BY <2>2, <2>3
<1>3. ASSUME NEW p \in Procs, StormStopLogged(p) PROVE Archived'
  <2> DEFINE kind == loc[p][1].stopping
  <2>0. PICK w \in Writes : LogStormStop(kind, w)
    BY <1>3 DEF StormStopLogged
  <2>1. LogStormStop(kind, w) /\ kind \in Names
    BY <1>3, <1>t, <2>0 DEF StormStopLogged, Holding
  <2> HIDE DEF kind
  <2>2. CASE ~IsSome(run) \/ run[1].storms = <<>>
    BY <1>1, <2>1, <2>2 DEF LogStormStop
  <2>3. CASE IsSome(run) /\ run[1].storms # <<>>
    <3>1. disk' = WriteEvent(run[1].id, "storm_stop", w) /\ Recording(run[1].id)
      BY <2>1, <2>3 DEF LogStormStop, Recording
    <3>2. /\ IsSome(run') /\ run'[1].id = run[1].id
          /\ run'[1].storms = Closed(run[1].storms, kind)
      BY <1>t, <2>1, <2>3, StopLogged DEF SameRun
    <3>3. run[1].storms \in Seq(StormRecords)
      BY <1>t, <2>3 DEF RunTyped, IsRun
    <3>4. Len(run'[1].storms) = Len(run[1].storms)
      BY <2>1, <2>3, <3>2, <3>3, ClosedFacts
    <3> QED
      BY <2>3, <3>1, <3>2, <3>4, ArchivedGoesOn DEF EventNames
  <2> QED
    BY <2>2, <2>3
<1>4. ASSUME NEW p \in Procs, TickLogged(p) PROVE Archived'
  <2>1. LogTick /\ disk' = disk
    BY <1>4 DEF TickLogged, LogTick
  <2>2. SameRun /\ (IsSome(run) => run'[1].storms = run[1].storms)
    BY <1>t, <2>1, TickLoggedRun
  <2>3. \A x : Recording(x)' = Recording(x)
    BY <2>2 DEF SameRun, Recording
  <2> QED
    BY <2>1, <2>2, <2>3 DEF Archived, SameRun
<1>5. ASSUME NEW p \in Procs, RunStartRequest(p) PROVE Archived'
  <2>1. PICK a \in BotAnswers, opened \in BOOLEAN, w \in Writes : RunStart(a, opened, w)
    BY <1>5 DEF RunStartRequest
  <2>2. CASE IsSome(run) \/ ~opened
    BY <1>1, <2>1, <2>2 DEF RunStart
  <2>3. CASE ~IsSome(run) /\ opened
    <3> DEFINE u == [id |-> RunId, storms |-> <<>>, lastTick |-> None, ticks |-> 0,
                     startEquity |-> EquityOr0(a), answered |-> IsSome(a)]
    <3>1. run' = Some(u) /\ disk' = WriteEvent(RunId, "run_start", w) /\ ~Recording(RunId)
      BY <2>1, <2>3 DEF RunStart, Recording
    <3>2. u.id = RunId /\ u.storms = <<>>
      OBVIOUS
    <3> HIDE DEF u
    <3>3. IsSome(run') /\ run'[1] = u
      BY <3>1, Options
    <3>4. Len(run'[1].storms) = 0
      BY <3>2, <3>3
    <3> QED
      BY <2>3, <3>1, <3>2, <3>3, <3>4, ArchivedGoesOn DEF EventNames
  <2> QED
    BY <2>2, <2>3
<1>6. ASSUME NEW p \in Procs, RunStopRequest(p) PROVE Archived'
  BY <1>6, <1>t, ArchivedStops DEF RunStopRequest
<1>7. ASSUME NEW p \in Procs, Request(p), ~RunStartRequest(p), ~RunStopRequest(p) PROVE Archived'
  BY <1>1, <1>7 DEF Request, StormStart, StormStop, StormStatus, RunStatus, StreamTick, Reset
<1>8. ASSUME NEW p \in Procs, Step(p), ~StormStartLogged(p), ~StormStopLogged(p), ~TickLogged(p)
      PROVE  Archived'
  <2>1. UNCHANGED recVars
    BY <1>8 DEF Step, StormStarted, EncodeStarted, EncodeExpires, StormStopped, EncodeIdle,
                RunStatusId, TickKind
  <2> QED
    BY <1>1, <2>1
<1>9. ASSUME TimePasses \/ UNCHANGED vars PROVE Archived'
  BY <1>1, <1>9 DEF TimePasses, vars
<1> QED
  BY <1>2, <1>3, <1>4, <1>5, <1>6, <1>7, <1>8, <1>9 DEF Next

-----------------------------------------------------------------------------
(* The theorems.                                                           *)

(* server.go handleStormStart and handleStormStop tell the controller and  *)
(* then the recorder, in two critical sections.  While storm requests come *)
(* one at a time, and whatever the other requests do in between, the last  *)
(* record of a run is of the last storm, and a stop closes a record of the *)
(* kind it stopped.                                                        *)
THEOREM RecordsStayWithStorms == Spec => []RecordsFollowStorms
<1>1. Init => Kept /\ Followed
  BY KeptInit, FollowedInit
<1>2. Kept /\ Followed /\ [Next]_vars => (Kept /\ Followed)'
  BY KeptStep, FollowedStep
<1>3. Kept /\ Followed => RecordsFollowStorms
  <2> SUFFICES ASSUME Kept, Followed PROVE RecordsFollowStorms
    OBVIOUS
  <2>1. ApiTypeOK
    BY DEF Kept, CtlTyped, FeedTyped, Holding, ApiTypeOK, Names
  <2>2. LastRecordIsTheStorm
    <3>1. (\A q \in Procs : ~InFlight(q)) => \A q \in Procs : ~Starting(q)
      BY DEF InFlight, Starting, StormPcs
    <3> QED
      BY <3>1 DEF Followed, LastIs, LastRecordIsTheStorm
  <2>3. StopClosesOwnRecord
    <3>1. ASSUME IsSome(run) PROVE DOMAIN run[1].storms = 1..Len(run[1].storms)
      <4>1. run[1].storms \in Seq(StormRecords)
        BY <3>1 DEF Kept, RunTyped, IsRun
      <4> QED
        BY <4>1, LenProperties
    <3> QED
      BY <3>1 DEF Followed, OwnClosers, StopClosesOwnRecord
  <2> QED
    BY <2>1, <2>2, <2>3 DEF RecordsFollowStorms
<1> QED
  BY <1>1, <1>2, <1>3, PTL DEF Spec

(* storm.go hands out pointers to its times, and an answer is put together *)
(* from several critical sections.  If the storm and the run stayed the    *)
(* same meanwhile, the answer shows them as they are; and feed.go's        *)
(* breaker is latched only by gaps that no reset has cleared.              *)
THEOREM AnswersStayEarned == Spec => []AnswersEarned
<1>1. Init => Kept /\ Shown
  BY KeptInit, ShownInit
<1>2. Kept /\ Shown /\ [Next]_vars => (Kept /\ Shown)'
  BY KeptStep, ShownStep
<1>3. Kept /\ Shown => AnswersEarned
  <2> SUFFICES ASSUME Kept, Shown PROVE AnswersEarned
    OBVIOUS
  <2>1. AnswersExact
    BY TheTickIs DEF Shown, AnswersOf, AnswersExact
  <2>2. HaltEarned
    BY DEF Kept, FeedTyped, HaltEarned
  <2> QED
    BY <2>1, <2>2 DEF AnswersEarned
<1> QED
  BY <1>1, <1>2, <1>3, PTL DEF Spec

(* recorder.go appends events and writes the manifest from its own records *)
(* when the run stops.  For every number of runs, also of the same second, *)
(* every equity and every failing write: an event file that lost nothing   *)
(* is a sequence of complete runs, only the active one open; a manifest    *)
(* lists the storms of a completed run of its file, at least those that    *)
(* are legible there; its verdict is that of its delta, and a bot that     *)
(* never answered is intact.                                               *)
THEOREM ArtefactsStayAgreed == Spec => []ArtefactsAgree
<1>1. Init => Kept /\ Archived
  BY KeptInit, ArchivedInit
<1>2. Kept /\ Archived /\ [Next]_vars => (Kept /\ Archived)'
  BY KeptStep, ArchivedStep
<1>3. Kept /\ Archived => ArtefactsAgree
  <2> SUFFICES ASSUME Kept, Archived PROVE ArtefactsAgree
    OBVIOUS
  <2>1. ASSUME NEW id \in DOMAIN disk
        PROVE  /\ disk[id].events \in Seq(EventNames)
               /\ Bracketed(disk[id], Recording(id)) /\ Certified(disk[id])
    BY DEF Archived, Filed, IsDir
  <2>2. EventsBracketed
    <3> SUFFICES ASSUME NEW id \in DOMAIN disk
                 PROVE  /\ \A i \in DOMAIN disk[id].events : OpenAt(disk[id].events, i) = 1
                        /\ (Cardinality(Opens(disk[id].events)) = Cardinality(Closes(disk[id].events)))
                             <=> (IsSome(run) => run[1].id # id)
      BY DEF EventsBracketed, OpenAt
    <3> DEFINE ev == disk[id].events
    <3>1. Balance(ev) = IF Recording(id) THEN 1 ELSE 0
      BY <2>1 DEF Bracketed
    <3>2. Cardinality(Opens(ev)) \in Nat /\ Cardinality(Closes(ev)) \in Nat
      BY <2>1, OpensAppended, FS_CardinalityType DEF EventNames
    <3>3. (Cardinality(Opens(ev)) = Cardinality(Closes(ev))) <=> ~Recording(id)
      BY <3>1, <3>2 DEF Balance
    <3> QED
      BY <2>1, <3>3 DEF Bracketed, Recording
  <2>3. ManifestMatchesEvents
    <3> DEFINE d(id) == disk[id]
               events(id, i) == OpenedAt(d(id).events, i)..i
               legible(id, i) ==
                   {j \in events(id, i) : d(id).events[j] = "storm_start" /\ j \notin d(id).lost}
    <3> SUFFICES ASSUME NEW id \in DOMAIN disk, IsSome(d(id).manifest)
                 PROVE  \E i \in Closes(d(id).events) :
                            /\ Cardinality(legible(id, i)) <= d(id).manifest[1].storms
                            /\ events(id, i) \cap d(id).lost = {} =>
                                  Cardinality(legible(id, i)) = d(id).manifest[1].storms
      BY DEF ManifestMatchesEvents
    <3> DEFINE ev == disk[id].events
    <3>1. PICK i \in Closes(ev), m \in Opens(ev) :
             Latest(ev, m, i) /\ Since(ev, m, i) = disk[id].manifest[1].storms
      BY <2>1 DEF Certified, Listed
    <3>2. i \in Nat /\ m \in Nat
      BY <2>1, OpensAppended DEF EventNames
    <3>3. OpenedAt(ev, i) = m
      BY <2>1, <3>1, <3>2, LatestIsOpened
    <3> DEFINE S == {j \in m..i : ev[j] = "storm_start"}
               L == {j \in m..i : ev[j] = "storm_start" /\ j \notin d(id).lost}
    <3>4. legible(id, i) = L /\ events(id, i) = m..i /\ Cardinality(S) = disk[id].manifest[1].storms
      BY <3>1, <3>3 DEF Since
    <3>5. IsFiniteSet(S)
      <4>1. IsFiniteSet(m..i)
        BY <3>2, FS_Interval
      <4> QED
        BY <4>1, FS_Subset
    <3>6. Cardinality(L) <= Cardinality(S)
      BY <3>5, FS_Subset
    <3>7. ASSUME (m..i) \cap d(id).lost = {} PROVE L = S
      BY <3>7
    <3> QED
      BY <3>4, <3>6, <3>7
  <2>4. VerdictExplained
    <3> SUFFICES ASSUME NEW id \in DOMAIN disk, NEW i \in DOMAIN disk[id].manifest
                 PROVE  Explained(disk[id].manifest[i])
      BY DEF VerdictExplained, Explained, Manifests
    <3>1. IsSome(disk[id].manifest)
      BY DEF IsSome, None
    <3>2. disk[id].manifest = Some(disk[id].manifest[1]) /\ Explained(disk[id].manifest[1])
      BY <2>1, <3>1 DEF Certified
    <3>3. i = 1
      BY <3>2 DEF Some
    <3> QED
      BY <3>2, <3>3
  <2> QED
    BY <2>2, <2>3, <2>4 DEF ArtefactsAgree
<1> QED
  BY <1>1, <1>2, <1>3, PTL DEF Spec

=============================================================================
