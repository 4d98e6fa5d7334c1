------------------------------ MODULE Recorder -------------------------------
(***************************************************************************)
(* The run recorder of api/server/recorder.go.  All of its state is behind *)
(* one mutex that is held for the whole of a call, the question to the     *)
(* target bot included, so a call is one action.                           *)
(*                                                                         *)
(* The bot answers with its equity, which may be negative, or not at all   *)
(* (refused, timed out, or no equity in the body).  Equity around single   *)
(* storms is left out.                                                     *)
(*                                                                         *)
(* A line is written in two calls, the event and its newline, whose errors *)
(* are ignored: either may come out whole, in part or not at all, and an   *)
(* event without its newline shares a line with the next one.  Of a file   *)
(* the model keeps the events handed to it, which of them are not a line   *)
(* of their own ("lost"), and which are on a line that has no end yet.     *)
(***************************************************************************)
EXTENDS StormController, Sequences, FiniteSetsExt

CONSTANTS
    Equities,       \* what the bot may answer
    SecondMs,       \* milliseconds of a second: the resolution of a run id
    DamagedBelow, KilledBelow,   \* -10 and -100 in the code
    BadWrites,      \* how the two Writes of an event may fail
    MaxDamaged      \* bound on the event files that a write fails in

ASSUME EquityAssumption == Equities \subseteq Int

ASSUME VerdictAssumption ==
    DamagedBelow \in Int /\ KilledBelow \in Int /\ KilledBelow <= DamagedBelow /\ DamagedBelow <= 0

VARIABLES
    run,    \* None, or the run being recorded
    disk    \* run id -> what is in its directory

recVars == <<run, disk>>

RecInit ==
    /\ run = None
    /\ disk = <<>>

BotAnswers == {Some(e) : e \in Equities} \cup {None}

EquityOr0(answer) == IF IsSome(answer) THEN answer[1] ELSE 0

RunId == now \div SecondMs

Directory(id) ==
    IF id \in DOMAIN disk THEN disk[id]
    ELSE [events |-> <<>>, lost |-> {}, unended |-> {}, manifest |-> None]

Whole == [body |-> "whole", newline |-> TRUE]

ASSUME WriteAssumption == BadWrites \subseteq [body : {"whole", "part", "none"}, newline : BOOLEAN]

Damaged(d) == d.lost # {} \/ d.unended # {}

(* What may become of the two Writes of writeEventLocked.                  *)
Writes ==
    {Whole} \cup
    {w \in BadWrites : Cardinality({id \in DOMAIN disk : Damaged(disk[id])}) < MaxDamaged}

(* The events that the write w takes out of the file d: one that is not    *)
(* written whole, and all those that come to stand on one line.            *)
LostBy(d, w) ==
    LET n == Len(d.events) + 1
    IN  (IF w.body # "whole" THEN {n} ELSE {})
          \cup (IF w.body # "none" /\ d.unended # {} THEN d.unended \cup {n} ELSE {})

(* writeEventLocked: a line at the end of events.jsonl, the errors ignored.*)
Written(d, ev, w) ==
    [events   |-> Append(d.events, ev),
     lost     |-> d.lost \cup LostBy(d, w),
     unended  |-> IF w.newline THEN {}
                  ELSE d.unended \cup (IF w.body # "none" THEN {Len(d.events) + 1} ELSE {}),
     manifest |-> d.manifest]

WriteEvent(id, ev, w) ==
    [x \in DOMAIN disk \cup {id} |-> IF x = id THEN Written(Directory(id), ev, w) ELSE disk[x]]

(* Start: refused while a run is active; the files are opened for append,  *)
(* so a second run of the same second continues the files of the first.    *)
(* When a file cannot be opened there is no run.                           *)
RunStart(answer, opened, w) ==
    /\ IF IsSome(run) \/ ~opened THEN UNCHANGED recVars
       ELSE /\ run' = Some([id |-> RunId, storms |-> <<>>, lastTick |-> None, ticks |-> 0,
                            startEquity |-> EquityOr0(answer), answered |-> IsSome(answer)])
            /\ disk' = WriteEvent(RunId, "run_start", w)
    /\ UNCHANGED <<ctlVars, now>>

(* Faulty variant: the thresholds count as passed when they are reached.   *)
VerdictInclusive(delta) ==
    IF delta <= KilledBelow THEN "TARGET_KILLED"
    ELSE IF delta <= DamagedBelow THEN "TARGET_DAMAGED" ELSE "TARGET_INTACT"

Verdict(delta) ==
    IF delta < KilledBelow THEN "TARGET_KILLED"
    ELSE IF delta < DamagedBelow THEN "TARGET_DAMAGED" ELSE "TARGET_INTACT"

(* Faulty variant: only storms that were stopped make it to the manifest.  *)
ManifestClosedOnly(r, answer) ==
    LET delta == EquityOr0(answer) - r.startEquity
    IN  [verdict |-> Verdict(delta), delta |-> delta,
         storms |-> Cardinality({i \in DOMAIN r.storms : r.storms[i].closers # {}}),
         ticks |-> r.ticks, silent |-> ~r.answered /\ ~IsSome(answer)]

(* writeManifestLocked; "silent" remembers that the bot answered at        *)
(* neither end of the run.                                                 *)
Manifest(r, answer) ==
    LET delta == EquityOr0(answer) - r.startEquity
    IN  [verdict |-> Verdict(delta), delta |-> delta, storms |-> Len(r.storms),
         ticks |-> r.ticks, silent |-> ~r.answered /\ ~IsSome(answer)]

(* Faulty variant: the run is closed before its last event is written.     *)
RunStopCloseFirst(answer, made, w) ==
    /\ IF ~IsSome(run) THEN UNCHANGED recVars
       ELSE run' = None /\ UNCHANGED disk
    /\ UNCHANGED <<ctlVars, now>>

(* What becomes of run.yaml: it is not created, and the one of an earlier  *)
(* run of the directory stays; or it is cut short by a failing write.      *)
Makings == {"not", "short", "whole"}

(* Stop: the last event, the manifest (best effort), and the run is over.  *)
RunStop(answer, made, w) ==
    /\ IF ~IsSome(run) THEN UNCHANGED recVars
       ELSE LET id == run[1].id
                d == WriteEvent(id, "run_stop", w)
            IN  /\ run' = None
                /\ disk' = CASE made = "whole" ->
                                [d EXCEPT ![id].manifest = Some(Manifest(run[1], answer))]
                             [] made = "short" -> [d EXCEPT ![id].manifest = None]
                             [] made = "not"   -> d
    /\ UNCHANGED <<ctlVars, now>>

(* Faulty variant: a storm of the kind recorded last is not recorded.      *)
LogStormStartDistinct(kind, gen, w) ==
    /\ IF ~IsSome(run) \/ (run[1].storms # <<>> /\ run[1].storms[Len(run[1].storms)].kind = kind)
       THEN UNCHANGED recVars
       ELSE /\ run' = [run EXCEPT ![1].storms = Append(@, [kind |-> kind, gen |-> gen,
                                                           closers |-> {}])]
            /\ disk' = WriteEvent(run[1].id, "storm_start", w)
    /\ UNCHANGED <<ctlVars, now>>

(* LogStormStart: a record and an event, while a run is active.            *)
LogStormStart(kind, gen, w) ==
    /\ IF ~IsSome(run) THEN UNCHANGED recVars
       ELSE /\ run' = [run EXCEPT ![1].storms = Append(@, [kind |-> kind, gen |-> gen,
                                                           closers |-> {}])]
            /\ disk' = WriteEvent(run[1].id, "storm_start", w)
    /\ UNCHANGED <<ctlVars, now>>

(* Faulty variant: the first record is closed.                             *)
MostRecentFirst(storms) == 1

MostRecent(storms) == Len(storms)

(* LogStormStop: closes the most recent record, whichever storm it is of.  *)
LogStormStop(kind, w) ==
    /\ IF ~IsSome(run) \/ run[1].storms = <<>> THEN UNCHANGED recVars
       ELSE /\ run' = [run EXCEPT ![1].storms[MostRecent(run[1].storms)].closers = @ \cup {kind}]
            /\ disk' = WriteEvent(run[1].id, "storm_stop", w)
    /\ UNCHANGED <<ctlVars, now>>

(* LogTick: at most one row a second.                                      *)
LogTick ==
    /\ IF ~IsSome(run) \/ (IsSome(run[1].lastTick) /\ now - run[1].lastTick[1] < SecondMs)
       THEN UNCHANGED run
       ELSE run' = [run EXCEPT ![1].lastTick = Some(now), ![1].ticks = @ + 1]
    /\ UNCHANGED <<ctlVars, now, disk>>

-----------------------------------------------------------------------------
Opens(events) == {i \in DOMAIN events : events[i] = "run_start"}

Closes(events) == {i \in DOMAIN events : events[i] = "run_stop"}

(* api/README.md calls events.jsonl an "append-only audit trail", one      *)
(* object per line.  A file in which no write failed is a sequence of      *)
(* complete runs, each storm event between a run_start and its run_stop,   *)
(* also when two runs share a directory because the second started within  *)
(* the same second; only the active run is open.                           *)
EventsBracketed ==
    \A id \in DOMAIN disk :
        LET ev == disk[id].events
            open(i) == Cardinality({j \in Opens(ev) : j <= i})
                       - Cardinality({j \in Closes(ev) : j < i})
        IN  disk[id].lost = {} =>
              /\ \A i \in DOMAIN ev : open(i) = 1
              /\ (Cardinality(Opens(ev)) = Cardinality(Closes(ev)))
                    <=> (IsSome(run) => run[1].id # id)

(* Where the run that event i belongs to starts.                           *)
OpenedAt(events, i) == Max({j \in Opens(events) : j <= i})

(* recorder.go writes the manifest from the records in memory and the      *)
(* event file line by line, whose errors it ignores.  A manifest belongs   *)
(* to one of the completed runs of its directory, whose legible            *)
(* storm_start lines are at most the storms it lists, and exactly as many  *)
(* unless an event of that run was lost: the manifest is never short of    *)
(* its event file.                                                         *)
ManifestMatchesEvents ==
    \A id \in DOMAIN disk :
        LET d == disk[id]
            events(i) == OpenedAt(d.events, i)..i
            legible(i) == {j \in events(i) : d.events[j] = "storm_start" /\ j \notin d.lost}
        IN  IsSome(d.manifest) =>
                \E i \in Closes(d.events) :
                    /\ Cardinality(legible(i)) <= d.manifest[1].storms
                    /\ events(i) \cap d.lost = {} =>
                          Cardinality(legible(i)) = d.manifest[1].storms

Manifests == UNION {{disk[id].manifest[i] : i \in DOMAIN disk[id].manifest} : id \in DOMAIN disk}

(* recorder.go writeManifestLocked: whatever the bot's equity is, also     *)
(* negative or unknown at one end, the verdict of a manifest is that of    *)
(* the delta next to it; api/README.md: "if the bot is down the recorder   *)
(* still produces a valid file with zeroed target fields", and then the    *)
(* bot is not reported as damaged.                                         *)
VerdictExplained ==
    \A m \in Manifests :
        /\ m.verdict = "TARGET_KILLED" <=> m.delta < KilledBelow
        /\ m.verdict = "TARGET_INTACT" <=> m.delta >= DamagedBelow
        /\ m.silent => m.delta = 0 /\ m.verdict = "TARGET_INTACT"

(* api/README.md's table of verdicts: INTACT above the damage threshold,   *)
(* DAMAGED from there down to the kill threshold.  The code says INTACT at *)
(* the damage threshold itself.                                            *)
VerdictAsDocumented ==
    \A m \in Manifests :
        /\ m.verdict = "TARGET_INTACT" <=> m.delta > DamagedBelow
        /\ m.verdict = "TARGET_KILLED" <=> m.delta < KilledBelow

(* recorder.go: the artefacts of the runs agree with each other and with   *)
(* what the bot said.                                                      *)
ArtefactsAgree == EventsBracketed /\ ManifestMatchesEvents /\ VerdictExplained

=============================================================================
