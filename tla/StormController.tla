-------------------------- MODULE StormController ---------------------------
(***************************************************************************)
(* The storm controller of api/server/storm.go: one storm at a time under  *)
(* a mutex, with an expiry that only its readers notice.                   *)
(*                                                                         *)
(* Every method is one critical section and one action here, except Start, *)
(* which has two: its writes to startMs and expMs are visible to an        *)
(* encoder that follows the pointers of a snapshot without the mutex.      *)
(***************************************************************************)
EXTENDS Integers

CONSTANTS
    Procs,     \* goroutines that serve requests
    Kinds,     \* the storm kinds
    Bits,      \* width of a word, 64 in the code
    MaxTime    \* bound on the clock

ASSUME WordAssumption == Bits \in Nat \ {0} /\ 2^Bits \in Nat \ {0}

ASSUME TimeAssumption == MaxTime \in Nat \ {0}

VARIABLES
    mu,        \* the goroutine inside Start, or nobody
    now,       \* the wall clock in milliseconds
    active, spec, startMs, expMs,
    starts     \* how many storms have been started

ctlVars == <<mu, active, spec, startMs, expMs, starts>>

None == <<>>
Some(x) == <<x>>
IsSome(o) == o # None

NoKind == ""

(* A word read as a signed integer.                                        *)
Signed(x) ==
    LET m == 2^Bits
        r == x % m
    IN  IF r >= m \div 2 THEN r - m ELSE r

CtlInit ==
    /\ mu = {}
    /\ now = 1
    /\ active = FALSE
    /\ spec = [kind |-> NoKind, severity |-> 0, duration |-> 0]
    /\ startMs = 0
    /\ expMs = 0
    /\ starts = 0

(* Faulty variant: a severity outside the unit interval is taken as it is. *)
ClampedNot(s) == s

Clamped(s) ==
    [s EXCEPT !.severity = IF @ < 0 THEN 0 ELSE IF @ > 1 THEN 1 ELSE @]

(* Start, up to the point where the old expiry is cleared.                 *)
StartLock(p, s) ==
    /\ mu = {}
    /\ mu' = {p}
    /\ active' = TRUE
    /\ spec' = Clamped(s)
    /\ startMs' = now
    /\ expMs' = 0
    /\ starts' = starts + 1
    /\ UNCHANGED now

(* Faulty variant: a storm without an expiry returns with the mutex held.  *)
StartUnlockExpiring(p) ==
    /\ mu = {p}
    /\ expMs' = IF spec.duration > 0 THEN Signed(startMs + Signed(spec.duration)) ELSE expMs
    /\ mu' = IF expMs' > 0 THEN {} ELSE mu
    /\ UNCHANGED <<now, active, spec, startMs, starts>>

(* The rest of Start: the expiry of a storm with a duration.               *)
StartUnlock(p) ==
    /\ mu = {p}
    /\ mu' = {}
    /\ expMs' = IF spec.duration > 0 THEN Signed(startMs + Signed(spec.duration)) ELSE expMs
    /\ UNCHANGED <<now, active, spec, startMs, starts>>

Stop ==
    /\ mu = {}
    /\ active' = FALSE
    /\ UNCHANGED <<mu, now, spec, startMs, expMs, starts>>

Running == active /\ ~(expMs > 0 /\ now >= expMs)

(* checkExpiryLocked, the first thing that every reader does.              *)
CheckExpiry ==
    /\ mu = {}
    /\ active' = Running
    /\ UNCHANGED <<mu, now, spec, startMs, expMs, starts>>

(* Faulty variant: a stopped storm keeps its severity.                     *)
ActiveSeverityStale == spec.severity

(* What ActiveSeverity and ActiveKind return after the expiry check.       *)
ActiveSeverity == IF Running THEN spec.severity ELSE 0

ActiveKind == IF Running THEN spec.kind ELSE NoKind

(* snapshotLocked: kind and severity are copied, the two times are handed  *)
(* out as pointers; whether there is an expiry is decided here.            *)
SnapshotLocked(on) ==
    IF on THEN Some([kind |-> spec.kind, severity |-> spec.severity, hasExpiry |-> expMs' > 0])
    ELSE None

Clock ==
    /\ now < MaxTime
    /\ now' = now + 1
    /\ UNCHANGED ctlVars

=============================================================================
