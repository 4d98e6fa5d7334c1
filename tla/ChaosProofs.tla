---------------------------- MODULE ChaosProofs -----------------------------
(***************************************************************************)
(* Proofs about the detector chain, for every listing of orders, every     *)
(* length of the feed, every window and threshold, and every cap of at     *)
(* least one level: what the detectors cache is exact, a directed run of   *)
(* mids has the direction it claims, the flags respect the refractories    *)
(* and the prints, and the storm baseline rests during a burst.            *)
(*                                                                         *)
(* FeedInv is the inductive invariant.  DetectorsOK says of each detector  *)
(* what it keeps between two events.  The exactness of the cached depth,   *)
(* for one, needs that the caches are those of a well-formed book and that *)
(* a valid depth was computed with both sides present; the cap on the      *)
(* spoof list needs that its entries come from different events.  FlagsOK  *)
(* says of the log that every flag has armed the refractory of its kind,   *)
(* and that a print that was reported is not pending any more.  There is   *)
(* one part per detector, which ends with what one event does to it; the   *)
(* last part puts them together.                                           *)
(*                                                                         *)
(* A predicate ending in OK is a part of the invariant, with the state it  *)
(* is about as its parameter; a record's Shape says which fields it has.   *)
(***************************************************************************)
EXTENDS ChaosFeed, Sums, SequenceTheorems

EventTypes == {"OrderAdd", "OrderCancel", "OrderModify", "Trade", "BookSnapshot"}

(* The event number n of the feed.                                         *)
IsEvent(e, n) ==
    /\ n \in Nat
    /\ e = SequencedEvent(n, n, e.type, e.side, e.price, e.qty, e.order_id)
    /\ e.type \in EventTypes /\ e.side \in Sides
    /\ e.price \in Nat /\ e.qty \in Nat /\ e.order_id \in Nat

LEMMA EventFields ==
    ASSUME NEW e, NEW n, IsEvent(e, n)
    PROVE  /\ n \in Nat /\ e.seq = n /\ e.ts = n /\ e.type \in EventTypes /\ e.side \in Sides
           /\ e.price \in Nat /\ e.qty \in Nat /\ e.order_id \in Nat
BY DEF IsEvent, SequencedEvent

(* Two finite sets with a bijection have the same size.                    *)
LEMMA SameSize ==
    ASSUME NEW S, NEW T, IsFiniteSet(S), NEW f \in [S -> T],
           \A x, y \in S : f[x] = f[y] => x = y, \A y \in T : \E x \in S : f[x] = y
    PROVE  IsFiniteSet(T) /\ Cardinality(T) = Cardinality(S)
<1>1. f \in Injection(S, T)
  BY DEF Injection, IsInjective
<1>2. f \in Surjection(S, T)
  BY DEF Surjection
<1>3. ExistsBijection(S, T)
  BY <1>1, <1>2 DEF Bijection, ExistsBijection
<1> QED
  BY <1>3, FS_Bijection

OneToOne(f, S, T) == f \in [S -> T] /\ \A x, y \in S : f[x] = f[y] => x = y

(* A one-to-one map bounds the size of its domain.                         *)
LEMMA AtMostAsMany ==
    ASSUME NEW S, NEW T, IsFiniteSet(T), NEW f, OneToOne(f, S, T)
    PROVE  IsFiniteSet(S) /\ Cardinality(S) <= Cardinality(T)
<1>1. f \in Injection(S, T)
  BY DEF OneToOne, Injection, IsInjective
<1> QED
  BY <1>1, FS_Injection

(* Between sets of one size it reaches every element.                      *)
LEMMA OntoAsMany ==
    ASSUME NEW S, NEW T, IsFiniteSet(T), Cardinality(S) = Cardinality(T), NEW f, OneToOne(f, S, T)
    PROVE  f \in Surjection(S, T)
<1>1. f \in Injection(S, T)
  BY DEF OneToOne, Injection, IsInjective
<1> QED
  BY <1>1, FS_Injection

(* Sets of indices are finite.                                             *)
LEMMA Indices ==
    ASSUME NEW a \in Int, NEW b \in Int, NEW S \in SUBSET (a..b)
    PROVE  IsFiniteSet(S) /\ Cardinality(S) \in Nat
<1>1. IsFiniteSet(a..b)
  BY FS_Interval
<1>2. IsFiniteSet(S)
  BY <1>1, FS_Subset
<1> QED
  BY <1>2, FS_CardinalityType

-----------------------------------------------------------------------------
(* The cancellation storm.                                                 *)

Entry == [seq : Nat, ts : Nat, type : EventTypes]

StormRecord(w, c, n, sum, sumsq, above, burst, until, flag) ==
    [window |-> w, cancels |-> c, n |-> n, sum |-> sum, sumsq |-> sumsq, above |-> above,
     burst |-> burst, refractory_until |-> until, flag |-> flag]

StormShape(d) ==
    d = StormRecord(d.window, d.cancels, d.n, d.sum, d.sumsq, d.above, d.burst,
                    d.refractory_until, d.flag)

StormOK(d) ==
    /\ StormShape(d)
    /\ d.window \in Seq(Entry)
    /\ d.cancels = CancelsIn(d.window)
    /\ d.n \in Nat /\ d.refractory_until \in Nat

(* A flag of a kind with a refractory: raised outside it, arming it again. *)
Armed(old, new, flag, kind, cooldown, m) ==
    \/ flag = None /\ new = old
    \/ /\ old <= m /\ new = m + cooldown
       /\ flag = Some(flag[1]) /\ flag[1].kind = kind /\ flag[1].end_seq = m

LEMMA CancelsType ==
    ASSUME NEW w \in Seq(Entry)
    PROVE  CancelsIn(w) \in Nat
<1> DEFINE A == {i \in DOMAIN w : w[i].type = "OrderCancel"}
<1>1. A \in SUBSET (1..Len(w)) /\ Len(w) \in Int /\ 1 \in Int
  OBVIOUS
<1> HIDE DEF A
<1>2. Cardinality(A) \in Nat
  BY ONLY <1>1, Indices
<1> QED
  BY <1>2 DEF A, CancelsIn

(* The cancels of a window are those of its two halves.                    *)
LEMMA CancelsSplit ==
    ASSUME NEW w \in Seq(Entry), NEW k \in 1..Len(w)
    PROVE  CancelsIn(w) = CancelsIn(SubSeq(w, 1, k - 1)) + CancelsIn(SubSeq(w, k, Len(w)))
<1> DEFINE a == SubSeq(w, 1, k - 1)
           b == SubSeq(w, k, Len(w))
           n == Len(w)
           A == {i \in 1..(k - 1) : w[i].type = "OrderCancel"}
           B == {i \in k..n : w[i].type = "OrderCancel"}
           C == {i \in 1..(n - k + 1) : w[i + k - 1].type = "OrderCancel"}
           f == [i \in C |-> i + k - 1]
<1>0. n \in Nat /\ k \in Nat /\ k >= 1 /\ k <= n /\ DOMAIN w = 1..n
  OBVIOUS
<1>1. DOMAIN a = 1..(k - 1) /\ \A i \in 1..(k - 1) : a[i] = w[i]
  BY <1>0
<1>2. DOMAIN b = 1..(n - k + 1) /\ \A i \in 1..(n - k + 1) : b[i] = w[i + k - 1]
  BY <1>0
<1>3. CancelsIn(a) = Cardinality(A)
  BY <1>1 DEF CancelsIn
<1>4. CancelsIn(b) = Cardinality(C)
  BY <1>2 DEF CancelsIn
<1> HIDE DEF a, b
<1>5. IsFiniteSet(A) /\ IsFiniteSet(B) /\ IsFiniteSet(C)
  <2>1. A \in SUBSET (1..(k - 1)) /\ B \in SUBSET (k..n) /\ C \in SUBSET (1..(n - k + 1))
    OBVIOUS
  <2>2. k \in Int /\ n \in Int /\ k - 1 \in Int /\ n - k + 1 \in Int /\ 1 \in Int
    BY <1>0
  <2> HIDE DEF A, B, C, n
  <2>3. IsFiniteSet(A)
    BY ONLY <2>1, <2>2, Indices
  <2>4. IsFiniteSet(B)
    BY ONLY <2>1, <2>2, Indices
  <2>5. IsFiniteSet(C)
    BY ONLY <2>1, <2>2, Indices
  <2> QED
    BY <2>3, <2>4, <2>5
<1>6. {i \in DOMAIN w : w[i].type = "OrderCancel"} = A \cup B /\ A \cap B = {}
  BY <1>0
<1>7. Cardinality(C) = Cardinality(B)
  <2>1. f \in [C -> B]
    BY <1>0
  <2>2. \A x, y \in C : f[x] = f[y] => x = y
    BY <1>0
  <2>3. \A y \in B : \E x \in C : f[x] = y
    <3> SUFFICES ASSUME NEW y \in B PROVE \E x \in C : f[x] = y
      OBVIOUS
    <3>1. y - k + 1 \in 1..(n - k + 1) /\ (y - k + 1) + k - 1 = y
      BY <1>0
    <3>2. y - k + 1 \in C
      BY <3>1
    <3> QED
      BY <3>1, <3>2
  <2> QED
    <3> HIDE DEF f, B, C
    <3> QED
      BY <1>5, <2>1, <2>2, <2>3, SameSize
<1>9. Cardinality(A \cup B) = Cardinality(A) + Cardinality(B)
  <2>1. Cardinality(A \cup B) = Cardinality(A) + Cardinality(B) - Cardinality(A \cap B)
    BY <1>5, FS_Union
  <2>2. Cardinality(A \cap B) = 0 /\ Cardinality(A) \in Nat /\ Cardinality(B) \in Nat
    BY <1>5, <1>6, FS_EmptySet, FS_CardinalityType
  <2> QED
    BY <2>1, <2>2
<1>10. CancelsIn(w) = Cardinality(A \cup B)
  BY <1>6 DEF CancelsIn
<1> QED
  BY <1>3, <1>4, <1>7, <1>9, <1>10 DEF a, b

(* A non-empty set of indices has a first one.                             *)
LEMMA FirstOf ==
    ASSUME NEW S \in SUBSET Nat, S # {}, NEW i, i = CHOOSE k \in S : \A j \in S : k <= j
    PROVE  i \in S /\ \A j \in S : i <= j
<1>1. \E k \in S : \A j \in S : k <= j
  BY LeastNumber
<1> QED
  BY <1>1

(* evict_expired: the running count follows what leaves the window.        *)
LEMMA StormEvictIs ==
    ASSUME NEW d, StormOK(d), d.window # <<>>, NEW e, NEW m, IsEvent(e, m),
           d.window[Len(d.window)].seq = m, d.window[Len(d.window)].ts = m, NEW n, n = StormEvict(d, e)
    PROVE  /\ StormOK(n) /\ n.window # <<>> /\ n.window[Len(n.window)].seq = m
           /\ n.n = d.n /\ n.above = d.above /\ n.burst = d.burst
           /\ n.refractory_until = d.refractory_until /\ n.flag = d.flag
<1> DEFINE fresh == {i \in DOMAIN d.window : ~StormExpired(d.window[i], e)}
           from == CHOOSE i \in fresh : \A j \in fresh : i <= j
           L == Len(d.window)
           w == SubSeq(d.window, from, L)
           c == SatSub(d.cancels, CancelsIn(SubSeq(d.window, 1, from - 1)))
<1>0. /\ d.window \in Seq(Entry) /\ L \in Nat \ {0} /\ DOMAIN d.window = 1..L
      /\ d.cancels = CancelsIn(d.window) /\ StormShape(d)
  BY DEF StormOK
<1>e. e.seq = m /\ e.ts = m /\ m \in Nat
  BY EventFields
<1>1. L \in fresh
  BY <1>0, <1>e, StormAssumption DEF StormExpired, SatSub
<1>2. from \in 1..L
  <2>1. fresh \in SUBSET Nat /\ fresh # {} /\ fresh \in SUBSET (1..L)
    BY <1>0, <1>1
  <2> HIDE DEF fresh
  <2>2. from \in fresh
    BY <2>1, FirstOf
  <2> QED
    BY <2>1, <2>2
<1>3. n = StormRecord(w, c, d.n, d.sum, d.sumsq, d.above, d.burst, d.refractory_until, d.flag)
  BY <1>0 DEF StormEvict, StormShape, StormRecord
<1> HIDE DEF from, fresh
<1>4. w \in Seq(Entry) /\ Len(w) = L - from + 1 /\ w # <<>> /\ w[Len(w)] = d.window[L]
  BY <1>0, <1>2
<1>5. c = CancelsIn(w)
  <2>1. CancelsIn(d.window) = CancelsIn(SubSeq(d.window, 1, from - 1)) + CancelsIn(w)
    BY <1>0, <1>2, CancelsSplit
  <2>2. SubSeq(d.window, 1, from - 1) \in Seq(Entry)
    BY <1>0, <1>2
  <2>3. CancelsIn(SubSeq(d.window, 1, from - 1)) \in Nat /\ CancelsIn(w) \in Nat
    BY <1>4, <2>2, CancelsType
  <2> QED
    BY <1>0, <2>1, <2>3 DEF SatSub
<1> HIDE DEF w, c
<1>6. /\ n.window = w /\ n.cancels = c /\ n.n = d.n /\ n.above = d.above /\ n.burst = d.burst
      /\ n.sum = d.sum /\ n.sumsq = d.sumsq
      /\ n.refractory_until = d.refractory_until /\ n.flag = d.flag
  BY <1>3 DEF StormRecord
<1>7. StormShape(n)
  BY <1>3, <1>6 DEF StormShape
<1>8. StormOK(n)
  BY <1>4, <1>5, <1>6, <1>7 DEF StormOK
<1> QED
  BY <1>0, <1>4, <1>6, <1>8

(* A pushed event adds to the count exactly when it is a cancel.           *)
LEMMA CancelsAppend ==
    ASSUME NEW w \in Seq(Entry), NEW x \in Entry
    PROVE  CancelsIn(Append(w, x)) = CancelsIn(w) + (IF x.type = "OrderCancel" THEN 1 ELSE 0)
<1> DEFINE L == Len(w)
           v == Append(w, x)
           A == {i \in DOMAIN w : w[i].type = "OrderCancel"}
           B == {i \in DOMAIN v : v[i].type = "OrderCancel"}
<1>1. L \in Nat /\ DOMAIN w = 1..L /\ DOMAIN v = 1..(L + 1) /\ v[L + 1] = x /\ \A i \in 1..L : v[i] = w[i]
  OBVIOUS
<1>2. B = A \cup (IF x.type = "OrderCancel" THEN {L + 1} ELSE {}) /\ L + 1 \notin A
  BY <1>1
<1>3. IsFiniteSet(A) /\ Cardinality(A) \in Nat
  <2>1. A \in SUBSET (1..L) /\ L \in Int /\ 1 \in Int
    BY <1>1
  <2> HIDE DEF A, L
  <2> QED
    BY ONLY <2>1, Indices
<1> HIDE DEF A, B, v
<1>4. Cardinality(B) = Cardinality(A) + (IF x.type = "OrderCancel" THEN 1 ELSE 0)
  <2>1. CASE x.type = "OrderCancel"
    <3>1. B = A \cup {L + 1}
      BY <1>2, <2>1
    <3>2. Cardinality(B) = Cardinality(A) + 1
      BY <1>2, <1>3, <3>1, FS_AddElement
    <3> QED
      BY <2>1, <3>2
  <2>2. CASE x.type # "OrderCancel"
    BY <1>2, <1>3, <2>2
  <2> QED
    BY <2>1, <2>2
<1> QED
  BY <1>4 DEF A, B, v, CancelsIn

(* A push and its evictions keep the count exact, and nothing else moves.  *)
LEMMA StormPushIs ==
    ASSUME NEW d, StormOK(d), NEW e, NEW m, IsEvent(e, m), NEW n, n = StormPush(d, e)
    PROVE  /\ StormOK(n) /\ n.window # <<>> /\ n.window[Len(n.window)].seq = m
           /\ n.n = d.n /\ n.above = d.above /\ n.burst = d.burst
           /\ n.refractory_until = d.refractory_until /\ n.flag = d.flag
<1> DEFINE x == [seq |-> e.seq, ts |-> e.ts, type |-> e.type]
           w == Append(d.window, x)
           c == IF e.type = "OrderCancel" THEN d.cancels + 1 ELSE d.cancels
           p == [d EXCEPT !.window = Append(@, [seq |-> e.seq, ts |-> e.ts, type |-> e.type]),
                          !.cancels = IF e.type = "OrderCancel" THEN @ + 1 ELSE @]
<1>0. d.window \in Seq(Entry) /\ d.cancels = CancelsIn(d.window) /\ StormShape(d)
  BY DEF StormOK
<1>1. x \in Entry /\ x.seq = m /\ x.ts = m /\ x.type = e.type
  BY EventFields DEF Entry
<1>2. p = StormRecord(w, c, d.n, d.sum, d.sumsq, d.above, d.burst, d.refractory_until, d.flag)
  <2>1. p = [d EXCEPT !.window = w, !.cancels = c]
    OBVIOUS
  <2> HIDE DEF p, w, c
  <2> QED
    BY <1>0, <2>1 DEF StormShape, StormRecord
<1>3. n = StormEvict(p, e)
  BY DEF StormPush
<1>4. w \in Seq(Entry) /\ w # <<>> /\ w[Len(w)] = x
  BY <1>0, <1>1
<1>5. c = CancelsIn(w)
  <2>1. CancelsIn(w) = CancelsIn(d.window) + (IF x.type = "OrderCancel" THEN 1 ELSE 0)
    BY <1>0, <1>1, CancelsAppend
  <2>2. CancelsIn(d.window) \in Nat
    BY <1>0, CancelsType
  <2> QED
    BY <1>0, <1>1, <2>1, <2>2
<1> HIDE DEF w, c, p, x
<1>6. /\ p.window = w /\ p.cancels = c /\ p.n = d.n /\ p.above = d.above /\ p.burst = d.burst
      /\ p.sum = d.sum /\ p.sumsq = d.sumsq
      /\ p.refractory_until = d.refractory_until /\ p.flag = d.flag
  BY <1>2 DEF StormRecord
<1>7. StormShape(p)
  BY <1>2, <1>6 DEF StormShape
<1>8. StormOK(p)
  BY <1>4, <1>5, <1>6, <1>7 DEF StormOK
<1>9. p.window # <<>> /\ p.window[Len(p.window)].seq = m /\ p.window[Len(p.window)].ts = m
  BY <1>1, <1>4, <1>6
<1>10. /\ StormOK(n) /\ n.window # <<>> /\ n.window[Len(n.window)].seq = m
       /\ n.n = p.n /\ n.above = p.above /\ n.burst = p.burst
       /\ n.refractory_until = p.refractory_until /\ n.flag = p.flag
  BY ONLY <1>3, <1>8, <1>9, IsEvent(e, m), StormEvictIs
<1> QED
  BY <1>6, <1>10

(* A baseline step (BaselinePaused), for one pair of states.               *)
BaselineStep(s, t) ==
    (s.n >= StormWarmup /\ t.n # s.n) =>
        /\ t.window[Len(t.window)].seq >= s.refractory_until
        /\ t.above = 0 /\ ~IsSome(t.flag)

(* What the sample of a full window does to the rest of the detector.      *)
SampleOf(d, t, m) ==
    /\ StormOK(t) /\ t.window = d.window
    /\ Armed(d.refractory_until, t.refractory_until, t.flag, "CancellationStorm", StormCooldown, m)

LEMMA WelfordIs ==
    ASSUME NEW d, StormOK(d), d.flag = None, NEW x, NEW m
    PROVE  SampleOf(d, Welford(d, x), m) /\ Welford(d, x).flag = None /\ Welford(d, x).above = d.above
<1> DEFINE a == d.sum + x
           b == d.sumsq + x * x
           k == d.n + 1
           n == Welford(d, x)
<1>1. n = StormRecord(d.window, d.cancels, k, a, b, d.above, d.burst, d.refractory_until, d.flag)
  <2>1. n = [d EXCEPT !.n = k, !.sum = a, !.sumsq = b]
    BY DEF Welford
  <2> HIDE DEF n, a, b, k
  <2> QED
    BY <2>1 DEF StormOK, StormShape, StormRecord
<1>2. k \in Nat
  BY DEF StormOK
<1> HIDE DEF a, b, k, n
<1>3. /\ n.window = d.window /\ n.cancels = d.cancels /\ n.n = k /\ n.above = d.above /\ n.burst = d.burst
      /\ n.sum = a /\ n.sumsq = b
      /\ n.refractory_until = d.refractory_until /\ n.flag = d.flag
  BY <1>1 DEF StormRecord
<1>4. StormShape(n)
  BY <1>1, <1>3 DEF StormShape
<1>5. StormOK(n)
  BY <1>2, <1>3, <1>4 DEF StormOK
<1>6. SampleOf(d, n, m)
  BY <1>3, <1>5 DEF SampleOf, Armed
<1> QED
  BY <1>3, <1>6 DEF n

(* An above-threshold sample flags outside the refractory only.            *)
LEMMA AboveSampleIs ==
    ASSUME NEW d, StormOK(d), d.flag = None, NEW e, NEW m, IsEvent(e, m)
    PROVE  SampleOf(d, AboveSample(d, e), m) /\ AboveSample(d, e).n = d.n
<1> DEFINE k == d.above + 1
           u == IF d.above = 0 THEN [seq |-> e.seq, ts |-> e.ts] ELSE d.burst
           n == [d EXCEPT !.above = @ + 1,
                          !.burst = IF d.above = 0 THEN [seq |-> e.seq, ts |-> e.ts] ELSE @]
<1>1. n = StormRecord(d.window, d.cancels, d.n, d.sum, d.sumsq, k, u, d.refractory_until, d.flag)
  <2>1. n = [d EXCEPT !.above = k, !.burst = u]
    OBVIOUS
  <2> HIDE DEF n, k, u
  <2> QED
    BY <2>1 DEF StormOK, StormShape, StormRecord
<1> DEFINE f == Some(ChaosFlag("CancellationStorm", n.burst.seq, n.burst.ts, e, None))
           r == e.seq + StormCooldown
           t == [n EXCEPT !.flag = f, !.refractory_until = r, !.above = 0]
<1>2. AboveSample(d, e) = IF n.above >= StormMinConsecutive /\ ~InRefractory(d, e) THEN t ELSE n
  BY DEF AboveSample
<1>3. f = Some(f[1]) /\ f[1].kind = "CancellationStorm" /\ f[1].end_seq = m
  BY EventFields DEF Some, ChaosFlag
<1> HIDE DEF n, k, u, f, r
<1>4. /\ n.window = d.window /\ n.cancels = d.cancels /\ n.n = d.n /\ n.above = k /\ n.burst = u
      /\ n.sum = d.sum /\ n.sumsq = d.sumsq
      /\ n.refractory_until = d.refractory_until /\ n.flag = d.flag
  BY <1>1 DEF StormRecord
<1>5. StormShape(n)
  BY <1>1, <1>4 DEF StormShape
<1>6. SampleOf(d, n, m)
  BY <1>4, <1>5 DEF StormOK, SampleOf, Armed
<1>7. t = [n EXCEPT !.flag = f, !.refractory_until = r, !.above = 0]
  OBVIOUS
<1> HIDE DEF t
<1>8. /\ t.window = d.window /\ t.cancels = d.cancels /\ t.n = d.n
      /\ t.refractory_until = r /\ t.flag = f
  BY <1>4, <1>5, <1>7 DEF StormShape, StormRecord
<1>9. StormShape(t)
  BY ONLY <1>5, <1>7 DEF StormShape, StormRecord
<1>10. r \in Nat /\ r = m + StormCooldown
  BY EventFields, StormAssumption DEF r
<1>11. StormOK(t)
  BY <1>8, <1>9, <1>10 DEF StormOK
<1>12. ASSUME ~InRefractory(d, e) PROVE SampleOf(d, t, m)
  <2>1. d.refractory_until <= m
    BY <1>12, EventFields DEF InRefractory, StormOK
  <2> QED
    BY <1>3, <1>8, <1>10, <1>11, <2>1 DEF SampleOf, Armed
<1> QED
  BY <1>2, <1>4, <1>6, <1>8, <1>12

(* A calm sample feeds the baseline outside the refractory only.           *)
LEMMA CalmSampleIs ==
    ASSUME NEW d, StormOK(d), d.flag = None, NEW e, NEW m, IsEvent(e, m), NEW x
    PROVE  /\ SampleOf(d, CalmSample(d, e, x), m)
           /\ CalmSample(d, e, x).n # d.n =>
                CalmSample(d, e, x).above = 0 /\ CalmSample(d, e, x).flag = None /\ m >= d.refractory_until
<1> DEFINE n == [d EXCEPT !.above = 0]
<1>1. n = StormRecord(d.window, d.cancels, d.n, d.sum, d.sumsq, 0, d.burst, d.refractory_until, d.flag)
  BY DEF StormOK, StormShape, StormRecord
<1>2. CalmSample(d, e, x) = IF InRefractory(d, e) THEN n ELSE Welford(n, x)
  BY DEF CalmSample
<1> HIDE DEF n
<1>3. /\ n.window = d.window /\ n.cancels = d.cancels /\ n.n = d.n /\ n.above = 0 /\ n.burst = d.burst
      /\ n.sum = d.sum /\ n.sumsq = d.sumsq
      /\ n.refractory_until = d.refractory_until /\ n.flag = d.flag
  BY <1>1 DEF StormRecord
<1>4. StormShape(n)
  BY <1>1, <1>3 DEF StormShape
<1>5. StormOK(n) /\ n.flag = None
  BY <1>3, <1>4 DEF StormOK
<1>6. SampleOf(d, n, m)
  BY <1>3, <1>5 DEF SampleOf, Armed
<1>7. SampleOf(n, Welford(n, x), m) /\ Welford(n, x).flag = None /\ Welford(n, x).above = n.above
  BY <1>5, WelfordIs
<1>8. SampleOf(d, Welford(n, x), m)
  BY <1>3, <1>7 DEF SampleOf
<1>9. ~InRefractory(d, e) => m >= d.refractory_until
  BY EventFields DEF InRefractory, StormOK
<1> QED
  BY <1>2, <1>3, <1>6, <1>7, <1>8, <1>9

(* One event through the cancellation-storm detector.                      *)
LEMMA StormProcessIs ==
    ASSUME StormOK(storm), NEW e, NEW m, IsEvent(e, m), StormProcess(e)
    PROVE  /\ StormOK(storm')
           /\ Armed(storm.refractory_until, storm'.refractory_until, storm'.flag,
                    "CancellationStorm", StormCooldown, m)
           /\ BaselineStep(storm, storm')
<1> DEFINE d0 == [storm EXCEPT !.flag = None]
           d == StormPush(d0, e)
           x == Rate(d)
<1>1. d0 = StormRecord(storm.window, storm.cancels, storm.n, storm.sum, storm.sumsq, storm.above,
                       storm.burst, storm.refractory_until, None)
  BY DEF StormOK, StormShape, StormRecord
<1>2. storm' = IF e.type \notin RateTypes THEN d0
               ELSE IF Len(d.window) < StormMinWindow THEN d
               ELSE IF d.n < StormWarmup THEN Welford(d, x)
               ELSE IF AboveThreshold(d, x) THEN AboveSample(d, e)
               ELSE CalmSample(d, e, x)
  BY DEF StormProcess
<1> HIDE DEF d0, x
<1>3. /\ d0.window = storm.window /\ d0.cancels = storm.cancels /\ d0.n = storm.n
      /\ d0.above = storm.above /\ d0.burst = storm.burst /\ d0.sum = storm.sum
      /\ d0.sumsq = storm.sumsq /\ d0.refractory_until = storm.refractory_until /\ d0.flag = None
  BY <1>1 DEF StormRecord
<1>4. StormShape(d0)
  BY <1>1, <1>3 DEF StormShape
<1>5. StormOK(d0)
  BY <1>3, <1>4 DEF StormOK
<1>6. /\ StormOK(d) /\ d.window # <<>> /\ d.window[Len(d.window)].seq = m
      /\ d.n = d0.n /\ d.refractory_until = d0.refractory_until /\ d.flag = d0.flag
  BY <1>5, StormPushIs
<1> HIDE DEF d
<1>7. d.flag = None /\ d.n = storm.n /\ d.refractory_until = storm.refractory_until
  BY <1>3, <1>6
<1>8. storm.n \in Nat
  BY DEF StormOK
<1>9. CASE storm' = d0
  BY <1>3, <1>5, <1>9 DEF Armed, BaselineStep
<1>10. CASE storm' = d
  BY <1>6, <1>7, <1>10 DEF Armed, BaselineStep
<1>11. CASE storm' = Welford(d, x) /\ d.n < StormWarmup
  <2>1. SampleOf(d, Welford(d, x), m)
    BY <1>6, <1>7, WelfordIs
  <2>2. ~(storm.n >= StormWarmup)
    BY <1>7, <1>8, <1>11, StormAssumption
  <2> QED
    BY <1>7, <1>11, <2>1, <2>2 DEF SampleOf, BaselineStep
<1>12. CASE storm' = AboveSample(d, e)
  <2>1. SampleOf(d, AboveSample(d, e), m) /\ AboveSample(d, e).n = d.n
    BY <1>6, <1>7, AboveSampleIs
  <2> QED
    BY <1>7, <1>12, <2>1 DEF SampleOf, BaselineStep
<1>13. CASE storm' = CalmSample(d, e, x)
  <2>1. /\ SampleOf(d, CalmSample(d, e, x), m)
        /\ CalmSample(d, e, x).n # d.n =>
             CalmSample(d, e, x).above = 0 /\ CalmSample(d, e, x).flag = None /\ m >= d.refractory_until
    BY <1>6, <1>7, CalmSampleIs
  <2>2. storm'.window[Len(storm'.window)].seq = m
    BY <1>6, <1>13, <2>1 DEF SampleOf
  <2> QED
    BY <1>7, <1>13, <2>1, <2>2 DEF SampleOf, BaselineStep, IsSome, None
<1> QED
  BY <1>2, <1>9, <1>10, <1>11, <1>12, <1>13

-----------------------------------------------------------------------------
(* Vec::retain.                                                            *)

RankIn(idx, i) == Cardinality({j \in idx : j <= i})

(* Every rank up to the number of kept positions is taken, and once.       *)
LEMMA RankOnto ==
    ASSUME NEW idx \in SUBSET Nat, IsFiniteSet(idx)
    PROVE  \A k \in 1..Cardinality(idx) : \E i \in idx : RankIn(idx, i) = k
<1> DEFINE N == Cardinality(idx)
           T == 1..N
           f == [i \in idx |-> RankIn(idx, i)]
           upto(i) == {j \in idx : j <= i}
<1>1. N \in Nat
  BY FS_CardinalityType
<1>2. ASSUME NEW i \in idx
      PROVE  IsFiniteSet(upto(i)) /\ RankIn(idx, i) \in T
  <2>1. upto(i) \in SUBSET idx /\ i \in upto(i)
    OBVIOUS
  <2> DEFINE u == upto(i)
  <2>2. u \in SUBSET idx /\ u # {}
    BY <2>1
  <2>3. RankIn(idx, i) = Cardinality(u)
    BY DEF RankIn
  <2> HIDE DEF u
  <2>4. IsFiniteSet(u) /\ Cardinality(u) <= N /\ Cardinality(u) \in Nat
    BY <2>2, FS_Subset, FS_CardinalityType
  <2>5. Cardinality(u) # 0
    BY <2>2, <2>4, FS_EmptySet
  <2> QED
    BY <1>1, <2>3, <2>4, <2>5 DEF u
<1>3. ASSUME NEW i \in idx, NEW k \in idx, i < k
      PROVE  RankIn(idx, i) < RankIn(idx, k)
  <2> DEFINE a == upto(i)
             b == upto(k)
  <2>0. i \in Nat /\ k \in Nat /\ \A j \in idx : j \in Nat
    OBVIOUS
  <2>1. a \in SUBSET b /\ k \in b /\ k \notin a
    <3>1. \A j \in idx : j <= i => j <= k
      BY <1>3, <2>0
    <3>2. k <= k /\ ~(k <= i)
      BY <1>3, <2>0
    <3> QED
      BY <3>1, <3>2
  <2>2. IsFiniteSet(a) /\ IsFiniteSet(b) /\ RankIn(idx, i) = Cardinality(a) /\ RankIn(idx, k) = Cardinality(b)
    BY <1>2 DEF RankIn
  <2> HIDE DEF a, b
  <2>3. a \in SUBSET (b \ {k}) /\ IsFiniteSet(b \ {k}) /\ Cardinality(b \ {k}) = Cardinality(b) - 1
    BY <2>1, <2>2, FS_RemoveElement
  <2>4. Cardinality(a) <= Cardinality(b \ {k})
    BY <2>3, FS_Subset
  <2>5. Cardinality(a) \in Nat /\ Cardinality(b) \in Nat
    BY <2>2, FS_CardinalityType
  <2> QED
    BY <2>2, <2>3, <2>4, <2>5
<1>4. f \in [idx -> T]
  BY <1>2
<1>5. \A i, k \in idx : f[i] = f[k] => i = k
  <2> SUFFICES ASSUME NEW i \in idx, NEW k \in idx, f[i] = f[k], i # k PROVE FALSE
    OBVIOUS
  <2>1. f[i] \in Int /\ f[i] = RankIn(idx, i) /\ f[k] = RankIn(idx, k)
    BY <1>1, <1>4
  <2>2. i < k \/ k < i
    OBVIOUS
  <2> QED
    BY <1>3, <2>1, <2>2
<1>6. IsFiniteSet(T) /\ Cardinality(T) = N
  <2>1. IsFiniteSet(1..N) /\ Cardinality(1..N) = IF 1 > N THEN 0 ELSE N - 1 + 1
    BY <1>1, FS_Interval
  <2> QED
    BY <1>1, <2>1
<1>7. \A i \in idx : f[i] = RankIn(idx, i)
  OBVIOUS
<1> HIDE DEF f, T
<1>8. \A y \in T : \E x \in idx : f[x] = y
  <2>1. Cardinality(idx) = Cardinality(T) /\ IsFiniteSet(T)
    BY <1>6
  <2>2. OneToOne(f, idx, T)
    BY <1>4, <1>5 DEF OneToOne
  <2>3. f \in Surjection(idx, T)
    BY ONLY <2>1, <2>2, OntoAsMany
  <2> QED
    BY ONLY <2>3 DEF Surjection
<1> QED
  BY <1>7, <1>8 DEF T

(* Which entry of s each kept one is.                                      *)
Retained(X, s, idx, t) ==
    /\ t \in Seq(X) /\ Len(t) = Cardinality(idx)
    /\ \A k \in 1..Len(t) : \E i \in idx : t[k] = s[i]
    /\ \A k, l \in 1..Len(t) : k # l => \E i, j \in idx : i # j /\ t[k] = s[i] /\ t[l] = s[j]

(* Vec::retain keeps the kept entries, each once and in order.             *)
LEMMA RetainIs ==
    ASSUME NEW X, NEW s \in Seq(X), NEW idx \in SUBSET (1..Len(s))
    PROVE  Retained(X, s, idx, Retain(s, idx))
<1> DEFINE N == Cardinality(idx)
           at(k) == CHOOSE i \in idx : RankIn(idx, i) = k
           t == [k \in 1..N |-> s[at(k)]]
<1>0. Len(s) \in Int /\ 1 \in Int /\ idx \in SUBSET Nat
  OBVIOUS
<1>1. IsFiniteSet(idx) /\ N \in Nat
  BY <1>0, Indices
<1>2. Retain(s, idx) = t
  BY DEF Retain, RankIn
<1>3. \A k \in 1..N : \E i \in idx : RankIn(idx, i) = k
  BY <1>0, <1>1, RankOnto
<1>4. \A k \in 1..N : at(k) \in idx /\ RankIn(idx, at(k)) = k
  BY <1>3
<1> HIDE DEF N, at
<1>a. \A i \in idx : s[i] \in X
  OBVIOUS
<1>5. \A k \in 1..N : s[at(k)] \in X
  BY ONLY <1>4, <1>a
<1>6. t \in Seq(X) /\ Len(t) = N /\ \A k \in 1..N : t[k] = s[at(k)]
  BY <1>1, <1>5
<1> HIDE DEF t
<1>7. \A k \in 1..Len(t) : \E i \in idx : t[k] = s[i]
  BY <1>4, <1>6
<1>8. ASSUME NEW k \in 1..Len(t), NEW l \in 1..Len(t), k # l
      PROVE  \E i, j \in idx : i # j /\ t[k] = s[i] /\ t[l] = s[j]
  <2>1. at(k) \in idx /\ at(l) \in idx /\ at(k) # at(l) /\ t[k] = s[at(k)] /\ t[l] = s[at(l)]
    BY <1>4, <1>6, <1>8
  <2> QED
    BY <2>1
<1>9. Retained(X, s, idx, t)
  BY <1>6, <1>7, <1>8 DEF Retained, N
<1> QED
  BY <1>2, <1>9

-----------------------------------------------------------------------------
(* Spoofing.                                                               *)

Large == [seq : Nat, ts : Nat, order_id : Nat]

(* The entries were added by different events, none after event n.         *)
DistinctUpTo(s, n) ==
    /\ \A i \in 1..Len(s) : s[i].seq <= n
    /\ \A i, j \in 1..Len(s) : i # j => s[i].seq # s[j].seq

SpoofOK(d, n) ==
    /\ d = [large |-> d.large, flag |-> d.flag]
    /\ d.large \in Seq(Large) /\ DistinctUpTo(d.large, n)
    /\ Len(d.large) <= 2 * SpoofWindow

(* A flag that one event returns.                                          *)
Returned(flag, kind, m) ==
    \/ flag = None
    \/ flag = Some(flag[1]) /\ flag[1].kind = kind /\ flag[1].end_seq = m

(* The entries left after a large add lie in a range of sequence numbers   *)
(* as long as the cap, and no two share one.                               *)
LEMMA SpoofAddIs ==
    ASSUME NEW n \in Nat, SpoofOK(spoof, n), NEW e, IsEvent(e, n + 1)
    PROVE  SpoofAdd(e) \in Seq(Large) /\ DistinctUpTo(SpoofAdd(e), n + 1) /\ Len(SpoofAdd(e)) <= 2 * SpoofWindow
<1> DEFINE x == [seq |-> e.seq, ts |-> e.ts, order_id |-> e.order_id]
           m == n + 1
           L == Len(spoof.large)
           all == Append(spoof.large, x)
           idx == {i \in DOMAIN all : e.seq - all[i].seq < SpoofWindow * 2}
           t == Retain(all, idx)
<1>0. m \in Nat /\ x \in Large /\ x.seq = m /\ e.seq = m /\ n < m /\ SpoofWindow \in Nat
  BY EventFields, PatternAssumption DEF Large
<1>1. spoof.large \in Seq(Large) /\ DistinctUpTo(spoof.large, n) /\ L \in Nat
  BY DEF SpoofOK
<1>2. SpoofAdd(e) = t
  BY DEF SpoofAdd
<1> HIDE DEF x
<1>3. /\ all \in Seq(Large) /\ Len(all) = L + 1 /\ DOMAIN all = 1..(L + 1)
      /\ all[L + 1] = x /\ \A i \in 1..L : all[i] = spoof.large[i]
  BY <1>0, <1>1
<1>4. \A i \in 1..(L + 1) : all[i] \in Large /\ all[i].seq \in Nat
  <2>1. \A i \in 1..(L + 1) : all[i] \in Large
    BY <1>3
  <2>2. \A y \in Large : y.seq \in Nat
    BY DEF Large
  <2> QED
    BY <2>1, <2>2
<1>5. idx \in SUBSET (1..Len(all)) /\ idx \in SUBSET (1..(L + 1))
  BY <1>3
<1> HIDE DEF all
<1>6. \A i \in 1..(L + 1) : all[i].seq <= m
  <2> SUFFICES ASSUME NEW i \in 1..(L + 1) PROVE all[i].seq <= m
    OBVIOUS
  <2>1. CASE i = L + 1
    BY <1>0, <1>3, <2>1
  <2>2. CASE i \in 1..L
    <3>1. all[i].seq <= n
      BY <1>1, <1>3, <2>2 DEF DistinctUpTo
    <3> QED
      BY <1>0, <1>4, <3>1
  <2> QED
    BY <1>1, <2>1, <2>2
<1>7. \A i, j \in 1..(L + 1) : i # j => all[i].seq # all[j].seq
  <2>1. \A i \in 1..L : all[i].seq # m
    <3> SUFFICES ASSUME NEW i \in 1..L PROVE all[i].seq # m
      OBVIOUS
    <3>1. all[i].seq <= n
      BY <1>1, <1>3 DEF DistinctUpTo
    <3> QED
      BY <1>0, <3>1
  <2>2. all[L + 1].seq = m
    BY <1>0, <1>3
  <2>3. \A i, j \in 1..L : i # j => all[i].seq # all[j].seq
    BY <1>1, <1>3 DEF DistinctUpTo
  <2>4. \A i \in 1..(L + 1) : i = L + 1 \/ i \in 1..L
    BY <1>1
  <2> QED
    BY <2>1, <2>2, <2>3, <2>4
<1>8. Cardinality(idx) <= 2 * SpoofWindow
  <2> DEFINE lo == m - 2 * SpoofWindow + 1
             T == lo..m
             f == [i \in idx |-> all[i].seq]
  <2>1. lo \in Int /\ m \in Int
    BY <1>0
  <2>2. IsFiniteSet(T) /\ Cardinality(T) = IF lo > m THEN 0 ELSE m - lo + 1
    BY <2>1, FS_Interval
  <2>3. Cardinality(T) = 2 * SpoofWindow
    BY <1>0, <2>2
  <2>4. \A i \in idx : all[i].seq \in T
    <3> SUFFICES ASSUME NEW i \in idx PROVE all[i].seq \in T
      OBVIOUS
    <3>1. i \in 1..(L + 1) /\ m - all[i].seq < SpoofWindow * 2
      BY <1>0, <1>5
    <3>2. all[i].seq \in Nat /\ all[i].seq <= m
      BY <1>4, <1>6, <3>1
    <3> QED
      BY <1>0, <3>1, <3>2
  <2> HIDE DEF T, lo, idx
  <2>5. OneToOne(f, idx, T)
    BY <1>5, <1>7, <2>4 DEF OneToOne
  <2> HIDE DEF f
  <2>6. Cardinality(idx) <= Cardinality(T)
    BY ONLY <2>2, <2>5, AtMostAsMany
  <2> QED
    BY <2>3, <2>6
<1> HIDE DEF idx, t
<1>9. Retained(Large, all, idx, t)
  BY <1>3, <1>5, RetainIs DEF t
<1>10. t \in Seq(Large) /\ Len(t) = Cardinality(idx)
  BY <1>9 DEF Retained
<1>11. DistinctUpTo(t, m)
  <2>1. \A k \in 1..Len(t) : t[k].seq <= m
    BY <1>5, <1>6, <1>9 DEF Retained
  <2>2. ASSUME NEW k \in 1..Len(t), NEW l \in 1..Len(t), k # l PROVE t[k].seq # t[l].seq
    <3>1. PICK i \in idx, j \in idx : i # j /\ t[k] = all[i] /\ t[l] = all[j]
      BY <1>9, <2>2 DEF Retained
    <3> QED
      BY <1>5, <1>7, <3>1
  <2> QED
    BY <2>1, <2>2 DEF DistinctUpTo
<1> QED
  BY <1>2, <1>8, <1>10, <1>11

(* All positions of a sequence but one.                                    *)
LEMMA AllButOne ==
    ASSUME NEW L \in Nat, NEW p, p \in 1..L
    PROVE  Cardinality((1..L) \ {p}) = L - 1
<1>1. IsFiniteSet(1..L) /\ Cardinality(1..L) = IF 1 > L THEN 0 ELSE L - 1 + 1
  BY FS_Interval
<1>2. Cardinality((1..L) \ {p}) = Cardinality(1..L) - 1
  BY <1>1, FS_RemoveElement
<1> QED
  BY <1>1, <1>2

(* Vec::remove, seen as a retain of all but one entry.                     *)
LEMMA RemoveAtIs ==
    ASSUME NEW X, NEW s \in Seq(X), NEW p, p \in 1..Len(s)
    PROVE  Retained(X, s, (1..Len(s)) \ {p}, RemoveAt(s, p))
<1> DEFINE L == Len(s)
           a == SubSeq(s, 1, p - 1)
           b == SubSeq(s, p + 1, L)
           t == RemoveAt(s, p)
           at(k) == IF k < p THEN k ELSE k + 1
           idx == (1..L) \ {p}
<1>0. L \in Nat /\ p \in Nat /\ 1 <= p /\ p <= L
  OBVIOUS
<1>1. a \in Seq(X) /\ Len(a) = p - 1 /\ \A k \in 1..(p - 1) : a[k] = s[k]
  BY <1>0
<1>2. b \in Seq(X) /\ Len(b) = L - p /\ \A k \in 1..(L - p) : b[k] = s[p + k]
  BY <1>0
<1>3. t = a \o b
  BY DEF RemoveAt
<1> HIDE DEF a, b, t
<1>4. t \in Seq(X) /\ Len(t) = L - 1
  <2>1. a \in Seq(X) /\ b \in Seq(X)
    BY <1>1, <1>2
  <2>2. t \in Seq(X) /\ Len(t) = Len(a) + Len(b)
    BY ONLY <1>3, <2>1
  <2> QED
    BY <1>0, <1>1, <1>2, <2>2
<1>5. ASSUME NEW k \in 1..Len(t) PROVE t[k] = s[at(k)] /\ at(k) \in idx
  <2>1. CASE k < p
    <3>1. t[k] = a[k] /\ k \in 1..(p - 1)
      BY <1>0, <1>1, <1>2, <1>3, <1>4, <2>1
    <3> QED
      BY <1>0, <1>1, <1>4, <2>1, <3>1
  <2>2. CASE ~(k < p)
    <3>0. k \in Int /\ k > Len(a) /\ k <= Len(a) + Len(b) /\ k - Len(a) = k - p + 1 /\ k - p + 1 \in 1..(L - p)
      BY <1>0, <1>1, <1>2, <1>4, <2>2
    <3>1. t[k] = b[k - p + 1] /\ k - p + 1 \in 1..(L - p)
      <4>1. a \in Seq(X) /\ b \in Seq(X) /\ Len(a) \in Nat /\ Len(b) \in Nat
        BY ONLY <1>1, <1>2
      <4>2. k \in 1..Len(a) + Len(b) /\ ~(k <= Len(a))
        BY ONLY <3>0, <4>1
      <4>3. t[k] = b[k - Len(a)]
        BY ONLY <1>3, <4>1, <4>2, ConcatProperties
      <4> QED
        BY ONLY <3>0, <4>3
    <3>2. p + (k - p + 1) = k + 1 /\ k + 1 \in 1..L /\ k + 1 # p
      BY <1>0, <1>4, <2>2
    <3>3. b[k - p + 1] = s[k + 1]
      BY <1>2, <3>1, <3>2
    <3> QED
      BY <2>2, <3>1, <3>2, <3>3
  <2> QED
    BY <2>1, <2>2
<1>6. \A k, l \in 1..Len(t) : k # l => at(k) # at(l)
  BY <1>0, <1>4
<1>7. Cardinality(idx) = L - 1
  BY <1>0, AllButOne
<1> HIDE DEF at, idx
<1>8. \A k \in 1..Len(t) : \E i \in idx : t[k] = s[i]
  BY <1>5
<1>9. \A k, l \in 1..Len(t) : k # l => \E i, j \in idx : i # j /\ t[k] = s[i] /\ t[l] = s[j]
  BY <1>5, <1>6
<1>10. Retained(X, s, idx, t)
  BY <1>4, <1>7, <1>8, <1>9 DEF Retained
<1> QED
  BY <1>10 DEF idx, t

(* Entries that stay are still distinct.                                   *)
LEMMA DistinctRetained ==
    ASSUME NEW s, NEW n, DistinctUpTo(s, n), NEW X, NEW idx \in SUBSET (1..Len(s)), NEW t,
           Retained(X, s, idx, t)
    PROVE  DistinctUpTo(t, n)
<1>1. \A k \in 1..Len(t) : t[k].seq <= n
  BY DEF DistinctUpTo, Retained
<1>2. ASSUME NEW k \in 1..Len(t), NEW l \in 1..Len(t), k # l PROVE t[k].seq # t[l].seq
  <2>1. PICK i \in idx, j \in idx : i # j /\ t[k] = s[i] /\ t[l] = s[j]
    BY <1>2 DEF Retained
  <2> QED
    BY <2>1 DEF DistinctUpTo
<1> QED
  BY <1>1, <1>2 DEF DistinctUpTo

LEMMA DistinctLater ==
    ASSUME NEW s \in Seq(Large), NEW n \in Nat, DistinctUpTo(s, n)
    PROVE  DistinctUpTo(s, n + 1)
<1>1. \A i \in 1..Len(s) : s[i] \in Large
  OBVIOUS
<1>2. \A i \in 1..Len(s) : s[i].seq \in Nat
  BY <1>1 DEF Large
<1> QED
  BY <1>2 DEF DistinctUpTo

(* One event through the spoof detector.                                   *)
LEMMA SpoofProcessIs ==
    ASSUME NEW n \in Nat, SpoofOK(spoof, n), NEW e, IsEvent(e, n + 1), SpoofProcess(e)
    PROVE  SpoofOK(spoof', n + 1) /\ Returned(spoof'.flag, "Spoof", n + 1)
<1> DEFINE m == n + 1
           large == spoof.large
           quiet == [spoof EXCEPT !.flag = None]
<1>0. large \in Seq(Large) /\ Len(large) \in Nat /\ Len(large) <= 2 * SpoofWindow /\ SpoofWindow \in Nat
  BY PatternAssumption DEF SpoofOK
<1>1. DistinctUpTo(large, m)
  BY <1>0, DistinctLater DEF SpoofOK
<1>2. CASE spoof' = quiet
  <2>1. spoof'.large = large /\ spoof'.flag = None /\ spoof' = [large |-> spoof'.large, flag |-> spoof'.flag]
    BY <1>2 DEF SpoofOK
  <2> QED
    BY <1>0, <1>1, <2>1 DEF SpoofOK, Returned
<1>3. CASE spoof' = [large |-> SpoofAdd(e), flag |-> None]
  <2>1. spoof'.large = SpoofAdd(e) /\ spoof'.flag = None /\ spoof' = [large |-> spoof'.large, flag |-> spoof'.flag]
    BY <1>3
  <2>2. SpoofAdd(e) \in Seq(Large) /\ DistinctUpTo(SpoofAdd(e), n + 1) /\ Len(SpoofAdd(e)) <= 2 * SpoofWindow
    BY SpoofAddIs
  <2> QED
    BY <2>1, <2>2 DEF SpoofOK, Returned
<1>4. CASE spoof' = SpoofCancel(e)
  <2> DEFINE at == {i \in DOMAIN large : large[i].order_id = e.order_id}
             i == CHOOSE k \in at : \A j \in at : k <= j
             t == RemoveAt(large, i)
             f == Some(ChaosFlag("Spoof", large[i].seq, large[i].ts, e, Some(e.order_id)))
             g == IF e.seq - large[i].seq <= SpoofWindow THEN f ELSE None
  <2>1. CASE at = {}
    <3>1. spoof' = quiet
      BY <1>4, <2>1 DEF SpoofCancel
    <3> QED
      BY <1>2, <3>1
  <2>2. CASE at # {}
    <3>1. spoof' = [large |-> t, flag |-> g]
      BY <1>4, <2>2 DEF SpoofCancel
    <3>2. at \in SUBSET Nat /\ at \in SUBSET (1..Len(large))
      BY <1>0
    <3> HIDE DEF at
    <3>3. i \in at
      BY <2>2, <3>2, FirstOf
    <3>4. i \in 1..Len(large)
      BY <3>2, <3>3
    <3>5. f = Some(f[1]) /\ f[1].kind = "Spoof" /\ f[1].end_seq = m
      BY EventFields DEF Some, ChaosFlag
    <3> HIDE DEF f, i
    <3>6. Returned(g, "Spoof", m)
      BY <3>5 DEF Returned
    <3> HIDE DEF t, g
    <3>7. Retained(Large, large, (1..Len(large)) \ {i}, t)
      BY <1>0, <3>4, RemoveAtIs DEF t
    <3>8. DistinctUpTo(t, m)
      <4>1. (1..Len(large)) \ {i} \in SUBSET (1..Len(large))
        OBVIOUS
      <4> QED
        BY ONLY <1>1, <3>7, <4>1, DistinctRetained
    <3>9. t \in Seq(Large) /\ Len(t) <= 2 * SpoofWindow
      <4>1. Cardinality((1..Len(large)) \ {i}) = Len(large) - 1
        <5>1. Len(large) \in Nat
          BY <1>0
        <5> QED
          BY ONLY <3>4, <5>1, AllButOne
      <4> QED
        BY <1>0, <3>7, <4>1 DEF Retained
    <3>10. spoof'.large = t /\ spoof'.flag = g /\ spoof' = [large |-> spoof'.large, flag |-> spoof'.flag]
      BY <3>1
    <3> QED
      BY <3>6, <3>8, <3>9, <3>10 DEF SpoofOK
  <2> QED
    BY <2>1, <2>2
<1> QED
  BY <1>2, <1>3, <1>4 DEF SpoofProcess

-----------------------------------------------------------------------------
(* Phantom liquidity.                                                      *)

TrackerRecord(s, t, a, c, o, x) ==
    [created_seq |-> s, created_ts |-> t, added |-> a, cancelled |-> c, order_count |-> o,
     cancel_count |-> x]

TrackerOK(t, m) ==
    /\ t = TrackerRecord(t.created_seq, t.created_ts, t.added, t.cancelled, t.order_count, t.cancel_count)
    /\ t.created_seq \in Nat /\ t.created_seq <= m

(* The tracked levels, none of them printed on since it was created.       *)
LevelsOK(levels, m, prints) ==
    /\ levels = [k \in DOMAIN levels |-> levels[k]]
    /\ IsFiniteSet(DOMAIN levels)
    /\ \A k \in DOMAIN levels : TrackerOK(levels[k], m)
    /\ \A k \in DOMAIN levels : k \in DOMAIN prints => prints[k] < levels[k].created_seq

PhantomOK(p, m, prints) ==
    /\ p = [levels |-> p.levels, orders |-> p.orders, flag |-> p.flag, key |-> p.key]
    /\ LevelsOK(p.levels, m, prints)
    /\ Cardinality(DOMAIN p.levels) <= PhantomMaxTracked

PrintsOK(prints, n) == \A k \in DOMAIN prints : prints[k] \in Nat /\ prints[k] <= n

LEMMA WithoutIs ==
    ASSUME NEW f, NEW k
    PROVE  DOMAIN Without(f, k) = DOMAIN f \ {k} /\ \A x \in DOMAIN f \ {k} : Without(f, k)[x] = f[x]
BY DEF Without

(* Dropping a tracked level makes room.                                    *)
LEMMA LevelsWithout ==
    ASSUME NEW levels, NEW m, NEW prints, LevelsOK(levels, m, prints), NEW k
    PROVE  /\ LevelsOK(Without(levels, k), m, prints)
           /\ Cardinality(DOMAIN Without(levels, k))
                = IF k \in DOMAIN levels THEN Cardinality(DOMAIN levels) - 1 ELSE Cardinality(DOMAIN levels)
<1> DEFINE w == Without(levels, k)
<1>1. DOMAIN w = DOMAIN levels \ {k} /\ \A x \in DOMAIN levels \ {k} : w[x] = levels[x]
  BY WithoutIs
<1>2. w = [x \in DOMAIN w |-> w[x]]
  BY DEF Without
<1>3. IsFiniteSet(DOMAIN levels)
  BY DEF LevelsOK
<1> HIDE DEF w
<1>4. IsFiniteSet(DOMAIN levels \ {k}) /\ Cardinality(DOMAIN levels \ {k})
        = IF k \in DOMAIN levels THEN Cardinality(DOMAIN levels) - 1 ELSE Cardinality(DOMAIN levels)
  BY <1>3, FS_RemoveElement
<1>5. LevelsOK(w, m, prints)
  BY <1>1, <1>2, <1>4 DEF LevelsOK
<1> QED
  BY <1>1, <1>4, <1>5 DEF w

(* Tracking a level takes one place, if it was not tracked.                *)
LEMMA LevelsWith ==
    ASSUME NEW levels, NEW m, NEW prints, LevelsOK(levels, m, prints), NEW k, NEW t, TrackerOK(t, m),
           k \in DOMAIN prints => prints[k] < t.created_seq
    PROVE  /\ LevelsOK(With(levels, k, t), m, prints)
           /\ Cardinality(DOMAIN With(levels, k, t))
                = IF k \in DOMAIN levels THEN Cardinality(DOMAIN levels) ELSE Cardinality(DOMAIN levels) + 1
<1> DEFINE w == With(levels, k, t)
<1>1. DOMAIN w = DOMAIN levels \cup {k} /\ w[k] = t /\ \A x \in DOMAIN levels : x # k => w[x] = levels[x]
  BY DEF With
<1>2. w = [x \in DOMAIN w |-> w[x]]
  BY DEF With
<1>3. IsFiniteSet(DOMAIN levels)
  BY DEF LevelsOK
<1> HIDE DEF w
<1>4. IsFiniteSet(DOMAIN levels \cup {k}) /\ Cardinality(DOMAIN levels \cup {k})
        = IF k \in DOMAIN levels THEN Cardinality(DOMAIN levels) ELSE Cardinality(DOMAIN levels) + 1
  BY <1>3, FS_AddElement
<1>5. \A x \in DOMAIN w : x = k \/ (x \in DOMAIN levels /\ x # k)
  BY <1>1
<1>6. LevelsOK(w, m, prints)
  BY <1>1, <1>2, <1>4, <1>5 DEF LevelsOK
<1> QED
  BY <1>1, <1>4, <1>6 DEF w

(* evict_oldest leaves fewer levels than before.                           *)
LEMMA EvictOldestIs ==
    ASSUME NEW levels, NEW m, NEW prints, LevelsOK(levels, m, prints), DOMAIN levels # {}
    PROVE  /\ LevelsOK(EvictOldest(levels), m, prints)
           /\ Cardinality(DOMAIN EvictOldest(levels)) = Cardinality(DOMAIN levels) - 1
<1> DEFINE S == {levels[k].created_seq : k \in DOMAIN levels}
           old == CHOOSE k \in DOMAIN levels :
                     \A j \in DOMAIN levels : levels[k].created_seq <= levels[j].created_seq
<1>1. S \in SUBSET Nat /\ S # {}
  BY DEF LevelsOK, TrackerOK
<1>2. PICK s \in S : \A x \in S : s <= x
  BY <1>1, LeastNumber
<1>3. \E k \in DOMAIN levels : \A j \in DOMAIN levels : levels[k].created_seq <= levels[j].created_seq
  BY <1>2
<1>4. old \in DOMAIN levels
  BY <1>3
<1>5. levels # EmptyMap
  BY DEF EmptyMap
<1>6. EvictOldest(levels) = Without(levels, old)
  BY <1>5 DEF EvictOldest
<1> HIDE DEF old
<1> QED
  BY <1>4, <1>6, LevelsWithout

(* on_add makes room before it inserts, so the cap holds.                  *)
LEMMA PhantomAddIs ==
    ASSUME NEW p, NEW n \in Nat, NEW prints, PrintsOK(prints, n), PhantomOK(p, n + 1, prints),
           NEW e, IsEvent(e, n + 1), NEW q, q = PhantomAdd(p, e)
    PROVE  PhantomOK(q, n + 1, prints) /\ q.flag = p.flag /\ q.key = p.key
<1> DEFINE m == n + 1
           full == Cardinality(DOMAIN p.levels) >= PhantomMaxTracked
           levels == IF full THEN EvictOldest(p.levels) ELSE p.levels
           key == <<e.side, e.price>>
           t == IF key \in DOMAIN levels
                THEN [levels[key] EXCEPT !.added = @ + e.qty, !.order_count = @ + 1]
                ELSE [created_seq |-> e.seq, created_ts |-> e.ts, added |-> e.qty,
                      cancelled |-> 0, order_count |-> 1, cancel_count |-> 0]
           new == With(levels, key, t)
           ord == IF e.order_id # 0 THEN With(p.orders, e.order_id, key) ELSE p.orders
<1>0. m \in Nat /\ e.seq = m /\ e.ts = m
  BY EventFields
<1>1. /\ p = [levels |-> p.levels, orders |-> p.orders, flag |-> p.flag, key |-> p.key]
      /\ LevelsOK(p.levels, m, prints) /\ Cardinality(DOMAIN p.levels) <= PhantomMaxTracked
      /\ IsFiniteSet(DOMAIN p.levels) /\ Cardinality(DOMAIN p.levels) \in Nat
  <2>1. LevelsOK(p.levels, m, prints) /\ IsFiniteSet(DOMAIN p.levels)
    BY DEF PhantomOK, LevelsOK
  <2> QED
    BY <2>1, FS_CardinalityType DEF PhantomOK
<1>2. q = [p EXCEPT !.levels = new, !.orders = ord]
  BY DEF PhantomAdd
<1>3. LevelsOK(levels, m, prints) /\ Cardinality(DOMAIN levels) < PhantomMaxTracked
  <2>1. CASE full
    <3>1. DOMAIN p.levels # {}
      BY <1>1, <2>1, PatternAssumption, FS_EmptySet
    <3>2. /\ LevelsOK(EvictOldest(p.levels), m, prints)
          /\ Cardinality(DOMAIN EvictOldest(p.levels)) = Cardinality(DOMAIN p.levels) - 1
      BY <1>1, <3>1, EvictOldestIs
    <3> QED
      BY <1>1, <2>1, <3>2, PatternAssumption
  <2>2. CASE ~full
    BY <1>1, <2>2, PatternAssumption
  <2> QED
    BY <2>1, <2>2
<1> HIDE DEF full, levels
<1>4. TrackerOK(t, m) /\ (key \in DOMAIN prints => prints[key] < t.created_seq)
  <2>1. CASE key \in DOMAIN levels
    <3> DEFINE l == levels[key]
               a == l.added + e.qty
               c == l.order_count + 1
    <3>1. TrackerOK(l, m) /\ (key \in DOMAIN prints => prints[key] < l.created_seq)
      BY <1>3, <2>1 DEF LevelsOK
    <3>2. t = [l EXCEPT !.added = a, !.order_count = c]
      BY <2>1
    <3> HIDE DEF l, a, c, t
    <3>3. t.created_seq = l.created_seq
      BY <3>1, <3>2 DEF TrackerOK, TrackerRecord
    <3>4. t = TrackerRecord(t.created_seq, t.created_ts, t.added, t.cancelled, t.order_count, t.cancel_count)
      BY ONLY <3>1, <3>2 DEF TrackerOK, TrackerRecord
    <3>5. TrackerOK(t, m)
      BY <3>1, <3>3, <3>4 DEF TrackerOK
    <3> QED
      BY <3>1, <3>3, <3>5
  <2>2. CASE key \notin DOMAIN levels
    <3>1. t = TrackerRecord(m, m, e.qty, 0, 1, 0)
      BY <1>0, <2>2 DEF TrackerRecord
    <3> HIDE DEF t
    <3>2. t.created_seq = m /\ TrackerOK(t, m)
      BY <1>0, <3>1 DEF TrackerOK, TrackerRecord
    <3>3. key \in DOMAIN prints => prints[key] < m
      BY DEF PrintsOK
    <3> QED
      BY <3>2, <3>3
  <2> QED
    BY <2>1, <2>2
<1> HIDE DEF t, key
<1>5. /\ LevelsOK(new, m, prints)
      /\ Cardinality(DOMAIN new)
           = IF key \in DOMAIN levels THEN Cardinality(DOMAIN levels) ELSE Cardinality(DOMAIN levels) + 1
  BY <1>3, <1>4, LevelsWith
<1>6. Cardinality(DOMAIN levels) \in Nat
  <2>1. IsFiniteSet(DOMAIN levels)
    BY <1>3 DEF LevelsOK
  <2> QED
    BY <2>1, FS_CardinalityType
<1>7. Cardinality(DOMAIN new) <= PhantomMaxTracked
  BY <1>3, <1>5, <1>6, PatternAssumption
<1> HIDE DEF new, ord
<1>8. q.levels = new /\ q.flag = p.flag /\ q.key = p.key
  BY <1>1, <1>2
<1>9. q = [levels |-> q.levels, orders |-> q.orders, flag |-> q.flag, key |-> q.key]
  BY ONLY <1>1, <1>2
<1> QED
  BY <1>5, <1>7, <1>8, <1>9 DEF PhantomOK

(* The flag of a phantom names a level without a print since its creation. *)
PhantomFlagOK(q, m, prints) ==
    /\ Returned(q.flag, "PhantomLiquidity", m)
    /\ (IsSome(q.flag) /\ q.key[1] \in DOMAIN prints) => prints[q.key[1]] < q.flag[1].start_seq

(* on_cancel flags only a level that no print has named.                   *)
LEMMA PhantomCancelIs ==
    ASSUME NEW p, NEW n \in Nat, NEW prints, PhantomOK(p, n + 1, prints), p.flag = None,
           NEW e, IsEvent(e, n + 1), NEW q, q = PhantomCancel(p, e)
    PROVE  PhantomOK(q, n + 1, prints) /\ PhantomFlagOK(q, n + 1, prints)
<1> DEFINE m == n + 1
           key == IF e.order_id = 0 THEN <<e.side, e.price>> ELSE p.orders[e.order_id]
           ord == Without(p.orders, e.order_id)
           l == p.levels[key]
           t == [p.levels[key] EXCEPT !.cancelled = @ + RemovedQty(p.levels[key], e),
                                      !.cancel_count = @ + 1]
           small == [p EXCEPT !.orders = Without(@, e.order_id)]
           f == IF t.added >= PhantomMinQty /\ PhantomInWindow(t, e)
                THEN Some(ChaosFlag("PhantomLiquidity", t.created_seq, t.created_ts, e, None))
                ELSE None
<1>0. m \in Nat /\ e.seq = m
  BY EventFields
<1>1. /\ p = [levels |-> p.levels, orders |-> p.orders, flag |-> p.flag, key |-> p.key]
      /\ LevelsOK(p.levels, m, prints) /\ Cardinality(DOMAIN p.levels) <= PhantomMaxTracked
      /\ p.levels = [k \in DOMAIN p.levels |-> p.levels[k]]
      /\ IsFiniteSet(DOMAIN p.levels) /\ Cardinality(DOMAIN p.levels) \in Nat
  <2>1. LevelsOK(p.levels, m, prints) /\ IsFiniteSet(DOMAIN p.levels)
    BY DEF PhantomOK, LevelsOK
  <2> QED
    BY <2>1, FS_CardinalityType DEF PhantomOK, LevelsOK
<1>2. \/ q = p
      \/ q = small
      \/ key \in DOMAIN p.levels /\ q = [small EXCEPT !.levels[key] = t]
      \/ key \in DOMAIN p.levels /\ q = [small EXCEPT !.levels = Without(@, key), !.key = Some(key), !.flag = f]
  BY DEF PhantomCancel
<1>3. small = [p EXCEPT !.orders = ord]
  OBVIOUS
<1> HIDE DEF small, ord
<1>4. /\ small.levels = p.levels /\ small.flag = None
      /\ small = [levels |-> small.levels, orders |-> small.orders, flag |-> small.flag, key |-> small.key]
  BY ONLY <1>1, <1>3, p.flag = None
<1>5. CASE q = p
  BY <1>5 DEF PhantomFlagOK, Returned, IsSome, None
<1>6. CASE q = small
  BY <1>1, <1>4, <1>6 DEF PhantomOK, PhantomFlagOK, Returned, IsSome, None
<1>7. ASSUME key \in DOMAIN p.levels
      PROVE  TrackerOK(t, m) /\ t.created_seq = l.created_seq
  <2>1. TrackerOK(l, m)
    BY <1>1, <1>7 DEF LevelsOK
  <2> DEFINE c == l.cancelled + RemovedQty(l, e)
             x == l.cancel_count + 1
  <2>2. t = [l EXCEPT !.cancelled = c, !.cancel_count = x]
    OBVIOUS
  <2> HIDE DEF l, t, c, x
  <2>3. t.created_seq = l.created_seq
    BY <2>1, <2>2 DEF TrackerOK, TrackerRecord
  <2>4. t = TrackerRecord(t.created_seq, t.created_ts, t.added, t.cancelled, t.order_count, t.cancel_count)
    BY ONLY <2>1, <2>2 DEF TrackerOK, TrackerRecord
  <2> QED
    BY <2>1, <2>3, <2>4 DEF TrackerOK
<1>8. ASSUME key \in DOMAIN p.levels
      PROVE  key \in DOMAIN prints => prints[key] < t.created_seq
  <2>1. key \in DOMAIN prints => prints[key] < l.created_seq
    BY <1>1, <1>8 DEF LevelsOK
  <2> QED
    BY <1>7, <1>8, <2>1
<1> HIDE DEF key, t, l
<1>9. CASE key \in DOMAIN p.levels /\ q = [small EXCEPT !.levels[key] = t]
  <2> DEFINE w == [p.levels EXCEPT ![key] = t]
  <2>1. q = [small EXCEPT !.levels = w]
    BY <1>4, <1>9
  <2>2. DOMAIN w = DOMAIN p.levels /\ w[key] = t /\ \A x \in DOMAIN p.levels : x # key => w[x] = p.levels[x]
    BY <1>1, <1>9
  <2>3. w = [k \in DOMAIN w |-> w[k]]
    BY <1>1
  <2> HIDE DEF w
  <2>4. LevelsOK(w, m, prints)
    <3>1. \A x \in DOMAIN w : TrackerOK(w[x], m)
      BY <1>1, <1>7, <1>9, <2>2 DEF LevelsOK
    <3>2. \A x \in DOMAIN w : x \in DOMAIN prints => prints[x] < w[x].created_seq
      BY <1>1, <1>8, <1>9, <2>2 DEF LevelsOK
    <3> QED
      BY <1>1, <2>2, <2>3, <3>1, <3>2 DEF LevelsOK
  <2>5. /\ q.levels = w /\ q.flag = None
        /\ q = [levels |-> q.levels, orders |-> q.orders, flag |-> q.flag, key |-> q.key]
    BY ONLY <1>4, <2>1
  <2> QED
    BY <1>1, <2>2, <2>4, <2>5 DEF PhantomOK, PhantomFlagOK, Returned, IsSome, None
<1>10. CASE key \in DOMAIN p.levels
            /\ q = [small EXCEPT !.levels = Without(@, key), !.key = Some(key), !.flag = f]
  <2> DEFINE w == Without(p.levels, key)
             k == Some(key)
  <2>1. q = [small EXCEPT !.levels = w, !.key = k, !.flag = f]
    BY <1>4, <1>10
  <2>2. LevelsOK(w, m, prints) /\ Cardinality(DOMAIN w) = Cardinality(DOMAIN p.levels) - 1
    BY <1>1, <1>10, LevelsWithout
  <2>3. f = None \/ (f = Some(f[1]) /\ f[1].kind = "PhantomLiquidity" /\ f[1].end_seq = m
                     /\ f[1].start_seq = t.created_seq)
    BY <1>0 DEF Some, ChaosFlag
  <2>4. k[1] = key
    BY DEF Some
  <2> HIDE DEF w, k, f
  <2>5. /\ q.levels = w /\ q.flag = f /\ q.key = k
        /\ q = [levels |-> q.levels, orders |-> q.orders, flag |-> q.flag, key |-> q.key]
    BY ONLY <1>4, <2>1
  <2>6. PhantomOK(q, m, prints)
    BY <1>1, <2>2, <2>5, PatternAssumption DEF PhantomOK
  <2>7. Returned(q.flag, "PhantomLiquidity", m)
    BY <2>3, <2>5 DEF Returned
  <2>8. (IsSome(q.flag) /\ q.key[1] \in DOMAIN prints) => prints[q.key[1]] < q.flag[1].start_seq
    BY <1>8, <1>10, <2>3, <2>4, <2>5 DEF IsSome, None
  <2> QED
    BY <2>6, <2>7, <2>8 DEF PhantomFlagOK
<1> QED
  BY <1>2, <1>5, <1>6, <1>9, <1>10

(* One event through the phantom-liquidity detector, with the print it may *)
(* be.                                                                     *)
LEMMA PhantomProcessIs ==
    ASSUME NEW n \in Nat, PhantomOK(phantom, n, lastPrint), PrintsOK(lastPrint, n),
           NEW e, IsEvent(e, n + 1), PhantomProcess(e), NEW prints,
           prints = lastPrint \/ (e.type = "Trade" /\ prints = With(lastPrint, <<e.side, e.price>>, n + 1))
    PROVE  /\ PhantomOK(phantom', n + 1, prints) /\ PhantomFlagOK(phantom', n + 1, prints)
           /\ PrintsOK(prints, n + 1)
<1> DEFINE m == n + 1
           p == [phantom EXCEPT !.flag = None, !.key = None]
<1>0. m \in Nat /\ e.seq = m /\ e.type \in EventTypes
  BY EventFields
<1>1. phantom' = CASE e.type = "OrderAdd" -> PhantomAdd(p, e)
                   [] e.type = "OrderCancel" -> PhantomCancel(p, e)
                   [] e.type = "OrderModify" -> PhantomAdd(PhantomCancel(p, e), e)
                   [] e.type = "Trade" -> PhantomTrade(p, e)
                   [] OTHER -> p
  BY DEF PhantomProcess
<1>2. /\ p.levels = phantom.levels /\ p.flag = None
      /\ p = [levels |-> p.levels, orders |-> p.orders, flag |-> p.flag, key |-> p.key]
  <2>1. p = [phantom EXCEPT !.flag = None, !.key = None]
    OBVIOUS
  <2>2. phantom = [levels |-> phantom.levels, orders |-> phantom.orders, flag |-> phantom.flag, key |-> phantom.key]
    BY DEF PhantomOK
  <2> HIDE DEF p
  <2> QED
    BY ONLY <2>1, <2>2
<1> HIDE DEF p
<1>3. LevelsOK(p.levels, m, lastPrint) /\ IsFiniteSet(DOMAIN p.levels) /\ Cardinality(DOMAIN p.levels) \in Nat
  <2>1. \A k \in DOMAIN p.levels : TrackerOK(p.levels[k], m)
    BY <1>2 DEF PhantomOK, LevelsOK, TrackerOK
  <2>2. LevelsOK(p.levels, m, lastPrint) /\ IsFiniteSet(DOMAIN p.levels)
    BY <1>2, <2>1 DEF PhantomOK, LevelsOK
  <2> QED
    BY <2>2, FS_CardinalityType
<1>4. PhantomOK(p, m, lastPrint)
  BY <1>2, <1>3 DEF PhantomOK
<1>5. CASE e.type = "Trade"
  <2> DEFINE key == <<e.side, e.price>>
             w == Without(p.levels, key)
             q == PhantomTrade(p, e)
  <2>1. phantom' = q
    BY <1>1, <1>5
  <2>2. q = [p EXCEPT !.levels = w]
    BY DEF PhantomTrade
  <2>3. LevelsOK(w, m, lastPrint) /\ Cardinality(DOMAIN w) <= Cardinality(DOMAIN p.levels)
    BY <1>3, LevelsWithout
  <2>4. key \notin DOMAIN w
    BY WithoutIs
  <2>5. /\ PrintsOK(prints, m)
        /\ \A k \in DOMAIN prints : k = key \/ (k \in DOMAIN lastPrint /\ prints[k] = lastPrint[k])
    <3>1. CASE prints = lastPrint
      BY <3>1 DEF PrintsOK
    <3>2. CASE prints = With(lastPrint, key, m)
      BY <1>0, <3>2 DEF PrintsOK, With
    <3> QED
      BY <3>1, <3>2
  <2> HIDE DEF w, key, q
  <2>6. LevelsOK(w, m, prints)
    BY <2>3, <2>4, <2>5 DEF LevelsOK
  <2>7. /\ q.levels = w /\ q.flag = None
        /\ q = [levels |-> q.levels, orders |-> q.orders, flag |-> q.flag, key |-> q.key]
    BY ONLY <1>2, <2>2
  <2>8. Cardinality(DOMAIN w) <= PhantomMaxTracked
    <3>1. IsFiniteSet(DOMAIN w)
      BY <2>6 DEF LevelsOK
    <3>2. Cardinality(DOMAIN w) \in Nat
      BY <3>1, FS_CardinalityType
    <3>3. Cardinality(DOMAIN p.levels) <= PhantomMaxTracked
      BY <1>4 DEF PhantomOK
    <3> QED
      BY <1>3, <2>3, <3>2, <3>3, PatternAssumption
  <2> QED
    BY <2>1, <2>5, <2>6, <2>7, <2>8 DEF PhantomOK, PhantomFlagOK, Returned, IsSome, None
<1>6. ASSUME e.type # "Trade" PROVE prints = lastPrint /\ PrintsOK(prints, m)
  BY <1>6 DEF PrintsOK
<1>7. CASE e.type = "OrderAdd"
  <2>1. phantom' = PhantomAdd(p, e)
    BY <1>1, <1>7
  <2>2. PhantomOK(phantom', m, lastPrint) /\ phantom'.flag = p.flag
    BY <1>4, <2>1, PhantomAddIs
  <2> QED
    BY <1>2, <1>6, <1>7, <2>2 DEF PhantomFlagOK, Returned, IsSome, None
<1>8. CASE e.type = "OrderCancel"
  <2>1. phantom' = PhantomCancel(p, e)
    BY <1>1, <1>8
  <2>2. PhantomOK(phantom', m, lastPrint) /\ PhantomFlagOK(phantom', m, lastPrint)
    BY <1>2, <1>4, <2>1, PhantomCancelIs
  <2> QED
    BY <1>6, <1>8, <2>2
<1>9. CASE e.type = "OrderModify"
  <2> DEFINE c == PhantomCancel(p, e)
  <2>1. phantom' = PhantomAdd(c, e)
    BY <1>1, <1>9
  <2>2. PhantomOK(c, m, lastPrint) /\ PhantomFlagOK(c, m, lastPrint)
    BY <1>2, <1>4, PhantomCancelIs
  <2> HIDE DEF c
  <2>3. PhantomOK(phantom', m, lastPrint) /\ phantom'.flag = c.flag /\ phantom'.key = c.key
    BY <2>1, <2>2, PhantomAddIs
  <2> QED
    BY <1>6, <1>9, <2>2, <2>3 DEF PhantomFlagOK
<1>10. CASE e.type = "BookSnapshot"
  <2>1. phantom' = p
    BY <1>1, <1>10
  <2> QED
    BY <1>2, <1>4, <1>6, <1>10, <2>1 DEF PhantomFlagOK, Returned, IsSome, None
<1> QED
  BY <1>0, <1>5, <1>7, <1>8, <1>9, <1>10 DEF EventTypes

-----------------------------------------------------------------------------
(* The order tracker and the mini-book.                                    *)

Update == [side : Sides, price : Nat, qty : Nat]

OrdersOK(o) == o = [x \in DOMAIN o |-> o[x]] /\ \A x \in DOMAIN o : o[x] \in Update

UpdateOK(u) == u = None \/ (u = Some(u[1]) /\ u[1] \in Update)

LEMMA UpdateFields ==
    ASSUME NEW u \in Update
    PROVE  u.side \in Sides /\ u.price \in Nat /\ u.qty \in Nat
BY DEF Update

LEMMA OrdersWith ==
    ASSUME NEW o, OrdersOK(o), NEW k, NEW u \in Update
    PROVE  OrdersOK(With(o, k, u)) /\ OrdersOK(Without(o, k))
BY DEF OrdersOK, With, Without

LEMMA AnonymousIs ==
    ASSUME NEW e, NEW m, IsEvent(e, m)
    PROVE  UpdateOK(AnonymousUpdate(e)) /\ AnonymousUpdate(e)[1] \in Update
<1>1. e.side \in Sides /\ e.price \in Nat /\ e.qty \in Nat
  BY EventFields
<1>2. AnonymousUpdate(e) = Some([side |-> e.side, price |-> e.price, qty |-> e.qty])
  BY <1>1 DEF AnonymousUpdate
<1>3. [side |-> e.side, price |-> e.price, qty |-> e.qty] \in Update
  BY <1>1 DEF Update
<1> QED
  BY <1>2, <1>3 DEF UpdateOK, Some

ResolvedOK(r) == OrdersOK(r.orders) /\ UpdateOK(r.update)

(* A cancel or fill leaves no order with a negative rest.                  *)
LEMMA TakeFromIs ==
    ASSUME NEW o, OrdersOK(o), NEW e, NEW m, IsEvent(e, m), e.order_id \in DOMAIN o, NEW price \in Nat
    PROVE  ResolvedOK(TakeFrom(o, e, price))
<1> DEFINE k == e.order_id
           meta == o[k]
           qty == ResolvedQty(meta.qty, e.qty)
           new == IF qty >= meta.qty THEN Without(o, k) ELSE [o EXCEPT ![k].qty = @ - qty]
           u == [side |-> meta.side, price |-> price, qty |-> qty]
           r == TakeFrom(o, e, price)
<1>0. e.qty \in Nat
  BY EventFields
<1>1. meta \in Update /\ meta.side \in Sides /\ meta.price \in Nat /\ meta.qty \in Nat
  <2>1. meta \in Update
    BY DEF OrdersOK
  <2> HIDE DEF meta
  <2> QED
    BY <2>1, UpdateFields
<1>2. r = [orders |-> new, update |-> Some(u)]
  BY DEF TakeFrom
<1>3. qty \in Nat
  BY <1>0, <1>1 DEF ResolvedQty
<1>4. u \in Update
  BY <1>1, <1>3 DEF Update
<1>5. OrdersOK(new)
  <2>1. CASE qty >= meta.qty
    BY <1>1, <2>1, OrdersWith
  <2>2. CASE ~(qty >= meta.qty)
    <3> DEFINE left == meta.qty - qty
               v == [meta EXCEPT !.qty = left]
    <3>1. left \in Nat
      BY <1>1, <1>3, <2>2
    <3>2. new = [o EXCEPT ![k] = v]
      BY <2>2
    <3> HIDE DEF left, meta
    <3>3. v = [side |-> meta.side, price |-> meta.price, qty |-> left]
      BY <1>1 DEF Update
    <3>4. v \in Update
      BY <1>1, <3>1, <3>3 DEF Update
    <3> HIDE DEF v, new
    <3>5. DOMAIN new = DOMAIN o /\ new = [x \in DOMAIN new |-> new[x]]
      BY <3>2
    <3>6. \A x \in DOMAIN new : new[x] = IF x = k THEN v ELSE o[x]
      BY <3>2
    <3> QED
      BY <3>4, <3>5, <3>6 DEF OrdersOK
  <2> QED
    BY <2>1, <2>2
<1> HIDE DEF new, u
<1>6. r.orders = new /\ r.update = Some(u)
  BY <1>2
<1>7. Some(u) = Some(Some(u)[1]) /\ Some(u)[1] = u
  BY DEF Some
<1> QED
  BY <1>4, <1>5, <1>6, <1>7 DEF ResolvedOK, UpdateOK

(* What OrderTracker resolves is a proper update of a level.               *)
LEMMA ResolveIs ==
    ASSUME NEW o, OrdersOK(o), NEW e, NEW m, IsEvent(e, m)
    PROVE  ResolvedOK(Resolve(o, e))
<1>0. e.type \in EventTypes /\ e.price \in Nat
  BY EventFields
<1>1. UpdateOK(None)
  BY DEF UpdateOK
<1>2. UpdateOK(AnonymousUpdate(e)) /\ AnonymousUpdate(e)[1] \in Update
  BY AnonymousIs
<1>3. ResolvedOK(OnAdd(o, e))
  <2> DEFINE a == AnonymousUpdate(e)
             new == IF e.side \in Sides /\ e.order_id # 0 THEN With(o, e.order_id, a[1]) ELSE o
  <2>1. OnAdd(o, e) = [orders |-> new, update |-> a]
    BY DEF OnAdd
  <2>2. OrdersOK(new)
    BY <1>2, OrdersWith
  <2> HIDE DEF new, a
  <2> QED
    BY <1>2, <2>1, <2>2 DEF ResolvedOK, a
<1>4. ResolvedOK(Unknown(o, e))
  <2> DEFINE a == IF e.order_id # 0 /\ e.price = 0 THEN None ELSE AnonymousUpdate(e)
  <2>1. UpdateOK(a)
    BY <1>1, <1>2
  <2>2. Unknown(o, e) = [orders |-> o, update |-> a]
    BY DEF Unknown
  <2> HIDE DEF a
  <2> QED
    BY <2>1, <2>2 DEF ResolvedOK
<1>5. ASSUME e.order_id \in DOMAIN o
      PROVE  o[e.order_id].price \in Nat
  BY <1>5, UpdateFields DEF OrdersOK
<1>6. ResolvedOK(OnCancel(o, e))
  BY <1>4, <1>5, TakeFromIs DEF OnCancel
<1>7. ResolvedOK(OnTrade(o, e))
  <2> DEFINE p == IF e.price # 0 THEN e.price ELSE o[e.order_id].price
  <2>1. e.order_id \in DOMAIN o => p \in Nat
    BY <1>0, <1>5
  <2>2. OnTrade(o, e) = IF e.order_id \in DOMAIN o THEN TakeFrom(o, e, p) ELSE Unknown(o, e)
    BY DEF OnTrade
  <2> HIDE DEF p
  <2> QED
    BY <1>4, <2>1, <2>2, TakeFromIs
<1>8. ResolvedOK([orders |-> o, update |-> None])
  BY <1>1 DEF ResolvedOK
<1> QED
  BY <1>0, <1>3, <1>6, <1>7, <1>8 DEF Resolve, EventTypes

(* A finite non-empty set of numbers has a largest.                        *)
LEMMA LargestNumber ==
    ASSUME NEW S \in SUBSET Nat, IsFiniteSet(S), S # {}
    PROVE  \E x \in S : \A y \in S : y <= x
<1> DEFINE G == {s \in SUBSET S : s = {} \/ \E x \in s : \A y \in s : y <= x}
<1>1. {} \in G
  OBVIOUS
<1>2. ASSUME NEW s \in SUBSET S, s # {}, \A x \in s : s \ {x} \in G PROVE s \in G
  <2>1. PICK a \in s : TRUE
    BY <1>2
  <2>2. s \ {a} = {} \/ \E x \in s \ {a} : \A y \in s \ {a} : y <= x
    BY <1>2, <2>1
  <2>3. CASE s \ {a} = {}
    BY <2>1, <2>3
  <2>4. CASE \E x \in s \ {a} : \A y \in s \ {a} : y <= x
    <3>1. PICK x \in s \ {a} : \A y \in s \ {a} : y <= x
      BY <2>4
    <3>2. x \in Nat /\ a \in Nat /\ \A y \in s : y \in Nat
      BY <2>1
    <3>3. CASE a <= x
      BY <2>1, <3>1, <3>3
    <3>4. CASE ~(a <= x)
      <4>1. \A y \in s : y <= a
        BY <2>1, <3>1, <3>2, <3>4
      <4> QED
        BY <2>1, <4>1
    <3> QED
      BY <3>3, <3>4
  <2> QED
    BY <2>2, <2>3, <2>4
<1> HIDE DEF G
<1>3. \A s \in SUBSET S : s \in G
  BY <1>1, <1>2, SubsetsByStep
<1>4. S \in G
  BY <1>3
<1> QED
  BY <1>4 DEF G

(* What Min and Max of a finite non-empty set are.                         *)
LEMMA MinMax ==
    ASSUME NEW S \in SUBSET Nat, IsFiniteSet(S), S # {}
    PROVE  /\ Max(S) \in S /\ \A y \in S : y <= Max(S)
           /\ Min(S) \in S /\ \A y \in S : Min(S) <= y
<1>1. \E x \in S : \A y \in S : x >= y
  BY LargestNumber
<1>2. \E x \in S : \A y \in S : x <= y
  BY LeastNumber
<1>3. Max(S) \in S /\ \A y \in S : Max(S) >= y
  BY <1>1 DEF Max
<1>4. Min(S) \in S /\ \A y \in S : Min(S) <= y
  BY <1>2 DEF Min
<1> QED
  BY <1>3, <1>4

(* One side of a mini-book: finitely many prices, with their quantities.   *)
LadderOK(l) ==
    /\ l = [p \in DOMAIN l |-> l[p]]
    /\ DOMAIN l \in SUBSET Nat /\ IsFiniteSet(DOMAIN l)
    /\ \A p \in DOMAIN l : l[p] \in Nat

BookOK(b) == b = [s \in Sides |-> b[s]] /\ \A s \in Sides : LadderOK(b[s])

LEMMA LadderWithout ==
    ASSUME NEW l, LadderOK(l), NEW k
    PROVE  LadderOK(Without(l, k))
<1> DEFINE w == Without(l, k)
<1>1. DOMAIN w = DOMAIN l \ {k} /\ \A x \in DOMAIN l \ {k} : w[x] = l[x]
  BY WithoutIs
<1>2. w = [x \in DOMAIN w |-> w[x]]
  BY DEF Without
<1>3. IsFiniteSet(DOMAIN l \ {k})
  BY FS_RemoveElement DEF LadderOK
<1> HIDE DEF w
<1>4. LadderOK(w)
  BY <1>1, <1>2, <1>3 DEF LadderOK
<1> QED
  BY <1>4 DEF w

LEMMA LadderWith ==
    ASSUME NEW l, LadderOK(l), NEW k \in Nat, NEW v \in Nat
    PROVE  /\ LadderOK(With(l, k, v)) /\ DOMAIN With(l, k, v) = DOMAIN l \cup {k} /\ With(l, k, v)[k] = v
           /\ \A x \in DOMAIN l : x # k => With(l, k, v)[x] = l[x]
<1> DEFINE w == With(l, k, v)
<1>1. DOMAIN w = DOMAIN l \cup {k} /\ w[k] = v /\ \A x \in DOMAIN l : x # k => w[x] = l[x]
  BY DEF With
<1>2. w = [x \in DOMAIN w |-> w[x]]
  BY DEF With
<1>3. IsFiniteSet(DOMAIN l \cup {k})
  BY FS_AddElement DEF LadderOK
<1> HIDE DEF w
<1>4. \A x \in DOMAIN w : w[x] \in Nat
  BY <1>1 DEF LadderOK
<1>5. LadderOK(w)
  BY <1>1, <1>2, <1>3, <1>4 DEF LadderOK
<1> QED
  BY <1>1, <1>5 DEF w

(* prune_levels drops at most the farthest of several levels.              *)
Pruned(w, r, side) ==
    \/ r = w
    \/ \E far \in DOMAIN w :
          /\ r = Without(w, far) /\ \E p \in DOMAIN w : p # far
          /\ \A p \in DOMAIN w : IF side = "Bid" THEN far <= p ELSE p <= far

(* prune_levels evicts at most the level farthest from the best.           *)
LEMMA PruneIs ==
    ASSUME NEW w, LadderOK(w), NEW side, NEW cap \in Nat \ {0}
    PROVE  /\ LadderOK(PruneLevels(w, side, cap)) /\ Pruned(w, PruneLevels(w, side, cap), side)
           /\ Cardinality(DOMAIN PruneLevels(w, side, cap)) = Cardinality(DOMAIN w)
                => PruneLevels(w, side, cap) = w
<1> DEFINE S == DOMAIN w
           far == Farthest(side, w)
           r == PruneLevels(w, side, cap)
<1>0. S \in SUBSET Nat /\ IsFiniteSet(S) /\ Cardinality(S) \in Nat
  <2>1. S \in SUBSET Nat /\ IsFiniteSet(S)
    BY DEF LadderOK
  <2> QED
    BY <2>1, FS_CardinalityType
<1>1. CASE Cardinality(S) > cap
  <2>1. r = Without(w, far)
    BY <1>1 DEF PruneLevels
  <2>2. S # {}
    BY <1>0, <1>1, FS_EmptySet
  <2>3. /\ Max(S) \in S /\ \A y \in S : y <= Max(S)
        /\ Min(S) \in S /\ \A y \in S : Min(S) <= y
    BY <1>0, <2>2, MinMax
  <2>4. far \in S /\ \A p \in S : IF side = "Bid" THEN far <= p ELSE p <= far
    BY <2>3 DEF Farthest
  <2> HIDE DEF far
  <2>5. Cardinality(S \ {far}) = Cardinality(S) - 1 /\ IsFiniteSet(S \ {far})
    BY <1>0, <2>4, FS_RemoveElement
  <2>6. S \ {far} # {}
    BY <1>0, <1>1, <2>5, FS_EmptySet
  <2>7. DOMAIN r = S \ {far}
    BY <2>1, WithoutIs
  <2>8. LadderOK(r)
    BY <2>1, LadderWithout
  <2>9. Pruned(w, r, side)
    BY <2>1, <2>4, <2>6 DEF Pruned
  <2>10. Cardinality(DOMAIN r) # Cardinality(S)
    BY <1>0, <2>5, <2>7
  <2> QED
    BY <2>8, <2>9, <2>10
<1>2. CASE ~(Cardinality(S) > cap)
  <2>1. r = w
    BY <1>2 DEF PruneLevels
  <2> QED
    BY <2>1 DEF Pruned
<1> QED
  BY <1>1, <1>2

LEMMA HeldNat ==
    ASSUME NEW l, LadderOK(l), NEW p
    PROVE  Held(l, p) \in Nat
BY DEF LadderOK, Held

(* The two sides of a book after an add.                                   *)
Grown(l, u) == With(l, u.price, Held(l, u.price) + u.qty)

(* add_qty changes one side, and there one level.                          *)
LEMMA AddQtyIs ==
    ASSUME NEW b, BookOK(b), NEW u \in Update, NEW cap \in Nat \ {0}, NEW c, c = AddQty(b, u, cap)
    PROVE  /\ BookOK(c) /\ \A s \in Sides : s # u.side => c[s] = b[s]
           /\ LadderOK(Grown(b[u.side], u)) /\ Pruned(Grown(b[u.side], u), c[u.side], u.side)
           /\ Cardinality(DOMAIN c[u.side]) = Cardinality(DOMAIN Grown(b[u.side], u))
                => c[u.side] = Grown(b[u.side], u)
<1> DEFINE s0 == u.side
           w == Grown(b[s0], u)
           r == PruneLevels(w, s0, cap)
<1>0. s0 \in Sides /\ u.price \in Nat /\ u.qty \in Nat
  BY UpdateFields
<1>1. LadderOK(b[s0]) /\ Held(b[s0], u.price) \in Nat
  BY <1>0, HeldNat DEF BookOK
<1>2. c = [b EXCEPT ![s0] = r]
  BY DEF AddQty, Grown
<1>3. LadderOK(w)
  <2> DEFINE l == b[s0]
             p == u.price
             q == Held(l, p) + u.qty
  <2>1. w = With(l, p, q)
    BY DEF Grown
  <2>2. LadderOK(l) /\ p \in Nat /\ q \in Nat
    BY <1>0, <1>1
  <2> HIDE DEF w, l, p, q
  <2> QED
    BY ONLY <2>1, <2>2, LadderWith
<1> HIDE DEF s0, w
<1>4. /\ LadderOK(r) /\ Pruned(w, r, s0)
      /\ Cardinality(DOMAIN r) = Cardinality(DOMAIN w) => r = w
  BY <1>3, PruneIs
<1> HIDE DEF r
<1>5. c = [s \in Sides |-> c[s]] /\ c[s0] = r /\ \A s \in Sides : s # s0 => c[s] = b[s]
  BY <1>0, <1>2 DEF BookOK
<1>6. BookOK(c)
  BY <1>4, <1>5 DEF BookOK
<1> QED
  BY <1>3, <1>4, <1>5, <1>6 DEF s0, w

(* The side of a book after a removal.                                     *)
Shrunk(l, p, taken, r) ==
    \/ p \notin DOMAIN l /\ r = l /\ taken = 0
    \/ p \in DOMAIN l /\ r = Without(l, p) /\ taken = l[p]
    \/ p \in DOMAIN l /\ r = [l EXCEPT ![p] = l[p] - taken] /\ taken \in Nat /\ taken < l[p]

LEMMA ShrunkOK ==
    ASSUME NEW l, LadderOK(l), NEW p, NEW taken, NEW r, Shrunk(l, p, taken, r)
    PROVE  LadderOK(r)
<1>1. CASE p \notin DOMAIN l /\ r = l
  BY <1>1
<1>2. CASE r = Without(l, p)
  BY <1>2, LadderWithout
<1>3. CASE p \in DOMAIN l /\ r = [l EXCEPT ![p] = l[p] - taken] /\ taken \in Nat /\ taken < l[p]
  <2> DEFINE v == l[p] - taken
  <2>1. v \in Nat
    BY <1>3 DEF LadderOK
  <2>2. r = [l EXCEPT ![p] = v]
    BY <1>3
  <2> HIDE DEF v
  <2>3. DOMAIN r = DOMAIN l /\ r = [x \in DOMAIN r |-> r[x]] /\ \A x \in DOMAIN r : r[x] = IF x = p THEN v ELSE l[x]
    BY <2>2
  <2> QED
    BY <2>1, <2>3 DEF LadderOK
<1> QED
  BY <1>1, <1>2, <1>3 DEF Shrunk

(* sub_qty changes one side, and there one level.                          *)
LEMMA SubQtyIs ==
    ASSUME NEW b, BookOK(b), NEW u \in Update, NEW c, c = SubQty(b, u)
    PROVE  /\ BookOK(c) /\ \A s \in Sides : s # u.side => c[s] = b[s]
           /\ Shrunk(b[u.side], u.price, Taken(b, u), c[u.side])
<1> DEFINE s0 == u.side
           l == b[s0]
           p == u.price
           taken == Taken(b, u)
<1>0. s0 \in Sides /\ p \in Nat /\ u.qty \in Nat
  BY UpdateFields
<1>1. LadderOK(l) /\ Held(l, p) \in Nat
  BY <1>0, HeldNat DEF BookOK
<1>2. taken = IF u.qty = 0 \/ u.qty > Held(l, p) THEN Held(l, p) ELSE u.qty
  BY DEF Taken
<1>3. CASE p \notin DOMAIN l
  <2>1. c = b
    BY <1>3 DEF SubQty
  <2>2. taken = 0
    BY <1>0, <1>2, <1>3 DEF Held
  <2> QED
    BY <1>3, <2>1, <2>2 DEF Shrunk
<1>4. CASE p \in DOMAIN l
  <2>1. Held(l, p) = l[p] /\ l[p] \in Nat /\ taken \in Nat /\ taken <= l[p]
    BY <1>0, <1>1, <1>2, <1>4 DEF Held
  <2> DEFINE r == IF taken = l[p] THEN Without(l, p) ELSE [l EXCEPT ![p] = l[p] - taken]
  <2>2. c = [b EXCEPT ![s0] = r]
    <3>1. c = [b EXCEPT ![s0] = Reduced(l, p, taken)]
      BY <1>4 DEF SubQty
    <3>2. Reduced(l, p, taken) = r
      BY DEF Reduced
    <3> QED
      BY ONLY <3>1, <3>2
  <2>3. Shrunk(l, p, taken, r)
    BY <1>4, <2>1 DEF Shrunk
  <2> HIDE DEF r, taken
  <2>4. LadderOK(r)
    BY <1>1, <2>3, ShrunkOK
  <2>5. c = [s \in Sides |-> c[s]] /\ c[s0] = r /\ \A s \in Sides : s # s0 => c[s] = b[s]
    BY <1>0, <2>2 DEF BookOK
  <2>6. BookOK(c)
    BY <2>4, <2>5 DEF BookOK
  <2> QED
    BY <2>3, <2>5, <2>6 DEF taken
<1> QED
  BY <1>3, <1>4

(* An optional best price of a ladder of bids, or of asks.                 *)
BidTop(l, o) ==
    \/ DOMAIN l = {} /\ o = None
    \/ \E p \in DOMAIN l : o = Some(p) /\ \A q \in DOMAIN l : q <= p

AskTop(l, o) ==
    \/ DOMAIN l = {} /\ o = None
    \/ \E p \in DOMAIN l : o = Some(p) /\ \A q \in DOMAIN l : p <= q

LEMMA SomeIs ==
    /\ \A x : Some(x)[1] = x /\ Some(x) # None /\ IsSome(Some(x))
    /\ ~IsSome(None)
BY DEF Some, None, IsSome

LEMMA EmptyLadder ==
    ASSUME NEW l, LadderOK(l)
    PROVE  l = EmptyMap <=> DOMAIN l = {}
<1>1. l = EmptyMap => DOMAIN l = {}
  BY DEF EmptyMap
<1>2. DOMAIN l = {} => l = EmptyMap
  BY DEF EmptyMap, LadderOK
<1> QED
  BY <1>1, <1>2

LEMMA BidTopIs ==
    ASSUME NEW b, BookOK(b), NEW o
    PROVE  o = BestBid(b) <=> BidTop(b["Bid"], o)
<1> DEFINE l == b["Bid"]
<1>1. LadderOK(l)
  BY DEF BookOK, Sides
<1>2. BestBid(b) = IF DOMAIN l = {} THEN None ELSE Some(Max(DOMAIN l))
  BY <1>1, EmptyLadder DEF BestBid
<1>3. DOMAIN l # {} => Max(DOMAIN l) \in DOMAIN l /\ \A q \in DOMAIN l : q <= Max(DOMAIN l)
  BY <1>1, MinMax DEF LadderOK
<1>4. DOMAIN l \in SUBSET Nat
  BY <1>1 DEF LadderOK
<1> DEFINE top == Max(DOMAIN l)
<1> HIDE DEF l, top
<1>5. ASSUME DOMAIN l # {}, NEW p \in DOMAIN l, \A q \in DOMAIN l : q <= p
      PROVE  p = top
  <2>1. p <= top /\ top <= p /\ p \in Nat /\ top \in Nat
    BY <1>3, <1>4, <1>5 DEF top
  <2> QED
    BY <2>1
<1> QED
  BY <1>2, <1>3, <1>5 DEF BidTop, l, top

LEMMA AskTopIs ==
    ASSUME NEW b, BookOK(b), NEW o
    PROVE  o = BestAsk(b) <=> AskTop(b["Ask"], o)
<1> DEFINE l == b["Ask"]
<1>1. LadderOK(l)
  BY DEF BookOK, Sides
<1>2. BestAsk(b) = IF DOMAIN l = {} THEN None ELSE Some(Min(DOMAIN l))
  BY <1>1, EmptyLadder DEF BestAsk
<1>3. DOMAIN l # {} => Min(DOMAIN l) \in DOMAIN l /\ \A q \in DOMAIN l : Min(DOMAIN l) <= q
  BY <1>1, MinMax DEF LadderOK
<1>4. DOMAIN l \in SUBSET Nat
  BY <1>1 DEF LadderOK
<1> DEFINE top == Min(DOMAIN l)
<1> HIDE DEF l, top
<1>5. ASSUME DOMAIN l # {}, NEW p \in DOMAIN l, \A q \in DOMAIN l : p <= q
      PROVE  p = top
  <2>1. p <= top /\ top <= p /\ p \in Nat /\ top \in Nat
    BY <1>3, <1>4, <1>5 DEF top
  <2> QED
    BY <2>1
<1> QED
  BY <1>2, <1>3, <1>5 DEF AskTop, l, top

(* An optional price.                                                      *)
PriceOK(o) == o = None \/ (o = Some(o[1]) /\ o[1] \in Nat)

(* The best prices are prices.                                             *)
LEMMA TopsOK ==
    ASSUME NEW b, BookOK(b)
    PROVE  PriceOK(BestBid(b)) /\ PriceOK(BestAsk(b))
<1>1. BidTop(b["Bid"], BestBid(b)) /\ AskTop(b["Ask"], BestAsk(b))
  BY BidTopIs, AskTopIs
<1>2. DOMAIN b["Bid"] \in SUBSET Nat /\ DOMAIN b["Ask"] \in SUBSET Nat
  BY DEF BookOK, Sides, LadderOK
<1> QED
  BY <1>1, <1>2, SomeIs DEF BidTop, AskTop, PriceOK

(* So is the mid.                                                          *)
LEMMA MidIs ==
    ASSUME NEW a, NEW b, PriceOK(a), PriceOK(b)
    PROVE  PriceOK(Mid(a, b))
<1> DEFINE h == (b[1] + a[1]) \div 2
<1>1. CASE IsSome(a) /\ IsSome(b) /\ b[1] >= a[1]
  <2>1. a[1] \in Nat /\ b[1] \in Nat
    BY <1>1, SomeIs DEF PriceOK
  <2>2. h \in Nat
    BY <2>1
  <2>3. Mid(a, b) = Some(h)
    BY <1>1 DEF Mid
  <2> HIDE DEF h
  <2> QED
    BY <2>2, <2>3, SomeIs DEF PriceOK
<1>2. CASE ~(IsSome(a) /\ IsSome(b) /\ b[1] >= a[1])
  BY <1>2 DEF Mid, PriceOK
<1> QED
  BY <1>1, <1>2

LEMMA ApplyToOK ==
    ASSUME NEW b, BookOK(b), NEW e, NEW u, UpdateOK(u), NEW cap \in Nat \ {0}
    PROVE  BookOK(ApplyTo(b, e, u, cap))
<1>1. IsSome(u) => u[1] \in Update
  BY SomeIs DEF UpdateOK
<1>2. IsSome(u) => BookOK(AddQty(b, u[1], cap)) /\ BookOK(SubQty(b, u[1]))
  BY <1>1, AddQtyIs, SubQtyIs
<1> QED
  BY <1>2 DEF ApplyTo

-----------------------------------------------------------------------------
(* The momentum ignition.                                                  *)

MidSample == [seq : Nat, ts : Nat, mid : Nat]

IgnRecord(book, orders, mids, buy, sell, trades, dir, len, start, until, flag, disp) ==
    [book |-> book, orders |-> orders, mids |-> mids, buy |-> buy, sell |-> sell,
     trades |-> trades, run_dir |-> dir, run_len |-> len, run_start |-> start,
     refractory_until |-> until, flag |-> flag, displacement |-> disp]

IgnShape(d) ==
    d = IgnRecord(d.book, d.orders, d.mids, d.buy, d.sell, d.trades, d.run_dir, d.run_len,
                  d.run_start, d.refractory_until, d.flag, d.displacement)

IgnTyped(d) ==
    /\ IgnShape(d) /\ BookOK(d.book) /\ OrdersOK(d.orders) /\ d.mids \in Seq(MidSample)
    /\ d.buy \in Nat /\ d.sell \in Nat /\ d.run_len \in Nat
    /\ d.run_dir \in {"None", "Up", "Down"} /\ d.run_start \in MidSample
    /\ d.refractory_until \in Nat

(* The run reaches the mid x in the direction that it claims.              *)
RunTo(d, x) ==
    d.run_dir # "None" =>
        /\ d.run_len >= 2
        /\ IF d.run_dir = "Up" THEN d.run_start.mid < x ELSE d.run_start.mid > x

LastMid(d) == d.mids[Len(d.mids)].mid

IgnOK(d) == IgnTyped(d) /\ (d.mids # <<>> => RunTo(d, LastMid(d)))

(* What no step before the flag touches.                                   *)
SameArming(d, n) ==
    n.refractory_until = d.refractory_until /\ n.flag = d.flag /\ n.displacement = d.displacement

(* The book half of the detector touches neither the samples nor the run.  *)
LEMMA IgnApplyIs ==
    ASSUME NEW d, IgnTyped(d), NEW e, NEW m, IsEvent(e, m), NEW n, n = IgnApply(d, e)
    PROVE  /\ IgnTyped(n) /\ SameArming(d, n) /\ n.mids = d.mids
           /\ n.run_dir = d.run_dir /\ n.run_len = d.run_len /\ n.run_start = d.run_start
<1> DEFINE r == Resolve(d.orders, e)
           a == Aggressor(e, r.update)
           o == r.orders
           b == ApplyTo(d.book, e, r.update, IgnMaxLevels)
           k == IF IsSome(a) THEN d.trades + 1 ELSE d.trades
           buy == IF a = Some("Buy") THEN d.buy + 1 ELSE d.buy
           sell == IF a = Some("Sell") THEN d.sell + 1 ELSE d.sell
<1>1. n = [d EXCEPT !.orders = o, !.book = b, !.trades = k, !.buy = buy, !.sell = sell]
  BY DEF IgnApply
<1>2. ResolvedOK(r)
  BY ResolveIs DEF IgnTyped
<1>3. OrdersOK(o) /\ BookOK(b)
  BY <1>2, ApplyToOK, IgnAssumption DEF ResolvedOK, IgnTyped
<1>4. buy \in Nat /\ sell \in Nat
  BY DEF IgnTyped
<1>5. IgnShape(d)
  BY DEF IgnTyped
<1> HIDE DEF r, a, o, b, k, buy, sell

<1>7. /\ n.book = b /\ n.orders = o /\ n.mids = d.mids /\ n.buy = buy /\ n.sell = sell
      /\ n.run_dir = d.run_dir /\ n.run_len = d.run_len /\ n.run_start = d.run_start
      /\ n.refractory_until = d.refractory_until /\ n.flag = d.flag /\ n.displacement = d.displacement
  BY ONLY <1>1, <1>5 DEF IgnShape, IgnRecord
<1>8. IgnShape(n)
  BY ONLY <1>1, <1>5 DEF IgnShape, IgnRecord
<1> QED
  BY <1>3, <1>4, <1>7, <1>8 DEF IgnTyped, SameArming

(* Eviction keeps a suffix of the samples.                                 *)
Suffix(s, t) == t = <<>> \/ \E i \in 1..Len(s) : t = SubSeq(s, i, Len(s))

LEMMA SuffixIs ==
    ASSUME NEW s \in Seq(MidSample), NEW t, Suffix(s, t), t # <<>>
    PROVE  /\ t \in Seq(MidSample) /\ Len(t) \in 1..Len(s) /\ t[Len(t)] = s[Len(s)]
           /\ Len(t) > 1 => t[Len(t) - 1] = s[Len(s) - 1]
<1>1. PICK i \in 1..Len(s) : t = SubSeq(s, i, Len(s))
  BY DEF Suffix
<1>2. Len(s) \in Nat
  OBVIOUS
<1>3. t \in Seq(MidSample) /\ Len(t) = Len(s) - i + 1
  BY <1>1, <1>2, SubSeqProperties
<1>4. \A j \in 1..Len(t) : t[j] = s[i + j - 1]
  BY <1>1, <1>2, <1>3, SubSeqProperties
<1>5. Len(t) \in 1..Len(s)
  BY <1>1, <1>2, <1>3
<1>6. t[Len(t)] = s[i + Len(t) - 1] /\ i + Len(t) - 1 = Len(s)
  BY <1>1, <1>2, <1>3, <1>4, <1>5
<1>7. Len(t) > 1 => t[Len(t) - 1] = s[i + (Len(t) - 1) - 1] /\ i + (Len(t) - 1) - 1 = Len(s) - 1
  BY <1>1, <1>2, <1>3, <1>4, <1>5
<1> QED
  BY <1>3, <1>5, <1>6, <1>7

(* evict_expired keeps a suffix of the samples.                            *)
LEMMA IgnEvictIs ==
    ASSUME NEW d, IgnTyped(d), NEW e, NEW n, n = IgnEvict(d, e)
    PROVE  /\ IgnTyped(n) /\ SameArming(d, n) /\ Suffix(d.mids, n.mids)
           /\ n.run_dir = d.run_dir /\ n.run_len = d.run_len /\ n.run_start = d.run_start
<1> DEFINE fresh(i) == /\ ~Expired(e.seq, d.mids[i].seq, IgnSeqWindow)
                       /\ ~Expired(e.ts, d.mids[i].ts, IgnTimeWindow)
           kept == {i \in DOMAIN d.mids : fresh(i)}
           first == CHOOSE i \in kept : \A j \in kept : i <= j
           k == IF kept = {} THEN <<>> ELSE SubSeq(d.mids, first, Len(d.mids))
           c == [d EXCEPT !.mids = k]
           z == [c EXCEPT !.buy = 0, !.sell = 0, !.trades = 0]
<1>1. n = IF kept = {} THEN z ELSE c
  BY DEF IgnEvict
<1>2. d.mids \in Seq(MidSample) /\ IgnShape(d) /\ kept \in SUBSET (1..Len(d.mids)) /\ Len(d.mids) \in Nat
  BY DEF IgnTyped
<1> HIDE DEF kept
<1>3. kept # {} => first \in 1..Len(d.mids)
  <2>1. ASSUME kept # {} PROVE \E i \in kept : \A j \in kept : i <= j
    <3>1. kept \in SUBSET Nat
      BY <1>2
    <3> QED
      BY <2>1, <3>1, LeastNumber
  <2>2. kept # {} => first \in kept
    BY <2>1
  <2> QED
    BY <1>2, <2>2
<1> HIDE DEF first
<1>4. Suffix(d.mids, k)
  BY <1>2, <1>3 DEF Suffix
<1>5. k \in Seq(MidSample)
  <2> HIDE DEF k
  <2>1. CASE k = <<>>
    BY <2>1
  <2>2. CASE k # <<>>
    BY <1>2, <1>4, <2>2, SuffixIs
  <2> QED
    BY <2>1, <2>2
<1>6. c = [d EXCEPT !.mids = k]
  OBVIOUS
<1> HIDE DEF k, c
<1>7. /\ c.book = d.book /\ c.orders = d.orders /\ c.mids = k /\ c.buy = d.buy /\ c.sell = d.sell
      /\ c.run_dir = d.run_dir /\ c.run_len = d.run_len /\ c.run_start = d.run_start
      /\ c.refractory_until = d.refractory_until /\ c.flag = d.flag /\ c.displacement = d.displacement
  BY ONLY <1>2, <1>6 DEF IgnShape, IgnRecord
<1>8. IgnShape(c)
  BY ONLY <1>2, <1>6 DEF IgnShape, IgnRecord
<1>9. z = [c EXCEPT !.buy = 0, !.sell = 0, !.trades = 0]
  OBVIOUS
<1> HIDE DEF z
<1>10. /\ z.book = c.book /\ z.orders = c.orders /\ z.mids = c.mids /\ z.buy = 0 /\ z.sell = 0
       /\ z.run_dir = c.run_dir /\ z.run_len = c.run_len /\ z.run_start = c.run_start
       /\ z.refractory_until = c.refractory_until /\ z.flag = c.flag /\ z.displacement = c.displacement
  BY ONLY <1>8, <1>9 DEF IgnShape, IgnRecord
<1>11. IgnShape(z)
  BY ONLY <1>8, <1>9 DEF IgnShape, IgnRecord
<1>12. IgnTyped(c) /\ IgnTyped(z)
  BY <1>5, <1>7, <1>8, <1>10, <1>11 DEF IgnTyped
<1> QED
  BY <1>1, <1>4, <1>7, <1>10, <1>12 DEF SameArming

(* update_run: the new run claims a direction that its two last samples    *)
(* have.                                                                   *)
LEMMA UpdateRunIs ==
    ASSUME NEW d, IgnTyped(d), NEW s \in MidSample, NEW n, n = UpdateRun(d, s),
           d.mids # <<>> => d.mids[Len(d.mids)] = s,
           Len(d.mids) > 1 => LET prev == d.mids[Len(d.mids) - 1]
                              IN  prev \in MidSample /\ prev.mid # s.mid /\ RunTo(d, prev.mid)
    PROVE  IgnTyped(n) /\ SameArming(d, n) /\ RunTo(n, s.mid) /\ n.mids = d.mids /\ n.buy = d.buy /\ n.sell = d.sell
<1> DEFINE prev == d.mids[Len(d.mids) - 1]
           dir == IF s.mid > prev.mid THEN "Up" ELSE "Down"
           a == [d EXCEPT !.run_dir = "None", !.run_len = 1, !.run_start = s]
           k == d.run_len + 1
           b == [d EXCEPT !.run_len = k]
           c == [d EXCEPT !.run_dir = dir, !.run_len = 2, !.run_start = prev]
<1>0. n = IF Len(d.mids) < 2 THEN a ELSE IF dir = d.run_dir THEN b ELSE c
  BY DEF UpdateRun
<1>1. IgnShape(d) /\ d.mids \in Seq(MidSample) /\ Len(d.mids) \in Nat /\ d.run_len \in Nat /\ k \in Nat
  BY DEF IgnTyped
<1>2. s.mid \in Nat
  BY DEF MidSample
<1>3. CASE Len(d.mids) < 2
  <2>1. n = [d EXCEPT !.run_dir = "None", !.run_len = 1, !.run_start = s]
    BY <1>0, <1>3
  <2>2. /\ n.book = d.book /\ n.orders = d.orders /\ n.mids = d.mids /\ n.buy = d.buy /\ n.sell = d.sell
        /\ n.run_dir = "None" /\ n.run_len = 1 /\ n.run_start = s
        /\ n.refractory_until = d.refractory_until /\ n.flag = d.flag /\ n.displacement = d.displacement
    BY ONLY <1>1, <2>1 DEF IgnShape, IgnRecord
  <2>3. IgnShape(n)
    BY ONLY <1>1, <2>1 DEF IgnShape, IgnRecord
  <2> QED
    BY <2>2, <2>3 DEF IgnTyped, SameArming, RunTo
<1>4. CASE ~(Len(d.mids) < 2)
  <2>1. prev \in MidSample /\ prev.mid # s.mid /\ RunTo(d, prev.mid)
    BY <1>1, <1>4
  <2>2. prev.mid \in Nat
    BY <2>1 DEF MidSample
  <2>3. CASE dir = d.run_dir
    <3>1. n = [d EXCEPT !.run_len = k]
      BY <1>0, <1>4, <2>3
    <3> HIDE DEF k
    <3>2. /\ n.book = d.book /\ n.orders = d.orders /\ n.mids = d.mids /\ n.buy = d.buy /\ n.sell = d.sell
          /\ n.run_dir = d.run_dir /\ n.run_len = k /\ n.run_start = d.run_start
          /\ n.refractory_until = d.refractory_until /\ n.flag = d.flag /\ n.displacement = d.displacement
      BY ONLY <1>1, <3>1 DEF IgnShape, IgnRecord
    <3>3. IgnShape(n)
      BY ONLY <1>1, <3>1 DEF IgnShape, IgnRecord
    <3>4. d.run_start.mid \in Nat /\ d.run_dir # "None"
      BY <2>3 DEF IgnTyped, MidSample
    <3>5. RunTo(n, s.mid)
      <4> HIDE DEF prev
      <4>1. d.run_len >= 2 /\ k >= 2
        BY <1>1, <2>1, <3>4 DEF RunTo, k
      <4>2. IF d.run_dir = "Up" THEN d.run_start.mid < s.mid ELSE d.run_start.mid > s.mid
        BY <1>2, <2>1, <2>2, <2>3, <3>4 DEF RunTo
      <4> QED
        BY <3>2, <4>1, <4>2 DEF RunTo
    <3>6. IgnTyped(n)
      BY <1>1, <3>2, <3>3 DEF IgnTyped
    <3> QED
      BY <3>2, <3>5, <3>6 DEF SameArming
  <2>4. CASE dir # d.run_dir
    <3>1. n = [d EXCEPT !.run_dir = dir, !.run_len = 2, !.run_start = prev]
      BY <1>0, <1>4, <2>4
    <3>2. dir \in {"Up", "Down"} /\ (IF dir = "Up" THEN prev.mid < s.mid ELSE prev.mid > s.mid)
      BY <1>2, <2>1, <2>2
    <3> HIDE DEF dir, prev
    <3>3. /\ n.book = d.book /\ n.orders = d.orders /\ n.mids = d.mids /\ n.buy = d.buy /\ n.sell = d.sell
          /\ n.run_dir = dir /\ n.run_len = 2 /\ n.run_start = prev
          /\ n.refractory_until = d.refractory_until /\ n.flag = d.flag /\ n.displacement = d.displacement
      BY ONLY <1>1, <3>1 DEF IgnShape, IgnRecord
    <3>4. IgnShape(n)
      BY ONLY <1>1, <3>1 DEF IgnShape, IgnRecord
    <3>5. RunTo(n, s.mid)
      BY <3>2, <3>3 DEF RunTo
    <3>6. IgnTyped(n)
      BY <2>1, <3>2, <3>3, <3>4 DEF IgnTyped
    <3> QED
      BY <3>3, <3>5, <3>6 DEF SameArming
  <2> QED
    BY <2>3, <2>4
<1> QED
  BY <1>3, <1>4

(* A changed mid extends or turns the run; an unchanged one leaves it.     *)
LEMMA SampleIs ==
    ASSUME NEW d, IgnOK(d), NEW e, NEW m, IsEvent(e, m), NEW mid \in Nat, NEW n, n = Sample(d, e, mid)
    PROVE  IgnOK(n) /\ SameArming(d, n) /\ RunTo(n, mid)
<1> DEFINE s == [seq |-> e.seq, ts |-> e.ts, mid |-> mid]
           changed == d.mids = <<>> \/ d.mids[Len(d.mids)].mid # mid
           more == Append(d.mids, s)
           c == [d EXCEPT !.mids = more]
<1>0. IgnTyped(d) /\ IgnShape(d) /\ d.mids \in Seq(MidSample) /\ Len(d.mids) \in Nat
  BY DEF IgnOK, IgnTyped
<1>1. s \in MidSample /\ s.mid = mid
  BY EventFields DEF MidSample
<1>2. n = LET v == IgnEvict(IF changed THEN c ELSE d, e) IN IF changed THEN UpdateRun(v, s) ELSE v
  BY DEF Sample
<1> HIDE DEF s
<1>3. /\ more \in Seq(MidSample) /\ Len(more) = Len(d.mids) + 1 /\ more[Len(more)] = s
      /\ Len(d.mids) > 0 => more[Len(d.mids)] = d.mids[Len(d.mids)]
  BY <1>0, <1>1, AppendProperties
<1>4. c = [d EXCEPT !.mids = more]
  OBVIOUS
<1> HIDE DEF more
<1>5. CASE changed
  <2> DEFINE v == IgnEvict(c, e)
  <2>0. n = UpdateRun(v, s)
    BY <1>2, <1>5
  <2> HIDE DEF c
  <2>1. /\ c.book = d.book /\ c.orders = d.orders /\ c.mids = more /\ c.buy = d.buy /\ c.sell = d.sell
        /\ c.run_dir = d.run_dir /\ c.run_len = d.run_len /\ c.run_start = d.run_start
        /\ c.refractory_until = d.refractory_until /\ c.flag = d.flag /\ c.displacement = d.displacement
    BY ONLY <1>0, <1>4 DEF IgnShape, IgnRecord
  <2>2. IgnShape(c)
    BY ONLY <1>0, <1>4 DEF IgnShape, IgnRecord
  <2>3. IgnTyped(c)
    BY <1>0, <1>3, <2>1, <2>2 DEF IgnTyped
  <2>4. /\ IgnTyped(v) /\ SameArming(c, v) /\ Suffix(more, v.mids)
        /\ v.run_dir = d.run_dir /\ v.run_len = d.run_len /\ v.run_start = d.run_start
    BY <2>1, <2>3, IgnEvictIs
  <2> HIDE DEF v
  <2>5. v.mids # <<>> =>
          /\ Len(v.mids) \in 1..Len(more) /\ v.mids[Len(v.mids)] = s
          /\ Len(v.mids) > 1 => v.mids[Len(v.mids) - 1] = more[Len(more) - 1]
    BY <1>3, <2>4, SuffixIs
  <2>6. ASSUME Len(v.mids) > 1
        PROVE  LET prev == v.mids[Len(v.mids) - 1]
               IN  prev \in MidSample /\ prev.mid # s.mid /\ RunTo(v, prev.mid)
    <3>1. v.mids # <<>> /\ Len(v.mids) \in Nat
      BY <2>4, <2>6 DEF IgnTyped
    <3>2. Len(d.mids) > 0 /\ v.mids[Len(v.mids) - 1] = d.mids[Len(d.mids)]
      BY <1>0, <1>3, <2>5, <2>6, <3>1
    <3>3. d.mids # <<>> /\ d.mids[Len(d.mids)] \in MidSample
      BY <1>0, <3>2
    <3>4. RunTo(d, LastMid(d)) /\ LastMid(d) # mid
      BY <1>5, <3>3 DEF IgnOK, LastMid
    <3>5. RunTo(v, LastMid(d))
      BY <2>4, <3>4 DEF RunTo
    <3> QED
      BY <1>1, <3>2, <3>3, <3>4, <3>5 DEF LastMid
  <2>7. IgnTyped(n) /\ SameArming(v, n) /\ RunTo(n, s.mid) /\ n.mids = v.mids
    BY <1>1, <2>0, <2>4, <2>5, <2>6, UpdateRunIs
  <2>8. n.mids # <<>> => LastMid(n) = mid
    BY <1>1, <2>5, <2>7 DEF LastMid
  <2> QED
    BY <1>1, <2>1, <2>4, <2>7, <2>8 DEF IgnOK, SameArming
<1>6. CASE ~changed
  <2>0. n = IgnEvict(d, e)
    BY <1>2, <1>6
  <2>1. /\ IgnTyped(n) /\ SameArming(d, n) /\ Suffix(d.mids, n.mids)
        /\ n.run_dir = d.run_dir /\ n.run_len = d.run_len /\ n.run_start = d.run_start
    BY <1>0, <2>0, IgnEvictIs
  <2>2. d.mids # <<>> /\ LastMid(d) = mid
    BY <1>6 DEF LastMid
  <2>3. RunTo(n, mid)
    BY <2>1, <2>2 DEF IgnOK, RunTo
  <2>4. n.mids # <<>> => n.mids[Len(n.mids)] = d.mids[Len(d.mids)]
    BY <1>0, <2>1, SuffixIs
  <2>5. n.mids # <<>> => LastMid(n) = mid
    BY <2>2, <2>4 DEF LastMid
  <2> QED
    BY <2>1, <2>3, <2>5 DEF IgnOK
<1> QED
  BY <1>5, <1>6

(* A flag's displacement has the sign of the aggressors' majority.         *)
Signed(d) ==
    IsSome(d.flag) => d.displacement # 0 /\ ((d.displacement > 0) <=> (d.buy > d.sell))

(* The flag is raised with the aggressors on the side of the move.         *)
LEMMA IgnDetectIs ==
    ASSUME NEW d, IgnOK(d), d.flag = None, NEW e, NEW m, IsEvent(e, m), NEW mid \in Nat, RunTo(d, mid),
           NEW n, n = IgnDetect(d, e, mid)
    PROVE  /\ IgnOK(n) /\ Signed(n)
           /\ Armed(d.refractory_until, n.refractory_until, n.flag, "MomentumIgnition", IgnCooldown, m)
<1>0. IgnTyped(d) /\ IgnShape(d) /\ d.refractory_until \in Nat /\ d.buy \in Nat /\ d.sell \in Nat
  BY DEF IgnOK, IgnTyped
<1>1. d.run_start.mid \in Nat /\ d.run_dir \in {"None", "Up", "Down"}
  BY <1>0 DEF IgnTyped, MidSample
<1>2. CASE n = d
  BY <1>2, SomeIs DEF Signed, Armed
<1>3. CASE ~InRefractory(d, e) /\ IgnQualifies(d, mid)
  <2> DEFINE f == Some(ChaosFlag("MomentumIgnition", d.run_start.seq, d.run_start.ts, e, None))
             x == mid - d.run_start.mid
             r == e.seq + IgnCooldown
  <2>1. n = [d EXCEPT !.flag = f, !.displacement = x, !.refractory_until = r, !.run_dir = "None", !.run_len = 0]
    BY <1>3 DEF IgnDetect
  <2>2. f = Some(f[1]) /\ f[1].kind = "MomentumIgnition" /\ f[1].end_seq = m
    BY EventFields DEF Some, ChaosFlag
  <2>3. r \in Nat /\ r = m + IgnCooldown /\ d.refractory_until <= m
    BY <1>0, <1>3, EventFields, IgnAssumption DEF InRefractory
  <2>4. x # 0 /\ ((x > 0) <=> (d.buy > d.sell))
    BY <1>0, <1>1, <1>3 DEF IgnQualifies, RunTo
  <2> HIDE DEF f, x, r
  <2>5. /\ n.book = d.book /\ n.orders = d.orders /\ n.mids = d.mids /\ n.buy = d.buy /\ n.sell = d.sell
        /\ n.run_dir = "None" /\ n.run_len = 0 /\ n.run_start = d.run_start
        /\ n.refractory_until = r /\ n.flag = f /\ n.displacement = x
    BY ONLY <1>0, <2>1 DEF IgnShape, IgnRecord
  <2>6. IgnShape(n)
    BY ONLY <1>0, <2>1 DEF IgnShape, IgnRecord
  <2>7. IgnTyped(n)
    BY <1>0, <2>3, <2>5, <2>6 DEF IgnTyped
  <2>8. IgnOK(n)
    BY <2>5, <2>7 DEF IgnOK, RunTo
  <2> QED
    BY <2>2, <2>3, <2>4, <2>5, <2>8 DEF Signed, Armed
<1> QED
  BY <1>2, <1>3 DEF IgnDetect

(* One event through the momentum-ignition detector.                       *)
LEMMA IgnProcessIs ==
    ASSUME IgnOK(ign), NEW e, NEW m, IsEvent(e, m), IgnProcess(e)
    PROVE  /\ IgnOK(ign') /\ Signed(ign')
           /\ Armed(ign.refractory_until, ign'.refractory_until, ign'.flag,
                    "MomentumIgnition", IgnCooldown, m)
<1> DEFINE d0 == [ign EXCEPT !.flag = None, !.displacement = 0]
           d == IgnApply(d0, e)
           mid == IgnMid(d)
<1>0. ign' = IF e.type = "BookSnapshot" \/ ~IsSome(mid) THEN d
             ELSE IgnDetect(Sample(d, e, mid[1]), e, mid[1])
  BY DEF IgnProcess
<1>1. IgnTyped(ign) /\ IgnShape(ign)
  BY DEF IgnOK, IgnTyped
<1>2. d0 = [ign EXCEPT !.flag = None, !.displacement = 0]
  OBVIOUS
<1> HIDE DEF d0
<1>3. /\ d0.book = ign.book /\ d0.orders = ign.orders /\ d0.mids = ign.mids /\ d0.buy = ign.buy
      /\ d0.sell = ign.sell /\ d0.run_dir = ign.run_dir /\ d0.run_len = ign.run_len
      /\ d0.run_start = ign.run_start /\ d0.refractory_until = ign.refractory_until
      /\ d0.flag = None /\ d0.displacement = 0
  BY ONLY <1>1, <1>2 DEF IgnShape, IgnRecord
<1>4. IgnShape(d0)
  BY ONLY <1>1, <1>2 DEF IgnShape, IgnRecord
<1>5. IgnTyped(d0)
  BY <1>1, <1>3, <1>4 DEF IgnTyped
<1>6. /\ IgnTyped(d) /\ SameArming(d0, d) /\ d.mids = d0.mids
      /\ d.run_dir = d0.run_dir /\ d.run_len = d0.run_len /\ d.run_start = d0.run_start
  BY <1>5, IgnApplyIs
<1> HIDE DEF d
<1>7. IgnOK(d) /\ d.flag = None /\ d.refractory_until = ign.refractory_until
  BY <1>3, <1>6 DEF IgnOK, RunTo, LastMid, SameArming
<1>8. PriceOK(mid)
  BY <1>6, TopsOK, MidIs DEF IgnMid, IgnTyped
<1> HIDE DEF mid
<1>9. CASE ign' = d
  BY <1>7, <1>9, SomeIs DEF Signed, Armed
<1>10. CASE IsSome(mid) /\ ign' = IgnDetect(Sample(d, e, mid[1]), e, mid[1])
  <2> DEFINE n == Sample(d, e, mid[1])
  <2>1. mid[1] \in Nat
    BY <1>8, <1>10, SomeIs DEF PriceOK
  <2>2. IgnOK(n) /\ SameArming(d, n) /\ RunTo(n, mid[1])
    BY <1>7, <2>1, SampleIs
  <2> HIDE DEF n
  <2>3. n.flag = None /\ n.refractory_until = ign.refractory_until
    BY <1>7, <2>2 DEF SameArming
  <2>4. ign' = IgnDetect(n, e, mid[1])
    BY <1>10 DEF n
  <2> QED
    BY <2>1, <2>2, <2>3, <2>4, IgnDetectIs
<1> QED
  BY <1>0, <1>9, <1>10

LEMMA EmptyMapIs == DOMAIN EmptyMap = {} /\ EmptyMap = [x \in DOMAIN EmptyMap |-> EmptyMap[x]]
BY DEF EmptyMap

LEMMA EmptyOrders == OrdersOK(EmptyMap)
BY EmptyMapIs DEF OrdersOK

LEMMA EmptyBookIs == BookOK(EmptyBook) /\ EmptyBook["Bid"] = EmptyMap /\ EmptyBook["Ask"] = EmptyMap
<1>1. LadderOK(EmptyMap)
  BY EmptyMapIs, FS_EmptySet DEF LadderOK
<1> QED
  BY <1>1 DEF BookOK, EmptyBook, Sides

LEMMA IgnInitIs ==
    ASSUME IgnInit
    PROVE  IgnOK(ign) /\ Signed(ign) /\ ign.refractory_until = 0
<1> DEFINE s == [seq |-> 0, ts |-> 0, mid |-> 0]
<1>1. ign = IgnRecord(EmptyBook, EmptyMap, <<>>, 0, 0, 0, "None", 0, s, 0, None, 0)
  BY DEF IgnInit, IgnRecord
<1>2. s \in MidSample
  BY DEF MidSample
<1> HIDE DEF s
<1>3. /\ ign.book = EmptyBook /\ ign.orders = EmptyMap /\ ign.mids = <<>> /\ ign.buy = 0 /\ ign.sell = 0
      /\ ign.trades = 0 /\ ign.run_dir = "None" /\ ign.run_len = 0 /\ ign.run_start = s
      /\ ign.refractory_until = 0 /\ ign.flag = None /\ ign.displacement = 0
  BY ONLY <1>1 DEF IgnRecord
<1>4. IgnShape(ign)
  BY ONLY <1>1, <1>3 DEF IgnShape
<1>5. IgnTyped(ign)
  BY <1>2, <1>3, <1>4, EmptyBookIs, EmptyOrders DEF IgnTyped
<1> QED
  BY <1>3, <1>5, SomeIs DEF IgnOK, Signed

-----------------------------------------------------------------------------
(* The latency-arbitrage proxy.                                            *)

Trigger == [seq : Nat, ts : Nat, price : Nat, dir : {"Buy", "Sell"}, mid : Nat,
            burst_count : Nat, last_burst_seq : Nat]

ArbRecord(book, orders, pending, until, flag) ==
    [book |-> book, orders |-> orders, pending |-> pending, refractory_until |-> until, flag |-> flag]

ArbShape(d) == d = ArbRecord(d.book, d.orders, d.pending, d.refractory_until, d.flag)

ArbOK(d, n) ==
    /\ ArbShape(d) /\ BookOK(d.book) /\ OrdersOK(d.orders)
    /\ d.pending \in Seq(Trigger) /\ DistinctUpTo(d.pending, n)
    /\ d.refractory_until \in Nat

(* The events that seeded the pending triggers.                            *)
SeqsOf(s) == {s[i].seq : i \in 1..Len(s)}

LEMMA TriggerFields ==
    ASSUME NEW s \in Seq(Trigger)
    PROVE  \A i \in 1..Len(s) : s[i] \in Trigger /\ s[i].seq \in Nat
<1>1. \A i \in 1..Len(s) : s[i] \in Trigger
  OBVIOUS
<1>2. \A t \in Trigger : t.seq \in Nat
  BY DEF Trigger
<1> QED
  BY <1>1, <1>2

(* The triggers after an event may be older ones or the one of event m.    *)
Seeded(old, new, m) ==
    new \in Seq(Trigger) /\ DistinctUpTo(new, m) /\ SeqsOf(new) \subseteq SeqsOf(old) \cup {m}

(* A print seeds one trigger, with its own sequence number.                *)
LEMMA SeedSeqs ==
    ASSUME NEW n \in Nat, NEW m, m = n + 1, NEW s \in Seq(Trigger), DistinctUpTo(s, n),
           NEW t \in Trigger, t.seq = m
    PROVE  Seeded(s, s, m) /\ Seeded(s, Append(s, t), m) /\ Seeded(s, Tail(Append(s, t)), m)
<1> DEFINE a == Append(s, t)
           b == Tail(a)
<1>0. \A i \in 1..Len(s) : s[i].seq \in Nat
  BY TriggerFields
<1>1. DistinctUpTo(s, m)
  BY <1>0 DEF DistinctUpTo
<1>2. Seeded(s, s, m)
  BY <1>1 DEF Seeded
<1>3. /\ a \in Seq(Trigger) /\ Len(a) = Len(s) + 1 /\ Len(s) \in Nat
      /\ \A i \in 1..Len(a) : a[i] = IF i = Len(a) THEN t ELSE s[i]
  BY AppendProperties
<1> HIDE DEF a
<1>4. \A i \in 1..Len(a) : (i = Len(a) /\ a[i].seq = m) \/ (i \in 1..Len(s) /\ a[i].seq = s[i].seq)
  BY <1>3
<1>5. DistinctUpTo(a, m)
  <2>1. \A i \in 1..Len(s) : s[i].seq <= n /\ s[i].seq # m
    BY <1>0 DEF DistinctUpTo
  <2>2. \A i \in 1..Len(a) : a[i].seq <= m
    BY <1>0, <1>4, <2>1
  <2>3. ASSUME NEW i \in 1..Len(a), NEW j \in 1..Len(a), i # j PROVE a[i].seq # a[j].seq
    BY <1>4, <2>1, <2>3 DEF DistinctUpTo
  <2> QED
    BY <2>2, <2>3 DEF DistinctUpTo
<1>6. SeqsOf(a) \subseteq SeqsOf(s) \cup {m}
  BY <1>4 DEF SeqsOf
<1>7. b \in Seq(Trigger) /\ Len(b) = Len(a) - 1 /\ \A i \in 1..Len(b) : b[i] = a[i + 1]
  <2>1. a # <<>>
    BY <1>3
  <2> QED
    BY <1>3, <2>1, HeadTailProperties
<1> HIDE DEF b
<1>8. \A i \in 1..Len(b) : i + 1 \in 1..Len(a) /\ b[i].seq = a[i + 1].seq
  BY <1>3, <1>7
<1>9. DistinctUpTo(b, m)
  <2>1. \A i \in 1..Len(b) : b[i].seq <= m
    BY <1>5, <1>8 DEF DistinctUpTo
  <2>2. ASSUME NEW i \in 1..Len(b), NEW j \in 1..Len(b), i # j PROVE b[i].seq # b[j].seq
    <3>1. i + 1 # j + 1
      BY <2>2
    <3> QED
      BY <1>5, <1>8, <3>1 DEF DistinctUpTo
  <2> QED
    BY <2>1, <2>2 DEF DistinctUpTo
<1>10. SeqsOf(b) \subseteq SeqsOf(a)
  BY <1>8 DEF SeqsOf
<1>11. Seeded(s, a, m) /\ Seeded(s, b, m)
  BY <1>3, <1>5, <1>6, <1>7, <1>9, <1>10 DEF Seeded
<1> QED
  BY <1>2, <1>11 DEF a, b

(* What seeding a trigger does to the pending ones.                        *)
LEMMA SeedIs ==
    ASSUME NEW n \in Nat, NEW d, ArbOK(d, n), NEW e, IsEvent(e, n + 1), NEW u, UpdateOK(u), NEW mid, PriceOK(mid),
           NEW r, r = Seed(d, e, u, mid)
    PROVE  /\ ArbOK(r, n + 1) /\ Seeded(d.pending, r.pending, n + 1) /\ r.flag = d.flag
           /\ r.refractory_until = d.refractory_until
           /\ n + 1 \in SeqsOf(r.pending) => d.refractory_until <= n + 1
<1> DEFINE m == n + 1
           trig == [seq |-> e.seq, ts |-> e.ts, price |-> u[1].price,
                    dir |-> AggressorFromRestingSide(u[1].side), mid |-> mid[1],
                    burst_count |-> 0, last_burst_seq |-> e.seq]
           all == Append(d.pending, trig)
           p == IF Len(all) > ArbMaxPending THEN Tail(all) ELSE all
<1>0. d.pending \in Seq(Trigger) /\ DistinctUpTo(d.pending, n) /\ ArbShape(d) /\ d.refractory_until \in Nat
  BY DEF ArbOK
<1>1. CASE r = d
  <2> DEFINE t0 == [seq |-> m, ts |-> 0, price |-> 0, dir |-> "Buy", mid |-> 0,
                    burst_count |-> 0, last_burst_seq |-> 0]
  <2>1. t0 \in Trigger /\ t0.seq = m
    BY DEF Trigger
  <2> HIDE DEF t0
  <2>2. Seeded(d.pending, d.pending, m)
    BY <1>0, <2>1, SeedSeqs
  <2>3. m \notin SeqsOf(d.pending)
    BY <1>0, TriggerFields DEF DistinctUpTo, SeqsOf
  <2> QED
    BY <1>1, <2>2, <2>3 DEF ArbOK, Seeded
<1>2. CASE ~InRefractory(d, e) /\ IsSome(u) /\ IsSome(mid) /\ r = [d EXCEPT !.pending = p]
  <2>1. u[1] \in Update /\ mid[1] \in Nat
    BY <1>2, SomeIs DEF UpdateOK, PriceOK
  <2>2. u[1].price \in Nat /\ AggressorFromRestingSide(u[1].side) \in {"Buy", "Sell"}
    BY <2>1, UpdateFields DEF AggressorFromRestingSide
  <2>3. trig \in Trigger /\ trig.seq = m
    BY <2>1, <2>2, EventFields DEF Trigger
  <2>4. r = [d EXCEPT !.pending = p]
    BY <1>2
  <2> HIDE DEF trig
  <2>5. Seeded(d.pending, p, m)
    BY <1>0, <2>3, SeedSeqs
  <2> HIDE DEF p
  <2>6. /\ r.book = d.book /\ r.orders = d.orders /\ r.pending = p /\ r.flag = d.flag
        /\ r.refractory_until = d.refractory_until
    BY ONLY <1>0, <2>4 DEF ArbShape, ArbRecord
  <2>7. ArbShape(r)
    BY ONLY <1>0, <2>4 DEF ArbShape, ArbRecord
  <2>8. d.refractory_until <= m
    BY <1>0, <1>2, EventFields DEF InRefractory
  <2> QED
    BY <1>0, <2>5, <2>6, <2>7, <2>8 DEF ArbOK, Seeded
<1> QED
  BY <1>1, <1>2 DEF Seed

(* A print that is flagged was pending, or is new, and is dropped.         *)
PrintFlag(flag, old, new, m) ==
    flag = None \/ flag[1].start_seq \in (SeqsOf(old) \cup {m}) \ SeqsOf(new)

(* A reaction changes a trigger's burst and not its identity.              *)
LEMMA ReactedIs ==
    ASSUME NEW t \in Trigger, NEW e, NEW m, IsEvent(e, m)
    PROVE  Reacted(t, e) \in Trigger /\ Reacted(t, e).seq = t.seq
<1> DEFINE k == t.burst_count + 1
           q == e.seq
           r == [t EXCEPT !.burst_count = k, !.last_burst_seq = q]
<1>1. Reacted(t, e) = r \/ Reacted(t, e) = t
  BY DEF Reacted
<1>2. k \in Nat /\ q \in Nat
  BY EventFields DEF Trigger
<1> HIDE DEF k, q
<1>3. r \in Trigger /\ r.seq = t.seq
  BY <1>2 DEF Trigger
<1> QED
  BY <1>1, <1>3

(* The scan drops triggers and reports at most one of those it drops.      *)
LEMMA ScanIs ==
    ASSUME NEW d, NEW m, ArbOK(d, m), d.flag = None, NEW e, IsEvent(e, m), NEW r, r = Scan(d, e)
    PROVE  /\ ArbOK(r, m) /\ SeqsOf(r.pending) \subseteq SeqsOf(d.pending)
           /\ Returned(r.flag, "LatencyArbitrage", m)
           /\ r.flag = None \/ r.flag[1].start_seq \in SeqsOf(d.pending) \ SeqsOf(r.pending)
           /\ \/ r.flag = None /\ r.refractory_until = d.refractory_until
              \/ r.flag # None /\ r.refractory_until = m + ArbCooldown
<1> DEFINE s == d.pending
           mid == ArbMid(d)
           ts == [i \in DOMAIN s |-> Reacted(s[i], e)]
           may == {i \in DOMAIN ts : MayFlag(ts[i], e, mid)}
           first == CHOOSE i \in may : \A j \in may : i <= j
           idx == {i \in DOMAIN ts : Kept(ts[i], e, may # {} /\ i = first)}
           keep == Retain(ts, idx)
           f == Some(ChaosFlag("LatencyArbitrage", ts[first].seq, ts[first].ts, e, None))
           g == e.seq + ArbCooldown
<1>0. s \in Seq(Trigger) /\ DistinctUpTo(s, m) /\ ArbShape(d) /\ Len(s) \in Nat /\ d.refractory_until \in Nat
  BY DEF ArbOK
<1>1. r = IF may = {} THEN [d EXCEPT !.pending = keep]
          ELSE [d EXCEPT !.pending = keep, !.flag = f, !.refractory_until = g]
  BY DEF Scan
<1>2. /\ ts \in Seq(Trigger) /\ Len(ts) = Len(s) /\ DOMAIN ts = 1..Len(s)
      /\ \A i \in 1..Len(s) : ts[i].seq = s[i].seq
  <2>1. \A i \in 1..Len(s) : Reacted(s[i], e) \in Trigger /\ Reacted(s[i], e).seq = s[i].seq
    BY <1>0, TriggerFields, ReactedIs
  <2>2. DOMAIN s = 1..Len(s)
    BY <1>0
  <2>3. ts = [i \in 1..Len(s) |-> Reacted(s[i], e)]
    BY <2>2
  <2> HIDE DEF ts, s
  <2> QED
    BY <1>0, <2>1, <2>3
<1>3. may \in SUBSET (1..Len(ts)) /\ idx \in SUBSET (1..Len(ts))
  BY <1>2
<1>4. \A i \in may : Qualified(ts[i])
  BY DEF MayFlag
<1>5. (may # {} /\ first \in may) => first \notin idx
  BY <1>4 DEF Kept
<1>6. f = Some(f[1]) /\ f[1].kind = "LatencyArbitrage" /\ f[1].end_seq = m /\ f[1].start_seq = ts[first].seq
  BY EventFields DEF Some, ChaosFlag
<1>g. g = m + ArbCooldown /\ g \in Nat
  BY EventFields, ArbAssumption
<1> HIDE DEF ts, may, idx
<1>7. may # {} => first \in may
  <2>1. may \in SUBSET Nat
    BY <1>2, <1>3
  <2> QED
    BY <2>1, FirstOf
<1> HIDE DEF first, f, g
<1>8. Retained(Trigger, ts, idx, keep)
  BY <1>2, <1>3, RetainIs
<1> HIDE DEF keep
<1>9. DistinctUpTo(ts, m)
  BY <1>0, <1>2 DEF DistinctUpTo
<1>10. DistinctUpTo(keep, m) /\ keep \in Seq(Trigger)
  <2>1. DistinctUpTo(keep, m)
    BY ONLY <1>3, <1>8, <1>9, DistinctRetained
  <2> QED
    BY <1>8, <2>1 DEF Retained
<1>11. \A k \in 1..Len(keep) : \E i \in idx : keep[k].seq = ts[i].seq
  BY <1>8 DEF Retained
<1>12. SeqsOf(keep) \subseteq SeqsOf(s)
  <2>1. \A i \in idx : i \in 1..Len(s) /\ ts[i].seq = s[i].seq
    BY <1>2, <1>3
  <2> QED
    BY <1>11, <2>1 DEF SeqsOf
<1>13. may # {} => ts[first].seq \in SeqsOf(s) \ SeqsOf(keep)
  <2> SUFFICES ASSUME may # {} PROVE ts[first].seq \in SeqsOf(s) /\ ts[first].seq \notin SeqsOf(keep)
    OBVIOUS
  <2>1. first \in 1..Len(ts) /\ first \notin idx
    BY <1>3, <1>5, <1>7
  <2>2. \A i \in idx : ts[i].seq # ts[first].seq
    BY <1>3, <1>9, <2>1 DEF DistinctUpTo
  <2>3. ts[first].seq \in SeqsOf(s)
    BY <1>2, <2>1 DEF SeqsOf
  <2> QED
    BY <1>11, <2>2, <2>3 DEF SeqsOf
<1>14. CASE may = {}
  <2>1. r = [d EXCEPT !.pending = keep]
    BY <1>1, <1>14
  <2>2. /\ r.book = d.book /\ r.orders = d.orders /\ r.pending = keep /\ r.flag = d.flag
        /\ r.refractory_until = d.refractory_until
    BY ONLY <1>0, <2>1 DEF ArbShape, ArbRecord
  <2>3. ArbShape(r)
    BY ONLY <1>0, <2>1 DEF ArbShape, ArbRecord
  <2> QED
    BY <1>0, <1>10, <1>12, <2>2, <2>3 DEF ArbOK, Returned
<1>15. CASE may # {}
  <2>1. r = [d EXCEPT !.pending = keep, !.flag = f, !.refractory_until = g]
    BY <1>1, <1>15
  <2>2. /\ r.book = d.book /\ r.orders = d.orders /\ r.pending = keep /\ r.flag = f
        /\ r.refractory_until = g
    BY ONLY <1>0, <2>1 DEF ArbShape, ArbRecord
  <2>3. ArbShape(r)
    BY ONLY <1>0, <2>1 DEF ArbShape, ArbRecord
  <2>4. f # None
    BY <1>6, SomeIs DEF None
  <2> QED
    BY <1>6, <1>g, <1>10, <1>12, <1>13, <1>15, <2>2, <2>3, <2>4 DEF ArbOK, Returned
<1> QED
  BY <1>14, <1>15

(* The refractory is armed by a flag, and event m seeds no trigger in it.  *)
Quiet(old, new, flag, S, T, m) ==
    /\ old \in Nat /\ new \in Nat
    /\ (flag = None /\ new = old) \/ new = m + ArbCooldown
    /\ (m \in T \/ (flag # None /\ flag[1].start_seq = m)) => old <= m

(* One event through the latency-arbitrage proxy.                          *)
LEMMA ArbProcessIs ==
    ASSUME NEW n \in Nat, ArbOK(arb, n), NEW e, IsEvent(e, n + 1), ArbProcess(e)
    PROVE  /\ ArbOK(arb', n + 1) /\ SeqsOf(arb'.pending) \subseteq SeqsOf(arb.pending) \cup {n + 1}
           /\ Returned(arb'.flag, "LatencyArbitrage", n + 1)
           /\ PrintFlag(arb'.flag, arb.pending, arb'.pending, n + 1)
           /\ Quiet(arb.refractory_until, arb'.refractory_until, arb'.flag,
                    SeqsOf(arb.pending), SeqsOf(arb'.pending), n + 1)
<1> DEFINE m == n + 1
           d == [arb EXCEPT !.flag = None]
           r == Resolve(d.orders, e)
           o == r.orders
           b == ApplyTo(d.book, e, r.update, ArbMaxLevels)
           c == [d EXCEPT !.orders = o, !.book = b]
           mid == ArbMid(d)
           s == Seed(c, e, r.update, mid)
<1>0. arb' = IF e.type = "BookSnapshot" THEN d ELSE Scan(s, e)
  BY DEF ArbProcess
<1>1. ArbShape(arb) /\ arb.pending \in Seq(Trigger) /\ BookOK(arb.book) /\ OrdersOK(arb.orders)
      /\ DistinctUpTo(arb.pending, n) /\ arb.refractory_until \in Nat
  BY DEF ArbOK
<1>2. d = [arb EXCEPT !.flag = None]
  OBVIOUS
<1> HIDE DEF d
<1>3. /\ d.book = arb.book /\ d.orders = arb.orders /\ d.pending = arb.pending /\ d.flag = None
      /\ d.refractory_until = arb.refractory_until
  BY ONLY <1>1, <1>2 DEF ArbShape, ArbRecord
<1>4. ArbShape(d)
  BY ONLY <1>1, <1>2 DEF ArbShape, ArbRecord
<1>5. ArbOK(d, n)
  BY <1>1, <1>3, <1>4 DEF ArbOK
<1>6. ResolvedOK(r)
  BY <1>1, <1>3, ResolveIs
<1>7. OrdersOK(o) /\ UpdateOK(r.update)
  BY <1>6 DEF ResolvedOK
<1>8. BookOK(b)
  BY <1>1, <1>3, <1>7, ApplyToOK, ArbAssumption
<1>9. PriceOK(mid)
  BY <1>1, <1>3, TopsOK, MidIs DEF ArbMid
<1>10. c = [d EXCEPT !.orders = o, !.book = b]
  OBVIOUS
<1> HIDE DEF r, o, b, c, mid
<1>11. /\ c.book = b /\ c.orders = o /\ c.pending = d.pending /\ c.flag = None
       /\ c.refractory_until = d.refractory_until
  BY ONLY <1>3, <1>4, <1>10 DEF ArbShape, ArbRecord
<1>12. ArbShape(c)
  BY ONLY <1>4, <1>10 DEF ArbShape, ArbRecord
<1>13. ArbOK(c, n)
  BY <1>1, <1>3, <1>7, <1>8, <1>11, <1>12 DEF ArbOK
<1>14. /\ ArbOK(s, m) /\ Seeded(arb.pending, s.pending, m) /\ s.flag = None
       /\ s.refractory_until = arb.refractory_until
       /\ m \in SeqsOf(s.pending) => arb.refractory_until <= m
  BY <1>3, <1>7, <1>9, <1>11, <1>13, SeedIs
<1> HIDE DEF s
<1>15. CASE arb' = d
  <2> DEFINE t0 == [seq |-> m, ts |-> 0, price |-> 0, dir |-> "Buy", mid |-> 0,
                    burst_count |-> 0, last_burst_seq |-> 0]
  <2>1. t0 \in Trigger /\ t0.seq = m
    BY DEF Trigger
  <2> HIDE DEF t0
  <2>2. Seeded(d.pending, d.pending, m)
    BY <1>1, <1>3, <2>1, SeedSeqs
  <2>3. ArbOK(d, m)
    BY <1>5, <2>2 DEF ArbOK, Seeded
  <2>4. m \notin SeqsOf(d.pending)
    BY <1>1, <1>3, TriggerFields DEF DistinctUpTo, SeqsOf
  <2>5. Quiet(arb.refractory_until, arb'.refractory_until, arb'.flag,
              SeqsOf(arb.pending), SeqsOf(arb'.pending), m)
    BY <1>1, <1>3, <1>15, <2>4 DEF Quiet
  <2> QED
    BY <1>3, <1>15, <2>2, <2>3, <2>5 DEF Seeded, Returned, PrintFlag
<1>16. CASE arb' = Scan(s, e)
  <2>1. /\ ArbOK(arb', m) /\ SeqsOf(arb'.pending) \subseteq SeqsOf(s.pending)
        /\ Returned(arb'.flag, "LatencyArbitrage", m)
        /\ arb'.flag = None \/ arb'.flag[1].start_seq \in SeqsOf(s.pending) \ SeqsOf(arb'.pending)
        /\ \/ arb'.flag = None /\ arb'.refractory_until = s.refractory_until
           \/ arb'.flag # None /\ arb'.refractory_until = m + ArbCooldown
    BY <1>14, <1>16, ScanIs
  <2>2. SeqsOf(s.pending) \subseteq SeqsOf(arb.pending) \cup {m}
    BY <1>14 DEF Seeded
  <2>3. Quiet(arb.refractory_until, arb'.refractory_until, arb'.flag,
              SeqsOf(arb.pending), SeqsOf(arb'.pending), m)
    <3>1. arb'.refractory_until \in Nat
      BY <2>1 DEF ArbOK
    <3>2. m \in SeqsOf(arb'.pending) \/ (arb'.flag # None /\ arb'.flag[1].start_seq = m)
            => arb.refractory_until <= m
      BY <1>14, <2>1
    <3> QED BY <1>1, <1>14, <2>1, <3>1, <3>2 DEF Quiet
  <2> QED
    BY <2>1, <2>2, <2>3 DEF PrintFlag
<1> QED
  BY <1>0, <1>15, <1>16

LEMMA ArbInitIs ==
    ASSUME ArbInit
    PROVE  ArbOK(arb, 0) /\ arb.pending = <<>> /\ arb.refractory_until = 0
<1>1. arb = ArbRecord(EmptyBook, EmptyMap, <<>>, 0, None)
  BY DEF ArbInit, ArbRecord
<1>2. /\ arb.book = EmptyBook /\ arb.orders = EmptyMap /\ arb.pending = <<>>
      /\ arb.refractory_until = 0
  BY ONLY <1>1 DEF ArbRecord
<1>3. ArbShape(arb)
  BY ONLY <1>1 DEF ArbShape, ArbRecord
<1> QED
  BY <1>2, <1>3, EmptyBookIs, EmptyOrders DEF ArbOK, DistinctUpTo

-----------------------------------------------------------------------------
(* The flash crash: the depth in the band, and the best prices.            *)

InBand(l, lo, hi) == {p \in DOMAIN l : lo <= p /\ p <= hi}

BandSum(l, lo, hi) == SumFunctionOnSet(l, InBand(l, lo, hi))

(* Two ladders that differ at most at the price p.                         *)
SameBut(l, w, p) ==
    /\ DOMAIN l \ {p} = DOMAIN w \ {p}
    /\ \A x \in DOMAIN l : x # p => w[x] = l[x]

NumbersOn(f, S) == \A x \in S : f[x] \in Int

(* A sum over all keys but one.                                            *)
LEMMA SumDrop ==
    ASSUME NEW f, NEW S, IsFiniteSet(S), NumbersOn(f, S), NEW x \in S
    PROVE  SumFunctionOnSet(f, S) = f[x] + SumFunctionOnSet(f, S \ {x})
BY SumWithout DEF NumbersOn

(* A level inside the band contributes its quantity.                       *)
LEMMA BandSplit ==
    ASSUME NEW l, LadderOK(l), NEW p \in Nat, NEW lo \in Nat, NEW hi \in Nat
    PROVE  /\ SumFunctionOnSet(l, InBand(l, lo, hi) \ {p}) \in Nat
           /\ IsFiniteSet(InBand(l, lo, hi) \ {p})
           /\ BandSum(l, lo, hi) = SumFunctionOnSet(l, InBand(l, lo, hi) \ {p})
                                   + (IF lo <= p /\ p <= hi THEN Held(l, p) ELSE 0)
<1> DEFINE S == InBand(l, lo, hi)
<1>1. S \subseteq DOMAIN l /\ (p \in S <=> (p \in DOMAIN l /\ lo <= p /\ p <= hi))
  BY DEF InBand
<1>2. IsFiniteSet(DOMAIN l) /\ \A x \in DOMAIN l : l[x] \in Nat
  BY DEF LadderOK
<1> HIDE DEF S
<1>3. IsFiniteSet(S) /\ \A x \in S : l[x] \in Nat /\ l[x] \in Int
  BY <1>1, <1>2, FS_Subset
<1>4. IsFiniteSet(S \ {p})
  BY <1>3, FS_RemoveElement
<1>5. SumFunctionOnSet(l, S \ {p}) \in Nat
  <2>1. \A x \in S \ {p} : l[x] \in Nat
    BY <1>3
  <2> QED
    BY <1>4, <2>1, SumNat
<1>6. CASE p \in S
  <2>1. SumFunctionOnSet(l, S) = l[p] + SumFunctionOnSet(l, S \ {p})
    <3>1. IsFiniteSet(S)
      BY <1>3
    <3>2. NumbersOn(l, S)
      BY <1>3 DEF NumbersOn
    <3> QED
      BY ONLY <1>6, <3>1, <3>2, SumDrop
  <2>2. Held(l, p) = l[p] /\ l[p] \in Nat
    BY <1>1, <1>2, <1>6 DEF Held
  <2>3. SumFunctionOnSet(l, S) = SumFunctionOnSet(l, S \ {p}) + Held(l, p)
    BY <1>5, <2>1, <2>2
  <2> QED
    BY <1>1, <1>4, <1>5, <1>6, <2>3 DEF BandSum, S
<1>7. CASE p \notin S
  <2>1. S \ {p} = S
    BY <1>7
  <2>2. (lo <= p /\ p <= hi) => Held(l, p) = 0
    BY <1>1, <1>7 DEF Held
  <2>3. SumFunctionOnSet(l, S) = SumFunctionOnSet(l, S \ {p})
                                 + (IF lo <= p /\ p <= hi THEN Held(l, p) ELSE 0)
    BY <1>5, <2>1, <2>2
  <2> QED
    BY <1>4, <1>5, <2>3 DEF BandSum, S
<1> QED
  BY <1>6, <1>7

(* A change of one level moves the sum of a band by what the level moved,  *)
(* or not at all.                                                          *)
LEMMA BandMoved ==
    ASSUME NEW l, NEW w, LadderOK(l), LadderOK(w), NEW p \in Nat, SameBut(l, w, p), NEW lo \in Nat, NEW hi \in Nat
    PROVE  /\ BandSum(l, lo, hi) \in Nat /\ BandSum(w, lo, hi) \in Nat
           /\ BandSum(w, lo, hi) = BandSum(l, lo, hi)
                                   + (IF lo <= p /\ p <= hi THEN Held(w, p) - Held(l, p) ELSE 0)
           /\ (lo <= p /\ p <= hi) => Held(l, p) <= BandSum(l, lo, hi)
<1> DEFINE R == InBand(l, lo, hi) \ {p}
           a == SumFunctionOnSet(l, R)
           b == SumFunctionOnSet(w, R)
           x == BandSum(l, lo, hi)
           y == BandSum(w, lo, hi)
           hl == Held(l, p)
           hw == Held(w, p)
           in == lo <= p /\ p <= hi
<1>1. InBand(w, lo, hi) \ {p} = R
  BY DEF InBand, SameBut
<1>2. a \in Nat /\ IsFiniteSet(R) /\ x = a + (IF in THEN hl ELSE 0)
  BY BandSplit
<1>3. b \in Nat /\ y = b + (IF in THEN hw ELSE 0)
  <2>1. /\ SumFunctionOnSet(w, InBand(w, lo, hi) \ {p}) \in Nat
        /\ y = SumFunctionOnSet(w, InBand(w, lo, hi) \ {p}) + (IF in THEN hw ELSE 0)
    BY BandSplit
  <2> HIDE DEF y, hw, in, R
  <2> QED
    BY <1>1, <2>1
<1>4. a = b
  <2>1. \A q \in R : l[q] = w[q]
    BY DEF SameBut, InBand
  <2> HIDE DEF R
  <2> QED
    BY <1>2, <2>1, SumSame
<1>5. hl \in Nat /\ hw \in Nat
  BY HeldNat
<1> HIDE DEF a, b, x, y, hl, hw, in
<1>6. x \in Nat /\ y \in Nat /\ y = x + (IF in THEN hw - hl ELSE 0) /\ (in => hl <= x)
  BY ONLY <1>2, <1>3, <1>4, <1>5
<1> QED
  BY <1>6 DEF x, y, hl, hw, in

(* A price of a side in the band around the best prices x and y.           *)
SideBand(s, p, x, y) ==
    IF s = "Bid" THEN SatSub(x, CrashBandTicks) <= p /\ p <= x
    ELSE y <= p /\ p <= y + CrashBandTicks

LEMMA DepthIs ==
    ASSUME NEW b, NEW x, NEW y
    PROVE  DepthAround(b, x, y) = BandSum(b["Bid"], SatSub(x, CrashBandTicks), x)
                                  + BandSum(b["Ask"], y, y + CrashBandTicks)
BY DEF DepthAround, BandSum, InBand

OtherSame(b, c, s) == \A t \in Sides : t # s => c[t] = b[t]

(* What a change of the level p of the side s does to the depth.           *)
MovedDepth(b, c, s, p, x, y) ==
    /\ DepthAround(b, x, y) \in Nat
    /\ DepthAround(c, x, y) = DepthAround(b, x, y)
         + (IF SideBand(s, p, x, y) THEN Held(c[s], p) - Held(b[s], p) ELSE 0)
    /\ SideBand(s, p, x, y) => Held(b[s], p) <= DepthAround(b, x, y)

(* So does the depth around the best prices.                               *)
LEMMA DepthMoved ==
    ASSUME NEW b, NEW c, BookOK(b), BookOK(c), NEW s \in Sides, NEW p \in Nat, SameBut(b[s], c[s], p),
           OtherSame(b, c, s), NEW x \in Nat, NEW y \in Nat
    PROVE  MovedDepth(b, c, s, p, x, y)
<1> DEFINE lo == SatSub(x, CrashBandTicks)
           hi == y + CrashBandTicks
           b1 == BandSum(b["Bid"], lo, x)
           c1 == BandSum(c["Bid"], lo, x)
           b2 == BandSum(b["Ask"], y, hi)
           c2 == BandSum(c["Ask"], y, hi)
           hb == Held(b[s], p)
           hc == Held(c[s], p)
<1>1. lo \in Nat /\ hi \in Nat
  BY CrashAssumption DEF SatSub
<1>2. LadderOK(b["Bid"]) /\ LadderOK(b["Ask"]) /\ LadderOK(c["Bid"]) /\ LadderOK(c["Ask"])
  BY DEF BookOK, Sides
<1>3. DepthAround(b, x, y) = b1 + b2 /\ DepthAround(c, x, y) = c1 + c2
  BY DepthIs
<1>4. hb \in Nat /\ hc \in Nat
  BY <1>2, HeldNat DEF Sides
<1>5. \A l : SameBut(l, l, p)
  BY DEF SameBut
<1>6. CASE s = "Bid"
  <2>1. c["Ask"] = b["Ask"]
    BY <1>6 DEF Sides, OtherSame
  <2>2. SameBut(b["Bid"], c["Bid"], p)
    BY <1>6
  <2> HIDE DEF lo, hi
  <2>3. /\ b1 \in Nat /\ c1 \in Nat
        /\ c1 = b1 + (IF lo <= p /\ p <= x THEN Held(c["Bid"], p) - Held(b["Bid"], p) ELSE 0)
        /\ (lo <= p /\ p <= x) => Held(b["Bid"], p) <= b1
    BY <1>1, <1>2, <2>2, BandMoved
  <2>4. b2 \in Nat
    BY <1>1, <1>2, <1>5, BandMoved
  <2>5. c2 = b2
    BY <2>1
  <2>6. SideBand(s, p, x, y) <=> (lo <= p /\ p <= x)
    BY <1>6 DEF SideBand, lo
  <2>7. hb = Held(b["Bid"], p) /\ hc = Held(c["Bid"], p)
    BY <1>6
  <2> HIDE DEF b1, b2, c1, c2, hb, hc
  <2>8. b1 + b2 \in Nat /\ c1 + c2 = (b1 + b2) + (IF lo <= p /\ p <= x THEN hc - hb ELSE 0)
        /\ ((lo <= p /\ p <= x) => hb <= b1 + b2)
    BY ONLY <1>4, <2>3, <2>4, <2>5, <2>7
  <2> QED
    BY <1>3, <2>6, <2>8 DEF hb, hc, MovedDepth
<1>7. CASE s = "Ask"
  <2>1. c["Bid"] = b["Bid"]
    BY <1>7 DEF Sides, OtherSame
  <2>2. SameBut(b["Ask"], c["Ask"], p)
    BY <1>7
  <2> HIDE DEF lo, hi
  <2>3. /\ b2 \in Nat /\ c2 \in Nat
        /\ c2 = b2 + (IF y <= p /\ p <= hi THEN Held(c["Ask"], p) - Held(b["Ask"], p) ELSE 0)
        /\ (y <= p /\ p <= hi) => Held(b["Ask"], p) <= b2
    BY <1>1, <1>2, <2>2, BandMoved
  <2>4. b1 \in Nat
    BY <1>1, <1>2, <1>5, BandMoved
  <2>5. c1 = b1
    BY <2>1
  <2>6. SideBand(s, p, x, y) <=> (y <= p /\ p <= hi)
    BY <1>7 DEF SideBand, hi
  <2>7. hb = Held(b["Ask"], p) /\ hc = Held(c["Ask"], p)
    BY <1>7
  <2> HIDE DEF b1, b2, c1, c2, hb, hc
  <2>8. b1 + b2 \in Nat /\ c1 + c2 = (b1 + b2) + (IF y <= p /\ p <= hi THEN hc - hb ELSE 0)
        /\ ((y <= p /\ p <= hi) => hb <= b1 + b2)
    BY ONLY <1>4, <2>3, <2>4, <2>5, <2>7
  <2> QED
    BY <1>3, <2>6, <2>8 DEF hb, hc, MovedDepth
<1> QED
  BY <1>6, <1>7 DEF Sides

(* A level that grew.                                                      *)
LEMMA GrownIs ==
    ASSUME NEW l, LadderOK(l), NEW u \in Update
    PROVE  /\ LadderOK(Grown(l, u)) /\ SameBut(l, Grown(l, u), u.price)
           /\ DOMAIN Grown(l, u) = DOMAIN l \cup {u.price}
           /\ Held(Grown(l, u), u.price) = Held(l, u.price) + u.qty
<1> DEFINE p == u.price
           v == Held(l, p) + u.qty
           w == Grown(l, u)
<1>1. p \in Nat /\ u.qty \in Nat /\ Held(l, p) \in Nat /\ v \in Nat
  BY UpdateFields, HeldNat
<1>2. w = With(l, p, v)
  BY DEF Grown
<1> HIDE DEF p, v, w
<1>3. /\ LadderOK(w) /\ DOMAIN w = DOMAIN l \cup {p} /\ w[p] = v
      /\ \A x \in DOMAIN l : x # p => w[x] = l[x]
  <2>1. /\ LadderOK(With(l, p, v)) /\ DOMAIN With(l, p, v) = DOMAIN l \cup {p} /\ With(l, p, v)[p] = v
        /\ \A x \in DOMAIN l : x # p => With(l, p, v)[x] = l[x]
    <3>1. p \in Nat /\ v \in Nat
      BY <1>1
    <3> QED
      BY ONLY <3>1, LadderOK(l), LadderWith
  <2> QED
    BY ONLY <1>2, <2>1
<1>4. SameBut(l, w, p)
  BY <1>3 DEF SameBut
<1>5. Held(w, p) = v
  BY <1>3 DEF Held
<1> QED
  BY <1>3, <1>4, <1>5 DEF w, p, v

(* A level that shrank.                                                    *)
LEMMA ShrunkIs ==
    ASSUME NEW l, LadderOK(l), NEW p, NEW taken, NEW r, Shrunk(l, p, taken, r)
    PROVE  /\ SameBut(l, r, p) /\ DOMAIN l \ {p} \subseteq DOMAIN r /\ DOMAIN r \subseteq DOMAIN l
           /\ taken \in Nat /\ taken <= Held(l, p) /\ Held(r, p) = Held(l, p) - taken
<1>0. \A x \in DOMAIN l : l[x] \in Nat
  BY DEF LadderOK
<1>1. CASE p \notin DOMAIN l /\ r = l /\ taken = 0
  BY <1>1 DEF SameBut, Held
<1>2. CASE p \in DOMAIN l /\ r = Without(l, p) /\ taken = l[p]
  <2>1. DOMAIN r = DOMAIN l \ {p} /\ \A x \in DOMAIN l \ {p} : r[x] = l[x]
    BY <1>2, WithoutIs
  <2>2. Held(r, p) = 0 /\ Held(l, p) = taken /\ taken \in Nat
    BY <1>0, <1>2, <2>1 DEF Held
  <2> QED
    BY <2>1, <2>2 DEF SameBut
<1>3. CASE p \in DOMAIN l /\ r = [l EXCEPT ![p] = l[p] - taken] /\ taken \in Nat /\ taken < l[p]
  <2>1. DOMAIN r = DOMAIN l /\ r[p] = l[p] - taken /\ \A x \in DOMAIN l : x # p => r[x] = l[x]
    BY <1>3
  <2>2. Held(l, p) = l[p] /\ Held(r, p) = r[p]
    BY <1>3, <2>1 DEF Held
  <2>3. taken <= Held(l, p)
    BY <1>0, <1>3, <2>2
  <2> QED
    BY <1>3, <2>1, <2>2, <2>3 DEF SameBut
<1> QED
  BY <1>1, <1>2, <1>3 DEF Shrunk

(* An add can only improve the best price of its side, and the eviction    *)
(* never takes the best.                                                   *)
BidAfter(o, p) == IF ~IsSome(o) \/ p > o[1] THEN Some(p) ELSE o
AskAfter(o, p) == IF ~IsSome(o) \/ p < o[1] THEN Some(p) ELSE o

(* An add can only raise the best bid.                                     *)
LEMMA BidGrown ==
    ASSUME NEW l, LadderOK(l), NEW u \in Update, NEW o, BidTop(l, o), NEW r, Pruned(Grown(l, u), r, "Bid")
    PROVE  BidTop(r, BidAfter(o, u.price))
<1> DEFINE w == Grown(l, u)
           p == u.price
<1>0. p \in Nat /\ DOMAIN l \in SUBSET Nat
  BY UpdateFields DEF LadderOK
<1>1. DOMAIN w = DOMAIN l \cup {p}
  BY GrownIs
<1> HIDE DEF w, p
<1>2. PICK t \in DOMAIN w : BidAfter(o, p) = Some(t) /\ \A q \in DOMAIN w : q <= t
  <2>1. CASE DOMAIN l = {} /\ o = None
    BY <1>0, <1>1, <2>1, SomeIs DEF BidAfter
  <2>2. CASE \E x \in DOMAIN l : o = Some(x) /\ \A q \in DOMAIN l : q <= x
    <3>1. PICK x \in DOMAIN l : o = Some(x) /\ \A q \in DOMAIN l : q <= x
      BY <2>2
    <3>2. IsSome(o) /\ o[1] = x /\ x \in Nat
      BY <1>0, <3>1, SomeIs
    <3>3. CASE p > x
      <4>1. BidAfter(o, p) = Some(p)
        BY <3>2, <3>3 DEF BidAfter
      <4>2. \A q \in DOMAIN w : q <= p
        BY <1>0, <1>1, <3>1, <3>2, <3>3
      <4> QED
        BY <1>1, <4>1, <4>2
    <3>4. CASE ~(p > x)
      <4>1. BidAfter(o, p) = Some(x)
        BY <3>1, <3>2, <3>4 DEF BidAfter
      <4>2. \A q \in DOMAIN w : q <= x
        BY <1>0, <1>1, <3>1, <3>2, <3>4
      <4> QED
        BY <1>1, <4>1, <4>2
    <3> QED
      BY <3>3, <3>4
  <2> QED
    BY <2>1, <2>2 DEF BidTop
<1>3. ASSUME r = w PROVE BidTop(r, BidAfter(o, p))
  BY <1>2, <1>3 DEF BidTop
<1>4. ASSUME r # w PROVE BidTop(r, BidAfter(o, p))
  <2>1. PICK far \in DOMAIN w :
          /\ r = Without(w, far) /\ \E q \in DOMAIN w : q # far
          /\ \A q \in DOMAIN w : far <= q
    BY <1>4 DEF Pruned, w
  <2>2. DOMAIN r = DOMAIN w \ {far}
    BY <2>1, WithoutIs
  <2>3. t # far
    <3>1. PICK q \in DOMAIN w : q # far
      BY <2>1
    <3>2. far <= q /\ q <= t /\ q \in Nat /\ far \in Nat /\ t \in Nat
      BY <1>0, <1>1, <1>2, <2>1, <3>1
    <3> QED
      BY <3>1, <3>2
  <2> QED
    BY <1>2, <2>2, <2>3 DEF BidTop
<1>5. BidTop(r, BidAfter(o, p))
  BY <1>3, <1>4
<1> QED
  BY <1>5 DEF p

(* An add can only lower the best ask.                                     *)
LEMMA AskGrown ==
    ASSUME NEW l, LadderOK(l), NEW u \in Update, NEW o, AskTop(l, o), NEW r, Pruned(Grown(l, u), r, "Ask")
    PROVE  AskTop(r, AskAfter(o, u.price))
<1> DEFINE w == Grown(l, u)
           p == u.price
<1>0. p \in Nat /\ DOMAIN l \in SUBSET Nat
  BY UpdateFields DEF LadderOK
<1>1. DOMAIN w = DOMAIN l \cup {p}
  BY GrownIs
<1> HIDE DEF w, p
<1>2. PICK t \in DOMAIN w : AskAfter(o, p) = Some(t) /\ \A q \in DOMAIN w : t <= q
  <2>1. CASE DOMAIN l = {} /\ o = None
    BY <1>0, <1>1, <2>1, SomeIs DEF AskAfter
  <2>2. CASE \E x \in DOMAIN l : o = Some(x) /\ \A q \in DOMAIN l : x <= q
    <3>1. PICK x \in DOMAIN l : o = Some(x) /\ \A q \in DOMAIN l : x <= q
      BY <2>2
    <3>2. IsSome(o) /\ o[1] = x /\ x \in Nat
      BY <1>0, <3>1, SomeIs
    <3>3. CASE p < x
      <4>1. AskAfter(o, p) = Some(p)
        BY <3>2, <3>3 DEF AskAfter
      <4>2. \A q \in DOMAIN w : p <= q
        BY <1>0, <1>1, <3>1, <3>2, <3>3
      <4> QED
        BY <1>1, <4>1, <4>2
    <3>4. CASE ~(p < x)
      <4>1. AskAfter(o, p) = Some(x)
        BY <3>1, <3>2, <3>4 DEF AskAfter
      <4>2. \A q \in DOMAIN w : x <= q
        BY <1>0, <1>1, <3>1, <3>2, <3>4
      <4> QED
        BY <1>1, <4>1, <4>2
    <3> QED
      BY <3>3, <3>4
  <2> QED
    BY <2>1, <2>2 DEF AskTop
<1>3. ASSUME r = w PROVE AskTop(r, AskAfter(o, p))
  BY <1>2, <1>3 DEF AskTop
<1>4. ASSUME r # w PROVE AskTop(r, AskAfter(o, p))
  <2>1. PICK far \in DOMAIN w :
          /\ r = Without(w, far) /\ \E q \in DOMAIN w : q # far
          /\ \A q \in DOMAIN w : q <= far
    BY <1>4 DEF Pruned, w
  <2>2. DOMAIN r = DOMAIN w \ {far}
    BY <2>1, WithoutIs
  <2>3. t # far
    <3>1. PICK q \in DOMAIN w : q # far
      BY <2>1
    <3>2. q <= far /\ t <= q /\ q \in Nat /\ far \in Nat /\ t \in Nat
      BY <1>0, <1>1, <1>2, <2>1, <3>1
    <3> QED
      BY <3>1, <3>2
  <2> QED
    BY <1>2, <2>2, <2>3 DEF AskTop
<1>5. AskTop(r, AskAfter(o, p))
  BY <1>3, <1>4
<1> QED
  BY <1>5 DEF p

(* A best price stays while its level does.                                *)
LEMMA TopShrunk ==
    ASSUME NEW l, NEW r, NEW p, NEW o, DOMAIN l \ {p} \subseteq DOMAIN r, DOMAIN r \subseteq DOMAIN l,
           p \in DOMAIN r \/ o # Some(p)
    PROVE  (BidTop(l, o) => BidTop(r, o)) /\ (AskTop(l, o) => AskTop(r, o))
BY DEF BidTop, AskTop

(* add_qty: the cached best prices follow, and an eviction never takes the *)
(* best.                                                                   *)
LEMMA AddTops ==
    ASSUME NEW b, BookOK(b), NEW u \in Update, NEW c, c = AddQty(b, u, CrashMaxLevels)
    PROVE  /\ BookOK(c)
           /\ BestBid(c) = IF u.side = "Bid" THEN BidAfter(BestBid(b), u.price) ELSE BestBid(b)
           /\ BestAsk(c) = IF u.side = "Ask" THEN AskAfter(BestAsk(b), u.price) ELSE BestAsk(b)
<1>0. u.side \in Sides
  BY UpdateFields
<1>1. /\ BookOK(c) /\ \A s \in Sides : s # u.side => c[s] = b[s]
      /\ Pruned(Grown(b[u.side], u), c[u.side], u.side)
  BY AddQtyIs, CrashAssumption
<1>2. LadderOK(b["Bid"]) /\ LadderOK(b["Ask"])
  BY DEF BookOK, Sides
<1>3. BidTop(b["Bid"], BestBid(b)) /\ AskTop(b["Ask"], BestAsk(b))
  BY BidTopIs, AskTopIs
<1>4. CASE u.side = "Bid"
  <2>1. c["Ask"] = b["Ask"]
    BY <1>1, <1>4 DEF Sides
  <2>2. BidTop(c["Bid"], BidAfter(BestBid(b), u.price))
    BY <1>1, <1>2, <1>3, <1>4, BidGrown
  <2>3. BestBid(c) = BidAfter(BestBid(b), u.price) /\ BestAsk(c) = BestAsk(b)
    BY <1>1, <1>3, <2>1, <2>2, BidTopIs, AskTopIs
  <2> QED
    BY <1>1, <1>4, <2>3
<1>5. CASE u.side = "Ask"
  <2>1. c["Bid"] = b["Bid"]
    BY <1>1, <1>5 DEF Sides
  <2>2. AskTop(c["Ask"], AskAfter(BestAsk(b), u.price))
    BY <1>1, <1>2, <1>3, <1>5, AskGrown
  <2>3. BestAsk(c) = AskAfter(BestAsk(b), u.price) /\ BestBid(c) = BestBid(b)
    BY <1>1, <1>3, <2>1, <2>2, BidTopIs, AskTopIs
  <2> QED
    BY <1>1, <1>5, <2>3
<1> QED
  BY <1>0, <1>4, <1>5 DEF Sides

SameCount(b, u, c) == Cardinality(DOMAIN b[u.side] \cup {u.price}) = Cardinality(DOMAIN c[u.side])

AddedDepth(b, c, u, x, y) ==
    /\ DepthAround(b, x, y) \in Nat
    /\ DepthAround(c, x, y) = DepthAround(b, x, y)
         + (IF SideBand(u.side, u.price, x, y) THEN u.qty ELSE 0)

(* add_qty: the depth follows when nothing was evicted.                    *)
LEMMA AddDepth ==
    ASSUME NEW b, BookOK(b), NEW u \in Update, NEW c, c = AddQty(b, u, CrashMaxLevels),
           SameCount(b, u, c), NEW x \in Nat, NEW y \in Nat
    PROVE  AddedDepth(b, c, u, x, y)
<1> DEFINE s == u.side
           p == u.price
           D == DepthAround(b, x, y)
           E == DepthAround(c, x, y)
<1>0. s \in Sides /\ p \in Nat /\ u.qty \in Nat
  BY UpdateFields
<1>1. LadderOK(b[s])
  BY <1>0 DEF BookOK
<1>2. /\ SameBut(b[s], Grown(b[s], u), p) /\ DOMAIN Grown(b[s], u) = DOMAIN b[s] \cup {p}
      /\ Held(Grown(b[s], u), p) = Held(b[s], p) + u.qty /\ Held(b[s], p) \in Nat
  BY <1>1, GrownIs, HeldNat
<1>3. /\ BookOK(c) /\ \A t \in Sides : t # s => c[t] = b[t]
      /\ Cardinality(DOMAIN c[s]) = Cardinality(DOMAIN Grown(b[s], u)) => c[s] = Grown(b[s], u)
  BY AddQtyIs, CrashAssumption
<1>4. c[s] = Grown(b[s], u)
  BY <1>2, <1>3 DEF SameCount
<1>5. SameBut(b[s], c[s], p) /\ Held(c[s], p) - Held(b[s], p) = u.qty
  BY <1>0, <1>2, <1>4
<1>6. D \in Nat /\ E = D + (IF SideBand(s, p, x, y) THEN Held(c[s], p) - Held(b[s], p) ELSE 0)
  <2>1. OtherSame(b, c, s)
    BY <1>3 DEF OtherSame
  <2>2. BookOK(c)
    BY <1>3
  <2> HIDE DEF s, p, D, E
  <2>3. MovedDepth(b, c, s, p, x, y)
    BY ONLY BookOK(b), x \in Nat, y \in Nat, <1>0, <1>5, <2>1, <2>2, DepthMoved
  <2> QED
    BY ONLY <2>3 DEF MovedDepth, D, E
<1> HIDE DEF D, E
<1>7. D \in Nat /\ E = D + (IF SideBand(s, p, x, y) THEN u.qty ELSE 0)
  BY <1>5, <1>6
<1> QED
  BY <1>7 DEF D, E, AddedDepth

(* sub_qty: the depth follows by what was taken.                           *)
LEMMA SubDepth ==
    ASSUME NEW b, BookOK(b), NEW u \in Update, NEW c, c = SubQty(b, u), NEW x \in Nat, NEW y \in Nat
    PROVE  DepthAround(c, x, y) =
             IF SideBand(u.side, u.price, x, y)
             THEN SatSub(DepthAround(b, x, y), Taken(b, u)) ELSE DepthAround(b, x, y)
<1> DEFINE s == u.side
           p == u.price
           k == Taken(b, u)
           D == DepthAround(b, x, y)
           E == DepthAround(c, x, y)
<1>0. s \in Sides /\ p \in Nat /\ u.qty \in Nat
  BY UpdateFields
<1>1. LadderOK(b[s]) /\ Held(b[s], p) \in Nat
  BY <1>0, HeldNat DEF BookOK
<1>2. BookOK(c) /\ (\A t \in Sides : t # s => c[t] = b[t]) /\ Shrunk(b[s], p, k, c[s])
  BY SubQtyIs
<1>3. /\ SameBut(b[s], c[s], p) /\ k \in Nat /\ k <= Held(b[s], p)
      /\ Held(c[s], p) = Held(b[s], p) - k
  BY <1>1, <1>2, ShrunkIs
<1>4. /\ D \in Nat /\ E = D + (IF SideBand(s, p, x, y) THEN Held(c[s], p) - Held(b[s], p) ELSE 0)
      /\ SideBand(s, p, x, y) => Held(b[s], p) <= D
  <2>1. OtherSame(b, c, s)
    BY <1>2 DEF OtherSame
  <2>2. BookOK(c)
    BY <1>2
  <2> HIDE DEF s, p, D, E, k
  <2>3. MovedDepth(b, c, s, p, x, y)
    BY ONLY BookOK(b), x \in Nat, y \in Nat, <1>0, <1>3, <2>1, <2>2, DepthMoved
  <2> QED
    BY ONLY <2>3 DEF MovedDepth, D, E
<1> HIDE DEF D, E, k
<1>5. E = IF SideBand(s, p, x, y) THEN SatSub(D, k) ELSE D
  <2>1. CASE SideBand(s, p, x, y)
    <3>1. E = D + (Held(c[s], p) - Held(b[s], p)) /\ Held(b[s], p) <= D
      BY <1>4, <2>1
    <3>2. E = D - k /\ k <= D
      BY <1>1, <1>3, <1>4, <3>1
    <3> QED
      BY <1>3, <1>4, <2>1, <3>2 DEF SatSub
  <2>2. CASE ~SideBand(s, p, x, y)
    BY <1>4, <2>2
  <2> QED
    BY <2>1, <2>2
<1> QED
  BY <1>5 DEF D, E, k

(* sub_qty moves the best price only when it empties its level.            *)
Emptied(b, u, c) == u.price \in DOMAIN b[u.side] /\ u.price \notin DOMAIN c[u.side]

(* sub_qty: a best price moves only when its level empties.                *)
LEMMA SubTops ==
    ASSUME NEW b, BookOK(b), NEW u \in Update, NEW c, c = SubQty(b, u)
    PROVE  /\ BookOK(c)
           /\ ~(Emptied(b, u, c) /\ u.side = "Bid" /\ BestBid(b) = Some(u.price)) => BestBid(c) = BestBid(b)
           /\ ~(Emptied(b, u, c) /\ u.side = "Ask" /\ BestAsk(b) = Some(u.price)) => BestAsk(c) = BestAsk(b)
<1> DEFINE s == u.side
           p == u.price
<1>0. s \in Sides
  BY UpdateFields
<1>1. LadderOK(b[s])
  BY <1>0 DEF BookOK
<1>2. BookOK(c) /\ (\A t \in Sides : t # s => c[t] = b[t]) /\ Shrunk(b[s], p, Taken(b, u), c[s])
  BY SubQtyIs
<1>3. DOMAIN b[s] \ {p} \subseteq DOMAIN c[s] /\ DOMAIN c[s] \subseteq DOMAIN b[s]
  BY <1>1, <1>2, ShrunkIs
<1>4. BidTop(b["Bid"], BestBid(b)) /\ AskTop(b["Ask"], BestAsk(b))
  BY BidTopIs, AskTopIs
<1>5. ASSUME NEW t \in Sides, NEW o, BidTop(b[t], o) \/ AskTop(b[t], o), ~(Emptied(b, u, c) /\ s = t /\ o = Some(p))
      PROVE  (BidTop(b[t], o) => BidTop(c[t], o)) /\ (AskTop(b[t], o) => AskTop(c[t], o))
  <2>1. CASE t # s
    <3>1. c[t] = b[t]
      BY <1>2, <2>1
    <3> QED
      BY <3>1
  <2>2. CASE t = s /\ o = Some(p)
    <3>1. p \in DOMAIN b[s]
      BY <1>5, <2>2, SomeIs DEF BidTop, AskTop
    <3>2. p \in DOMAIN c[s]
      BY <1>5, <2>2, <3>1 DEF Emptied
    <3> HIDE DEF p, s
    <3> QED
      BY <1>3, <2>2, <3>2, TopShrunk
  <2>3. CASE t = s /\ o # Some(p)
    <3> HIDE DEF p, s
    <3> QED
      BY <1>3, <2>3, TopShrunk
  <2> QED
    BY <2>1, <2>2, <2>3
<1>6. ~(Emptied(b, u, c) /\ s = "Bid" /\ BestBid(b) = Some(p)) => BidTop(c["Bid"], BestBid(b))
  BY <1>4, <1>5 DEF Sides
<1>7. ~(Emptied(b, u, c) /\ s = "Ask" /\ BestAsk(b) = Some(p)) => AskTop(c["Ask"], BestAsk(b))
  BY <1>4, <1>5 DEF Sides
<1> QED
  BY <1>2, <1>6, <1>7, BidTopIs, AskTopIs

-----------------------------------------------------------------------------
(* The flash crash: what the detector caches.                              *)

Depth(b, bb, ba) == IF IsSome(bb) /\ IsSome(ba) THEN DepthAround(b, bb[1], ba[1]) ELSE 0

(* The book of the detector and what it caches of it.                      *)
Cached(b, o, bb, ba, depth, valid, until) ==
    /\ BookOK(b) /\ OrdersOK(o) /\ until \in Nat /\ valid \in BOOLEAN
    /\ bb = BestBid(b) /\ ba = BestAsk(b)
    /\ valid = TRUE => (IsSome(bb) <=> IsSome(ba)) /\ depth = Depth(b, bb, ba)

CrashRecord(book, orders, bb, ba, depth, valid, snaps, buy, sell, until, flag) ==
    [book |-> book, orders |-> orders, bb |-> bb, ba |-> ba, band_depth |-> depth,
     band_depth_valid |-> valid, snaps |-> snaps, buy_aggr |-> buy, sell_aggr |-> sell,
     refractory_until |-> until, flag |-> flag]

CrashShape(d) ==
    d = CrashRecord(d.book, d.orders, d.bb, d.ba, d.band_depth, d.band_depth_valid, d.snaps,
                    d.buy_aggr, d.sell_aggr, d.refractory_until, d.flag)

CrashOK(d) ==
    /\ CrashShape(d)
    /\ Cached(d.book, d.orders, d.bb, d.ba, d.band_depth, d.band_depth_valid, d.refractory_until)

(* What only the flag changes.                                             *)
SameRefractory(d, n) == n.refractory_until = d.refractory_until /\ n.flag = d.flag

LEMMA TopPrices ==
    ASSUME NEW b, NEW o, NEW bb, NEW ba, NEW depth, NEW valid, NEW until, Cached(b, o, bb, ba, depth, valid, until)
    PROVE  (IsSome(bb) => bb[1] \in Nat) /\ (IsSome(ba) => ba[1] \in Nat)
BY TopsOK, SomeIs DEF Cached, PriceOK

(* The best prices after an add.                                           *)
AddedBid(bb, u) == IF u.side = "Bid" THEN BidAfter(bb, u.price) ELSE bb
AddedAsk(ba, u) == IF u.side = "Ask" THEN AskAfter(ba, u.price) ELSE ba

(* What an add leaves cached is exact when the depth is dropped.           *)
LEMMA AddCached ==
    ASSUME NEW b, NEW o, NEW bb, NEW ba, NEW depth, NEW valid, NEW until, Cached(b, o, bb, ba, depth, valid, until),
           NEW u \in Update, NEW c, c = AddQty(b, u, CrashMaxLevels)
    PROVE  Cached(c, o, AddedBid(bb, u), AddedAsk(ba, u), depth, FALSE, until)
<1>0. u.side \in Sides /\ BookOK(b) /\ OrdersOK(o) /\ until \in Nat /\ bb = BestBid(b) /\ ba = BestAsk(b)
  BY UpdateFields DEF Cached
<1>1. BookOK(c) /\ AddedBid(bb, u) = BestBid(c) /\ AddedAsk(ba, u) = BestAsk(c)
  BY <1>0, AddTops DEF AddedBid, AddedAsk
<1> QED
  BY <1>0, <1>1 DEF Cached

(* The add neither moves a best price nor evicts a level.                  *)
BestsStay(bb, ba, u) ==
    /\ u.side = "Bid" => IsSome(bb) /\ ~(u.price > bb[1])
    /\ u.side = "Ask" => IsSome(ba) /\ ~(u.price < ba[1])

(* What an add leaves cached is exact when the depth is kept.              *)
LEMMA AddKept ==
    ASSUME NEW b, NEW o, NEW bb, NEW ba, NEW depth, NEW until, Cached(b, o, bb, ba, depth, TRUE, until),
           NEW u \in Update, NEW c, c = AddQty(b, u, CrashMaxLevels), BestsStay(bb, ba, u), SameCount(b, u, c)
    PROVE  /\ IsSome(bb) /\ IsSome(ba)
           /\ SideBand(u.side, u.price, bb[1], ba[1]) => Cached(c, o, bb, ba, depth + u.qty, TRUE, until)
           /\ ~SideBand(u.side, u.price, bb[1], ba[1]) => Cached(c, o, bb, ba, depth, TRUE, until)
<1>0. u.side \in Sides /\ BookOK(b) /\ OrdersOK(o) /\ until \in Nat /\ bb = BestBid(b) /\ ba = BestAsk(b)
      /\ (IsSome(bb) <=> IsSome(ba)) /\ depth = Depth(b, bb, ba)
  BY UpdateFields DEF Cached
<1>1. AddedBid(bb, u) = bb /\ AddedAsk(ba, u) = ba
  BY DEF BestsStay, AddedBid, AddedAsk, BidAfter, AskAfter
<1>2. BookOK(c) /\ bb = BestBid(c) /\ ba = BestAsk(c)
  <2>1. Cached(c, o, AddedBid(bb, u), AddedAsk(ba, u), depth, FALSE, until)
    BY AddCached
  <2> QED
    BY <1>1, <2>1 DEF Cached
<1>3. IsSome(bb) /\ IsSome(ba) /\ depth = DepthAround(b, bb[1], ba[1])
  BY <1>0 DEF BestsStay, Depth, Sides
<1> DEFINE x == bb[1]
           y == ba[1]
<1>4. x \in Nat /\ y \in Nat
  BY <1>3, TopPrices
<1>5. depth = DepthAround(b, x, y) /\ Depth(c, bb, ba) = DepthAround(c, x, y)
  BY <1>3 DEF Depth
<1> HIDE DEF x, y
<1>6. AddedDepth(b, c, u, x, y)
  <2>1. BookOK(b)
    BY <1>0
  <2> QED
    BY ONLY u \in Update, c = AddQty(b, u, CrashMaxLevels), SameCount(b, u, c), <1>4, <2>1, AddDepth
<1>7. /\ SideBand(u.side, u.price, x, y) => depth + u.qty = Depth(c, bb, ba)
      /\ ~SideBand(u.side, u.price, x, y) => depth = Depth(c, bb, ba)
  BY <1>5, <1>6 DEF AddedDepth
<1>8. SideBand(u.side, u.price, x, y) => Cached(c, o, bb, ba, depth + u.qty, TRUE, until)
  BY <1>0, <1>2, <1>3, <1>7 DEF Cached
<1>9. ~SideBand(u.side, u.price, x, y) => Cached(c, o, bb, ba, depth, TRUE, until)
  BY <1>0, <1>2, <1>3, <1>7 DEF Cached
<1> QED
  BY <1>3, <1>8, <1>9 DEF x, y

(* The removal empties neither best level.                                 *)
BestsLeft(b, u, c, bb, ba) ==
    /\ ~(Emptied(b, u, c) /\ u.side = "Bid" /\ bb = Some(u.price))
    /\ ~(Emptied(b, u, c) /\ u.side = "Ask" /\ ba = Some(u.price))

(* The cached depth after such a removal.                                  *)
Follows(b, o, bb, ba, depth, until, u, c) ==
    /\ ~IsSome(bb) => Cached(c, o, bb, ba, depth, TRUE, until)
    /\ IsSome(bb) =>
         /\ IsSome(ba)
         /\ SideBand(u.side, u.price, bb[1], ba[1]) => Cached(c, o, bb, ba, SatSub(depth, Taken(b, u)), TRUE, until)
         /\ ~SideBand(u.side, u.price, bb[1], ba[1]) => Cached(c, o, bb, ba, depth, TRUE, until)

(* What a removal leaves cached is exact.                                  *)
LEMMA SubKept ==
    ASSUME NEW b, NEW o, NEW bb, NEW ba, NEW depth, NEW until, Cached(b, o, bb, ba, depth, TRUE, until),
           NEW u \in Update, NEW c, c = SubQty(b, u), BestsLeft(b, u, c, bb, ba)
    PROVE  Follows(b, o, bb, ba, depth, until, u, c)
<1>0. u.side \in Sides /\ BookOK(b) /\ OrdersOK(o) /\ until \in Nat /\ bb = BestBid(b) /\ ba = BestAsk(b)
      /\ (IsSome(bb) <=> IsSome(ba)) /\ depth = Depth(b, bb, ba)
  BY UpdateFields DEF Cached
<1>2. BookOK(c) /\ bb = BestBid(c) /\ ba = BestAsk(c)
  BY <1>0, SubTops DEF BestsLeft
<1>3. CASE ~IsSome(bb)
  <2>1. depth = Depth(c, bb, ba)
    BY <1>0, <1>3 DEF Depth
  <2> QED
    BY <1>0, <1>2, <1>3, <2>1 DEF Cached, Follows
<1>4. CASE IsSome(bb)
  <2> DEFINE x == bb[1]
             y == ba[1]
  <2>1. x \in Nat /\ y \in Nat /\ IsSome(ba)
    BY <1>0, <1>4, TopPrices
  <2>2. depth = DepthAround(b, x, y) /\ Depth(c, bb, ba) = DepthAround(c, x, y)
    BY <1>0, <1>4 DEF Depth
  <2> HIDE DEF x, y
  <2>3. DepthAround(c, x, y) = IF SideBand(u.side, u.price, x, y)
                               THEN SatSub(DepthAround(b, x, y), Taken(b, u)) ELSE DepthAround(b, x, y)
    BY <1>0, <2>1, SubDepth
  <2>4. /\ SideBand(u.side, u.price, x, y) => SatSub(depth, Taken(b, u)) = Depth(c, bb, ba)
        /\ ~SideBand(u.side, u.price, x, y) => depth = Depth(c, bb, ba)
    BY <2>2, <2>3
  <2>5. SideBand(u.side, u.price, x, y) => Cached(c, o, bb, ba, SatSub(depth, Taken(b, u)), TRUE, until)
    BY <1>0, <1>2, <2>4 DEF Cached
  <2>6. ~SideBand(u.side, u.price, x, y) => Cached(c, o, bb, ba, depth, TRUE, until)
    BY <1>0, <1>2, <2>4 DEF Cached
  <2> QED
    BY <1>4, <2>1, <2>5, <2>6 DEF x, y, Follows
<1> QED
  BY <1>3, <1>4

(* CrashAdd keeps the caches exact.                                        *)
LEMMA CrashAddIs ==
    ASSUME NEW d, CrashOK(d), NEW u \in Update, NEW n, n = CrashAdd(d, u)
    PROVE  CrashOK(n) /\ SameRefractory(d, n)
<1> DEFINE c == AddQty(d.book, u, CrashMaxLevels)
           nb == AddedBid(d.bb, u)
           na == AddedAsk(d.ba, u)
           stays == BestsStay(d.bb, d.ba, u) /\ SameCount(d.book, u, c)
           x == d.band_depth + u.qty
           base == [d EXCEPT !.book = c, !.bb = nb, !.ba = na]
           stale == [base EXCEPT !.band_depth_valid = FALSE]
           more == [base EXCEPT !.band_depth = x]
<1>0. u.side \in Sides
  BY UpdateFields
<1>1. CrashShape(d) /\ Cached(d.book, d.orders, d.bb, d.ba, d.band_depth, d.band_depth_valid, d.refractory_until)
  BY DEF CrashOK
<1>2. base = [d EXCEPT !.book = c, !.bb = nb, !.ba = na]
  OBVIOUS
<1>3. n = IF ~stays THEN stale
          ELSE IF d.band_depth_valid /\ InBandSameSide(base, u.side, u.price) THEN more ELSE base
  <2> DEFINE bidMoved == u.side = "Bid" /\ (~IsSome(d.bb) \/ u.price > d.bb[1])
             askMoved == u.side = "Ask" /\ (~IsSome(d.ba) \/ u.price < d.ba[1])
             pruned == Cardinality(DOMAIN d.book[u.side] \cup {u.price}) # Cardinality(DOMAIN c[u.side])
             b1 == IF bidMoved THEN Some(u.price) ELSE d.bb
             a1 == IF askMoved THEN Some(u.price) ELSE d.ba
             base1 == [d EXCEPT !.book = c, !.bb = b1, !.ba = a1]
  <2>1. b1 = nb
    BY DEF AddedBid, BidAfter
  <2>2. a1 = na
    BY DEF AddedAsk, AskAfter
  <2>3. stays <=> ~(bidMoved \/ askMoved \/ pruned)
    BY DEF BestsStay, SameCount
  <2>4. n = IF bidMoved \/ askMoved \/ pruned THEN [base1 EXCEPT !.band_depth_valid = FALSE]
            ELSE IF d.band_depth_valid /\ InBandSameSide(base1, u.side, u.price)
            THEN [base1 EXCEPT !.band_depth = base1.band_depth + u.qty]
            ELSE base1
    BY DEF CrashAdd
  <2> HIDE DEF c, nb, na, b1, a1, bidMoved, askMoved, pruned, stays
  <2>5. base1 = base
    BY <2>1, <2>2
  <2> HIDE DEF base1
  <2>6. base.band_depth = d.band_depth
    BY ONLY <1>1, <1>2 DEF CrashShape, CrashRecord
  <2> QED
    BY <2>3, <2>4, <2>5, <2>6
<1>4. Cached(c, d.orders, nb, na, d.band_depth, FALSE, d.refractory_until)
  BY <1>1, AddCached
<1>5. ASSUME stays PROVE nb = d.bb /\ na = d.ba
  BY <1>5 DEF BestsStay, AddedBid, AddedAsk, BidAfter, AskAfter
<1>6. d.band_depth_valid \in BOOLEAN
  BY <1>1 DEF Cached
<1>7. ASSUME stays, d.band_depth_valid = TRUE
      PROVE  /\ IsSome(d.bb) /\ IsSome(d.ba)
             /\ SideBand(u.side, u.price, d.bb[1], d.ba[1]) =>
                  Cached(c, d.orders, d.bb, d.ba, d.band_depth + u.qty, TRUE, d.refractory_until)
             /\ ~SideBand(u.side, u.price, d.bb[1], d.ba[1]) =>
                  Cached(c, d.orders, d.bb, d.ba, d.band_depth, TRUE, d.refractory_until)
  <2>1. Cached(d.book, d.orders, d.bb, d.ba, d.band_depth, TRUE, d.refractory_until)
    BY <1>1, <1>7
  <2> QED
    BY <1>7, <2>1, AddKept
<1> HIDE DEF c, nb, na, x, base
<1>8. /\ base.book = c /\ base.orders = d.orders /\ base.bb = nb /\ base.ba = na
      /\ base.band_depth = d.band_depth /\ base.band_depth_valid = d.band_depth_valid
      /\ base.refractory_until = d.refractory_until /\ base.flag = d.flag
  BY ONLY <1>1, <1>2 DEF CrashShape, CrashRecord
<1>9. CrashShape(base)
  BY ONLY <1>1, <1>2 DEF CrashShape, CrashRecord
<1>10. CASE n = stale
  <2>1. n = [base EXCEPT !.band_depth_valid = FALSE]
    BY <1>10
  <2>2. /\ n.book = c /\ n.orders = d.orders /\ n.bb = nb /\ n.ba = na
        /\ n.band_depth = d.band_depth /\ n.band_depth_valid = FALSE
        /\ n.refractory_until = d.refractory_until /\ n.flag = d.flag
    BY ONLY <1>8, <1>9, <2>1 DEF CrashShape, CrashRecord
  <2>3. CrashShape(n)
    BY ONLY <1>9, <2>1 DEF CrashShape, CrashRecord
  <2>4. Cached(n.book, n.orders, n.bb, n.ba, n.band_depth, n.band_depth_valid, n.refractory_until)
    BY ONLY <1>4, <2>2
  <2> QED
    BY <2>2, <2>3, <2>4 DEF CrashOK, SameRefractory
<1>11. CASE stays /\ d.band_depth_valid /\ InBandSameSide(base, u.side, u.price) /\ n = more
  <2>1. n = [base EXCEPT !.band_depth = x]
    BY <1>11
  <2>2. /\ n.book = c /\ n.orders = d.orders /\ n.bb = nb /\ n.ba = na
        /\ n.band_depth = x /\ n.band_depth_valid = d.band_depth_valid
        /\ n.refractory_until = d.refractory_until /\ n.flag = d.flag
    BY ONLY <1>8, <1>9, <2>1 DEF CrashShape, CrashRecord
  <2>3. CrashShape(n)
    BY ONLY <1>9, <2>1 DEF CrashShape, CrashRecord
  <2>4. d.band_depth_valid = TRUE
    BY <1>6, <1>11
  <2>5. SideBand(u.side, u.price, d.bb[1], d.ba[1])
    BY <1>0, <1>5, <1>8, <1>11 DEF InBandSameSide, SideBand, Sides
  <2>6. Cached(c, d.orders, d.bb, d.ba, x, TRUE, d.refractory_until)
    BY <1>7, <1>11, <2>4, <2>5 DEF x
  <2>7. nb = d.bb /\ na = d.ba
    BY <1>5, <1>11
  <2>8. Cached(n.book, n.orders, n.bb, n.ba, n.band_depth, n.band_depth_valid, n.refractory_until)
    BY ONLY <2>2, <2>4, <2>6, <2>7
  <2> QED
    BY <2>2, <2>3, <2>8 DEF CrashOK, SameRefractory
<1>12. CASE stays /\ ~(d.band_depth_valid /\ InBandSameSide(base, u.side, u.price)) /\ n = base
  <2>1. nb = d.bb /\ na = d.ba
    BY <1>5, <1>12
  <2>2. Cached(c, d.orders, nb, na, d.band_depth, d.band_depth_valid, d.refractory_until)
    <3>1. CASE d.band_depth_valid = TRUE
      <4>1. ~SideBand(u.side, u.price, d.bb[1], d.ba[1])
        BY <1>0, <1>7, <1>8, <1>12, <2>1, <3>1 DEF InBandSameSide, SideBand, Sides
      <4>2. Cached(c, d.orders, d.bb, d.ba, d.band_depth, TRUE, d.refractory_until)
        BY <1>7, <1>12, <3>1, <4>1
      <4> QED
        BY ONLY <2>1, <3>1, <4>2
    <3>2. CASE d.band_depth_valid = FALSE
      BY ONLY <1>4, <3>2
    <3> QED
      BY <1>6, <3>1, <3>2
  <2>3. n = base
    BY <1>12
  <2>4. Cached(n.book, n.orders, n.bb, n.ba, n.band_depth, n.band_depth_valid, n.refractory_until)
    BY ONLY <1>8, <2>2, <2>3
  <2> QED
    BY <1>8, <1>9, <2>3, <2>4 DEF CrashOK, SameRefractory
<1> QED
  BY <1>3, <1>10, <1>11, <1>12

(* CrashSub keeps the caches exact.                                        *)
LEMMA CrashSubIs ==
    ASSUME NEW d, CrashOK(d), NEW u \in Update, NEW n, n = CrashSub(d, u)
    PROVE  CrashOK(n) /\ SameRefractory(d, n)
<1> DEFINE c == SubQty(d.book, u)
           bidMoved == Emptied(d.book, u, c) /\ u.side = "Bid" /\ d.bb = Some(u.price)
           askMoved == Emptied(d.book, u, c) /\ u.side = "Ask" /\ d.ba = Some(u.price)
           nb == IF bidMoved THEN BestBid(c) ELSE d.bb
           na == IF askMoved THEN BestAsk(c) ELSE d.ba
           x == SatSub(d.band_depth, Taken(d.book, u))
           base == [d EXCEPT !.book = c, !.bb = nb, !.ba = na]
           stale == [base EXCEPT !.band_depth_valid = FALSE]
           less == [base EXCEPT !.band_depth = x]
<1>0. u.side \in Sides
  BY UpdateFields
<1>1. CrashShape(d) /\ Cached(d.book, d.orders, d.bb, d.ba, d.band_depth, d.band_depth_valid, d.refractory_until)
  BY DEF CrashOK
<1>2. base = [d EXCEPT !.book = c, !.bb = nb, !.ba = na]
  OBVIOUS
<1>3. n = IF bidMoved \/ askMoved THEN stale
          ELSE IF d.band_depth_valid /\ InBandSameSide(base, u.side, u.price) THEN less ELSE base
  <2>1. base.band_depth = d.band_depth
    <3> HIDE DEF c, nb, na, base
    <3> QED
      BY ONLY <1>1, <1>2 DEF CrashShape, CrashRecord
  <2>2. n = IF bidMoved \/ askMoved THEN stale
            ELSE IF d.band_depth_valid /\ InBandSameSide(base, u.side, u.price)
            THEN [base EXCEPT !.band_depth = SatSub(base.band_depth, Taken(d.book, u))]
            ELSE base
    BY DEF CrashSub, Emptied
  <2> HIDE DEF c, nb, na, base, bidMoved, askMoved
  <2> QED
    BY <2>1, <2>2
<1>4. Cached(c, d.orders, nb, na, d.band_depth, FALSE, d.refractory_until)
  <2>1. BookOK(c) /\ nb = BestBid(c) /\ na = BestAsk(c)
    BY <1>1, SubTops DEF Cached
  <2> HIDE DEF c, nb, na
  <2> QED
    BY <1>1, <2>1 DEF Cached
<1>5. ASSUME ~bidMoved, ~askMoved PROVE nb = d.bb /\ na = d.ba
  BY <1>5
<1>6. d.band_depth_valid \in BOOLEAN
  BY <1>1 DEF Cached
<1>7. ASSUME ~bidMoved, ~askMoved, d.band_depth_valid = TRUE
      PROVE  /\ ~IsSome(d.bb) => ~IsSome(d.ba) /\ Cached(c, d.orders, d.bb, d.ba, d.band_depth, TRUE, d.refractory_until)
             /\ IsSome(d.bb) =>
                  /\ IsSome(d.ba)
                  /\ SideBand(u.side, u.price, d.bb[1], d.ba[1]) =>
                       Cached(c, d.orders, d.bb, d.ba, x, TRUE, d.refractory_until)
                  /\ ~SideBand(u.side, u.price, d.bb[1], d.ba[1]) =>
                       Cached(c, d.orders, d.bb, d.ba, d.band_depth, TRUE, d.refractory_until)
  <2>1. Cached(d.book, d.orders, d.bb, d.ba, d.band_depth, TRUE, d.refractory_until)
    BY <1>1, <1>7
  <2>2. IsSome(d.bb) <=> IsSome(d.ba)
    BY <2>1 DEF Cached
  <2>3. c = SubQty(d.book, u)
    OBVIOUS
  <2> HIDE DEF c, x
  <2>4. BestsLeft(d.book, u, c, d.bb, d.ba)
    BY <1>7 DEF BestsLeft
  <2>5. Follows(d.book, d.orders, d.bb, d.ba, d.band_depth, d.refractory_until, u, c)
    BY ONLY u \in Update, <2>1, <2>3, <2>4, SubKept
  <2> QED
    BY ONLY <2>2, <2>5 DEF x, Follows
<1> HIDE DEF c, nb, na, x, base, bidMoved, askMoved
<1>8. /\ base.book = c /\ base.orders = d.orders /\ base.bb = nb /\ base.ba = na
      /\ base.band_depth = d.band_depth /\ base.band_depth_valid = d.band_depth_valid
      /\ base.refractory_until = d.refractory_until /\ base.flag = d.flag
  BY ONLY <1>1, <1>2 DEF CrashShape, CrashRecord
<1>9. CrashShape(base)
  BY ONLY <1>1, <1>2 DEF CrashShape, CrashRecord
<1>10. CASE n = stale
  <2>1. n = [base EXCEPT !.band_depth_valid = FALSE]
    BY <1>10
  <2>2. /\ n.book = c /\ n.orders = d.orders /\ n.bb = nb /\ n.ba = na
        /\ n.band_depth = d.band_depth /\ n.band_depth_valid = FALSE
        /\ n.refractory_until = d.refractory_until /\ n.flag = d.flag
    BY ONLY <1>8, <1>9, <2>1 DEF CrashShape, CrashRecord
  <2>3. CrashShape(n)
    BY ONLY <1>9, <2>1 DEF CrashShape, CrashRecord
  <2>4. Cached(n.book, n.orders, n.bb, n.ba, n.band_depth, n.band_depth_valid, n.refractory_until)
    BY ONLY <1>4, <2>2
  <2> QED
    BY <2>2, <2>3, <2>4 DEF CrashOK, SameRefractory
<1>11. CASE ~bidMoved /\ ~askMoved /\ d.band_depth_valid /\ InBandSameSide(base, u.side, u.price) /\ n = less
  <2>1. n = [base EXCEPT !.band_depth = x]
    BY <1>11
  <2>2. /\ n.book = c /\ n.orders = d.orders /\ n.bb = nb /\ n.ba = na
        /\ n.band_depth = x /\ n.band_depth_valid = d.band_depth_valid
        /\ n.refractory_until = d.refractory_until /\ n.flag = d.flag
    BY ONLY <1>8, <1>9, <2>1 DEF CrashShape, CrashRecord
  <2>3. CrashShape(n)
    BY ONLY <1>9, <2>1 DEF CrashShape, CrashRecord
  <2>4. d.band_depth_valid = TRUE /\ nb = d.bb /\ na = d.ba
    BY <1>5, <1>6, <1>11
  <2>5. SideBand(u.side, u.price, d.bb[1], d.ba[1]) /\ (IsSome(d.bb) \/ IsSome(d.ba))
    BY <1>0, <1>8, <1>11, <2>4 DEF InBandSameSide, SideBand, Sides
  <2>6. Cached(c, d.orders, d.bb, d.ba, x, TRUE, d.refractory_until)
    BY <1>7, <1>11, <2>4, <2>5
  <2>8. Cached(n.book, n.orders, n.bb, n.ba, n.band_depth, n.band_depth_valid, n.refractory_until)
    BY ONLY <2>2, <2>4, <2>6
  <2> QED
    BY <2>2, <2>3, <2>8 DEF CrashOK, SameRefractory
<1>12. CASE ~bidMoved /\ ~askMoved /\ ~(d.band_depth_valid /\ InBandSameSide(base, u.side, u.price)) /\ n = base
  <2>1. nb = d.bb /\ na = d.ba
    BY <1>5, <1>12
  <2>2. Cached(c, d.orders, nb, na, d.band_depth, d.band_depth_valid, d.refractory_until)
    <3>1. CASE d.band_depth_valid = TRUE
      <4>1. IsSome(d.bb) => ~SideBand(u.side, u.price, d.bb[1], d.ba[1])
        BY <1>0, <1>7, <1>8, <1>12, <2>1, <3>1 DEF InBandSameSide, SideBand, Sides
      <4>2. Cached(c, d.orders, d.bb, d.ba, d.band_depth, TRUE, d.refractory_until)
        BY <1>7, <1>12, <3>1, <4>1
      <4> QED
        BY ONLY <2>1, <3>1, <4>2
    <3>2. CASE d.band_depth_valid = FALSE
      BY ONLY <1>4, <3>2
    <3> QED
      BY <1>6, <3>1, <3>2
  <2>3. n = base
    BY <1>12
  <2>4. Cached(n.book, n.orders, n.bb, n.ba, n.band_depth, n.band_depth_valid, n.refractory_until)
    BY ONLY <1>8, <2>2, <2>3
  <2> QED
    BY <1>8, <1>9, <2>3, <2>4 DEF CrashOK, SameRefractory
<1> QED
  BY <1>3, <1>10, <1>11, <1>12

(* The snapshot refreshes the depth and changes no book.                   *)
LEMMA SnapBeforeIs ==
    ASSUME NEW d, CrashOK(d), NEW e, NEW n, n = SnapBefore(d, e)
    PROVE  CrashOK(n) /\ SameRefractory(d, n)
<1> DEFINE mid == Mid(d.bb, d.ba)
           r == RefreshBand(d)
           f == FreshBandDepth(d)
           fresh == [d EXCEPT !.band_depth = f, !.band_depth_valid = TRUE]
           s == PushSnap(r.snaps,
                [seq |-> e.seq, ts |-> e.ts, mid |-> mid[1], best_bid |-> d.bb[1],
                 best_ask |-> d.ba[1], depth_in_band |-> r.band_depth])
<1>1. CrashShape(d) /\ Cached(d.book, d.orders, d.bb, d.ba, d.band_depth, d.band_depth_valid, d.refractory_until)
  BY DEF CrashOK
<1>2. CASE n = d
  BY <1>2 DEF SameRefractory
<1>3. CASE IsSome(mid) /\ n = [r EXCEPT !.snaps = s]
  <2>1. IsSome(d.bb) /\ IsSome(d.ba)
    BY <1>3, SomeIs DEF Mid
  <2>2. r = d \/ r = fresh
    BY DEF RefreshBand
  <2>3. f = Depth(d.book, d.bb, d.ba)
    BY DEF FreshBandDepth, Depth
  <2>4. fresh = [d EXCEPT !.band_depth = f, !.band_depth_valid = TRUE]
    OBVIOUS
  <2>5. n = [r EXCEPT !.snaps = s]
    BY <1>3
  <2> HIDE DEF f, fresh, s, r
  <2>6. /\ fresh.book = d.book /\ fresh.orders = d.orders /\ fresh.bb = d.bb /\ fresh.ba = d.ba
        /\ fresh.band_depth = f /\ fresh.band_depth_valid = TRUE
        /\ fresh.refractory_until = d.refractory_until /\ fresh.flag = d.flag
    BY ONLY <1>1, <2>4 DEF CrashShape, CrashRecord
  <2>7. CrashShape(fresh)
    BY ONLY <1>1, <2>4 DEF CrashShape, CrashRecord
  <2>8. Cached(d.book, d.orders, d.bb, d.ba, f, TRUE, d.refractory_until)
    BY <1>1, <2>1, <2>3 DEF Cached
  <2>9. Cached(fresh.book, fresh.orders, fresh.bb, fresh.ba, fresh.band_depth, fresh.band_depth_valid,
               fresh.refractory_until)
    BY ONLY <2>6, <2>8
  <2>10. CrashOK(r) /\ SameRefractory(d, r)
    BY <2>2, <2>6, <2>7, <2>9 DEF CrashOK, SameRefractory
  <2>11. CrashShape(r) /\ Cached(r.book, r.orders, r.bb, r.ba, r.band_depth, r.band_depth_valid, r.refractory_until)
    BY <2>10 DEF CrashOK
  <2>12. /\ n.book = r.book /\ n.orders = r.orders /\ n.bb = r.bb /\ n.ba = r.ba
         /\ n.band_depth = r.band_depth /\ n.band_depth_valid = r.band_depth_valid
         /\ n.refractory_until = r.refractory_until /\ n.flag = r.flag
    BY ONLY <2>5, <2>11 DEF CrashShape, CrashRecord
  <2>13. CrashShape(n)
    BY ONLY <2>5, <2>11 DEF CrashShape, CrashRecord
  <2>14. Cached(n.book, n.orders, n.bb, n.ba, n.band_depth, n.band_depth_valid, n.refractory_until)
    BY ONLY <2>11, <2>12
  <2> QED
    BY <2>10, <2>12, <2>13, <2>14 DEF CrashOK, SameRefractory
<1> QED
  BY <1>2, <1>3 DEF SnapBefore

LEMMA CrashApplyIs ==
    ASSUME NEW d, CrashOK(d), NEW e, NEW m, IsEvent(e, m), NEW t, t = CrashApply(d, e)
    PROVE  CrashOK(t) /\ SameRefractory(d, t)
<1> DEFINE r == Resolve(d.orders, e)
           a == Aggressor(e, r.update)
           o == r.orders
           buy == IF a = Some("Buy") THEN d.buy_aggr + 1 ELSE d.buy_aggr
           sell == IF a = Some("Sell") THEN d.sell_aggr + 1 ELSE d.sell_aggr
           n == [d EXCEPT !.orders = o, !.buy_aggr = buy, !.sell_aggr = sell]
<1>1. CrashShape(d) /\ Cached(d.book, d.orders, d.bb, d.ba, d.band_depth, d.band_depth_valid, d.refractory_until)
  BY DEF CrashOK
<1>2. ResolvedOK(r)
  BY <1>1, ResolveIs DEF Cached
<1>3. OrdersOK(o) /\ UpdateOK(r.update)
  BY <1>2 DEF ResolvedOK
<1>4. t = IF ~IsSome(r.update) THEN n
          ELSE IF e.type = "OrderAdd" THEN CrashAdd(n, r.update[1]) ELSE CrashSub(n, r.update[1])
  BY DEF CrashApply
<1>5. n = [d EXCEPT !.orders = o, !.buy_aggr = buy, !.sell_aggr = sell]
  OBVIOUS
<1> HIDE DEF r, a, o, buy, sell, n
<1>6. /\ n.book = d.book /\ n.orders = o /\ n.bb = d.bb /\ n.ba = d.ba
      /\ n.band_depth = d.band_depth /\ n.band_depth_valid = d.band_depth_valid
      /\ n.refractory_until = d.refractory_until /\ n.flag = d.flag
  BY ONLY <1>1, <1>5 DEF CrashShape, CrashRecord
<1>7. CrashShape(n)
  BY ONLY <1>1, <1>5 DEF CrashShape, CrashRecord
<1>8. Cached(n.book, n.orders, n.bb, n.ba, n.band_depth, n.band_depth_valid, n.refractory_until)
  <2>1. Cached(d.book, o, d.bb, d.ba, d.band_depth, d.band_depth_valid, d.refractory_until)
    BY <1>1, <1>3 DEF Cached
  <2> QED
    BY ONLY <1>6, <2>1
<1>9. CrashOK(n) /\ SameRefractory(d, n)
  BY <1>6, <1>7, <1>8 DEF CrashOK, SameRefractory
<1>10. CASE ~IsSome(r.update)
  BY <1>4, <1>9, <1>10
<1>11. CASE IsSome(r.update)
  <2>1. r.update[1] \in Update
    BY <1>3, <1>11, SomeIs DEF UpdateOK
  <2>2. CrashOK(t) /\ SameRefractory(n, t)
    BY <1>4, <1>9, <1>11, <2>1, CrashAddIs, CrashSubIs
  <2> QED
    BY <1>9, <2>2 DEF SameRefractory
<1> QED
  BY <1>10, <1>11

LEMMA CrashDetectIs ==
    ASSUME NEW d, CrashOK(d), d.flag = None, NEW e, NEW m, IsEvent(e, m), NEW n, n = CrashDetect(d, e)
    PROVE  /\ CrashOK(n)
           /\ Armed(d.refractory_until, n.refractory_until, n.flag, "FlashCrash", CrashCooldown, m)
<1> DEFINE mid == Mid(d.bb, d.ba)
           hits == GapHits(d, e, mid[1])
           snap == d.snaps[Min(hits)]
           f == Some(ChaosFlag("FlashCrash", snap.seq, snap.ts, e, None))
           g == e.seq + CrashCooldown
           quiet == [d EXCEPT !.buy_aggr = 0, !.sell_aggr = 0]
           fired == [d EXCEPT !.flag = f, !.refractory_until = g,
                              !.buy_aggr = 0, !.sell_aggr = 0, !.snaps = <<>>]
<1>1. CrashShape(d) /\ Cached(d.book, d.orders, d.bb, d.ba, d.band_depth, d.band_depth_valid, d.refractory_until)
  BY DEF CrashOK
<1>2. n = d \/ n = quiet \/ (n = fired /\ ~InRefractory(d, e))
  BY DEF CrashDetect
<1>3. f = Some(f[1]) /\ f[1].kind = "FlashCrash" /\ f[1].end_seq = m
  BY EventFields DEF Some, ChaosFlag
<1> HIDE DEF f
<1>4. g \in Nat /\ g = m + CrashCooldown
  BY EventFields, CrashAssumption
<1> HIDE DEF g
<1>5. CASE n = d
  BY <1>5 DEF Armed
<1>6. CASE n = quiet
  <2>1. n = [d EXCEPT !.buy_aggr = 0, !.sell_aggr = 0]
    BY <1>6
  <2>2. /\ n.book = d.book /\ n.orders = d.orders /\ n.bb = d.bb /\ n.ba = d.ba
        /\ n.band_depth = d.band_depth /\ n.band_depth_valid = d.band_depth_valid
        /\ n.refractory_until = d.refractory_until /\ n.flag = d.flag
    BY ONLY <1>1, <2>1 DEF CrashShape, CrashRecord
  <2>3. CrashShape(n)
    BY ONLY <1>1, <2>1 DEF CrashShape, CrashRecord
  <2>4. Cached(n.book, n.orders, n.bb, n.ba, n.band_depth, n.band_depth_valid, n.refractory_until)
    BY ONLY <1>1, <2>2
  <2> QED
    BY <2>2, <2>3, <2>4 DEF CrashOK, Armed
<1>7. CASE n = fired /\ ~InRefractory(d, e)
  <2>1. n = [d EXCEPT !.flag = f, !.refractory_until = g, !.buy_aggr = 0, !.sell_aggr = 0, !.snaps = <<>>]
    BY <1>7
  <2>2. /\ n.book = d.book /\ n.orders = d.orders /\ n.bb = d.bb /\ n.ba = d.ba
        /\ n.band_depth = d.band_depth /\ n.band_depth_valid = d.band_depth_valid
        /\ n.refractory_until = g /\ n.flag = f
    BY ONLY <1>1, <2>1 DEF CrashShape, CrashRecord
  <2>3. CrashShape(n)
    BY ONLY <1>1, <2>1 DEF CrashShape, CrashRecord
  <2>4. Cached(n.book, n.orders, n.bb, n.ba, n.band_depth, n.band_depth_valid, n.refractory_until)
    <3>1. Cached(d.book, d.orders, d.bb, d.ba, d.band_depth, d.band_depth_valid, g)
      BY <1>1, <1>4 DEF Cached
    <3> QED
      BY ONLY <2>2, <3>1
  <2>5. d.refractory_until <= m
    BY <1>1, <1>7, EventFields DEF InRefractory, Cached
  <2> QED
    BY <1>3, <1>4, <2>2, <2>3, <2>4, <2>5 DEF CrashOK, Armed
<1> QED
  BY <1>2, <1>5, <1>6, <1>7

(* One event through the flash-crash detector.                             *)
LEMMA CrashProcessIs ==
    ASSUME CrashOK(crash), NEW e, NEW m, IsEvent(e, m), CrashProcess(e)
    PROVE  /\ CrashOK(crash')
           /\ Armed(crash.refractory_until, crash'.refractory_until, crash'.flag,
                    "FlashCrash", CrashCooldown, m)
<1> DEFINE d == [crash EXCEPT !.flag = None]
           s == SnapBefore(d, e)
           t == CrashApply(s, e)
<1>1. CrashShape(crash) /\ Cached(crash.book, crash.orders, crash.bb, crash.ba, crash.band_depth,
                                  crash.band_depth_valid, crash.refractory_until)
  BY DEF CrashOK
<1>2. crash' = IF e.type = "BookSnapshot" THEN s ELSE CrashDetect(t, e)
  BY DEF CrashProcess
<1>3. d = [crash EXCEPT !.flag = None]
  OBVIOUS
<1> HIDE DEF d
<1>4. /\ d.book = crash.book /\ d.orders = crash.orders /\ d.bb = crash.bb /\ d.ba = crash.ba
      /\ d.band_depth = crash.band_depth /\ d.band_depth_valid = crash.band_depth_valid
      /\ d.refractory_until = crash.refractory_until /\ d.flag = None
  BY ONLY <1>1, <1>3 DEF CrashShape, CrashRecord
<1>5. CrashShape(d)
  BY ONLY <1>1, <1>3 DEF CrashShape, CrashRecord
<1>6. Cached(d.book, d.orders, d.bb, d.ba, d.band_depth, d.band_depth_valid, d.refractory_until)
  BY ONLY <1>1, <1>4
<1>7. CrashOK(d)
  BY <1>5, <1>6 DEF CrashOK
<1>8. CrashOK(s) /\ SameRefractory(d, s)
  BY <1>7, SnapBeforeIs
<1> HIDE DEF s
<1>9. CrashOK(t) /\ SameRefractory(s, t)
  BY <1>8, CrashApplyIs
<1> HIDE DEF t
<1>10. s.flag = None /\ t.flag = None /\ s.refractory_until = crash.refractory_until
       /\ t.refractory_until = crash.refractory_until
  BY <1>4, <1>8, <1>9 DEF SameRefractory
<1>11. CASE crash' = s
  BY <1>8, <1>10, <1>11 DEF Armed
<1>12. CASE crash' = CrashDetect(t, e)
  BY <1>9, <1>10, <1>12, CrashDetectIs
<1> QED
  BY <1>2, <1>11, <1>12

LEMMA CrashInitIs ==
    ASSUME CrashInit
    PROVE  CrashOK(crash) /\ crash.refractory_until = 0
<1>1. crash = CrashRecord(EmptyBook, EmptyMap, None, None, 0, TRUE, <<>>, 0, 0, 0, None)
  BY DEF CrashInit, CrashRecord
<1>2. /\ crash.book = EmptyBook /\ crash.orders = EmptyMap /\ crash.bb = None /\ crash.ba = None
      /\ crash.band_depth = 0 /\ crash.band_depth_valid = TRUE /\ crash.refractory_until = 0
  BY ONLY <1>1 DEF CrashRecord
<1>3. CrashShape(crash)
  BY ONLY <1>1 DEF CrashShape, CrashRecord
<1>4. Cached(EmptyBook, EmptyMap, None, None, 0, TRUE, 0)
  <2>1. BestBid(EmptyBook) = None /\ BestAsk(EmptyBook) = None
    BY EmptyBookIs DEF BestBid, BestAsk
  <2>2. Depth(EmptyBook, None, None) = 0
    BY SomeIs DEF Depth
  <2> QED
    BY <2>1, <2>2, EmptyBookIs, EmptyOrders DEF Cached
<1>5. Cached(crash.book, crash.orders, crash.bb, crash.ba, crash.band_depth, crash.band_depth_valid,
             crash.refractory_until)
  BY ONLY <1>2, <1>4
<1> QED
  BY <1>2, <1>3, <1>5 DEF CrashOK

-----------------------------------------------------------------------------
(* Quote stuffing.                                                         *)

QuoteOK(d) == d = [window |-> d.window, flag |-> d.flag]

(* One event through the quote-stuffing detector.                          *)
LEMMA QuoteProcessIs ==
    ASSUME QuoteOK(quote), NEW e, NEW m, IsEvent(e, m), QuoteProcess(e)
    PROVE  QuoteOK(quote') /\ Returned(quote'.flag, "QuoteStuff", m)
<1> DEFINE old == IF Len(quote.window) >= QuoteWindow THEN Tail(quote.window) ELSE quote.window
           window == Append(old, [seq |-> e.seq, ts |-> e.ts, type |-> e.type])
           trades == OfType(window, "Trade")
           stuffed == /\ OfType(window, "OrderCancel") >= QuoteRatio * (IF trades = 0 THEN 1 ELSE trades)
                      /\ Len(window) >= QuoteWindow \div 2
           f == Some(ChaosFlag("QuoteStuff", window[1].seq, window[1].ts, e, None))
           g == IF stuffed THEN f ELSE None
<1>1. quote' = IF e.type \notin {"OrderAdd", "OrderCancel", "Trade"} THEN [quote EXCEPT !.flag = None]
               ELSE [window |-> window, flag |-> g]
  BY DEF QuoteProcess
<1>2. f = Some(f[1]) /\ f[1].kind = "QuoteStuff" /\ f[1].end_seq = m
  BY EventFields DEF Some, ChaosFlag
<1> HIDE DEF f, window, stuffed
<1>3. Returned(g, "QuoteStuff", m) /\ Returned(None, "QuoteStuff", m)
  BY <1>2 DEF Returned
<1> HIDE DEF g
<1>4. CASE quote' = [quote EXCEPT !.flag = None]
  <2>1. quote' = [window |-> quote.window, flag |-> None]
    BY <1>4 DEF QuoteOK
  <2> QED
    BY <1>3, <2>1 DEF QuoteOK
<1>5. CASE quote' = [window |-> window, flag |-> g]
  BY <1>3, <1>5 DEF QuoteOK
<1> QED
  BY <1>1, <1>4, <1>5

-----------------------------------------------------------------------------
(* The log of flags.                                                       *)

IsSequence(s) == Len(s) \in Nat /\ s = [i \in 1..Len(s) |-> s[i]]

EntriesOf(s) == {s[i] : i \in 1..Len(s)}

LEMMA SequenceIs ==
    ASSUME NEW s, IsSequence(s), NEW X, EntriesOf(s) \subseteq X
    PROVE  s \in Seq(X)
<1>1. \A i \in 1..Len(s) : s[i] \in X
  BY DEF EntriesOf
<1> QED
  BY <1>1 DEF IsSequence

LEMMA TypedIsSequence ==
    ASSUME NEW X, NEW s \in Seq(X)
    PROVE  IsSequence(s)
BY DEF IsSequence

(* What concatenation does to sequences.                                   *)
LEMMA Joined ==
    ASSUME NEW s, NEW t, IsSequence(s), IsSequence(t)
    PROVE  /\ IsSequence(s \o t) /\ Len(s \o t) = Len(s) + Len(t)
           /\ \A i \in 1..Len(s \o t) : (s \o t)[i] = IF i <= Len(s) THEN s[i] ELSE t[i - Len(s)]
<1> DEFINE X == EntriesOf(s) \cup EntriesOf(t)
           r == s \o t
<1>1. s \in Seq(X) /\ t \in Seq(X)
  BY SequenceIs
<1> HIDE DEF X
<1>2. /\ r \in Seq(X) /\ Len(r) = Len(s) + Len(t)
      /\ \A i \in 1..Len(r) : r[i] = IF i <= Len(s) THEN s[i] ELSE t[i - Len(s)]
  BY <1>1, ConcatProperties
<1> QED
  BY <1>2, TypedIsSequence

LEMMA SomeSequence ==
    ASSUME NEW x
    PROVE  IsSequence(Some(x)) /\ Len(Some(x)) = 1
<1>1. <<x>> \in Seq({x}) /\ Len(<<x>>) = 1
  OBVIOUS
<1>2. IsSequence(<<x>>)
  BY <1>1, TypedIsSequence
<1> QED
  BY <1>1, <1>2 DEF Some

(* The flags that the detectors Fs raised on one event, at most one each,  *)
(* no two of a kind.                                                       *)
Batch(s, Fs) ==
    /\ IsSequence(s)
    /\ \A i \in 1..Len(s) : \E f \in Fs : f # None /\ s[i] = f[1]
    /\ \A i, j \in 1..Len(s) : i # j => s[i].kind # s[j].kind

OtherKind(Fs, g) == \A f \in Fs : (f # None /\ g # None) => f[1].kind # g[1].kind

(* One more detector adds at most one flag, of a kind of its own.          *)
LEMMA BatchMore ==
    ASSUME NEW s, NEW Fs, Batch(s, Fs), NEW g, g = None \/ g = Some(g[1]), OtherKind(Fs, g)
    PROVE  Batch(s \o g, Fs \cup {g})
<1> DEFINE r == s \o g
<1>0. IsSequence(s) /\ Len(s) \in Nat
  BY DEF Batch, IsSequence
<1>1. CASE g = None
  <2>1. IsSequence(g) /\ Len(g) = 0
    BY <1>1 DEF None, IsSequence
  <2>2. IsSequence(r) /\ Len(r) = Len(s) /\ \A i \in 1..Len(r) : r[i] = s[i]
    BY <1>0, <2>1, Joined
  <2> HIDE DEF r
  <2>3. Batch(r, Fs \cup {g})
    BY <2>2 DEF Batch
  <2> QED
    BY <2>3 DEF r
<1>2. CASE g # None
  <2>1. IsSequence(g) /\ Len(g) = 1
    <3>1. g = Some(g[1])
      BY <1>2
    <3>2. IsSequence(Some(g[1])) /\ Len(Some(g[1])) = 1
      BY SomeSequence
    <3> QED
      BY ONLY <3>1, <3>2
  <2>2. /\ IsSequence(r) /\ Len(r) = Len(s) + 1
        /\ \A i \in 1..Len(r) : r[i] = IF i <= Len(s) THEN s[i] ELSE g[i - Len(s)]
    BY <1>0, <2>1, Joined
  <2> HIDE DEF r
  <2>3. \A i \in 1..Len(r) : (i \in 1..Len(s) /\ r[i] = s[i]) \/ (i = Len(s) + 1 /\ r[i] = g[1])
    BY <1>0, <2>2
  <2>4. \A i \in 1..Len(r) : \E f \in Fs \cup {g} : f # None /\ r[i] = f[1]
    BY <1>2, <2>3 DEF Batch
  <2>5. \A i \in 1..Len(s) : s[i].kind # g[1].kind
    BY <1>2 DEF Batch, OtherKind
  <2>6. ASSUME NEW i \in 1..Len(r), NEW j \in 1..Len(r), i # j PROVE r[i].kind # r[j].kind
    BY <2>3, <2>5, <2>6 DEF Batch
  <2>7. Batch(r, Fs \cup {g})
    BY <2>2, <2>4, <2>6 DEF Batch
  <2> QED
    BY <2>7 DEF r
<1> QED
  BY <1>1, <1>2

LEMMA ReturnedShape ==
    ASSUME NEW g, NEW k, NEW m, Returned(g, k, m)
    PROVE  g = None \/ g = Some(g[1])
BY DEF Returned

(* The flags of one event: at most one of each kind.                       *)
LEMMA BatchIs ==
    ASSUME NEW m, NEW f1, NEW f2, NEW f3, NEW f4, NEW f5, NEW f6, NEW f7,
           Returned(f1, "QuoteStuff", m), Returned(f2, "Spoof", m), Returned(f3, "PhantomLiquidity", m),
           Returned(f4, "CancellationStorm", m), Returned(f5, "MomentumIgnition", m),
           Returned(f6, "FlashCrash", m), Returned(f7, "LatencyArbitrage", m)
    PROVE  Batch(f1 \o f2 \o f3 \o f4 \o f5 \o f6 \o f7, {f1, f2, f3, f4, f5, f6, f7})
<1>0. /\ f1 = None \/ f1 = Some(f1[1])
      /\ f2 = None \/ f2 = Some(f2[1])
      /\ f3 = None \/ f3 = Some(f3[1])
      /\ f4 = None \/ f4 = Some(f4[1])
      /\ f5 = None \/ f5 = Some(f5[1])
      /\ f6 = None \/ f6 = Some(f6[1])
      /\ f7 = None \/ f7 = Some(f7[1])
  BY ReturnedShape
<1>1. Batch(f1, {f1})
  <2>1. CASE f1 = None
    BY <2>1 DEF Batch, None, IsSequence
  <2>2. CASE f1 # None
    <3>1. f1 = Some(f1[1])
      BY <1>0, <2>2
    <3>2. IsSequence(Some(f1[1])) /\ Len(Some(f1[1])) = 1
      BY SomeSequence
    <3>3. IsSequence(f1) /\ Len(f1) = 1
      BY ONLY <3>1, <3>2
    <3> QED
      BY <2>2, <3>3 DEF Batch
  <2> QED
    BY <2>1, <2>2
<1>2. /\ OtherKind({f1}, f2) /\ OtherKind({f1, f2}, f3) /\ OtherKind({f1, f2, f3}, f4)
      /\ OtherKind({f1, f2, f3, f4}, f5) /\ OtherKind({f1, f2, f3, f4, f5}, f6)
      /\ OtherKind({f1, f2, f3, f4, f5, f6}, f7)
  BY DEF OtherKind, Returned
<1>3. Batch(f1 \o f2, {f1} \cup {f2})
  BY <1>0, <1>1, <1>2, BatchMore
<1>4. Batch(f1 \o f2 \o f3, {f1, f2} \cup {f3})
  <2>1. {f1} \cup {f2} = {f1, f2}
    OBVIOUS
  <2>2. Batch(f1 \o f2, {f1, f2})
    BY ONLY <1>3, <2>1
  <2> QED
    BY <1>0, <1>2, <2>2, BatchMore
<1>5. Batch(f1 \o f2 \o f3 \o f4, {f1, f2, f3} \cup {f4})
  <2>1. {f1, f2} \cup {f3} = {f1, f2, f3}
    OBVIOUS
  <2>2. Batch(f1 \o f2 \o f3, {f1, f2, f3})
    BY ONLY <1>4, <2>1
  <2> QED
    BY <1>0, <1>2, <2>2, BatchMore
<1>6. Batch(f1 \o f2 \o f3 \o f4 \o f5, {f1, f2, f3, f4} \cup {f5})
  <2>1. {f1, f2, f3} \cup {f4} = {f1, f2, f3, f4}
    OBVIOUS
  <2>2. Batch(f1 \o f2 \o f3 \o f4, {f1, f2, f3, f4})
    BY ONLY <1>5, <2>1
  <2> QED
    BY <1>0, <1>2, <2>2, BatchMore
<1>7. Batch(f1 \o f2 \o f3 \o f4 \o f5 \o f6, {f1, f2, f3, f4, f5} \cup {f6})
  <2>1. {f1, f2, f3, f4} \cup {f5} = {f1, f2, f3, f4, f5}
    OBVIOUS
  <2>2. Batch(f1 \o f2 \o f3 \o f4 \o f5, {f1, f2, f3, f4, f5})
    BY ONLY <1>6, <2>1
  <2> QED
    BY <1>0, <1>2, <2>2, BatchMore
<1>8. Batch(f1 \o f2 \o f3 \o f4 \o f5 \o f6 \o f7, {f1, f2, f3, f4, f5, f6} \cup {f7})
  <2>1. {f1, f2, f3, f4, f5} \cup {f6} = {f1, f2, f3, f4, f5, f6}
    OBVIOUS
  <2>2. Batch(f1 \o f2 \o f3 \o f4 \o f5 \o f6, {f1, f2, f3, f4, f5, f6})
    BY ONLY <1>7, <2>1
  <2> QED
    BY <1>0, <1>2, <2>2, BatchMore
<1>9. {f1, f2, f3, f4, f5, f6} \cup {f7} = {f1, f2, f3, f4, f5, f6, f7}
  OBVIOUS
<1> QED
  BY ONLY <1>8, <1>9

(* How long each kind stays quiet after a flag.                            *)
Cooldown(k) ==
    CASE k = "MomentumIgnition" -> IgnCooldown
      [] k = "FlashCrash" -> CrashCooldown
      [] k = "CancellationStorm" -> StormCooldown
      [] OTHER -> 0

(* Until when it does: for a kind without a refractory, the last event n.  *)
Until(k, i, c, s, n) ==
    CASE k = "MomentumIgnition" -> i
      [] k = "FlashCrash" -> c
      [] k = "CancellationStorm" -> s
      [] OTHER -> n

(* Every flag of the log has armed its kind, and two of a kind are spaced. *)
LogOK(l, i, c, s, n) ==
    /\ IsSequence(l)
    /\ \A x \in 1..Len(l) :
          /\ l[x].kind \in Kinds /\ l[x].end_seq \in Nat
          /\ l[x].end_seq + Cooldown(l[x].kind) <= Until(l[x].kind, i, c, s, n)
    /\ \A x, y \in 1..Len(l) :
          (x < y /\ l[x].kind = l[y].kind) => l[x].end_seq + Cooldown(l[x].kind) <= l[y].end_seq

(* The prints that were flagged are different, and not pending any more.   *)
PrintsLogged(l, n, S) ==
    /\ \A x \in 1..Len(l) :
          l[x].kind = "LatencyArbitrage" => l[x].start_seq \in Nat /\ l[x].start_seq <= n /\ l[x].start_seq \notin S
    /\ \A x, y \in 1..Len(l) :
          (x # y /\ l[x].kind = "LatencyArbitrage" /\ l[y].kind = "LatencyArbitrage") =>
              l[x].start_seq # l[y].start_seq

(* A flag of event m that respects the refractory of its kind.             *)
Spaced(f, i, c, s, j, d, t, n, m) ==
    f # None =>
        /\ f[1].kind \in Kinds /\ f[1].end_seq = m
        /\ Until(f[1].kind, i, c, s, n) <= m
        /\ m + Cooldown(f[1].kind) <= Until(f[1].kind, j, d, t, m)

LEMMA CooldownType == ASSUME NEW k PROVE Cooldown(k) \in Nat
BY IgnAssumption, CrashAssumption, StormAssumption DEF Cooldown

(* A batch of flags keeps the log spaced.                                  *)
LEMMA LogStep ==
    ASSUME NEW l, NEW out, NEW Fs, Batch(out, Fs), NEW n \in Nat, NEW m, m = n + 1,
           NEW i \in Nat, NEW c \in Nat, NEW s \in Nat, NEW j \in Nat, NEW d \in Nat, NEW t \in Nat,
           i <= j, c <= d, s <= t, LogOK(l, i, c, s, n),
           \A f \in Fs : Spaced(f, i, c, s, j, d, t, n, m)
    PROVE  LogOK(l \o out, j, d, t, m)
<1> DEFINE r == l \o out
           L == Len(l)
           old(k) == Until(k, i, c, s, n)
           new(k) == Until(k, j, d, t, m)
<1>0. IsSequence(l) /\ IsSequence(out) /\ L \in Nat /\ Len(out) \in Nat /\ m \in Nat
  BY DEF LogOK, Batch, IsSequence
<1>1. \A k : old(k) \in Nat /\ new(k) \in Nat /\ old(k) <= new(k) /\ Cooldown(k) \in Nat
  BY <1>0, CooldownType DEF Until
<1>2. /\ IsSequence(r) /\ Len(r) = L + Len(out)
      /\ \A x \in 1..Len(r) : r[x] = IF x <= L THEN l[x] ELSE out[x - L]
  BY <1>0, Joined
<1>3. \A x \in 1..Len(out) : /\ out[x].kind \in Kinds /\ out[x].end_seq = m /\ old(out[x].kind) <= m
                             /\ m + Cooldown(out[x].kind) <= new(out[x].kind)
  BY DEF Batch, Spaced
<1>4. \A x \in 1..L : /\ l[x].kind \in Kinds /\ l[x].end_seq \in Nat
                      /\ l[x].end_seq + Cooldown(l[x].kind) <= old(l[x].kind)
  BY DEF LogOK
<1> HIDE DEF r, L, old, new
<1>5. \A x \in 1..Len(r) : (x \in 1..L /\ r[x] = l[x]) \/ (x - L \in 1..Len(out) /\ r[x] = out[x - L] /\ x > L)
  BY <1>0, <1>2
<1>6. ASSUME NEW x \in 1..Len(r)
      PROVE  /\ r[x].kind \in Kinds /\ r[x].end_seq \in Nat
             /\ r[x].end_seq + Cooldown(r[x].kind) <= new(r[x].kind)
  <2>1. CASE x \in 1..L /\ r[x] = l[x]
    <3> DEFINE k == l[x].kind
               e == l[x].end_seq
    <3>1. k \in Kinds /\ e \in Nat /\ e + Cooldown(k) <= old(k)
      BY <1>4, <2>1
    <3> HIDE DEF k, e
    <3>2. e + Cooldown(k) <= new(k)
      BY <1>1, <3>1
    <3> QED
      BY <2>1, <3>1, <3>2 DEF k, e
  <2>2. CASE x - L \in 1..Len(out) /\ r[x] = out[x - L]
    BY <1>0, <1>3, <2>2
  <2> QED
    BY <1>5, <2>1, <2>2
<1>7. ASSUME NEW x \in 1..Len(r), NEW y \in 1..Len(r), x < y, r[x].kind = r[y].kind
      PROVE  r[x].end_seq + Cooldown(r[x].kind) <= r[y].end_seq
  <2>1. CASE y \in 1..L /\ r[y] = l[y]
    <3>1. x \in 1..L /\ r[x] = l[x]
      BY <1>0, <1>2, <1>5, <1>7, <2>1
    <3> QED
      BY <1>7, <2>1, <3>1 DEF LogOK, L
  <2>2. CASE y - L \in 1..Len(out) /\ r[y] = out[y - L] /\ y > L
    <3>1. CASE x \in 1..L /\ r[x] = l[x]
      <4> DEFINE k == l[x].kind
                 e == l[x].end_seq
      <4>1. e \in Nat /\ e + Cooldown(k) <= old(k)
        BY <1>4, <3>1
      <4>2. r[y].end_seq = m /\ old(k) <= m
        BY <1>3, <1>7, <2>2, <3>1
      <4> HIDE DEF k, e
      <4>3. e + Cooldown(k) <= m
        BY <1>0, <1>1, <4>1, <4>2
      <4> QED
        BY <3>1, <4>2, <4>3 DEF k, e
    <3>2. CASE x - L \in 1..Len(out) /\ r[x] = out[x - L]
      <4>1. x - L # y - L
        BY <1>0, <1>7
      <4>2. out[x - L].kind # out[y - L].kind
        BY <2>2, <3>2, <4>1 DEF Batch
      <4> QED
        BY <1>7, <2>2, <3>2, <4>2
    <3> QED
      BY <1>5, <3>1, <3>2
  <2> QED
    BY <1>5, <2>1, <2>2
<1>8. LogOK(r, j, d, t, m)
  BY <1>2, <1>6, <1>7 DEF LogOK, new
<1> QED
  BY <1>8 DEF r

(* A flag of event m about a print that was pending before it, or is new.  *)
FreshPrint(f, old, new, m) ==
    (f # None /\ f[1].kind = "LatencyArbitrage") => f[1].start_seq \in (old \cup {m}) \ new

(* A batch of flags keeps the reported prints distinct.                    *)
LEMMA PrintsStep ==
    ASSUME NEW l, IsSequence(l), NEW out, NEW Fs, Batch(out, Fs), NEW n \in Nat, NEW m, m = n + 1,
           NEW S, NEW T, S \subseteq Nat, \A x \in S : x <= n, T \subseteq S \cup {m}, PrintsLogged(l, n, S),
           \A f \in Fs : FreshPrint(f, S, T, m)
    PROVE  PrintsLogged(l \o out, m, T)
<1> DEFINE r == l \o out
           L == Len(l)
           print(x) == x.kind = "LatencyArbitrage"
<1>0. IsSequence(out) /\ L \in Nat /\ Len(out) \in Nat /\ m \in Nat
  BY DEF Batch, IsSequence
<1>2. Len(r) = L + Len(out) /\ \A x \in 1..Len(r) : r[x] = IF x <= L THEN l[x] ELSE out[x - L]
  BY <1>0, Joined
<1>3. \A x \in 1..Len(out) : print(out[x]) => out[x].start_seq \in S \cup {m} /\ out[x].start_seq \notin T
  BY DEF Batch, FreshPrint
<1>4. \A x \in 1..L : print(l[x]) => l[x].start_seq \in Nat /\ l[x].start_seq <= n /\ l[x].start_seq \notin S
  BY DEF PrintsLogged
<1> HIDE DEF r, L
<1>5. \A x \in 1..Len(r) : (x \in 1..L /\ r[x] = l[x]) \/ (x - L \in 1..Len(out) /\ r[x] = out[x - L])
  BY <1>0, <1>2
<1>6. \A x \in 1..L : print(l[x]) => l[x].start_seq \notin S \cup {m} /\ l[x].start_seq <= m
  BY <1>4
<1>7. \A x \in S \cup {m} : x \in Nat /\ x <= m
  BY <1>0
<1>8. ASSUME NEW x \in 1..Len(r), print(r[x])
      PROVE  r[x].start_seq \in Nat /\ r[x].start_seq <= m /\ r[x].start_seq \notin T
  <2>1. CASE x \in 1..L /\ r[x] = l[x]
    BY <1>4, <1>6, <1>8, <2>1
  <2>2. CASE x - L \in 1..Len(out) /\ r[x] = out[x - L]
    BY <1>3, <1>7, <1>8, <2>2
  <2> QED
    BY <1>5, <2>1, <2>2
<1>9. ASSUME NEW x \in 1..Len(r), NEW y \in 1..Len(r), x # y, print(r[x]), print(r[y])
      PROVE  r[x].start_seq # r[y].start_seq
  <2>1. CASE x \in 1..L /\ r[x] = l[x] /\ y \in 1..L /\ r[y] = l[y]
    BY <1>9, <2>1 DEF PrintsLogged, L
  <2>2. CASE x \in 1..L /\ r[x] = l[x] /\ y - L \in 1..Len(out) /\ r[y] = out[y - L]
    BY <1>3, <1>6, <1>9, <2>2
  <2>3. CASE y \in 1..L /\ r[y] = l[y] /\ x - L \in 1..Len(out) /\ r[x] = out[x - L]
    BY <1>3, <1>6, <1>9, <2>3
  <2>4. CASE x - L \in 1..Len(out) /\ r[x] = out[x - L] /\ y - L \in 1..Len(out) /\ r[y] = out[y - L]
    <3>1. x - L # y - L
      BY <1>0, <1>9
    <3>2. out[x - L].kind # out[y - L].kind
      BY <2>4, <3>1 DEF Batch
    <3> QED
      BY <1>9, <2>4, <3>2
  <2> QED
    BY <1>5, <2>1, <2>2, <2>3, <2>4
<1>10. PrintsLogged(r, m, T)
  BY <1>8, <1>9 DEF PrintsLogged
<1> QED
  BY <1>10 DEF r

(* A print at p is not in the cooldown that follows a flag at e.           *)
Outside(p, e) == p <= e \/ p >= e + ArbCooldown

(* Every flag about a print has armed the refractory u, which the pending  *)
(* prints S and the later flags respect.                                   *)
QuietLog(l, S, u) ==
    /\ \A x \in 1..Len(l) :
          l[x].kind = "LatencyArbitrage" =>
              /\ l[x].end_seq + ArbCooldown <= u
              /\ \A p \in S : Outside(p, l[x].end_seq)
    /\ \A x, y \in 1..Len(l) :
          (x < y /\ l[x].kind = "LatencyArbitrage" /\ l[y].kind = "LatencyArbitrage") =>
              Outside(l[y].start_seq, l[x].end_seq)

(* The flags Fs of event m, of which flag is the proxy's.                  *)
QuietFlags(Fs, flag, S, T, m) ==
    \A f \in Fs :
        /\ FreshPrint(f, S, T, m)
        /\ f # None => f[1].end_seq = m /\ (f[1].kind = "LatencyArbitrage" => f = flag)

(* The flags about prints came no later than event n.                      *)
PrintsBefore(l, n) ==
    \A x \in 1..Len(l) : l[x].kind = "LatencyArbitrage" => l[x].end_seq \in Nat /\ l[x].end_seq <= n

(* A batch of flags keeps the prints out of the refractory.                *)
LEMMA QuietStep ==
    ASSUME NEW l, IsSequence(l), NEW out, NEW Fs, Batch(out, Fs), NEW n \in Nat, NEW m, m = n + 1,
           NEW S, NEW T, S \subseteq Nat, \A x \in S : x <= n, T \subseteq S \cup {m},
           NEW u, NEW v, NEW flag, Quiet(u, v, flag, S, T, m), QuietLog(l, S, u),
           PrintsBefore(l, n), QuietFlags(Fs, flag, S, T, m)
    PROVE  QuietLog(l \o out, T, v)
<1> DEFINE r == l \o out
           L == Len(l)
           print(x) == x.kind = "LatencyArbitrage"
<1>a. /\ \A x \in 1..Len(l) : l[x].kind = "LatencyArbitrage" => l[x].end_seq \in Nat /\ l[x].end_seq <= n
      /\ \A f \in Fs : FreshPrint(f, S, T, m)
      /\ \A f \in Fs : f # None => f[1].end_seq = m /\ (f[1].kind = "LatencyArbitrage" => f = flag)
  BY DEF PrintsBefore, QuietFlags
<1>0. IsSequence(out) /\ L \in Nat /\ Len(out) \in Nat /\ m \in Nat /\ ArbCooldown \in Nat
  BY ArbAssumption DEF Batch, IsSequence
<1>2. Len(r) = L + Len(out) /\ \A x \in 1..Len(r) : r[x] = IF x <= L THEN l[x] ELSE out[x - L]
  BY <1>0, Joined
<1>3. \A x \in 1..Len(out) : print(out[x]) =>
          /\ out[x].start_seq \in S \cup {m} /\ out[x].end_seq = m
          /\ flag # None /\ flag[1].start_seq = out[x].start_seq
  BY <1>a DEF Batch, FreshPrint
<1>4. \A x \in 1..L : print(l[x]) => l[x].end_seq \in Nat /\ l[x].end_seq <= n /\ l[x].end_seq + ArbCooldown <= u
  BY <1>a DEF QuietLog
<1>5. \A x \in 1..Len(out) : ~print(out[x]) \/ v = m + ArbCooldown
  BY <1>3 DEF Quiet
<1>6. u \in Nat /\ v \in Nat /\ (v = u \/ v = m + ArbCooldown)
  BY DEF Quiet
<1>7. \A p \in T : \A x \in 1..L : print(l[x]) => Outside(p, l[x].end_seq)
  <2> SUFFICES ASSUME NEW p \in T, NEW x \in 1..L, print(l[x]) PROVE Outside(p, l[x].end_seq)
    OBVIOUS
  <2>1. CASE p \in S
    BY <2>1 DEF QuietLog
  <2>2. CASE p = m
    <3> DEFINE e == l[x].end_seq
    <3>1. u <= m /\ e \in Nat /\ e + ArbCooldown <= u
      BY <1>4, <2>2 DEF Quiet
    <3> HIDE DEF e
    <3>2. m >= e + ArbCooldown
      BY <1>0, <1>6, <3>1
    <3> QED BY <2>2, <3>2 DEF Outside, e
  <2> QED BY <2>1, <2>2
<1>8. \A y \in 1..Len(out) : \A x \in 1..L : print(out[y]) /\ print(l[x]) => Outside(out[y].start_seq, l[x].end_seq)
  <2> SUFFICES ASSUME NEW y \in 1..Len(out), NEW x \in 1..L, print(out[y]), print(l[x])
               PROVE  Outside(out[y].start_seq, l[x].end_seq)
    OBVIOUS
  <2>1. CASE out[y].start_seq \in S
    BY <2>1 DEF QuietLog
  <2>2. CASE out[y].start_seq = m
    <3> DEFINE e == l[x].end_seq
    <3>1. u <= m /\ e \in Nat /\ e + ArbCooldown <= u
      BY <1>3, <1>4, <2>2 DEF Quiet
    <3> HIDE DEF e
    <3>2. m >= e + ArbCooldown
      BY <1>0, <1>6, <3>1
    <3> QED BY <2>2, <3>2 DEF Outside, e
  <2> QED BY <1>3, <2>1, <2>2
<1> HIDE DEF r, L
<1>9. \A x \in 1..Len(r) : (x \in 1..L /\ r[x] = l[x]) \/ (x - L \in 1..Len(out) /\ r[x] = out[x - L] /\ x > L)
  BY <1>0, <1>2
<1>10. ASSUME NEW x \in 1..Len(r), print(r[x])
       PROVE  r[x].end_seq + ArbCooldown <= v /\ \A p \in T : Outside(p, r[x].end_seq)
  <2>1. CASE x \in 1..L /\ r[x] = l[x]
    <3> DEFINE e == l[x].end_seq
    <3>1. e \in Nat /\ e <= n /\ e + ArbCooldown <= u
      BY <1>4, <1>10, <2>1
    <3> HIDE DEF e
    <3>2. e + ArbCooldown <= v
      BY <1>0, <1>6, <3>1
    <3> QED BY <1>7, <1>10, <2>1, <3>2 DEF e
  <2>2. CASE x - L \in 1..Len(out) /\ r[x] = out[x - L]
    <3>1. r[x].end_seq = m /\ v = m + ArbCooldown
      BY <1>3, <1>5, <1>10, <2>2
    <3>2. \A p \in T : p <= m
      BY <1>0
    <3> QED BY <1>0, <1>6, <3>1, <3>2 DEF Outside
  <2> QED BY <1>9, <2>1, <2>2
<1>11. ASSUME NEW x \in 1..Len(r), NEW y \in 1..Len(r), x < y, print(r[x]), print(r[y])
       PROVE  Outside(r[y].start_seq, r[x].end_seq)
  <2>1. CASE y \in 1..L /\ r[y] = l[y]
    <3>1. x \in 1..L /\ r[x] = l[x]
      BY <1>0, <1>2, <1>9, <1>11, <2>1
    <3> QED BY <1>11, <2>1, <3>1 DEF QuietLog, L
  <2>2. CASE y - L \in 1..Len(out) /\ r[y] = out[y - L]
    <3>1. CASE x \in 1..L /\ r[x] = l[x]
      BY <1>8, <1>11, <2>2, <3>1
    <3>2. CASE x - L \in 1..Len(out) /\ r[x] = out[x - L]
      <4>1. x - L # y - L
        BY <1>0, <1>11
      <4>2. out[x - L].kind # out[y - L].kind
        BY <2>2, <3>2, <4>1 DEF Batch
      <4> QED BY <1>11, <2>2, <3>2, <4>2
    <3> QED BY <1>9, <3>1, <3>2
  <2> QED BY <1>9, <2>1, <2>2
<1>12. QuietLog(r, T, v)
  BY <1>10, <1>11 DEF QuietLog
<1> QED
  BY <1>12 DEF r

-----------------------------------------------------------------------------
(* The feed.                                                               *)

DetectorsOK ==
    /\ QuoteOK(quote) /\ SpoofOK(spoof, seq) /\ StormOK(storm)
    /\ PhantomOK(phantom, seq, lastPrint) /\ PrintsOK(lastPrint, seq)
    /\ PhantomFlagOK(phantom, seq, lastPrint)
    /\ IgnOK(ign) /\ Signed(ign)
    /\ CrashOK(crash)
    /\ ArbOK(arb, seq)

FlagsOK ==
    /\ LogOK(log, ign.refractory_until, crash.refractory_until, storm.refractory_until, seq)
    /\ PrintsLogged(log, seq, SeqsOf(arb.pending))
    /\ QuietLog(log, SeqsOf(arb.pending), arb.refractory_until)

LiveOK ==
    /\ DOMAIN live \subseteq DOMAIN Listing
    /\ \A o \in DOMAIN live : live[o] \in Nat

FeedInv == seq \in Nat /\ DetectorsOK /\ FlagsOK /\ LiveOK

LEMMA RefractoryTypes ==
    ASSUME DetectorsOK
    PROVE  ign.refractory_until \in Nat /\ crash.refractory_until \in Nat /\ storm.refractory_until \in Nat
BY DEF DetectorsOK, IgnOK, IgnTyped, CrashOK, Cached, StormOK

(* A refractory never moves back.                                          *)
LEMMA ArmedLater ==
    ASSUME NEW old \in Nat, NEW new, NEW flag, NEW kind, NEW cooldown \in Nat, NEW m \in Nat,
           Armed(old, new, flag, kind, cooldown, m)
    PROVE  /\ new \in Nat /\ old <= new /\ Returned(flag, kind, m)
           /\ flag # None => old <= m /\ m + cooldown <= new
<1>1. CASE flag = None /\ new = old
  BY <1>1 DEF Returned
<1>2. CASE /\ old <= m /\ new = m + cooldown
           /\ flag = Some(flag[1]) /\ flag[1].kind = kind /\ flag[1].end_seq = m
  <2>1. new \in Nat /\ old <= new /\ m + cooldown <= new
    BY <1>2
  <2>2. Returned(flag, kind, m)
    BY <1>2 DEF Returned
  <2> QED
    BY <1>2, <2>1, <2>2
<1> QED
  BY <1>1, <1>2 DEF Armed

LEMMA KindOf ==
    ASSUME NEW f, NEW k, NEW m, Returned(f, k, m), f # None
    PROVE  f[1].kind = k /\ f[1].end_seq = m
BY DEF Returned

(* process_into: one event through the seven detectors and into the log.   *)
LEMMA ProcessKeeps ==
    ASSUME seq \in Nat, DetectorsOK, FlagsOK, NEW e, IsEvent(e, seq + 1), ProcessInto(e), seq' = seq + 1,
           lastPrint' = lastPrint \/ (e.type = "Trade" /\ lastPrint' = With(lastPrint, <<e.side, e.price>>, seq + 1))
    PROVE  DetectorsOK' /\ FlagsOK'
<1> DEFINE m == seq + 1
           i == ign.refractory_until
           c == crash.refractory_until
           s == storm.refractory_until
           j == ign'.refractory_until
           d == crash'.refractory_until
           t == storm'.refractory_until
           S == SeqsOf(arb.pending)
           T == SeqsOf(arb'.pending)
           u == arb.refractory_until
           v == arb'.refractory_until
           out == quote'.flag \o spoof'.flag \o phantom'.flag \o storm'.flag
                  \o ign'.flag \o crash'.flag \o arb'.flag
           Fs == {quote'.flag, spoof'.flag, phantom'.flag, storm'.flag, ign'.flag, crash'.flag, arb'.flag}
<1>0. m \in Nat /\ i \in Nat /\ c \in Nat /\ s \in Nat
  BY RefractoryTypes
<1>1. /\ QuoteProcess(e) /\ SpoofProcess(e) /\ PhantomProcess(e) /\ StormProcess(e)
      /\ IgnProcess(e) /\ CrashProcess(e) /\ ArbProcess(e) /\ log' = log \o out
  BY DEF ProcessInto
<1>2. QuoteOK(quote') /\ Returned(quote'.flag, "QuoteStuff", m)
  BY <1>1, QuoteProcessIs DEF DetectorsOK
<1>3. SpoofOK(spoof', m) /\ Returned(spoof'.flag, "Spoof", m)
  BY <1>1, SpoofProcessIs DEF DetectorsOK
<1>4. /\ PhantomOK(phantom', m, lastPrint') /\ PhantomFlagOK(phantom', m, lastPrint')
      /\ PrintsOK(lastPrint', m)
  BY <1>1, PhantomProcessIs DEF DetectorsOK
<1>5. StormOK(storm') /\ Armed(s, t, storm'.flag, "CancellationStorm", StormCooldown, m)
  BY <1>1, StormProcessIs DEF DetectorsOK
<1>6. IgnOK(ign') /\ Signed(ign') /\ Armed(i, j, ign'.flag, "MomentumIgnition", IgnCooldown, m)
  BY <1>1, IgnProcessIs DEF DetectorsOK
<1>7. CrashOK(crash') /\ Armed(c, d, crash'.flag, "FlashCrash", CrashCooldown, m)
  BY <1>1, CrashProcessIs DEF DetectorsOK
<1>8. /\ ArbOK(arb', m) /\ T \subseteq S \cup {m} /\ Returned(arb'.flag, "LatencyArbitrage", m)
      /\ PrintFlag(arb'.flag, arb.pending, arb'.pending, m)
      /\ Quiet(u, v, arb'.flag, S, T, m)
  BY <1>1, ArbProcessIs DEF DetectorsOK
<1>9. DetectorsOK'
  BY <1>2, <1>3, <1>4, <1>5, <1>6, <1>7, <1>8 DEF DetectorsOK
<1>10. Returned(phantom'.flag, "PhantomLiquidity", m)
  BY <1>4 DEF PhantomFlagOK
<1>11. StormCooldown \in Nat /\ IgnCooldown \in Nat /\ CrashCooldown \in Nat
  BY StormAssumption, IgnAssumption, CrashAssumption
<1> HIDE DEF m, i, c, s, j, d, t, S, T, u, v
<1>12. /\ t \in Nat /\ s <= t /\ Returned(storm'.flag, "CancellationStorm", m)
       /\ storm'.flag # None => s <= m /\ m + StormCooldown <= t
  BY <1>0, <1>5, <1>11, ArmedLater
<1>13. /\ j \in Nat /\ i <= j /\ Returned(ign'.flag, "MomentumIgnition", m)
       /\ ign'.flag # None => i <= m /\ m + IgnCooldown <= j
  BY <1>0, <1>6, <1>11, ArmedLater
<1>14. /\ d \in Nat /\ c <= d /\ Returned(crash'.flag, "FlashCrash", m)
       /\ crash'.flag # None => c <= m /\ m + CrashCooldown <= d
  BY <1>0, <1>7, <1>11, ArmedLater
<1>15. Batch(out, Fs)
  BY <1>2, <1>3, <1>8, <1>10, <1>12, <1>13, <1>14, BatchIs
<1>16. ASSUME NEW k \in {"QuoteStuff", "Spoof", "PhantomLiquidity", "LatencyArbitrage"}, NEW f, Returned(f, k, m)
       PROVE  Spaced(f, i, c, s, j, d, t, seq, m)
  <2>1. Until(k, i, c, s, seq) = seq /\ Cooldown(k) = 0 /\ Until(k, j, d, t, m) = m /\ k \in Kinds
    BY <1>16 DEF Until, Cooldown, Kinds
  <2>2. seq <= m /\ m + 0 <= m
    BY DEF m
  <2> QED
    BY <1>16, <2>1, <2>2, KindOf DEF Spaced
<1>17. Spaced(storm'.flag, i, c, s, j, d, t, seq, m)
  <2>1. /\ Until("CancellationStorm", i, c, s, seq) = s /\ Cooldown("CancellationStorm") = StormCooldown
        /\ Until("CancellationStorm", j, d, t, m) = t /\ "CancellationStorm" \in Kinds
    BY DEF Until, Cooldown, Kinds
  <2> QED
    BY <1>12, <2>1, KindOf DEF Spaced
<1>18. Spaced(ign'.flag, i, c, s, j, d, t, seq, m)
  <2>1. /\ Until("MomentumIgnition", i, c, s, seq) = i /\ Cooldown("MomentumIgnition") = IgnCooldown
        /\ Until("MomentumIgnition", j, d, t, m) = j /\ "MomentumIgnition" \in Kinds
    BY DEF Until, Cooldown, Kinds
  <2> QED
    BY <1>13, <2>1, KindOf DEF Spaced
<1>19. Spaced(crash'.flag, i, c, s, j, d, t, seq, m)
  <2>1. /\ Until("FlashCrash", i, c, s, seq) = c /\ Cooldown("FlashCrash") = CrashCooldown
        /\ Until("FlashCrash", j, d, t, m) = d /\ "FlashCrash" \in Kinds
    BY DEF Until, Cooldown, Kinds
  <2> QED
    BY <1>14, <2>1, KindOf DEF Spaced
<1>20. \A f \in Fs : Spaced(f, i, c, s, j, d, t, seq, m)
  <2>1. /\ Spaced(quote'.flag, i, c, s, j, d, t, seq, m) /\ Spaced(spoof'.flag, i, c, s, j, d, t, seq, m)
        /\ Spaced(phantom'.flag, i, c, s, j, d, t, seq, m) /\ Spaced(arb'.flag, i, c, s, j, d, t, seq, m)
    BY <1>2, <1>3, <1>8, <1>10, <1>16
  <2> QED
    BY <1>17, <1>18, <1>19, <2>1
<1>21. LogOK(log, i, c, s, seq) /\ PrintsLogged(log, seq, S) /\ QuietLog(log, S, u)
  BY DEF FlagsOK, i, c, s, S, u
<1>22. \A f \in Fs : FreshPrint(f, S, T, m)
  <2>1. ASSUME NEW k, k # "LatencyArbitrage", NEW f, Returned(f, k, m) PROVE FreshPrint(f, S, T, m)
    BY <2>1, KindOf DEF FreshPrint
  <2>2. FreshPrint(arb'.flag, S, T, m)
    BY <1>8 DEF PrintFlag, FreshPrint, S, T
  <2>3. /\ FreshPrint(quote'.flag, S, T, m) /\ FreshPrint(spoof'.flag, S, T, m)
        /\ FreshPrint(phantom'.flag, S, T, m) /\ FreshPrint(storm'.flag, S, T, m)
        /\ FreshPrint(ign'.flag, S, T, m) /\ FreshPrint(crash'.flag, S, T, m)
    BY <1>2, <1>3, <1>10, <1>12, <1>13, <1>14, <2>1
  <2> QED
    BY <2>2, <2>3
<1>23. S \subseteq Nat /\ \A x \in S : x <= seq
  <2>1. arb.pending \in Seq(Trigger) /\ DistinctUpTo(arb.pending, seq)
    BY DEF DetectorsOK, ArbOK
  <2>2. \A x \in 1..Len(arb.pending) : arb.pending[x].seq \in Nat /\ arb.pending[x].seq <= seq
    BY <2>1, TriggerFields DEF DistinctUpTo
  <2> QED
    BY <2>2 DEF S, SeqsOf
<1>24. IsSequence(log) /\ m = seq + 1
  BY <1>21 DEF LogOK, m
<1>q. PrintsBefore(log, seq)
  <2> SUFFICES ASSUME NEW x \in 1..Len(log), log[x].kind = "LatencyArbitrage"
               PROVE  log[x].end_seq \in Nat /\ log[x].end_seq <= seq
    BY DEF PrintsBefore
  <2>1. Cooldown(log[x].kind) = 0 /\ Until(log[x].kind, i, c, s, seq) = seq
    BY DEF Cooldown, Until
  <2>2. log[x].end_seq \in Nat /\ log[x].end_seq + 0 <= seq
    BY <1>21, <2>1 DEF LogOK
  <2> QED BY <2>2
<1>r. QuietFlags(Fs, arb'.flag, S, T, m)
  <2>1. ASSUME NEW k, k # "LatencyArbitrage", NEW f, Returned(f, k, m), f # None
        PROVE  f[1].end_seq = m /\ f[1].kind # "LatencyArbitrage"
    BY <2>1, KindOf
  <2>2. arb'.flag # None => arb'.flag[1].end_seq = m
    BY <1>8, KindOf
  <2>3. \A f \in Fs : f # None => f[1].end_seq = m /\ (f[1].kind = "LatencyArbitrage" => f = arb'.flag)
    BY <1>2, <1>3, <1>10, <1>12, <1>13, <1>14, <2>1, <2>2
  <2> QED
    BY <1>22, <2>3 DEF QuietFlags
<1> HIDE DEF out, Fs
<1>25. LogOK(log \o out, j, d, t, m)
  BY ONLY seq \in Nat, <1>0, <1>12, <1>13, <1>14, <1>15, <1>20, <1>21, <1>24, LogStep
<1>26. PrintsLogged(log \o out, m, T)
  BY ONLY seq \in Nat, <1>8, <1>15, <1>21, <1>22, <1>23, <1>24, PrintsStep
<1>28. QuietLog(log \o out, T, v)
  BY ONLY seq \in Nat, <1>8, <1>15, <1>21, <1>23, <1>24, <1>q, <1>r, QuietStep
<1>27. FlagsOK'
  BY <1>1, <1>25, <1>26, <1>28 DEF FlagsOK, m, j, d, t, T, v
<1> QED
  BY <1>9, <1>27

LEMMA StormInitIs ==
    ASSUME StormInit
    PROVE  StormOK(storm) /\ storm.refractory_until = 0
<1> DEFINE b == [seq |-> 0, ts |-> 0]
<1>1. storm = StormRecord(<<>>, 0, 0, 0, 0, 0, b, 0, None)
  BY DEF StormInit, StormRecord
<1> HIDE DEF b
<1>2. storm.window = <<>> /\ storm.cancels = 0 /\ storm.n = 0 /\ storm.refractory_until = 0
  BY ONLY <1>1 DEF StormRecord
<1>3. StormShape(storm)
  BY ONLY <1>1 DEF StormShape, StormRecord
<1>4. CancelsIn(<<>>) = 0
  <2>1. {i \in DOMAIN <<>> : <<>>[i].type = "OrderCancel"} = {}
    OBVIOUS
  <2> QED
    BY <2>1, FS_EmptySet DEF CancelsIn
<1> QED
  BY <1>2, <1>3, <1>4 DEF StormOK

LEMMA PatternInitIs ==
    ASSUME QuoteInit, SpoofInit, PhantomInit
    PROVE  /\ QuoteOK(quote) /\ SpoofOK(spoof, 0)
           /\ PhantomOK(phantom, 0, EmptyMap) /\ PhantomFlagOK(phantom, 0, EmptyMap)
<1>1. QuoteOK(quote)
  BY DEF QuoteInit, QuoteOK
<1>2. SpoofOK(spoof, 0)
  <2>1. spoof = [large |-> <<>>, flag |-> None] /\ spoof.large = <<>> /\ spoof.flag = None
    BY DEF SpoofInit
  <2>2. SpoofWindow \in Nat
    BY PatternAssumption
  <2> QED
    BY <2>1, <2>2 DEF SpoofOK, DistinctUpTo
<1>3. /\ phantom = [levels |-> EmptyMap, orders |-> EmptyMap, flag |-> None, key |-> None]
      /\ phantom.levels = EmptyMap /\ phantom.flag = None
  BY DEF PhantomInit
<1>4. LevelsOK(EmptyMap, 0, EmptyMap) /\ Cardinality(DOMAIN EmptyMap) = 0
  BY EmptyMapIs, FS_EmptySet DEF LevelsOK
<1>5. PhantomOK(phantom, 0, EmptyMap)
  <2>1. PhantomMaxTracked \in Nat
    BY PatternAssumption
  <2>2. phantom = [levels |-> phantom.levels, orders |-> phantom.orders, flag |-> phantom.flag, key |-> phantom.key]
    BY ONLY <1>3
  <2> QED
    BY <1>3, <1>4, <2>1, <2>2 DEF PhantomOK
<1>6. PhantomFlagOK(phantom, 0, EmptyMap)
  BY <1>3, EmptyMapIs DEF PhantomFlagOK, Returned
<1> QED
  BY <1>1, <1>2, <1>5, <1>6

LEMMA FeedInit == Init => FeedInv
<1> SUFFICES ASSUME Init PROVE FeedInv
  OBVIOUS
<1>1. /\ QuoteInit /\ SpoofInit /\ PhantomInit /\ StormInit /\ IgnInit /\ CrashInit /\ ArbInit
      /\ log = <<>> /\ seq = 0 /\ live = EmptyMap /\ lastPrint = EmptyMap
  BY DEF Init, DetectorsInit
<1>2. PrintsOK(lastPrint, 0)
  BY <1>1, EmptyMapIs DEF PrintsOK
<1>3. DetectorsOK
  BY <1>1, <1>2, StormInitIs, PatternInitIs, IgnInitIs, CrashInitIs, ArbInitIs DEF DetectorsOK
<1>4. FlagsOK
  <2>1. LogOK(<<>>, 0, 0, 0, 0)
    BY DEF LogOK, IsSequence
  <2>2. PrintsLogged(<<>>, 0, SeqsOf(arb.pending)) /\ QuietLog(<<>>, SeqsOf(arb.pending), arb.refractory_until)
    BY DEF PrintsLogged, QuietLog
  <2> QED
    BY <1>1, <2>1, <2>2, StormInitIs, IgnInitIs, CrashInitIs DEF FlagsOK
<1>5. LiveOK
  BY <1>1, EmptyMapIs DEF LiveOK
<1> QED
  BY <1>1, <1>3, <1>4, <1>5 DEF FeedInv

(* An emitted event is a well-formed one, and is processed.                *)
LEMMA Emitted ==
    ASSUME FeedInv, NEW type \in EventTypes, NEW side \in Sides, NEW price \in Nat, NEW qty \in Nat, NEW o \in Nat,
           Emit(type, side, price, qty, o),
           lastPrint' = lastPrint \/ (type = "Trade" /\ lastPrint' = With(lastPrint, <<side, price>>, seq + 1))
    PROVE  seq' \in Nat /\ DetectorsOK' /\ FlagsOK' /\ BaselineStep(storm, storm')
<1> DEFINE e == SequencedEvent(seq + 1, seq + 1, type, side, price, qty, o)
<1>1. seq \in Nat /\ DetectorsOK /\ FlagsOK
  BY DEF FeedInv
<1>2. seq' = seq + 1 /\ ProcessInto(e)
  BY DEF Emit
<1>3. e.type = type /\ e.side = side /\ e.price = price /\ e.qty = qty /\ e.order_id = o
  BY DEF SequencedEvent
<1>4. IsEvent(e, seq + 1)
  <2>1. seq + 1 \in Nat
    BY <1>1
  <2>2. e = SequencedEvent(seq + 1, seq + 1, e.type, e.side, e.price, e.qty, e.order_id)
    BY <1>3
  <2> HIDE DEF e
  <2> QED
    BY <1>3, <2>1, <2>2 DEF IsEvent
<1> HIDE DEF e
<1>5. lastPrint' = lastPrint \/ (e.type = "Trade" /\ lastPrint' = With(lastPrint, <<e.side, e.price>>, seq + 1))
  BY <1>3
<1>6. DetectorsOK' /\ FlagsOK'
  BY <1>1, <1>2, <1>4, <1>5, ProcessKeeps
<1>7. BaselineStep(storm, storm')
  <2>1. StormOK(storm) /\ StormProcess(e)
    BY <1>1, <1>2 DEF DetectorsOK, ProcessInto
  <2> QED
    BY <1>4, <2>1, StormProcessIs
<1> QED
  BY <1>1, <1>2, <1>6, <1>7

LEMMA LeftIs ==
    ASSUME LiveOK, NEW o \in DOMAIN live, NEW qty \in Nat
    PROVE  DOMAIN Left(o, qty) \subseteq DOMAIN Listing /\ \A x \in DOMAIN Left(o, qty) : Left(o, qty)[x] \in Nat
<1>1. CASE qty = 0 \/ qty >= live[o]
  <2>1. Left(o, qty) = Without(live, o)
    BY <1>1 DEF Left
  <2>2. /\ DOMAIN Without(live, o) = DOMAIN live \ {o}
        /\ \A x \in DOMAIN live \ {o} : Without(live, o)[x] = live[x]
    BY WithoutIs
  <2> QED
    BY <2>1, <2>2 DEF LiveOK
<1>2. CASE ~(qty = 0 \/ qty >= live[o])
  <2>1. live[o] \in Nat /\ live[o] - qty \in Nat
    BY <1>2 DEF LiveOK
  <2>2. Left(o, qty) = [live EXCEPT ![o] = live[o] - qty]
    BY <1>2 DEF Left
  <2> QED
    BY <2>1, <2>2 DEF LiveOK
<1> QED
  BY <1>1, <1>2

(* Every event of the feed keeps the invariant, with a baseline step.      *)
LEMMA FeedStep == FeedInv /\ [Next]_feedVars => FeedInv' /\ BaselineStep(storm, storm')
<1> SUFFICES ASSUME FeedInv, [Next]_feedVars PROVE FeedInv' /\ BaselineStep(storm, storm')
  OBVIOUS
<1>0. /\ seq \in Nat /\ LiveOK /\ EventTypes = {"OrderAdd", "OrderCancel", "OrderModify", "Trade", "BookSnapshot"}
      /\ "Bid" \in Sides /\ 0 \in Nat /\ 1 \in Nat
  BY DEF FeedInv, EventTypes, Sides
<1>1. \A o \in DOMAIN Listing : /\ o \in Nat /\ Listing[o].side \in Sides
                                /\ Listing[o].price \in Nat /\ Listing[o].qty \in Nat
  BY ListingAssumption
<1>2. ASSUME NEW o \in DOMAIN Listing, Add(o) PROVE FeedInv' /\ BaselineStep(storm, storm')
  <2>1. /\ Emit("OrderAdd", Listing[o].side, Listing[o].price, Listing[o].qty, o)
        /\ live' = With(live, o, Listing[o].qty) /\ lastPrint' = lastPrint
    BY <1>2 DEF Add
  <2>2. seq' \in Nat /\ DetectorsOK' /\ FlagsOK' /\ BaselineStep(storm, storm')
    BY <1>0, <1>1, <2>1, Emitted
  <2>3. LiveOK'
    BY <1>0, <1>1, <2>1 DEF LiveOK, With
  <2> QED
    BY <2>2, <2>3 DEF FeedInv
<1>3. ASSUME NEW o \in DOMAIN Listing, NEW qty \in {0, 1}, Cancel(o, qty) PROVE FeedInv' /\ BaselineStep(storm, storm')
  <2>1. /\ o \in DOMAIN live /\ live' = Left(o, qty) /\ lastPrint' = lastPrint
        /\ \/ Emit("OrderCancel", "Bid", 0, 0, o)
           \/ Emit("OrderCancel", Listing[o].side, Listing[o].price, qty, o)
    BY <1>3 DEF Cancel, Opened
  <2>2. seq' \in Nat /\ DetectorsOK' /\ FlagsOK' /\ BaselineStep(storm, storm')
    BY <1>0, <1>1, <2>1, Emitted
  <2>3. LiveOK'
    BY <1>0, <2>1, LeftIs DEF LiveOK
  <2> QED
    BY <2>2, <2>3 DEF FeedInv
<1>4. ASSUME NEW o \in DOMAIN Listing, Trade(o, TRUE) PROVE FeedInv' /\ BaselineStep(storm, storm')
  <2>1. /\ o \in DOMAIN live /\ live' = Left(o, 0)
        /\ lastPrint' = With(lastPrint, <<Listing[o].side, Listing[o].price>>, seq + 1)
        /\ Emit("Trade", Listing[o].side, Listing[o].price, live[o], o)
    BY <1>4 DEF Trade, Opened
  <2>2. live[o] \in Nat
    BY <1>0, <2>1 DEF LiveOK
  <2>3. seq' \in Nat /\ DetectorsOK' /\ FlagsOK' /\ BaselineStep(storm, storm')
    BY <1>0, <1>1, <2>1, <2>2, Emitted
  <2>4. LiveOK'
    BY <1>0, <2>1, LeftIs DEF LiveOK
  <2> QED
    BY <2>3, <2>4 DEF FeedInv
<1>5. ASSUME NEW o \in DOMAIN Listing, Trade(o, FALSE) PROVE FeedInv' /\ BaselineStep(storm, storm')
  <2>1. /\ o \in DOMAIN live /\ live' = Left(o, 1) /\ lastPrint' = lastPrint
        /\ Emit("Trade", "Bid", 0, 1, o)
    BY <1>5 DEF Trade, Opened
  <2>2. seq' \in Nat /\ DetectorsOK' /\ FlagsOK' /\ BaselineStep(storm, storm')
    BY <1>0, <1>1, <2>1, Emitted
  <2>3. LiveOK'
    BY <1>0, <2>1, LeftIs DEF LiveOK
  <2> QED
    BY <2>2, <2>3 DEF FeedInv
<1>6. ASSUME NEW o \in DOMAIN Listing, Modify(o) PROVE FeedInv' /\ BaselineStep(storm, storm')
  <2>1. /\ live' = [live EXCEPT ![o] = Listing[o].qty] /\ lastPrint' = lastPrint
        /\ Emit("OrderModify", Listing[o].side, Listing[o].price, Listing[o].qty, o)
    BY <1>6 DEF Modify
  <2>2. seq' \in Nat /\ DetectorsOK' /\ FlagsOK' /\ BaselineStep(storm, storm')
    BY <1>0, <1>1, <2>1, Emitted
  <2>3. LiveOK'
    BY <1>0, <1>1, <2>1 DEF LiveOK
  <2> QED
    BY <2>2, <2>3 DEF FeedInv
<1>7. ASSUME Snapshot PROVE FeedInv' /\ BaselineStep(storm, storm')
  <2>1. live' = live /\ lastPrint' = lastPrint /\ Emit("BookSnapshot", "Bid", 0, 0, 0)
    BY <1>7 DEF Snapshot
  <2>2. seq' \in Nat /\ DetectorsOK' /\ FlagsOK' /\ BaselineStep(storm, storm')
    BY <1>0, <2>1, Emitted
  <2>3. LiveOK'
    BY <1>0, <2>1 DEF LiveOK
  <2> QED
    BY <2>2, <2>3 DEF FeedInv
<1>8. ASSUME UNCHANGED feedVars PROVE FeedInv' /\ BaselineStep(storm, storm')
  <2>1. /\ UNCHANGED <<crash, ign, arb, storm, quote, spoof, phantom>>
        /\ UNCHANGED log /\ UNCHANGED <<seq, live, lastPrint, lastFill>>
    BY <1>8 DEF feedVars, detectorVars
  <2>2. FeedInv'
    BY <2>1 DEF FeedInv, DetectorsOK, FlagsOK, LiveOK
  <2> QED
    BY <2>1, <2>2 DEF BaselineStep
<1> QED
  BY <1>2, <1>3, <1>4, <1>5, <1>6, <1>7, <1>8 DEF Next

(* chaos/src: the inductive invariant of the feed, with what every         *)
(* detector keeps between two events and what the log of flags shows of    *)
(* the refractories and of the pending prints.                             *)
THEOREM FeedAlwaysSound == Spec => []FeedInv
BY FeedInit, FeedStep, PTL DEF Spec

(* flash_crash.rs, cancellation_storm.rs, detection.rs,                    *)
(* phantom_liquidity.rs: over every flow of orders, the cached best prices *)
(* and band depth, and the running cancel count, are what a scan of the    *)
(* maps and of the window would give, and the two capped collections stay  *)
(* within their caps.                                                      *)
THEOREM CachesAlwaysExact == Spec => []CachesExact
<1>1. FeedInv => CachesExact
  <2> SUFFICES ASSUME FeedInv PROVE CachesExact
    OBVIOUS
  <2>1. /\ Cached(crash.book, crash.orders, crash.bb, crash.ba, crash.band_depth, crash.band_depth_valid,
                  crash.refractory_until)
        /\ storm.cancels = CancelsIn(storm.window)
        /\ Len(spoof.large) <= 2 * SpoofWindow
        /\ Cardinality(DOMAIN phantom.levels) <= PhantomMaxTracked
    BY DEF FeedInv, DetectorsOK, CrashOK, StormOK, SpoofOK, PhantomOK
  <2>2. CachedBestExact
    BY <2>1 DEF Cached, CachedBestExact
  <2>3. BandDepthExact
    <3>1. Depth(crash.book, crash.bb, crash.ba) = FreshBandDepth(crash)
      BY DEF Depth, FreshBandDepth
    <3>2. crash.band_depth_valid = TRUE => crash.band_depth = FreshBandDepth(crash)
      BY <2>1, <3>1 DEF Cached
    <3>3. crash.band_depth_valid \in BOOLEAN
      BY <2>1 DEF Cached
    <3> QED
      BY <3>2, <3>3 DEF BandDepthExact
  <2> QED
    BY <2>1, <2>2, <2>3 DEF CachesExact, CancelCountExact, SpoofListBounded, PhantomLevelsBounded
<1> QED
  BY <1>1, FeedInit, FeedStep, PTL DEF Spec

(* momentum_ignition.rs update_run, evict_expired and the reset at a flag: *)
(* whatever the windows evict, a directed run starts strictly on the side  *)
(* of the newest mid that its direction claims, and a flag's displacement  *)
(* has the sign of the majority of aggressors.                             *)
THEOREM RunAlwaysDirected == Spec => []RunDirected
<1>1. FeedInv => RunDirected
  <2> SUFFICES ASSUME FeedInv PROVE RunDirected
    OBVIOUS
  <2>1. (ign.mids # <<>> => RunTo(ign, LastMid(ign))) /\ Signed(ign)
    BY DEF FeedInv, DetectorsOK, IgnOK
  <2> QED
    BY <2>1 DEF RunDirected, RunTo, LastMid, Signed
<1> QED
  BY <1>1, FeedInit, FeedStep, PTL DEF Spec

(* momentum_ignition.rs, flash_crash.rs and cancellation_storm.rs: two     *)
(* ignitions, two crashes or two storms are a cooldown apart.  For         *)
(* latency_arb_proxy.rs, whose flags may be closer than its cooldown: a    *)
(* print is reported once, and never when it fell into the cooldown after  *)
(* an earlier flag.  phantom_liquidity.rs: a level reported as a phantom   *)
(* was never named by a trade while it lived.                              *)
THEOREM FlagsAlwaysEarned == Spec => []FlagsEarned
<1>1. FeedInv => FlagsEarned
  <2> SUFFICES ASSUME FeedInv PROVE FlagsEarned
    OBVIOUS
  <2>1. /\ LogOK(log, ign.refractory_until, crash.refractory_until, storm.refractory_until, seq)
        /\ PrintsLogged(log, seq, SeqsOf(arb.pending)) /\ PhantomFlagOK(phantom, seq, lastPrint)
        /\ QuietLog(log, SeqsOf(arb.pending), arb.refractory_until)
    BY DEF FeedInv, FlagsOK, DetectorsOK
  <2>2. DOMAIN log = 1..Len(log)
    BY <2>1 DEF LogOK, IsSequence
  <2>3. FlagsSpaced
    <3>1. ASSUME NEW kind PROVE KindSpaced(kind, Cooldown(kind))
      <4> SUFFICES ASSUME NEW i \in 1..Len(log), NEW j \in 1..Len(log), i < j,
                          log[i].kind = kind, log[j].kind = kind
                   PROVE  log[j].end_seq - log[i].end_seq >= Cooldown(kind)
        BY <2>2 DEF KindSpaced
      <4> DEFINE k == Cooldown(kind)
                 a == log[i].end_seq
                 b == log[j].end_seq
      <4>1. a \in Nat /\ b \in Nat /\ k \in Nat /\ a + k <= b
        BY <2>1, CooldownType DEF LogOK
      <4> HIDE DEF k, a, b
      <4>2. b - a >= k
        BY <4>1
      <4> QED BY <4>2 DEF k, a, b
    <3>2. /\ Cooldown("MomentumIgnition") = IgnCooldown /\ Cooldown("FlashCrash") = CrashCooldown
          /\ Cooldown("CancellationStorm") = StormCooldown
      BY DEF Cooldown
    <3>3. /\ KindSpaced("MomentumIgnition", Cooldown("MomentumIgnition"))
          /\ KindSpaced("FlashCrash", Cooldown("FlashCrash"))
          /\ KindSpaced("CancellationStorm", Cooldown("CancellationStorm"))
      BY <3>1
    <3> QED BY <3>2, <3>3 DEF FlagsSpaced
  <2>4. OneFlagPerPrint
    BY <2>1, <2>2 DEF PrintsLogged, OneFlagPerPrint
  <2>5. PhantomUntraded
    BY <2>1 DEF PhantomFlagOK, PhantomUntraded, FlaggedAfter
  <2>6. NoPrintInRefractory
    BY <2>1, <2>2 DEF QuietLog, Outside, NoPrintInRefractory
  <2> QED
    BY <2>3, <2>4, <2>5, <2>6 DEF FlagsEarned
<1> QED
  BY <1>1, FeedInit, FeedStep, PTL DEF Spec

(* cancellation_storm.rs process: once warm, the baseline takes a sample   *)
(* only outside the refractory, with no burst left open, and never in the  *)
(* step that flags.                                                        *)
THEOREM BaselineAlwaysPaused == Spec => BaselinePaused
<1>1. FeedInv /\ [Next]_feedVars =>
          [(storm.n >= StormWarmup /\ storm'.n # storm.n) =>
              /\ storm'.window[Len(storm'.window)].seq >= storm.refractory_until
              /\ storm'.above = 0 /\ ~IsSome(storm'.flag)]_storm
  BY FeedStep DEF BaselineStep
<1>2. FeedInv /\ [Next]_feedVars => FeedInv'
  BY FeedStep
<1> QED
  BY <1>1, <1>2, FeedInit, PTL DEF Spec, BaselinePaused

=============================================================================
