----------------------------- MODULE EngineProofs -----------------------------
(***************************************************************************)
(* Proofs about Engine and Telemetry, for every channel and ring size,     *)
(* every set of instruments and any number of restarts.                    *)
(*                                                                         *)
(* None of the four properties is inductive.  Their invariant has three    *)
(* parts, proved one after the other:                                      *)
(*   - EngineInv: the lock, the book and the snapshot files.  A book is    *)
(*     tied to its label in memory and on disk, so that a resume brings    *)
(*     back what the property needs, and a rename always follows a         *)
(*     complete write;                                                     *)
(*   - LinkInv: who is connected to whom, the order of the numbers on the  *)
(*     whole way, and for every frame how many precede it;                 *)
(*   - SymbolInv: what the client will show once it has read the frames    *)
(*     that are still on their way.                                        *)
(***************************************************************************)

EXTENDS Engine, FiniteSetTheorems, SequenceTheorems, TLAPS
-----------------------------------------------------------------------------
(* The engine: its lock, its book and its snapshots.                       *)

Kinds == {"Header", "Chaos", "Trade", "SnapOpen", "SnapWrite", "SnapRename", "Tick", "Risk",
          "Lat", "Book"}

Books == [instrument : Instruments, from : SUBSET Instruments]

Snapshots == [seq : Nat, book : Books, pinned : BOOLEAN]

Options == {None} \cup {Some(i) : i \in Instruments}

WholeFiles == {None} \cup {Some(s) : s \in Snapshots}

Files == WholeFiles \cup {Some(Torn)}

EngTypeOK ==
    /\ up \in BOOLEAN /\ cli \in Options /\ tracked \in Options
    /\ counts \in [Instruments -> Nat]
    /\ quiet \in {None, Some(TRUE), Some(FALSE)}
    /\ book \in Books /\ seq \in Nat
    /\ outbox \in Seq(Kinds)
    /\ tmp \in Files /\ file \in Files /\ former \in Files /\ resumed \in WholeFiles

Follows(s, a, b) == \A i \in 1..Len(s) : s[i] = a => i < Len(s) /\ s[i + 1] = b

(* The steps of a snapshot follow each other in the outbox.                *)
StepsTogether(s) ==
    /\ Follows(s, "SnapOpen", "SnapWrite") /\ Follows(s, "SnapWrite", "SnapRename")
    /\ \A i \in 2..Len(s) : s[i] = "SnapRename" => s[i - 1] = "SnapWrite"

(* A rename follows a complete write.                                      *)
DiskInv ==
    /\ StepsTogether(outbox)
    /\ (outbox # <<>> /\ outbox[1] = "SnapRename") => tmp \in {Some(s) : s \in Snapshots}
    /\ Some(Torn) \in {file, former} => powerLost

(* A book that does not come from an engine with --symbol is of the        *)
(* instrument it is labelled with, in memory and on disk; every book is of *)
(* the instrument that is locked.                                          *)
LabelInv ==
    /\ ~up => cli = None /\ tracked = None /\ resumed = None /\ book.from = {}
    /\ (~IsSome(cli) /\ IsSome(tracked)) => tracked[1] = book.instrument
    /\ (~ResumedPinned /\ IsSome(tracked)) => book.from \subseteq {tracked[1]}
    /\ (~ResumedPinned /\ ~IsSome(cli)) => book.from \subseteq {book.instrument}
    /\ \A f \in {tmp, file, former, resumed} : \A s \in Snapshots :
          (f = Some(s) /\ ~s.pinned) => s.book.from \subseteq {s.book.instrument}

LockInv ==
    /\ IsSome(quiet) => IsSome(tracked)
    /\ \A i \in Instruments : counts[i] < LockThreshold
    /\ IsSome(cli) =>
          tracked = IF IsSome(resumed) THEN Some(resumed[1].book.instrument) ELSE cli

(* The book has moved on from the snapshot, or is still that one.          *)
ResumedInv ==
    IsSome(resumed) =>
        /\ seq >= resumed[1].seq
        /\ seq = resumed[1].seq => book = resumed[1].book

EngineInv == EngTypeOK /\ DiskInv /\ LabelInv /\ LockInv /\ ResumedInv

-----------------------------------------------------------------------------
(* Lemmas about the data.                                                  *)

LEMMA SomeFacts ==
    ASSUME NEW x
    PROVE  Some(x) # None /\ Some(x)[1] = x /\ IsSome(Some(x)) /\ ~IsSome(None)
BY DEF Some, None, IsSome

LEMMA OptionFacts ==
    ASSUME NEW o \in Options, IsSome(o)
    PROVE  o[1] \in Instruments /\ o = Some(o[1])
BY DEF Options, IsSome, None, Some

LEMMA TornIsNoSnapshot ==
    ASSUME NEW s \in Snapshots
    PROVE  Some(s) # Some(Torn)
<1>1. DOMAIN s = {"seq", "book", "pinned"} /\ DOMAIN Torn = {"torn"}
  BY DEF Snapshots, Torn
<1>2. s # Torn
  BY <1>1
<1> QED
  BY <1>2, SomeFacts

LEMMA FileFacts ==
    ASSUME NEW f \in Files, IsSome(f), f # Some(Torn)
    PROVE  f[1] \in Snapshots /\ f = Some(f[1]) /\ f \in WholeFiles
BY DEF Files, WholeFiles, IsSome, None, Some

LEMMA WholeFileFacts ==
    ASSUME NEW f \in WholeFiles
    PROVE  f # Some(Torn) /\ (IsSome(f) => f[1] \in Snapshots /\ f = Some(f[1]))
<1>1. CASE f = None
  BY <1>1 DEF IsSome, None, Some
<1>2. CASE f # None
  <2>1. PICK s \in Snapshots : f = Some(s)
    BY <1>2 DEF WholeFiles
  <2> QED
    BY <2>1, TornIsNoSnapshot, SomeFacts
<1> QED
  BY <1>1, <1>2

LEMMA LenNotZero ==
    ASSUME NEW s, Len(s) # 0
    PROVE  s # <<>>
<1>1. Len(<<>>) = 0
  OBVIOUS
<1> QED
  BY <1>1

LEMMA TailFacts ==
    ASSUME NEW S, NEW s \in Seq(S), s # <<>>
    PROVE  /\ Len(s) \in Nat \ {0} /\ Head(s) = s[1] /\ s[1] \in S
           /\ Tail(s) \in Seq(S) /\ Len(Tail(s)) = Len(s) - 1
           /\ \A i \in 1..(Len(s) - 1) : Tail(s)[i] = s[i + 1]
OBVIOUS

LEMMA AppendFacts ==
    ASSUME NEW S, NEW s \in Seq(S), NEW x \in S
    PROVE  /\ Append(s, x) \in Seq(S) /\ Len(s) \in Nat /\ Len(Append(s, x)) = Len(s) + 1
           /\ \A i \in 1..Len(s) : Append(s, x)[i] = s[i]
           /\ Append(s, x)[Len(s) + 1] = x
OBVIOUS

LEMMA NewBookType ==
    ASSUME NEW i \in Instruments
    PROVE  NewBook(i) \in Books /\ NewBook(i).from = {} /\ NewBook(i).instrument = i
BY DEF NewBook, Books

LEMMA NoCountsFacts ==
    NoCounts \in [Instruments -> Nat] /\ \A i \in Instruments : NoCounts[i] < LockThreshold
BY EngineAssumption DEF NoCounts

(* What is left to do: the kinds of frames and the steps of a snapshot, in *)
(* their order.  A piece of the outbox that begins with no rename can be   *)
(* put behind another one.                                                 *)
Piece(s) == s \in Seq(Kinds) /\ StepsTogether(s) /\ (s # <<>> => s[1] # "SnapRename")

LEMMA FollowsJoin ==
    ASSUME NEW s \in Seq(Kinds), NEW t \in Seq(Kinds), NEW a, NEW b,
           Follows(s, a, b), Follows(t, a, b)
    PROVE  Follows(s \o t, a, b)
<1> DEFINE u == s \o t
<1>1. /\ Len(s) \in Nat /\ Len(t) \in Nat /\ Len(u) = Len(s) + Len(t)
      /\ \A i \in 1..Len(s) : u[i] = s[i]
      /\ \A i \in 1..Len(t) : u[Len(s) + i] = t[i]
  OBVIOUS
<1> HIDE DEF u
<1> SUFFICES ASSUME NEW i \in 1..Len(u), u[i] = a PROVE i < Len(u) /\ u[i + 1] = b
  BY DEF Follows, u
<1>2. CASE i <= Len(s)
  <2>1. i < Len(s) /\ s[i + 1] = b
    BY <1>1, <1>2 DEF Follows
  <2>2. i + 1 \in 1..Len(s) /\ i < Len(u)
    BY <1>1, <2>1
  <2> QED
    BY <1>1, <2>1, <2>2
<1>3. CASE i > Len(s)
  <2> DEFINE k == i - Len(s)
  <2>1. k \in 1..Len(t) /\ i = Len(s) + k
    BY <1>1, <1>3
  <2> HIDE DEF k
  <2>2. t[k] = a
    BY <1>1, <2>1
  <2>3. k < Len(t) /\ t[k + 1] = b
    BY <2>1, <2>2 DEF Follows
  <2>4. k + 1 \in 1..Len(t) /\ Len(s) + (k + 1) = i + 1 /\ i < Len(u)
    BY <1>1, <2>1, <2>3
  <2> QED
    BY <1>1, <2>3, <2>4
<1> QED
  BY <1>1, <1>2, <1>3

LEMMA PiecesJoin ==
    ASSUME NEW s, NEW t, Piece(s), Piece(t)
    PROVE  Piece(s \o t)
<1> DEFINE u == s \o t
<1>1. /\ s \in Seq(Kinds) /\ t \in Seq(Kinds) /\ u \in Seq(Kinds)
      /\ Len(s) \in Nat /\ Len(t) \in Nat /\ Len(u) = Len(s) + Len(t)
      /\ \A i \in 1..Len(s) : u[i] = s[i]
      /\ \A i \in 1..Len(t) : u[Len(s) + i] = t[i]
  BY DEF Piece
<1>2. Follows(u, "SnapOpen", "SnapWrite") /\ Follows(u, "SnapWrite", "SnapRename")
  BY <1>1, FollowsJoin DEF Piece, StepsTogether
<1> HIDE DEF u
<1>3. ASSUME NEW i \in 2..Len(u), u[i] = "SnapRename" PROVE u[i - 1] = "SnapWrite"
  <2>1. CASE i <= Len(s)
    <3>1. i \in 2..Len(s) /\ i \in 1..Len(s) /\ i - 1 \in 1..Len(s)
      BY <1>1, <2>1
    <3>2. s[i] = "SnapRename" /\ u[i - 1] = s[i - 1]
      BY <1>1, <1>3, <3>1
    <3> QED
      BY <3>1, <3>2 DEF Piece, StepsTogether
  <2>2. CASE i > Len(s)
    <3> DEFINE k == i - Len(s)
    <3>1. k \in 1..Len(t) /\ i = Len(s) + k
      BY <1>1, <2>2
    <3> HIDE DEF k
    <3>2. t[k] = "SnapRename" /\ t # <<>>
      BY <1>1, <1>3, <3>1
    <3>3. k # 1
      BY <3>2 DEF Piece
    <3>4. t[k - 1] = "SnapWrite"
      BY <1>1, <3>1, <3>2, <3>3 DEF Piece, StepsTogether
    <3>5. k - 1 \in 1..Len(t) /\ Len(s) + (k - 1) = i - 1
      BY <1>1, <3>1, <3>3
    <3> QED
      BY <1>1, <3>4, <3>5
  <2> QED
    BY <1>1, <2>1, <2>2
<1>4. u # <<>> => u[1] # "SnapRename"
  <2> SUFFICES ASSUME u # <<>> PROVE u[1] # "SnapRename"
    OBVIOUS
  <2>1. CASE s # <<>>
    BY <1>1, <2>1 DEF Piece
  <2>2. CASE s = <<>>
    BY <1>1, <2>2 DEF Piece
  <2> QED
    BY <2>1, <2>2
<1> QED
  BY <1>1, <1>2, <1>3, <1>4 DEF Piece, StepsTogether, u

LEMMA WorkIsPiece ==
    ASSUME NEW header, NEW trade, NEW due
    PROVE  Piece(Work(header, trade, due))
<1> DEFINE h == IF header THEN <<"Header">> ELSE <<>>
           c == IF "Chaos" \in due THEN <<"Chaos">> ELSE <<>>
           t == IF trade THEN <<"Trade">> ELSE <<>>
           s == IF "Snapshot" \in due THEN <<"SnapOpen", "SnapWrite", "SnapRename">> ELSE <<>>
           k == IF "Tick" \in due THEN <<"Tick", "Risk", "Lat">> ELSE <<>>
           b == IF "Book" \in due THEN <<"Book">> ELSE <<>>
<1>0. Piece(<<>>)
  BY DEF Piece, StepsTogether, Follows
<1>1. Piece(<<"Header">>) /\ Piece(<<"Chaos">>) /\ Piece(<<"Trade">>) /\ Piece(<<"Book">>)
  BY DEF Piece, StepsTogether, Follows, Kinds
<1>2. Piece(<<"SnapOpen", "SnapWrite", "SnapRename">>)
  BY DEF Piece, StepsTogether, Follows, Kinds
<1>3. Piece(<<"Tick", "Risk", "Lat">>)
  BY DEF Piece, StepsTogether, Follows, Kinds
<1>4. Piece(h) /\ Piece(c) /\ Piece(t) /\ Piece(s) /\ Piece(k) /\ Piece(b)
  BY <1>0, <1>1, <1>2, <1>3, Zenon
<1>5. Work(header, trade, due) = h \o c \o t \o s \o k \o b
  BY DEF Work
<1> HIDE DEF h, c, t, s, k, b
<1>6. Piece(h \o c)
  BY <1>4, PiecesJoin
<1>7. Piece(h \o c \o t)
  BY <1>4, <1>6, PiecesJoin
<1>8. Piece(h \o c \o t \o s)
  BY <1>4, <1>7, PiecesJoin
<1>9. Piece(h \o c \o t \o s \o k)
  BY <1>4, <1>8, PiecesJoin
<1>10. Piece(h \o c \o t \o s \o k \o b)
  BY <1>4, <1>9, PiecesJoin
<1> QED
  BY <1>5, <1>10

LEMMA FollowsTail ==
    ASSUME NEW s \in Seq(Kinds), s # <<>>, NEW a, NEW b, Follows(s, a, b)
    PROVE  /\ Follows(Tail(s), a, b)
           /\ s[1] = a => Tail(s) # <<>> /\ Tail(s)[1] = b
<1> DEFINE t == Tail(s)
<1>1. /\ t \in Seq(Kinds) /\ Len(s) \in Nat \ {0} /\ Len(t) = Len(s) - 1
      /\ \A i \in 1..(Len(s) - 1) : t[i] = s[i + 1]
  BY TailFacts
<1> HIDE DEF t
<1>2. ASSUME NEW i \in 1..Len(t), t[i] = a PROVE i < Len(t) /\ t[i + 1] = b
  <2>1. i + 1 \in 1..Len(s) /\ s[i + 1] = a
    BY <1>1, <1>2
  <2>2. i + 1 < Len(s) /\ s[(i + 1) + 1] = b
    BY <2>1 DEF Follows
  <2> QED
    BY <1>1, <2>2
<1>3. ASSUME s[1] = a PROVE t # <<>> /\ t[1] = b
  <2>1. 1 \in 1..Len(s)
    BY <1>1
  <2>2. 1 < Len(s) /\ s[1 + 1] = b
    BY <1>3, <2>1 DEF Follows
  <2>3. Len(t) # 0 /\ t[1] = b
    BY <1>1, <2>2
  <2> QED
    BY <2>3, LenNotZero
<1> QED
  BY <1>2, <1>3 DEF Follows, t

(* Taking one step out of the outbox leaves the rest in order.             *)
LEMMA RestIsTogether ==
    ASSUME NEW s \in Seq(Kinds), StepsTogether(s), s # <<>>
    PROVE  /\ Tail(s) \in Seq(Kinds) /\ StepsTogether(Tail(s))
           /\ (Tail(s) # <<>> /\ Tail(s)[1] = "SnapRename") => s[1] = "SnapWrite"
           /\ s[1] = "SnapWrite" => Tail(s) # <<>> /\ Tail(s)[1] = "SnapRename"
           /\ s[1] = "SnapOpen" => Tail(s) # <<>> /\ Tail(s)[1] = "SnapWrite"
<1>1. /\ Tail(s) \in Seq(Kinds) /\ Len(s) \in Nat \ {0} /\ Len(Tail(s)) = Len(s) - 1
      /\ \A i \in 1..(Len(s) - 1) : Tail(s)[i] = s[i + 1]
  OBVIOUS
<1> DEFINE t == Tail(s)
<1>3. /\ Follows(t, "SnapOpen", "SnapWrite") /\ Follows(t, "SnapWrite", "SnapRename")
      /\ s[1] = "SnapWrite" => t # <<>> /\ t[1] = "SnapRename"
      /\ s[1] = "SnapOpen" => t # <<>> /\ t[1] = "SnapWrite"
  BY FollowsTail DEF StepsTogether
<1> HIDE DEF t
<1>2. /\ t \in Seq(Kinds) /\ Len(t) = Len(s) - 1 /\ \A i \in 1..(Len(s) - 1) : t[i] = s[i + 1]
  BY <1>1 DEF t
<1>4. ASSUME NEW i \in 2..Len(t), t[i] = "SnapRename" PROVE t[i - 1] = "SnapWrite"
  <2>1. i + 1 \in 2..Len(s) /\ s[i + 1] = "SnapRename"
    BY <1>1, <1>2, <1>4
  <2>2. s[(i + 1) - 1] = "SnapWrite"
    BY <2>1 DEF StepsTogether
  <2>3. i - 1 \in 1..(Len(s) - 1) /\ (i - 1) + 1 = (i + 1) - 1
    BY <1>1, <1>2
  <2> QED
    BY <1>2, <2>2, <2>3
<1>5. (t # <<>> /\ t[1] = "SnapRename") => s[1] = "SnapWrite"
  <2> SUFFICES ASSUME t # <<>>, t[1] = "SnapRename" PROVE s[1] = "SnapWrite"
    OBVIOUS
  <2>1. 2 \in 2..Len(s) /\ s[2] = "SnapRename"
    BY <1>1, <1>2
  <2>2. s[2 - 1] = "SnapWrite"
    BY <2>1 DEF StepsTogether
  <2> QED
    BY <2>2
<1> QED
  BY <1>2, <1>3, <1>4, <1>5 DEF StepsTogether, t

(* What is left of the outbox when a snapshot is given up after k steps.   *)
LEMMA RestAfterSnapshot ==
    ASSUME NEW s \in Seq(Kinds), StepsTogether(s), s # <<>>, NEW r,
           \/ s[1] = "SnapOpen" /\ r = Tail(Tail(Tail(s)))
           \/ s[1] = "SnapWrite" /\ r = Tail(Tail(s))
           \/ s[1] = "SnapRename" /\ r = Tail(s)
    PROVE  /\ r \in Seq(Kinds) /\ StepsTogether(r)
           /\ ~(r # <<>> /\ r[1] = "SnapRename")
<1>1. ASSUME NEW x \in Seq(Kinds), StepsTogether(x), x # <<>>, x[1] = "SnapRename"
      PROVE  /\ Tail(x) \in Seq(Kinds) /\ StepsTogether(Tail(x))
             /\ ~(Tail(x) # <<>> /\ Tail(x)[1] = "SnapRename")
  BY <1>1, RestIsTogether
<1>2. ASSUME NEW x \in Seq(Kinds), StepsTogether(x), x # <<>>, x[1] = "SnapWrite"
      PROVE  /\ Tail(Tail(x)) \in Seq(Kinds) /\ StepsTogether(Tail(Tail(x)))
             /\ ~(Tail(Tail(x)) # <<>> /\ Tail(Tail(x))[1] = "SnapRename")
  <2>1. /\ Tail(x) \in Seq(Kinds) /\ StepsTogether(Tail(x)) /\ Tail(x) # <<>>
        /\ Tail(x)[1] = "SnapRename"
    BY <1>2, RestIsTogether
  <2> QED
    BY <1>1, <2>1
<1>3. CASE s[1] = "SnapOpen" /\ r = Tail(Tail(Tail(s)))
  <2>1. /\ Tail(s) \in Seq(Kinds) /\ StepsTogether(Tail(s)) /\ Tail(s) # <<>>
        /\ Tail(s)[1] = "SnapWrite"
    BY <1>3, RestIsTogether
  <2> QED
    BY <1>2, <1>3, <2>1
<1> QED
  BY <1>1, <1>2, <1>3

-----------------------------------------------------------------------------
(* The engine's steps keep the engine's invariant.                         *)

LEMMA EngineInitHolds == EngineInit => EngineInv
<1> SUFFICES ASSUME EngineInit PROVE EngineInv
  OBVIOUS
<1>1. NewBook(DefaultInstrument) \in Books /\ NewBook(DefaultInstrument).from = {}
  BY NewBookType, EngineAssumption
<1>2. EngTypeOK
  <2>1. up \in BOOLEAN
    BY Zenon DEF EngineInit
  <2>2. cli \in Options /\ tracked \in Options /\ quiet \in {None, Some(TRUE), Some(FALSE)}
        /\ tmp \in Files /\ file \in Files /\ former \in Files /\ resumed \in WholeFiles
    BY DEF EngineInit, Options, Files, WholeFiles
  <2>3. outbox \in Seq(Kinds) /\ seq \in Nat
    BY DEF EngineInit
  <2> QED
    BY <1>1, <2>1, <2>2, <2>3, NoCountsFacts DEF EngineInit, EngTypeOK
<1>3. DiskInv
  BY DEF EngineInit, DiskInv, StepsTogether, Follows, Some, None
<1>4. LabelInv
  <2>1. ~IsSome(tracked) /\ book.from = {} /\ cli = None /\ tracked = None /\ resumed = None
    BY <1>1, SomeFacts DEF EngineInit
  <2>2. \A f \in {tmp, file, former, resumed} : f = None
    BY DEF EngineInit
  <2> QED
    BY <2>1, <2>2, SomeFacts DEF LabelInv
<1>5. LockInv
  BY SomeFacts, NoCountsFacts DEF EngineInit, LockInv
<1>6. ResumedInv
  BY SomeFacts DEF EngineInit, ResumedInv
<1> QED
  BY <1>2, <1>3, <1>4, <1>5, <1>6 DEF EngineInv

LEMMA OptType ==
    ASSUME NEW opt \in {None} \cup {Some(i) : i \in Symbols}
    PROVE  opt \in Options
BY EngineAssumption DEF Options

LEMMA HeaderIsTogether ==
    /\ <<"Header">> \in Seq(Kinds) /\ StepsTogether(<<"Header">>)
    /\ <<"Header">>[1] # "SnapRename"
BY DEF StepsTogether, Follows, Kinds

LEMMA StartKeeps ==
    ASSUME EngineInv, NEW opt \in {None} \cup {Some(i) : i \in Symbols}, Start(opt)
    PROVE  EngineInv'
<1> USE DEF EngineInv
<1>0. opt \in Options
  BY OptType
<1>1. NewBook(DefaultInstrument) \in Books /\ NewBook(DefaultInstrument).from = {}
  BY NewBookType, EngineAssumption
<1>2. EngTypeOK'
  <2>1. up' \in BOOLEAN
    BY Zenon DEF Start
  <2>2. quiet' \in {None, Some(TRUE), Some(FALSE)} /\ resumed' \in WholeFiles /\ seq' \in Nat
    BY DEF Start, WholeFiles
  <2>3. outbox' \in Seq(Kinds)
    BY HeaderIsTogether DEF Start
  <2> QED
    BY <1>0, <1>1, <2>1, <2>2, <2>3, NoCountsFacts DEF Start, EngTypeOK, diskVars
<1>3. DiskInv'
  BY HeaderIsTogether DEF DiskInv, Start, diskVars
<1>4. book'.from = {} /\ resumed' = None /\ up' /\ cli' = opt /\ tracked' = opt
      /\ UNCHANGED <<tmp, file, former>>
  BY <1>1 DEF Start, diskVars
<1>5. LabelInv'
  BY <1>4, SomeFacts DEF LabelInv
<1>6. LockInv'
  BY <1>4, SomeFacts, NoCountsFacts DEF LockInv, Start
<1>7. ResumedInv'
  BY <1>4, SomeFacts DEF ResumedInv
<1> QED
  BY <1>2, <1>3, <1>5, <1>6, <1>7

LEMMA ResumeKeeps ==
    ASSUME EngineInv, NEW opt \in {None} \cup {Some(i) : i \in Symbols}, Resume(opt)
    PROVE  EngineInv'
<1> USE DEF EngineInv
<1> DEFINE s == file[1]
<1>0. opt \in Options
  BY OptType
<1>1. s \in Snapshots /\ file = Some(s) /\ file \in WholeFiles /\ file # Some(Torn) /\ IsSome(file)
  BY FileFacts DEF Resume, Readable, EngTypeOK
<1>2. /\ book' = s.book /\ seq' = s.seq /\ resumed' = file /\ up' /\ cli' = opt
      /\ tracked' = Some(s.book.instrument) /\ UNCHANGED <<tmp, file, former, powerLost>>
      /\ outbox' = <<"Header">> /\ counts' = NoCounts /\ quiet' = None
  BY <1>1 DEF Resume, ResumedSeq, diskVars
<1> HIDE DEF s
<1>3. s.book \in Books /\ s.seq \in Nat /\ s.book.instrument \in Instruments
  BY <1>1 DEF Snapshots, Books
<1>4. EngTypeOK'
  <2>1. up' \in BOOLEAN
    BY Zenon DEF Resume
  <2>2. tracked' \in Options
    BY <1>2, <1>3 DEF Options
  <2>3. outbox' \in Seq(Kinds) /\ quiet' \in {None, Some(TRUE), Some(FALSE)}
    BY <1>2, HeaderIsTogether
  <2> QED
    BY <1>0, <1>1, <1>2, <1>3, <2>1, <2>2, <2>3, NoCountsFacts DEF EngTypeOK
<1>5. DiskInv'
  BY <1>2, HeaderIsTogether DEF DiskInv
<1>6. LabelInv'
  <2>1. ~s.pinned => s.book.from \subseteq {s.book.instrument}
    BY <1>1 DEF LabelInv
  <2>2. ~ResumedPinned' => ~s.pinned
    BY <1>1, <1>2, SomeFacts DEF ResumedPinned
  <2>3. tracked'[1] = s.book.instrument
    BY <1>2, SomeFacts
  <2>4. \A f \in {tmp', file', former', resumed'} : f \in {tmp, file, former}
    BY <1>2
  <2>5. \A f \in {tmp', file', former', resumed'} : \A x \in Snapshots :
            (f = Some(x) /\ ~x.pinned) => x.book.from \subseteq {x.book.instrument}
    BY <2>4 DEF LabelInv
  <2> QED
    BY <1>2, <2>1, <2>2, <2>3, <2>5 DEF LabelInv
<1>7. LockInv'
  BY <1>1, <1>2, SomeFacts, NoCountsFacts DEF LockInv
<1>8. ResumedInv'
  <2>1. resumed'[1] = s
    BY <1>1, <1>2, SomeFacts
  <2> QED
    BY <1>2, <1>3, <2>1 DEF ResumedInv
<1> QED
  BY <1>4, <1>5, <1>6, <1>7, <1>8

(* An engine without a lock, or one that gives it up, was started without  *)
(* --symbol.                                                               *)
LEMMA UnlockedHasNoSymbol ==
    ASSUME EngineInv, Rearms \/ ~IsSome(tracked)
    PROVE  cli = None
<1>1. CASE Rearms
  BY <1>1 DEF Rearms, IsSome
<1>2. CASE ~IsSome(tracked)
  BY <1>2, SomeFacts DEF EngineInv, LockInv, IsSome
<1> QED
  BY <1>1, <1>2

(* An event that is taken goes into the book.                              *)
LEMMA TakeFacts ==
    ASSUME NEW b \in Books, NEW i \in Instruments, NEW header, NEW trade, NEW due,
           seq \in Nat, Take(b, i, header, trade, due)
    PROVE  /\ book' \in Books /\ book'.from = b.from \cup {i}
           /\ book'.instrument = b.instrument /\ seq' \in Nat /\ seq' = seq + 1
           /\ outbox' \in Seq(Kinds) /\ StepsTogether(outbox')
           /\ outbox' # <<>> => outbox'[1] # "SnapRename"
<1>1. Piece(outbox')
  BY WorkIsPiece DEF Take
<1>2. book' = [b EXCEPT !.from = @ \cup {i}] /\ seq' = seq + 1
  BY DEF Take
<1>3. book' \in Books /\ book'.from = b.from \cup {i} /\ book'.instrument = b.instrument
  BY <1>2 DEF Books
<1>4. seq' \in Nat
  BY <1>2
<1> QED
  BY <1>1, <1>2, <1>3, <1>4 DEF Piece

LEMMA EventKeeps ==
    ASSUME EngineInv, NEW i \in Instruments, NEW trade \in BOOLEAN, NEW due \in Dues,
           Event(i, trade, due)
    PROVE  EngineInv'
<1> USE DEF EngineInv
<1>0. /\ UNCHANGED <<up, tmp, file, former, powerLost, resumed>> /\ up /\ outbox = <<>>
      /\ book \in Books /\ seq \in Nat /\ book.instrument \in Instruments
      /\ LockThreshold \in Nat /\ counts \in [Instruments -> Nat]
  BY EngineAssumption DEF Event, diskVars, EngTypeOK, Books
<1>1. ResumedPinned' = ResumedPinned
  BY <1>0 DEF ResumedPinned
<1>5. seq' = seq + 1 => ResumedInv'
  <2>1. IsSome(resumed) => resumed[1].seq \in Nat /\ seq >= resumed[1].seq
    BY WholeFileFacts DEF EngTypeOK, Snapshots, ResumedInv
  <2> QED
    BY <1>0, <2>1 DEF ResumedInv
<1>2. CASE Skip /\ UNCHANGED lockVars
  <2>1. UNCHANGED <<book, seq, outbox, cli, tracked, counts, quiet>>
    BY <1>2 DEF Skip, bookVars, lockVars
  <2> QED
    BY <1>0, <1>1, <2>1 DEF EngTypeOK, DiskInv, LabelInv, LockInv, ResumedInv
<1>3. CASE /\ IsSome(tracked) /\ tracked = Some(i) /\ Take(book, i, FALSE, trade, due)
           /\ quiet' = IF trade THEN Some(FALSE) ELSE quiet
           /\ UNCHANGED <<cli, tracked, counts>>
  <2>1. /\ book' \in Books /\ book'.from = book.from \cup {i}
        /\ book'.instrument = book.instrument /\ seq' \in Nat /\ seq' = seq + 1
        /\ outbox' \in Seq(Kinds) /\ StepsTogether(outbox')
        /\ outbox' # <<>> => outbox'[1] # "SnapRename"
    BY <1>0, <1>3, TakeFacts
  <2>2. quiet' \in {None, Some(TRUE), Some(FALSE)}
    BY <1>3, Zenon DEF EngTypeOK
  <2>3. EngTypeOK'
    BY <1>0, <1>3, <2>1, <2>2 DEF EngTypeOK
  <2>4. DiskInv'
    BY <1>0, <2>1 DEF DiskInv
  <2>5. tracked[1] = i
    BY <1>3, SomeFacts
  <2>6. LabelInv'
    BY <1>0, <1>1, <1>3, <2>1, <2>5 DEF LabelInv
  <2>7. LockInv'
    BY <1>0, <1>3 DEF LockInv
  <2> QED
    BY <1>5, <2>1, <2>3, <2>4, <2>6, <2>7
<1>4. ASSUME NEW c, c \in {NoCounts, counts}, cli = None, UnlockedEvent(c, i, trade, due)
      PROVE  EngineInv'
  <2>0. c \in [Instruments -> Nat] /\ \A j \in Instruments : c[j] < LockThreshold
    BY <1>0, <1>4, NoCountsFacts DEF LockInv
  <2>1. CASE trade /\ c[i] + 1 >= LockThreshold
    <3>1. /\ Take(LockedBook(i), i, TRUE, trade, due) /\ tracked' = Some(i)
          /\ counts' = NoCounts /\ quiet' = Some(FALSE) /\ cli' = None
      BY <1>4, <2>1 DEF UnlockedEvent
    <3>2. LockedBook(i) \in Books /\ LockedBook(i).from = {} /\ LockedBook(i).instrument = i
      BY NewBookType DEF LockedBook
    <3>3. /\ book' \in Books /\ book'.from = {i} /\ book'.instrument = i /\ seq' \in Nat
          /\ seq' = seq + 1
          /\ outbox' \in Seq(Kinds) /\ StepsTogether(outbox')
          /\ outbox' # <<>> => outbox'[1] # "SnapRename"
      BY <1>0, <3>1, <3>2, TakeFacts
    <3>4. EngTypeOK'
      BY <1>0, <3>1, <3>3, NoCountsFacts DEF EngTypeOK, Options
    <3>5. DiskInv'
      BY <1>0, <3>3 DEF DiskInv
    <3>6. tracked'[1] = i /\ IsSome(tracked') /\ ~IsSome(cli')
      BY <3>1, SomeFacts
    <3>7. LabelInv'
      BY <1>0, <1>1, <3>1, <3>3, <3>6 DEF LabelInv
    <3>8. LockInv'
      BY <1>0, <3>1, <3>6, NoCountsFacts DEF LockInv
    <3> QED
      BY <1>5, <3>3, <3>4, <3>5, <3>7, <3>8
  <2>2. CASE ~(trade /\ c[i] + 1 >= LockThreshold)
    <3>1. /\ UNCHANGED <<book, seq, outbox>> /\ tracked' = None /\ quiet' = None /\ cli' = None
          /\ counts' = [c EXCEPT ![i] = IF trade THEN @ + 1 ELSE @]
      BY <1>4, <2>2 DEF UnlockedEvent, Skip, bookVars
    <3>2. counts' \in [Instruments -> Nat] /\ \A j \in Instruments : counts'[j] < LockThreshold
      BY <1>0, <2>0, <2>2, <3>1
    <3>3. EngTypeOK'
      BY <1>0, <3>1, <3>2 DEF EngTypeOK, Options
    <3>4. ~IsSome(tracked') /\ ~IsSome(cli') /\ ~IsSome(quiet') /\ ~IsSome(cli)
      BY <1>4, <3>1, SomeFacts
    <3> QED
      BY <1>0, <1>1, <3>1, <3>2, <3>3, <3>4 DEF DiskInv, LabelInv, LockInv, ResumedInv
  <2> QED
    BY <2>1, <2>2
<1> QED
  <2>1. CASE Rearms \/ ~IsSome(tracked)
    BY <2>1, <1>4, UnlockedHasNoSymbol DEF Event
  <2>2. CASE ~(Rearms \/ ~IsSome(tracked))
    BY <2>2, <1>2, <1>3 DEF Event, LockedEvent
  <2> QED
    BY <2>1, <2>2

(* The outbox without its first step.                                      *)
LEMMA NextStep ==
    ASSUME EngineInv, outbox # <<>>
    PROVE  /\ Tail(outbox) \in Seq(Kinds) /\ StepsTogether(Tail(outbox))
           /\ (Tail(outbox) # <<>> /\ Tail(outbox)[1] = "SnapRename") => outbox[1] = "SnapWrite"
BY RestIsTogether DEF EngineInv, EngTypeOK, DiskInv

LEMMA PublishKeeps ==
    ASSUME EngineInv, Publish
    PROVE  EngineInv'
<1> USE DEF EngineInv
<1>1. /\ UNCHANGED <<up, cli, tracked, counts, quiet, book, seq, tmp, file, former, powerLost,
                   resumed>>
      /\ outbox # <<>> /\ outbox' = Tail(outbox) /\ outbox[1] # "SnapWrite"
  BY DEF Publish, lockVars, bookVars, diskVars, EngTypeOK
<1>2. EngTypeOK' /\ DiskInv'
  BY <1>1, NextStep DEF EngTypeOK, DiskInv
<1>3. LockInv' /\ ResumedInv'
  BY <1>1 DEF LockInv, ResumedInv
<1>4. LabelInv'
  BY <1>1 DEF LabelInv, ResumedPinned
<1> QED
  BY <1>2, <1>3, <1>4

LEMMA SnapshotKeeps ==
    ASSUME EngineInv, SnapOpen \/ SnapWrite \/ SnapRename \/ SnapFails
    PROVE  EngineInv'
<1> USE DEF EngineInv
<1>1. /\ UNCHANGED <<up, cli, tracked, counts, quiet, book, seq, powerLost, resumed>>
      /\ outbox # <<>> /\ Head(outbox) = outbox[1] /\ outbox \in Seq(Kinds)
  BY DEF SnapOpen, SnapWrite, SnapRename, SnapFails, lockVars, bookVars, diskVars, EngTypeOK
<1>2. LockInv' /\ ResumedInv'
  BY <1>1 DEF LockInv, ResumedInv
<1>3. ResumedPinned' = ResumedPinned
  BY <1>1 DEF ResumedPinned
<1>4. CASE SnapOpen
  <2>1. /\ outbox' = Tail(outbox) /\ tmp' = Some(Torn) /\ UNCHANGED <<file, former>>
        /\ outbox[1] = "SnapOpen"
    BY <1>1, <1>4 DEF SnapOpen, OpenedFile
  <2>2. EngTypeOK' /\ DiskInv'
    BY <1>1, <2>1, NextStep DEF EngTypeOK, DiskInv, Files
  <2>3. \A x \in Snapshots : tmp' # Some(x)
    BY <2>1, TornIsNoSnapshot
  <2>4. LabelInv'
    BY <1>1, <1>3, <2>1, <2>3 DEF LabelInv
  <2> QED
    BY <1>2, <2>2, <2>4
<1>5. CASE SnapWrite
  <2> DEFINE x == [seq |-> seq, book |-> book, pinned |-> IsSome(cli) \/ ResumedPinned]
  <2>1. /\ outbox' = Tail(outbox) /\ tmp' = Some(x) /\ UNCHANGED <<file, former>>
        /\ outbox[1] = "SnapWrite"
    BY <1>1, <1>5 DEF SnapWrite
  <2>2. (IsSome(cli) \/ ResumedPinned) \in BOOLEAN
    BY Zenon DEF IsSome, ResumedPinned, LabelInv
  <2>3. x \in Snapshots /\ x.book = book /\ (x.pinned <=> (IsSome(cli) \/ ResumedPinned))
    BY <2>2 DEF Snapshots, EngTypeOK
  <2> HIDE DEF x
  <2>4. EngTypeOK' /\ DiskInv'
    BY <1>1, <2>1, <2>3, NextStep DEF EngTypeOK, DiskInv, Files, WholeFiles
  <2>5. ~x.pinned => x.book.from \subseteq {x.book.instrument}
    BY <2>3 DEF LabelInv
  <2>6. \A y \in Snapshots : tmp' = Some(y) => y = x
    BY <2>1, SomeFacts
  <2>7. LabelInv'
    BY <1>1, <1>3, <2>1, <2>5, <2>6 DEF LabelInv
  <2> QED
    BY <1>2, <2>4, <2>7
<1>6. CASE SnapRename
  <2>1. /\ outbox' = Tail(outbox) /\ file' = tmp /\ tmp' = None /\ former' = file
        /\ outbox[1] = "SnapRename"
    BY <1>1, <1>6 DEF SnapRename
  <2>2. tmp # Some(Torn)
    BY <1>1, <2>1, TornIsNoSnapshot DEF DiskInv
  <2>3. EngTypeOK' /\ DiskInv'
    BY <1>1, <2>1, <2>2, NextStep DEF EngTypeOK, DiskInv, Files, WholeFiles
  <2>4. \A y \in Snapshots : tmp' # Some(y)
    BY <2>1, SomeFacts
  <2>5. LabelInv'
    BY <1>1, <1>3, <2>1, <2>4 DEF LabelInv
  <2> QED
    BY <1>2, <2>3, <2>5
<1>7. CASE SnapFails
  <2>1. UNCHANGED <<tmp, file, former>>
    BY <1>7 DEF SnapFails, diskVars
  <2>2. /\ outbox' \in Seq(Kinds) /\ StepsTogether(outbox')
        /\ ~(outbox' # <<>> /\ outbox'[1] = "SnapRename")
    BY <1>1, <1>7, RestAfterSnapshot DEF SnapFails, DiskInv
  <2>6. EngTypeOK' /\ DiskInv'
    BY <1>1, <2>1, <2>2 DEF EngTypeOK, DiskInv
  <2>7. LabelInv'
    BY <1>1, <1>3, <2>1 DEF LabelInv
  <2> QED
    BY <1>2, <2>6, <2>7
<1> QED
  BY <1>4, <1>5, <1>6, <1>7

LEMMA DownKeeps ==
    ASSUME EngineInv, Exit \/ PowerLoss
    PROVE  EngineInv'
<1> USE DEF EngineInv
<1>0. /\ up' = FALSE /\ cli' = None /\ tracked' = None /\ counts' = NoCounts /\ quiet' = None
      /\ book' = NewBook(DefaultInstrument) /\ seq' = 0 /\ outbox' = <<>> /\ resumed' = None
  BY DEF Exit, PowerLoss, Down
<1>1. book' \in Books /\ book'.from = {}
  BY <1>0, NewBookType, EngineAssumption
<1>2. /\ tmp' \in {tmp, None} /\ file' \in {file, former, Some(Torn), None}
      /\ former' \in {former, file'}
      /\ Some(Torn) \in {file', former'} => powerLost'
  BY SomeFacts DEF Exit, PowerLoss, diskVars, DiskInv
<1>3. EngTypeOK'
  <2>1. up' \in BOOLEAN
    BY <1>0, Zenon
  <2>2. tmp' \in Files /\ file' \in Files /\ former' \in Files /\ resumed' \in WholeFiles
    BY <1>0, <1>2 DEF EngTypeOK, Files, WholeFiles
  <2>3. cli' \in Options /\ tracked' \in Options /\ quiet' \in {None, Some(TRUE), Some(FALSE)}
    BY <1>0 DEF Options
  <2> QED
    BY <1>0, <1>1, <2>1, <2>2, <2>3, NoCountsFacts DEF EngTypeOK
<1>4. DiskInv'
  BY <1>0, <1>2 DEF DiskInv, StepsTogether, Follows
<1>5. \A f \in {tmp', file', former', resumed'} : \A x \in Snapshots :
          f = Some(x) => f \in {tmp, file, former}
  BY <1>0, <1>2, TornIsNoSnapshot, SomeFacts
<1>6. LabelInv'
  BY <1>0, <1>1, <1>5, SomeFacts DEF LabelInv
<1>7. LockInv'
  BY <1>0, SomeFacts, NoCountsFacts DEF LockInv
<1>8. ResumedInv'
  BY <1>0, SomeFacts DEF ResumedInv
<1> QED
  BY <1>3, <1>4, <1>6, <1>7, <1>8

LEMMA EngineNextKeeps == EngineInv /\ [Next]_vars => EngineInv'
<1> SUFFICES ASSUME EngineInv, [Next]_vars PROVE EngineInv'
  OBVIOUS
<1>1. CASE Restart
  BY <1>1, StartKeeps, ResumeKeeps DEF Restart
<1>2. CASE Quieten
  <2>1. /\ UNCHANGED <<up, cli, tracked, counts, book, seq, outbox, tmp, file, former,
                     powerLost, resumed>>
        /\ quiet = Some(FALSE) /\ quiet' = Some(TRUE)
    BY <1>2 DEF Quieten, bookVars, diskVars
  <2> QED
    BY <2>1, SomeFacts DEF EngineInv, EngTypeOK, DiskInv, LabelInv, LockInv, ResumedInv,
                            ResumedPinned
<1>3. CASE \E i \in Instruments, trade \in BOOLEAN, due \in Dues : Event(i, trade, due)
  BY <1>3, EventKeeps
<1>4. CASE UNCHANGED <<up, lockVars, bookVars, outbox, diskVars, resumed>>
  <2>1. UNCHANGED <<up, cli, tracked, counts, quiet, book, seq, outbox, tmp, file, former,
                    powerLost, resumed>>
    BY <1>4 DEF lockVars, bookVars, diskVars
  <2>2. EngTypeOK' /\ DiskInv'
    BY <2>1 DEF EngineInv, EngTypeOK, DiskInv
  <2>3. LockInv' /\ ResumedInv'
    BY <2>1 DEF EngineInv, LockInv, ResumedInv
  <2>4. LabelInv'
    BY <2>1 DEF EngineInv, LabelInv, ResumedPinned
  <2> QED
    BY <2>2, <2>3, <2>4 DEF EngineInv
<1>5. CASE (\E i \in Named : Harvest(i)) \/ UNCHANGED engVars
  <2>1. UNCHANGED <<up, lockVars, bookVars, outbox, diskVars, resumed>>
    BY <1>5 DEF Harvest, engVars
  <2> QED
    BY <1>4, <2>1
<1> QED
  BY <1>1, <1>2, <1>3, <1>5, PublishKeeps, SnapshotKeeps, DownKeeps DEF Next, Link, vars

LEMMA EngineInvAlways == Spec => []EngineInv
<1>1. Init => EngineInv
  BY EngineInitHolds DEF Init
<1>2. EngineInv /\ [Next]_vars => EngineInv'
  BY EngineNextKeeps
<1> QED
  BY <1>1, <1>2, PTL DEF Spec

-----------------------------------------------------------------------------
(* Frames on their way, and the view.                                      *)

(* A header names its own instrument, or none.                             *)
Frames == {f \in [kind : Kinds, no : Nat, inst : Options, sym : Options, dropped : Nat] :
              f.sym \in {None, f.inst}}

SomeFrame == {None} \cup {Some(f) : f \in Frames}

Views == [symbol : Options, instrument : Options, header : SomeFrame, tape : Seq(Frames),
          tick : {None} \cup {Some(t) : t \in [frame : Frames, before : Nat, whole : BOOLEAN]}]

LinkTypeOK ==
    /\ chan \in Seq(Frames) /\ wire \in Seq(Frames) /\ inHand \in SomeFrame
    /\ dropped \in Nat /\ sent \in Nat /\ base \in Nat /\ got \in Nat /\ base <= sent
    /\ server \in {"accepting", "serving"} /\ client \in {"down", "queued", "served"}
    /\ stale \in BOOLEAN /\ eof \in BOOLEAN /\ broken \in BOOLEAN /\ dead \in Nat
    /\ view \in Views
    /\ Len(chan) <= Capacity /\ Len(wire) <= WireCapacity

(* Who is connected to whom.                                               *)
ConnInv ==
    /\ server = "serving" => up
    /\ IsSome(inHand) => server = "serving"
    /\ client # "served" => wire = <<>> /\ ~eof
    /\ (server = "serving" /\ ~stale) => client = "served" /\ ~eof
    /\ stale => broken

Rising(s) == \A i, j \in 1..Len(s) : i < j => s[i].no < s[j].no

Precedes(s, t) == \A i \in 1..Len(s), j \in 1..Len(t) : s[i].no < t[j].no

UpTo(s, n) == \A i \in 1..Len(s) : s[i].no <= n

Above(s, n) == \A i \in 1..Len(s) : s[i].no > n

(* Frames are in the order of their numbers on the whole way, from the     *)
(* channel to the tape; those of earlier engines are on the socket only,   *)
(* and only until its end is read.                                         *)
OrderInv ==
    /\ Rising(wire) /\ Rising(chan)
    /\ Precedes(wire, inHand) /\ Precedes(wire, chan) /\ Precedes(inHand, chan)
    /\ UpTo(wire, sent) /\ UpTo(inHand, sent) /\ UpTo(chan, sent)
    /\ Above(inHand, base) /\ Above(chan, base)
    /\ IF eof THEN UpTo(wire, base) ELSE Above(wire, base)

TapeInv ==
    /\ Rising(view.tape) /\ Len(view.tape) <= TradeRingCap /\ UpTo(view.tape, sent)
    /\ Precedes(view.tape, wire) /\ Precedes(view.tape, inHand) /\ Precedes(view.tape, chan)

Lead == IF eof THEN 0 ELSE Len(wire)

TickRight(f, ahead) == f.kind = "Tick" => f.no = 1 + base + got + ahead + f.dropped

CountInv ==
    /\ ~broken =>
        /\ sent = base + got + Lead + Len(inHand) + Len(chan) + dropped
        /\ ~eof => \A i \in 1..Len(wire) : TickRight(wire[i], i - 1)
        /\ \A i \in 1..Len(inHand) : TickRight(inHand[i], Lead)
        /\ \A i \in 1..Len(chan) : TickRight(chan[i], Lead + Len(inHand) + i - 1)
    /\ TickReportsMisses

(* A header that gave a name left name and id on display that fit.         *)
NameInv ==
    (IsSome(view.header) /\ IsSome(view.header[1].sym)) => view.symbol = view.instrument

LinkInv == LinkTypeOK /\ ConnInv /\ OrderInv /\ TapeInv /\ CountInv /\ NameInv

-----------------------------------------------------------------------------
(* Lemmas about sequences of frames.                                       *)

LEMMA FrameNo == ASSUME NEW f \in Frames PROVE f.no \in Nat
BY DEF Frames

LEMMA FrameNos ==
    ASSUME NEW s \in Seq(Frames)
    PROVE  Len(s) \in Nat /\ \A i \in 1..Len(s) : s[i] \in Frames /\ s[i].no \in Nat
<1>1. Len(s) \in Nat /\ \A i \in 1..Len(s) : s[i] \in Frames
  OBVIOUS
<1> QED
  BY <1>1, FrameNo

LEMMA NoFrames ==
    ASSUME NEW s, NEW n
    PROVE  /\ Len(None) = 0 /\ None \in Seq(Frames) /\ Rising(None)
           /\ Precedes(None, s) /\ Precedes(s, None) /\ UpTo(None, n) /\ Above(None, n)
<1>1. Len(None) = 0 /\ None \in Seq(Frames)
  BY DEF None
<1> QED
  BY <1>1 DEF Rising, Precedes, UpTo, Above

LEMMA OneFrame ==
    ASSUME NEW f \in Frames
    PROVE  /\ Len(Some(f)) = 1 /\ Some(f)[1] = f /\ Some(f) \in Seq(Frames) /\ Some(f) \in SomeFrame
           /\ \A s \in Seq(Frames) : s \o Some(f) = Append(s, f)
BY DEF Some, SomeFrame

LEMMA HandCases ==
    ASSUME inHand \in SomeFrame
    PROVE  /\ inHand \in Seq(Frames) /\ Len(inHand) \in Nat
           /\ ~IsSome(inHand) => inHand = None /\ Len(inHand) = 0
           /\ IsSome(inHand) => \E f \in Frames : inHand = Some(f)
<1>1. CASE inHand = None
  BY <1>1, NoFrames DEF IsSome
<1>2. CASE inHand # None
  <2>1. PICK f \in Frames : inHand = Some(f)
    BY <1>2 DEF SomeFrame
  <2> QED
    BY <1>2, <2>1, OneFrame DEF IsSome
<1> QED
  BY <1>1, <1>2

(* The rest of a sequence.                                                 *)
LEMMA TailOrder ==
    ASSUME NEW s \in Seq(Frames), s # <<>>, NEW t \in Seq(Frames), NEW n \in Nat
    PROVE  /\ Rising(s) => Rising(Tail(s)) /\ Precedes(Some(s[1]), Tail(s))
           /\ Precedes(s, t) => Precedes(Tail(s), t) /\ Precedes(Some(s[1]), t)
           /\ Precedes(t, s) => Precedes(t, Tail(s)) /\ Precedes(t, Some(s[1]))
           /\ UpTo(s, n) => UpTo(Tail(s), n) /\ UpTo(Some(s[1]), n)
           /\ Above(s, n) => Above(Tail(s), n) /\ Above(Some(s[1]), n)
<1>1. /\ Len(s) \in Nat \ {0} /\ s[1] \in Frames
      /\ Tail(s) \in Seq(Frames) /\ Len(Tail(s)) = Len(s) - 1
      /\ \A i \in 1..(Len(s) - 1) : Tail(s)[i] = s[i + 1]
  BY TailFacts
<1>2. Len(Some(s[1])) = 1 /\ Some(s[1])[1] = s[1]
  BY <1>1, OneFrame
<1> DEFINE r == Tail(s)
           h == Some(s[1])
<1>3. /\ Len(r) = Len(s) - 1 /\ \A i \in 1..(Len(s) - 1) : r[i] = s[i + 1]
      /\ Len(h) = 1 /\ h[1] = s[1] /\ 1 \in 1..Len(s)
      /\ \A i \in 1..Len(r) : i + 1 \in 1..Len(s) /\ r[i] = s[i + 1] /\ 1 < i + 1
      /\ \A i \in 1..Len(h) : h[i] = s[1]
  BY <1>1, <1>2
<1> HIDE DEF r, h
<1>4. Rising(s) => Rising(r) /\ Precedes(h, r)
  <2> SUFFICES ASSUME Rising(s) PROVE Rising(r) /\ Precedes(h, r)
    OBVIOUS
  <2>1. ASSUME NEW i \in 1..Len(r), NEW j \in 1..Len(r), i < j PROVE r[i].no < r[j].no
    <3>1. i + 1 < j + 1
      BY <2>1, <1>1, <1>3
    <3> QED
      BY <3>1, <1>3 DEF Rising
  <2>2. ASSUME NEW i \in 1..Len(h), NEW j \in 1..Len(r) PROVE h[i].no < r[j].no
    BY <1>3 DEF Rising
  <2> QED
    BY <2>1, <2>2 DEF Rising, Precedes
<1>5. Precedes(s, t) => Precedes(r, t) /\ Precedes(h, t)
  BY <1>3 DEF Precedes
<1>6. Precedes(t, s) => Precedes(t, r) /\ Precedes(t, h)
  BY <1>3 DEF Precedes
<1>7. (UpTo(s, n) => UpTo(r, n) /\ UpTo(h, n)) /\ (Above(s, n) => Above(r, n) /\ Above(h, n))
  BY <1>3 DEF UpTo, Above
<1> QED
  BY <1>4, <1>5, <1>6, <1>7 DEF r, h

(* A frame at the end of a sequence.                                       *)
LEMMA AppendOrder ==
    ASSUME NEW s \in Seq(Frames), NEW f \in Frames, NEW t \in Seq(Frames), NEW n \in Nat
    PROVE  /\ (Rising(s) /\ Precedes(s, Some(f))) => Rising(Append(s, f))
           /\ (Precedes(s, t) /\ Precedes(Some(f), t)) => Precedes(Append(s, f), t)
           /\ (Precedes(t, s) /\ Precedes(t, Some(f))) => Precedes(t, Append(s, f))
           /\ (UpTo(s, n) /\ f.no <= n) => UpTo(Append(s, f), n)
           /\ (Above(s, n) /\ f.no > n) => Above(Append(s, f), n)
<1> DEFINE a == Append(s, f)
           h == Some(f)
<1>1. /\ Len(s) \in Nat /\ Len(a) = Len(s) + 1
      /\ \A i \in 1..Len(s) : a[i] = s[i]
      /\ a[Len(s) + 1] = f
  BY AppendFacts
<1>2. Len(h) = 1 /\ h[1] = f /\ 1 \in 1..Len(h)
  BY OneFrame
<1> HIDE DEF a, h
<1>3. \A i \in 1..Len(a) : (i \in 1..Len(s) /\ a[i] = s[i]) \/ (i = Len(s) + 1 /\ a[i] = f)
  BY <1>1
<1>4. (Rising(s) /\ Precedes(s, h)) => Rising(a)
  <2> SUFFICES ASSUME Rising(s), Precedes(s, h),
                      NEW i \in 1..Len(a), NEW j \in 1..Len(a), i < j
               PROVE  a[i].no < a[j].no
    BY DEF Rising
  <2>1. i \in 1..Len(s) /\ a[i] = s[i]
    BY <1>1, <1>3
  <2>2. CASE j \in 1..Len(s)
    BY <2>1, <2>2, <1>1 DEF Rising
  <2>3. CASE j \notin 1..Len(s)
    BY <2>1, <2>3, <1>2, <1>3 DEF Precedes
  <2> QED
    BY <2>2, <2>3
<1>5. (Precedes(s, t) /\ Precedes(h, t)) => Precedes(a, t)
  BY <1>2, <1>3 DEF Precedes
<1>6. (Precedes(t, s) /\ Precedes(t, h)) => Precedes(t, a)
  BY <1>2, <1>3 DEF Precedes
<1>7. ((UpTo(s, n) /\ f.no <= n) => UpTo(a, n)) /\ ((Above(s, n) /\ f.no > n) => Above(a, n))
  BY <1>3 DEF UpTo, Above
<1> QED
  BY <1>4, <1>5, <1>6, <1>7 DEF a, h

LEMMA BoundOrder ==
    ASSUME NEW s \in Seq(Frames), NEW m \in Nat, NEW n \in Nat, m <= n, UpTo(s, m)
    PROVE  UpTo(s, n) /\ \A f \in Frames : f.no > m => Precedes(s, Some(f))
<1>1. \A i \in 1..Len(s) : s[i].no \in Nat /\ s[i].no <= m
  BY FrameNos DEF UpTo
<1>2. UpTo(s, n)
  BY <1>1 DEF UpTo
<1>3. ASSUME NEW f \in Frames, f.no > m PROVE Precedes(s, Some(f))
  <2>1. Len(Some(f)) = 1 /\ Some(f)[1] = f /\ f.no \in Nat
    BY OneFrame, FrameNo
  <2>2. \A j \in 1..Len(Some(f)) : Some(f)[j] = f
    BY <2>1
  <2> QED
    BY <1>1, <1>3, <2>1, <2>2 DEF Precedes
<1> QED
  BY <1>2, <1>3

(* How many frames of this engine are on the socket.                       *)
LEMMA LeadIsCount ==
    ASSUME LinkTypeOK, OrderInv
    PROVE  Cardinality({i \in DOMAIN wire : wire[i].no > base}) = Lead
<1>1. /\ Len(wire) \in Nat /\ DOMAIN wire = 1..Len(wire)
      /\ \A i \in 1..Len(wire) : wire[i].no \in Nat
  BY FrameNos DEF LinkTypeOK
<1>2. CASE eof
  <2>1. {i \in DOMAIN wire : wire[i].no > base} = {}
    BY <1>1, <1>2 DEF OrderInv, UpTo, LinkTypeOK
  <2> QED
    BY <1>2, <2>1, FS_EmptySet DEF Lead
<1>3. CASE ~eof
  <2>1. {i \in DOMAIN wire : wire[i].no > base} = 1..Len(wire)
    BY <1>1, <1>3 DEF OrderInv, Above
  <2>2. Cardinality(1..Len(wire)) = Len(wire)
    <3>0. 1 \in Int /\ Len(wire) \in Int
      BY <1>1
    <3>1. Cardinality(1..Len(wire)) = IF 1 > Len(wire) THEN 0 ELSE Len(wire) - 1 + 1
      BY <3>0, FS_Interval, Zenon
    <3> QED
      BY <1>1, <3>1
  <2> QED
    BY <1>3, <2>1, <2>2 DEF Lead
<1> QED
  BY <1>2, <1>3

-----------------------------------------------------------------------------
(* The way of a frame: every step keeps the invariant.                     *)

LEMMA LinkFacts ==
    ASSUME LinkInv
    PROVE  /\ chan \in Seq(Frames) /\ wire \in Seq(Frames) /\ inHand \in Seq(Frames)
           /\ view.tape \in Seq(Frames) /\ inHand \in SomeFrame
           /\ Len(chan) \in Nat /\ Len(wire) \in Nat /\ Len(inHand) \in Nat /\ Lead \in Nat
           /\ dropped \in Nat /\ sent \in Nat /\ base \in Nat /\ got \in Nat /\ base <= sent
           /\ Capacity \in Nat /\ WireCapacity \in Nat /\ TradeRingCap \in Nat \ {0}
<1>1. inHand \in Seq(Frames) /\ Len(inHand) \in Nat
  BY HandCases DEF LinkInv, LinkTypeOK
<1>2. view.tape \in Seq(Frames)
  BY DEF LinkInv, LinkTypeOK, Views
<1>3. chan \in Seq(Frames) /\ wire \in Seq(Frames) /\ Len(chan) \in Nat /\ Len(wire) \in Nat
  BY DEF LinkInv, LinkTypeOK
<1>4. Lead \in Nat
  BY <1>3 DEF Lead
<1> QED
  BY <1>1, <1>2, <1>3, <1>4, ChannelAssumption DEF LinkInv, LinkTypeOK

LEMMA TelemetryInitHolds == TelemetryInit => LinkInv
<1> SUFFICES ASSUME TelemetryInit PROVE LinkInv
  OBVIOUS
<1>0. /\ chan = None /\ wire = None /\ inHand = None /\ view.tape = None /\ view.tick = None
      /\ sent = 0 /\ base = 0 /\ got = 0 /\ dropped = 0 /\ view.instrument = None
      /\ view.header = None
  BY DEF TelemetryInit, None
<1>1. LinkTypeOK
  <2>1. stale \in BOOLEAN /\ eof \in BOOLEAN /\ broken \in BOOLEAN
    BY Zenon DEF TelemetryInit
  <2>2. view \in Views
    BY DEF TelemetryInit, Views, Options, SomeFrame, None
  <2> QED
    BY <1>0, <2>1, <2>2, NoFrames, ChannelAssumption DEF TelemetryInit, LinkTypeOK, SomeFrame
<1>2. ConnInv
  BY SomeFacts DEF TelemetryInit, ConnInv
<1>3. OrderInv /\ TapeInv
  BY <1>0, NoFrames, ChannelAssumption DEF OrderInv, TapeInv
<1>4. CountInv
  <2>1. Len(chan) = 0 /\ Len(wire) = 0 /\ Len(inHand) = 0 /\ Lead = 0
    BY <1>0, NoFrames DEF Lead
  <2>2. DOMAIN view.tick = {}
    BY <1>0 DEF None
  <2> QED
    BY <1>0, <2>1, <2>2 DEF CountInv, TickReportsMisses
<1>5. NameInv
  BY <1>0, SomeFacts DEF NameInv
<1> QED
  BY <1>1, <1>2, <1>3, <1>4, <1>5 DEF LinkInv

(* try_send.                                                               *)
LEMMA FrameFacts ==
    ASSUME NEW kind \in Kinds, tracked \in Options, dropped \in Nat, sent \in Nat
    PROVE  LET f == Frame(kind, tracked, SymbolOfTracked, TickDrops)
           IN  /\ f \in Frames /\ f.no = sent + 1 /\ f.kind = kind
               /\ kind = "Tick" => f.dropped = dropped /\ f.inst = tracked
               /\ kind = "Header" => f.inst = tracked
<1>1. SymbolOfTracked \in {None, tracked} /\ None \in Options
  BY DEF SymbolOfTracked, Options
<1> QED
  BY <1>1 DEF Frame, Frames, TickDrops

LEMMA TrySendKeeps ==
    ASSUME LinkInv, NEW f \in Frames, f.no = sent + 1, f.kind = "Tick" => f.dropped = dropped,
           TrySend(f), UNCHANGED <<linkVars, viewVars, up>>
    PROVE  LinkInv'
<1> USE DEF LinkInv
<1>0. /\ UNCHANGED <<server, inHand, stale, client, dead, wire, eof, broken, view, got, up, base>>
      /\ sent' = sent + 1
  BY DEF linkVars, viewVars, TrySend
<1>1. /\ chan \in Seq(Frames) /\ wire \in Seq(Frames) /\ inHand \in Seq(Frames)
      /\ view.tape \in Seq(Frames)
      /\ Len(chan) \in Nat /\ Len(wire) \in Nat /\ Len(inHand) \in Nat /\ Lead \in Nat
      /\ dropped \in Nat /\ sent \in Nat /\ base \in Nat /\ got \in Nat /\ base <= sent
      /\ Capacity \in Nat
  BY LinkFacts
<1>2. sent + 1 \in Nat /\ sent <= sent + 1 /\ f.no > base /\ f.no > sent
  BY <1>1
<1>3. /\ UpTo(wire, sent + 1) /\ UpTo(inHand, sent + 1) /\ UpTo(chan, sent + 1)
      /\ UpTo(view.tape, sent + 1) /\ Precedes(wire, Some(f)) /\ Precedes(inHand, Some(f))
      /\ Precedes(chan, Some(f)) /\ Precedes(view.tape, Some(f))
  BY <1>1, <1>2, BoundOrder DEF OrderInv, TapeInv
<1>4. ConnInv' /\ NameInv'
  BY <1>0 DEF ConnInv, NameInv
<1>5. Lead' = Lead
  BY <1>0 DEF Lead
<1>6. CASE HasRoom
  <2>1. chan' = Append(chan, f) /\ dropped' = dropped
    BY <1>6 DEF TrySend
  <2>2. /\ chan' \in Seq(Frames) /\ Len(chan') = Len(chan) + 1
        /\ \A i \in 1..Len(chan) : chan'[i] = chan[i]
        /\ chan'[Len(chan) + 1] = f
    BY <1>1, <2>1, AppendFacts
  <2>3. LinkTypeOK'
    <3>1. Len(chan') <= Capacity
      BY <1>1, <1>6, <2>2 DEF HasRoom
    <3>2. sent' \in Nat /\ base' <= sent'
      BY <1>0, <1>1
    <3> QED
      BY <1>0, <2>1, <2>2, <3>1, <3>2 DEF LinkTypeOK
  <2>4. /\ Rising(Append(chan, f)) /\ Precedes(wire, Append(chan, f))
        /\ Precedes(inHand, Append(chan, f)) /\ Precedes(view.tape, Append(chan, f))
        /\ UpTo(Append(chan, f), sent + 1) /\ Above(Append(chan, f), base)
    BY <1>1, <1>2, <1>3, AppendOrder DEF OrderInv, TapeInv
  <2>5. OrderInv' /\ TapeInv'
    BY <1>0, <1>3, <2>1, <2>4 DEF OrderInv, TapeInv
  <2>6. CountInv'
    <3>1. TickReportsMisses'
      BY <1>0 DEF CountInv, TickReportsMisses
    <3> SUFFICES ASSUME ~broken
                 PROVE  /\ sent' = base + got + Lead + Len(inHand) + Len(chan') + dropped'
                        /\ \A i \in 1..Len(chan') :
                              TickRight(chan'[i], Lead + Len(inHand) + i - 1)
      BY <1>0, <1>5, <3>1 DEF CountInv, TickRight
    <3>2. sent = base + got + Lead + Len(inHand) + Len(chan) + dropped
      BY DEF CountInv
    <3>3. TickRight(f, Lead + Len(inHand) + (Len(chan) + 1) - 1)
      <4> SUFFICES ASSUME f.kind = "Tick"
                   PROVE  f.no = 1 + base + got + (Lead + Len(inHand) + (Len(chan) + 1) - 1)
                                   + f.dropped
        BY DEF TickRight
      <4>1. f.dropped = dropped /\ f.no = sent + 1
        OBVIOUS
      <4> QED
        BY ONLY <4>1, <3>2, <1>1
    <3>4. \A i \in 1..Len(chan') : i \in 1..Len(chan) \/ i = Len(chan) + 1
      BY <1>1, <2>2
    <3>5. \A i \in 1..Len(chan') : TickRight(chan'[i], Lead + Len(inHand) + i - 1)
      BY <2>2, <3>3, <3>4 DEF CountInv
    <3>6. sent' = base + got + Lead + Len(inHand) + Len(chan') + dropped'
      BY ONLY <1>0, <1>1, <2>1, <2>2, <3>2
    <3> QED
      BY <3>5, <3>6
  <2> QED
    BY <1>4, <2>3, <2>5, <2>6
<1>7. CASE ~HasRoom
  <2>1. chan' = chan /\ dropped' = dropped + 1
    BY <1>7 DEF TrySend, Shed
  <2>2. LinkTypeOK'
    <3>1. sent' \in Nat /\ base' <= sent' /\ dropped' \in Nat
      BY <1>0, <1>1, <2>1
    <3> QED
      BY <1>0, <2>1, <3>1 DEF LinkTypeOK
  <2>3. OrderInv' /\ TapeInv'
    BY <1>0, <1>3, <2>1 DEF OrderInv, TapeInv
  <2>4. CountInv'
    <3>1. TickReportsMisses'
      BY <1>0 DEF CountInv, TickReportsMisses
    <3>2. ASSUME ~broken PROVE sent' = base + got + Lead + Len(inHand) + Len(chan) + dropped'
      <4>1. sent = base + got + Lead + Len(inHand) + Len(chan) + dropped
        BY <3>2 DEF CountInv
      <4> QED
        BY ONLY <4>1, <1>0, <1>1, <2>1
    <3> QED
      BY <1>0, <1>5, <2>1, <3>1, <3>2 DEF CountInv, TickRight
  <2> QED
    BY <1>4, <2>2, <2>3, <2>4
<1> QED
  BY <1>6, <1>7

(* Steps of the server's thread.                                           *)
LEMMA AcceptKeeps ==
    ASSUME LinkInv, up, up' = up, Accept \/ AcceptDead \/ Dial
    PROVE  LinkInv'
<1> USE DEF LinkInv
<1>0. UNCHANGED <<chan, dropped, sent, base, inHand, wire, eof, view, got>>
  BY DEF Accept, AcceptDead, Dial, chanVars, viewVars
<1>1. broken' = broken \/ broken' = TRUE
  BY DEF Accept, AcceptDead, Dial
<1>2. LinkTypeOK'
  <2>1. stale' \in BOOLEAN /\ broken' \in BOOLEAN
    BY Zenon DEF Accept, AcceptDead, Dial, LinkTypeOK
  <2>2. dead' \in Nat
    BY DEF Accept, AcceptDead, Dial, LinkTypeOK
  <2> QED
    BY <1>0, <2>1, <2>2 DEF LinkTypeOK, Accept, AcceptDead, Dial
<1>3. ConnInv'
  BY <1>0 DEF ConnInv, Accept, AcceptDead, Dial
<1>4. OrderInv' /\ TapeInv' /\ NameInv'
  BY <1>0 DEF OrderInv, TapeInv, NameInv
<1>5. CountInv'
  BY <1>0, <1>1 DEF CountInv, Lead, TickRight, TickReportsMisses
<1> QED
  BY <1>2, <1>3, <1>4, <1>5

LEMMA RecvKeeps ==
    ASSUME LinkInv, up, up' = up, Recv
    PROVE  LinkInv'
<1> USE DEF LinkInv
<1>0. /\ UNCHANGED <<dropped, sent, base, server, stale, client, dead, wire, eof, broken, view, got>>
      /\ chan # <<>> /\ inHand' = Some(Head(chan)) /\ chan' = Tail(chan) /\ server = "serving"
      /\ ~IsSome(inHand)
  BY DEF Recv, viewVars
<1>1. /\ chan \in Seq(Frames) /\ wire \in Seq(Frames) /\ view.tape \in Seq(Frames)
      /\ Len(wire) \in Nat /\ Lead \in Nat /\ inHand \in SomeFrame
      /\ dropped \in Nat /\ sent \in Nat /\ base \in Nat /\ got \in Nat /\ Capacity \in Nat
  BY LinkFacts
<1>2. inHand = None /\ Len(inHand) = 0
  BY <1>0, <1>1, HandCases
<1>3. /\ Len(chan) \in Nat \ {0} /\ Head(chan) = chan[1] /\ chan[1] \in Frames
      /\ Tail(chan) \in Seq(Frames) /\ Len(Tail(chan)) = Len(chan) - 1
      /\ \A i \in 1..(Len(chan) - 1) : Tail(chan)[i] = chan[i + 1]
  BY <1>0, <1>1, TailFacts
<1>4. /\ Len(Some(chan[1])) = 1 /\ Some(chan[1])[1] = chan[1] /\ Some(chan[1]) \in SomeFrame
      /\ inHand' = Some(chan[1])
  BY <1>0, <1>3, OneFrame
<1>5. LinkTypeOK'
  <2>1. Len(chan') <= Capacity
    BY <1>0, <1>1, <1>3 DEF LinkTypeOK
  <2> QED
    BY <1>0, <1>3, <1>4, <2>1 DEF LinkTypeOK
<1>6. ConnInv' /\ NameInv'
  BY <1>0 DEF ConnInv, NameInv
<1>7. OrderInv' /\ TapeInv'
  <2>1. /\ Rising(Tail(chan)) /\ Precedes(Some(chan[1]), Tail(chan))
        /\ Precedes(wire, Tail(chan)) /\ Precedes(wire, Some(chan[1]))
        /\ Precedes(view.tape, Tail(chan)) /\ Precedes(view.tape, Some(chan[1]))
        /\ UpTo(Tail(chan), sent) /\ UpTo(Some(chan[1]), sent)
        /\ Above(Tail(chan), base) /\ Above(Some(chan[1]), base)
    BY <1>0, <1>1, TailOrder DEF OrderInv, TapeInv
  <2> QED
    BY <1>0, <1>4, <2>1 DEF OrderInv, TapeInv
<1>8. CountInv'
  <2>1. TickReportsMisses' /\ Lead' = Lead
    BY <1>0 DEF CountInv, TickReportsMisses, Lead
  <2> SUFFICES ASSUME ~broken
               PROVE  /\ sent = base + got + Lead + Len(inHand') + Len(chan') + dropped
                      /\ \A i \in 1..Len(inHand') : TickRight(inHand'[i], Lead)
                      /\ \A i \in 1..Len(chan') :
                              TickRight(chan'[i], Lead + Len(inHand') + i - 1)
    BY <1>0, <2>1 DEF CountInv, TickRight
  <2>0. Len(inHand') = 1 /\ Len(chan') = Len(chan) - 1
    BY <1>0, <1>3, <1>4
  <2>2. sent = base + got + Lead + Len(inHand') + Len(chan') + dropped
    <3>1. sent = base + got + Lead + Len(inHand) + Len(chan) + dropped
      BY DEF CountInv
    <3> QED
      BY ONLY <3>1, <2>0, <1>1, <1>2, <1>3
  <2>3. ASSUME NEW i \in 1..Len(chan') PROVE TickRight(chan'[i], Lead + Len(inHand') + i - 1)
    <3>1. i + 1 \in 1..Len(chan) /\ chan'[i] = chan[i + 1]
      BY <1>0, <1>3
    <3>2. TickRight(chan[i + 1], Lead + Len(inHand) + (i + 1) - 1)
      BY <3>1 DEF CountInv
    <3>3. Lead + Len(inHand) + (i + 1) - 1 = Lead + Len(inHand') + i - 1
      BY <1>1, <1>2, <1>3, <2>0
    <3> QED
      BY <3>1, <3>2, <3>3
  <2>4. TickRight(chan[1], Lead)
    <3>1. 1 \in 1..Len(chan) /\ Lead + Len(inHand) + 1 - 1 = Lead
      BY <1>1, <1>2, <1>3
    <3>2. TickRight(chan[1], Lead + Len(inHand) + 1 - 1)
      BY <3>1 DEF CountInv
    <3> QED
      BY <3>1, <3>2
  <2>5. \A i \in 1..Len(inHand') : inHand'[i] = chan[1]
    BY <1>4
  <2> QED
    BY <2>2, <2>3, <2>4, <2>5
<1> QED
  BY <1>5, <1>6, <1>7, <1>8

LEMMA LostKeeps ==
    ASSUME LinkInv, up, up' = up, EncodeFails \/ WriteIntoVoid \/ WriteFails
    PROVE  LinkInv'
<1> USE DEF LinkInv
<1>0. /\ UNCHANGED <<chan, dropped, sent, base, stale, client, dead, wire, eof, view, got>>
      /\ inHand' = None /\ broken' /\ server' \in {server, "accepting"}
  BY DEF EncodeFails, WriteIntoVoid, WriteFails, chanVars, viewVars, ConnInv
<1>1. LinkTypeOK'
  <2>1. broken' \in BOOLEAN
    BY Zenon DEF EncodeFails, WriteIntoVoid, WriteFails, LinkTypeOK
  <2> QED
    BY <1>0, <2>1 DEF LinkTypeOK, SomeFrame
<1>2. ConnInv' /\ NameInv'
  BY <1>0, SomeFacts DEF ConnInv, NameInv
<1>3. OrderInv' /\ TapeInv'
  BY <1>0, NoFrames DEF OrderInv, TapeInv
<1>4. CountInv'
  BY <1>0 DEF CountInv, TickReportsMisses
<1> QED
  BY <1>1, <1>2, <1>3, <1>4

LEMMA WriteKeeps ==
    ASSUME LinkInv, up, up' = up, Write
    PROVE  LinkInv'
<1> USE DEF LinkInv
<1>0. /\ UNCHANGED <<chan, dropped, sent, base, server, stale, client, dead, eof, broken, view, got>>
      /\ IsSome(inHand) /\ ~stale /\ Len(wire) < WireCapacity
      /\ wire' = wire \o inHand /\ inHand' = None
  BY DEF Write, chanVars, viewVars
<1>1. /\ chan \in Seq(Frames) /\ wire \in Seq(Frames) /\ view.tape \in Seq(Frames)
      /\ Len(chan) \in Nat /\ Len(wire) \in Nat /\ inHand \in SomeFrame
      /\ dropped \in Nat /\ sent \in Nat /\ base \in Nat /\ got \in Nat /\ WireCapacity \in Nat
  BY LinkFacts
<1>2. PICK f \in Frames : inHand = Some(f)
  BY <1>0, <1>1, HandCases
<1>3. /\ Len(inHand) = 1 /\ inHand[1] = f /\ wire' = Append(wire, f)
  BY <1>0, <1>1, <1>2, OneFrame
<1>4. /\ wire' \in Seq(Frames) /\ Len(wire') = Len(wire) + 1
      /\ \A i \in 1..Len(wire) : wire'[i] = wire[i]
      /\ wire'[Len(wire) + 1] = f
  BY <1>1, <1>3, AppendFacts
<1>5. client = "served" /\ ~eof /\ server = "serving"
  BY <1>0 DEF ConnInv
<1>6. LinkTypeOK'
  <2>1. Len(wire') <= WireCapacity
    BY <1>0, <1>1, <1>4
  <2> QED
    BY <1>0, <1>4, <2>1 DEF LinkTypeOK, SomeFrame
<1>7. ConnInv' /\ NameInv'
  BY <1>0, <1>5, SomeFacts DEF ConnInv, NameInv
<1>8. OrderInv' /\ TapeInv'
  <2>1. f.no <= sent /\ f.no > base
    <3>1. 1 \in 1..Len(inHand)
      BY <1>3
    <3> QED
      BY <1>3, <3>1 DEF OrderInv, UpTo, Above
  <2>2. /\ Rising(Append(wire, f)) /\ Precedes(Append(wire, f), chan)
        /\ Precedes(view.tape, Append(wire, f)) /\ UpTo(Append(wire, f), sent)
        /\ Above(Append(wire, f), base)
    BY <1>1, <1>2, <1>5, <2>1, AppendOrder DEF OrderInv, TapeInv
  <2> QED
    BY <1>0, <1>3, <1>5, <2>2, NoFrames DEF OrderInv, TapeInv
<1>9. CountInv'
  <2>1. TickReportsMisses' /\ Lead = Len(wire) /\ Lead' = Len(wire) + 1 /\ Len(inHand') = 0
    BY <1>0, <1>4, <1>5, NoFrames DEF CountInv, TickReportsMisses, Lead
  <2> SUFFICES ASSUME ~broken
               PROVE  /\ sent = base + got + Lead' + Len(inHand') + Len(chan) + dropped
                      /\ \A i \in 1..Len(wire') : TickRight(wire'[i], i - 1)
                      /\ \A i \in 1..Len(inHand') : TickRight(inHand'[i], Lead')
                      /\ \A i \in 1..Len(chan) :
                              TickRight(chan[i], Lead' + Len(inHand') + i - 1)
    BY <1>0, <2>1 DEF CountInv, TickRight
  <2>2. sent = base + got + Lead' + Len(inHand') + Len(chan) + dropped
    BY <1>1, <1>3, <2>1 DEF CountInv
  <2>3. TickRight(f, (Len(wire) + 1) - 1)
    <3>1. 1 \in 1..Len(inHand) /\ Lead = (Len(wire) + 1) - 1
      BY <1>1, <1>3, <2>1
    <3> QED
      BY <1>3, <3>1 DEF CountInv
  <2>4. \A i \in 1..Len(wire') : i \in 1..Len(wire) \/ i = Len(wire) + 1
    BY <1>1, <1>4
  <2>5. \A i \in 1..Len(wire') : TickRight(wire'[i], i - 1)
    BY <1>4, <1>5, <2>3, <2>4 DEF CountInv
  <2>6. ASSUME NEW i \in 1..Len(chan) PROVE TickRight(chan[i], Lead' + Len(inHand') + i - 1)
    <3>1. Lead + Len(inHand) + i - 1 = Lead' + Len(inHand') + i - 1
      BY <1>1, <1>3, <2>1
    <3>2. TickRight(chan[i], Lead + Len(inHand) + i - 1)
      BY DEF CountInv
    <3> QED
      BY <3>1, <3>2
  <2>7. 1..Len(inHand') = {}
    BY <2>1
  <2> QED
    BY <2>2, <2>5, <2>6, <2>7
<1> QED
  BY <1>6, <1>7, <1>8, <1>9

(* The client's end.                                                       *)
LEMMA ClientGoneKeeps ==
    ASSUME LinkInv, up' = up, ClientBreaks \/ ClientEof
    PROVE  LinkInv'
<1> USE DEF LinkInv
<1>0. /\ UNCHANGED <<chan, dropped, sent, base, server, inHand, view, got>>
      /\ client' = "down" /\ wire' = None /\ eof' = FALSE
  BY DEF ClientBreaks, ClientEof, chanVars, viewVars, None
<1>1. Len(wire') = 0 /\ Lead' = 0
  BY <1>0, NoFrames DEF Lead
<1>2. LinkTypeOK'
  <2>1. stale' \in BOOLEAN /\ broken' \in BOOLEAN /\ eof' \in BOOLEAN
    BY Zenon DEF ClientBreaks, ClientEof, LinkTypeOK
  <2>2. dead' \in Nat
    BY DEF ClientBreaks, ClientEof, LinkTypeOK
  <2> QED
    BY <1>0, <1>1, <2>1, <2>2, NoFrames, ChannelAssumption DEF LinkTypeOK
<1>3. ConnInv'
  <2>1. CASE ClientBreaks
    <3>1. /\ stale' <=> (stale \/ (client = "served" /\ ~eof))
          /\ broken' <=> (broken \/ client = "served")
      BY <2>1 DEF ClientBreaks
    <3> QED
      BY <1>0, <3>1 DEF ConnInv, None
  <2>2. CASE ClientEof
    BY <1>0, <2>2 DEF ConnInv, ClientEof, None
  <2> QED
    BY <2>1, <2>2
<1>4. OrderInv' /\ TapeInv' /\ NameInv'
  BY <1>0, NoFrames DEF OrderInv, TapeInv, NameInv
<1>5. CountInv'
  <2>1. TickReportsMisses'
    BY <1>0 DEF CountInv, TickReportsMisses
  <2>2. ASSUME ~broken' PROVE ~broken /\ Lead = 0
    BY <1>0, <2>2, NoFrames DEF ClientBreaks, ClientEof, ConnInv, Lead, LinkTypeOK, None
  <2>3. 1..Len(wire') = {}
    BY <1>1
  <2> QED
    BY <1>0, <1>1, <2>1, <2>2, <2>3 DEF CountInv, TickRight
<1> QED
  BY <1>2, <1>3, <1>4, <1>5

LEMMA DispatchFacts ==
    ASSUME view \in Views, NEW f \in Frames, base \in Nat, got \in Nat
    PROVE  /\ DispatchJSON(f) \in Views
           /\ DispatchJSON(f).header = IF f.kind = "Header" THEN Some(f) ELSE view.header
           /\ DispatchJSON(f).instrument =
                IF f.kind = "Header" /\ IsSome(f.inst) THEN f.inst ELSE view.instrument
           /\ DispatchJSON(f).symbol =
                IF f.kind = "Header" /\ IsSome(f.sym) THEN f.sym ELSE view.symbol
           /\ DispatchJSON(f).tick =
                IF f.kind = "Tick" THEN Some([frame |-> f, before |-> base + got,
                                              whole |-> ~broken /\ f.no > base])
                ELSE view.tick
           /\ DispatchJSON(f).tape =
                IF f.kind = "Trade"
                THEN Append(IF Len(view.tape) >= TradeRingCap THEN Tail(view.tape) ELSE view.tape, f)
                ELSE view.tape
<1>0. /\ view.instrument \in Options /\ view.symbol \in Options
      /\ f.inst \in Options /\ f.sym \in Options /\ Some(f) \in SomeFrame
      /\ view.tape \in Seq(Frames)
  BY OneFrame DEF Views, Frames
<1>1. CASE f.kind = "Header"
  <2>1. DispatchJSON(f) = [view EXCEPT !.header = Some(f),
                              !.symbol = IF IsSome(f.sym) THEN f.sym ELSE @,
                              !.instrument = IF IsSome(f.inst) THEN f.inst ELSE @]
    BY <1>1 DEF DispatchJSON, DispatchHeader
  <2> QED
    BY <1>0, <1>1, <2>1 DEF Views
<1>2. CASE f.kind = "Tick"
  <2> DEFINE t == [frame |-> f, before |-> base + got, whole |-> ~broken /\ f.no > base]
  <2>1. DispatchJSON(f) = [view EXCEPT !.tick = Some(t)]
    BY <1>2 DEF DispatchJSON
  <2>2. (~broken /\ f.no > base) \in BOOLEAN
    BY Zenon
  <2>3. t \in [frame : Frames, before : Nat, whole : BOOLEAN]
    BY <2>2
  <2> HIDE DEF t
  <2>4. DispatchJSON(f) \in Views /\ DispatchJSON(f).tick = Some(t)
    BY <2>1, <2>3 DEF Views
  <2> QED
    BY <1>2, <2>1, <2>4 DEF Views, t
<1>3. CASE f.kind = "Trade"
  <2> DEFINE s == IF Len(view.tape) >= TradeRingCap THEN Tail(view.tape) ELSE view.tape
  <2>1. DispatchJSON(f) = [view EXCEPT !.tape = Append(s, f)]
    BY <1>3 DEF DispatchJSON, DispatchTrade
  <2>2. s \in Seq(Frames)
    <3>1. TradeRingCap \in Nat \ {0} /\ Len(view.tape) \in Nat
      BY <1>0, ChannelAssumption
    <3>2. CASE Len(view.tape) >= TradeRingCap
      <4>1. view.tape # <<>>
        BY <3>1, <3>2
      <4> QED
        BY <1>0, <3>2, <4>1, TailFacts
    <3> QED
      BY <1>0, <3>2
  <2> HIDE DEF s
  <2>3. Append(s, f) \in Seq(Frames)
    BY <2>2
  <2>4. DispatchJSON(f) \in Views /\ DispatchJSON(f).tape = Append(s, f)
    BY <2>1, <2>3 DEF Views
  <2> QED
    BY <1>3, <2>1, <2>4 DEF Views, s
<1>4. CASE f.kind \notin {"Header", "Tick", "Trade"}
  <2>1. DispatchJSON(f) = view
    BY <1>4 DEF DispatchJSON
  <2> QED
    BY <1>4, <2>1
<1> QED
  BY <1>1, <1>2, <1>3, <1>4

LEMMA ClientReadKeeps ==
    ASSUME LinkInv, up' = up, ClientRead
    PROVE  LinkInv'
<1> USE DEF LinkInv
<1> DEFINE f == wire[1]
<1>0. /\ UNCHANGED <<chan, dropped, sent, base, server, inHand, stale, client, dead, eof, broken>>
      /\ wire # <<>> /\ client = "served" /\ wire' = Tail(wire)
  BY DEF ClientRead, chanVars
<1>1. /\ chan \in Seq(Frames) /\ wire \in Seq(Frames) /\ inHand \in Seq(Frames)
      /\ view.tape \in Seq(Frames)
      /\ Len(chan) \in Nat /\ Len(inHand) \in Nat
      /\ dropped \in Nat /\ sent \in Nat /\ base \in Nat /\ got \in Nat
      /\ WireCapacity \in Nat /\ TradeRingCap \in Nat \ {0}
  BY LinkFacts
<1>2. /\ Len(wire) \in Nat \ {0} /\ Head(wire) = f /\ f \in Frames
      /\ Tail(wire) \in Seq(Frames) /\ Len(Tail(wire)) = Len(wire) - 1
      /\ \A i \in 1..(Len(wire) - 1) : Tail(wire)[i] = wire[i + 1]
  BY <1>0, <1>1, TailFacts
<1>3. /\ view' = DispatchJSON(f) /\ got' = IF f.no > base THEN got + 1 ELSE got
  BY <1>2 DEF ClientRead
<1> HIDE DEF f
<1>4. /\ view' \in Views
      /\ view'.header = IF f.kind = "Header" THEN Some(f) ELSE view.header
      /\ view'.instrument = IF f.kind = "Header" /\ IsSome(f.inst) THEN f.inst ELSE view.instrument
      /\ view'.symbol = IF f.kind = "Header" /\ IsSome(f.sym) THEN f.sym ELSE view.symbol
      /\ view'.tick = IF f.kind = "Tick" THEN Some([frame |-> f, before |-> base + got,
                                                     whole |-> ~broken /\ f.no > base])
                      ELSE view.tick
      /\ view'.tape = IF f.kind = "Trade"
                      THEN Append(IF Len(view.tape) >= TradeRingCap THEN Tail(view.tape)
                                  ELSE view.tape, f)
                      ELSE view.tape
  BY <1>1, <1>2, <1>3, DispatchFacts DEF LinkTypeOK
<1>5. LinkTypeOK'
  <2>1. got' \in Nat /\ Len(wire') <= WireCapacity
    BY <1>0, <1>1, <1>2, <1>3 DEF LinkTypeOK
  <2> QED
    BY <1>0, <1>2, <1>4, <2>1 DEF LinkTypeOK
<1>6. ConnInv'
  BY <1>0 DEF ConnInv
<1>7. /\ Rising(Tail(wire)) /\ Precedes(Some(f), Tail(wire))
      /\ Precedes(Tail(wire), inHand) /\ Precedes(Some(f), inHand)
      /\ Precedes(Tail(wire), chan) /\ Precedes(Some(f), chan)
      /\ Precedes(view.tape, Tail(wire)) /\ Precedes(view.tape, Some(f))
      /\ UpTo(Tail(wire), sent) /\ UpTo(Some(f), sent)
      /\ IF eof THEN UpTo(Tail(wire), base) /\ UpTo(Some(f), base)
                ELSE Above(Tail(wire), base) /\ Above(Some(f), base)
  BY <1>0, <1>1, TailOrder DEF OrderInv, TapeInv, f
<1>8. OrderInv'
  BY <1>0, <1>7 DEF OrderInv
<1>9. f.no \in Nat /\ f.no <= sent /\ (eof <=> ~(f.no > base))
  <2>1. Len(Some(f)) = 1 /\ Some(f)[1] = f /\ f.no \in Nat /\ 1 \in 1..Len(Some(f))
    BY <1>2, OneFrame, FrameNo
  <2> QED
    BY <1>1, <1>7, <2>1 DEF UpTo, Above
<1>10. TapeInv'
  <2>1. CASE f.kind # "Trade"
    BY <1>0, <1>4, <1>7, <2>1 DEF TapeInv
  <2>2. CASE f.kind = "Trade"
    <3> DEFINE s == IF Len(view.tape) >= TradeRingCap THEN Tail(view.tape) ELSE view.tape
    <3>1. /\ s \in Seq(Frames) /\ Len(s) + 1 <= TradeRingCap /\ Rising(s) /\ UpTo(s, sent)
          /\ Precedes(s, Tail(wire)) /\ Precedes(s, inHand) /\ Precedes(s, chan)
          /\ Precedes(s, Some(f))
      <4>1. CASE Len(view.tape) >= TradeRingCap
        <5>0. Len(view.tape) \in Nat
          BY <1>1
        <5>1. view.tape # <<>>
          BY <1>1, <4>1, <5>0
        <5>2. Tail(view.tape) \in Seq(Frames) /\ Len(Tail(view.tape)) = Len(view.tape) - 1
          BY <1>1, <5>1, TailFacts
        <5>3. Some(f) \in Seq(Frames)
          BY <1>2, OneFrame
        <5>4. /\ Rising(Tail(view.tape)) /\ UpTo(Tail(view.tape), sent)
              /\ Precedes(Tail(view.tape), Tail(wire)) /\ Precedes(Tail(view.tape), inHand)
              /\ Precedes(Tail(view.tape), chan) /\ Precedes(Tail(view.tape), Some(f))
          BY <1>1, <1>2, <1>7, <5>1, <5>3, TailOrder DEF TapeInv
        <5>5. Len(Tail(view.tape)) + 1 <= TradeRingCap
          BY <1>1, <4>1, <5>0, <5>2 DEF TapeInv
        <5> QED
          BY <4>1, <5>2, <5>4, <5>5
      <4>2. CASE ~(Len(view.tape) >= TradeRingCap)
        <5>1. Len(view.tape) + 1 <= TradeRingCap
          BY <1>1, <4>2
        <5> QED
          BY <1>1, <1>7, <4>2, <5>1 DEF TapeInv
      <4> QED
        BY <4>1, <4>2
    <3>2. view'.tape = Append(s, f)
      BY <1>4, <2>2
    <3> HIDE DEF s
    <3>3. Len(Append(s, f)) = Len(s) + 1
      BY <1>2, <3>1, AppendFacts
    <3>4. /\ Rising(Append(s, f)) /\ UpTo(Append(s, f), sent)
          /\ Precedes(Append(s, f), Tail(wire)) /\ Precedes(Append(s, f), inHand)
          /\ Precedes(Append(s, f), chan)
      BY <1>1, <1>2, <1>7, <1>9, <3>1, AppendOrder
    <3> QED
      BY <1>0, <3>1, <3>2, <3>3, <3>4 DEF TapeInv
  <2> QED
    BY <2>1, <2>2
<1>11. TickReportsMisses'
  <2>1. CASE f.kind # "Tick"
    BY <1>4, <2>1 DEF CountInv, TickReportsMisses
  <2>2. CASE f.kind = "Tick"
    <3> DEFINE t == [frame |-> f, before |-> base + got, whole |-> ~broken /\ f.no > base]
    <3>1. view'.tick = Some(t)
      BY <1>4, <2>2
    <3>2. ASSUME t.whole PROVE t.frame.no - 1 - t.before = t.frame.dropped
      <4>1. ~broken /\ ~eof
        BY <1>9, <3>2
      <4>2. 1 \in 1..Len(wire)
        BY <1>2
      <4>3. TickRight(f, 1 - 1)
        BY <4>1, <4>2 DEF CountInv, f
      <4>4. f.no = 1 + base + got + (1 - 1) + f.dropped /\ f.dropped \in Nat
        BY <1>2, <2>2, <4>3 DEF TickRight, Frames
      <4>5. f.no - 1 - (base + got) = f.dropped
        BY ONLY <4>4, <1>9, <1>1
      <4> QED
        BY <4>5
    <3>3. \A x \in {view'.tick[i] : i \in DOMAIN view'.tick} : x = t
      BY <3>1 DEF Some
    <3> HIDE DEF t
    <3> QED
      BY <3>2, <3>3 DEF TickReportsMisses
  <2> QED
    BY <2>1, <2>2
<1>12. CountInv'
  <2>1. /\ Lead \in Nat
        /\ \/ Lead' = Lead /\ got' = got
           \/ Lead' = Lead - 1 /\ got' = got + 1
    <3>1. CASE eof
      BY <1>0, <1>3, <1>9, <3>1 DEF Lead
    <3>2. CASE ~eof
      BY <1>0, <1>2, <1>3, <1>9, <3>2 DEF Lead
    <3> QED
      BY <3>1, <3>2
  <2>2. ASSUME NEW g \in Frames, NEW k \in Nat, TickRight(g, Lead + k)
        PROVE  g.kind = "Tick" => g.no = 1 + base + got' + (Lead' + k) + g.dropped
    <3> SUFFICES ASSUME g.kind = "Tick"
                 PROVE  g.no = 1 + base + got' + (Lead' + k) + g.dropped
      OBVIOUS
    <3>1. g.no = 1 + base + got + (Lead + k) + g.dropped /\ g.dropped \in Nat
      BY <2>2 DEF TickRight, Frames
    <3>2. CASE Lead' = Lead /\ got' = got
      BY <3>1, <3>2
    <3>3. CASE Lead' = Lead - 1 /\ got' = got + 1
      BY ONLY <3>1, <3>3, <2>1, <1>1, k \in Nat
    <3> QED
      BY <2>1, <3>2, <3>3
  <2> SUFFICES ASSUME ~broken
               PROVE  /\ sent = base + got' + Lead' + Len(inHand) + Len(chan) + dropped
                      /\ ~eof => \A i \in 1..Len(wire') : TickRight(wire[i + 1], i)
                      /\ \A i \in 1..Len(inHand) : TickRight(inHand[i], Lead + 0)
                      /\ \A i \in 1..Len(chan) :
                              TickRight(chan[i], Lead + (Len(inHand) + i - 1))
    <3> DEFINE Right(g, a) == g.kind = "Tick" => g.no = 1 + base + got' + a + g.dropped
    <3>1. ASSUME ~broken PROVE \A i \in 1..Len(inHand) : Right(inHand[i], Lead')
      <4>1. ASSUME NEW i \in 1..Len(inHand) PROVE Right(inHand[i], Lead' + 0)
        <5>1. inHand[i] \in Frames /\ TickRight(inHand[i], Lead + 0)
          BY <1>1, <3>1, FrameNos
        <5> QED
          BY <2>2, <5>1
      <4> QED
        BY <4>1, <2>1
    <3>2. ASSUME ~broken
          PROVE  \A i \in 1..Len(chan) : Right(chan[i], Lead' + Len(inHand) + i - 1)
      <4>1. ASSUME NEW i \in 1..Len(chan) PROVE Right(chan[i], Lead' + (Len(inHand) + i - 1))
        <5>1. chan[i] \in Frames /\ TickRight(chan[i], Lead + (Len(inHand) + i - 1))
          BY <1>1, <3>2, FrameNos
        <5>2. Len(inHand) + i - 1 \in Nat
          BY <1>1
        <5> QED
          BY <2>2, <5>1, <5>2
      <4>2. \A i \in 1..Len(chan) : Lead' + (Len(inHand) + i - 1) = Lead' + Len(inHand) + i - 1
        BY <1>1, <2>1
      <4> QED
        BY <4>1, <4>2, Zenon
    <3>3. ASSUME ~broken, ~eof PROVE \A i \in 1..Len(wire') : Right(wire'[i], i - 1)
      <4> SUFFICES ASSUME NEW i \in 1..Len(wire') PROVE Right(wire'[i], i - 1)
        OBVIOUS
      <4>1. wire'[i] = wire[i + 1] /\ i + 1 \in 1..Len(wire) /\ TickRight(wire[i + 1], i)
        BY <1>0, <1>1, <1>2, <3>3
      <4>2. got' = got + 1 /\ wire[i + 1] \in Frames
        BY <1>1, <1>3, <1>9, <3>3, <4>1, FrameNos
      <4>3. wire[i + 1].dropped \in Nat
        BY <4>2 DEF Frames
      <4> QED
        BY <1>1, <4>1, <4>2, <4>3 DEF TickRight
    <3> QED
      BY <1>0, <1>11, <3>1, <3>2, <3>3 DEF CountInv, TickRight
  <2>3. sent = base + got' + Lead' + Len(inHand) + Len(chan) + dropped
    <3>1. sent = base + got + Lead + Len(inHand) + Len(chan) + dropped
      BY DEF CountInv
    <3>2. CASE Lead' = Lead /\ got' = got
      BY <3>1, <3>2
    <3>3. CASE Lead' = Lead - 1 /\ got' = got + 1
      BY ONLY <3>1, <3>3, <2>1, <1>1
    <3> QED
      BY <2>1, <3>2, <3>3
  <2>4. ASSUME ~eof, NEW i \in 1..Len(wire') PROVE TickRight(wire[i + 1], i)
    <3>1. i + 1 \in 1..Len(wire) /\ (i + 1) - 1 = i
      BY <1>0, <1>2
    <3>2. TickRight(wire[i + 1], (i + 1) - 1)
      BY <2>4, <3>1 DEF CountInv
    <3> QED
      BY <3>1, <3>2
  <2>5. ASSUME NEW i \in 1..Len(inHand) PROVE TickRight(inHand[i], Lead + 0)
    <3>1. Lead + 0 = Lead
      BY <2>1
    <3> QED
      BY <3>1 DEF CountInv
  <2>6. ASSUME NEW i \in 1..Len(chan) PROVE TickRight(chan[i], Lead + (Len(inHand) + i - 1))
    <3>1. Lead + (Len(inHand) + i - 1) = Lead + Len(inHand) + i - 1
      BY <1>1, <2>1
    <3> QED
      BY <3>1 DEF CountInv
  <2> QED
    BY <2>3, <2>4, <2>5, <2>6
<1>13. NameInv'
  <2>1. f.sym \in {None, f.inst}
    BY <1>2 DEF Frames
  <2>2. CASE f.kind = "Header"
    <3>1. view'.header[1] = f
      BY <1>4, <2>2, SomeFacts
    <3> QED
      BY <1>4, <2>1, <2>2, <3>1, SomeFacts DEF NameInv
  <2>3. CASE f.kind # "Header"
    BY <1>4, <2>3 DEF NameInv
  <2> QED
    BY <2>2, <2>3
<1> QED
  BY <1>5, <1>6, <1>8, <1>10, <1>11, <1>12, <1>13

LEMMA HangupKeeps ==
    ASSUME LinkInv, Hangup
    PROVE  LinkInv'
<1> USE DEF LinkInv
<1>0. /\ chan' = None /\ dropped' = 0 /\ base' = sent /\ got' = 0 /\ server' = "accepting"
      /\ inHand' = None /\ ~stale' /\ ~broken' /\ dead' = 0 /\ UNCHANGED <<sent, wire, view>>
      /\ client' = IF client = "queued" THEN "down" ELSE client
      /\ (eof' <=> client = "served")
  BY DEF Hangup, None
<1>1. wire \in Seq(Frames) /\ Len(wire) \in Nat /\ sent \in Nat /\ Capacity \in Nat
  BY LinkFacts
<1>2. LinkTypeOK'
  <2>1. stale' \in BOOLEAN /\ broken' \in BOOLEAN /\ eof' \in BOOLEAN
    BY Zenon DEF Hangup
  <2> QED
    BY <1>0, <1>1, <2>1, NoFrames DEF LinkTypeOK, SomeFrame
<1>3. ConnInv' /\ NameInv'
  BY <1>0, SomeFacts DEF ConnInv, NameInv
<1>4. ~eof' => wire = None
  BY <1>0 DEF ConnInv, None
<1>5. OrderInv'
  BY <1>0, <1>4, NoFrames DEF OrderInv
<1>6. TapeInv'
  BY <1>0, NoFrames DEF TapeInv
<1>7. CountInv'
  <2>1. TickReportsMisses'
    BY <1>0 DEF CountInv, TickReportsMisses
  <2>2. Len(chan') = 0 /\ Len(inHand') = 0 /\ Lead' = 0
    BY <1>0, <1>4, NoFrames DEF Lead
  <2>3. sent' = base' + got' + Lead' + Len(inHand') + Len(chan') + dropped'
    BY <1>0, <1>1, <2>2
  <2>4. 1..Len(chan') = {} /\ 1..Len(inHand') = {} /\ (~eof' => 1..Len(wire') = {})
    BY <1>0, <1>4, <2>2, NoFrames
  <2> QED
    BY <2>1, <2>3, <2>4 DEF CountInv
<1> QED
  BY <1>2, <1>3, <1>5, <1>6, <1>7

LEMMA LinkUnchanged ==
    ASSUME LinkInv, UNCHANGED <<chanVars, linkVars, viewVars>>, up => up'
    PROVE  LinkInv'
BY DEF LinkInv, chanVars, linkVars, viewVars, LinkTypeOK, ConnInv, OrderInv, TapeInv, CountInv,
       NameInv, Lead, TickRight, TickReportsMisses

LEMMA LinkNextKeeps ==
    ASSUME LinkInv, up' = up, LinkNext(up)
    PROVE  LinkInv'
BY AcceptKeeps, RecvKeeps, LostKeeps, WriteKeeps, ClientGoneKeeps, ClientReadKeeps DEF LinkNext

-----------------------------------------------------------------------------
(* The symbol on display.                                                  *)

(* The frames between the engine and the view.                             *)
InSeq(f, s) == \E i \in 1..Len(s) : f = s[i]

Flying == {f \in Frames : InSeq(f, wire) \/ InSeq(f, inHand) \/ InSeq(f, chan)}

Announces(f) == f.kind = "Header" /\ IsSome(f.inst)

(* A client that shows v, with the frames F on their way to it, shows o    *)
(* once it has read those numbered below n.                                *)
Shows(F, v, n, o) ==
    \/ v = o /\ \A g \in F : Announces(g) => g.no >= n
    \/ \E h \in F : /\ Announces(h) /\ h.no < n /\ h.inst = o
                    /\ \A g \in F : (Announces(g) /\ g.no < n) => g.no <= h.no

(* The engine has still to announce its lock.                              *)
Pending == outbox # <<>> /\ outbox[1] = "Header"

(* A header comes first, and only a locked engine has more than a header   *)
(* to send.                                                                *)
OutboxInv ==
    /\ \A i \in 2..Len(outbox) : outbox[i] # "Header"
    /\ (outbox # <<>> /\ ~IsSome(tracked)) => Len(outbox) = 1 /\ outbox[1] = "Header"

(* What the client will show when it reads a tick, or when it has read     *)
(* all, is what the tick says, or what the engine has locked.              *)
AnnounceInv ==
    ~broken =>
        /\ \A t \in Flying : (t.kind = "Tick" /\ t.no > base /\ t.dropped = 0)
                                => Shows(Flying, view.instrument, t.no, t.inst)
        /\ (dropped = 0 /\ IsSome(tracked) /\ ~Pending)
                => Shows(Flying, view.instrument, sent + 1, tracked)

DisplayInv ==
    /\ IsSome(view.tick) => /\ view.tick[1].frame.no <= sent
                            /\ \A g \in Flying : view.tick[1].frame.no < g.no
    /\ SymbolMatchesTick

SymbolInv == OutboxInv /\ AnnounceInv /\ DisplayInv

LEMMA FlyingFacts ==
    ASSUME LinkInv
    PROVE  \A g \in Flying : g \in Frames /\ g.no \in Nat /\ g.no <= sent
<1> SUFFICES ASSUME NEW g \in Flying PROVE g \in Frames /\ g.no \in Nat /\ g.no <= sent
  OBVIOUS
<1>1. g \in Frames /\ (InSeq(g, wire) \/ InSeq(g, inHand) \/ InSeq(g, chan))
  BY DEF Flying
<1>2. g.no <= sent
  BY <1>1 DEF InSeq, LinkInv, OrderInv, UpTo
<1> QED
  BY <1>1, <1>2, FrameNo

LEMMA InAppend ==
    ASSUME NEW s \in Seq(Frames), NEW f \in Frames, NEW g
    PROVE  InSeq(g, Append(s, f)) <=> (InSeq(g, s) \/ g = f)
<1>1. /\ Len(s) \in Nat /\ Len(Append(s, f)) = Len(s) + 1
      /\ \A i \in 1..Len(s) : Append(s, f)[i] = s[i]
      /\ Append(s, f)[Len(s) + 1] = f
  BY AppendFacts
<1> DEFINE a == Append(s, f)
<1> HIDE DEF a
<1>2. /\ Len(s) \in Nat /\ Len(a) = Len(s) + 1 /\ a[Len(s) + 1] = f
      /\ \A i \in 1..Len(s) : a[i] = s[i] /\ i \in 1..Len(a)
      /\ Len(s) + 1 \in 1..Len(a)
      /\ \A i \in 1..Len(a) : i \in 1..Len(s) \/ i = Len(s) + 1
  BY <1>1 DEF a
<1>3. InSeq(g, a) => (InSeq(g, s) \/ g = f)
  BY <1>2 DEF InSeq
<1>4. (InSeq(g, s) \/ g = f) => InSeq(g, a)
  BY <1>2 DEF InSeq
<1> QED
  BY <1>3, <1>4 DEF a

LEMMA InTail ==
    ASSUME NEW s \in Seq(Frames), s # <<>>, NEW g
    PROVE  InSeq(g, s) <=> (InSeq(g, Tail(s)) \/ g = s[1])
<1>1. /\ Len(s) \in Nat \ {0} /\ Len(Tail(s)) = Len(s) - 1
      /\ \A i \in 1..(Len(s) - 1) : Tail(s)[i] = s[i + 1]
  BY TailFacts
<1> DEFINE r == Tail(s)
<1> HIDE DEF r
<1>2. /\ Len(s) \in Nat \ {0} /\ Len(r) = Len(s) - 1
      /\ \A i \in 1..Len(r) : r[i] = s[i + 1]
  BY <1>1 DEF r
<1>3. ASSUME NEW i \in 1..Len(s), g = s[i], i # 1 PROVE InSeq(g, r)
  <2>1. i - 1 \in 1..Len(r) /\ (i - 1) + 1 = i
    BY <1>2, <1>3
  <2>2. g = r[i - 1]
    BY <1>2, <1>3, <2>1
  <2> QED
    BY <2>1, <2>2 DEF InSeq
<1>4. ASSUME NEW i \in 1..Len(r), g = r[i] PROVE InSeq(g, s)
  <2>1. i + 1 \in 1..Len(s) /\ g = s[i + 1]
    BY <1>2, <1>4
  <2> QED
    BY <2>1 DEF InSeq
<1>5. g = s[1] => InSeq(g, s)
  BY <1>2 DEF InSeq
<1> QED
  BY <1>3, <1>4, <1>5 DEF InSeq, r

LEMMA InNone == ASSUME NEW g PROVE ~InSeq(g, None)
BY NoFrames DEF InSeq

LEMMA InSome == ASSUME NEW f \in Frames, NEW g PROVE InSeq(g, Some(f)) <=> g = f
<1>1. Len(Some(f)) = 1 /\ Some(f)[1] = f
  BY OneFrame
<1>2. 1..Len(Some(f)) = {1}
  BY <1>1
<1> QED
  BY <1>1, <1>2 DEF InSeq

(* What each step does to the frames in flight.                            *)
LEMMA FlyingAfterSend ==
    ASSUME LinkInv, NEW f \in Frames, TrySend(f), UNCHANGED <<linkVars, viewVars>>
    PROVE  IF HasRoom THEN Flying' = Flying \cup {f} ELSE Flying' = Flying
<1>1. chan \in Seq(Frames) /\ wire' = wire /\ inHand' = inHand
  BY LinkFacts DEF linkVars
<1>2. \A g : InSeq(g, Append(chan, f)) <=> (InSeq(g, chan) \/ g = f)
  BY <1>1, InAppend
<1>3. CASE HasRoom
  <2>1. chan' = Append(chan, f)
    BY <1>3 DEF TrySend
  <2> QED
    BY <1>1, <1>2, <1>3, <2>1 DEF Flying
<1>4. CASE ~HasRoom
  <2>1. chan' = chan
    BY <1>4 DEF TrySend
  <2> QED
    BY <1>1, <1>4, <2>1 DEF Flying
<1> QED
  BY <1>3, <1>4

LEMMA FlyingOnTheWay ==
    ASSUME LinkInv, Recv \/ Write
    PROVE  Flying' = Flying
<1>0. /\ chan \in Seq(Frames) /\ wire \in Seq(Frames) /\ inHand \in SomeFrame
  BY LinkFacts
<1>1. CASE Recv
  <2>1. /\ chan # <<>> /\ inHand' = Some(Head(chan)) /\ chan' = Tail(chan) /\ wire' = wire
        /\ inHand = None
    BY <1>1 DEF Recv, IsSome
  <2>2. Head(chan) = chan[1] /\ chan[1] \in Frames
    BY <1>0, <2>1, TailFacts
  <2>3. \A g : InSeq(g, chan) <=> (InSeq(g, chan') \/ g = chan[1])
    BY <1>0, <2>1, InTail
  <2>4. \A g : InSeq(g, inHand') <=> g = chan[1]
    BY <2>1, <2>2, InSome
  <2>5. \A g : ~InSeq(g, inHand)
    BY <2>1, InNone
  <2> QED
    BY <2>1, <2>3, <2>4, <2>5 DEF Flying
<1>2. CASE Write
  <2>1. IsSome(inHand) /\ wire' = wire \o inHand /\ inHand' = None /\ chan' = chan
    BY <1>2 DEF Write, chanVars
  <2>2. PICK f \in Frames : inHand = Some(f)
    BY <1>0, <2>1, HandCases
  <2>3. wire' = Append(wire, f)
    BY <1>0, <2>1, <2>2, OneFrame
  <2>4. \A g : InSeq(g, wire') <=> (InSeq(g, wire) \/ g = f)
    BY <1>0, <2>3, InAppend
  <2>5. \A g : (InSeq(g, inHand) <=> g = f) /\ ~InSeq(g, inHand')
    BY <2>1, <2>2, InSome, InNone
  <2> QED
    BY <2>1, <2>4, <2>5 DEF Flying
<1> QED
  BY <1>1, <1>2

LEMMA FlyingLess ==
    ASSUME LinkInv, chan' \in {chan, None}, inHand' \in {inHand, None}, wire' \in {wire, None}
    PROVE  /\ Flying' \subseteq Flying
           /\ (chan' = chan /\ inHand' = inHand /\ wire' = wire) => Flying' = Flying
BY InNone DEF Flying

LEMMA FlyingAfterRead ==
    ASSUME LinkInv, ClientRead
    PROVE  /\ wire[1] \in Flying /\ Flying = Flying' \cup {wire[1]}
           /\ \A g \in Flying' : wire[1].no < g.no
<1> DEFINE f == wire[1]
<1>0. /\ chan \in Seq(Frames) /\ wire \in Seq(Frames) /\ inHand \in Seq(Frames)
      /\ wire # <<>> /\ wire' = Tail(wire) /\ UNCHANGED <<chan, inHand>>
  BY LinkFacts DEF ClientRead, chanVars
<1>1. f \in Frames /\ Some(f)[1] = f /\ 1 \in 1..Len(Some(f))
  BY <1>0, TailFacts, OneFrame
<1>2. \A g : InSeq(g, wire) <=> (InSeq(g, wire') \/ g = f)
  BY <1>0, InTail
<1>3. /\ Precedes(Some(f), Tail(wire)) /\ Precedes(Some(f), inHand) /\ Precedes(Some(f), chan)
  BY <1>0, TailOrder, LinkFacts DEF LinkInv, OrderInv
<1> HIDE DEF f
<1>4. f \in Flying /\ Flying = Flying' \cup {f}
  BY <1>0, <1>1, <1>2 DEF Flying
<1>5. ASSUME NEW g \in Flying' PROVE f.no < g.no
  BY <1>0, <1>1, <1>3, <1>5 DEF Flying, InSeq, Precedes
<1> QED
  BY <1>4, <1>5 DEF f

(* Nothing of the way changes, and the lock is the same or is given up or  *)
(* is still to be announced.                                               *)
LEMMA ShownUnchanged ==
    ASSUME LinkInv, SymbolInv, UNCHANGED <<chanVars, linkVars, viewVars>>, OutboxInv',
           (IsSome(tracked') /\ ~Pending') => (tracked' = tracked /\ ~Pending)
    PROVE  SymbolInv'
<1>0. UNCHANGED <<chan, dropped, sent, base, inHand, wire, broken, view>>
  BY DEF chanVars, linkVars, viewVars
<1>1. Flying' = Flying
  BY <1>0 DEF Flying
<1>3. AnnounceInv'
  BY <1>0, <1>1 DEF SymbolInv, AnnounceInv
<1>4. DisplayInv'
  BY <1>0, <1>1 DEF SymbolInv, DisplayInv, SymbolMatchesTick
<1> QED
  BY <1>3, <1>4 DEF SymbolInv

LEMMA SymbolInitHolds == EngineInit /\ TelemetryInit => SymbolInv
<1> SUFFICES ASSUME EngineInit, TelemetryInit PROVE SymbolInv
  OBVIOUS
<1>0. /\ chan = None /\ wire = None /\ inHand = None /\ view.tick = None
      /\ outbox = <<>> /\ ~IsSome(tracked) /\ ~IsSome(view.tick)
  BY SomeFacts DEF EngineInit, TelemetryInit, None
<1>1. Flying = {}
  BY <1>0, InNone DEF Flying
<1> QED
  BY <1>0, <1>1 DEF SymbolInv, OutboxInv, AnnounceInv, DisplayInv, SymbolMatchesTick

(* What an event leaves to do has a header exactly when the lock is new.   *)
Headless(s) == s \in Seq(Kinds) /\ \A i \in 1..Len(s) : s[i] # "Header"

LEMMA HeadlessTail ==
    ASSUME NEW s, Headless(s), s # <<>>
    PROVE  Headless(Tail(s))
<1> DEFINE t == Tail(s)
<1>1. /\ Len(s) \in Nat \ {0} /\ t \in Seq(Kinds) /\ Len(t) = Len(s) - 1
      /\ \A i \in 1..(Len(s) - 1) : t[i] = s[i + 1]
  BY TailFacts DEF Headless
<1> HIDE DEF t
<1>2. \A i \in 1..Len(t) : i + 1 \in 1..Len(s) /\ t[i] = s[i + 1]
  BY <1>1
<1> QED
  BY <1>1, <1>2 DEF Headless, t

LEMMA HeadlessJoin ==
    ASSUME NEW s, NEW t, Headless(t), s \in Seq(Kinds), \A i \in 2..Len(s) : s[i] # "Header"
    PROVE  /\ s \o t \in Seq(Kinds) /\ \A i \in 2..Len(s \o t) : (s \o t)[i] # "Header"
           /\ Headless(s) => Headless(s \o t)
           /\ s # <<>> => s \o t # <<>> /\ (s \o t)[1] = s[1]
<1> DEFINE u == s \o t
<1>1. /\ s \in Seq(Kinds) /\ t \in Seq(Kinds) /\ u \in Seq(Kinds)
      /\ Len(s) \in Nat /\ Len(t) \in Nat /\ Len(u) = Len(s) + Len(t)
      /\ \A i \in 1..Len(s) : u[i] = s[i]
      /\ \A i \in 1..Len(t) : u[Len(s) + i] = t[i]
  BY DEF Headless
<1> HIDE DEF u
<1>2. ASSUME NEW i \in 1..Len(u), i > Len(s) PROVE u[i] # "Header"
  <2>1. i - Len(s) \in 1..Len(t) /\ Len(s) + (i - Len(s)) = i
    BY <1>1, <1>2
  <2> QED
    BY <1>1, <2>1 DEF Headless
<1>3. \A i \in 2..Len(u) : u[i] # "Header"
  <2> SUFFICES ASSUME NEW i \in 2..Len(u) PROVE u[i] # "Header"
    OBVIOUS
  <2>1. i \in 1..Len(u) /\ (i > Len(s) \/ (i \in 2..Len(s) /\ i \in 1..Len(s)))
    BY <1>1
  <2>2. CASE i > Len(s)
    BY <1>2, <2>1, <2>2
  <2>3. CASE i \in 2..Len(s) /\ i \in 1..Len(s)
    <3>1. u[i] = s[i]
      BY <1>1, <2>3
    <3> QED
      BY <2>3, <3>1
  <2> QED
    BY <2>1, <2>2, <2>3
<1>4. Headless(s) => Headless(u)
  BY <1>1, <1>2 DEF Headless
<1>5. s # <<>> => u # <<>> /\ u[1] = s[1]
  BY <1>1
<1> QED
  BY <1>1, <1>3, <1>4, <1>5 DEF u

LEMMA WorkHeader ==
    ASSUME NEW header \in BOOLEAN, NEW trade, NEW due
    PROVE  /\ \A i \in 2..Len(Work(header, trade, due)) : Work(header, trade, due)[i] # "Header"
           /\ header => /\ Work(header, trade, due) # <<>>
                        /\ Work(header, trade, due)[1] = "Header"
           /\ ~header => Headless(Work(header, trade, due))
<1> DEFINE h == IF header THEN <<"Header">> ELSE <<>>
           c == IF "Chaos" \in due THEN <<"Chaos">> ELSE <<>>
           t == IF trade THEN <<"Trade">> ELSE <<>>
           s == IF "Snapshot" \in due THEN <<"SnapOpen", "SnapWrite", "SnapRename">> ELSE <<>>
           k == IF "Tick" \in due THEN <<"Tick", "Risk", "Lat">> ELSE <<>>
           b == IF "Book" \in due THEN <<"Book">> ELSE <<>>
           Led(u) == /\ u \in Seq(Kinds) /\ \A i \in 2..Len(u) : u[i] # "Header"
                     /\ header => u # <<>> /\ u[1] = "Header"
                     /\ ~header => Headless(u)
<1>0. Headless(<<>>)
  BY DEF Headless
<1>1. Headless(<<"Chaos">>) /\ Headless(<<"Trade">>) /\ Headless(<<"Book">>)
  BY DEF Headless, Kinds
<1>2. Headless(<<"SnapOpen", "SnapWrite", "SnapRename">>) /\ Headless(<<"Tick", "Risk", "Lat">>)
  BY DEF Headless, Kinds
<1>3. Headless(c) /\ Headless(t) /\ Headless(s) /\ Headless(k) /\ Headless(b)
  BY <1>0, <1>1, <1>2, Zenon
<1>4. Led(h)
  <2>1. CASE header
    <3>1. h = <<"Header">>
      BY <2>1
    <3>2. /\ <<"Header">> \in Seq(Kinds) /\ Len(<<"Header">>) = 1 /\ <<"Header">> # <<>>
          /\ <<"Header">>[1] = "Header"
      BY DEF Kinds
    <3> QED
      BY <2>1, <3>1, <3>2
  <2>2. CASE ~header
    <3>1. h = <<>>
      BY <2>2
    <3> QED
      BY <1>0, <2>2, <3>1 DEF Headless
  <2> QED
    BY <2>1, <2>2
<1>5. Work(header, trade, due) = h \o c \o t \o s \o k \o b
  BY DEF Work
<1> HIDE DEF h, c, t, s, k, b
<1>6. ASSUME NEW u, NEW v, Led(u), Headless(v) PROVE Led(u \o v)
  BY <1>6, HeadlessJoin
<1> HIDE DEF Led
<1>7. Led(h \o c)
  BY <1>3, <1>4, <1>6
<1>8. Led(h \o c \o t)
  BY <1>3, <1>6, <1>7
<1>9. Led(h \o c \o t \o s)
  BY <1>3, <1>6, <1>8
<1>10. Led(h \o c \o t \o s \o k)
  BY <1>3, <1>6, <1>9
<1>11. Led(h \o c \o t \o s \o k \o b)
  BY <1>3, <1>6, <1>10
<1> QED
  BY <1>5, <1>11 DEF Led

LEMMA EventSymbol ==
    ASSUME LinkInv, SymbolInv, EngineInv, NEW i \in Instruments, NEW trade \in BOOLEAN,
           NEW due \in Dues, Event(i, trade, due)
    PROVE  SymbolInv'
<1>0. /\ outbox = <<>> /\ UNCHANGED <<chanVars, linkVars, viewVars>>
  BY DEF Event
<1>1. ~Pending
  BY <1>0 DEF Pending
<1>2. CASE outbox' = <<>> /\ tracked' \in {tracked, None}
  <2>1. OutboxInv'
    BY <1>2 DEF OutboxInv
  <2>2. IsSome(tracked') => tracked' = tracked
    BY <1>2, SomeFacts
  <2> QED
    BY <1>0, <1>1, <2>1, <2>2, ShownUnchanged
<1>3. CASE tracked' = tracked /\ IsSome(tracked) /\ outbox' = Work(FALSE, trade, due)
  <2>1. OutboxInv'
    BY <1>3, WorkHeader DEF OutboxInv
  <2> QED
    BY <1>0, <1>1, <1>3, <2>1, ShownUnchanged
<1>4. CASE tracked' = Some(i) /\ outbox' = Work(TRUE, trade, due)
  <2>0. /\ outbox' # <<>> /\ outbox'[1] = "Header"
        /\ \A j \in 2..Len(outbox') : outbox'[j] # "Header"
    BY <1>4, WorkHeader
  <2>1. OutboxInv' /\ Pending'
    BY <1>4, <2>0, SomeFacts DEF OutboxInv, Pending
  <2> QED
    BY <1>0, <2>1, ShownUnchanged
<1> QED
  <2>1. CASE ~Rearms /\ IsSome(tracked)
    BY <2>1, <1>0, <1>2, <1>3 DEF Event, LockedEvent, Take, Skip, lockVars, bookVars
  <2>2. CASE Rearms \/ ~IsSome(tracked)
    BY <2>2, <1>0, <1>2, <1>4 DEF Event, UnlockedEvent, Take, Skip, bookVars
  <2> QED
    BY <2>1, <2>2

(* Once the first step is taken no header is left.                         *)
LEMMA RestHeadless ==
    ASSUME EngineInv, OutboxInv, outbox # <<>>
    PROVE  /\ Len(Tail(outbox)) \in Nat /\ \A i \in 1..Len(Tail(outbox)) : Tail(outbox)[i] # "Header"
           /\ Tail(outbox) # <<>> => IsSome(tracked)
<1> DEFINE t == Tail(outbox)
<1>1. /\ Len(outbox) \in Nat \ {0} /\ t \in Seq(Kinds) /\ Len(t) = Len(outbox) - 1
      /\ \A i \in 1..(Len(outbox) - 1) : t[i] = outbox[i + 1]
  BY TailFacts DEF EngineInv, EngTypeOK
<1> HIDE DEF t
<1>2. ASSUME NEW i \in 1..Len(t) PROVE t[i] # "Header"
  <2>1. i + 1 \in 2..Len(outbox) /\ t[i] = outbox[i + 1]
    BY <1>1
  <2> QED
    BY <2>1 DEF OutboxInv
<1>3. ASSUME t # <<>> PROVE IsSome(tracked)
  <2>1. Len(t) # 0
    BY <1>1, <1>3
  <2> QED
    BY <1>1, <2>1 DEF OutboxInv
<1>5. Len(t) \in Nat
  BY <1>1
<1> QED
  BY <1>2, <1>3, <1>5 DEF t

LEMMA TickFacts ==
    ASSUME LinkInv, IsSome(view.tick)
    PROVE  view.tick[1].frame \in Frames /\ view.tick[1].frame.no \in Nat
<1>1. PICK t \in [frame : Frames, before : Nat, whole : BOOLEAN] : view.tick = Some(t)
  BY DEF LinkInv, LinkTypeOK, Views, IsSome
<1>2. view.tick[1] = t /\ t.frame \in Frames
  BY <1>1, SomeFacts
<1> QED
  BY <1>2, FrameNo

(* A frame that is sent comes after all the others.                        *)
LEMMA ShownAfterSend ==
    ASSUME NEW F, NEW f, NEW G, G \subseteq F \cup {f}, F \subseteq G,
           NEW n \in Nat, f.no \in Nat, n <= f.no, NEW v, NEW o, Shows(F, v, n, o)
    PROVE  Shows(G, v, n, o)
<1>1. \A g \in G : g \in F \/ (g = f /\ g.no >= n /\ ~(g.no < n))
  OBVIOUS
<1>2. CASE v = o /\ \A g \in F : Announces(g) => g.no >= n
  BY <1>1, <1>2 DEF Shows
<1>3. CASE \E h \in F : /\ Announces(h) /\ h.no < n /\ h.inst = o
                        /\ \A g \in F : (Announces(g) /\ g.no < n) => g.no <= h.no
  <2>1. PICK h \in F : /\ Announces(h) /\ h.no < n /\ h.inst = o
                       /\ \A g \in F : (Announces(g) /\ g.no < n) => g.no <= h.no
    BY <1>3
  <2>2. h \in G /\ \A g \in G : (Announces(g) /\ g.no < n) => g.no <= h.no
    BY <1>1, <2>1
  <2> QED
    BY <2>1, <2>2 DEF Shows
<1> QED
  BY <1>2, <1>3 DEF Shows

LEMMA PublishSymbol ==
    ASSUME LinkInv, SymbolInv, EngineInv, Publish
    PROVE  SymbolInv'
<1>0. /\ outbox # <<>> /\ outbox' = Tail(outbox) /\ tracked' = tracked
      /\ UNCHANGED <<linkVars, viewVars>>
      /\ Head(outbox) = outbox[1] /\ outbox[1] \in Kinds /\ tracked \in Options
  BY TailFacts DEF Publish, EngineInv, EngTypeOK, lockVars
<1>1. /\ Len(Tail(outbox)) \in Nat
      /\ \A i \in 1..Len(Tail(outbox)) : Tail(outbox)[i] # "Header"
      /\ Tail(outbox) # <<>> => IsSome(tracked)
  BY <1>0, RestHeadless DEF SymbolInv
<1>2. OutboxInv' /\ ~Pending'
  <2>1. Tail(outbox) # <<>> => Tail(outbox)[1] # "Header"
    <3> SUFFICES ASSUME Tail(outbox) # <<>> PROVE Tail(outbox)[1] # "Header"
      OBVIOUS
    <3>1. Tail(outbox) \in Seq(Kinds)
      BY <1>0, TailFacts DEF EngineInv, EngTypeOK
    <3>2. 1 \in 1..Len(Tail(outbox))
      BY <3>1, TailFacts
    <3> QED
      BY <1>1, <3>2
  <2>2. \A i \in 2..Len(Tail(outbox)) : i \in 1..Len(Tail(outbox))
    BY <1>1
  <2> QED
    BY <1>0, <1>1, <2>1, <2>2 DEF OutboxInv, Pending
<1>3. CASE outbox[1] \in {"Trade", "Tick"} /\ UNCHANGED chanVars
  <2>1. ~Pending
    BY <1>3 DEF Pending
  <2> QED
    BY <1>0, <1>2, <1>3, <2>1, ShownUnchanged
<1>4. CASE TrySend(Frame(Head(outbox), tracked, SymbolOfTracked, TickDrops))
  <2> DEFINE f == Frame(outbox[1], tracked, SymbolOfTracked, TickDrops)
  <2>0. sent \in Nat /\ dropped \in Nat /\ base \in Nat
    BY LinkFacts
  <2>1. /\ f \in Frames /\ f.no = sent + 1 /\ f.kind = outbox[1]
        /\ f.kind = "Tick" => f.dropped = dropped /\ f.inst = tracked
        /\ f.kind = "Header" => f.inst = tracked
    BY <1>0, <2>0, FrameFacts
  <2>2. TrySend(f)
    BY <1>0, <1>4
  <2> HIDE DEF f
  <2>3. /\ sent' = sent + 1 /\ base' = base /\ view' = view /\ broken' = broken
        /\ dropped' = IF HasRoom THEN dropped ELSE dropped + 1
    BY <1>0, <2>2 DEF TrySend, linkVars, viewVars, Shed
  <2>4. IF HasRoom THEN Flying' = Flying \cup {f} ELSE Flying' = Flying
    BY <1>0, <2>1, <2>2, FlyingAfterSend
  <2>5. Flying' \subseteq Flying \cup {f} /\ Flying \subseteq Flying'
    BY <2>4
  <2>6. \A g \in Flying : g \in Frames /\ g.no \in Nat /\ g.no <= sent
    BY FlyingFacts
  <2>7. ASSUME NEW n \in Nat, NEW o, n <= sent + 1, Shows(Flying, view.instrument, n, o)
        PROVE  Shows(Flying', view.instrument, n, o)
    <3>1. f.no \in Nat /\ n <= f.no
      BY <2>0, <2>1, <2>7
    <3> QED
      BY <2>5, <2>7, <3>1, ShownAfterSend
  <2>8. f.kind # "Header" => IsSome(tracked) /\ ~Pending
    BY <1>0, <2>1 DEF SymbolInv, OutboxInv, Pending
  <2>9. AnnounceInv'
    <3> SUFFICES ASSUME ~broken
                 PROVE  /\ \A t \in Flying' : (t.kind = "Tick" /\ t.no > base /\ t.dropped = 0)
                                                  => Shows(Flying', view.instrument, t.no, t.inst)
                        /\ (dropped' = 0 /\ IsSome(tracked)) => Shows(Flying', view.instrument, sent + 2, tracked)
      <4>1. sent' + 1 = sent + 2
        BY <2>0, <2>3
      <4> QED
        BY <1>0, <1>2, <2>3, <4>1 DEF AnnounceInv
    <3>1. ASSUME NEW t \in Flying, t.kind = "Tick", t.no > base, t.dropped = 0
          PROVE  Shows(Flying', view.instrument, t.no, t.inst)
      <4>1. Shows(Flying, view.instrument, t.no, t.inst) /\ t.no \in Nat /\ t.no <= sent + 1
        BY <2>0, <2>6, <3>1 DEF SymbolInv, AnnounceInv
      <4> QED
        BY <2>7, <4>1
    <3>2. ASSUME f.kind = "Tick", f.dropped = 0 PROVE Shows(Flying', view.instrument, f.no, f.inst)
      <4>1. Shows(Flying, view.instrument, sent + 1, tracked) /\ sent + 1 \in Nat
        BY <2>0, <2>1, <2>8, <3>2 DEF SymbolInv, AnnounceInv
      <4>2. Shows(Flying', view.instrument, sent + 1, tracked)
        BY <2>7, <4>1, <2>0
      <4> QED
        BY <2>1, <3>2, <4>2
    <3>3. ASSUME dropped' = 0, IsSome(tracked) PROVE Shows(Flying', view.instrument, sent + 2, tracked)
      <4>1. HasRoom /\ dropped = 0 /\ Flying' = Flying \cup {f}
        BY <2>0, <2>3, <2>4, <3>3
      <4>2. \A g \in Flying' : g.no \in Nat /\ g.no <= sent + 1 /\ g.no < sent + 2
        BY <2>0, <2>1, <2>6, <4>1
      <4>3. CASE f.kind = "Header"
        <5>1. f \in Flying' /\ Announces(f) /\ f.inst = tracked /\ f.no < sent + 2
          BY <2>1, <3>3, <4>1, <4>2, <4>3 DEF Announces
        <5>2. \A g \in Flying' : g.no <= f.no
          BY <2>1, <4>2
        <5> QED
          BY <1>0, <5>1, <5>2 DEF Shows
      <4>4. CASE f.kind # "Header"
        <5>1. Shows(Flying, view.instrument, sent + 1, tracked)
          BY <2>8, <3>3, <4>1, <4>4 DEF SymbolInv, AnnounceInv
        <5>2. \A g \in Flying' : Announces(g) => g \in Flying /\ g.no < sent + 1 /\ ~(g.no >= sent + 1)
          BY <2>0, <2>6, <4>1, <4>4 DEF Announces
        <5>3. CASE view.instrument = tracked /\ \A g \in Flying : Announces(g) => g.no >= sent + 1
          <6>1. \A g \in Flying' : ~Announces(g)
            BY <5>2, <5>3
          <6> QED
            BY <1>0, <2>3, <5>3, <6>1 DEF Shows
        <5>4. CASE \E h \in Flying : /\ Announces(h) /\ h.no < sent + 1 /\ h.inst = tracked
                                     /\ \A g \in Flying : (Announces(g) /\ g.no < sent + 1)
                                                              => g.no <= h.no
          <6>1. PICK h \in Flying : /\ Announces(h) /\ h.no < sent + 1 /\ h.inst = tracked
                                    /\ \A g \in Flying : (Announces(g) /\ g.no < sent + 1)
                                                              => g.no <= h.no
            BY <5>4
          <6>2. h \in Flying' /\ h.no < sent + 2 /\ \A g \in Flying' : Announces(g) => g.no <= h.no
            BY <2>5, <4>2, <5>2, <6>1
          <6> QED
            BY <1>0, <6>1, <6>2 DEF Shows
        <5> QED
          BY <5>1, <5>3, <5>4 DEF Shows
      <4> QED
        BY <4>3, <4>4
    <3> QED
      BY <2>5, <3>1, <3>2, <3>3
  <2>10. DisplayInv'
    <3>1. ASSUME IsSome(view.tick)
          PROVE  /\ view.tick[1].frame.no <= sent + 1
                 /\ \A g \in Flying' : view.tick[1].frame.no < g.no
      <4>1. /\ view.tick[1].frame.no <= sent /\ \A g \in Flying : view.tick[1].frame.no < g.no
        BY <3>1 DEF SymbolInv, DisplayInv
      <4>2. view.tick[1].frame.no \in Nat
        BY <3>1, TickFacts
      <4>3. view.tick[1].frame.no <= sent + 1 /\ view.tick[1].frame.no < f.no
        BY <2>0, <2>1, <4>1, <4>2
      <4> QED
        BY <2>5, <4>1, <4>3
    <3>2. SymbolMatchesTick'
      BY <2>3 DEF SymbolInv, DisplayInv, SymbolMatchesTick
    <3> QED
      BY <2>3, <3>1, <3>2 DEF DisplayInv
  <2> QED
    BY <1>2, <2>9, <2>10 DEF SymbolInv
<1> QED
  BY <1>0, <1>3, <1>4 DEF Publish

(* The engine starts or ends, or takes a step that sends nothing.          *)
LEMMA QuietStepSymbol ==
    ASSUME LinkInv, SymbolInv, EngineInv,
           \/ \E opt \in {None} \cup {Some(i) : i \in Symbols} : Start(opt) \/ Resume(opt)
           \/ (\E i \in Named : Harvest(i)) \/ Quieten
           \/ SnapOpen \/ SnapWrite \/ SnapRename \/ SnapFails
    PROVE  SymbolInv'
<1>0. UNCHANGED <<chanVars, linkVars, viewVars>>
  BY DEF Start, Resume, Harvest, Quieten, SnapOpen, SnapWrite, SnapRename, SnapFails
<1>1. CASE \E opt \in {None} \cup {Some(i) : i \in Symbols} : Start(opt) \/ Resume(opt)
  <2>1. outbox' = <<"Header">>
    BY <1>1 DEF Start, Resume
  <2>2. Len(<<"Header">>) = 1 /\ <<"Header">> # <<>> /\ <<"Header">>[1] = "Header"
    OBVIOUS
  <2>3. OutboxInv' /\ Pending'
    BY <2>1, <2>2 DEF OutboxInv, Pending
  <2> QED
    BY <1>0, <2>3, ShownUnchanged
<1>2. CASE (\E i \in Named : Harvest(i)) \/ Quieten
  <2>1. UNCHANGED <<outbox, tracked>>
    BY <1>2 DEF Harvest, Quieten, lockVars
  <2>2. OutboxInv' /\ (Pending' <=> Pending)
    BY <2>1 DEF SymbolInv, OutboxInv, Pending
  <2> QED
    BY <1>0, <2>1, <2>2, ShownUnchanged
<1>3. CASE SnapOpen \/ SnapWrite \/ SnapRename \/ SnapFails
  <2>0. /\ outbox # <<>> /\ tracked' = tracked
        /\ \/ outbox' = Tail(outbox)
           \/ Head(outbox) = "SnapWrite" /\ outbox' = Tail(Tail(outbox))
           \/ Head(outbox) = "SnapOpen" /\ outbox' = Tail(Tail(Tail(outbox)))
    BY <1>3 DEF SnapOpen, SnapWrite, SnapRename, SnapFails, lockVars
  <2>1. Head(outbox) # "Header"
    BY <1>3 DEF SnapOpen, SnapWrite, SnapRename, SnapFails
  <2>2. /\ outbox[1] # "Header" /\ outbox[1] = Head(outbox) /\ ~Pending
        /\ outbox \in Seq(Kinds) /\ StepsTogether(outbox)
    BY <2>0, <2>1, TailFacts DEF EngineInv, EngTypeOK, DiskInv, Pending
  <2>3. IsSome(tracked)
    BY <2>0, <2>2 DEF SymbolInv, OutboxInv
  <2>4. Headless(outbox)
    <3>1. \A i \in 1..Len(outbox) : i = 1 \/ i \in 2..Len(outbox)
      BY <2>2
    <3> QED
      BY <2>2, <3>1 DEF Headless, SymbolInv, OutboxInv
  <2>5. Headless(Tail(outbox))
    BY <2>0, <2>4, HeadlessTail
  <2>6. outbox' \in Seq(Kinds) /\ \A i \in 1..Len(outbox') : outbox'[i] # "Header"
    <3>1. CASE outbox' = Tail(outbox)
      BY <2>5, <3>1 DEF Headless
    <3>2. CASE outbox[1] = "SnapWrite" /\ outbox' = Tail(Tail(outbox))
      <4>1. Tail(outbox) # <<>>
        BY <2>0, <2>2, <3>2, RestIsTogether
      <4> QED
        BY <2>5, <3>2, <4>1, HeadlessTail DEF Headless
    <3>3. CASE outbox[1] = "SnapOpen" /\ outbox' = Tail(Tail(Tail(outbox)))
      <4>1. /\ Tail(outbox) # <<>> /\ Tail(outbox)[1] = "SnapWrite" /\ Tail(outbox) \in Seq(Kinds)
            /\ StepsTogether(Tail(outbox))
        BY <2>0, <2>2, <3>3, RestIsTogether
      <4>2. Headless(Tail(Tail(outbox))) /\ Tail(Tail(outbox)) # <<>>
        BY <2>5, <4>1, HeadlessTail, RestIsTogether
      <4> QED
        BY <3>3, <4>2, HeadlessTail DEF Headless
    <3> QED
      BY <2>0, <2>2, <3>1, <3>2, <3>3
  <2>7. /\ \A i \in 2..Len(outbox') : i \in 1..Len(outbox')
        /\ outbox' # <<>> => 1 \in 1..Len(outbox')
    BY <2>6
  <2>8. OutboxInv' /\ ~Pending'
    BY <2>0, <2>3, <2>6, <2>7 DEF OutboxInv, Pending
  <2> QED
    BY <1>0, <2>0, <2>2, <2>8, ShownUnchanged
<1> QED
  BY <1>1, <1>2, <1>3

LEMMA DownSymbol ==
    ASSUME LinkInv, SymbolInv, Exit \/ PowerLoss
    PROVE  SymbolInv'
<1>0. /\ tracked' = None /\ outbox' = <<>>
      /\ chan' = None /\ inHand' = None /\ wire' = wire /\ view' = view /\ sent' = sent
      /\ base' = sent
  BY DEF Exit, PowerLoss, Down, Hangup, None
<1>1. Flying' \subseteq Flying
  BY <1>0, FlyingLess
<1>2. \A g \in Flying' : ~(g.no > base')
  <2>1. \A g \in Flying' : g.no \in Nat /\ g.no <= sent
    BY <1>1, FlyingFacts
  <2>2. sent \in Nat
    BY LinkFacts
  <2> QED
    BY <1>0, <2>1, <2>2
<1>3. ~IsSome(tracked')
  BY <1>0, SomeFacts
<1>4. OutboxInv' /\ AnnounceInv'
  BY <1>0, <1>2, <1>3 DEF OutboxInv, AnnounceInv
<1>5. DisplayInv'
  BY <1>0, <1>1 DEF SymbolInv, DisplayInv, SymbolMatchesTick
<1> QED
  BY <1>4, <1>5 DEF SymbolInv

(* Frames move on, or are lost and the loss is noted.                      *)
LEMMA MovedSymbol ==
    ASSUME SymbolInv, Flying' \subseteq Flying,
           broken' = TRUE \/ (Flying' = Flying /\ broken' = broken),
           UNCHANGED <<dropped, sent, base, view, outbox, tracked>>
    PROVE  SymbolInv'
<1>1. OutboxInv' /\ (Pending' <=> Pending)
  BY DEF SymbolInv, OutboxInv, Pending
<1>2. AnnounceInv'
  <2>1. CASE broken' = TRUE
    BY <2>1 DEF AnnounceInv
  <2>2. CASE Flying' = Flying /\ broken' = broken
    BY <1>1, <2>2 DEF SymbolInv, AnnounceInv
  <2> QED
    BY <2>1, <2>2
<1>3. DisplayInv'
  BY DEF SymbolInv, DisplayInv, SymbolMatchesTick
<1> QED
  BY <1>1, <1>2, <1>3 DEF SymbolInv

(* The first frame is read.                                                *)
LEMMA ShownAfterRead ==
    ASSUME NEW F, NEW G, NEW f, F = G \cup {f}, \A g \in F : g.no \in Nat,
           \A g \in G : f.no < g.no, NEW n \in Nat, f.no < n, NEW v, NEW o,
           Shows(F, v, n, o)
    PROVE  Shows(G, IF Announces(f) THEN f.inst ELSE v, n, o)
<1>1. f \in F /\ f.no \in Nat /\ \A g \in G : g \in F /\ g.no \in Nat
  OBVIOUS
<1>2. CASE v = o /\ \A g \in F : Announces(g) => g.no >= n
  <2>1. ~Announces(f)
    BY <1>1, <1>2
  <2> QED
    BY <1>1, <1>2, <2>1 DEF Shows
<1>3. CASE \E h \in F : /\ Announces(h) /\ h.no < n /\ h.inst = o
                        /\ \A g \in F : (Announces(g) /\ g.no < n) => g.no <= h.no
  <2>1. PICK h \in F : /\ Announces(h) /\ h.no < n /\ h.inst = o
                       /\ \A g \in F : (Announces(g) /\ g.no < n) => g.no <= h.no
    BY <1>3
  <2>2. CASE h = f
    <3>1. \A g \in G : Announces(g) => g.no >= n
      BY <1>1, <2>1, <2>2
    <3> QED
      BY <2>1, <2>2, <3>1 DEF Shows
  <2>3. CASE h # f
    <3>1. h \in G
      BY <2>1, <2>3
    <3> QED
      BY <1>1, <2>1, <3>1 DEF Shows
  <2> QED
    BY <2>2, <2>3
<1> QED
  BY <1>2, <1>3 DEF Shows

LEMMA ClientReadSymbol ==
    ASSUME LinkInv, SymbolInv, ClientRead, UNCHANGED <<outbox, tracked>>
    PROVE  SymbolInv'
<1> DEFINE f == wire[1]
           w == view'
<1>0. UNCHANGED <<dropped, sent, base, broken>> /\ wire # <<>> /\ wire \in Seq(Frames)
  BY LinkFacts DEF ClientRead, chanVars
<1>1. f \in Flying /\ Flying = Flying' \cup {f} /\ \A g \in Flying' : f.no < g.no
  BY FlyingAfterRead
<1>2. \A g \in Flying : g \in Frames /\ g.no \in Nat /\ g.no <= sent
  BY FlyingFacts
<1>3. base \in Nat /\ got \in Nat /\ sent \in Nat /\ view \in Views
  BY DEF LinkInv, LinkTypeOK
<1>4. w = DispatchJSON(f) /\ f \in Frames
  BY <1>0, TailFacts DEF ClientRead
<1>5. /\ w.header = IF f.kind = "Header" THEN Some(f) ELSE view.header
      /\ w.instrument = IF Announces(f) THEN f.inst ELSE view.instrument
      /\ w.symbol = IF f.kind = "Header" /\ IsSome(f.sym) THEN f.sym ELSE view.symbol
      /\ w.tick = IF f.kind = "Tick"
                  THEN Some([frame |-> f, before |-> base + got,
                             whole |-> ~broken /\ f.no > base])
                  ELSE view.tick
  BY <1>3, <1>4, DispatchFacts DEF Announces
<1> HIDE DEF f, w
<1>6. OutboxInv' /\ (Pending' <=> Pending)
  BY DEF SymbolInv, OutboxInv, Pending
<1>7. ASSUME NEW n \in Nat, f.no < n, NEW o, Shows(Flying, view.instrument, n, o)
      PROVE  Shows(Flying', w.instrument, n, o)
  <2>1. \A g \in Flying : g.no \in Nat
    BY <1>2
  <2>2. Shows(Flying', IF Announces(f) THEN f.inst ELSE view.instrument, n, o)
    BY <1>1, <1>7, <2>1, ShownAfterRead
  <2> QED
    BY <1>5, <2>2
<1>8. AnnounceInv'
  <2> SUFFICES ASSUME ~broken
               PROVE  /\ \A t \in Flying' : (t.kind = "Tick" /\ t.no > base /\ t.dropped = 0)
                                                => Shows(Flying', w.instrument, t.no, t.inst)
                      /\ (dropped = 0 /\ IsSome(tracked) /\ ~Pending)
                            => Shows(Flying', w.instrument, sent + 1, tracked)
    BY <1>0, <1>6 DEF AnnounceInv, w
  <2>1. ASSUME NEW t \in Flying', t.kind = "Tick", t.no > base, t.dropped = 0
        PROVE  Shows(Flying', w.instrument, t.no, t.inst)
    <3>1. t \in Flying /\ t.no \in Nat /\ f.no < t.no
      BY <1>1, <1>2
    <3>2. Shows(Flying, view.instrument, t.no, t.inst)
      BY <2>1, <3>1 DEF SymbolInv, AnnounceInv
    <3> QED
      BY <1>7, <3>1, <3>2
  <2>2. ASSUME dropped = 0, IsSome(tracked), ~Pending
        PROVE  Shows(Flying', w.instrument, sent + 1, tracked)
    <3>1. sent + 1 \in Nat /\ f.no < sent + 1
      BY <1>1, <1>2, <1>3
    <3>2. Shows(Flying, view.instrument, sent + 1, tracked)
      BY <2>2 DEF SymbolInv, AnnounceInv
    <3> QED
      BY <1>7, <3>1, <3>2
  <2> QED
    BY <2>1, <2>2
<1>9. f.no <= sent /\ f.no \in Nat
  BY <1>1, <1>2
<1>10. CASE f.kind = "Tick"
  <2>1. /\ IsSome(w.tick) /\ w.tick[1].frame = f /\ w.tick[1].whole = (~broken /\ f.no > base)
        /\ w.instrument = view.instrument /\ w.header = view.header /\ w.symbol = view.symbol
    BY <1>5, <1>10, SomeFacts DEF Announces
  <2>2. ASSUME ~broken, f.no > base, f.dropped = 0 PROVE view.instrument = f.inst
    <3>1. Shows(Flying, view.instrument, f.no, f.inst)
      BY <1>1, <1>10, <2>2 DEF SymbolInv, AnnounceInv
    <3>2. \A g \in Flying : ~(g.no < f.no)
      BY <1>1, <1>2
    <3> QED
      BY <3>1, <3>2 DEF Shows
  <2>3. DisplayInv'
    BY <1>0, <1>1, <1>9, <2>1, <2>2 DEF DisplayInv, SymbolMatchesTick, LinkInv, NameInv, w
  <2> QED
    BY <1>6, <1>8, <2>3 DEF SymbolInv
<1>11. CASE f.kind # "Tick"
  <2>1. w.tick = view.tick
    BY <1>5, <1>11
  <2>2. IsSome(view.tick) => /\ view.tick[1].frame.no <= sent
                             /\ view.tick[1].frame.no < f.no
                             /\ \A g \in Flying' : view.tick[1].frame.no < g.no
    BY <1>1 DEF SymbolInv, DisplayInv
  <2>3. SymbolMatchesTick'
    <3>1. CASE f.kind = "Header"
      <4>1. w.header[1] = f
        BY <1>5, <3>1, SomeFacts
      <4>2. IsSome(view.tick) => ~(f.no < view.tick[1].frame.no)
        BY <1>9, <2>2, TickFacts
      <4> QED
        BY <2>1, <4>1, <4>2 DEF SymbolMatchesTick, w
    <3>2. CASE f.kind # "Header"
      <4>1. w.header = view.header /\ w.instrument = view.instrument /\ w.symbol = view.symbol
        BY <1>5, <3>2 DEF Announces
      <4> QED
        BY <2>1, <4>1 DEF SymbolInv, DisplayInv, SymbolMatchesTick, w
    <3> QED
      BY <3>1, <3>2
  <2>4. DisplayInv'
    BY <1>0, <2>1, <2>2, <2>3 DEF DisplayInv, w
  <2> QED
    BY <1>6, <1>8, <2>4 DEF SymbolInv
<1> QED
  BY <1>10, <1>11

LEMMA LinkSymbol ==
    ASSUME LinkInv, SymbolInv, Link
    PROVE  SymbolInv'
<1>0. UNCHANGED <<outbox, tracked, up>> /\ LinkNext(up)
  BY DEF Link, engVars, lockVars
<1>6. CASE AcceptDead
  <2>1. UNCHANGED <<chan, inHand, wire, dropped, sent, base, view>>
        /\ (broken' = TRUE \/ broken' = broken)
    BY <1>6 DEF AcceptDead, chanVars, viewVars
  <2>2. Flying' = Flying
    BY <2>1 DEF Flying
  <2> QED
    BY <1>0, <2>1, <2>2, MovedSymbol
<1>1. CASE Accept \/ Dial
  <2>1. UNCHANGED <<chan, inHand, wire, dropped, sent, base, view, broken>>
    BY <1>1 DEF Accept, Dial, chanVars, viewVars
  <2>2. Flying' = Flying
    BY <2>1 DEF Flying
  <2> QED
    BY <1>0, <2>1, <2>2, MovedSymbol
<1>2. CASE Recv \/ Write
  <2>1. UNCHANGED <<dropped, sent, base, view, broken>>
    BY <1>2 DEF Recv, Write, chanVars, viewVars
  <2>2. Flying' = Flying
    BY <1>2, FlyingOnTheWay
  <2> QED
    BY <1>0, <2>1, <2>2, MovedSymbol
<1>3. CASE EncodeFails \/ WriteIntoVoid \/ WriteFails
  <2>1. UNCHANGED <<chan, wire, dropped, sent, base, view>> /\ inHand' = None
    BY <1>3 DEF EncodeFails, WriteIntoVoid, WriteFails, chanVars, viewVars
  <2>2. broken' = TRUE
    BY <1>3 DEF EncodeFails, WriteIntoVoid, WriteFails, LinkInv, LinkTypeOK, ConnInv
  <2>3. Flying' \subseteq Flying
    BY <2>1, FlyingLess
  <2> QED
    BY <1>0, <2>1, <2>2, <2>3, MovedSymbol
<1>4. CASE ClientBreaks \/ ClientEof
  <2>1. UNCHANGED <<chan, inHand, dropped, sent, base, view>> /\ wire' = None
    BY <1>4 DEF ClientBreaks, ClientEof, chanVars, viewVars, None
  <2>2. Flying' \subseteq Flying
    BY <2>1, FlyingLess
  <2>3. broken' = TRUE \/ (wire = None /\ broken' = broken)
    BY <1>4 DEF ClientBreaks, ClientEof, LinkInv, LinkTypeOK, ConnInv, None
  <2>4. wire = None => Flying' = Flying
    BY <2>1 DEF Flying
  <2> QED
    BY <1>0, <2>1, <2>2, <2>3, <2>4, MovedSymbol
<1>5. CASE ClientRead
  BY <1>0, <1>5, ClientReadSymbol
<1> QED
  BY <1>0, <1>1, <1>2, <1>3, <1>4, <1>5, <1>6 DEF LinkNext

-----------------------------------------------------------------------------
(* The three invariants together are inductive.                            *)
FullInv == EngineInv /\ LinkInv /\ SymbolInv

LEMMA PublishLink ==
    ASSUME EngineInv, LinkInv, Publish
    PROVE  LinkInv'
<1>0. /\ outbox # <<>> /\ up /\ up' = up /\ UNCHANGED <<linkVars, viewVars>>
      /\ Head(outbox) \in Kinds /\ tracked \in Options
  BY TailFacts DEF Publish, EngineInv, EngTypeOK
<1>1. CASE UNCHANGED chanVars
  BY <1>0, <1>1, LinkUnchanged
<1>2. CASE TrySend(Frame(Head(outbox), tracked, SymbolOfTracked, TickDrops))
  <2> DEFINE f == Frame(Head(outbox), tracked, SymbolOfTracked, TickDrops)
  <2>1. sent \in Nat /\ dropped \in Nat
    BY LinkFacts
  <2>2. f \in Frames /\ f.no = sent + 1 /\ (f.kind = "Tick" => f.dropped = dropped)
    BY <1>0, <2>1, FrameFacts
  <2>3. TrySend(f) /\ UNCHANGED <<linkVars, viewVars, up>>
    BY <1>0, <1>2
  <2> HIDE DEF f
  <2> QED
    BY <2>2, <2>3, TrySendKeeps
<1> QED
  BY <1>1, <1>2 DEF Publish

LEMMA FullInitHolds == Init => FullInv
BY EngineInitHolds, TelemetryInitHolds, SymbolInitHolds DEF Init, FullInv

LEMMA FullNextKeeps == FullInv /\ [Next]_vars => FullInv'
<1> SUFFICES ASSUME EngineInv, LinkInv, SymbolInv, [Next]_vars
             PROVE  LinkInv' /\ SymbolInv'
  BY EngineNextKeeps DEF FullInv
<1>1. CASE Restart
  <2>1. \E opt \in {None} \cup {Some(i) : i \in Symbols} : Start(opt) \/ Resume(opt)
    BY <1>1 DEF Restart
  <2>2. UNCHANGED <<chanVars, linkVars, viewVars>> /\ up'
    BY <2>1 DEF Start, Resume
  <2> QED
    BY <2>1, <2>2, LinkUnchanged, QuietStepSymbol
<1>2. CASE \/ (\E i \in Named : Harvest(i)) \/ Quieten
           \/ SnapOpen \/ SnapWrite \/ SnapRename \/ SnapFails
  <2>1. UNCHANGED <<chanVars, linkVars, viewVars>> /\ up' = up
    BY <1>2 DEF Harvest, Quieten, SnapOpen, SnapWrite, SnapRename, SnapFails
  <2> QED
    BY <1>2, <2>1, LinkUnchanged, QuietStepSymbol
<1>3. CASE \E i \in Instruments, trade \in BOOLEAN, due \in Dues : Event(i, trade, due)
  <2>1. PICK i \in Instruments, trade \in BOOLEAN, due \in Dues : Event(i, trade, due)
    BY <1>3
  <2>2. UNCHANGED <<chanVars, linkVars, viewVars>> /\ up' = up
    BY <2>1 DEF Event
  <2> QED
    BY <2>1, <2>2, LinkUnchanged, EventSymbol
<1>4. CASE Publish
  BY <1>4, PublishLink, PublishSymbol
<1>5. CASE Exit \/ PowerLoss
  <2>1. Hangup
    BY <1>5 DEF Exit, PowerLoss, Down
  <2> QED
    BY <1>5, <2>1, HangupKeeps, DownSymbol
<1>6. CASE Link
  <2>1. up' = up /\ LinkNext(up)
    BY <1>6 DEF Link, engVars
  <2> QED
    BY <1>6, <2>1, LinkNextKeeps, LinkSymbol
<1>7. CASE UNCHANGED vars
  <2>1. UNCHANGED <<chanVars, linkVars, viewVars, up, outbox, tracked>>
    BY <1>7 DEF vars, engVars, lockVars
  <2>2. UNCHANGED <<chan, inHand, wire, dropped, sent, base, view, broken>>
    BY <2>1 DEF chanVars, linkVars, viewVars
  <2>3. Flying' = Flying
    BY <2>2 DEF Flying
  <2> QED
    BY <2>1, <2>2, <2>3, LinkUnchanged, MovedSymbol
<1> QED
  BY <1>1, <1>2, <1>3, <1>4, <1>5, <1>6, <1>7 DEF Next

LEMMA FullInvAlways == Spec => []FullInv
BY FullInitHolds, FullNextKeeps, PTL DEF Spec

-----------------------------------------------------------------------------
LEMMA AtMostOne ==
    ASSUME NEW S, NEW x, S \subseteq {x}
    PROVE  Cardinality(S) <= 1
<1>1. IsFiniteSet({x}) /\ Cardinality({x}) = 1
  BY FS_Singleton
<1>2. IsFiniteSet(S) /\ Cardinality(S) <= Cardinality({x})
  BY <1>1, FS_Subset
<1> QED
  BY <1>1, <1>2

(* The book of engine.rs, unless the engine goes back to a snapshot of an  *)
(* engine with --symbol: through locks, re-arms after 5 s, snapshots and   *)
(* resumes it has events of at most one instrument, the locked one.  An    *)
(* engine with --symbol keeps that lock, or, if it resumed, the lock on    *)
(* the instrument of the snapshot, which overrides --symbol.               *)
THEOREM BookStaysOfOneInstrument == Spec => []OneInstrument
<1>1. FullInv => OneInstrument
  <2> SUFFICES ASSUME EngineInv, LinkInv PROVE OneInstrument
    BY DEF FullInv
  <2>1. EngineTypeOK
    <3>1. book.instrument \in Instruments /\ book.from \subseteq Instruments
      BY DEF EngineInv, EngTypeOK, Books
    <3> QED
      BY <3>1 DEF EngineInv, EngTypeOK, LockInv, LinkInv, LinkTypeOK, ConnInv, EngineTypeOK,
                  Options
  <2>2. BookOfOneInstrument
    <3> SUFFICES ASSUME ~ResumedPinned
                 PROVE  /\ Cardinality(book.from) <= 1
                        /\ (up /\ IsSome(tracked)) => book.from \subseteq {tracked[1]}
      BY DEF BookOfOneInstrument
    <3>1. book.from \subseteq {tracked[1]} \/ book.from \subseteq {book.instrument}
      <4>1. IsSome(cli) => IsSome(tracked)
        <5>1. IsSome(resumed) => IsSome(Some(resumed[1].book.instrument))
          BY SomeFacts
        <5> QED
          BY <5>1 DEF EngineInv, LockInv
      <4> QED
        BY <4>1 DEF EngineInv, LabelInv
    <3>2. Cardinality(book.from) <= 1
      BY <3>1, AtMostOne
    <3> QED
      BY <3>2 DEF EngineInv, LabelInv
  <2>3. PinnedStays
    BY DEF PinnedStays, EngineInv, LockInv
  <2> QED
    BY <2>1, <2>2, <2>3 DEF OneInstrument
<1> QED
  BY <1>1, FullInvAlways, PTL

(* backpressure.rs counts exactly what it sheds: every frame of try_send   *)
(* has been read by engine_client.go, is in the channel, in the hand of    *)
(* server.rs or on the socket, or is in dropped_total, and the total on a  *)
(* displayed tick is the number of frames that never came before it.       *)
THEOREM EveryFrameAccounted == Spec => []FramesAccounted
<1>1. FullInv => FramesAccounted
  <2> SUFFICES ASSUME LinkInv PROVE FramesAccounted
    BY DEF FullInv
  <2>1. Cardinality({i \in DOMAIN wire : wire[i].no > base}) = Lead
    BY LeadIsCount DEF LinkInv
  <2>2. /\ sent \in Nat /\ base \in Nat /\ got \in Nat /\ dropped \in Nat /\ Lead \in Nat
        /\ Len(inHand) \in Nat /\ Len(chan) \in Nat
    BY LinkFacts DEF LinkInv, LinkTypeOK
  <2>3. ~broken => sent = base + got + Lead + Len(inHand) + Len(chan) + dropped
    BY DEF LinkInv, CountInv
  <2>4. UnderWay = Len(chan) + Len(inHand) + Lead
    BY <2>1 DEF UnderWay
  <2> HIDE DEF Lead
  <2>5. DropsAccounted
    BY <2>2, <2>3, <2>4 DEF DropsAccounted
  <2>6. TickReportsMisses
    BY DEF LinkInv, CountInv
  <2> QED
    BY <2>5, <2>6 DEF FramesAccounted
<1> QED
  BY <1>1, FullInvAlways, PTL

(* The view of engine_client.go: over failed writes, reconnects and        *)
(* restarts of the engine the tape goes forward and stays in its ring.  As *)
(* long as nothing was lost or shed before the tick on display, and a      *)
(* header came before it, the id on display is the tick's, and the name is *)
(* too if that header gave one.                                            *)
THEOREM ViewStaysConsistent == Spec => []ViewConsistent
<1>1. FullInv => ViewConsistent
  <2> SUFFICES ASSUME LinkInv, SymbolInv PROVE ViewConsistent
    BY DEF FullInv
  <2>1. Len(view.tape) \in Nat
    BY LinkFacts
  <2>2. \A i \in 1..(Len(view.tape) - 1) :
            i \in 1..Len(view.tape) /\ i + 1 \in 1..Len(view.tape) /\ i < i + 1
    BY <2>1
  <2>3. TapeInOrder
    BY <2>2 DEF TapeInOrder, LinkInv, TapeInv, Rising
  <2> QED
    BY <2>3 DEF ViewConsistent, SymbolInv, DisplayInv
<1> QED
  BY <1>1, FullInvAlways, PTL

(* The temporary file and the rename of snapshot.rs do what they are for:  *)
(* short of a power loss the file under the final name is always complete, *)
(* no engine of main.rs ever resumes from a file that is not, and number   *)
(* and book of a resumed engine are of one file until its first event.     *)
THEOREM SnapshotsAreSound == Spec => []SnapshotSound
<1>1. EngineInv => SnapshotSound
  BY WholeFileFacts DEF EngineInv, EngTypeOK, DiskInv, ResumedInv, SnapshotSound, SnapshotWhole,
                        ResumeSound
<1> QED
  BY <1>1, EngineInvAlways, PTL

=============================================================================
