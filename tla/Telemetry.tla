------------------------------ MODULE Telemetry ------------------------------
(***************************************************************************)
(* The way of a frame from the engine to the API server: the bounded       *)
(* channel of engine/src/backpressure.rs, the single-client TCP server of  *)
(* engine/src/server.rs, the socket, and the reader of                     *)
(* api/server/engine_client.go with the view it publishes.                 *)
(*                                                                         *)
(* A frame is its kind and the few fields that the view depends on.  It is *)
(* numbered by the send attempt that made it, counted over all engine      *)
(* processes; the number is not on the wire.                               *)
(***************************************************************************)
EXTENDS Naturals, Sequences, FiniteSets

CONSTANTS
    Capacity,       \* frames the channel holds, 8192 by default
    WireCapacity,   \* frames under way in a socket
    TradeRingCap,   \* 128 in the code
    MaxSent,        \* bound on the frames that all engines send
    MaxBreaks       \* bound on broken connections and encoding failures

ASSUME ChannelAssumption ==
    Capacity \in Nat \ {0} /\ WireCapacity \in Nat /\ TradeRingCap \in Nat \ {0}

VARIABLES
    chan, dropped,      \* the channel and its counter
    server, inHand,     \* "accepting" or "serving", and the frame it has taken
    stale,              \* whether the client being served has gone
    client,             \* "down", "queued" (dialled, not accepted) or "served"
    dead,               \* connections in the listener's backlog that have broken
    wire, eof,          \* frames in the client's socket; whether the engine closed it
    view,               \* what the client publishes
    sent, base,         \* send attempts so far, and of earlier engines
    got,                \* frames of this engine that have arrived
    broken,             \* whether a frame of this engine was lost behind the channel
    breaks              \* connections broken and frames not encoded

chanVars == <<chan, dropped, sent, base>>
linkVars == <<server, inHand, stale, client, dead, wire, eof, broken, breaks>>
viewVars == <<view, got>>

None == <<>>
Some(x) == <<x>>
IsSome(o) == o # None

TelemetryInit ==
    /\ chan = <<>> /\ dropped = 0 /\ sent = 0 /\ base = 0
    /\ server = "accepting" /\ inHand = None /\ stale = FALSE
    /\ client = "down" /\ dead = 0 /\ wire = <<>> /\ eof = FALSE
    /\ broken = FALSE /\ breaks = 0
    /\ view = [symbol |-> None, instrument |-> None, header |-> None, tick |-> None, tape |-> <<>>]
    /\ got = 0

(* Faulty variant: a full channel sheds the frame without a trace.         *)
ShedSilently == dropped

Shed == dropped + 1

(* Faulty variant: one frame too many.                                     *)
HasRoomLate == Len(chan) <= Capacity

HasRoom == Len(chan) < Capacity

(* try_send never blocks: the frame is queued, or shed and counted.        *)
TrySend(f) ==
    /\ sent < MaxSent
    /\ sent' = sent + 1
    /\ UNCHANGED base
    /\ IF HasRoom
       THEN chan' = Append(chan, f) /\ UNCHANGED dropped
       ELSE dropped' = Shed /\ UNCHANGED chan

(* Only headers and ticks say something about the instrument, only headers *)
(* name it, and only ticks carry the counter.                              *)
Frame(kind, inst, sym, drops) ==
    [kind |-> kind, no |-> sent + 1,
     inst |-> IF kind \in {"Header", "Tick"} THEN inst ELSE None,
     sym |-> IF kind = "Header" THEN sym ELSE None,
     dropped |-> IF kind = "Tick" THEN drops ELSE 0]

-----------------------------------------------------------------------------
(* serve and handle_client, on the server's own thread.                    *)
Accept ==
    /\ server = "accepting" /\ client = "queued" /\ dead = 0
    /\ server' = "serving"
    /\ client' = "served"
    /\ stale' = FALSE
    /\ UNCHANGED <<chanVars, inHand, dead, wire, eof, broken, breaks, viewVars>>

(* A connection that broke in the backlog is ahead of the client's.  It is *)
(* accepted like any other, unless asking for the peer's address fails.    *)
AcceptDead ==
    /\ server = "accepting" /\ dead > 0
    /\ dead' = dead - 1
    /\ \/ server' = "serving" /\ stale' = TRUE /\ broken' = TRUE
       \/ UNCHANGED <<server, stale, broken>>
    /\ UNCHANGED <<chanVars, inHand, client, wire, eof, breaks, viewVars>>

Recv ==
    /\ server = "serving" /\ ~IsSome(inHand) /\ chan # <<>>
    /\ inHand' = Some(Head(chan))
    /\ chan' = Tail(chan)
    /\ UNCHANGED <<dropped, sent, base, server, stale, client, dead, wire, eof, broken, breaks, viewVars>>

(* A frame that cannot be encoded is skipped.                              *)
EncodeFails ==
    /\ IsSome(inHand) /\ breaks < MaxBreaks
    /\ inHand' = None
    /\ broken' = TRUE
    /\ breaks' = breaks + 1
    /\ UNCHANGED <<chanVars, server, stale, client, dead, wire, eof, viewVars>>

Write ==
    /\ IsSome(inHand) /\ ~stale /\ Len(wire) < WireCapacity
    /\ wire' = wire \o inHand
    /\ inHand' = None
    /\ UNCHANGED <<chanVars, server, stale, client, dead, eof, broken, breaks, viewVars>>

(* The client has gone, but its socket still takes the bytes.              *)
WriteIntoVoid ==
    /\ IsSome(inHand) /\ stale
    /\ inHand' = None
    /\ UNCHANGED <<chanVars, server, stale, client, dead, wire, eof, broken, breaks, viewVars>>

(* Faulty variant: the frame that could not be written is queued again.    *)
WriteFailsRequeued ==
    /\ IsSome(inHand) /\ stale
    /\ chan' = IF HasRoom THEN chan \o inHand ELSE chan
    /\ inHand' = None
    /\ server' = "accepting"
    /\ UNCHANGED <<dropped, sent, base, stale, client, dead, wire, eof, broken, breaks, viewVars>>

(* write_all fails: the frame in hand is lost and the next client's turn   *)
(* comes.                                                                  *)
WriteFails ==
    /\ IsSome(inHand) /\ stale
    /\ inHand' = None
    /\ server' = "accepting"
    /\ UNCHANGED <<chanVars, stale, client, dead, wire, eof, broken, breaks, viewVars>>

-----------------------------------------------------------------------------
(* runOnce: a dial succeeds while the listener is up, long before accept.  *)
Dial ==
    /\ client = "down"
    /\ client' = "queued"
    /\ UNCHANGED <<chanVars, server, inHand, stale, dead, wire, eof, broken, breaks, viewVars>>

(* The client's end of the connection breaks; what was under way is lost,  *)
(* and a connection that was not accepted yet stays in the backlog.        *)
ClientBreaks ==
    /\ client # "down" /\ breaks < MaxBreaks
    /\ breaks' = breaks + 1
    /\ client' = "down"
    /\ dead' = IF client = "queued" THEN dead + 1 ELSE dead
    /\ stale' = (stale \/ (client = "served" /\ ~eof))
    /\ wire' = <<>>
    /\ eof' = FALSE
    /\ broken' = (broken \/ client = "served")
    /\ UNCHANGED <<chanVars, server, inHand, viewVars>>

(* The engine's end was closed and everything has been read.               *)
ClientEof ==
    /\ eof /\ wire = <<>>
    /\ client' = "down"
    /\ eof' = FALSE
    /\ UNCHANGED <<chanVars, server, inHand, stale, dead, wire, broken, breaks, viewVars>>

(* Faulty variant: the first symbol is kept.                               *)
DispatchHeaderOnce(v, f) ==
    [v EXCEPT !.header = Some(f),
              !.symbol = IF IsSome(f.sym) /\ @ = None THEN f.sym ELSE @,
              !.instrument = IF IsSome(f.inst) /\ @ = None THEN f.inst ELSE @]

(* A header without a symbol leaves the name as it was, and one without an *)
(* instrument leaves the id.                                               *)
DispatchHeader(v, f) ==
    [v EXCEPT !.header = Some(f),
              !.symbol = IF IsSome(f.sym) THEN f.sym ELSE @,
              !.instrument = IF IsSome(f.inst) THEN f.inst ELSE @]

(* A print goes to the end of the tape, which forgets the oldest.          *)
DispatchTrade(v, f) ==
    [v EXCEPT !.tape = Append(IF Len(@) >= TradeRingCap THEN Tail(@) ELSE @, f)]

(* dispatchJSON.  A tick is kept with the number of frames before it.      *)
DispatchJSON(f) ==
    CASE f.kind = "Header" -> DispatchHeader(view, f)
      [] f.kind = "Tick" -> [view EXCEPT !.tick = Some([frame |-> f, before |-> base + got,
                                                      whole |-> ~broken /\ f.no > base])]
      [] f.kind = "Trade" -> DispatchTrade(view, f)
      [] OTHER -> view

ClientRead ==
    /\ client = "served" /\ wire # <<>>
    /\ view' = DispatchJSON(Head(wire))
    /\ got' = IF Head(wire).no > base THEN got + 1 ELSE got
    /\ wire' = Tail(wire)
    /\ UNCHANGED <<chanVars, server, inHand, stale, client, dead, eof, broken, breaks>>

LinkNext(up) ==
    \/ up /\ Accept
    \/ up /\ AcceptDead
    \/ up /\ Recv
    \/ up /\ EncodeFails
    \/ up /\ Write
    \/ up /\ WriteIntoVoid
    \/ up /\ WriteFails
    \/ up /\ Dial
    \/ ClientBreaks
    \/ ClientEof
    \/ ClientRead

(* The engine process ends: the channel, the counter and the listener go   *)
(* with it; the bytes already in the socket can still be read.             *)
Hangup ==
    /\ chan' = <<>> /\ dropped' = 0 /\ base' = sent /\ got' = 0
    /\ server' = "accepting" /\ inHand' = None /\ stale' = FALSE
    /\ client' = IF client = "queued" THEN "down" ELSE client
    /\ dead' = 0
    /\ eof' = (client = "served")
    /\ broken' = FALSE
    /\ UNCHANGED <<sent, wire, view, breaks>>

-----------------------------------------------------------------------------
UnderWay == Len(chan) + Len(inHand) + Cardinality({i \in DOMAIN wire : wire[i].no > base})

(* backpressure.rs: while no connection has broken, what was sent and did  *)
(* not arrive is still under way or has been counted as dropped.           *)
DropsAccounted == ~broken => sent - base = got + UnderWay + dropped

(* TickFrame.dropped_total lets the dashboard show that "the engine is     *)
(* shedding load" (backpressure.rs): the tick on display reports exactly   *)
(* the frames that were sent before it and never arrived.                  *)
TickReportsMisses ==
    \A t \in {view.tick[i] : i \in DOMAIN view.tick} :
        t.whole => t.frame.no - 1 - t.before = t.frame.dropped

(* Frames reach the client in the order of their sending, across failed    *)
(* writes and reconnects (server.rs, engine_client.go): the tape is never  *)
(* longer than its ring and never goes back.                               *)
TapeInOrder ==
    /\ Len(view.tape) <= TradeRingCap
    /\ \A i \in 1..(Len(view.tape) - 1) : view.tape[i].no < view.tape[i + 1].no

=============================================================================
