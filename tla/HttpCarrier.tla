---------------------------- MODULE HttpCarrier ----------------------------
(***************************************************************************)
(* A session behind the HTTP carrier: HttpUp.tla (the page, its requests   *)
(* and their api_up handlers) and Session.tla (run_session_loop, readers,  *)
(* backends) side by side, joined at the frame channel, and the forwarder  *)
(* task of api_session (src/src/server.rs:159-164) at the other.  chan,    *)
(* over and Senders of HttpUp are frames, the loop and inOpen of Session:  *)
(* a step of one that concerns them is a step of the other.                *)
(*                                                                         *)
(* The page queues the frames of a client that keeps the protocol          *)
(* (KeepsProtocol); the repeats come from the retries of the page alone.   *)
(***************************************************************************)
EXTENDS HttpUp

CONSTANTS
  Programs,    \* the sequences of frames clients may send
  Ids, MaxStreams, OutCap, MaxChunks,    \* as in Session
  MaxPushes    \* bound: frames forwarded, repeats included

VARIABLES
  frames, inOpen, pushes, sent, loop, cur, streams, nconns, conn, outq,
  outOpen,     \* as in Session
  program      \* what this client sends

S == INSTANCE Session WITH FrameCap <- ChanCap, MaxFrames <- MaxPushes

\* A frame of a client; the id of these types is not read.
ClientFrame ==
  {f \in [ty : S!FrameTypes, id : Ids \cup {0}] :
     f.ty \in {"WINDOW", "PONG", "BYE", "OTHER"} => f.id = 0}

\* The streams program p has opened and not closed by its first k frames.
Opened(p, k) ==
  {i \in Ids : \E m \in 1 .. k :
     /\ p[m].ty = "OPEN" /\ p[m].id = i
     /\ \A j \in m + 1 .. k : ~(p[j].ty = "CLOSE" /\ p[j].id = i)}

\* A client that keeps the protocol: up to a BYE every frame is one that the
\* session takes in this place (handle_frame, session.rs:99-185).
KeepsProtocol(p) ==
  \A k \in DOMAIN p : (\A j \in 1 .. k - 1 : p[j].ty # "BYE") =>
    /\ p[k].ty # "OTHER"
    /\ p[k].ty = "HELLO" => p[k].id = 0
    /\ p[k].ty = "OPEN" => /\ p[k].id \in Ids \ Opened(p, k - 1)
                           /\ Cardinality(Opened(p, k - 1)) < MaxStreams
    /\ p[k].ty = "DATA" => p[k].id \in Opened(p, k - 1)

ASSUME CarrierAssumption ==
  /\ Ids \subseteq Nat \ {0} /\ IsFiniteSet(Ids)
  /\ MaxStreams \in Nat /\ OutCap \in Nat \ {0} /\ MaxChunks \in Nat
  /\ MaxPushes \in Nat /\ MaxPushes >= MaxTries * BatchMax
  /\ \A p \in Programs :
       p \in Seq(ClientFrame) /\ Len(p) = MaxFrames /\ KeepsProtocol(p)

session == <<frames, inOpen, pushes, sent, loop, cur, streams, nconns, conn,
             outq, outOpen>>
cvars == <<uvars, session, program>>

CInit ==
  /\ UInit /\ S!Init
  /\ program \in Programs

-----------------------------------------------------------------------------
(* The frame channel *)

\* Frame number k: DATA frames are numbered within their stream.
FrameOf(k) ==
  [ty |-> program[k].ty, id |-> program[k].id,
   n |-> Cardinality({m \in 1 .. k : /\ program[m].ty = "DATA"
                                     /\ program[m].id = program[k].id})]

\* A handler forwards a frame.
Forward(a) ==
  /\ PushFrame(a)
  /\ S!Enqueue(FrameOf(req[a].next))

\* A step of the page or of a handler that forwards nothing; the channel
\* closes with its last sender.
Uplink ==
  /\ \/ \E a \in Tries : Arrive(a) \/ PushRefused(a) \/ PushDone(a) \/ Cancel(a)
     \/ Page \/ Delete
  /\ IF inOpen /\ ~Senders' THEN S!CloseInput ELSE UNCHANGED session

\* The session receives a frame, returns, or does neither.
SessionStep ==
  /\ S!Loop
  /\ CASE loop' \in S!Ended               -> SessionReturns
       [] Len(frames') < Len(frames)      -> loop' \notin S!Ended /\ SessionTake
       [] OTHER                           -> UNCHANGED uvars

-----------------------------------------------------------------------------
(* The forwarder and the backends *)

\* Some task still holds a sender of the channel toward the carrier.
OutSenders == loop \notin S!Ended \/ \E c \in S!Conn : conn[c].reader = "reading"

\* The forwarder moves messages into the broadcast, which never waits, and
\* ends when the last sender is gone.
Forwarder ==
  \/ S!Take
  \/ outq = <<>> /\ ~OutSenders /\ S!DropOut

Downlink == Forwarder \/ \E c \in S!Conn : S!Reader(c) \/ S!Backend(c)

-----------------------------------------------------------------------------
CNext ==
  /\ \/ \E a \in Tries : Forward(a)
     \/ Uplink
     \/ SessionStep
     \/ Downlink /\ UNCHANGED uvars
  /\ UNCHANGED program

CSpec == CInit /\ [][CNext]_cvars

-----------------------------------------------------------------------------
(* Properties *)

\* Some frame was forwarded twice.
Doubled == \E p, q \in DOMAIN applied : p # q /\ applied[p] = applied[q]

\* A client that keeps the protocol is refused (a duplicate OPEN, DATA for no
\* stream, too many streams; session.rs:104-135) only when a retry of the page
\* made a handler forward a frame again.
RefusedOnlyIfDoubled == [][loop = "recv" /\ loop' = "failed" => Doubled]_cvars

\* Until then the session is driven as Session.tla expects, however handlers
\* are dropped or run at once: what is shown there holds behind this carrier.
DrivesUnlessDoubled == S!Init /\ [][Doubled' \/ S!Next]_session

\* A step of the relay's own tasks, and which of them can take one.
RelayStep ==
  \/ \E a \in Tries : Forward(a)
  \/ Uplink /\ \E a \in Tries : Arrive(a) \/ PushRefused(a) \/ PushDone(a)
  \/ SessionStep
  \/ (Forwarder \/ \E c \in S!Conn : S!Reader(c)) /\ UNCHANGED uvars

HandlerMoves(a) ==
  \/ req[a].pc = "sent"
  \/ /\ req[a].pc = "push"
     /\ \/ req[a].next > req[a].last
        \/ over
        \/ Len(chan) < ChanCap /\ pushes < MaxPushes
ForwarderMoves == outOpen /\ (outq # <<>> \/ ~OutSenders)
RelayMoves ==
  \/ \E a \in Tries : HandlerMoves(a)
  \/ S!LoopMoves
  \/ \E c \in S!Conn : S!ReaderMoves(c)
  \/ ForwarderMoves

\* The relay waits for the page and the backends alone: nothing is under way,
\* the loop runs only for a session in the map, and the forwarder only for
\* the loop or for the reader of a backend that still sends.
AtRest ==
  /\ frames = <<>> /\ outq = <<>>
  /\ \A a \in Tries : req[a].pc \notin {"sent", "push"}
  /\ loop \in S!Ended \/ (loop = "recv" /\ inMap)
  /\ outOpen <=> OutSenders
  /\ \A c \in S!Conn : conn[c].reader = "reading" =>
       conn[c].peer = "open" /\ conn[c].read = conn[c].made

MovesOrRests == RelayMoves \/ AtRest

\* Nothing waits for ever on a full channel, a lost sender or a dropped
\* handler: the tasks come to rest only when all they took in went through,
\* and after the DELETE only when the loop has returned (server.rs:70-82).
RestsQuiet == (RelayMoves <=> ENABLED RelayStep) /\ MovesOrRests

\* The channel toward the carrier is in order for a backend that sends more
\* than one chunk.
DownOrder == S!DownOrder
=============================================================================
