----------------------------- MODULE WsCarrier -----------------------------
(***************************************************************************)
(* One websocket carrier: handle_ws (src/src/server.rs:330-389) closes the *)
(* environment that Session.tla leaves open.  Three tasks share the two    *)
(* channels of a session: the upgrade task reads messages, decodes them    *)
(* and forwards their frames one by one; the writer task moves messages of *)
(* the session to the socket; the session task runs run_session_loop.      *)
(*                                                                         *)
(* The client and the network are external.  The client numbers its frames *)
(* when it sends them, so "the session sees what the client sent" is       *)
(* exactly that every frame forwarded is the one Session!Push expects.     *)
(***************************************************************************)
EXTENDS Session

CONSTANTS
  MaxBatch,   \* bound: frames in one websocket message
  MaxWire     \* bound: messages in flight from the client

ASSUME WsAssumption == MaxBatch \in Nat \ {0} /\ MaxWire \in Nat \ {0}

VARIABLES
  client,   \* "open"; "closing": sent a Close message; "gone": without one
  csent,    \* per stream, DATA frames the client has sent
  cframes,  \* frames the client has sent
  wire,     \* messages in flight, each the frames it decodes to
  batch,    \* frames of the current message not yet forwarded
  ws,       \* where handle_ws stands
  writer,   \* the writer task: "recv", "send" (a message in hand), "ended"
  held,     \* type of the message in the writer's hand
  bye       \* the client has received BYE

wsVars == <<client, csent, cframes, wire, batch, ws, writer, held, bye>>
allVars == <<vars, wsVars>>

WsInit ==
  /\ Init
  /\ client = "open"
  /\ csent = [i \in Ids \cup {0} |-> 0]
  /\ cframes = 0
  /\ wire = <<>>
  /\ batch = <<>>
  /\ ws = "read"
  /\ writer = "recv"
  /\ held = "NONE"
  /\ bye = FALSE

-----------------------------------------------------------------------------
(* The client and the network *)

\* The next frame joins the last message or starts a new one.
ClientSend(ty, i) ==
  LET f == [ty |-> ty, id |-> i, n |-> IF ty = "DATA" THEN csent[i] + 1
                                                      ELSE csent[i]] IN
  /\ client = "open"
  /\ cframes < MaxFrames
  /\ \/ /\ Len(wire) < MaxWire
        /\ wire' = Append(wire, <<f>>)
     \/ /\ wire # <<>>
        /\ Len(wire[Len(wire)]) \in 1 .. MaxBatch - 1
        /\ wire' = [wire EXCEPT ![Len(wire)] = Append(@, f)]
  /\ cframes' = cframes + 1
  /\ csent' = [csent EXCEPT ![i] = f.n]
  /\ UNCHANGED <<vars, client, batch, ws, writer, held, bye>>

\* A message that carries no frame: text, ping, or undecodable bytes.
ClientOther ==
  /\ client = "open"
  /\ Len(wire) < MaxWire
  /\ wire' = Append(wire, <<>>)
  /\ UNCHANGED <<vars, client, csent, cframes, batch, ws, writer, held, bye>>

\* A Close message follows what was sent.
ClientClose ==
  /\ client = "open"
  /\ client' = "closing"
  /\ UNCHANGED <<vars, csent, cframes, wire, batch, ws, writer, held, bye>>

\* The connection breaks: what is in flight arrives up to some message.
ClientDrop ==
  /\ client # "gone"
  /\ client' = "gone"
  /\ \E k \in 0 .. Len(wire) : wire' = SubSeq(wire, 1, k)
  /\ UNCHANGED <<vars, csent, cframes, batch, ws, writer, held, bye>>

Client ==
  \/ \E ty \in {"OPEN", "DATA", "CLOSE"}, i \in Ids : ClientSend(ty, i)
  \/ \E ty \in {"HELLO", "BYE"} : ClientSend(ty, 0)
  \/ ClientOther \/ ClientClose \/ ClientDrop

-----------------------------------------------------------------------------
(* The upgrade task *)

\* rx.next() returns a message; decode_batch gives its frames.
WsRecv ==
  /\ ws = "read"
  /\ batch = <<>>
  /\ wire # <<>>
  /\ batch' = Head(wire)
  /\ wire' = Tail(wire)
  /\ UNCHANGED <<vars, client, csent, cframes, ws, writer, held, bye>>

\* Mutant: try_send, which gives the frame up when the channel is full.
WsPushOrDrop ==
  /\ ws = "read"
  /\ batch # <<>>
  /\ \/ Enqueue(Head(batch))
     \/ loop \in Ended /\ UNCHANGED vars
     \/ Len(frames) = FrameCap /\ UNCHANGED vars
  /\ batch' = Tail(batch)
  /\ UNCHANGED <<client, csent, cframes, wire, ws, writer, held, bye>>

\* frame_tx.send(f).await: once there is room, or in vain when the session
\* loop has returned; the error is ignored and the next frame follows.
WsPush ==
  /\ ws = "read"
  /\ batch # <<>>
  /\ \/ Enqueue(Head(batch))
     \/ loop \in Ended /\ UNCHANGED vars
  /\ batch' = Tail(batch)
  /\ UNCHANGED <<client, csent, cframes, wire, ws, writer, held, bye>>

\* Mutant: frame_tx lives until handle_ws returns.
WsClosedKeepingSender ==
  /\ ws = "read"
  /\ batch = <<>>
  /\ wire = <<>>
  /\ client # "open"
  /\ ws' = "joinSession"
  /\ UNCHANGED <<vars, client, csent, cframes, wire, batch, writer, held, bye>>

\* A Close message, an error or the end of the socket: the reading loop ends
\* and frame_tx is dropped.
WsClosed ==
  /\ ws = "read"
  /\ batch = <<>>
  /\ wire = <<>>
  /\ client # "open"
  /\ CloseInput
  /\ ws' = "joinSession"
  /\ UNCHANGED <<client, csent, cframes, wire, batch, writer, held, bye>>

\* session_task.await returns, then writer.await.
WsJoinSession ==
  /\ ws = "joinSession"
  /\ loop \in Ended
  /\ ws' = "joinWriter"
  /\ UNCHANGED <<vars, client, csent, cframes, wire, batch, writer, held, bye>>

WsJoinWriter ==
  /\ ws = "joinWriter"
  /\ writer = "ended"
  /\ ws' = "done"
  /\ UNCHANGED <<vars, client, csent, cframes, wire, batch, writer, held, bye>>

Upgrade == WsRecv \/ WsPush \/ WsClosed \/ WsJoinSession \/ WsJoinWriter

-----------------------------------------------------------------------------
(* The writer task *)

\* session_rx.recv().await returns a message.
WriterTake ==
  /\ writer = "recv"
  /\ Take
  /\ writer' = "send"
  /\ held' = Head(outq).ty
  /\ UNCHANGED <<client, csent, cframes, wire, batch, ws, bye>>

\* tx.send(msg).await succeeds; a client that is there receives the message.
WriterSend ==
  /\ writer = "send"
  /\ writer' = "recv"
  /\ held' = "NONE"
  /\ bye' = (bye \/ (held = "BYE" /\ client = "open"))
  /\ UNCHANGED <<vars, client, csent, cframes, wire, batch, ws>>

\* It fails: the task ends and drops session_rx.
WriterError ==
  /\ writer = "send"
  /\ client # "open"
  /\ writer' = "ended"
  /\ held' = "NONE"
  /\ DropOut
  /\ UNCHANGED <<client, csent, cframes, wire, batch, ws, bye>>

\* Some task still holds a sender of the channel toward the carrier.
Senders == loop \notin Ended \/ \E c \in Conn : conn[c].reader = "reading"

\* recv() returns None.
WriterEnd ==
  /\ writer = "recv"
  /\ outq = <<>>
  /\ ~Senders
  /\ writer' = "ended"
  /\ DropOut
  /\ UNCHANGED <<client, csent, cframes, wire, batch, ws, held, bye>>

Writer == WriterTake \/ WriterSend \/ WriterError \/ WriterEnd

-----------------------------------------------------------------------------
(* The session task, the readers and the backends, as in Session.tla *)

WsNext ==
  \/ Client
  \/ Upgrade
  \/ Writer
  \/ Loop /\ UNCHANGED wsVars
  \/ \E c \in Conn : (Reader(c) \/ Backend(c)) /\ UNCHANGED wsVars

WsSpec == WsInit /\ [][WsNext]_allVars

\* A backend closes once it sees our FIN: no stream maps to its connection.
BackendAnswersFin(c) ==
  /\ \A i \in Ids : streams[i] # c
  /\ BackendFin(c)
  /\ UNCHANGED wsVars

\* Tasks run, waiters on a channel are served in order, a socket send returns.
WsFairness ==
  /\ WF_allVars(Upgrade) /\ SF_allVars(WsPush)
  /\ WF_allVars(Writer)
  /\ SF_allVars(Loop /\ UNCHANGED wsVars)
  /\ \A c \in Conn : SF_allVars(Reader(c) /\ UNCHANGED wsVars)
  /\ \A c \in Conn : WF_allVars(BackendAnswersFin(c))

WsFairSpec == WsSpec /\ WsFairness

-----------------------------------------------------------------------------
(* Properties *)

\* The carrier uses the session as Session.tla expects: every frame it
\* forwards is the next the client sent on its stream, so that no frame is
\* lost, doubled or overtaken between the socket and a session that runs.
DrivesSession == Spec

\* A session that ends in good order while its client stays tells it so: the
\* BYE passes a channel the readers may keep full (session.rs:189-195).
ByeAnswered ==
  (loop = "bye" /\ client = "open") ~> (bye \/ client # "open")

\* Once the client is away handle_ws returns, and with it the session loop,
\* the writer and every reader: no task outlives the socket, whatever was
\* under way when it broke (server.rs:385-388).
TornDown ==
  client # "open" ~> ws = "done" /\ writer = "ended" /\ loop \in Ended
                       /\ \A c \in Conn : conn[c].reader # "reading"

\* When a session fails while its client stays, the client still learns the
\* end of every stream it had: dropping the write half makes the backend
\* close, and the reader reports it (session.rs:141-145).
FailureReported ==
  \A c \in Conn :
    (loop = "failed" /\ conn[c].reader = "reading")
      ~> (conn[c].shut \/ client # "open")

\* A step of the relay's own tasks, and which of them can take one.
WsRelayStep ==
  \/ Upgrade \/ Writer
  \/ (Loop \/ \E c \in Conn : Reader(c)) /\ UNCHANGED wsVars

UpgradeMoves ==
  \/ ws = "read" /\ batch = <<>> /\ (wire # <<>> \/ client # "open")
  \/ ws = "read" /\ batch # <<>> /\ (loop \in Ended \/ Len(frames) < FrameCap)
  \/ ws = "joinSession" /\ loop \in Ended
  \/ ws = "joinWriter" /\ writer = "ended"
WriterMoves ==
  \/ writer = "send"
  \/ writer = "recv" /\ (outq # <<>> \/ ~Senders)
WsMoves ==
  \/ UpgradeMoves \/ WriterMoves
  \/ LoopMoves
  \/ \E c \in Conn : ReaderMoves(c)

\* The relay waits for the client and the backends alone: nothing is under way,
\* the upgrade task reads from a client that is there or has been through both
\* joins but for the readers, and these wait for a backend that still sends.
WsAtRest ==
  /\ wire = <<>> /\ batch = <<>> /\ frames = <<>> /\ outq = <<>>
  /\ loop \in Ended \/ (loop = "recv" /\ ws = "read")
  /\ CASE ws = "read"       -> client = "open"
       [] ws = "joinWriter" -> writer = "recv"
       [] OTHER             -> ws = "done" /\ writer = "ended"
  /\ writer = "ended" \/ (writer = "recv" /\ Senders)
  /\ \A c \in Conn : conn[c].reader = "reading" =>
       conn[c].peer = "open" /\ conn[c].read = conn[c].made

WsMovesOrRests == WsMoves \/ WsAtRest

\* The three tasks never wait for one another in a circle, although the upgrade
\* task joins the other two, both channels are bounded and the readers share one
\* of them: they come to rest only when all they took in went through
\* (server.rs:364-388).
WsRestsQuiet == (WsMoves <=> ENABLED WsRelayStep) /\ WsMovesOrRests
=============================================================================
