------------------------------ MODULE Session ------------------------------
(***************************************************************************)
(* One relay session (src/src/session.rs): the task run_session_loop, the  *)
(* reader task it spawns per backend connection, and the two bounded       *)
(* channels that tie them to a carrier.                                    *)
(*                                                                         *)
(*   carrier --frames--> run_session_loop --writes--> backend connection   *)
(*   carrier <--outq---- run_session_loop, reader <---reads-- connection   *)
(*                                                                         *)
(* The carrier and the stock MTProxy are the open environment here: a      *)
(* carrier may push any frame, close its end, take messages or go away.    *)
(* WsCarrier.tla closes that environment with the code of handle_ws.       *)
(*                                                                         *)
(* Payloads are abstracted to numbers.  A DATA frame of stream i carries   *)
(* its position among the DATA frames of i, every other frame the position *)
(* of the last DATA frame of its stream before it; a chunk read from a     *)
(* backend carries its position among the chunks of that connection.       *)
(***************************************************************************)
EXTENDS Integers, Sequences, FiniteSets

CONSTANTS
  Ids,         \* stream identifiers the client uses (24 bits on the wire)
  MaxStreams,  \* SessionLimits::max_streams_per_session
  FrameCap,    \* capacity of the frame channel (256 in server.rs)
  OutCap,      \* capacity of the channel toward the carrier (256)
  MaxFrames,   \* bound: frames the carrier pushes
  MaxChunks    \* bound: chunks a backend sends on one connection

ASSUME SessionAssumption ==
  /\ Ids \subseteq Nat \ {0}
  /\ IsFiniteSet(Ids)
  /\ MaxStreams \in Nat
  /\ FrameCap \in Nat \ {0}
  /\ OutCap \in Nat \ {0}
  /\ MaxFrames \in Nat
  /\ MaxChunks \in Nat

VARIABLES
  frames,  \* the frame channel: pushed and not yet received
  inOpen,  \* some sender of the frame channel is alive
  pushes,  \* number of frames pushed
  sent,    \* per stream, number of DATA frames pushed
  loop,    \* where run_session_loop stands
  cur,     \* the frame handle_frame is suspended on
  streams, \* Session.streams: stream -> connection of its write half
  nconns,  \* number of connections made
  conn,    \* the connections
  outq,    \* the channel toward the carrier
  outOpen  \* its receiver is alive

vars == <<frames, inOpen, pushes, sent, loop, cur, streams, nconns, conn,
          outq, outOpen>>

-----------------------------------------------------------------------------
(* Data *)

FrameTypes == {"HELLO", "OPEN", "DATA", "CLOSE", "WINDOW", "PONG", "BYE",
               "OTHER"}                     \* OTHER: PING, WELCOME, unknown
Frame == [ty : FrameTypes, id : Ids \cup {0}, n : Nat]
NoFrame == [ty |-> "NONE", id |-> 0, n |-> 0]

Conn == 1 .. MaxFrames    \* a connection takes an OPEN frame to make
NoConn == 0

\* A backend connection: its stream; whether the backend still sends; chunks
\* sent by the backend, forwarded by the reader and taken by the carrier; the
\* last DATA frame before its OPEN and the last one written; its reader task;
\* its CLOSE was taken.
ConnState == [id : Ids \cup {0}, peer : {"open", "fin", "reset"},
              made : Nat, read : Nat, got : Nat, base : Nat, wrote : Nat,
              reader : {"none", "reading", "ended"}, shut : BOOLEAN]
Connection(i, n, r) ==
  [id |-> i, peer |-> "open", made |-> 0, read |-> 0, got |-> 0,
   base |-> n, wrote |-> n, reader |-> r, shut |-> FALSE]
Unconnected == Connection(0, 0, "none")

Msg == [ty : {"WELCOME", "DATA", "CLOSE", "BYE"}, conn : Conn \cup {NoConn},
        n : Nat]
Control(ty) == [ty |-> ty, conn |-> NoConn, n |-> 0]

NoStreams == [i \in Ids |-> NoConn]
IsOpen(i) == i \in Ids /\ streams[i] # NoConn
OpenStreams == {i \in Ids : streams[i] # NoConn}

Ended == {"done", "failed"}

\* The number a frame of type ty on stream i carries when it is pushed next.
Position(ty, i) == IF ty = "DATA" THEN sent[i] + 1 ELSE sent[i]

Init ==
  /\ frames = <<>>
  /\ inOpen = TRUE
  /\ pushes = 0
  /\ sent = [i \in Ids \cup {0} |-> 0]
  /\ loop = "recv"
  /\ cur = NoFrame
  /\ streams = NoStreams
  /\ nconns = 0
  /\ conn = [c \in Conn |-> Unconnected]
  /\ outq = <<>>
  /\ outOpen = TRUE

-----------------------------------------------------------------------------
(* The carrier's side of the two channels *)

\* Mutant: try_send, which drops the frame when the channel is full.
EnqueueOrDrop(f) ==
  /\ inOpen
  /\ loop \notin Ended
  /\ pushes < MaxFrames
  /\ frames' = IF Len(frames) < FrameCap THEN Append(frames, f) ELSE frames
  /\ pushes' = pushes + 1
  /\ sent' = [sent EXCEPT ![f.id] = f.n]
  /\ UNCHANGED <<inOpen, loop, cur, streams, nconns, conn, outq, outOpen>>

\* frame_tx.send(f).await with the loop still receiving: waits for room.
Enqueue(f) ==
  /\ inOpen
  /\ loop \notin Ended
  /\ Len(frames) < FrameCap
  /\ pushes < MaxFrames
  /\ frames' = Append(frames, f)
  /\ pushes' = pushes + 1
  /\ sent' = [sent EXCEPT ![f.id] = f.n]
  /\ UNCHANGED <<inOpen, loop, cur, streams, nconns, conn, outq, outOpen>>

Push(f) ==
  /\ f.n = Position(f.ty, f.id)
  /\ Enqueue(f)

\* The last sender of the frame channel is dropped.
CloseInput ==
  /\ inOpen
  /\ inOpen' = FALSE
  /\ UNCHANGED <<frames, pushes, sent, loop, cur, streams, nconns, conn,
                 outq, outOpen>>

\* session_rx.recv().await returns a message.
Take ==
  /\ outOpen
  /\ outq # <<>>
  /\ LET m == Head(outq) IN
       conn' = CASE m.ty = "DATA"  -> [conn EXCEPT ![m.conn].got = m.n]
                 [] m.ty = "CLOSE" -> [conn EXCEPT ![m.conn].shut = TRUE]
                 [] OTHER          -> conn
  /\ outq' = Tail(outq)
  /\ UNCHANGED <<frames, inOpen, pushes, sent, loop, cur, streams, nconns,
                 outOpen>>

\* The receiver is dropped, and with it what the channel holds.
DropOut ==
  /\ outOpen
  /\ outOpen' = FALSE
  /\ outq' = <<>>
  /\ UNCHANGED <<frames, inOpen, pushes, sent, loop, cur, streams, nconns,
                 conn>>

Carrier ==
  \/ \E ty \in {"HELLO", "OPEN", "DATA", "CLOSE"}, i \in Ids \cup {0} :
       Push([ty |-> ty, id |-> i, n |-> Position(ty, i)])
  \/ \E ty \in {"WINDOW", "PONG", "BYE", "OTHER"} :   \* their id is not read
       Push([ty |-> ty, id |-> 0, n |-> Position(ty, 0)])
  \/ CloseInput
  \/ Take
  \/ DropOut

-----------------------------------------------------------------------------
(* The backend's side of a connection: a stock MTProxy, outside src/ *)

BackendSend(c) ==
  /\ c <= nconns
  /\ conn[c].peer = "open"
  /\ conn[c].made < MaxChunks
  /\ conn' = [conn EXCEPT ![c].made = @ + 1]
  /\ UNCHANGED <<frames, inOpen, pushes, sent, loop, cur, streams, nconns,
                 outq, outOpen>>

BackendFin(c) ==
  /\ c <= nconns
  /\ conn[c].peer = "open"
  /\ conn' = [conn EXCEPT ![c].peer = "fin"]
  /\ UNCHANGED <<frames, inOpen, pushes, sent, loop, cur, streams, nconns,
                 outq, outOpen>>

BackendReset(c) ==
  /\ c <= nconns
  /\ conn[c].peer # "reset"
  /\ conn' = [conn EXCEPT ![c].peer = "reset"]
  /\ UNCHANGED <<frames, inOpen, pushes, sent, loop, cur, streams, nconns,
                 outq, outOpen>>

Backend(c) == BackendSend(c) \/ BackendFin(c) \/ BackendReset(c)

-----------------------------------------------------------------------------
(* run_session_loop and handle_frame *)

\* rx_frames.recv().await returns a frame of one of these types.
Receive(tys) ==
  /\ loop = "recv"
  /\ frames # <<>>
  /\ Head(frames).ty \in tys

\* Room in, or loss of, the channel toward the carrier.
OutRoom == outOpen /\ Len(outq) < OutCap
Emit(m) == OutRoom /\ outq' = Append(outq, m)

\* Mutant: the failed session is not dropped and keeps its write halves.
FailKeepingStreams ==
  /\ loop' = "failed"
  /\ cur' = NoFrame
  /\ frames' = <<>>
  /\ UNCHANGED <<inOpen, pushes, sent, streams, nconns, conn, outq, outOpen>>

\* `?` on an Err: the session is dropped with its write halves and its
\* receiver of frames; nothing is sent to the carrier.
Fail ==
  /\ loop' = "failed"
  /\ cur' = NoFrame
  /\ streams' = NoStreams
  /\ frames' = <<>>
  /\ UNCHANGED <<inOpen, pushes, sent, nconns, conn, outq, outOpen>>

\* Mutant: the frame is handled without being taken from the channel.
SuspendInPlace ==
  /\ loop' = "busy"
  /\ cur' = Head(frames)
  /\ UNCHANGED <<frames, inOpen, pushes, sent, streams, nconns, conn, outq,
                 outOpen>>

\* The handler suspends on the frame: sending, connecting or writing.
Suspend ==
  /\ loop' = "busy"
  /\ cur' = Head(frames)
  /\ frames' = Tail(frames)
  /\ UNCHANGED <<inOpen, pushes, sent, streams, nconns, conn, outq, outOpen>>

\* The frame is handled without waiting; the loop receives again.
Handled ==
  /\ frames' = Tail(frames)
  /\ UNCHANGED <<inOpen, pushes, sent, loop, cur, nconns, conn, outq,
                 outOpen>>

\* The suspended handler returns Ok.
Resume ==
  /\ loop' = "recv"
  /\ cur' = NoFrame
  /\ UNCHANGED <<frames, inOpen, pushes, sent, outOpen>>

Suspended(ty) == loop = "busy" /\ cur.ty = ty

RecvHello ==
  /\ Receive({"HELLO"})
  /\ IF Head(frames).id # 0 THEN Fail ELSE Suspend

SendWelcome ==
  /\ Suspended("HELLO")
  /\ Emit(Control("WELCOME"))
  /\ Resume
  /\ UNCHANGED <<streams, nconns, conn>>

WelcomeRefused ==
  /\ Suspended("HELLO")
  /\ ~outOpen
  /\ Fail

\* Mutant: the limit is compared with >.
OpenRefusedLate(i) == i = 0 \/ IsOpen(i) \/ Cardinality(OpenStreams) > MaxStreams
\* Refused before connecting: stream 0, a stream still in the map, or a full
\* map.
OpenRefused(i) ==
  \/ i = 0
  \/ IsOpen(i)
  \/ Cardinality(OpenStreams) >= MaxStreams

RecvOpen ==
  /\ Receive({"OPEN"})
  /\ IF OpenRefused(Head(frames).id) THEN Fail ELSE Suspend

\* TcpStream::connect succeeds: the write half is kept, a reader is spawned.
ConnectOk ==
  /\ Suspended("OPEN")
  /\ nconns' = nconns + 1
  /\ streams' = [streams EXCEPT ![cur.id] = nconns + 1]
  /\ conn' = [conn EXCEPT ![nconns + 1] = Connection(cur.id, cur.n, "reading")]
  /\ Resume
  /\ UNCHANGED outq

ConnectFail ==
  /\ Suspended("OPEN")
  /\ Fail

RecvData ==
  /\ Receive({"DATA"})
  /\ IF IsOpen(Head(frames).id) THEN Suspend ELSE Fail

WriteOk ==
  /\ Suspended("DATA")
  /\ conn' = [conn EXCEPT ![streams[cur.id]].wrote = cur.n]
  /\ Resume
  /\ UNCHANGED <<streams, nconns, outq>>

\* write_all fails only on a connection its backend has left.
WriteFail ==
  /\ Suspended("DATA")
  /\ conn[streams[cur.id]].peer # "open"
  /\ Fail

\* The write half is dropped; the reader task keeps the read half.
RecvClose ==
  /\ Receive({"CLOSE"})
  /\ streams' = [i \in Ids |-> IF i = Head(frames).id THEN NoConn
                                                      ELSE streams[i]]
  /\ Handled

RecvIgnored ==
  /\ Receive({"WINDOW", "PONG"})
  /\ Handled
  /\ UNCHANGED streams

RecvUnexpected ==
  /\ Receive({"OTHER"})
  /\ Fail

\* Mutant: shutdown keeps the write halves.
ShutdownKeepingStreams ==
  /\ loop' = "bye"
  /\ UNCHANGED <<inOpen, pushes, sent, cur, streams, nconns, conn, outq, outOpen>>

\* BYE, or the end of the channel: shutdown drops the write halves and then
\* sends BYE; the frame channel lives until run_session_loop returns.
Shutdown ==
  /\ loop' = "bye"
  /\ streams' = NoStreams
  /\ UNCHANGED <<inOpen, pushes, sent, cur, nconns, conn, outq, outOpen>>

RecvBye ==
  /\ Receive({"BYE"})
  /\ frames' = Tail(frames)
  /\ Shutdown

RecvClosed ==
  /\ loop = "recv"
  /\ frames = <<>>
  /\ ~inOpen
  /\ Shutdown
  /\ UNCHANGED frames

\* Mutant: try_send, which drops the BYE when the channel is full.
SendByeOrDrop ==
  /\ loop = "bye"
  /\ \/ Emit(Control("BYE"))
     \/ ~OutRoom /\ UNCHANGED outq
  /\ loop' = "done"
  /\ frames' = <<>>
  /\ UNCHANGED <<inOpen, pushes, sent, cur, streams, nconns, conn, outOpen>>

SendBye ==
  /\ loop = "bye"
  /\ \/ Emit(Control("BYE"))
     \/ ~outOpen /\ UNCHANGED outq
  /\ loop' = "done"
  /\ frames' = <<>>
  /\ UNCHANGED <<inOpen, pushes, sent, cur, streams, nconns, conn, outOpen>>

Loop ==
  \/ RecvHello \/ SendWelcome \/ WelcomeRefused
  \/ RecvOpen \/ ConnectOk \/ ConnectFail
  \/ RecvData \/ WriteOk \/ WriteFail
  \/ RecvClose \/ RecvIgnored \/ RecvUnexpected
  \/ RecvBye \/ RecvClosed \/ SendBye

-----------------------------------------------------------------------------
(* The reader task of a connection *)

\* Mutant: try_send, which drops the chunk when the channel is full.
ReaderDataOrDrop(c) ==
  /\ conn[c].reader = "reading"
  /\ conn[c].read < conn[c].made
  /\ \/ /\ Emit([ty |-> "DATA", conn |-> c, n |-> conn[c].read + 1])
        /\ conn' = [conn EXCEPT ![c].read = @ + 1]
     \/ /\ ~OutRoom
        /\ conn' = [conn EXCEPT ![c].read = @ + 1]
        /\ UNCHANGED outq
  /\ UNCHANGED <<frames, inOpen, pushes, sent, loop, cur, streams, nconns,
                 outOpen>>

\* A chunk is read and forwarded; if the carrier is gone the reader ends.
ReaderData(c) ==
  /\ conn[c].reader = "reading"
  /\ conn[c].read < conn[c].made
  /\ \/ /\ Emit([ty |-> "DATA", conn |-> c, n |-> conn[c].read + 1])
        /\ conn' = [conn EXCEPT ![c].read = @ + 1]
     \/ /\ ~outOpen
        /\ conn' = [conn EXCEPT ![c].reader = "ended"]
        /\ UNCHANGED outq
  /\ UNCHANGED <<frames, inOpen, pushes, sent, loop, cur, streams, nconns,
                 outOpen>>

\* Mutant: an error ends the reader silently.
ReaderEofSilent(c) ==
  /\ conn[c].reader = "reading"
  /\ \/ /\ conn[c].peer = "fin" /\ conn[c].read = conn[c].made
        /\ \/ Emit([ty |-> "CLOSE", conn |-> c, n |-> 0])
           \/ ~outOpen /\ UNCHANGED outq
     \/ conn[c].peer = "reset" /\ UNCHANGED outq
  /\ conn' = [conn EXCEPT ![c].reader = "ended"]
  /\ UNCHANGED <<frames, inOpen, pushes, sent, loop, cur, streams, nconns,
                 outOpen>>

\* End of file after the last chunk, or an error at any point.
ReaderEof(c) ==
  /\ conn[c].reader = "reading"
  /\ \/ conn[c].peer = "fin" /\ conn[c].read = conn[c].made
     \/ conn[c].peer = "reset"
  /\ \/ Emit([ty |-> "CLOSE", conn |-> c, n |-> 0])
     \/ ~outOpen /\ UNCHANGED outq
  /\ conn' = [conn EXCEPT ![c].reader = "ended"]
  /\ UNCHANGED <<frames, inOpen, pushes, sent, loop, cur, streams, nconns,
                 outOpen>>

Reader(c) == ReaderData(c) \/ ReaderEof(c)

-----------------------------------------------------------------------------
Next ==
  \/ Carrier
  \/ Loop
  \/ \E c \in Conn : Reader(c) \/ Backend(c)

Spec == Init /\ [][Next]_vars

-----------------------------------------------------------------------------
(* Types *)

\* The type invariant.  A frame received or waiting accounts for one push, a
\* connection for one frame, so Conn is large enough for every connection.
TypeOK ==
  /\ frames \in Seq(Frame)
  /\ inOpen \in BOOLEAN
  /\ pushes \in 0 .. MaxFrames
  /\ sent \in [Ids \cup {0} -> Nat]
  /\ loop \in {"recv", "busy", "bye", "done", "failed"}
  /\ IF loop = "busy" THEN cur \in Frame /\ cur.ty \in {"HELLO", "OPEN", "DATA"}
                      ELSE cur = NoFrame
  /\ streams \in [Ids -> Conn \cup {NoConn}]
  /\ nconns \in Nat
  /\ nconns + Len(frames) + (IF loop = "busy" THEN 1 ELSE 0) <= pushes
  /\ conn \in [Conn -> ConnState]
  /\ outq \in Seq(Msg)
  /\ outOpen \in BOOLEAN

-----------------------------------------------------------------------------
(* Who owns a connection's write half *)

\* The map of streams agrees with the connections although OPEN checks it,
\* waits for the connect and only then inserts (session.rs:115-132): a stream
\* maps to the connection made last for it, an open OPEN still finds its
\* place free, the limit holds, and a session on its way out owns none.
WriterOwnership ==
  /\ \A i \in OpenStreams :
       /\ streams[i] <= nconns
       /\ conn[streams[i]].id = i
       /\ \A c \in streams[i] + 1 .. nconns : conn[c].id # i
  /\ Suspended("OPEN") => cur.id \in Ids \ OpenStreams
  /\ Suspended("DATA") => cur.id \in OpenStreams
  /\ Cardinality(OpenStreams) + (IF Suspended("OPEN") THEN 1 ELSE 0)
       <= MaxStreams
  /\ loop \in {"bye"} \cup Ended => OpenStreams = {}

-----------------------------------------------------------------------------
(* Toward the backend *)

\* DATA frame number k of stream i is in the queue s.
Holds(s, i, k) ==
  \E p \in DOMAIN s : s[p].ty = "DATA" /\ s[p].id = i /\ s[p].n = k

\* Frame g may follow frame f.
Before(f, g) ==
  g.id = f.id => f.n <= g.n /\ (g.ty = "DATA" => f.n < g.n)

\* Of the stream of frame f, whose last DATA frame is number last, the queue s
\* holds every DATA frame after f.
Complete(f, s, last) ==
  /\ f.n <= last[f.id]
  /\ \A k \in f.n + 1 .. last[f.id] : Holds(s, f.id, k)

\* The frames of each stream stand in order and none is missing.
InOrder(s, last) ==
  \A p \in DOMAIN s :
    /\ Complete(s[p], s, last)
    /\ \A q \in p + 1 .. Len(s) : Before(s[p], s[q])

\* So they wait behind the frame the loop is suspended on.
CurrentFirst ==
  loop = "busy" =>
    /\ Complete(cur, frames, sent)
    /\ \A q \in DOMAIN frames : Before(cur, frames[q])

\* Stream i was written up to DATA frame number w: every later one pushed is
\* frame f or in s, and none of these was written before.
Written(i, w, f, s, last) ==
  /\ w <= last[i]
  /\ f.ty = "DATA" /\ f.id = i => w < f.n
  /\ \A q \in DOMAIN s : s[q].ty = "DATA" /\ s[q].id = i => w < s[q].n
  /\ \A k \in w + 1 .. last[i] :
       \/ f.ty = "DATA" /\ f.id = i /\ f.n = k
       \/ Holds(s, i, k)

WrittenSoFar ==
  \A i \in OpenStreams :
    /\ conn[streams[i]].base <= conn[streams[i]].wrote
    /\ Written(i, conn[streams[i]].wrote, cur, frames, sent)

\* What the loop still has to do keeps the order and the completeness of what
\* was pushed.
UpOrder ==
  /\ InOrder(frames, sent)
  /\ CurrentFirst
  /\ WrittenSoFar

-----------------------------------------------------------------------------
(* Toward the client *)

\* Chunk k of connection c waits for the carrier.
Queued(c, k) ==
  \E p \in DOMAIN outq :
    outq[p].ty = "DATA" /\ outq[p].conn = c /\ outq[p].n = k

\* A chunk that waits was read and not taken.
ChunksPending ==
  \A p \in DOMAIN outq : outq[p].ty = "DATA" =>
    /\ outq[p].conn \in 1 .. nconns
    /\ conn[outq[p].conn].got < outq[p].n
    /\ outq[p].n <= conn[outq[p].conn].read

\* The CLOSE of connection c is due: its reader ended on an error or after the
\* last chunk, and its CLOSE was not taken.
CloseDue(c) ==
  /\ c \in 1 .. nconns
  /\ conn[c].reader = "ended"
  /\ ~conn[c].shut
  /\ conn[c].peer # "open"
  /\ conn[c].peer = "fin" => conn[c].read = conn[c].made

ClosesPending ==
  \A p \in DOMAIN outq : outq[p].ty = "CLOSE" => CloseDue(outq[p].conn)

\* The messages of a connection wait in order, its CLOSE last.
OutInOrder ==
  \A p \in DOMAIN outq : \A q \in p + 1 .. Len(outq) :
    outq[q].conn = outq[p].conn /\ outq[p].conn # NoConn =>
      outq[p].ty = "DATA" /\ (outq[q].ty = "DATA" => outq[p].n < outq[q].n)

\* While the carrier stays, no chunk read is missing.
NoChunkLost ==
  outOpen => \A c \in 1 .. nconns :
    \A k \in conn[c].got + 1 .. conn[c].read : Queued(c, k)

\* Taken, read and sent, and nothing after the CLOSE.
Counted ==
  \A c \in 1 .. nconns :
    /\ conn[c].got <= conn[c].read /\ conn[c].read <= conn[c].made
    /\ conn[c].shut => /\ conn[c].reader = "ended"
                       /\ \A p \in DOMAIN outq : outq[p].conn # c

\* The channel toward the carrier holds, per connection, exactly the chunks
\* read and not taken, in order, then at most one CLOSE and only after the
\* last chunk of a backend that ended cleanly.
DownOrder ==
  /\ ChunksPending
  /\ ClosesPending
  /\ OutInOrder
  /\ NoChunkLost
  /\ Counted
  /\ \A c \in Conn : c > nconns => conn[c].reader = "none"
  /\ ~outOpen => outq = <<>>

-----------------------------------------------------------------------------
(* Where the loop and the readers wait: for a frame, or for room or the loss of
   the channel toward the carrier; a reader for its backend too. *)

Sends == ~outOpen \/ Len(outq) < OutCap
LoopMoves ==
  \/ loop = "recv" /\ (frames # <<>> \/ ~inOpen)
  \/ loop = "busy" /\ (cur.ty = "HELLO" => Sends)
  \/ loop = "bye" /\ Sends
ReaderMoves(c) ==
  /\ conn[c].reader = "reading"
  /\ conn[c].read < conn[c].made \/ conn[c].peer # "open"
  /\ Sends

-----------------------------------------------------------------------------
(* The abstract session *)

Promised == INSTANCE Mux WITH
  Pipes <- Conn, open <- streams, made <- nconns,
  pipe <- [c \in Conn |->
             [id |-> conn[c].id, up |-> conn[c].wrote - conn[c].base,
              peer |-> conn[c].peer, sent |-> conn[c].made,
              down |-> conn[c].got, reported |-> conn[c].shut]],
  over <- loop \in {"bye"} \cup Ended, gone <- ~outOpen

\* The session keeps the promise of Mux: its channels, its suspended handler
\* and its reader tasks add nothing a client or a backend could tell.
KeepsPromise == Promised!Spec

\* Every backend that ends or resets is reported to a carrier that stays.
EveryEndReported == Promised!Reported

=============================================================================
