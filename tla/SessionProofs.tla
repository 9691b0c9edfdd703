--------------------------- MODULE SessionProofs ---------------------------
(* Theorems about Session.tla, for every value of its constants. *)
EXTENDS Session, SequenceTheorems, FiniteSetTheorems, TLAPS

-----------------------------------------------------------------------------
(* Sequences: what the channels' operations do, position by position *)

\* What is appended comes last and nothing else moves.
LEMMA AppendPositions ==
  ASSUME NEW S, NEW s \in Seq(S), NEW e \in S
  PROVE  /\ Append(s, e) \in Seq(S)
         /\ Len(Append(s, e)) = Len(s) + 1
         /\ DOMAIN Append(s, e) = 1 .. Len(s) + 1
         /\ DOMAIN s = 1 .. Len(s)
         /\ \A p \in 1 .. Len(s) : Append(s, e)[p] = s[p]
         /\ Append(s, e)[Len(s) + 1] = e
  OBVIOUS

\* Taking the head moves every other element one place forward.
LEMMA TailPositions ==
  ASSUME NEW S, NEW s \in Seq(S), s # <<>>
  PROVE  /\ Tail(s) \in Seq(S)
         /\ Len(s) \in Nat \ {0}
         /\ Len(Tail(s)) = Len(s) - 1
         /\ DOMAIN s = 1 .. Len(s)
         /\ DOMAIN Tail(s) = 1 .. Len(s) - 1
         /\ Head(s) = s[1]
         /\ Head(s) \in S
         /\ \A p \in 1 .. Len(s) - 1 : Tail(s)[p] = s[p + 1]
  OBVIOUS

-----------------------------------------------------------------------------
(* Types *)

\* The values an action writes have the types the invariant says.
LEMMA Values ==
  /\ NoFrame \notin Frame
  /\ Unconnected \in ConnState
  /\ \A i \in Ids \cup {0}, n \in Nat : Connection(i, n, "reading") \in ConnState
  /\ NoStreams \in [Ids -> Conn \cup {NoConn}]
  /\ \A ty \in {"WELCOME", "DATA", "CLOSE", "BYE"} : Control(ty) \in Msg
  /\ 0 \notin Ids
  BY SessionAssumption
     DEF NoFrame, Frame, FrameTypes, Unconnected, Connection, ConnState,
         NoStreams, Control, Msg, NoConn

\* One field of a connection changes.
LEMMA Fields ==
  ASSUME NEW r \in ConnState
  PROVE  /\ \A n \in Nat : /\ [r EXCEPT !.made = n] \in ConnState
                           /\ [r EXCEPT !.read = n] \in ConnState
                           /\ [r EXCEPT !.got = n] \in ConnState
                           /\ [r EXCEPT !.wrote = n] \in ConnState
         /\ [r EXCEPT !.peer = "fin"] \in ConnState
         /\ [r EXCEPT !.peer = "reset"] \in ConnState
         /\ [r EXCEPT !.reader = "ended"] \in ConnState
         /\ [r EXCEPT !.shut = TRUE] \in ConnState
  BY DEF ConnState

\* The initial state has the types.
LEMMA TypeInit == Init => TypeOK
  BY SessionAssumption, Values
     DEF Init, TypeOK, NoFrame

\* Every step of the loop keeps the types.
LEMMA TypeLoop ==
  ASSUME TypeOK, Loop
  PROVE  TypeOK'
<1> USE DEF TypeOK
<1>0. /\ Len(frames) \in Nat
      /\ \A m \in Msg : Append(outq, m) \in Seq(Msg)
      /\ frames # <<>> => /\ Tail(frames) \in Seq(Frame)
                         /\ Len(Tail(frames)) = Len(frames) - 1
                         /\ Head(frames) \in Frame
  BY AppendPositions, TailPositions
<1>1. ASSUME Fail PROVE TypeOK'
  BY <1>0, <1>1, Values DEF Fail
<1>2. ASSUME Suspend, frames # <<>>, loop = "recv",
             Head(frames).ty \in {"HELLO", "OPEN", "DATA"}
      PROVE  TypeOK'
  BY <1>0, <1>2 DEF Suspend
<1>3. CASE RecvHello
  BY <1>1, <1>2, <1>3 DEF RecvHello, Receive
<1>4. CASE SendWelcome
  BY <1>0, <1>4, Values DEF SendWelcome, Suspended, Emit, Resume
<1>5. CASE WelcomeRefused \/ ConnectFail \/ WriteFail
  BY <1>1, <1>5 DEF WelcomeRefused, ConnectFail, WriteFail
<1>6. CASE RecvOpen
  BY <1>1, <1>2, <1>6 DEF RecvOpen, Receive
<1>7. CASE ConnectOk
  <2>1. cur.id \in Ids \cup {0} /\ cur.n \in Nat /\ nconns + 1 \in Conn
    BY <1>0, <1>7, SessionAssumption DEF ConnectOk, Suspended, Conn, Frame
  <2>2. conn' \in [Conn -> ConnState]
    BY <1>7, <2>1, Values DEF ConnectOk
  <2>3. streams' \in [Ids -> Conn \cup {NoConn}]
    BY <1>7, <2>1, Values DEF ConnectOk
  <2> QED
    BY <1>0, <1>7, <2>2, <2>3 DEF ConnectOk, Suspended, Resume
<1>8. CASE RecvData
  BY <1>1, <1>2, <1>8 DEF RecvData, Receive
<1>9. CASE WriteOk
  <2>1. conn' \in [Conn -> ConnState]
    BY <1>9, Fields DEF WriteOk, Suspended, Frame
  <2> QED
    BY <1>9, <2>1 DEF WriteOk, Suspended, Resume
<1>10. CASE RecvClose
  BY <1>0, <1>10 DEF RecvClose, Receive, Handled
<1>11. CASE RecvIgnored
  BY <1>0, <1>11 DEF RecvIgnored, Receive, Handled
<1>12. CASE RecvUnexpected
  BY <1>1, <1>12 DEF RecvUnexpected, Receive
<1>13. CASE RecvBye
  BY <1>0, <1>13, Values DEF RecvBye, Receive, Shutdown
<1>14. CASE RecvClosed
  BY <1>0, <1>14, Values DEF RecvClosed, Shutdown
<1>15. CASE SendBye
  <2>0. Control("BYE") \in Msg
    BY Values
  <2>1. outq' \in Seq(Msg)
    <3>1. outq' = outq \/ outq' = Append(outq, Control("BYE"))
      BY <1>15 DEF SendBye, Emit
    <3> QED
      BY <1>0, <2>0, <3>1
  <2>2. frames' \in Seq(Frame) /\ Len(frames') = 0
    BY <1>15 DEF SendBye
  <2>3. nconns' = nconns /\ pushes' = pushes /\ loop' = "done" /\ nconns <= pushes
    BY <1>0, <1>15 DEF SendBye
  <2>4. nconns' + Len(frames') + (IF loop' = "busy" THEN 1 ELSE 0) <= pushes'
    BY <2>2, <2>3
  <2> QED
    BY <1>15, <2>1, <2>2, <2>3, <2>4 DEF SendBye
<1> QED
  BY <1>3, <1>4, <1>5, <1>6, <1>7, <1>8, <1>9, <1>10, <1>11, <1>12, <1>13,
     <1>14, <1>15 DEF Loop

\* Any frame may be pushed.
LEMMA TypeEnqueue ==
  ASSUME TypeOK, NEW f \in Frame, Enqueue(f)
  PROVE  TypeOK'
<1> USE DEF TypeOK
<1>1. /\ Append(frames, f) \in Seq(Frame) /\ Len(Append(frames, f)) = Len(frames) + 1
      /\ Len(frames) \in Nat
  BY AppendPositions
<1>2. f.id \in Ids \cup {0} /\ f.n \in Nat
  BY DEF Frame
<1>3. pushes' \in 0 .. MaxFrames /\ pushes' = pushes + 1
  BY SessionAssumption DEF Enqueue
<1>4. nconns' + Len(frames') + (IF loop' = "busy" THEN 1 ELSE 0) <= pushes'
  BY <1>1, <1>3, SessionAssumption DEF Enqueue
<1> QED
  BY <1>1, <1>2, <1>3, <1>4 DEF Enqueue

\* Every step of a carrier, a reader or a backend keeps the types.
LEMMA TypeOthers ==
  ASSUME TypeOK, Carrier \/ \E c \in Conn : Reader(c) \/ Backend(c)
  PROVE  TypeOK'
<1> USE DEF TypeOK
<1>0. Len(frames) \in Nat /\ \A m \in Msg : Append(outq, m) \in Seq(Msg)
  BY AppendPositions
<1>1. ASSUME NEW ty \in FrameTypes, NEW i \in Ids \cup {0},
             Push([ty |-> ty, id |-> i, n |-> Position(ty, i)])
      PROVE  TypeOK'
  <2> DEFINE f == [ty |-> ty, id |-> i, n |-> Position(ty, i)]
  <2>1. f \in Frame
    BY DEF Frame, Position
  <2> HIDE DEF f
  <2>2. Enqueue(f)
    BY <1>1 DEF Push, f
  <2> QED
    BY <2>1, <2>2, TypeEnqueue
<1>2. CASE CloseInput
  BY <1>2 DEF CloseInput
<1>3. CASE Take
  <2>1. Head(outq) \in Msg /\ Tail(outq) \in Seq(Msg)
    BY <1>3, TailPositions DEF Take
  <2>2. Head(outq).n \in Nat
    BY <2>1 DEF Msg
  <2>3. conn' \in [Conn -> ConnState]
    <3>1. CASE Head(outq).ty = "DATA"
      BY <1>3, <2>2, <3>1, Fields DEF Take
    <3>2. CASE Head(outq).ty = "CLOSE"
      BY <1>3, <3>2, Fields DEF Take
    <3> QED
      BY <1>3, <3>1, <3>2 DEF Take
  <2> QED
    BY <1>3, <2>1, <2>3 DEF Take
<1>4. CASE DropOut
  <2>1. outq' \in Seq(Msg)
    BY <1>4 DEF DropOut
  <2> QED
    BY <1>4, <2>1 DEF DropOut
<1>5. ASSUME NEW c \in Conn, Reader(c) PROVE TypeOK'
  <2>1. conn[c] \in ConnState /\ conn[c].read + 1 \in Nat
    BY DEF ConnState
  <2>2. [ty |-> "DATA", conn |-> c, n |-> conn[c].read + 1] \in Msg
        /\ [ty |-> "CLOSE", conn |-> c, n |-> 0] \in Msg
    BY <2>1 DEF Msg
  <2>3. outq' \in Seq(Msg)
    BY <1>0, <1>5, <2>2 DEF Reader, ReaderData, ReaderEof, Emit
  <2>4. conn' \in [Conn -> ConnState]
    <3>1. [conn[c] EXCEPT !.read = @ + 1] \in ConnState
          /\ [conn[c] EXCEPT !.reader = "ended"] \in ConnState
      BY <2>1, Fields
    <3> QED
      BY <1>5, <3>1 DEF Reader, ReaderData, ReaderEof
  <2> QED
    BY <1>5, <2>3, <2>4 DEF Reader, ReaderData, ReaderEof
<1>6. ASSUME NEW c \in Conn, Backend(c) PROVE TypeOK'
  <2>1. conn[c] \in ConnState /\ conn[c].made + 1 \in Nat
    BY DEF ConnState
  <2>2. conn' \in [Conn -> ConnState]
    <3>1. /\ [conn[c] EXCEPT !.made = @ + 1] \in ConnState
          /\ [conn[c] EXCEPT !.peer = "fin"] \in ConnState
          /\ [conn[c] EXCEPT !.peer = "reset"] \in ConnState
      BY <2>1, Fields
    <3> QED
      BY <1>6, <3>1 DEF Backend, BackendSend, BackendFin, BackendReset
  <2> QED
    BY <1>6, <2>2 DEF Backend, BackendSend, BackendFin, BackendReset
<1> QED
  BY <1>1, <1>2, <1>3, <1>4, <1>5, <1>6 DEF Carrier, FrameTypes

\* The variables keep their types in every reachable state.
THEOREM TypeCorrect == Spec => []TypeOK
<1>1. TypeOK /\ [Next]_vars => TypeOK'
  <2> SUFFICES ASSUME TypeOK, [Next]_vars PROVE TypeOK'
    OBVIOUS
  <2>1. CASE Next
    BY <2>1, TypeLoop, TypeOthers DEF Next
  <2>2. CASE UNCHANGED vars
    BY <2>2 DEF vars, TypeOK
  <2> QED
    BY <2>1, <2>2
<1> QED
  BY <1>1, TypeInit, PTL DEF Spec

-----------------------------------------------------------------------------
(* Who owns a write half: TypeOK /\ WriterOwnership is inductive *)

\* The streams in the map are finitely many, and connections are in Conn.
LEMMA OpenFinite ==
  ASSUME TypeOK
  PROVE  /\ IsFiniteSet(OpenStreams)
         /\ Cardinality(OpenStreams) \in Nat
         /\ \A i \in OpenStreams : i \in Ids /\ streams[i] \in Conn
         /\ 1 .. nconns \subseteq Conn
<1>1. OpenStreams \subseteq Ids
  BY DEF OpenStreams
<1>2. IsFiniteSet(OpenStreams) /\ Cardinality(OpenStreams) \in Nat
  BY <1>1, SessionAssumption, FS_Subset, FS_CardinalityType
<1>3. \A i \in OpenStreams : streams[i] \in Conn
  BY DEF TypeOK, OpenStreams, NoConn
<1>4. Len(frames) \in Nat
  BY DEF TypeOK
<1>5. 1 .. nconns \subseteq Conn
  BY <1>4, SessionAssumption DEF TypeOK, Conn
<1> QED
  BY <1>1, <1>2, <1>3, <1>5

\* The part of WriterOwnership that a step can break without the loop's help.
Placed ==
  /\ \A i \in OpenStreams :
       /\ streams[i] <= nconns
       /\ conn[streams[i]].id = i
       /\ \A c \in streams[i] + 1 .. nconns : conn[c].id # i
  /\ Cardinality(OpenStreams) <= MaxStreams

\* It follows from WriterOwnership, and survives a step that makes no
\* connection, moves no stream and leaves the connections' streams alone.
LEMMA PlacedKept ==
  ASSUME TypeOK, WriterOwnership, nconns' = nconns,
         OpenStreams' \subseteq OpenStreams,
         \A i \in OpenStreams' : streams'[i] = streams[i],
         \A c \in Conn : conn'[c].id = conn[c].id
  PROVE  Placed'
<1>1. \A i \in OpenStreams : conn'[streams[i]].id = conn[streams[i]].id
  BY OpenFinite
<1>2. \A i \in OpenStreams : \A c \in streams[i] + 1 .. nconns :
        conn'[c].id = conn[c].id
  BY OpenFinite DEF Conn, TypeOK
<1>3. \A i \in OpenStreams' :
        /\ streams'[i] <= nconns'
        /\ conn'[streams'[i]].id = i
        /\ \A c \in streams'[i] + 1 .. nconns' : conn'[c].id # i
  BY <1>1, <1>2 DEF WriterOwnership
<1>4. Cardinality(OpenStreams') <= Cardinality(OpenStreams)
      /\ Cardinality(OpenStreams') \in Nat
  BY OpenFinite, FS_Subset, FS_CardinalityType
<1>5. Cardinality(OpenStreams) <= MaxStreams
  BY OpenFinite, SessionAssumption DEF WriterOwnership
<1>6. Cardinality(OpenStreams') <= MaxStreams
  BY <1>4, <1>5, OpenFinite, SessionAssumption
<1> QED
  BY <1>3, <1>6 DEF Placed

\* A step that leaves the loop, its map and the streams of all connections
\* alone leaves the ownership alone.
LEMMA OwnershipKept ==
  ASSUME TypeOK, WriterOwnership, UNCHANGED <<loop, cur, streams, nconns>>,
         \A c \in Conn : conn'[c].id = conn[c].id
  PROVE  WriterOwnership'
<1>1. OpenStreams' = OpenStreams
  BY DEF OpenStreams
<1>2. Placed'
  BY <1>1, PlacedKept
<1> QED
  BY <1>1, <1>2 DEF Placed, WriterOwnership, Suspended

\* A loop that receives again, or suspends on neither an OPEN nor a DATA
\* frame, has nothing more to keep.
LEMMA OwnershipResumed ==
  ASSUME TypeOK, Placed', loop' \in {"recv", "busy"},
         loop' = "busy" => cur'.ty \notin {"OPEN", "DATA"}
  PROVE  WriterOwnership'
<1>1. Cardinality(OpenStreams') + 0 <= MaxStreams
  <2>1. IsFiniteSet(OpenStreams')
    <3>1. OpenStreams' \subseteq Ids
      BY DEF OpenStreams
    <3> QED
      BY <3>1, SessionAssumption, FS_Subset
  <2>2. Cardinality(OpenStreams') \in Nat
    BY <2>1, FS_CardinalityType
  <2> QED
    BY <2>2 DEF Placed
<1>2. ~Suspended("OPEN")' /\ ~Suspended("DATA")'
  BY DEF Suspended
<1> QED
  BY <1>1, <1>2 DEF Placed, WriterOwnership, Ended

\* The carrier, the readers and the backends do not touch it.
LEMMA OwnershipOthers ==
  ASSUME TypeOK, WriterOwnership,
         Carrier \/ \E c \in Conn : Reader(c) \/ Backend(c)
  PROVE  WriterOwnership'
<1>1. UNCHANGED <<loop, cur, streams, nconns>>
  BY DEF Carrier, Push, Enqueue, CloseInput, Take, DropOut, Reader,
         ReaderData, ReaderEof, Backend, BackendSend, BackendFin, BackendReset
<1>2. ASSUME NEW c \in Conn PROVE conn'[c].id = conn[c].id
  <2>1. CASE Carrier
    <3>1. CASE Take
      BY <3>1 DEF Take, TypeOK, ConnState
    <3> QED
      BY <2>1, <3>1 DEF Carrier, Push, Enqueue, CloseInput, DropOut
  <2>0. conn \in [Conn -> ConnState]
    BY DEF TypeOK
  <2>2. ASSUME NEW d \in Conn, Reader(d) PROVE conn'[c].id = conn[c].id
    <3>1. /\ [conn[d] EXCEPT !.read = @ + 1].id = conn[d].id
          /\ [conn[d] EXCEPT !.reader = "ended"].id = conn[d].id
      BY <2>0 DEF ConnState
    <3> QED
      BY <2>0, <2>2, <3>1 DEF Reader, ReaderData, ReaderEof
  <2>3. ASSUME NEW d \in Conn, Backend(d) PROVE conn'[c].id = conn[c].id
    <3>1. /\ [conn[d] EXCEPT !.made = @ + 1].id = conn[d].id
          /\ [conn[d] EXCEPT !.peer = "fin"].id = conn[d].id
          /\ [conn[d] EXCEPT !.peer = "reset"].id = conn[d].id
      BY <2>0 DEF ConnState
    <3> QED
      BY <2>0, <2>3, <3>1 DEF Backend, BackendSend, BackendFin, BackendReset
  <2> QED
    BY <2>1, <2>2, <2>3
<1> QED
  BY <1>1, <1>2, OwnershipKept

\* A session on its way out has emptied its map.
LEMMA OwnershipEnds ==
  ASSUME TypeOK, WriterOwnership, streams' = NoStreams,
         loop' \in {"bye", "done", "failed"}
  PROVE  WriterOwnership'
<1>1. OpenStreams' = {}
  BY DEF OpenStreams, NoStreams
<1>2. Cardinality(OpenStreams') = 0
  BY <1>1, FS_EmptySet
<1> QED
  BY <1>1, <1>2, SessionAssumption DEF WriterOwnership, Suspended

\* Between the check of an OPEN and the insertion only the loop could change
\* the map, and it waits for the connect.
LEMMA OwnershipLoop ==
  ASSUME TypeOK, WriterOwnership, Loop
  PROVE  WriterOwnership'
<1>0. frames # <<>> => Head(frames) \in Frame
  BY TailPositions DEF TypeOK
<1>1. ASSUME Fail PROVE WriterOwnership'
  BY <1>1, OwnershipEnds DEF Fail
<1>2. CASE RecvHello
  <2>1. CASE Suspend
    <3>1. /\ loop' = "busy" /\ cur'.ty = "HELLO"
          /\ UNCHANGED <<streams, nconns, conn>>
      BY <1>2, <2>1 DEF RecvHello, Receive, Suspend
    <3>2. OpenStreams' = OpenStreams
      BY <3>1 DEF OpenStreams
    <3>3. Placed'
      BY <3>1, <3>2, PlacedKept
    <3> QED
      BY <3>1, <3>3, OwnershipResumed
  <2> QED
    BY <1>1, <1>2, <2>1 DEF RecvHello
<1>3. CASE SendWelcome
  <2>1. loop' = "recv" /\ UNCHANGED <<streams, nconns, conn>>
    BY <1>3 DEF SendWelcome, Resume
  <2>2. OpenStreams' = OpenStreams
    BY <2>1 DEF OpenStreams
  <2>3. Placed'
    BY <2>1, <2>2, PlacedKept
  <2> QED
    BY <2>1, <2>3, OwnershipResumed
<1>4. CASE WelcomeRefused \/ ConnectFail \/ WriteFail \/ RecvUnexpected
  BY <1>1, <1>4 DEF WelcomeRefused, ConnectFail, WriteFail, RecvUnexpected
<1>5. CASE RecvOpen
  <2>1. CASE ~OpenRefused(Head(frames).id)
    <3>1. /\ loop' = "busy" /\ cur' = Head(frames) /\ cur'.ty = "OPEN"
          /\ UNCHANGED <<streams, nconns, conn>>
      BY <1>5, <2>1 DEF RecvOpen, Receive, Suspend
    <3>2. OpenStreams' = OpenStreams
      BY <3>1 DEF OpenStreams
    <3>3. cur'.id \in Ids \ OpenStreams
      BY <1>0, <1>5, <2>1, <3>1 DEF RecvOpen, Receive, OpenRefused, IsOpen,
                                     OpenStreams, Frame
    <3>4. Cardinality(OpenStreams) + 1 <= MaxStreams
      BY <2>1, OpenFinite, SessionAssumption DEF OpenRefused
    <3> QED
      BY <3>1, <3>2, <3>3, <3>4 DEF WriterOwnership, Suspended, Ended
  <2> QED
    BY <1>1, <1>5, <2>1 DEF RecvOpen
<1>6. CASE ConnectOk
  <2> DEFINE new == nconns + 1
  <2>1. /\ Suspended("OPEN") /\ cur.id \in Ids \ OpenStreams
        /\ loop' = "recv" /\ nconns' = new
        /\ streams' = [streams EXCEPT ![cur.id] = new]
        /\ conn' = [conn EXCEPT ![new] = Connection(cur.id, cur.n, "reading")]
    BY <1>6 DEF ConnectOk, Resume, WriterOwnership
  <2>2. new \in Nat /\ new # NoConn /\ new \in Conn
    <3>1. Len(frames) \in Nat
      BY DEF TypeOK
    <3> QED
      BY <2>1, <3>1, SessionAssumption DEF TypeOK, Suspended, NoConn, Conn
  <2>3. OpenStreams' = OpenStreams \cup {cur.id}
    BY <2>1, <2>2 DEF OpenStreams, TypeOK
  <2>4. Cardinality(OpenStreams') = Cardinality(OpenStreams) + 1
    BY <2>1, <2>3, OpenFinite, FS_AddElement
  <2>5. Cardinality(OpenStreams') <= MaxStreams
    BY <2>1, <2>4 DEF WriterOwnership
  <2>6. /\ conn'[new].id = cur.id
        /\ \A c \in 1 .. nconns : conn'[c] = conn[c]
    BY <2>1, <2>2, OpenFinite DEF TypeOK, Connection, Conn
  <2>7. ASSUME NEW i \in OpenStreams'
        PROVE  /\ streams'[i] <= new
               /\ conn'[streams'[i]].id = i
               /\ \A c \in streams'[i] + 1 .. new : conn'[c].id # i
    <3>1. CASE i = cur.id
      BY <2>1, <2>2, <2>6, <3>1 DEF TypeOK
    <3>2. CASE i # cur.id
      <4>1. i \in OpenStreams /\ streams'[i] = streams[i]
        BY <2>1, <2>3, <2>7, <3>2 DEF TypeOK
      <4>2. /\ streams[i] \in Conn /\ streams[i] <= nconns
            /\ conn[streams[i]].id = i
            /\ \A c \in streams[i] + 1 .. nconns : conn[c].id # i
        BY <4>1, OpenFinite DEF WriterOwnership
      <4> QED
        BY <2>1, <2>2, <2>6, <3>2, <4>1, <4>2 DEF Conn, TypeOK
    <3> QED
      BY <3>1, <3>2
  <2>8. Placed'
    BY <2>1, <2>5, <2>7 DEF Placed
  <2> QED
    BY <2>1, <2>8, OwnershipResumed
<1>7. CASE RecvData
  <2>1. CASE IsOpen(Head(frames).id)
    <3>1. /\ loop' = "busy" /\ cur' = Head(frames) /\ cur'.ty = "DATA"
          /\ UNCHANGED <<streams, nconns, conn>>
      BY <1>7, <2>1 DEF RecvData, Receive, Suspend
    <3>2. OpenStreams' = OpenStreams /\ cur'.id \in OpenStreams
      BY <2>1, <3>1 DEF OpenStreams, IsOpen
    <3>3. Placed'
      BY <3>1, <3>2, PlacedKept
    <3>4. ~Suspended("OPEN")' /\ loop' \notin {"bye"} \cup Ended
      BY <3>1 DEF Suspended, Ended
    <3>5. Cardinality(OpenStreams') + 0 <= MaxStreams
      BY <3>2, <3>3, OpenFinite DEF Placed
    <3> QED
      BY <3>2, <3>3, <3>4, <3>5 DEF Placed, WriterOwnership
  <2> QED
    BY <1>1, <1>7, <2>1 DEF RecvData
<1>8. CASE WriteOk
  <2>1. OpenStreams' = OpenStreams /\ loop' = "recv" /\ UNCHANGED <<streams, nconns>>
    BY <1>8 DEF WriteOk, Resume, OpenStreams
  <2>2. \A c \in Conn : conn'[c].id = conn[c].id
    BY <1>8 DEF WriteOk, TypeOK, ConnState
  <2>3. Placed'
    BY <2>1, <2>2, PlacedKept
  <2> QED
    BY <2>1, <2>3, OwnershipResumed
<1>9. CASE RecvClose
  <2>1. loop' = "recv" /\ UNCHANGED <<nconns, conn>>
    BY <1>9 DEF RecvClose, Receive, Handled
  <2>2. /\ OpenStreams' \subseteq OpenStreams
        /\ \A i \in OpenStreams' : streams'[i] = streams[i]
    BY <1>9 DEF RecvClose, OpenStreams
  <2>3. Placed'
    BY <2>1, <2>2, PlacedKept
  <2> QED
    BY <2>1, <2>3, OwnershipResumed
<1>10. CASE RecvIgnored
  BY <1>10, OwnershipKept DEF RecvIgnored, Handled
<1>11. CASE RecvBye \/ RecvClosed
  BY <1>11, OwnershipEnds DEF RecvBye, RecvClosed, Shutdown
<1>12. CASE SendBye
  <2>1. loop' = "done" /\ UNCHANGED <<streams, nconns, conn>> /\ OpenStreams = {}
    BY <1>12 DEF SendBye, WriterOwnership
  <2>2. streams = NoStreams
    BY <2>1 DEF OpenStreams, NoStreams, TypeOK
  <2> QED
    BY <2>1, <2>2, OwnershipEnds
<1> QED
  BY <1>2, <1>3, <1>4, <1>5, <1>6, <1>7, <1>8, <1>9, <1>10, <1>11, <1>12
     DEF Loop

\* No stream is open at the start.
LEMMA OwnershipInit == Init => WriterOwnership
<1> SUFFICES ASSUME Init PROVE WriterOwnership
  OBVIOUS
<1>1. OpenStreams = {}
  BY DEF Init, OpenStreams, NoStreams
<1>2. Cardinality(OpenStreams) = 0
  BY <1>1, FS_EmptySet
<1> QED
  BY <1>1, <1>2, SessionAssumption DEF Init, WriterOwnership, Suspended, Ended

\* In every reachable state the map of streams agrees with the connections
\* made: no connection is inserted over another and the limit is never
\* passed, although OPEN is checked before the connect and inserted after it.
THEOREM OwnershipCorrect == Spec => []WriterOwnership
<1>1. Init => TypeOK /\ WriterOwnership
  BY TypeInit, OwnershipInit
<1>2. TypeOK /\ WriterOwnership /\ [Next]_vars => TypeOK' /\ WriterOwnership'
  <2> SUFFICES ASSUME TypeOK, WriterOwnership, [Next]_vars
               PROVE  TypeOK' /\ WriterOwnership'
    OBVIOUS
  <2>1. CASE Next
    BY <2>1, TypeLoop, TypeOthers, OwnershipLoop, OwnershipOthers DEF Next
  <2>2. CASE UNCHANGED vars
    BY <2>2, OwnershipKept DEF vars, TypeOK
  <2> QED
    BY <2>1, <2>2
<1> QED
  BY <1>1, <1>2, PTL DEF Spec

-----------------------------------------------------------------------------
(* Toward the client: TypeOK /\ DownInv is inductive *)

\* A message about no connection names none.
ControlsUnbound ==
  \A p \in DOMAIN outq :
    outq[p].ty \in {"WELCOME", "BYE"} => outq[p].conn = NoConn

\* The inductive invariant: ControlsUnbound keeps a WELCOME or a BYE from being
\* taken for a message of a connection.
DownInv == DownOrder /\ ControlsUnbound

\* The channel's positions, the messages in it and the connections made.
LEMMA OutPositions ==
  ASSUME TypeOK
  PROVE  /\ Len(outq) \in Nat
         /\ DOMAIN outq = 1 .. Len(outq)
         /\ \A p \in 1 .. Len(outq) : outq[p] \in Msg /\ outq[p].n \in Nat
         /\ nconns \in Nat
         /\ 1 .. nconns \subseteq Conn
         /\ \A c \in Conn : /\ conn[c] \in ConnState
                            /\ conn[c].got \in Nat /\ conn[c].read \in Nat
                            /\ conn[c].made \in Nat
<1>1. outq \in Seq(Msg) /\ nconns \in Nat /\ conn \in [Conn -> ConnState]
  BY DEF TypeOK
<1>2. \A m \in Msg : m.n \in Nat
  BY DEF Msg
<1>3. \A c \in Conn : /\ conn[c] \in ConnState
                     /\ conn[c].got \in Nat /\ conn[c].read \in Nat
                     /\ conn[c].made \in Nat
  BY <1>1 DEF ConnState
<1>4. Len(outq) \in Nat /\ DOMAIN outq = 1 .. Len(outq)
      /\ \A p \in 1 .. Len(outq) : outq[p] \in Msg
  BY <1>1
<1> QED
  BY <1>1, <1>2, <1>3, <1>4, OpenFinite

\* A step that leaves the channel, and what the readers and the carrier did
\* with the connections, alone; a backend may send, end or reset as it does.
LEMMA DownKept ==
  ASSUME TypeOK, DownInv, UNCHANGED <<outq, outOpen, nconns>>,
         \A c \in Conn :
           /\ conn'[c].got = conn[c].got /\ conn'[c].read = conn[c].read
           /\ conn'[c].shut = conn[c].shut /\ conn'[c].reader = conn[c].reader
           /\ conn'[c].made \in Nat /\ conn[c].made <= conn'[c].made
           /\ conn[c].peer # "open" =>
                /\ conn'[c].peer # "open"
                /\ conn'[c].peer = "fin" => /\ conn[c].peer = "fin"
                                            /\ conn'[c].made = conn[c].made
  PROVE  DownInv'
<1> USE OutPositions DEF DownInv, DownOrder
<1>1. ChunksPending'
  BY DEF ChunksPending
<1>2. ClosesPending'
  BY DEF ClosesPending, CloseDue
<1>3. OutInOrder'
  BY DEF OutInOrder
<1>4. NoChunkLost'
  BY DEF NoChunkLost, Queued
<1>5. Counted'
  BY DEF Counted
<1>6. ControlsUnbound'
  BY DEF ControlsUnbound
<1> QED
  BY <1>1, <1>2, <1>3, <1>4, <1>5, <1>6

\* A message about no connection is appended.
LEMMA DownControl ==
  ASSUME TypeOK, DownInv, NEW ty \in {"WELCOME", "BYE"}, Emit(Control(ty)),
         UNCHANGED <<outOpen, nconns, conn>>
  PROVE  DownInv'
<1> DEFINE m == Control(ty)
           l == Len(outq)
<1>0. /\ m \in Msg /\ m.conn = NoConn /\ m.ty \in {"WELCOME", "BYE"}
      /\ outq' = Append(outq, m) /\ outOpen
  BY DEF Control, Msg, NoConn, Emit, OutRoom
<1>1. /\ l \in Nat /\ DOMAIN outq = 1 .. l
      /\ DOMAIN outq' = 1 .. l + 1 /\ Len(outq') = l + 1
      /\ \A p \in 1 .. l : outq'[p] = outq[p]
      /\ outq'[l + 1] = m
  BY <1>0, AppendPositions, OutPositions DEF TypeOK
<1>2. Len(outq) = l
  OBVIOUS
<1> HIDE DEF m, l
<1> USE <1>0, <1>1 DEF DownInv, DownOrder
<1>3. ChunksPending'
  BY DEF ChunksPending
<1>4. ClosesPending'
  BY DEF ClosesPending, CloseDue
<1>5. OutInOrder'
  BY <1>2 DEF OutInOrder, NoConn
<1>6. NoChunkLost'
  BY OutPositions DEF NoChunkLost, Queued
<1>7. Counted'
  BY DEF Counted, NoConn
<1>8. ControlsUnbound'
  BY DEF ControlsUnbound
<1> QED
  BY <1>3, <1>4, <1>5, <1>6, <1>7, <1>8

\* The next chunk read is appended.
LEMMA DownChunk ==
  ASSUME TypeOK, DownInv, NEW c \in Conn, conn[c].reader = "reading",
         conn[c].read < conn[c].made,
         Emit([ty |-> "DATA", conn |-> c, n |-> conn[c].read + 1]),
         conn' = [conn EXCEPT ![c].read = @ + 1],
         UNCHANGED <<outOpen, nconns>>
  PROVE  DownInv'
<1> DEFINE m == [ty |-> "DATA", conn |-> c, n |-> conn[c].read + 1]
           l == Len(outq)
<1>0. /\ m \in Msg /\ m.conn = c /\ m.ty = "DATA" /\ m.n = conn[c].read + 1
      /\ outq' = Append(outq, m) /\ outOpen
  BY OutPositions DEF Msg, Emit, OutRoom
<1>1. /\ l \in Nat /\ DOMAIN outq = 1 .. l
      /\ DOMAIN outq' = 1 .. l + 1 /\ Len(outq') = l + 1
      /\ \A p \in 1 .. l : outq'[p] = outq[p]
      /\ outq'[l + 1] = m
  BY <1>0, AppendPositions, OutPositions DEF TypeOK
<1>2. Len(outq) = l
  OBVIOUS
<1> HIDE DEF m, l
<1>3. /\ \A d \in Conn : d # c => conn'[d] = conn[d]
      /\ conn'[c].read = conn[c].read + 1
      /\ conn'[c].got = conn[c].got /\ conn'[c].made = conn[c].made
      /\ conn'[c].peer = conn[c].peer /\ conn'[c].reader = "reading"
      /\ conn'[c].shut = conn[c].shut
  BY OutPositions DEF TypeOK, ConnState
<1>4. c \in 1 .. nconns /\ c # NoConn
  BY OutPositions DEF DownInv, DownOrder, Conn, NoConn
<1>5. ~conn[c].shut
  BY <1>4 DEF DownInv, DownOrder, Counted
<1>6. \A p \in 1 .. l : outq[p].conn = c =>
        outq[p].ty = "DATA" /\ outq[p].n <= conn[c].read
  BY <1>1, <1>4, OutPositions
     DEF DownInv, DownOrder, ClosesPending, CloseDue, ChunksPending, ControlsUnbound, Msg
<1> USE <1>0, <1>1, <1>3, OutPositions DEF DownInv, DownOrder
<1>7. ChunksPending'
  <2> SUFFICES ASSUME NEW p \in DOMAIN outq', outq'[p].ty = "DATA"
               PROVE  /\ outq'[p].conn \in 1 .. nconns
                      /\ conn'[outq'[p].conn].got < outq'[p].n
                      /\ outq'[p].n <= conn'[outq'[p].conn].read
    BY DEF ChunksPending
  <2>1. CASE p \in DOMAIN outq
    <3>1. /\ outq[p].conn \in 1 .. nconns /\ outq[p].n \in Nat
          /\ conn[outq[p].conn].got < outq[p].n
          /\ outq[p].n <= conn[outq[p].conn].read
      BY <2>1 DEF ChunksPending
    <3> QED
      BY <2>1, <3>1
  <2>2. CASE p = l + 1
    BY <1>4, <2>2 DEF Counted
  <2> QED
    BY <2>1, <2>2
<1>8. ClosesPending'
  BY DEF ClosesPending, CloseDue
<1>9. OutInOrder'
  BY <1>2, <1>6 DEF OutInOrder
<1>10. NoChunkLost'
  <2> SUFFICES ASSUME NEW d \in 1 .. nconns,
                      NEW k \in conn'[d].got + 1 .. conn'[d].read
               PROVE  Queued(d, k)'
    BY DEF NoChunkLost
  <2>1. CASE k \in conn[d].got + 1 .. conn[d].read
    <3>1. Queued(d, k)
      BY <2>1 DEF NoChunkLost
    <3> QED
      BY <3>1 DEF Queued
  <2>2. CASE d = c /\ k = conn[c].read + 1
    BY <2>2 DEF Queued
  <2> QED
    BY <2>1, <2>2
<1>11. Counted'
  BY <1>5 DEF Counted
<1>12. ControlsUnbound'
  BY DEF ControlsUnbound
<1> QED
  BY <1>4, <1>7, <1>8, <1>9, <1>10, <1>11, <1>12

\* The reader ends and its CLOSE is appended.
LEMMA DownClose ==
  ASSUME TypeOK, DownInv, NEW c \in Conn, ReaderEof(c)
  PROVE  DownInv'
<1> DEFINE m == [ty |-> "CLOSE", conn |-> c, n |-> 0]
           l == Len(outq)
<1>0. /\ conn[c].reader = "reading" /\ UNCHANGED <<outOpen, nconns>>
      /\ conn[c].peer # "open"
      /\ conn[c].peer = "fin" => conn[c].read = conn[c].made
      /\ conn' = [conn EXCEPT ![c].reader = "ended"]
  BY DEF ReaderEof
<1>3. /\ \A d \in Conn : d # c => conn'[d] = conn[d]
      /\ conn'[c].read = conn[c].read
      /\ conn'[c].got = conn[c].got /\ conn'[c].made = conn[c].made
      /\ conn'[c].peer = conn[c].peer /\ conn'[c].reader = "ended"
      /\ conn'[c].shut = conn[c].shut
  BY <1>0, OutPositions DEF TypeOK, ConnState
<1>4. c \in 1 .. nconns /\ c # NoConn
  BY <1>0, OutPositions DEF DownInv, DownOrder, Conn, NoConn
<1>5. ~conn[c].shut
  BY <1>0, <1>4 DEF DownInv, DownOrder, Counted
<1>a. CASE ~outOpen /\ UNCHANGED outq
  <2>1. outq = <<>> /\ outq' = <<>>
    BY <1>a DEF DownInv, DownOrder
  <2>2. DOMAIN outq' = {}
    BY <2>1
  <2>3. ChunksPending' /\ ClosesPending' /\ OutInOrder' /\ ControlsUnbound'
    BY <2>2 DEF ChunksPending, ClosesPending, OutInOrder, ControlsUnbound
  <2>4. NoChunkLost'
    BY <1>0, <1>a DEF NoChunkLost
  <2>5. Counted'
    BY <1>0, <1>3, <1>5, <2>2, OutPositions DEF DownInv, DownOrder, Counted
  <2> QED
    BY <1>0, <1>3, <1>4, <2>1, <2>3, <2>4, <2>5, OutPositions DEF DownInv, DownOrder
<1>b. CASE Emit(m)
  <2>0. /\ m \in Msg /\ m.conn = c /\ m.ty = "CLOSE"
        /\ outq' = Append(outq, m) /\ outOpen
    BY <1>b, OutPositions DEF Msg, Emit, OutRoom
  <2>1. /\ l \in Nat /\ DOMAIN outq = 1 .. l
        /\ DOMAIN outq' = 1 .. l + 1 /\ Len(outq') = l + 1
        /\ \A p \in 1 .. l : outq'[p] = outq[p]
        /\ outq'[l + 1] = m
    BY <2>0, AppendPositions, OutPositions DEF TypeOK
  <2>2. Len(outq) = l
    OBVIOUS
  <2> HIDE DEF m, l
  <2>6. \A p \in 1 .. l : outq[p].conn = c => outq[p].ty = "DATA"
    BY <1>0, <1>4, <2>1, OutPositions
       DEF DownInv, DownOrder, ClosesPending, CloseDue, ControlsUnbound, Msg
  <2> USE <1>0, <1>3, <2>0, <2>1, OutPositions DEF DownInv, DownOrder
  <2>7. ChunksPending'
    BY DEF ChunksPending
  <2>8. ClosesPending'
    BY <1>4, <1>5 DEF ClosesPending, CloseDue
  <2>9. OutInOrder'
    BY <2>2, <2>6 DEF OutInOrder
  <2>10. NoChunkLost'
    BY DEF NoChunkLost, Queued
  <2>11. Counted'
    BY <1>5 DEF Counted
  <2>12. ControlsUnbound'
    BY DEF ControlsUnbound
  <2> QED
    BY <1>4, <2>7, <2>8, <2>9, <2>10, <2>11, <2>12
<1> QED
  BY <1>a, <1>b DEF ReaderEof

\* What the carrier takes is the first message, so the counter it moves stays
\* behind whatever still waits.
LEMMA DownTake ==
  ASSUME TypeOK, DownInv, Take
  PROVE  DownInv'
<1> DEFINE m == outq[1]
           l == Len(outq)
<1>0. outOpen /\ outOpen' /\ nconns' = nconns /\ outq # <<>>
  BY DEF Take
<1>1. /\ l \in Nat \ {0} /\ DOMAIN outq = 1 .. l
      /\ DOMAIN outq' = 1 .. l - 1 /\ Len(outq') = l - 1
      /\ \A p \in 1 .. l - 1 : outq'[p] = outq[p + 1]
      /\ m = Head(outq) /\ m \in Msg /\ 1 \in DOMAIN outq
  BY <1>0, TailPositions DEF Take, TypeOK
<1>2. Len(outq) = l /\ outq[1] = m
  OBVIOUS
<1>3. \A p \in DOMAIN outq' : p + 1 \in DOMAIN outq /\ p + 1 \in 1 + 1 .. l
  BY <1>1
<1>4. \A p \in DOMAIN outq' :
        m.conn = outq[p + 1].conn /\ m.conn # NoConn =>
          m.ty = "DATA" /\ (outq[p + 1].ty = "DATA" => m.n < outq[p + 1].n)
  BY <1>1, <1>3 DEF DownInv, DownOrder, OutInOrder
<1>5. \A c \in Nat, k \in Nat :
        Queued(c, k) /\ ~(m.ty = "DATA" /\ m.conn = c /\ m.n = k) => Queued(c, k)'
  <2> SUFFICES ASSUME NEW c \in Nat, NEW k \in Nat, NEW p \in DOMAIN outq,
                      outq[p].ty = "DATA", outq[p].conn = c, outq[p].n = k,
                      ~(m.ty = "DATA" /\ m.conn = c /\ m.n = k)
               PROVE  Queued(c, k)'
    BY DEF Queued
  <2>1. p - 1 \in DOMAIN outq' /\ outq'[p - 1] = outq[p]
    BY <1>1, <1>2
  <2> QED
    BY <2>1 DEF Queued
<1> HIDE DEF m, l
<1>6. OutInOrder'
  BY <1>1, <1>2, <1>3 DEF DownInv, DownOrder, OutInOrder
<1>7. ControlsUnbound'
  BY <1>1, <1>3 DEF DownInv, ControlsUnbound
<1>8. CASE m.ty = "DATA"
  <2> DEFINE c == m.conn
  <2>1. c \in 1 .. nconns /\ c \in Conn /\ c # NoConn /\ c \in Nat
    BY <1>1, <1>2, <1>8, OutPositions DEF DownInv, DownOrder, ChunksPending, NoConn, Conn
  <2>2. conn' = [conn EXCEPT ![c].got = m.n]
    BY <1>1, <1>8 DEF Take
  <2> HIDE DEF c
  <2>3. /\ \A d \in Conn : d # c => conn'[d] = conn[d]
        /\ conn'[c].read = conn[c].read
        /\ conn'[c].got = m.n /\ conn'[c].made = conn[c].made
        /\ conn'[c].peer = conn[c].peer /\ conn'[c].reader = conn[c].reader
        /\ conn'[c].shut = conn[c].shut
    BY <2>1, <2>2, OutPositions DEF TypeOK, ConnState
  <2>4. conn[c].got < m.n /\ m.n <= conn[c].read /\ m.n \in Nat /\ m.conn = c
    BY <1>1, <1>2, <1>8 DEF DownInv, DownOrder, ChunksPending, c, Msg
  <2> USE <1>0, <1>1, <1>3, <2>1, <2>3, <2>4, OutPositions DEF DownInv, DownOrder
  <2>b. \A p \in DOMAIN outq' : outq'[p] = outq[p + 1] /\ p + 1 \in DOMAIN outq
    OBVIOUS
  <2>5. ChunksPending'
    <3> SUFFICES ASSUME NEW p \in DOMAIN outq', outq'[p].ty = "DATA"
                 PROVE  /\ outq'[p].conn \in 1 .. nconns
                        /\ conn'[outq'[p].conn].got < outq'[p].n
                        /\ outq'[p].n <= conn'[outq'[p].conn].read
      BY DEF ChunksPending
    <3>1. outq'[p] = outq[p + 1] /\ p + 1 \in DOMAIN outq
      OBVIOUS
    <3>2. /\ outq[p + 1].conn \in 1 .. nconns /\ outq[p + 1].n \in Nat
          /\ conn[outq[p + 1].conn].got < outq[p + 1].n
          /\ outq[p + 1].n <= conn[outq[p + 1].conn].read
      BY <3>1 DEF ChunksPending
    <3>3. CASE outq[p + 1].conn = c
      <4>1. m.n < outq[p + 1].n
        BY <1>4, <3>1, <3>3
      <4> QED
        BY <3>1, <3>2, <3>3, <4>1
    <3> QED
      BY <3>1, <3>2, <3>3
  <2>6. ClosesPending'
    <3>1. ASSUME NEW d \in Nat, CloseDue(d) PROVE CloseDue(d)'
      <4>1. d \in Conn /\ d \in 1 .. nconns
        BY <3>1 DEF CloseDue
      <4>2. /\ conn'[d].reader = conn[d].reader /\ conn'[d].shut = conn[d].shut
            /\ conn'[d].peer = conn[d].peer /\ conn'[d].read = conn[d].read
            /\ conn'[d].made = conn[d].made
        BY ONLY <2>3, <4>1
      <4> QED
        BY ONLY <1>0, <3>1, <4>1, <4>2 DEF CloseDue
    <3> QED
      BY <3>1, <2>b DEF ClosesPending, Msg, Conn, NoConn
  <2>7. NoChunkLost'
    <3> SUFFICES ASSUME NEW d \in 1 .. nconns,
                        NEW k \in conn'[d].got + 1 .. conn'[d].read
                 PROVE  Queued(d, k)'
      BY DEF NoChunkLost
    <3>0. /\ d \in Conn /\ d \in Nat /\ conn[d].got \in Nat /\ conn[d].read \in Nat
          /\ k \in conn'[d].got + 1 .. conn'[d].read
      OBVIOUS
    <3>1. k \in Nat /\ k \in conn[d].got + 1 .. conn[d].read /\ ~(d = c /\ k = m.n)
      <4>1. CASE d = c
        BY ONLY <2>3, <2>4, <3>0, <4>1
      <4>2. CASE d # c
        <5>1. conn'[d] = conn[d]
          BY ONLY <2>3, <3>0, <4>2
        <5> QED
          BY ONLY <3>0, <4>2, <5>1
      <4> QED
        BY ONLY <4>1, <4>2
    <3>2. Queued(d, k)
      BY <3>1 DEF NoChunkLost
    <3> QED
      BY <1>5, <3>0, <3>1, <3>2
  <2>8. Counted'
    <3> SUFFICES ASSUME NEW d \in 1 .. nconns
                 PROVE  /\ conn'[d].got <= conn'[d].read
                        /\ conn'[d].read <= conn'[d].made
                        /\ conn'[d].shut =>
                             /\ conn'[d].reader = "ended"
                             /\ \A p \in DOMAIN outq' : outq'[p].conn # d
      BY DEF Counted
    <3>1. d \in Conn /\ conn[d].got <= conn[d].read /\ conn[d].read <= conn[d].made
          /\ conn'[d].shut = conn[d].shut /\ conn'[d].reader = conn[d].reader
          /\ conn'[d].read = conn[d].read /\ conn'[d].made = conn[d].made
      BY DEF Counted
    <3>2. conn'[d].got <= conn'[d].read
      BY <3>1
    <3>3. conn[d].shut =>
            conn[d].reader = "ended" /\ \A p \in DOMAIN outq : outq[p].conn # d
      BY DEF Counted
    <3>4. \A p \in DOMAIN outq' : outq'[p] = outq[p + 1] /\ p + 1 \in DOMAIN outq
      OBVIOUS
    <3> QED
      BY <3>1, <3>2, <3>3, <3>4
  <2> QED
    BY <1>6, <1>7, <2>5, <2>6, <2>7, <2>8
<1>9. CASE m.ty = "CLOSE"
  <2> DEFINE c == m.conn
  <2>1. c \in 1 .. nconns /\ c \in Conn /\ c # NoConn /\ c \in Nat
    BY <1>1, <1>2, <1>9, OutPositions
       DEF DownInv, DownOrder, ClosesPending, CloseDue, NoConn, Conn
  <2>2. conn' = [conn EXCEPT ![c].shut = TRUE]
    BY <1>1, <1>9 DEF Take
  <2> HIDE DEF c
  <2>3. /\ \A d \in Conn : d # c => conn'[d] = conn[d]
        /\ conn'[c].read = conn[c].read
        /\ conn'[c].got = conn[c].got /\ conn'[c].made = conn[c].made
        /\ conn'[c].peer = conn[c].peer /\ conn'[c].reader = conn[c].reader
        /\ conn'[c].shut = TRUE
    BY <2>1, <2>2, OutPositions DEF TypeOK, ConnState
  <2>4. conn[c].reader = "ended" /\ m.conn = c
    BY <1>1, <1>2, <1>9 DEF DownInv, DownOrder, ClosesPending, CloseDue, c
  <2>a. \A p \in DOMAIN outq' : outq'[p].conn # c
    BY <1>1, <1>4, <1>9, <2>1, <2>4
  <2> USE <1>0, <1>1, <1>3, <2>1, <2>3, <2>4, OutPositions DEF DownInv, DownOrder
  <2>b. \A p \in DOMAIN outq' : outq'[p] = outq[p + 1] /\ p + 1 \in DOMAIN outq
    OBVIOUS
  <2>5. ChunksPending'
    <3>1. \A p \in DOMAIN outq' : outq'[p].ty = "DATA" =>
            /\ outq'[p].conn \in 1 .. nconns
            /\ conn[outq'[p].conn].got < outq'[p].n
            /\ outq'[p].n <= conn[outq'[p].conn].read
      BY <2>b DEF ChunksPending
    <3> QED
      BY <2>a, <3>1 DEF ChunksPending
  <2>6. ClosesPending'
    <3>1. \A d \in Nat : CloseDue(d) /\ d # c => CloseDue(d)'
      BY DEF CloseDue
    <3>2. \A p \in DOMAIN outq' : outq'[p].conn \in Nat /\ outq'[p].conn # c
      BY <2>a, <2>b DEF Msg, Conn, NoConn
    <3>3. \A p \in DOMAIN outq' : outq'[p].ty = "CLOSE" => CloseDue(outq'[p].conn)
      BY <2>b DEF ClosesPending
    <3> QED
      BY ONLY <3>1, <3>2, <3>3 DEF ClosesPending
  <2>7. NoChunkLost'
    <3> SUFFICES ASSUME NEW d \in 1 .. nconns,
                        NEW k \in conn'[d].got + 1 .. conn'[d].read
                 PROVE  Queued(d, k)'
      BY DEF NoChunkLost
    <3>0. /\ d \in Conn /\ d \in Nat /\ conn[d].got \in Nat /\ conn[d].read \in Nat
          /\ k \in conn'[d].got + 1 .. conn'[d].read
      OBVIOUS
    <3>1. d \in Nat /\ k \in Nat /\ k \in conn[d].got + 1 .. conn[d].read
      <4>1. conn'[d].got = conn[d].got /\ conn'[d].read = conn[d].read
        BY ONLY <2>3, <3>0
      <4> QED
        BY ONLY <3>0, <4>1
    <3>2. Queued(d, k)
      BY <3>1 DEF NoChunkLost
    <3> QED
      BY <1>5, <1>9, <3>1, <3>2
  <2>8. Counted'
    <3> SUFFICES ASSUME NEW d \in 1 .. nconns
                 PROVE  /\ conn'[d].got <= conn'[d].read
                        /\ conn'[d].read <= conn'[d].made
                        /\ conn'[d].shut =>
                             /\ conn'[d].reader = "ended"
                             /\ \A p \in DOMAIN outq' : outq'[p].conn # d
      BY DEF Counted
    <3>1. d \in Conn /\ conn[d].got <= conn[d].read /\ conn[d].read <= conn[d].made
          /\ conn'[d].got = conn[d].got /\ conn'[d].reader = conn[d].reader
          /\ conn'[d].read = conn[d].read /\ conn'[d].made = conn[d].made
      BY DEF Counted
    <3>2. conn[d].shut =>
            conn[d].reader = "ended" /\ \A p \in DOMAIN outq' : outq'[p].conn # d
      BY <2>b DEF Counted
    <3> QED
      BY <2>a, <3>1, <3>2
  <2> QED
    BY <1>6, <1>7, <2>5, <2>6, <2>7, <2>8
<1>10. CASE m.ty \notin {"DATA", "CLOSE"}
  <2>1. conn' = conn
    BY <1>1, <1>10 DEF Take
  <2> USE <1>0, <1>1, <1>3, <2>1, OutPositions DEF DownInv, DownOrder
  <2>5. ChunksPending'
    BY DEF ChunksPending
  <2>6. ClosesPending'
    BY DEF ClosesPending, CloseDue
  <2>7. NoChunkLost'
    BY <1>5, <1>10 DEF NoChunkLost
  <2>8. Counted'
    BY DEF Counted
  <2> QED
    BY <1>6, <1>7, <2>5, <2>6, <2>7, <2>8
<1> QED
  BY <1>8, <1>9, <1>10

\* A step that touches neither the channel nor the connections.
LEMMA DownStutter ==
  ASSUME TypeOK, DownInv, UNCHANGED <<outq, outOpen, nconns, conn>>
  PROVE  DownInv'
BY DownKept, OutPositions

\* The carrier, the readers and the backends keep the order.
LEMMA DownOthers ==
  ASSUME TypeOK, DownInv, Carrier \/ \E c \in Conn : Reader(c) \/ Backend(c)
  PROVE  DownInv'
<1>1. CASE Take
  BY <1>1, DownTake
<1>2. CASE DropOut
  <2>1. /\ ~outOpen' /\ outq' = <<>> /\ DOMAIN outq' = {}
        /\ UNCHANGED <<nconns, conn>>
    BY <1>2 DEF DropOut
  <2> QED
    BY <2>1 DEF DownInv, DownOrder, ChunksPending, ClosesPending, OutInOrder,
                NoChunkLost, Counted, ControlsUnbound
<1>3. CASE Carrier /\ ~Take /\ ~DropOut
  <2>1. UNCHANGED <<outq, outOpen, nconns, conn>>
    BY <1>3 DEF Carrier, Push, Enqueue, CloseInput
  <2> QED
    BY <2>1, DownStutter
<1>4. ASSUME NEW c \in Conn, ReaderData(c) PROVE DownInv'
  <2>1. CASE ~outOpen /\ UNCHANGED outq
    <3>1. /\ conn' = [conn EXCEPT ![c].reader = "ended"]
          /\ conn[c].reader = "reading" /\ UNCHANGED <<outOpen, nconns>>
      BY <1>4, <2>1 DEF ReaderData, Emit, OutRoom
    <3>2. c \in 1 .. nconns /\ ~conn[c].shut
      BY <3>1, OutPositions DEF DownInv, DownOrder, Counted, Conn
    <3>3. outq = <<>> /\ DOMAIN outq = {}
      BY <2>1 DEF DownInv, DownOrder
    <3>4. \A d \in Conn :
            /\ conn'[d].got = conn[d].got /\ conn'[d].read = conn[d].read
            /\ conn'[d].made = conn[d].made /\ conn'[d].shut = conn[d].shut
            /\ d # c => conn'[d].reader = conn[d].reader
      BY <3>1, OutPositions DEF TypeOK, ConnState
    <3>5. Counted'
      BY <2>1, <3>1, <3>2, <3>3, <3>4, OutPositions DEF DownInv, DownOrder, Counted
    <3>6. /\ ChunksPending' /\ ClosesPending' /\ OutInOrder' /\ ControlsUnbound'
          /\ NoChunkLost'
      BY <2>1, <3>1, <3>3 DEF ChunksPending, ClosesPending, OutInOrder,
                              ControlsUnbound, NoChunkLost
    <3> QED
      BY <2>1, <3>1, <3>2, <3>3, <3>4, <3>5, <3>6, OutPositions
         DEF DownInv, DownOrder
  <2> QED
    BY <1>4, <2>1, DownChunk DEF ReaderData
<1>5. ASSUME NEW c \in Conn, Backend(c) PROVE DownInv'
  <2>1. UNCHANGED <<outq, outOpen, nconns>>
    BY <1>5 DEF Backend, BackendSend, BackendFin, BackendReset
  <2>2. conn[c] \in ConnState /\ conn[c].made \in Nat
    BY OutPositions
  <2>3. /\ conn'[c].got = conn[c].got /\ conn'[c].read = conn[c].read
        /\ conn'[c].shut = conn[c].shut /\ conn'[c].reader = conn[c].reader
        /\ conn'[c].made \in Nat /\ conn[c].made <= conn'[c].made
        /\ conn[c].peer # "open" =>
             /\ conn'[c].peer # "open"
             /\ conn'[c].peer = "fin" => /\ conn[c].peer = "fin"
                                         /\ conn'[c].made = conn[c].made
    <3>1. CASE BackendSend(c)
      BY <2>2, <3>1 DEF TypeOK, ConnState, BackendSend
    <3>2. CASE BackendFin(c)
      BY <2>2, <3>2 DEF TypeOK, ConnState, BackendFin
    <3>3. CASE BackendReset(c)
      BY <2>2, <3>3 DEF TypeOK, ConnState, BackendReset
    <3> QED
      BY <1>5, <3>1, <3>2, <3>3 DEF Backend
  <2>4. \A d \in Conn : d # c => conn'[d] = conn[d]
    BY <1>5 DEF TypeOK, Backend, BackendSend, BackendFin, BackendReset
  <2> QED
    BY <2>1, <2>3, <2>4, OutPositions, DownKept
<1> QED
  BY <1>1, <1>2, <1>3, <1>4, <1>5, DownClose DEF Reader

\* So does the loop: a connection it makes is new to the channel.
LEMMA DownLoop ==
  ASSUME TypeOK, DownInv, Loop
  PROVE  DownInv'
<1>1. CASE SendWelcome
  BY <1>1, DownControl DEF SendWelcome, Resume
<1>2. CASE SendBye
  <2>1. UNCHANGED <<outOpen, nconns, conn>>
    BY <1>2 DEF SendBye
  <2>2. Emit(Control("BYE")) \/ UNCHANGED outq
    BY <1>2 DEF SendBye
  <2> QED
    BY <2>1, <2>2, DownControl, DownStutter
<1>3. CASE ConnectOk
  <2> DEFINE new == nconns + 1
  <2>1. /\ UNCHANGED <<outq, outOpen>> /\ nconns' = new
        /\ conn' = [conn EXCEPT ![new] = Connection(cur.id, cur.n, "reading")]
    BY <1>3 DEF ConnectOk, Resume
  <2>2. new \in Conn
    <3>1. Len(frames) \in Nat
      BY DEF TypeOK
    <3> QED
      BY <1>3, <3>1, SessionAssumption DEF ConnectOk, TypeOK, Suspended, Conn
  <2>3. /\ \A c \in Conn : c # new => conn'[c] = conn[c]
        /\ conn'[new].got = 0 /\ conn'[new].read = 0 /\ conn'[new].made = 0
        /\ conn'[new].shut = FALSE
    BY <2>1, <2>2 DEF TypeOK, Connection
  <2>4. \A p \in DOMAIN outq : outq[p].conn # new
    BY OutPositions DEF DownInv, DownOrder, ChunksPending, ClosesPending,
                        CloseDue, ControlsUnbound, Msg, NoConn
  <2>5. nconns' \in Nat /\ 1 .. nconns' = 1 .. nconns \cup {new}
        /\ \A c \in 1 .. nconns : c # new /\ c \in Conn
    BY <2>1, OutPositions
  <2> HIDE DEF new
  <2> USE <2>1, <2>2, <2>3, <2>5, OutPositions DEF DownInv, DownOrder
  <2>6. ChunksPending'
    BY DEF ChunksPending
  <2>7. ClosesPending'
    <3>1. \A c \in Nat : CloseDue(c) => CloseDue(c)'
      BY DEF CloseDue
    <3> QED
      BY <3>1 DEF ClosesPending, Msg, Conn, NoConn
  <2>8. OutInOrder'
    BY DEF OutInOrder
  <2>9. NoChunkLost'
    <3> SUFFICES ASSUME outOpen, NEW c \in 1 .. nconns',
                        NEW k \in conn'[c].got + 1 .. conn'[c].read
                 PROVE  Queued(c, k)'
      BY DEF NoChunkLost
    <3>1. c # new
      OBVIOUS
    <3>2. Queued(c, k)
      BY <3>1 DEF NoChunkLost
    <3> QED
      BY <3>2 DEF Queued
  <2>10. Counted'
    <3> SUFFICES ASSUME NEW c \in 1 .. nconns'
                 PROVE  /\ conn'[c].got <= conn'[c].read
                        /\ conn'[c].read <= conn'[c].made
                        /\ conn'[c].shut =>
                             /\ conn'[c].reader = "ended"
                             /\ \A p \in DOMAIN outq' : outq'[p].conn # c
      BY DEF Counted
    <3>1. CASE c = new
      BY <3>1
    <3>2. CASE c # new
      <4>1. c \in 1 .. nconns /\ conn'[c] = conn[c]
        BY <3>2
      <4> QED
        BY <4>1 DEF Counted
    <3> QED
      BY <3>1, <3>2
  <2>11. ControlsUnbound'
    BY DEF ControlsUnbound
  <2>12. \A c \in Conn : c > nconns' => conn'[c].reader = "none"
    BY DEF new, Conn
  <2> QED
    BY <2>6, <2>7, <2>8, <2>9, <2>10, <2>11, <2>12
<1>4. CASE WriteOk
  <2>1. UNCHANGED <<outq, outOpen, nconns>>
    BY <1>4 DEF WriteOk, Resume
  <2>2. \A c \in Conn :
          /\ conn'[c].got = conn[c].got /\ conn'[c].read = conn[c].read
          /\ conn'[c].shut = conn[c].shut /\ conn'[c].reader = conn[c].reader
          /\ conn'[c].made = conn[c].made /\ conn'[c].peer = conn[c].peer
    BY <1>4, OutPositions DEF WriteOk, TypeOK, ConnState
  <2> QED
    BY <2>1, <2>2, OutPositions, DownKept
<1>5. ASSUME Fail PROVE DownInv'
  BY <1>5, DownStutter DEF Fail
<1>6. ASSUME Suspend PROVE DownInv'
  BY <1>6, DownStutter DEF Suspend
<1>7. ASSUME Handled PROVE DownInv'
  BY <1>7, DownStutter DEF Handled
<1>8. ASSUME Shutdown PROVE DownInv'
  BY <1>8, DownStutter DEF Shutdown
<1> QED
  BY <1>1, <1>2, <1>3, <1>4, <1>5, <1>6, <1>7, <1>8
     DEF Loop, RecvHello, WelcomeRefused, RecvOpen, ConnectFail, RecvData,
         WriteFail, RecvClose, RecvIgnored, RecvUnexpected, RecvBye, RecvClosed

\* Nothing is read, made or waiting at the start.
LEMMA DownInit == Init => DownInv
<1> SUFFICES ASSUME Init PROVE DownInv
  OBVIOUS
<1>1. outq = <<>> /\ DOMAIN outq = {} /\ nconns = 0 /\ outOpen
  BY DEF Init
<1>2. \A c \in Conn : conn[c].reader = "none"
  BY DEF Init, Unconnected, Connection
<1> QED
  BY <1>1, <1>2 DEF DownInv, DownOrder, ChunksPending, ClosesPending,
                    OutInOrder, NoChunkLost, Counted, ControlsUnbound

\* In every reachable state the channel toward the carrier holds exactly the
\* chunks read and not taken, in order, and a CLOSE only where it is due.
THEOREM DownCorrect == Spec => []DownOrder
<1>1. Init => TypeOK /\ DownInv
  BY TypeInit, DownInit
<1>2. TypeOK /\ DownInv /\ [Next]_vars => TypeOK' /\ DownInv'
  <2> SUFFICES ASSUME TypeOK, DownInv, [Next]_vars PROVE TypeOK' /\ DownInv'
    OBVIOUS
  <2>1. CASE Next
    BY <2>1, TypeLoop, TypeOthers, DownLoop, DownOthers DEF Next
  <2>2. CASE UNCHANGED vars
    <3>1. TypeOK'
      BY <2>2 DEF vars, TypeOK
    <3>2. DownInv'
      BY <2>2, DownStutter DEF vars
    <3> QED
      BY <3>1, <3>2
  <2> QED
    BY <2>1, <2>2
<1>3. DownInv => DownOrder
  BY DEF DownInv
<1> QED
  BY <1>1, <1>2, <1>3, PTL DEF Spec

-----------------------------------------------------------------------------
(* Toward the backend: TypeOK /\ WriterOwnership /\ UpOrder is inductive *)

\* A frame appended as the next of its stream keeps the order, loses nothing
\* and may follow every frame that was pushed before it.
LEMMA OrderAppend ==
  ASSUME NEW s \in Seq(Frame), NEW last \in [Ids \cup {0} -> Nat],
         InOrder(s, last), NEW f \in Frame,
         f.n = IF f.ty = "DATA" THEN last[f.id] + 1 ELSE last[f.id]
  PROVE  LET t == Append(s, f)
             new == [last EXCEPT ![f.id] = f.n]
         IN
         /\ InOrder(t, new)
         /\ \A g \in Frame : Complete(g, s, last) =>
              Complete(g, t, new) /\ Before(g, f)
         /\ \A i \in Ids \cup {0}, n \in Nat : n <= last[i] =>
              /\ n <= new[i]
              /\ f.ty = "DATA" /\ f.id = i => n < f.n
              /\ \A k \in n + 1 .. new[i] :
                   k \in n + 1 .. last[i] \/ Holds(t, i, k)
         /\ \A i, k : Holds(s, i, k) => Holds(t, i, k)
<1> DEFINE l == Len(s)
           t == Append(s, f)
           new == [last EXCEPT ![f.id] = f.n]
<1>1. /\ l \in Nat /\ DOMAIN s = 1 .. l
      /\ DOMAIN t = 1 .. l + 1 /\ Len(t) = l + 1
      /\ \A p \in 1 .. l : t[p] = s[p] /\ s[p] \in Frame
      /\ t[l + 1] = f
  BY AppendPositions
<1>2. Len(s) = l
  OBVIOUS
<1> HIDE DEF l
<1>a. new = [last EXCEPT ![f.id] = f.n]
  OBVIOUS
<1> HIDE DEF t, new
<1>3. /\ f.id \in Ids \cup {0} /\ f.n \in Nat /\ last[f.id] \in Nat
      /\ f.ty = "DATA" => f.n = last[f.id] + 1
      /\ f.ty # "DATA" => f.n = last[f.id]
  BY DEF Frame
<1>4. /\ new[f.id] = f.n
      /\ \A i \in Ids \cup {0} : last[i] \in Nat /\ (i # f.id => new[i] = last[i])
  BY <1>3, <1>a
<1>5. \A i, k : Holds(s, i, k) => Holds(t, i, k)
  BY <1>1 DEF Holds
<1>6. f.ty = "DATA" => Holds(t, f.id, f.n)
  BY <1>1 DEF Holds
<1>7. ASSUME NEW i \in Ids \cup {0}, NEW n \in Nat, n <= last[i]
      PROVE  /\ n <= new[i]
             /\ f.id = i => n <= f.n /\ (f.ty = "DATA" => n < f.n)
             /\ \A k \in n + 1 .. new[i] :
                  k \in n + 1 .. last[i] \/ Holds(t, i, k)
  BY <1>3, <1>4, <1>6, <1>7
<1>8. ASSUME NEW g \in Frame, Complete(g, s, last)
      PROVE  Complete(g, t, new) /\ Before(g, f)
  <2>1. g.id \in Ids \cup {0} /\ g.n \in Nat
    BY DEF Frame
  <2>2. g.n <= last[g.id] /\ \A k \in g.n + 1 .. last[g.id] : Holds(t, g.id, k)
    BY <1>5, <1>8 DEF Complete
  <2> QED
    BY <1>7, <2>1, <2>2 DEF Complete, Before
<1>9. InOrder(t, new)
  <2> SUFFICES ASSUME NEW p \in 1 .. l + 1
               PROVE  /\ Complete(t[p], t, new)
                      /\ \A q \in p + 1 .. l + 1 : Before(t[p], t[q])
    BY <1>1 DEF InOrder
  <2>1. CASE p = l + 1
    BY <1>1, <1>3, <1>4, <2>1 DEF Complete
  <2>2. CASE p \in 1 .. l
    <3>1. t[p] = s[p] /\ s[p] \in Frame /\ Complete(s[p], s, last)
      BY <1>1, <2>2 DEF InOrder
    <3>2. \A q \in p + 1 .. l : t[q] = s[q] /\ Before(s[p], s[q])
      <4>1. \A q \in p + 1 .. Len(s) : Before(s[p], s[q])
        BY <1>1, <2>2 DEF InOrder
      <4>2. \A q \in p + 1 .. l : q \in 1 .. l
        BY <1>1, <2>2
      <4> QED
        BY <1>1, <1>2, <4>1, <4>2
    <3>3. \A q \in p + 1 .. l + 1 : q \in p + 1 .. l \/ q = l + 1
      BY <1>1, <2>2
    <3> QED
      BY <1>1, <1>8, <3>1, <3>2, <3>3
  <2> QED
    BY <1>1, <2>1, <2>2
<1>10. \A i \in Ids \cup {0}, n \in Nat : n <= last[i] =>
         /\ n <= new[i]
         /\ f.ty = "DATA" /\ f.id = i => n < f.n
         /\ \A k \in n + 1 .. new[i] : k \in n + 1 .. last[i] \/ Holds(t, i, k)
  BY <1>7
<1> QED
  BY <1>5, <1>8, <1>9, <1>10 DEF t, new

\* Taking the head loses no other frame; what stays is in order and may follow
\* the head.
LEMMA OrderTail ==
  ASSUME NEW s \in Seq(Frame), NEW last \in [Ids \cup {0} -> Nat],
         InOrder(s, last), s # <<>>
  PROVE  LET t == Tail(s)
             h == Head(s)
         IN
         /\ InOrder(t, last)
         /\ h \in Frame
         /\ Complete(h, t, last)
         /\ \A q \in DOMAIN t : Before(h, t[q])
         /\ \A i, k : Holds(s, i, k) =>
              \/ Holds(t, i, k)
              \/ h.ty = "DATA" /\ h.id = i /\ h.n = k
         /\ \A q \in DOMAIN t : \E p \in DOMAIN s : t[q] = s[p]
<1> DEFINE l == Len(s)
           t == Tail(s)
           h == Head(s)
<1>1. /\ l \in Nat \ {0} /\ DOMAIN s = 1 .. l
      /\ DOMAIN t = 1 .. l - 1 /\ Len(t) = l - 1
      /\ \A p \in 1 .. l - 1 : t[p] = s[p + 1]
      /\ \A p \in 1 .. l : s[p] \in Frame
      /\ h = s[1] /\ h \in Frame
  BY TailPositions
<1>2. Len(s) = l
  OBVIOUS
<1> HIDE DEF l
<1> HIDE DEF t, h
<1>3. \A q \in 1 .. l - 1 : q + 1 \in 2 .. l /\ q + 1 \in 1 .. l /\ t[q] = s[q + 1]
  BY <1>1
<1>4. \A f \in Frame : f.n \in Nat /\ f.id \in Ids \cup {0} /\ last[f.id] \in Nat
  BY DEF Frame
<1>5. ASSUME NEW i, NEW k, Holds(s, i, k)
      PROVE  \/ Holds(t, i, k)
             \/ h.ty = "DATA" /\ h.id = i /\ h.n = k
  <2>1. PICK p \in 1 .. l : s[p].ty = "DATA" /\ s[p].id = i /\ s[p].n = k
    BY <1>1, <1>5 DEF Holds
  <2>2. CASE p = 1
    BY <1>1, <2>1, <2>2
  <2>3. CASE p # 1
    <3>1. p - 1 \in 1 .. l - 1 /\ t[p - 1] = s[p]
      BY <1>1, <2>3
    <3> QED
      BY <1>1, <2>1, <3>1 DEF Holds
  <2> QED
    BY <2>2, <2>3
<1>6. \A q \in 1 .. l - 1 : Before(h, t[q])
  <2>1. \A q \in 1 + 1 .. l : Before(s[1], s[q])
    BY <1>1, <1>2 DEF InOrder
  <2> QED
    BY <1>1, <1>3, <2>1
<1>7. ASSUME NEW g \in Frame, Complete(g, s, last), g = h \/ Before(h, g)
      PROVE  Complete(g, t, last)
  <2>1. g.n \in Nat /\ h.n \in Nat /\ last[g.id] \in Nat
    BY <1>1, <1>4
  <2>2. ASSUME NEW k \in g.n + 1 .. last[g.id] PROVE Holds(t, g.id, k)
    <3>1. Holds(s, g.id, k) /\ k > g.n
      BY <1>7, <2>1 DEF Complete
    <3>2. ~(h.id = g.id /\ h.n = k)
      BY <1>7, <2>1, <3>1 DEF Before
    <3> QED
      BY <1>5, <3>1, <3>2
  <2> QED
    BY <1>7, <2>2 DEF Complete
<1>8. Complete(h, t, last)
  BY <1>1, <1>7 DEF InOrder
<1>9. InOrder(t, last)
  <2> SUFFICES ASSUME NEW p \in 1 .. l - 1
               PROVE  /\ Complete(t[p], t, last)
                      /\ \A q \in p + 1 .. l - 1 : Before(t[p], t[q])
    BY <1>1 DEF InOrder
  <2>1. t[p] = s[p + 1] /\ s[p + 1] \in Frame /\ p + 1 \in 1 .. l
    BY <1>1, <1>3
  <2>2. Complete(t[p], t, last)
    BY <1>1, <1>6, <1>7, <2>1 DEF InOrder
  <2>3. \A q \in (p + 1) + 1 .. l : Before(s[p + 1], s[q])
    BY <1>1, <1>2, <2>1 DEF InOrder
  <2>4. \A q \in p + 1 .. l - 1 : t[q] = s[q + 1] /\ q + 1 \in (p + 1) + 1 .. l
    BY <1>1
  <2> QED
    BY <2>1, <2>2, <2>3, <2>4
<1>10. \A q \in DOMAIN t : \E p \in DOMAIN s : t[q] = s[p]
  BY <1>1, <1>3
<1> QED
  BY <1>1, <1>5, <1>6, <1>8, <1>9, <1>10 DEF t, h

-----------------------------------------------------------------------------
\* Two open streams never share a connection.
LEMMA OwnConnection ==
  ASSUME TypeOK, WriterOwnership, NEW i \in OpenStreams, NEW j \in OpenStreams,
         streams[i] = streams[j]
  PROVE  i = j
BY DEF WriterOwnership

\* The frames, the counters and the connections of open streams.
LEMMA InTypes ==
  ASSUME TypeOK
  PROVE  /\ frames \in Seq(Frame) /\ sent \in [Ids \cup {0} -> Nat]
         /\ \A f \in Frame : f.n \in Nat /\ f.id \in Ids \cup {0}
         /\ \A c \in Conn : conn[c].wrote \in Nat /\ conn[c].base \in Nat
         /\ \A i \in OpenStreams : i \in Ids /\ streams[i] \in Conn
         /\ loop = "busy" => cur \in Frame
<1>1. /\ frames \in Seq(Frame) /\ sent \in [Ids \cup {0} -> Nat]
      /\ conn \in [Conn -> ConnState]
      /\ loop = "busy" => cur \in Frame
  BY DEF TypeOK
<1> QED
  BY <1>1, OpenFinite DEF Frame, ConnState

\* A step that leaves the frame channel alone, opens no stream, writes nothing
\* and drops no DATA frame of an open stream.
LEMMA UpKept ==
  ASSUME TypeOK, UpOrder, UNCHANGED <<frames, sent>>,
         OpenStreams' \subseteq OpenStreams,
         \A i \in OpenStreams' : streams'[i] = streams[i],
         \A c \in Conn : /\ conn'[c].wrote = conn[c].wrote
                         /\ conn'[c].base = conn[c].base,
         \/ UNCHANGED <<loop, cur>>
         \/ /\ loop' # "busy" /\ cur'.ty # "DATA"
            /\ cur.ty = "DATA" => OpenStreams' = {}
  PROVE  UpOrder'
<1>1. InOrder(frames', sent')
  BY DEF UpOrder
<1>2. CurrentFirst'
  BY DEF UpOrder, CurrentFirst
<1>3. ASSUME NEW i \in OpenStreams'
      PROVE  /\ conn'[streams'[i]].base <= conn'[streams'[i]].wrote
             /\ Written(i, conn'[streams'[i]].wrote, cur', frames', sent')
  <2>1. /\ i \in OpenStreams /\ streams'[i] = streams[i] /\ streams[i] \in Conn
        /\ conn'[streams[i]].wrote = conn[streams[i]].wrote
        /\ conn'[streams[i]].base = conn[streams[i]].base
    BY <1>3, InTypes
  <2>2. /\ conn[streams[i]].base <= conn[streams[i]].wrote
        /\ Written(i, conn[streams[i]].wrote, cur, frames, sent)
    BY <2>1 DEF UpOrder, WrittenSoFar
  <2>3. cur' = cur \/ (cur'.ty # "DATA" /\ cur.ty # "DATA")
    BY <1>3
  <2> QED
    BY <2>1, <2>2, <2>3 DEF Written
<1> QED
  BY <1>1, <1>2, <1>3 DEF UpOrder, WrittenSoFar

\* A session on its way out has nothing left to write.
LEMMA UpEnds ==
  ASSUME loop' # "busy", OpenStreams' = {}, frames' = <<>>
  PROVE  UpOrder'
BY DEF UpOrder, InOrder, CurrentFirst, WrittenSoFar

\* The frame pushed is the next of its stream.
LEMMA UpPush ==
  ASSUME TypeOK, UpOrder, NEW f \in Frame, f.n = Position(f.ty, f.id), Enqueue(f)
  PROVE  UpOrder'
<1>1. /\ frames' = Append(frames, f) /\ sent' = [sent EXCEPT ![f.id] = f.n]
      /\ UNCHANGED <<loop, cur, streams, conn>>
      /\ OpenStreams' = OpenStreams
  BY DEF Enqueue, OpenStreams
<1>0. f \in Frame
  OBVIOUS
<1>2. f.n = IF f.ty = "DATA" THEN sent[f.id] + 1 ELSE sent[f.id]
  BY DEF Position
<1>3. InOrder(frames, sent) /\ frames \in Seq(Frame)
      /\ sent \in [Ids \cup {0} -> Nat]
  BY InTypes DEF UpOrder
<1>4. /\ InOrder(frames', sent')
      /\ \A g \in Frame : Complete(g, frames, sent) =>
           Complete(g, frames', sent') /\ Before(g, f)
      /\ \A i \in Ids \cup {0}, n \in Nat : n <= sent[i] =>
           /\ n <= sent'[i]
           /\ f.ty = "DATA" /\ f.id = i => n < f.n
           /\ \A k \in n + 1 .. sent'[i] :
                k \in n + 1 .. sent[i] \/ Holds(frames', i, k)
      /\ \A i, k : Holds(frames, i, k) => Holds(frames', i, k)
  BY <1>0, <1>1, <1>2, <1>3, OrderAppend
<1>5. \A q \in DOMAIN frames' : frames'[q] = f \/
        (q \in DOMAIN frames /\ frames'[q] = frames[q])
  BY <1>1, <1>3, AppendPositions
<1>6. CurrentFirst'
  BY <1>1, <1>4, <1>5, InTypes DEF UpOrder, CurrentFirst
<1>7. ASSUME NEW i \in OpenStreams
      PROVE  /\ conn[streams[i]].base <= conn[streams[i]].wrote
             /\ Written(i, conn[streams[i]].wrote, cur, frames', sent')
  <2> DEFINE w == conn[streams[i]].wrote
  <2>1. i \in Ids \cup {0} /\ w \in Nat
    BY InTypes
  <2>2. conn[streams[i]].base <= w /\ Written(i, w, cur, frames, sent)
    BY DEF UpOrder, WrittenSoFar
  <2> HIDE DEF w
  <2>3. w <= sent'[i] /\ (f.ty = "DATA" /\ f.id = i => w < f.n)
        /\ \A k \in w + 1 .. sent'[i] : k \in w + 1 .. sent[i] \/ Holds(frames', i, k)
    BY <1>4, <2>1, <2>2 DEF Written
  <2>4. Written(i, w, cur, frames', sent')
    BY <1>4, <1>5, <2>2, <2>3 DEF Written
  <2> QED
    BY <2>2, <2>4 DEF w
<1> QED
  BY <1>1, <1>4, <1>6, <1>7 DEF UpOrder, WrittenSoFar

\* A frame that is taken is suspended on, or was no DATA frame.
LEMMA UpTaken ==
  ASSUME TypeOK, UpOrder, loop = "recv", frames # <<>>, frames' = Tail(frames),
         UNCHANGED <<sent, conn>>,
         OpenStreams' \subseteq OpenStreams,
         \A i \in OpenStreams' : streams'[i] = streams[i],
         \/ loop' = "busy" /\ cur' = Head(frames)
         \/ loop' # "busy" /\ cur' = cur /\ Head(frames).ty # "DATA"
  PROVE  UpOrder'
<1>0. cur.ty # "DATA"
  BY DEF TypeOK, NoFrame
<1>1. InOrder(frames, sent) /\ frames \in Seq(Frame)
      /\ sent \in [Ids \cup {0} -> Nat]
  BY InTypes DEF UpOrder
<1> DEFINE h == Head(frames)
<1>2. /\ InOrder(frames', sent)
      /\ Complete(h, frames', sent)
      /\ \A q \in DOMAIN frames' : Before(h, frames'[q])
      /\ \A i, k : Holds(frames, i, k) =>
           \/ Holds(frames', i, k)
           \/ h.ty = "DATA" /\ h.id = i /\ h.n = k
      /\ \A q \in DOMAIN frames' : \E p \in DOMAIN frames : frames'[q] = frames[p]
  BY <1>1, OrderTail
<1>3. 1 \in DOMAIN frames /\ h = frames[1]
  BY <1>1, TailPositions
<1>a. loop' = "busy" => cur' = h
  OBVIOUS
<1>b. cur' = h \/ (cur'.ty # "DATA" /\ h.ty # "DATA")
  BY <1>0
<1> HIDE DEF h
<1>4. CurrentFirst'
  BY <1>2, <1>a DEF CurrentFirst
<1>5. ASSUME NEW i \in OpenStreams'
      PROVE  /\ conn'[streams'[i]].base <= conn'[streams'[i]].wrote
             /\ Written(i, conn'[streams'[i]].wrote, cur', frames', sent')
  <2> DEFINE w == conn[streams[i]].wrote
  <2>1. conn[streams[i]].base <= w /\ Written(i, w, cur, frames, sent)
    BY DEF UpOrder, WrittenSoFar
  <2>2. conn' = conn /\ streams'[i] = streams[i] /\ sent' = sent
    OBVIOUS
  <2> HIDE DEF w
  <2>3. Written(i, w, cur', frames', sent)
    BY <1>0, <1>2, <1>3, <1>b, <2>1 DEF Written
  <2> QED
    BY <2>1, <2>2, <2>3 DEF w
<1> QED
  BY <1>2, <1>4, <1>5 DEF UpOrder, WrittenSoFar

\* The carrier, the readers and the backends keep the order.
LEMMA UpOthers ==
  ASSUME TypeOK, UpOrder, Carrier \/ \E c \in Conn : Reader(c) \/ Backend(c)
  PROVE  UpOrder'
<1>1. ASSUME NEW ty \in FrameTypes, NEW i \in Ids \cup {0},
             Push([ty |-> ty, id |-> i, n |-> Position(ty, i)])
      PROVE  UpOrder'
  <2> DEFINE f == [ty |-> ty, id |-> i, n |-> Position(ty, i)]
  <2>1. f \in Frame /\ f.n = Position(f.ty, f.id)
    BY InTypes DEF Frame, Position
  <2> QED
    BY <1>1, <2>1, UpPush DEF Push
<1>2. ASSUME UNCHANGED <<frames, sent, loop, cur, streams>>,
             \A c \in Conn : /\ conn'[c].wrote = conn[c].wrote
                             /\ conn'[c].base = conn[c].base
      PROVE  UpOrder'
  <2>1. OpenStreams' = OpenStreams
    BY <1>2 DEF OpenStreams
  <2> QED
    BY <1>2, <2>1, UpKept
<1>3. CASE CloseInput \/ DropOut
  BY <1>2, <1>3 DEF CloseInput, DropOut
<1>4. CASE Take
  BY <1>2, <1>4 DEF Take, TypeOK, ConnState
<1>5. ASSUME NEW c \in Conn, Reader(c) PROVE UpOrder'
  <2>1. conn[c] \in ConnState
    BY DEF TypeOK
  <2>2. /\ [conn[c] EXCEPT !.read = @ + 1].wrote = conn[c].wrote
        /\ [conn[c] EXCEPT !.read = @ + 1].base = conn[c].base
        /\ [conn[c] EXCEPT !.reader = "ended"].wrote = conn[c].wrote
        /\ [conn[c] EXCEPT !.reader = "ended"].base = conn[c].base
    BY <2>1 DEF ConnState
  <2>3. \/ conn' = [conn EXCEPT ![c].read = @ + 1]
        \/ conn' = [conn EXCEPT ![c].reader = "ended"]
    BY <1>5 DEF Reader, ReaderData, ReaderEof
  <2>4. \A d \in Conn : conn'[d].wrote = conn[d].wrote /\ conn'[d].base = conn[d].base
    BY <2>2, <2>3 DEF TypeOK
  <2> QED
    BY <1>2, <1>5, <2>4 DEF Reader, ReaderData, ReaderEof
<1>6. ASSUME NEW c \in Conn, Backend(c) PROVE UpOrder'
  <2>1. conn[c] \in ConnState
    BY DEF TypeOK
  <2>2. /\ [conn[c] EXCEPT !.made = @ + 1].wrote = conn[c].wrote
        /\ [conn[c] EXCEPT !.made = @ + 1].base = conn[c].base
        /\ \A e \in {"fin", "reset"} :
             /\ [conn[c] EXCEPT !.peer = e].wrote = conn[c].wrote
             /\ [conn[c] EXCEPT !.peer = e].base = conn[c].base
    BY <2>1 DEF ConnState
  <2>3. conn' = [conn EXCEPT ![c].made = @ + 1]
        \/ \E e \in {"fin", "reset"} : conn' = [conn EXCEPT ![c].peer = e]
    BY <1>6 DEF Backend, BackendSend, BackendFin, BackendReset
  <2>4. \A d \in Conn : conn'[d].wrote = conn[d].wrote /\ conn'[d].base = conn[d].base
    BY <2>2, <2>3 DEF TypeOK
  <2> QED
    BY <1>2, <1>6, <2>4 DEF Backend, BackendSend, BackendFin, BackendReset
<1> QED
  BY <1>1, <1>3, <1>4, <1>5, <1>6 DEF Carrier, FrameTypes

\* So does the loop: a frame it is suspended on is neither lost nor overtaken,
\* and what a new connection has to get is what comes after its OPEN.
LEMMA UpLoop ==
  ASSUME TypeOK, WriterOwnership, UpOrder, Loop
  PROVE  UpOrder'
<1>1. ASSUME Fail PROVE UpOrder'
  <2>1. OpenStreams' = {}
    BY <1>1 DEF Fail, OpenStreams, NoStreams
  <2> QED
    BY <1>1, <2>1, UpEnds DEF Fail
<1>2. ASSUME Suspend, loop = "recv", frames # <<>> PROVE UpOrder'
  <2>1. OpenStreams' = OpenStreams
    BY <1>2 DEF Suspend, OpenStreams
  <2> QED
    BY <1>2, <2>1, UpTaken DEF Suspend
<1>3. CASE RecvHello \/ RecvOpen \/ RecvData
  BY <1>1, <1>2, <1>3 DEF RecvHello, RecvOpen, RecvData, Receive
<1>4. CASE SendWelcome
  <2>1. OpenStreams' = OpenStreams
    BY <1>4 DEF SendWelcome, OpenStreams
  <2> QED
    BY <1>4, <2>1, UpKept DEF SendWelcome, Suspended, Resume, NoFrame
<1>5. CASE WelcomeRefused \/ ConnectFail \/ WriteFail \/ RecvUnexpected
  BY <1>1, <1>5 DEF WelcomeRefused, ConnectFail, WriteFail, RecvUnexpected
<1>6. CASE ConnectOk
  <2> DEFINE new == nconns + 1
  <2>1. /\ loop = "busy" /\ cur \in Frame /\ cur.ty = "OPEN"
        /\ cur.id \in Ids /\ cur.id \notin OpenStreams
        /\ loop' = "recv" /\ cur' = NoFrame /\ UNCHANGED <<frames, sent>>
        /\ streams' = [streams EXCEPT ![cur.id] = new]
        /\ conn' = [conn EXCEPT ![new] = Connection(cur.id, cur.n, "reading")]
    BY <1>6, InTypes DEF ConnectOk, Suspended, Resume, WriterOwnership
  <2>2. new \in Conn /\ new # NoConn
    <3>1. Len(frames) \in Nat
      BY DEF TypeOK
    <3> QED
      BY <2>1, <3>1, SessionAssumption DEF TypeOK, Conn, NoConn
  <2>3. /\ \A c \in Conn : c # new => conn'[c] = conn[c]
        /\ conn'[new].wrote = cur.n /\ conn'[new].base = cur.n
        /\ streams'[cur.id] = new
        /\ \A i \in Ids : i # cur.id => streams'[i] = streams[i]
    BY <2>1, <2>2 DEF TypeOK, Connection
  <2>4. OpenStreams' = OpenStreams \cup {cur.id}
    BY <2>1, <2>2, <2>3 DEF OpenStreams
  <2>5. InOrder(frames', sent') /\ CurrentFirst'
    BY <2>1 DEF UpOrder, CurrentFirst
  <2>6. ASSUME NEW i \in OpenStreams'
        PROVE  /\ conn'[streams'[i]].base <= conn'[streams'[i]].wrote
               /\ Written(i, conn'[streams'[i]].wrote, cur', frames', sent')
    <3>1. CASE i = cur.id
      <4>1. /\ Complete(cur, frames, sent) /\ cur.n \in Nat
            /\ \A q \in DOMAIN frames : Before(cur, frames[q])
        BY <2>1, InTypes DEF UpOrder, CurrentFirst
      <4>2. Written(cur.id, cur.n, NoFrame, frames, sent)
        BY <2>1, <4>1 DEF Written, Complete, Before, NoFrame
      <4> QED
        BY <2>1, <2>3, <3>1, <4>1, <4>2
    <3>2. CASE i # cur.id
      <4>1. /\ i \in OpenStreams /\ streams'[i] = streams[i] /\ streams[i] \in Conn
            /\ streams[i] <= nconns
        BY <2>3, <2>4, <3>2, InTypes DEF WriterOwnership
      <4>2. conn'[streams[i]] = conn[streams[i]]
        BY <2>3, <4>1 DEF TypeOK, Conn
      <4>3. /\ conn[streams[i]].base <= conn[streams[i]].wrote
            /\ Written(i, conn[streams[i]].wrote, cur, frames, sent)
        BY <4>1 DEF UpOrder, WrittenSoFar
      <4> QED
        BY <2>1, <4>1, <4>2, <4>3 DEF Written, NoFrame
    <3> QED
      BY <3>1, <3>2
  <2> QED
    BY <2>5, <2>6 DEF UpOrder, WrittenSoFar
<1>7. CASE WriteOk
  <2> DEFINE c == streams[cur.id]
  <2>1. /\ loop = "busy" /\ cur \in Frame /\ cur.ty = "DATA"
        /\ cur.id \in OpenStreams /\ c \in Conn
        /\ loop' = "recv" /\ cur' = NoFrame /\ UNCHANGED <<frames, sent, streams>>
        /\ conn' = [conn EXCEPT ![c].wrote = cur.n]
        /\ OpenStreams' = OpenStreams
    BY <1>7, InTypes DEF WriteOk, Suspended, Resume, WriterOwnership, OpenStreams
  <2> HIDE DEF c
  <2>2. /\ \A d \in Conn : d # c => conn'[d] = conn[d]
        /\ conn'[c].wrote = cur.n /\ conn'[c].base = conn[c].base
    BY <2>1 DEF TypeOK, ConnState
  <2>3. InOrder(frames', sent') /\ CurrentFirst'
    BY <2>1 DEF UpOrder, CurrentFirst
  <2>4. ASSUME NEW i \in OpenStreams
        PROVE  /\ conn'[streams[i]].base <= conn'[streams[i]].wrote
               /\ Written(i, conn'[streams[i]].wrote, cur', frames, sent)
    <3>0. /\ conn[streams[i]].base <= conn[streams[i]].wrote
          /\ Written(i, conn[streams[i]].wrote, cur, frames, sent)
          /\ streams[i] \in Conn
      BY InTypes DEF UpOrder, WrittenSoFar
    <3>1. CASE i = cur.id
      <4>1. /\ Complete(cur, frames, sent) /\ cur.n \in Nat
            /\ \A q \in DOMAIN frames : Before(cur, frames[q])
        BY <2>1, InTypes DEF UpOrder, CurrentFirst
      <4>2. Written(cur.id, cur.n, NoFrame, frames, sent)
        BY <2>1, <4>1 DEF Written, Complete, Before, NoFrame
      <4>3. /\ conn[c].wrote < cur.n /\ conn[c].base <= conn[c].wrote
            /\ conn[c].wrote \in Nat /\ conn[c].base \in Nat
        BY <2>1, <3>0, <3>1, InTypes DEF Written, c
      <4> QED
        BY <2>1, <2>2, <3>1, <4>1, <4>2, <4>3 DEF c
    <3>2. CASE i # cur.id
      <4>1. streams[i] # c
        BY <2>1, <3>2, OwnConnection DEF c
      <4> QED
        BY <2>1, <2>2, <3>0, <3>2, <4>1 DEF Written, NoFrame
    <3> QED
      BY <3>1, <3>2
  <2> QED
    BY <2>1, <2>3, <2>4 DEF UpOrder, WrittenSoFar
<1>8. CASE RecvClose
  <2>1. /\ OpenStreams' \subseteq OpenStreams
        /\ \A i \in OpenStreams' : streams'[i] = streams[i]
    BY <1>8 DEF RecvClose, OpenStreams
  <2> QED
    BY <1>8, <2>1, UpTaken DEF RecvClose, Receive, Handled
<1>9. CASE RecvIgnored
  <2>1. OpenStreams' = OpenStreams
    BY <1>9 DEF RecvIgnored, OpenStreams
  <2> QED
    BY <1>9, <2>1, UpTaken DEF RecvIgnored, Receive, Handled
<1>10. CASE RecvBye
  <2>1. OpenStreams' = {}
    BY <1>10 DEF RecvBye, Shutdown, OpenStreams, NoStreams
  <2> QED
    BY <1>10, <2>1, UpTaken DEF RecvBye, Receive, Shutdown
<1>11. CASE RecvClosed
  <2>1. OpenStreams' = {}
    BY <1>11 DEF RecvClosed, Shutdown, OpenStreams, NoStreams
  <2>2. cur.ty # "DATA"
    BY <1>11 DEF RecvClosed, TypeOK, NoFrame
  <2> QED
    BY <1>11, <2>1, <2>2, UpKept DEF RecvClosed, Shutdown
<1>12. CASE SendBye
  <2>1. OpenStreams' = {}
    BY <1>12 DEF SendBye, WriterOwnership, OpenStreams
  <2> QED
    BY <1>12, <2>1, UpEnds DEF SendBye
<1> QED
  BY <1>3, <1>4, <1>5, <1>6, <1>7, <1>8, <1>9, <1>10, <1>11, <1>12 DEF Loop

\* A stuttering step.
LEMMA UpStutter ==
  ASSUME TypeOK, WriterOwnership, UpOrder, UNCHANGED vars
  PROVE  TypeOK' /\ WriterOwnership' /\ UpOrder'
<1>1. TypeOK'
  BY DEF vars, TypeOK
<1>2. WriterOwnership'
  BY OwnershipKept DEF vars
<1>3. OpenStreams' = OpenStreams
  BY DEF vars, OpenStreams
<1>4. UpOrder'
  BY <1>3, UpKept DEF vars
<1> QED
  BY <1>1, <1>2, <1>4

\* Nothing is pushed or open at the start.
LEMMA UpInit == Init => UpOrder
<1> SUFFICES ASSUME Init PROVE UpOrder
  OBVIOUS
<1>1. OpenStreams = {} /\ frames = <<>> /\ loop = "recv"
  BY DEF Init, OpenStreams, NoStreams
<1> QED
  BY <1>1 DEF UpOrder, InOrder, CurrentFirst, WrittenSoFar

\* In every reachable state no DATA frame pushed for an open stream is lost,
\* written twice or overtaken by another of its stream.
THEOREM UpCorrect == Spec => []UpOrder
<1>1. Init => TypeOK /\ WriterOwnership /\ UpOrder
  BY TypeInit, OwnershipInit, UpInit
<1>2. TypeOK /\ WriterOwnership /\ UpOrder /\ [Next]_vars =>
        TypeOK' /\ WriterOwnership' /\ UpOrder'
  <2> SUFFICES ASSUME TypeOK, WriterOwnership, UpOrder, [Next]_vars
               PROVE  TypeOK' /\ WriterOwnership' /\ UpOrder'
    OBVIOUS
  <2>1. CASE Next
    BY <2>1, TypeLoop, TypeOthers, OwnershipLoop, OwnershipOthers, UpLoop,
       UpOthers DEF Next
  <2>2. CASE UNCHANGED vars
    BY <2>2, UpStutter
  <2> QED
    BY <2>1, <2>2
<1> QED
  BY <1>1, <1>2, PTL DEF Spec

-----------------------------------------------------------------------------
(* The session keeps the promise of Mux: every step maps to a step of Mux or *)
(* to none at all                                                            *)

\* The refinement mapping of Promised.  A connection as the pipe of Mux it
\* stands for:
Seen(r) ==
  [id |-> r.id, up |-> r.wrote - r.base, peer |-> r.peer, sent |-> r.made,
   down |-> r.got, reported |-> r.shut]
\* The pipe of connection c.
PipeOf(c) == Seen(conn[c])
\* All of them.
PipesOf == [c \in Conn |-> PipeOf(c)]
\* The session is over.
Over == loop \in {"bye"} \cup Ended

\* A step the mapping does not see.
LEMMA Unseen ==
  ASSUME UNCHANGED <<streams, nconns, outOpen, Over>>,
         \A c \in Conn : PipeOf(c)' = PipeOf(c)
  PROVE  UNCHANGED Promised!mvars
BY DEF Promised!mvars, PipeOf, Seen, Over

\* A step that changes one pipe.
LEMMA OnePipe ==
  ASSUME NEW c \in Conn, NEW r, PipeOf(c)' = r,
         \A d \in Conn : d # c => PipeOf(d)' = PipeOf(d)
  PROVE  PipesOf' = [PipesOf EXCEPT ![c] = r]
BY DEF PipesOf

\* The fields of a pipe are those of the connection.
LEMMA PipeFields ==
  ASSUME NEW c \in Conn
  PROVE  /\ PipesOf[c] = PipeOf(c)
         /\ PipeOf(c).peer = conn[c].peer /\ PipeOf(c).sent = conn[c].made
         /\ PipeOf(c).down = conn[c].got /\ PipeOf(c).reported = conn[c].shut
         /\ PipeOf(c).up = conn[c].wrote - conn[c].base
BY DEF PipesOf, PipeOf, Seen

\* The first message of the channel is what Mux hands over next.
LEMMA TakeRefines ==
  ASSUME TypeOK, DownInv, Take
  PROVE  [Promised!Next]_(Promised!mvars)
<1> DEFINE m == outq[1]
<1>0. PICK c : c = m.conn
  OBVIOUS
<1>1. /\ outOpen /\ outq \in Seq(Msg) /\ outq # <<>> /\ m = Head(outq) /\ m \in Msg
      /\ 1 \in DOMAIN outq /\ DOMAIN outq = 1 .. Len(outq) /\ Len(outq) \in Nat
      /\ UNCHANGED <<streams, nconns, loop, outOpen>>
  BY TailPositions DEF Take, TypeOK
<1>2. \A q \in DOMAIN outq : q # 1 /\ outq[q].conn = c /\ c # NoConn =>
        m.ty = "DATA" /\ (outq[q].ty = "DATA" => m.n < outq[q].n)
  <2>1. \A q \in DOMAIN outq : q # 1 => q \in 1 + 1 .. Len(outq)
    BY <1>1
  <2> QED
    BY <1>0, <1>1, <2>1 DEF DownInv, DownOrder, OutInOrder
<1>3. CASE m.ty = "DATA"
  <2>1. /\ c \in 1 .. nconns /\ c \in Conn /\ c \in Nat /\ c # NoConn
        /\ conn[c].got < m.n /\ m.n <= conn[c].read /\ m.n \in Nat
        /\ conn[c] \in ConnState /\ conn[c].got \in Nat /\ conn[c].read \in Nat
        /\ conn[c].made \in Nat
    BY <1>0, <1>1, <1>3, OutPositions DEF DownInv, DownOrder, ChunksPending, NoConn, Msg
  <2>2. m.n = conn[c].got + 1
    <3> SUFFICES ASSUME m.n # conn[c].got + 1 PROVE FALSE
      OBVIOUS
    <3>1. conn[c].got + 1 \in conn[c].got + 1 .. conn[c].read
      BY <2>1
    <3>2. Queued(c, conn[c].got + 1)
      BY <1>1, <2>1, <3>1 DEF DownInv, DownOrder, NoChunkLost
    <3>3. PICK q \in DOMAIN outq : outq[q].ty = "DATA" /\ outq[q].conn = c
                                   /\ outq[q].n = conn[c].got + 1
      BY <3>2 DEF Queued
    <3>4. q # 1
      BY <3>3
    <3>5. m.n < conn[c].got + 1
      BY <1>2, <2>1, <3>3, <3>4
    <3> QED
      BY <2>1, <3>5
  <2>3. conn[c].read <= conn[c].made /\ ~conn[c].shut
    BY <1>0, <1>1, <2>1 DEF DownInv, DownOrder, Counted
  <2>4. conn' = [conn EXCEPT ![c].got = m.n]
    BY <1>0, <1>1, <1>3 DEF Take
  <2> HIDE DEF m
  <2>5. \A d \in Conn : d # c => PipeOf(d)' = PipeOf(d)
    BY <2>1, <2>4 DEF TypeOK, PipeOf
  <2>6. PipeOf(c)' = [PipeOf(c) EXCEPT !.down = @ + 1]
    <3>1. conn'[c] = [conn[c] EXCEPT !.got = m.n]
      BY <2>1, <2>4 DEF TypeOK
    <3>2. Seen(conn'[c]) = [Seen(conn[c]) EXCEPT !.down = m.n]
      BY <2>1, <3>1 DEF Seen, ConnState
    <3> QED
      BY <2>2, <3>2 DEF PipeOf, Seen
  <2>7. PipesOf' = [PipesOf EXCEPT ![c].down = @ + 1]
    <3>1. PipesOf' = [PipesOf EXCEPT ![c] = [PipeOf(c) EXCEPT !.down = @ + 1]]
      BY <2>1, <2>5, <2>6, OnePipe
    <3> QED
      BY <2>1, <3>1, PipeFields
  <2>8. Promised!Down(c)
    <3>1. ~PipesOf[c].reported /\ PipesOf[c].down < PipesOf[c].sent
      BY <2>1, <2>3, PipeFields
    <3> QED
      BY <1>1, <2>7, <3>1 DEF Promised!Down, PipesOf, PipeOf, Seen, Over
  <2> QED
    BY <2>1, <2>8 DEF Promised!Next
<1>4. CASE m.ty = "CLOSE"
  <2>1. /\ CloseDue(c) /\ c \in 1 .. nconns /\ c \in Conn /\ c \in Nat /\ c # NoConn
        /\ conn[c] \in ConnState /\ conn[c].got \in Nat /\ conn[c].read \in Nat
    BY <1>0, <1>1, <1>4, OutPositions
       DEF DownInv, DownOrder, ClosesPending, CloseDue, NoConn
  <2>2. \A k \in conn[c].got + 1 .. conn[c].read : FALSE
    <3> SUFFICES ASSUME NEW k \in conn[c].got + 1 .. conn[c].read PROVE FALSE
      OBVIOUS
    <3>1. Queued(c, k)
      BY <1>1, <2>1 DEF DownInv, DownOrder, NoChunkLost
    <3> QED
      BY <1>2, <1>4, <2>1, <3>1 DEF Queued
  <2>3. conn[c].got = conn[c].read
    <3>1. conn[c].got <= conn[c].read
      BY <2>1 DEF DownInv, DownOrder, Counted
    <3> QED
      BY <2>1, <2>2, <3>1
  <2>4. conn' = [conn EXCEPT ![c].shut = TRUE]
    BY <1>0, <1>1, <1>4 DEF Take
  <2> HIDE DEF m
  <2>5. \A d \in Conn : d # c => PipeOf(d)' = PipeOf(d)
    BY <2>1, <2>4 DEF TypeOK, PipeOf
  <2>6. PipeOf(c)' = [PipeOf(c) EXCEPT !.reported = TRUE]
    <3>1. conn'[c] = [conn[c] EXCEPT !.shut = TRUE]
      BY <2>1, <2>4 DEF TypeOK
    <3> QED
      <4>1. ASSUME NEW e
            PROVE  Seen([conn[c] EXCEPT !.shut = e])
                     = [Seen(conn[c]) EXCEPT !.reported = e]
        BY <2>1 DEF Seen, ConnState
      <4> QED
        BY <3>1, <4>1 DEF PipeOf
  <2>7. PipesOf' = [PipesOf EXCEPT ![c].reported = TRUE]
    <3>1. PipesOf' = [PipesOf EXCEPT ![c] = [PipeOf(c) EXCEPT !.reported = TRUE]]
      BY <2>1, <2>5, <2>6, OnePipe
    <3> QED
      BY <2>1, <3>1, PipeFields
  <2>8. Promised!Report(c)
    <3>1. /\ ~PipesOf[c].reported
          /\ \/ PipesOf[c].peer = "fin" /\ PipesOf[c].down = PipesOf[c].sent
             \/ PipesOf[c].peer = "reset"
      BY <2>1, <2>3, PipeFields DEF CloseDue, ConnState
    <3> QED
      BY <1>1, <2>7, <3>1 DEF Promised!Report, PipesOf, PipeOf, Seen, Over
  <2> QED
    BY <2>1, <2>8 DEF Promised!Next
<1>5. CASE m.ty \notin {"DATA", "CLOSE"}
  <2>1. conn' = conn
    BY <1>1, <1>5 DEF Take
  <2> QED
    BY <1>1, <2>1, Unseen DEF PipeOf, Over
<1> QED
  BY <1>3, <1>4, <1>5

\* A backend sends, ends or resets as the backend of its pipe.
LEMMA BackendRefines ==
  ASSUME TypeOK, NEW c \in Conn, Backend(c)
  PROVE  Promised!Next
<1>1. /\ c <= nconns /\ conn[c] \in ConnState /\ PipesOf[c] = PipeOf(c)
      /\ UNCHANGED <<streams, nconns, loop, outOpen>>
      /\ \A d \in Conn : d # c => conn'[d] = conn[d]
  BY PipeFields DEF Backend, BackendSend, BackendFin, BackendReset, TypeOK
<1>2. \A d \in Conn : d # c => PipeOf(d)' = PipeOf(d)
  BY <1>1 DEF PipeOf
<1>3. CASE BackendSend(c)
  <2>1. PipeOf(c)' = [PipeOf(c) EXCEPT !.sent = @ + 1]
    <3>1. conn'[c] = [conn[c] EXCEPT !.made = conn[c].made + 1]
      BY <1>3 DEF BackendSend, TypeOK
    <3> QED
      BY <1>1, <3>1 DEF PipeOf, Seen, ConnState
  <2>2. PipesOf' = [PipesOf EXCEPT ![c].sent = @ + 1]
    <3>1. PipesOf' = [PipesOf EXCEPT ![c] = [PipeOf(c) EXCEPT !.sent = @ + 1]]
      BY <1>2, <2>1, OnePipe
    <3> QED
      BY <1>1, <3>1
  <2>3. PipesOf[c].peer = "open"
    BY <1>3, PipeFields DEF BackendSend
  <2> QED
    BY <1>1, <2>2, <2>3 DEF Promised!Next, Promised!Backend, PipesOf, PipeOf, Seen, Over
<1>4. CASE BackendFin(c)
  <2>1. PipeOf(c)' = [PipeOf(c) EXCEPT !.peer = "fin"]
    <3>1. conn'[c] = [conn[c] EXCEPT !.peer = "fin"]
      BY <1>4 DEF BackendFin, TypeOK
    <3> QED
      BY <1>1, <3>1 DEF PipeOf, Seen, ConnState
  <2>2. PipesOf' = [PipesOf EXCEPT ![c].peer = "fin"]
    <3>1. PipesOf' = [PipesOf EXCEPT ![c] = [PipeOf(c) EXCEPT !.peer = "fin"]]
      BY <1>2, <2>1, OnePipe
    <3> QED
      BY <1>1, <3>1
  <2>3. PipesOf[c].peer = "open"
    BY <1>4, PipeFields DEF BackendFin
  <2> QED
    BY <1>1, <2>2, <2>3 DEF Promised!Next, Promised!Backend, PipesOf, PipeOf, Seen, Over
<1>5. CASE BackendReset(c)
  <2>1. PipeOf(c)' = [PipeOf(c) EXCEPT !.peer = "reset"]
    <3>1. conn'[c] = [conn[c] EXCEPT !.peer = "reset"]
      BY <1>5 DEF BackendReset, TypeOK
    <3> QED
      BY <1>1, <3>1 DEF PipeOf, Seen, ConnState
  <2>2. PipesOf' = [PipesOf EXCEPT ![c].peer = "reset"]
    <3>1. PipesOf' = [PipesOf EXCEPT ![c] = [PipeOf(c) EXCEPT !.peer = "reset"]]
      BY <1>2, <2>1, OnePipe
    <3> QED
      BY <1>1, <3>1
  <2>3. PipesOf[c].peer # "reset"
    BY <1>5, PipeFields DEF BackendReset
  <2> QED
    BY <1>1, <2>2, <2>3 DEF Promised!Next, Promised!Backend, PipesOf, PipeOf, Seen, Over
<1> QED
  BY <1>3, <1>4, <1>5 DEF Backend

\* What a reader reads or how it ends cannot be told from outside.
LEMMA ReaderRefines ==
  ASSUME TypeOK, NEW c \in Conn, Reader(c)
  PROVE  UNCHANGED Promised!mvars
<1>1. conn[c] \in ConnState /\ UNCHANGED <<streams, nconns, loop, outOpen>>
  BY DEF TypeOK, Reader, ReaderData, ReaderEof
<1>2. /\ Seen([conn[c] EXCEPT !.read = @ + 1]) = Seen(conn[c])
      /\ Seen([conn[c] EXCEPT !.reader = "ended"]) = Seen(conn[c])
  BY <1>1 DEF Seen, ConnState
<1>3. \/ conn' = [conn EXCEPT ![c].read = @ + 1]
      \/ conn' = [conn EXCEPT ![c].reader = "ended"]
  BY DEF Reader, ReaderData, ReaderEof
<1>4. \A d \in Conn : PipeOf(d)' = PipeOf(d)
  BY <1>2, <1>3 DEF TypeOK, PipeOf
<1> QED
  BY <1>1, <1>4, Unseen DEF Over

\* A session that fails or shuts down ends.
LEMMA EndRefines ==
  ASSUME loop \in {"recv", "busy"}, loop' \in {"bye", "failed"},
         streams' = NoStreams, UNCHANGED <<nconns, conn, outOpen>>
  PROVE  Promised!Next
<1>1. Promised!Closed = NoStreams
  BY DEF Promised!Closed, NoStreams, NoConn
<1>2. ~Over /\ Over'
  BY DEF Over, Ended
<1>3. PipesOf' = PipesOf
  BY DEF PipesOf, PipeOf
<1>4. Promised!End
  BY <1>1, <1>2, <1>3 DEF Promised!End, Over, PipesOf, PipeOf, Seen
<1> QED
  BY <1>4 DEF Promised!Next

\* The connection of an OPEN is a new pipe, of a stream that has none.
LEMMA OpenRefines ==
  ASSUME TypeOK, WriterOwnership, ConnectOk
  PROVE  Promised!Next
<1>1. PICK i \in Ids : i = cur.id
  BY DEF ConnectOk, WriterOwnership
<1>n. PICK new : new = nconns + 1
  OBVIOUS
<1>2. /\ loop = "busy" /\ loop' = "recv" /\ cur \in Frame /\ cur.n \in Nat
      /\ i \notin OpenStreams /\ Cardinality(OpenStreams) + 1 <= MaxStreams
      /\ nconns' = new /\ streams' = [streams EXCEPT ![i] = new]
      /\ conn' = [conn EXCEPT ![new] = Connection(i, cur.n, "reading")]
      /\ outOpen' = outOpen
  BY <1>1, <1>n, InTypes DEF ConnectOk, Suspended, Resume, WriterOwnership
<1>3. new \in Conn
  <2>1. Len(frames) \in Nat
    BY DEF TypeOK
  <2> QED
    BY <1>2, <1>n, <2>1, SessionAssumption DEF TypeOK, Conn
<1>4. Promised!Used = OpenStreams /\ streams[i] = 0
  BY <1>2 DEF Promised!Used, OpenStreams, NoConn
<1>5. Cardinality(Promised!Used) < MaxStreams
  BY <1>2, <1>4, OpenFinite, SessionAssumption
<1>6. PipesOf' = [PipesOf EXCEPT ![new] = [Promised!Fresh EXCEPT !.id = i]]
  <2>1. PipeOf(new)' = [Promised!Fresh EXCEPT !.id = i]
    <3>1. conn'[new] = Connection(i, cur.n, "reading")
      BY <1>2, <1>3 DEF TypeOK
    <3>2. Seen(Connection(i, cur.n, "reading")) = [Promised!Fresh EXCEPT !.id = i]
      <4>1. cur.n - cur.n = 0
        BY <1>2
      <4>2. Seen(Connection(i, cur.n, "reading"))
              = [id |-> i, up |-> 0, peer |-> "open", sent |-> 0, down |-> 0,
                 reported |-> FALSE]
        BY <4>1, Zenon DEF Seen, Connection
      <4>3. [Promised!Fresh EXCEPT !.id = i]
              = [id |-> i, up |-> 0, peer |-> "open", sent |-> 0, down |-> 0,
                 reported |-> FALSE]
        <5>1. PICK f : f = FALSE
          OBVIOUS
        <5>2. PICK r : r = Promised!Fresh
          OBVIOUS
        <5>3. r = [id |-> 0, up |-> 0, peer |-> "open", sent |-> 0, down |-> 0,
                   reported |-> f]
          BY <5>1, <5>2 DEF Promised!Fresh
        <5>4. [r EXCEPT !.id = i]
                = [id |-> i, up |-> 0, peer |-> "open", sent |-> 0, down |-> 0,
                   reported |-> f]
          BY <5>3
        <5> QED
          BY <5>1, <5>2, <5>4
      <4> QED
        BY <4>2, <4>3
    <3> QED
      BY <3>1, <3>2 DEF PipeOf
  <2>2. \A d \in Conn : d # new => PipeOf(d)' = PipeOf(d)
    BY <1>2, <1>3 DEF TypeOK, PipeOf
  <2> QED
    BY <1>3, <2>1, <2>2 DEF PipesOf
<1>7. ~Over /\ ~Over'
  BY <1>2 DEF Over, Ended
<1>8. Promised!Open(i)
  <2>1. PipesOf' = [PipesOf EXCEPT ![nconns + 1] = [Promised!Fresh EXCEPT !.id = i]]
    BY <1>6, <1>n
  <2>2. nconns' = nconns + 1 /\ streams' = [streams EXCEPT ![i] = nconns + 1]
    BY <1>2, <1>n
  <2>3. UNCHANGED <<Over, ~outOpen>> /\ ~Over
    BY <1>2, <1>7 DEF Over
  <2> HIDE DEF Promised!Fresh
  <2>4. Promised!Cardinality(Promised!Used) = Cardinality(Promised!Used)
    BY DEF Promised!Cardinality, Cardinality
  <2> QED
    BY <1>4, <1>5, <2>1, <2>2, <2>3, <2>4
       DEF Promised!Open, Over, PipesOf, PipeOf, Seen
<1> QED
  BY <1>8 DEF Promised!Next

\* The frame written is the next of its stream.
LEMMA WriteRefines ==
  ASSUME TypeOK, WriterOwnership, UpOrder, WriteOk
  PROVE  Promised!Next
<1>1. PICK i \in OpenStreams : i = cur.id
  BY DEF WriteOk, WriterOwnership
<1>2. PICK c \in Conn : c = streams[i]
  BY InTypes
<1>3. /\ loop = "busy" /\ loop' = "recv" /\ cur \in Frame /\ cur.ty = "DATA"
      /\ cur.n \in Nat /\ conn' = [conn EXCEPT ![c].wrote = cur.n]
      /\ UNCHANGED <<streams, nconns, outOpen>>
      /\ conn[c] \in ConnState /\ conn[c].wrote \in Nat /\ conn[c].base \in Nat
      /\ i \in Ids /\ streams[i] # 0 /\ sent[i] \in Nat
  BY <1>1, <1>2, InTypes
     DEF WriteOk, Suspended, Resume, TypeOK, OpenStreams, NoConn
<1>4. cur.n = conn[c].wrote + 1
  <2>1. /\ Complete(cur, frames, sent)
        /\ \A q \in DOMAIN frames : Before(cur, frames[q])
    BY <1>3 DEF UpOrder, CurrentFirst
  <2>2. Written(i, conn[c].wrote, cur, frames, sent)
    BY <1>1, <1>2 DEF UpOrder, WrittenSoFar
  <2>3. conn[c].wrote < cur.n /\ cur.n <= sent[i]
    BY <1>1, <1>3, <2>1, <2>2 DEF Written, Complete
  <2> SUFFICES ASSUME cur.n # conn[c].wrote + 1 PROVE FALSE
    OBVIOUS
  <2>4. conn[c].wrote + 1 \in conn[c].wrote + 1 .. sent[i] /\ conn[c].wrote + 1 < cur.n
    BY <1>3, <2>3
  <2>5. Holds(frames, i, conn[c].wrote + 1)
    BY <2>2, <2>4 DEF Written
  <2>6. PICK q \in DOMAIN frames : frames[q].ty = "DATA" /\ frames[q].id = i
                                  /\ frames[q].n = conn[c].wrote + 1
    BY <2>5 DEF Holds
  <2>7. cur.n < conn[c].wrote + 1
    BY <1>1, <2>1, <2>6 DEF Before
  <2> QED
    BY <1>3, <2>4, <2>7
<1>5. PipesOf' = [PipesOf EXCEPT ![c].up = @ + 1]
  <2>1. \A d \in Conn : d # c => PipeOf(d)' = PipeOf(d)
    BY <1>3 DEF TypeOK, PipeOf
  <2>2. conn'[c] = [conn[c] EXCEPT !.wrote = cur.n]
    BY <1>3 DEF TypeOK
  <2>3. Seen([conn[c] EXCEPT !.wrote = cur.n]) = [Seen(conn[c]) EXCEPT !.up = @ + 1]
    BY <1>3, <1>4 DEF Seen, ConnState
  <2>4. PipesOf' = [PipesOf EXCEPT ![c] = [PipeOf(c) EXCEPT !.up = @ + 1]]
    BY <2>1, <2>2, <2>3, OnePipe DEF PipeOf
  <2> QED
    BY <2>4, PipeFields
<1>6. ~Over /\ ~Over'
  BY <1>3 DEF Over, Ended
<1>7. Promised!Up(i)
  BY <1>2, <1>3, <1>5, <1>6 DEF Promised!Up, Over, PipesOf, PipeOf, Seen
<1> QED
  BY <1>3, <1>7 DEF Promised!Next

\* Every step of the loop is a step of Mux or cannot be told from outside.
LEMMA LoopRefines ==
  ASSUME TypeOK, WriterOwnership, UpOrder, Loop
  PROVE  [Promised!Next]_(Promised!mvars)
<1>1. ASSUME Fail, loop \in {"recv", "busy"} PROVE Promised!Next
  BY <1>1, EndRefines DEF Fail
<1>2. ASSUME UNCHANGED <<streams, nconns, conn, outOpen>>,
             loop \in {"recv", "busy"}, loop' \in {"recv", "busy"}
      PROVE  UNCHANGED Promised!mvars
  BY <1>2, Unseen DEF PipeOf, Over, Ended
<1>3. CASE RecvHello \/ RecvOpen \/ RecvData
  BY <1>1, <1>2, <1>3 DEF RecvHello, RecvOpen, RecvData, Receive, Suspend
<1>4. CASE SendWelcome
  BY <1>2, <1>4 DEF SendWelcome, Suspended, Resume
<1>5. CASE WelcomeRefused \/ ConnectFail \/ WriteFail \/ RecvUnexpected
  BY <1>1, <1>5 DEF WelcomeRefused, ConnectFail, WriteFail, RecvUnexpected,
                    Suspended, Receive
<1>6. CASE RecvClose
  <2>1. PICK i : i = Head(frames).id
    OBVIOUS
  <2>2. /\ streams' = [j \in Ids |-> IF j = i THEN NoConn ELSE streams[j]]
        /\ UNCHANGED <<nconns, conn, loop, outOpen>> /\ loop = "recv"
        /\ streams \in [Ids -> Conn \cup {NoConn}]
    BY <1>6, <2>1 DEF RecvClose, Receive, Handled, TypeOK
  <2>3. CASE i \in OpenStreams
    <3>1. /\ i \in Ids /\ streams[i] # 0
          /\ streams' = [streams EXCEPT ![i] = 0]
      BY <2>2, <2>3 DEF OpenStreams, NoConn
    <3>2. PipesOf' = PipesOf /\ Over' = Over
      BY <2>2 DEF PipesOf, PipeOf, Over
    <3>3. Promised!Close(i)
      BY <2>2, <3>1, <3>2 DEF Promised!Close, Over, PipesOf, PipeOf, Seen
    <3> QED
      BY <3>1, <3>3 DEF Promised!Next
  <2>4. CASE i \notin OpenStreams
    <3>1. streams' = streams
      BY <2>2, <2>4 DEF OpenStreams
    <3> QED
      BY <1>2, <2>2, <3>1
  <2> QED
    BY <2>3, <2>4
<1>7. CASE RecvIgnored
  BY <1>2, <1>7 DEF RecvIgnored, Receive, Handled
<1>8. CASE RecvBye \/ RecvClosed
  BY <1>8, EndRefines DEF RecvBye, RecvClosed, Receive, Shutdown
<1>9. CASE SendBye
  BY <1>9, Unseen DEF SendBye, PipeOf, Over, Ended
<1> QED
  BY <1>3, <1>4, <1>5, <1>6, <1>7, <1>8, <1>9, OpenRefines, WriteRefines DEF Loop

\* So is every step of the carrier, of a reader and of a backend.
LEMMA OthersRefine ==
  ASSUME TypeOK, DownInv, Carrier \/ \E c \in Conn : Reader(c) \/ Backend(c)
  PROVE  [Promised!Next]_(Promised!mvars)
<1>1. CASE DropOut
  <2>1. outOpen /\ ~outOpen' /\ UNCHANGED <<streams, nconns, conn, loop>>
    BY <1>1 DEF DropOut
  <2>2. PipesOf' = PipesOf /\ Over' = Over
    BY <2>1 DEF PipesOf, PipeOf, Over
  <2>3. Promised!Leave
    BY <2>1, <2>2 DEF Promised!Leave, Over, PipesOf, PipeOf, Seen
  <2> QED
    BY <2>3 DEF Promised!Next
<1>2. CASE Carrier /\ ~DropOut /\ ~Take
  <2>1. UNCHANGED <<streams, nconns, conn, loop, outOpen>>
    BY <1>2 DEF Carrier, Push, Enqueue, CloseInput
  <2> QED
    BY <2>1, Unseen DEF PipeOf, Over
<1> QED
  BY <1>1, <1>2, TakeRefines, ReaderRefines, BackendRefines

-----------------------------------------------------------------------------
(* For a carrier that may push any frame at all *)

\* What does not depend on the numbers the frames carry.
Sound == TypeOK /\ WriterOwnership /\ DownInv

LEMMA SoundInit == Init => Sound /\ UpOrder
BY TypeInit, OwnershipInit, DownInit, UpInit DEF Sound

LEMMA SoundNext ==
  ASSUME Sound, [Next]_vars
  PROVE  Sound'
<1>1. CASE Next
  BY <1>1, TypeLoop, TypeOthers, OwnershipLoop, OwnershipOthers, DownLoop, DownOthers
     DEF Next, Sound
<1>2. CASE UNCHANGED vars
  <2>1. TypeOK'
    BY <1>2 DEF Sound, vars, TypeOK
  <2>2. WriterOwnership'
    BY <1>2, OwnershipKept DEF Sound, vars
  <2>3. DownInv'
    BY <1>2, DownStutter DEF Sound, vars
  <2> QED
    BY <2>1, <2>2, <2>3 DEF Sound
<1> QED
  BY <1>1, <1>2

LEMMA SoundEnqueue ==
  ASSUME Sound, NEW f \in Frame, Enqueue(f)
  PROVE  Sound'
<1>1. UNCHANGED <<loop, cur, streams, nconns, conn, outq, outOpen>>
  BY DEF Enqueue
<1>2. TypeOK'
  BY TypeEnqueue DEF Sound
<1>3. WriterOwnership'
  BY <1>1, OwnershipKept DEF Sound
<1>4. DownInv'
  BY <1>1, DownStutter DEF Sound
<1> QED
  BY <1>2, <1>3, <1>4 DEF Sound

\* And what does, for one that pushes what is expected.
LEMMA UpNext ==
  ASSUME Sound, UpOrder, [Next]_vars
  PROVE  UpOrder'
<1>1. CASE Next
  BY <1>1, UpLoop, UpOthers DEF Next, Sound
<1>2. CASE UNCHANGED vars
  BY <1>2, UpStutter DEF Sound
<1> QED
  BY <1>1, <1>2

-----------------------------------------------------------------------------
(* The promise *)

LEMMA PromiseInit == Init => Promised!Init
<1> SUFFICES ASSUME Init PROVE Promised!Init
  OBVIOUS
<1>1. streams = Promised!Closed
  BY DEF Init, NoStreams, NoConn, Promised!Closed
<1>2. PipesOf = [c \in Conn |-> Promised!Fresh]
  BY DEF Init, PipesOf, PipeOf, Seen, Unconnected, Connection, Promised!Fresh
<1>3. ~Over
  BY DEF Init, Over, Ended
<1> QED
  BY <1>1, <1>2, <1>3 DEF Init, Promised!Init, Over, PipesOf, PipeOf, Seen

\* A step from a state in which the frames are in order is one of Mux or none.
LEMMA PromiseNext ==
  ASSUME Sound, UpOrder, [Next]_vars
  PROVE  [Promised!Next]_(Promised!mvars)
<1>1. TypeOK /\ WriterOwnership /\ UpOrder /\ DownInv
  BY DEF Sound
<1>2. CASE Next
  BY <1>1, <1>2, LoopRefines, OthersRefine DEF Next
<1>3. CASE UNCHANGED vars
  BY <1>3, Unseen DEF vars, PipeOf, Over
<1> QED
  BY <1>2, <1>3

\* What such a carrier forwards changes nothing of the promise.
LEMMA PromiseEnqueue ==
  ASSUME NEW f, Enqueue(f)
  PROVE  UNCHANGED Promised!mvars
<1>1. UNCHANGED <<streams, nconns, conn, loop, outOpen>>
  BY DEF Enqueue
<1> QED
  BY <1>1 DEF Promised!mvars, Ended

\* Whatever happens in its channels, its handler and its tasks, the session is
\* to its client a set of numbered pipes: an OPEN makes a pipe only for a
\* stream that has none, DATA goes up one by one in order, chunks come down
\* one by one in order, and an end is reported once, after the last chunk.
THEOREM PromiseKept == Spec => KeepsPromise
<1>1. Init => Sound /\ UpOrder /\ Promised!Init
  BY SoundInit, PromiseInit
<1>2. Sound /\ UpOrder /\ [Next]_vars => Sound' /\ UpOrder'
  BY SoundNext, UpNext
<1>3. Sound /\ UpOrder /\ [Next]_vars => [Promised!Next]_(Promised!mvars)
  BY PromiseNext
<1> QED
  BY <1>1, <1>2, <1>3, PTL DEF Spec, KeepsPromise, Promised!Spec
=============================================================================
