------------------------------- MODULE Lanes -------------------------------
(***************************************************************************)
(* The page in the websocket-lanes carrier (src/res/bridge_ref.html):      *)
(* every stream is a lane with a websocket and a queue of its own, opened  *)
(* by its OPEN frame and ended by the end of its socket.  The messages of  *)
(* the application are taken frame by frame; a frame is one byte long, as  *)
(* in BridgePage.tla, which this module stands beside: a page runs in one  *)
(* mode.  Lanes start once the session is there (phase "done").            *)
(*                                                                         *)
(* Sockets, and the relay behind them, are external: they open, fail, take *)
(* what is buffered, deliver frames of their lane and end at any time.     *)
(***************************************************************************)
EXTENDS BridgePage, FiniteSets

CONSTANTS
  LaneIds,     \* stream identifiers the application uses
  LaneLimit,   \* frames one lane may hold (laneItemLimit)
  ClosedLimit, \* closed lanes remembered (closedLaneLimit, 4096)
  MaxPosts     \* bound: frames the application posts

ASSUME LanesAssumption ==
  /\ LaneIds \subseteq Nat \ {0} /\ IsFiniteSet(LaneIds)
  /\ LaneLimit \in Nat /\ ClosedLimit \in Nat \ {0} /\ MaxPosts \in Nat

VARIABLES
  lanes,   \* lanes: the live ones, by id
  queued,  \* queuedItems
  order,   \* closedLaneOrder; closedLanes holds the same
  posts,   \* frames posted
  told     \* per id, who said that its last lane ended: the application,
           \* the relay, the page (notify); each time

lvars == <<lanes, queued, order, posts, told>>

\* A lane: frames posted into it; its queue; taken by the socket; socket,
\* "connecting", "open" or "gone"; bufferedAmount; timer; the flags.
NewLane == [count |-> 0, pending |-> <<>>, sent |-> <<>>, socket |-> "connecting",
            buffered |-> 0, timer |-> FALSE, opened |-> FALSE,
            localClosed |-> FALSE, remoteClosed |-> FALSE]

LInit ==
  /\ \/ PInit
     \/ /\ mode = "websocket-lanes" /\ phase = "done" /\ arrived = 0 /\ early = FALSE
        /\ pending = <<>> /\ q = EmptyQueue /\ closed = FALSE
  /\ lanes = [i \in {} |-> NewLane]
  /\ queued = 0 /\ order = <<>> /\ posts = 0
  /\ told = [i \in LaneIds |-> <<>>]

Live == DOMAIN lanes
SetLane(i, l) == [j \in Live \cup {i} |-> IF j = i THEN l ELSE lanes[j]]
ClosedLanes == {order[n] : n \in DOMAIN order}
Running == mode = "websocket-lanes" /\ ~closed

Fail == closed' = TRUE /\ UNCHANGED <<lanes, queued, order>>

-----------------------------------------------------------------------------
(* runWebSocketLaneUp *)

\* Mutant: a lane whose socket is full is not looked at again.
LaneUpNoTimer(l) ==
  IF l.socket # "open" \/ l.pending = <<>> \/ l.buffered >= BatchLimit
  THEN [lane |-> l, released |-> 0]
  ELSE LET n == IF Len(l.pending) < BatchLimit THEN Len(l.pending) ELSE BatchLimit
       IN [released |-> n,
           lane |-> [l EXCEPT !.pending = SubSeq(@, n + 1, Len(@)),
                              !.sent = @ \o SubSeq(l.pending, 1, n),
                              !.buffered = @ + n]]

\* One body, unless the socket is full.  A body that leaves something behind
\* has filled it: the microtask then sets the timer.
LaneUp(l) ==
  IF l.socket # "open" \/ l.pending = <<>> THEN [lane |-> l, released |-> 0]
  ELSE IF l.buffered >= BatchLimit THEN [lane |-> [l EXCEPT !.timer = TRUE], released |-> 0]
  ELSE LET n == IF Len(l.pending) < BatchLimit THEN Len(l.pending) ELSE BatchLimit
       IN [released |-> n,
           lane |-> [l EXCEPT !.pending = SubSeq(@, n + 1, Len(@)),
                              !.sent = @ \o SubSeq(l.pending, 1, n),
                              !.buffered = @ + n,
                              !.timer = @ \/ n < Len(l.pending)]]

RunLaneUp(i, l) ==
  /\ lanes' = SetLane(i, LaneUp(l).lane)
  /\ queued' = queued - LaneUp(l).released

-----------------------------------------------------------------------------
(* queueWebSocketLane *)

Refused(ty, i) == i \notin Live /\ (i \in ClosedLanes \/ ty # "OPEN")

\* bufferedAmount of the open sockets.
Buffered == Cardinality({p \in LaneIds \X (1 .. QueueLimit) :
                           /\ p[1] \in Live /\ lanes[p[1]].socket = "open"
                           /\ p[2] <= lanes[p[1]].buffered})

\* reserve, for the page and for the lane.
Full(l) ==
  \/ queued + Buffered >= QueueLimit \/ queued >= ItemLimit
  \/ Len(l.pending) >= LaneLimit

\* The frame joins its lane, which an OPEN makes.
Enter(ty, i) ==
  LET old == IF i \in Live THEN lanes[i] ELSE NewLane
      l == [old EXCEPT !.count = @ + 1, !.pending = Append(@, old.count + 1),
                       !.localClosed = @ \/ ty = "CLOSE"]
  IN /\ lanes' = SetLane(i, LaneUp(l).lane)
     /\ queued' = queued + 1 - LaneUp(l).released
     /\ told' = [told EXCEPT ![i] =
          (IF i \in Live THEN @ ELSE <<>>)
            \o (IF ty = "CLOSE" /\ ~old.localClosed THEN <<"application">> ELSE <<>>)]
     /\ UNCHANGED <<order, closed>>

\* A late frame of a lane that has ended is dropped; any other frame outside a
\* lane fails, and so does a full queue.
queueWebSocketLane(ty, i) ==
  /\ Running /\ posts < MaxPosts
  /\ posts' = posts + 1
  /\ IF i \notin Live /\ ty \in {"DATA", "CLOSE", "WINDOW"}
     THEN UNCHANGED <<lanes, queued, order, closed, told>>
     ELSE IF Refused(ty, i) \/ Full(IF i \in Live THEN lanes[i] ELSE NewLane)
     THEN Fail /\ UNCHANGED told
     ELSE Enter(ty, i)

-----------------------------------------------------------------------------
(* The socket of a lane *)

SocketOpens(i) ==
  /\ Running /\ i \in Live /\ lanes[i].socket = "connecting"
  /\ RunLaneUp(i, [lanes[i] EXCEPT !.socket = "open", !.opened = TRUE])
  /\ UNCHANGED <<order, posts, closed, told>>

\* The connection ends, or is never made; onclose follows.
SocketEnds(i) ==
  /\ Running /\ i \in Live /\ lanes[i].socket # "gone"
  /\ lanes' = [lanes EXCEPT ![i].socket = "gone", ![i].buffered = 0]
  /\ UNCHANGED <<queued, order, posts, closed, told>>

LaneDrains(i) ==
  /\ Running /\ i \in Live
  /\ \E left \in 0 .. lanes[i].buffered - 1 :
       lanes' = [lanes EXCEPT ![i].buffered = left]
  /\ UNCHANGED <<queued, order, posts, closed, told>>

LaneTimer(i) ==
  /\ Running /\ i \in Live /\ lanes[i].timer
  /\ RunLaneUp(i, [lanes[i] EXCEPT !.timer = FALSE])
  /\ UNCHANGED <<order, posts, closed, told>>

\* onmessage: a CLOSE of the relay is passed on; a frame of another lane fails.
RelayClose(i) ==
  /\ Running /\ i \in Live /\ lanes[i].socket = "open" /\ ~lanes[i].remoteClosed
  /\ lanes' = [lanes EXCEPT ![i].remoteClosed = TRUE]
  /\ told' = [told EXCEPT ![i] = Append(@, "relay")]
  /\ UNCHANGED <<queued, order, posts, closed>>

CrossLane(i) ==
  /\ Running /\ i \in Live /\ lanes[i].socket = "open"
  /\ Fail
  /\ UNCHANGED <<posts, told>>

\* A full list forgets the lane that was closed first.
rememberLaneClosed(i) ==
  Append(IF Len(order) = ClosedLimit THEN Tail(order) ELSE order, i)

\* Mutant: what the lane holds is not released.
finishKeepingQueued(i, notify) ==
  /\ lanes' = [j \in Live \ {i} |-> lanes[j]]
  /\ order' = rememberLaneClosed(i)
  /\ told' = IF notify THEN [told EXCEPT ![i] = Append(@, "page")] ELSE told
  /\ UNCHANGED queued

finishWebSocketLane(i, notify) ==
  /\ lanes' = [j \in Live \ {i} |-> lanes[j]]
  /\ queued' = queued - Len(lanes[i].pending)
  /\ order' = rememberLaneClosed(i)
  /\ told' = IF notify THEN [told EXCEPT ![i] = Append(@, "page")] ELSE told

\* Mutant: only a CLOSE of the relay keeps the page from telling the end.
OnCloseTellsTwice(i) ==
  /\ Running /\ i \in Live /\ lanes[i].socket = "gone"
  /\ IF ~lanes[i].opened THEN Fail /\ UNCHANGED told
     ELSE finishWebSocketLane(i, ~lanes[i].remoteClosed) /\ UNCHANGED closed
  /\ UNCHANGED posts

\* A socket that never opened fails the page.
OnClose(i) ==
  /\ Running /\ i \in Live /\ lanes[i].socket = "gone"
  /\ IF ~lanes[i].opened THEN Fail /\ UNCHANGED told
     ELSE /\ finishWebSocketLane(i, ~lanes[i].localClosed /\ ~lanes[i].remoteClosed)
          /\ UNCHANGED closed
  /\ UNCHANGED posts

CloseLanes == Running /\ Fail /\ UNCHANGED <<posts, told>>

Socket(i) ==
  \/ SocketOpens(i) \/ SocketEnds(i) \/ LaneDrains(i) \/ LaneTimer(i)
  \/ RelayClose(i) \/ CrossLane(i) \/ OnClose(i)

Unopened(i) == i \in Live /\ lanes[i].socket = "connecting"
Base(A) == mode # "websocket-lanes" /\ A /\ UNCHANGED lvars
Same == UNCHANGED <<mode, phase, arrived, early, pending, q>>

LNext ==
  \/ Base(PNext)
  \/ /\ \/ \E i \in LaneIds, ty \in {"OPEN", "DATA", "CLOSE", "WINDOW", "OTHER"} :
             queueWebSocketLane(ty, i)
        \/ \E i \in LaneIds : Socket(i)
        \/ CloseLanes
     /\ Same

allvars == <<pvars, lvars>>

LSpec == LInit /\ [][LNext]_allvars

\* Requests end, in one way or the other; timers fire; a socket opens or
\* fails, and sends what it buffers while it is open.
LFairSpec ==
  /\ LSpec
  /\ WF_allvars(Base(Create)) /\ WF_allvars(Base(Microtask))
  /\ WF_allvars(Base(Acked)) /\ WF_allvars(Base(SocketDrains)) /\ WF_allvars(Base(TimerFires))
  /\ \A i \in LaneIds :
       /\ WF_allvars(Unopened(i) /\ (SocketOpens(i) \/ SocketEnds(i)) /\ Same)
       /\ WF_allvars(LaneDrains(i) /\ Same)
       /\ WF_allvars(LaneTimer(i) /\ Same)
       /\ WF_allvars(OnClose(i) /\ Same)

-----------------------------------------------------------------------------
(* Properties *)

\* The page counts exactly what its lanes hold, lane by lane in order, and
\* stays within its limit with all their sockets, although lanes end with
\* frames waiting; and no live lane is among the closed ones, although an id
\* comes back once it is forgotten.
LanesAccounted ==
  Running =>
    /\ queued + Buffered <= QueueLimit
    /\ queued = Cardinality({p \in LaneIds \X (1 .. LaneLimit) :
                               p[1] \in Live /\ p[2] \in DOMAIN lanes[p[1]].pending})
    /\ \A i \in Live : /\ lanes[i].sent \o lanes[i].pending = [n \in 1 .. lanes[i].count |-> n]
                       /\ i \notin ClosedLanes
    /\ Cardinality(ClosedLanes) = Len(order)

\* The application learns the end of every lane, and the page never reports
\* one that the application or the relay has ended before.
EndTold ==
  \A i \in LaneIds :
    /\ ~closed /\ i \in ClosedLanes => told[i] # <<>>
    /\ \A n \in DOMAIN told[i] : told[i][n] = "page" => n = 1 /\ i \notin Live

\* A frame in a lane leaves, unless the lane or the page ends: the socket's
\* onopen runs the queue, which the websocket carrier does not do.
LaneFrameLeaves ==
  \A i \in LaneIds :
    (i \in Live /\ lanes[i].pending # <<>>)
      ~> (closed \/ i \notin Live \/ lanes[i].pending = <<>>)
=============================================================================
