----------------------------- MODULE BridgePage -----------------------------
(***************************************************************************)
(* The uplink queue of the bridge page in the https and websocket carriers *)
(* (src/res/bridge_ref.html, the page server.rs:509 embeds): messages of   *)
(* the application wait in pending until the session is created, then in   *)
(* upPending, and leave in bodies of whole frames within the relay's       *)
(* limits; what waits or is under way is accounted in queuedBytes and      *)
(* queuedItems.  JavaScript runs a callback to its end, and the microtasks *)
(* it leaves, before the next: where one takes several steps here, every   *)
(* other action waits for them (Idle).                                     *)
(*                                                                         *)
(* A message is a sequence of frames, a frame its number in the order the  *)
(* application posts it and one byte long, so that the limits of a body,   *)
(* 4096 frames and 2 MiB, are one limit.  The retries of a request are in  *)
(* HttpUp.tla; here it succeeds or fails for good.                         *)
(***************************************************************************)
EXTENDS Integers, Sequences

CONSTANTS
  QueueLimit,  \* queueLimit, in frames
  ItemLimit,   \* queueItemLimit (16384)
  BatchLimit,  \* frames a body may carry
  MaxFrames,   \* bound: frames the application posts
  MaxItem      \* bound: frames in one message

ASSUME PageAssumption ==
  /\ QueueLimit \in Nat
  /\ ItemLimit \in Nat
  /\ BatchLimit \in Nat \ {0}
  /\ MaxFrames \in Nat
  /\ MaxItem \in Nat

VARIABLES
  mode,    \* carrierMode: "https" or "websocket"
  phase,   \* where createSession stands: sessionToken is set from "body" on
  arrived, \* frames posted by the application
  early,   \* one was posted with the token set and pending not yet drained
  pending, \* pending
  q,       \* the queue toward the carrier and its accounting
  closed   \* closed

pvars == <<mode, phase, arrived, early, pending, q, closed>>

\* The frames of a sequence of messages.
Joined(items) ==
  LET to[n \in 0 .. Len(items)] == IF n = 0 THEN <<>> ELSE to[n - 1] \o items[n]
  IN to[Len(items)]

\* upPending; queuedBytes; queuedItems; the body runUp waits on; frames the
\* carrier took; bufferedAmount; webSocketTimer; a microtask that runs
\* runWebSocketUp; reserve failed.
NoFlight == [body |-> <<>>, count |-> 0]
EmptyQueue == [up |-> <<>>, bytes |-> 0, items |-> 0, flight |-> NoFlight,
               sent |-> <<>>, buffered |-> 0, timer |-> FALSE, micro |-> FALSE,
               failed |-> FALSE]

PInit ==
  /\ mode \in {"https", "websocket"}
  /\ phase = "idle"
  /\ arrived = 0
  /\ early = FALSE
  /\ pending = <<>>
  /\ q = EmptyQueue
  /\ closed = FALSE

-----------------------------------------------------------------------------
(* reserve, release and joinPending *)

\* Mutant: what the socket buffers does not count.
HasRoomUnbuffered(s, data) ==
  /\ s.bytes <= QueueLimit - Len(data)
  /\ s.items < ItemLimit

HasRoom(s, data) ==
  /\ data # <<>>
  /\ s.bytes + s.buffered <= QueueLimit - Len(data)
  /\ s.items < ItemLimit

reserve(s, data) ==
  IF HasRoom(s, data)
  THEN [s EXCEPT !.bytes = @ + Len(data), !.items = @ + 1]
  ELSE [s EXCEPT !.failed = TRUE]

release(s, bytes, items) == [s EXCEPT !.bytes = @ - bytes, !.items = @ - items]

\* Mutant: the rest of a split message goes to the end of the queue.
SplitFirstRequeued(s) ==
  [body |-> SubSeq(s.up[1], 1, BatchLimit), count |-> 1,
   left |-> [s EXCEPT !.up = Append(Tail(@), SubSeq(@[1], BatchLimit + 1, Len(@[1]))),
                      !.items = @ + 1]]

\* A first message over the limit is cut; its rest stays in front as an item
\* of its own.
SplitFirst(s) ==
  [body |-> SubSeq(s.up[1], 1, BatchLimit), count |-> 1,
   left |-> [s EXCEPT !.up[1] = SubSeq(@, BatchLimit + 1, Len(@)),
                      !.items = @ + 1]]

\* How many whole messages fit.
Fitting(s) ==
  CHOOSE n \in 1 .. Len(s.up) :
    /\ Len(Joined(SubSeq(s.up, 1, n))) <= BatchLimit
    /\ n < Len(s.up) => Len(Joined(SubSeq(s.up, 1, n + 1))) > BatchLimit

joinPending(s) ==
  IF Len(s.up[1]) > BatchLimit THEN SplitFirst(s)
  ELSE LET n == Fitting(s)
       IN [body |-> Joined(SubSeq(s.up, 1, n)), count |-> n,
           left |-> [s EXCEPT !.up = SubSeq(@, n + 1, Len(@))]]

-----------------------------------------------------------------------------
(* runUp and runWebSocketUp *)

\* https: the next body is sent unless one is under way.
runUp(s) ==
  IF s.flight # NoFlight \/ s.up = <<>> THEN s
  ELSE LET batch == joinPending(s)
       IN [batch.left EXCEPT !.flight = [body |-> batch.body, count |-> batch.count]]

Open == phase \in {"drain", "done"}   \* the socket opens with the draining
Backpressure(s) == s.buffered + s.bytes > QueueLimit \/ s.buffered >= BatchLimit

\* Mutant: a full socket is not looked at again.
RunWebSocketNoTimer(s) ==
  IF ~Open \/ s.up = <<>> \/ Backpressure(s) THEN [s EXCEPT !.micro = FALSE]
  ELSE LET batch == joinPending(s)
           total == Len(batch.body)
       IN [release(batch.left, total, batch.count) EXCEPT
             !.sent = @ \o batch.body, !.buffered = @ + total,
             !.micro = batch.left.up # <<>>]

\* websocket: one body, unless the socket is full, which a timer looks at
\* again; a microtask sends what is left.
runWebSocketUp(s) ==
  IF ~Open \/ s.up = <<>> THEN [s EXCEPT !.micro = FALSE]
  ELSE IF Backpressure(s) THEN [s EXCEPT !.micro = FALSE, !.timer = TRUE]
  ELSE LET batch == joinPending(s)
           total == Len(batch.body)
       IN [release(batch.left, total, batch.count) EXCEPT
             !.sent = @ \o batch.body, !.buffered = @ + total,
             !.micro = batch.left.up # <<>>]

\* queueCarrier in either mode.
queueCarrier(s, data) ==
  LET r == reserve(s, data)
      pushed == [r EXCEPT !.up = Append(@, data)]
  IN IF r.failed THEN r
     ELSE IF mode = "https" THEN runUp(pushed) ELSE runWebSocketUp(pushed)

\* The queue becomes s; fail() when a reserve failed.
Queue(s) == \E r \in {s} : q' = r /\ closed' = r.failed

\* No callback is under way.
Idle == ~closed /\ ~q.micro /\ phase # "drain"

\* The microtask a callback left; nothing else runs before it.
Microtask ==
  /\ ~closed /\ q.micro /\ phase # "drain"
  /\ Queue(runWebSocketUp(q))
  /\ UNCHANGED <<mode, phase, arrived, early, pending>>

-----------------------------------------------------------------------------
(* The application's messages *)

\* Frames arrived + 1 .. arrived + n, as one message.
NextItem(n) == [k \in 1 .. n |-> arrived + k]

\* The first message starts createSession and is its HELLO.
FirstMessage ==
  /\ Idle /\ phase = "idle"
  /\ phase' = "posting"
  /\ UNCHANGED <<mode, arrived, early, pending, q, closed>>

\* Without a token: into pending.
MessageWaits(n) ==
  /\ Idle /\ phase = "posting"
  /\ arrived + n <= MaxFrames
  /\ arrived' = arrived + n
  /\ Queue(reserve(q, NextItem(n)))
  /\ pending' = IF closed' THEN pending ELSE Append(pending, NextItem(n))
  /\ UNCHANGED <<mode, phase, early>>

\* With a token: straight to the carrier, past what waits in pending.
MessageQueued(n) ==
  /\ Idle /\ phase \in {"body", "socket", "drain", "done"}
  /\ arrived + n <= MaxFrames
  /\ arrived' = arrived + n
  /\ early' = (early \/ phase # "done")
  /\ Queue(queueCarrier(q, NextItem(n)))
  /\ UNCHANGED <<mode, phase, pending>>

-----------------------------------------------------------------------------
(* createSession *)

\* 200: the token is set, and the body of the answer awaited.
TokenArrives ==
  /\ Idle /\ phase = "posting"
  /\ phase' = "body"
  /\ UNCHANGED <<mode, arrived, early, pending, q, closed>>

\* WELCOME is read; a websocket is opened before anything else.
OpenSocket ==
  /\ Idle /\ phase = "body" /\ mode = "websocket"
  /\ phase' = "socket"
  /\ UNCHANGED <<mode, arrived, early, pending, q, closed>>

\* WELCOME is passed on, and pending is drained in the same callback.
Connected ==
  /\ Idle
  /\ phase = IF mode = "https" THEN "body" ELSE "socket"
  /\ phase' = "drain"
  /\ UNCHANGED <<mode, arrived, early, pending, q, closed>>

\* Mutant: what waits is queued without being released first.
DrainReserved ==
  /\ ~closed /\ phase = "drain" /\ pending # <<>>
  /\ Queue(queueCarrier(q, Head(pending)))
  /\ pending' = Tail(pending)
  /\ UNCHANGED <<mode, phase, arrived, early>>

\* Each message is released, and reserved again as it is queued.
Drain ==
  /\ ~closed /\ phase = "drain" /\ pending # <<>>
  /\ Queue(queueCarrier(release(q, Len(Head(pending)), 1), Head(pending)))
  /\ pending' = Tail(pending)
  /\ UNCHANGED <<mode, phase, arrived, early>>

Drained ==
  /\ ~closed /\ phase = "drain" /\ pending = <<>>
  /\ phase' = "done"
  /\ UNCHANGED <<mode, arrived, early, pending, q, closed>>

\* Another status, a missing token, a socket that does not open, a carrier
\* that fails, or the application: the page closes.
Close ==
  /\ Idle /\ phase # "idle"
  /\ closed' = TRUE
  /\ UNCHANGED <<mode, phase, arrived, early, pending, q>>

-----------------------------------------------------------------------------
(* The carriers *)

\* 204 with the right number: the body is released, and runUp goes on.
Acked ==
  /\ Idle /\ q.flight # NoFlight
  /\ LET taken == [q EXCEPT !.sent = @ \o q.flight.body, !.flight = NoFlight]
     IN q' = runUp(release(taken, Len(q.flight.body), q.flight.count))
  /\ UNCHANGED <<mode, phase, arrived, early, pending, closed>>

\* The socket has sent some of what it buffered.
SocketDrains ==
  /\ Idle
  /\ \E left \in 0 .. q.buffered - 1 : q' = [q EXCEPT !.buffered = left]
  /\ UNCHANGED <<mode, phase, arrived, early, pending, closed>>

\* The timer of 10 ms.
TimerFires ==
  /\ Idle /\ q.timer
  /\ Queue(runWebSocketUp([q EXCEPT !.timer = FALSE]))
  /\ UNCHANGED <<mode, phase, arrived, early, pending>>

Create == TokenArrives \/ OpenSocket \/ Connected \/ Drain \/ Drained

PNext ==
  \/ FirstMessage
  \/ \E n \in 1 .. MaxItem : MessageWaits(n) \/ MessageQueued(n)
  \/ Create \/ Close \/ Microtask
  \/ Acked \/ SocketDrains \/ TimerFires

-----------------------------------------------------------------------------
(* Properties *)

\* The frames that have left, are under way and wait, in the order the queues
\* hold them.
Everything == q.sent \o q.flight.body \o Joined(q.up) \o Joined(pending)

\* queuedBytes and queuedItems count exactly what waits or is under way,
\* although a message is reserved once, may be cut in parts that leave one by
\* one, and is released and reserved again when the session is there.
Accounted ==
  ~closed =>
    /\ q.bytes = Len(q.flight.body) + Len(Joined(q.up)) + Len(Joined(pending))
    /\ q.items = q.flight.count + Len(q.up) + Len(pending)

\* No frame is lost or doubled between the application and the carrier, and
\* they leave in the order posted, except for those posted after the token
\* came and before pending was drained (createSession, lines 132-141), which
\* overtake it.
OnceInOrder ==
  ~closed =>
    /\ Len(Everything) = arrived
    /\ \A f \in 1 .. arrived : \E n \in DOMAIN Everything : Everything[n] = f
    /\ ~early => \A n \in DOMAIN Everything : Everything[n] = n

\* What the page holds, the socket's buffer included, is within the limit, and
\* so are its items, but for the one that joinPending adds without a check
\* when it cuts a message: it counts until the answer to the part that is under
\* way.  (A websocket releases the part in the same call.)
Bounded ==
  /\ q.bytes + q.buffered <= QueueLimit
  /\ q.items <= ItemLimit + (IF q.flight = NoFlight THEN 0 ELSE 1)

\* A message queued before the websocket is open waits for the next one, for
\* nothing runs the queue when the socket opens: until then nothing has left.
NotRunYet == mode = "websocket" /\ early /\ q.sent = <<>>

\* Every frame leaves unless the page closes, from a full socket and past it:
\* over a websocket once the queue was run.
EveryFrameLeaves ==
  \A f \in 1 .. MaxFrames :
    arrived >= f /\ ~NotRunYet ~> \/ \E n \in DOMAIN q.sent : q.sent[n] = f
                                  \/ closed
=============================================================================
