------------------------------- MODULE HttpUp -------------------------------
(***************************************************************************)
(* The uplink of the HTTP carrier.  The bridge page sends one batch of     *)
(* frames at a time and makes a request that fails on the way again, up to *)
(* nine times (src/res/bridge_ref.html:98-120, 158-170); api_up forwards   *)
(* the frames of a request one by one into the session's channel, waiting  *)
(* for room, and answers the sequence number it was sent                   *)
(* (src/src/server.rs:194-227).  It keeps no record of sequence numbers,   *)
(* so the handler of a request the page gave up may still be forwarding    *)
(* while the next request is.                                              *)
(*                                                                         *)
(* Frames are numbered in the order the page queues them.  The session is  *)
(* Session.tla; here it takes frames and ends, by itself or because its    *)
(* last sender is gone.                                                    *)
(***************************************************************************)
EXTENDS Integers, Sequences, FiniteSets

CONSTANTS
  ChanCap,    \* capacity of the frame channel (256)
  BatchMax,   \* bound: frames in one batch
  MaxFrames,  \* bound: frames the page queues
  RetryMax,   \* attempts request() makes for one batch (9)
  MaxTries    \* bound: requests altogether

ASSUME UpAssumption ==
  /\ ChanCap \in Nat \ {0}
  /\ BatchMax \in Nat \ {0}
  /\ MaxFrames \in Nat
  /\ RetryMax \in Nat \ {0}
  /\ MaxTries \in Nat

VARIABLES
  inMap,    \* sessions holds the bearer
  over,     \* the session loop has returned
  chan,     \* the frame channel
  applied,  \* frames sent into the channel so far
  req,      \* the requests: their batch and where the handler stands
  tries,    \* the page's current request, 0 before the first
  attempt,  \* which attempt for its batch that is
  acked,    \* frames of the batches the page saw acknowledged
  retried,  \* some request was given up
  page      \* "open" or "closed"

server == <<inMap, over, chan, applied>>
client == <<tries, attempt, acked, retried, page>>
uvars == <<server, req, client>>

Tries == 1 .. MaxTries
NoRequest == [first |-> 1, last |-> 0, next |-> 1, pc |-> "unsent"]

UInit ==
  /\ inMap = TRUE
  /\ over = FALSE
  /\ chan = <<>>
  /\ applied = <<>>
  /\ req = [a \in Tries |-> NoRequest]
  /\ tries = 0
  /\ attempt = 0
  /\ acked = 0
  /\ retried = FALSE
  /\ page = "open"

-----------------------------------------------------------------------------
(* The session *)

SessionTake ==
  /\ ~over
  /\ chan # <<>>
  /\ chan' = Tail(chan)
  /\ UNCHANGED <<inMap, over, applied, req, client>>

\* It returns on an error or a BYE, and its receiver is dropped ...
SessionReturns ==
  /\ ~over
  /\ over' = TRUE
  /\ chan' = <<>>
  /\ UNCHANGED <<inMap, applied, req, client>>

\* Mutant: a dropped handler leaks its clone.
SendersLeaky == inMap \/ \E a \in Tries : req[a].pc \in {"push", "dropped"}

\* ... or when the channel is closed: the map's sender and every handler's
\* clone are gone.
Senders == inMap \/ \E a \in Tries : req[a].pc = "push"
SessionInputEnds ==
  /\ ~Senders
  /\ chan = <<>>
  /\ SessionReturns

-----------------------------------------------------------------------------
(* api_up *)

Reply(a, status) == req' = [req EXCEPT ![a].pc = status]

\* The sender is cloned out of the map, or the bearer is unknown.
Arrive(a) ==
  /\ req[a].pc = "sent"
  /\ IF inMap THEN req' = [req EXCEPT ![a].pc = "push"]
              ELSE Reply(a, "401")
  /\ UNCHANGED <<server, client>>

\* Mutant: try_send, which drops the frame when the channel is full.
PushFrameOrDrop(a) ==
  /\ req[a].pc = "push"
  /\ req[a].next <= req[a].last
  /\ ~over
  /\ IF Len(chan) < ChanCap
     THEN /\ chan' = Append(chan, req[a].next)
          /\ applied' = Append(applied, req[a].next)
     ELSE UNCHANGED <<chan, applied>>
  /\ req' = [req EXCEPT ![a].next = @ + 1]
  /\ UNCHANGED <<inMap, over, client>>

\* frame_tx.send(f).await: the next frame of the batch goes into the channel.
PushFrame(a) ==
  /\ req[a].pc = "push"
  /\ req[a].next <= req[a].last
  /\ ~over
  /\ Len(chan) < ChanCap
  /\ chan' = Append(chan, req[a].next)
  /\ applied' = Append(applied, req[a].next)
  /\ req' = [req EXCEPT ![a].next = @ + 1]
  /\ UNCHANGED <<inMap, over, client>>

\* The session has returned: 401 in the middle of the batch.
PushRefused(a) ==
  /\ req[a].pc = "push"
  /\ req[a].next <= req[a].last
  /\ over
  /\ Reply(a, "401")
  /\ UNCHANGED <<server, client>>

\* Mutant: the answer does not wait for the frames.
PushDoneEarly(a) ==
  /\ req[a].pc = "push"
  /\ req[a].next >= req[a].last
  /\ Reply(a, "204")
  /\ UNCHANGED <<server, client>>

\* Every frame is in the channel: 204 with the sequence number.
PushDone(a) ==
  /\ req[a].pc = "push"
  /\ req[a].next > req[a].last
  /\ Reply(a, "204")
  /\ UNCHANGED <<server, client>>

Handler(a) == Arrive(a) \/ PushFrame(a) \/ PushRefused(a) \/ PushDone(a)

\* A handler whose client has gone may be dropped at an await.
Abandoned(a) == a < tries \/ page = "closed"
Cancel(a) ==
  /\ req[a].pc \in {"sent", "push"}
  /\ Abandoned(a)
  /\ req' = [req EXCEPT ![a].pc = "dropped"]
  /\ UNCHANGED <<server, client>>

-----------------------------------------------------------------------------
(* The bridge page: runUp and request *)

Request(first, last) ==
  /\ page = "open"
  /\ tries < MaxTries
  /\ tries' = tries + 1
  /\ req' = [req EXCEPT ![tries + 1] =
               [NoRequest EXCEPT !.first = first, !.next = first, !.last = last,
                                 !.pc = "sent"]]

Answered(status) ==
  /\ page = "open" /\ tries # 0
  /\ req[tries].pc = status

\* The first batch: what is queued, cut at a bound.
SendFirst ==
  /\ tries = 0
  /\ \E last \in 1 .. BatchMax : last <= MaxFrames /\ Request(1, last)
  /\ attempt' = 1
  /\ UNCHANGED <<server, acked, retried, page>>

\* 204 with the sequence number sent: the batch is released.
GetAck ==
  /\ Answered("204")
  /\ req[tries].last > acked
  /\ acked' = req[tries].last
  /\ UNCHANGED <<server, req, tries, attempt, retried, page>>

\* runUp goes on with what is queued by now.
SendNext ==
  /\ Answered("204")
  /\ acked = req[tries].last
  /\ \E last \in acked + 1 .. acked + BatchMax :
       last <= MaxFrames /\ Request(acked + 1, last)
  /\ attempt' = 1
  /\ UNCHANGED <<server, acked, retried, page>>

\* Mutant: the next batch is sent although this one was never acknowledged.
RetrySkips ==
  /\ tries # 0
  /\ req[tries].last > acked
  /\ attempt < RetryMax
  /\ req[tries].last < MaxFrames
  /\ Request(req[tries].last + 1, req[tries].last + 1)
  /\ attempt' = attempt + 1
  /\ retried' = TRUE
  /\ UNCHANGED <<server, acked, page>>

\* fetch throws, in time or after 90 s: the same batch is sent again.
Retry ==
  /\ tries # 0
  /\ req[tries].last > acked
  /\ attempt < RetryMax
  /\ Request(req[tries].first, req[tries].last)
  /\ attempt' = attempt + 1
  /\ retried' = TRUE
  /\ UNCHANGED <<server, acked, page>>

\* Another status, the retry limit or the user: fail() closes the page.
Close ==
  /\ page = "open"
  /\ page' = "closed"
  /\ UNCHANGED <<server, req, tries, attempt, acked, retried>>

Page == SendFirst \/ GetAck \/ SendNext \/ Retry \/ Close

\* api_session_delete drops the map's sender.
Delete ==
  /\ page = "closed"
  /\ inMap
  /\ inMap' = FALSE
  /\ UNCHANGED <<over, chan, applied, req, client>>

-----------------------------------------------------------------------------
UNext ==
  \/ SessionTake \/ SessionReturns
  \/ \E a \in Tries : Handler(a) \/ Cancel(a)
  \/ Page
  \/ Delete

USpec == UInit /\ [][UNext]_uvars

\* Handlers waiting for room are served in order; a session that runs takes
\* its frames and returns when its input ends.
UFairSpec ==
  /\ USpec
  /\ \A a \in Tries : SF_uvars(Handler(a))
  /\ WF_uvars(SessionTake)
  /\ WF_uvars(SessionInputEnds)

-----------------------------------------------------------------------------
(* Properties *)

Applied(f) == \E p \in DOMAIN applied : applied[p] = f

\* The type invariant.
UTypeOK ==
  /\ inMap \in BOOLEAN /\ over \in BOOLEAN /\ retried \in BOOLEAN
  /\ page \in {"open", "closed"}
  /\ chan \in Seq(1 .. MaxFrames) /\ Len(chan) <= ChanCap
  /\ applied \in Seq(1 .. MaxFrames)
  /\ tries \in 0 .. MaxTries
  /\ attempt \in 0 .. RetryMax
  /\ acked \in 0 .. MaxFrames
  /\ req \in [Tries -> [first : Nat \ {0}, last : 0 .. MaxFrames, next : Nat,
                       pc : {"unsent", "sent", "push", "204", "401", "dropped"}]]
  /\ \A a \in Tries : req[a].next \in req[a].first .. req[a].last + 1

\* A batch the page saw acknowledged is in the session's channel, all of it,
\* although a handler can be dropped or refused in the middle of a batch.
AckMeansApplied == \A f \in 1 .. acked : Applied(f)

\* Whatever requests run at once, no frame reaches the session before every
\* earlier frame has reached it.
NoFrameAhead ==
  \A p \in DOMAIN applied : \A f \in 1 .. applied[p] - 1 :
    \E q \in 1 .. p - 1 : applied[q] = f

\* While no request was given up every frame reaches the session once and in
\* order: only a retry can repeat one.
OnceUnlessRetried ==
  ~retried => \A p \in DOMAIN applied : applied[p] = p

\* After DELETE the session ends, although a handler under way still holds a
\* clone of the sender and goes on forwarding.
DeleteEndsSession == ~inMap ~> over
=============================================================================
