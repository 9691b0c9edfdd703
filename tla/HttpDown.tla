------------------------------ MODULE HttpDown ------------------------------
(***************************************************************************)
(* The downlink of the HTTP carrier.  A task forwards the session's        *)
(* messages into a broadcast channel; every POST /api/v1/down subscribes   *)
(* to it afresh, collects a few messages and answers                       *)
(* (src/src/server.rs:159-164 and 230-292); the bridge page polls in a     *)
(* loop and retries what fails (src/res/bridge_ref.html:98-120, 171-184);  *)
(* DELETE /api/v1/session forgets the session (server.rs:70-83).           *)
(*                                                                         *)
(* Messages are their numbers in the order the session emits them and have *)
(* length 1.  The session itself is Session.tla; here it emits until its   *)
(* input ends, which DELETE brings about.                                  *)
(***************************************************************************)
EXTENDS Integers, Sequences

CONSTANTS
  Cap,        \* capacity of the broadcast channel (256)
  BatchMax,   \* messages one answer collects (8)
  MaxMsgs,    \* bound: messages the session emits
  MaxTries    \* bound: requests the client makes

ASSUME DownAssumption ==
  /\ Cap \in Nat \ {0}
  /\ BatchMax \in Nat \ {0}
  /\ MaxMsgs \in Nat
  /\ MaxTries \in Nat

VARIABLES
  live,     \* the session runs
  emitted,  \* messages in the mpsc channel of the session so far
  sent,     \* messages forwarded into the broadcast so far
  inMap,    \* sessions holds the bearer
  outMap,   \* out_channels holds the bearer
  cursor,   \* the bearer's entry in down_cursors, NoEntry without one
  del,      \* where the DELETE stands
  req,      \* the requests: handler state and answer
  tries,    \* the client's current request, 0 before the first
  seen,     \* messages the client has received
  known,    \* the X-Down-Cursor it has received last
  closed    \* the bridge page is closed

session == <<live, emitted>>
maps == <<inMap, outMap, cursor, del>>
page == <<tries, seen, known, closed>>
dvars == <<session, sent, maps, req, page>>

NoEntry == -1
Tries == 1 .. MaxTries

\* A request: where its handler stands, the next message its receiver reads,
\* what it has collected, the cursor it answers.  The answer of a request in
\* "replied" is 200, 204 (nothing collected) or 401.
Idle == [pc |-> "unsent", next |-> 1, got |-> <<>>, status |-> 0, upto |-> 0]

DInit ==
  /\ live = TRUE
  /\ emitted = 0
  /\ sent = 0
  /\ inMap = TRUE
  /\ outMap = TRUE
  /\ cursor = 0
  /\ del = "none"
  /\ req = [a \in Tries |-> Idle]
  /\ tries = 0
  /\ seen = <<>>
  /\ known = 0
  /\ closed = FALSE

-----------------------------------------------------------------------------
(* The session and the forwarder *)

Emit ==
  /\ live
  /\ emitted < MaxMsgs
  /\ emitted' = emitted + 1
  /\ UNCHANGED <<live, sent, maps, req, page>>

\* The frame channel is closed: the loop returns after its BYE.
SessionEnd ==
  /\ live
  /\ ~inMap
  /\ live' = FALSE
  /\ emitted' = emitted + 1
  /\ UNCHANGED <<sent, maps, req, page>>

\* rx.recv() gives a message, out_tx2.send does not wait for anybody.
Forward ==
  /\ sent < emitted
  /\ sent' = sent + 1
  /\ UNCHANGED <<session, maps, req, page>>

-----------------------------------------------------------------------------
(* api_down *)

Replied(a, status) == req' = [req EXCEPT ![a].pc = "replied", ![a].status = status]

\* Mutant: a subscription starts with what the channel still holds.
ArriveReplay(a) ==
  /\ req[a].pc = "sent"
  /\ IF outMap THEN req' = [req EXCEPT ![a].pc = "collect",
                              ![a].next = IF sent > Cap THEN sent - Cap + 1 ELSE 1]
               ELSE Replied(a, 401)
  /\ UNCHANGED <<session, sent, maps, page>>

\* The request arrives: unknown bearer, or a subscription from now on.
Arrive(a) ==
  /\ req[a].pc = "sent"
  /\ IF outMap THEN req' = [req EXCEPT ![a].pc = "collect", ![a].next = sent + 1]
               ELSE Replied(a, 401)
  /\ UNCHANGED <<session, sent, maps, page>>

Available(a) == req[a].next <= sent
Oldest == sent - Cap + 1                  \* the oldest message kept
Lagging(a) == req[a].next < Oldest

\* Mutant: a lagging receiver goes on collecting.
CollectOverGap(a) ==
  /\ req[a].pc = "collect"
  /\ Available(a)
  /\ Len(req[a].got) < BatchMax
  /\ LET k == IF Lagging(a) THEN Oldest ELSE req[a].next IN
       req' = [req EXCEPT ![a].got = Append(@, k), ![a].next = k + 1]
  /\ UNCHANGED <<session, sent, maps, page>>

\* recv() gives the next message.
Collect(a) ==
  /\ req[a].pc = "collect"
  /\ Available(a) /\ ~Lagging(a)
  /\ Len(req[a].got) < BatchMax
  /\ req' = [req EXCEPT ![a].got = Append(@, req[a].next), ![a].next = @ + 1]
  /\ UNCHANGED <<session, sent, maps, page>>

\* Full, 120 ms without a message, or Lagged, which moves the receiver: the
\* collecting loop breaks, and without a message the long poll begins.
CollectEnd(a) ==
  /\ req[a].pc = "collect"
  /\ \/ Len(req[a].got) = BatchMax
     \/ ~Available(a)
     \/ Lagging(a)
  /\ req' = [req EXCEPT
       ![a].pc = IF req[a].got # <<>> THEN "cursor" ELSE "wait",
       ![a].next = IF Lagging(a) /\ Len(req[a].got) < BatchMax THEN Oldest ELSE @]
  /\ UNCHANGED <<session, sent, maps, page>>

\* The long poll gets one message.
WaitMsg(a) ==
  /\ req[a].pc = "wait"
  /\ Available(a) /\ ~Lagging(a)
  /\ req' = [req EXCEPT ![a].pc = "cursor", ![a].got = <<req[a].next>>,
                        ![a].next = @ + 1]
  /\ UNCHANGED <<session, sent, maps, page>>

\* Mutant: the long poll has no timeout.
WaitEndNever(a) ==
  /\ req[a].pc = "wait"
  /\ Lagging(a)
  /\ Replied(a, 204)
  /\ UNCHANGED <<session, sent, maps, page>>

\* It ends after 25 s or on Lagged, with 204.
WaitEnd(a) ==
  /\ req[a].pc = "wait"
  /\ ~Available(a) \/ Lagging(a)
  /\ Replied(a, 204)
  /\ UNCHANGED <<session, sent, maps, page>>

\* Mutant: the cursor goes on from the one the client sent.
AdvanceFromHeader(a) ==
  /\ req[a].pc = "cursor"
  /\ LET c == known + Len(req[a].got) IN
       /\ cursor' = c
       /\ req' = [req EXCEPT ![a].pc = "replied", ![a].status = 200, ![a].upto = c]
  /\ UNCHANGED <<session, sent, inMap, outMap, del, page>>

\* Under the lock the bearer's cursor moves by the length of the answer; an
\* entry DELETE has removed is made again.
Advance(a) ==
  /\ req[a].pc = "cursor"
  /\ LET c == (IF cursor = NoEntry THEN 0 ELSE cursor) + Len(req[a].got) IN
       /\ cursor' = c
       /\ req' = [req EXCEPT ![a].pc = "replied", ![a].status = 200, ![a].upto = c]
  /\ UNCHANGED <<session, sent, inMap, outMap, del, page>>

\* The client has given the request up: its handler may be dropped at an await.
Abandoned(a) == a < tries \/ closed
Cancel(a) ==
  /\ req[a].pc \in {"sent", "collect", "wait", "cursor"}
  /\ Abandoned(a)
  /\ req' = [req EXCEPT ![a].pc = "dropped"]
  /\ UNCHANGED <<session, sent, maps, page>>

Handler(a) ==
  \/ Arrive(a) \/ Collect(a) \/ CollectEnd(a)
  \/ WaitMsg(a) \/ WaitEnd(a) \/ Advance(a)

-----------------------------------------------------------------------------
(* The bridge page: poll and request *)

Send == /\ tries < MaxTries
        /\ tries' = tries + 1
        /\ req' = [req EXCEPT ![tries + 1].pc = "sent"]
Taken == req' = [req EXCEPT ![tries].pc = "taken"]

\* The first poll, or the next after an answer.
Start ==
  /\ ~closed
  /\ tries # 0 => req[tries].pc = "taken"
  /\ Send
  /\ UNCHANGED <<session, sent, maps, seen, known, closed>>

Answered(status) ==
  /\ tries # 0 /\ ~closed
  /\ req[tries].pc = "replied"
  /\ req[tries].status = status

GetBatch ==
  /\ Answered(200)
  /\ seen' = seen \o req[tries].got
  /\ known' = req[tries].upto
  /\ Taken
  /\ UNCHANGED <<session, sent, maps, tries, closed>>

GetNothing ==
  /\ Answered(204)
  /\ Taken
  /\ UNCHANGED <<session, sent, maps, page>>

\* 401, the retry limit, or the user: the page closes and asks for DELETE.
Close ==
  /\ ~closed
  /\ closed' = TRUE
  /\ del' = "asked"
  /\ UNCHANGED <<session, sent, inMap, outMap, cursor, req, tries, seen, known>>

\* The request fails on the way, or its answer does: it is made again.
Retry ==
  /\ tries # 0 /\ ~closed
  /\ req[tries].pc # "taken"
  /\ Send
  /\ UNCHANGED <<session, sent, maps, seen, known, closed>>

Page == Start \/ GetBatch \/ GetNothing \/ Close \/ Retry

-----------------------------------------------------------------------------
(* api_session_delete: three maps, one lock after the other *)

DeleteSession ==
  /\ del = "asked"
  /\ inMap' = FALSE
  /\ del' = "outs"
  /\ UNCHANGED <<session, sent, outMap, cursor, req, page>>

DeleteOut ==
  /\ del = "outs"
  /\ outMap' = FALSE
  /\ del' = "cursors"
  /\ UNCHANGED <<session, sent, inMap, cursor, req, page>>

DeleteCursor ==
  /\ del = "cursors"
  /\ cursor' = NoEntry
  /\ del' = "done"
  /\ UNCHANGED <<session, sent, inMap, outMap, req, page>>

\* The request is lost, or its handler is dropped at one of its locks.
DeleteLost ==
  /\ del \in {"asked", "outs", "cursors"}
  /\ del' = "lost"
  /\ UNCHANGED <<session, sent, inMap, outMap, cursor, req, page>>

Delete == DeleteSession \/ DeleteOut \/ DeleteCursor

-----------------------------------------------------------------------------
DNext ==
  \/ Emit \/ SessionEnd \/ Forward
  \/ \E a \in Tries : Handler(a) \/ Cancel(a)
  \/ Page
  \/ Delete \/ DeleteLost

DSpec == DInit /\ [][DNext]_dvars

\* Handlers run, and their timers fire.
DFairSpec == /\ DSpec
             /\ \A a \in Tries : WF_dvars(Handler(a))

-----------------------------------------------------------------------------
(* Properties *)

\* An answer holds messages that follow each other without a gap, at most
\* BatchMax of them and at least one in a 200, although the receiver may lag
\* while it collects (server.rs:243-274).
BatchContiguous ==
  \A a \in Tries :
    LET got == req[a].got IN
    /\ Len(got) <= BatchMax
    /\ \A j \in 1 .. Len(got) - 1 : got[j + 1] = got[j] + 1
    /\ req[a].status = 200 => got # <<>>

\* The client receives no message twice and none after a later one, although a
\* request it gave up may still be collecting the same messages.
NeverTwice == \A j \in 1 .. Len(seen) - 1 : seen[j] < seen[j + 1]

\* The part of the cursor's count that the answer of request a accounts for.
Answers == {a \in Tries : req[a].status = 200}
Share(a) == req[a].upto - Len(req[a].got) + 1 .. req[a].upto

\* The cursor counts every message of every answer made for the bearer once,
\* whatever requests run at the same time (get and insert under one lock,
\* server.rs:275-280): the shares of the answers tile it.  What the client
\* knows of it covers what it has received.
CursorCounts ==
  /\ del # "done" =>
       /\ UNION {Share(a) : a \in Answers} = 1 .. cursor
       /\ \A a, b \in Answers : a # b => Share(a) \cap Share(b) = {}
  /\ Len(seen) <= known
  /\ ~closed => known <= cursor

\* A poll is answered in the end, with or without messages, or given up.
PollAnswered ==
  \A a \in Tries : req[a].pc = "sent"
                     ~> req[a].pc = "replied" \/ Abandoned(a)

-----------------------------------------------------------------------------
(* What the comments say and the code does not do *)

\* server.rs:149-150: the session's outbound is forwarded into the broadcast
\* for /down.  A message emitted while no request is subscribed has no receiver.
ClientGapFree ==
  \A j \in DOMAIN seen : seen[j] = j

=============================================================================
