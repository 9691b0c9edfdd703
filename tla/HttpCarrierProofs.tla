------------------------- MODULE HttpCarrierProofs -------------------------
(* Theorems about HttpCarrier.tla and the HttpUp.tla it extends, for every *)
(* value of their constants: first of the uplink under any session, then of *)
(* the two together, where what is proved of the uplink and of the session  *)
(* holds as far as no retry makes a handler forward a frame again.          *)
EXTENDS HttpCarrier, FiniteSetTheorems, TLAPS

-----------------------------------------------------------------------------
(* The uplink: theorems of HttpUp.tla *)

Requests == [first : Nat \ {0}, last : 0 .. MaxFrames, next : Nat,
             pc : {"unsent", "sent", "push", "204", "401", "dropped"}]

\* What makes AckMeansApplied and NoFrameAhead inductive: a request, given up
\* or not, has every frame before its next one in the session's channel, and
\* one that was answered 204 has all of its own there.
Prefixed ==
  \A a \in Tries :
    /\ \A f \in 1 .. req[a].next - 1 : Applied(f)
    /\ req[a].pc = "204" => req[a].next = req[a].last + 1

Delivery == UTypeOK /\ Prefixed /\ AckMeansApplied /\ NoFrameAhead

\* Changing one request keeps the others.
LEMMA OneRequest ==
  ASSUME UTypeOK, NEW a \in Tries, NEW r \in Requests,
         r.next \in r.first .. r.last + 1,
         req' = [req EXCEPT ![a] = r]
  PROVE  /\ req' \in [Tries -> Requests]
         /\ \A b \in Tries : req'[b].next \in req'[b].first .. req'[b].last + 1
         /\ req'[a] = r
         /\ \A b \in Tries : b # a => req'[b] = req[b]
  BY DEF UTypeOK, Requests

\* The fields a handler writes, one by one.
LEMMA Fields ==
  ASSUME NEW r \in Requests
  PROVE  /\ \A n \in Nat :
              /\ [r EXCEPT !.next = n] \in Requests
              /\ [r EXCEPT !.next = n].next = n
              /\ [r EXCEPT !.next = n].first = r.first
              /\ [r EXCEPT !.next = n].last = r.last
              /\ [r EXCEPT !.next = n].pc = r.pc
         /\ \A pc \in {"push", "204", "401", "dropped"} :
              /\ [r EXCEPT !.pc = pc] \in Requests
              /\ [r EXCEPT !.pc = pc].next = r.next
              /\ [r EXCEPT !.pc = pc].first = r.first
              /\ [r EXCEPT !.pc = pc].last = r.last
              /\ [r EXCEPT !.pc = pc].pc = pc
<1>1. ASSUME NEW n \in Nat
      PROVE  /\ [r EXCEPT !.next = n] \in Requests
             /\ [r EXCEPT !.next = n].next = n
             /\ [r EXCEPT !.next = n].first = r.first
             /\ [r EXCEPT !.next = n].last = r.last
             /\ [r EXCEPT !.next = n].pc = r.pc
  BY DEF Requests
<1>2. ASSUME NEW pc \in {"push", "204", "401", "dropped"}
      PROVE  /\ [r EXCEPT !.pc = pc] \in Requests
             /\ [r EXCEPT !.pc = pc].next = r.next
             /\ [r EXCEPT !.pc = pc].first = r.first
             /\ [r EXCEPT !.pc = pc].last = r.last
             /\ [r EXCEPT !.pc = pc].pc = pc
  BY DEF Requests
<1> QED
  BY <1>1, <1>2

\* What the type invariant says of one request, in numbers.
LEMMA Places ==
  ASSUME UTypeOK, NEW a \in Tries
  PROVE  /\ req[a] \in Requests
         /\ req[a].first \in Nat \ {0} /\ req[a].next \in Nat
         /\ req[a].last \in Nat /\ req[a].last <= MaxFrames
         /\ req[a].first <= req[a].next /\ req[a].next <= req[a].last + 1
<1>1. req[a] \in Requests /\ req[a].next \in req[a].first .. req[a].last + 1
  BY DEF UTypeOK, Requests
<1>2. req[a].first \in Nat \ {0} /\ req[a].next \in Nat
      /\ req[a].last \in 0 .. MaxFrames
  BY <1>1 DEF Requests
<1> QED
  BY <1>1, <1>2, UpAssumption

\* A step that adds no frame and changes no request but a, which keeps its
\* place or starts over behind what is applied, keeps the delivery.
LEMMA Quiet ==
  ASSUME Delivery, UTypeOK', applied' = applied, acked' = acked,
         NEW a \in Tries, NEW r \in Requests, req' = [req EXCEPT ![a] = r],
         \A f \in 1 .. r.next - 1 : Applied(f),
         r.pc = "204" => r.next = r.last + 1
  PROVE  Delivery'
<1>1. \A f : Applied(f)' <=> Applied(f)
  BY DEF Applied
<1>2. \A b \in Tries : req'[b] = r \/ req'[b] = req[b]
  BY DEF Delivery, UTypeOK
<1>3. Prefixed'
  BY <1>1, <1>2 DEF Delivery, Prefixed, Applied
<1>4. AckMeansApplied' /\ NoFrameAhead'
  BY DEF Delivery, AckMeansApplied, NoFrameAhead, Applied
<1> QED
  BY <1>3, <1>4 DEF Delivery

\* A step that touches neither the requests nor what is applied or acked.
LEMMA Untouched ==
  ASSUME Delivery, UTypeOK', UNCHANGED <<applied, acked, req>>
  PROVE  Delivery'
  BY DEF Delivery, Prefixed, AckMeansApplied, NoFrameAhead, Applied

-----------------------------------------------------------------------------
(* Steps of the server *)

\* The sender end: a handler of api_up puts its next frame into the channel.
LEMMA PushFrameStep ==
  ASSUME Delivery, NEW a \in Tries, PushFrame(a)
  PROVE  Delivery'
<1>a. PICK f : f = req[a].next
  OBVIOUS
<1>b. PICK r : r = [req[a] EXCEPT !.next = f + 1]
  OBVIOUS
<1>0. /\ req \in [Tries -> Requests]
      /\ req[a] \in Requests
      /\ req[a].next \in req[a].first .. req[a].last + 1
      /\ applied \in Seq(1 .. MaxFrames) /\ chan \in Seq(1 .. MaxFrames)
  BY DEF Delivery, UTypeOK, Requests
<1>1. /\ req[a].pc = "push" /\ f <= req[a].last /\ Len(chan) < ChanCap
      /\ chan' = Append(chan, f) /\ applied' = Append(applied, f)
      /\ req' = [req EXCEPT ![a] = r]
      /\ UNCHANGED <<inMap, over, tries, attempt, acked, retried, page>>
  BY <1>a, <1>b DEF PushFrame, client
<1>2. f \in 1 .. MaxFrames
  BY <1>0, <1>1, <1>a, UpAssumption DEF Requests
<1>3. r \in Requests /\ r.next = f + 1 /\ r.first = req[a].first
      /\ r.last = req[a].last /\ r.pc = req[a].pc
  <2>1. f + 1 \in Nat
    BY <1>2, UpAssumption
  <2> QED
    BY <1>0, <1>b, <2>1, Fields
<1>4. UTypeOK'
  <2>1. r.next \in r.first .. r.last + 1
    BY <1>0, <1>1, <1>2, <1>3, <1>a DEF Requests
  <2>2. /\ req' \in [Tries -> Requests]
        /\ \A b \in Tries : req'[b].next \in req'[b].first .. req'[b].last + 1
    BY <1>1, <1>3, <2>1, OneRequest DEF Delivery
  <2>3. /\ chan' \in Seq(1 .. MaxFrames) /\ Len(chan') <= ChanCap
        /\ applied' \in Seq(1 .. MaxFrames)
    BY <1>0, <1>1, <1>2, UpAssumption
  <2> QED
    BY <1>1, <2>2, <2>3 DEF Delivery, UTypeOK, Requests
<1>5. /\ Len(applied) \in Nat
      /\ DOMAIN applied = 1 .. Len(applied)
      /\ DOMAIN applied' = 1 .. Len(applied) + 1
      /\ \A p \in 1 .. Len(applied) : applied'[p] = applied[p]
      /\ applied'[Len(applied) + 1] = f
  BY <1>0, <1>1, <1>2
<1>6. /\ \A g : Applied(g) => Applied(g)'
      /\ Applied(f)'
  BY <1>5 DEF Applied
<1>7. \A g \in 1 .. f - 1 : Applied(g)
  BY <1>a DEF Delivery, Prefixed
<1>8. Prefixed'
  <2>1. \A g \in 1 .. r.next - 1 : Applied(g)'
    BY <1>2, <1>3, <1>6, <1>7
  <2>2. r.pc = "204" => r.next = r.last + 1
    BY <1>1, <1>3
  <2>3. \A b \in Tries : req'[b] = r \/ req'[b] = req[b]
    BY <1>0, <1>1
  <2> QED
    BY <1>6, <2>1, <2>2, <2>3 DEF Delivery, Prefixed, Applied
<1>9. AckMeansApplied'
  BY <1>1, <1>6 DEF Delivery, AckMeansApplied, Applied
<1>10. NoFrameAhead'
  <2> SUFFICES ASSUME NEW p \in DOMAIN applied', NEW g \in 1 .. applied'[p] - 1
               PROVE  \E q \in 1 .. p - 1 : applied'[q] = g
    BY DEF NoFrameAhead
  <2>1. CASE p = Len(applied) + 1
    <3>1. PICK q \in DOMAIN applied : applied[q] = g
      BY <1>5, <1>7, <2>1 DEF Applied
    <3> QED
      BY <1>5, <2>1, <3>1
  <2>2. CASE p # Len(applied) + 1
    <3>1. p \in 1 .. Len(applied) /\ applied'[p] = applied[p]
      BY <1>5, <2>2
    <3>2. PICK q \in 1 .. p - 1 : applied[q] = g
      BY <1>5, <3>1 DEF Delivery, NoFrameAhead
    <3> QED
      BY <1>5, <3>1, <3>2
  <2> QED
    BY <2>1, <2>2
<1> QED
  BY <1>4, <1>8, <1>9, <1>10 DEF Delivery

\* Request a changes, but not which frames it stands for and has pushed.
Settles(a) ==
  \E r \in Requests :
    /\ req' = [req EXCEPT ![a] = r]
    /\ r.next = req[a].next /\ r.first = req[a].first /\ r.last = req[a].last
    /\ r.pc = "204" => req[a].next > req[a].last

\* What the handlers that arrive, answer or are dropped do to their request.
LEMMA Settled ==
  ASSUME UTypeOK, NEW a \in Tries,
         Arrive(a) \/ PushRefused(a) \/ PushDone(a) \/ Cancel(a)
  PROVE  Settles(a)
<1>0. req \in [Tries -> Requests] /\ req[a] \in Requests
  BY DEF UTypeOK, Requests
<1>1. ASSUME NEW pc \in {"push", "204", "401", "dropped"},
             req' = [req EXCEPT ![a].pc = pc],
             pc = "204" => req[a].next > req[a].last
      PROVE  Settles(a)
  <2>1. PICK r : r = [req[a] EXCEPT !.pc = pc]
    OBVIOUS
  <2>2. r \in Requests /\ r.next = req[a].next /\ r.first = req[a].first
        /\ r.last = req[a].last /\ r.pc = pc
    BY <1>0, <2>1, Fields
  <2>3. req' = [req EXCEPT ![a] = r]
    BY <1>1, <2>1
  <2> QED
    BY <1>1, <2>2, <2>3 DEF Settles
<1>3. CASE Arrive(a)
  BY <1>1, <1>3 DEF Arrive, Reply
<1>4. CASE PushRefused(a)
  BY <1>1, <1>4 DEF PushRefused, Reply
<1>5. CASE PushDone(a)
  BY <1>1, <1>5 DEF PushDone, Reply
<1>6. CASE Cancel(a)
  BY <1>1, <1>6 DEF Cancel
<1> QED
  BY <1>3, <1>4, <1>5, <1>6

\* A handler that arrives, answers or is dropped.
LEMMA HandlerStep ==
  ASSUME Delivery, NEW a \in Tries,
         Arrive(a) \/ PushRefused(a) \/ PushDone(a) \/ Cancel(a)
  PROVE  Delivery'
<1>0. /\ req[a].first <= req[a].next /\ req[a].next <= req[a].last + 1
      /\ req[a].first \in Nat /\ req[a].next \in Nat /\ req[a].last \in Nat
  BY Places DEF Delivery
<1>1. UNCHANGED <<server, client>>
  BY DEF Arrive, PushRefused, PushDone, Cancel
<1>2. Settles(a)
  BY Settled DEF Delivery
<1>3. PICK r \in Requests :
        /\ req' = [req EXCEPT ![a] = r]
        /\ r.next = req[a].next /\ r.first = req[a].first /\ r.last = req[a].last
        /\ r.pc = "204" => req[a].next > req[a].last
  BY <1>2 DEF Settles
<1>4. UTypeOK'
  <2>1. r.next \in r.first .. r.last + 1
    BY <1>0, <1>3
  <2>2. /\ req' \in [Tries -> Requests]
        /\ \A b \in Tries : req'[b].next \in req'[b].first .. req'[b].last + 1
    BY <1>3, <2>1, OneRequest DEF Delivery
  <2> QED
    BY <1>1, <2>2 DEF Delivery, UTypeOK, Requests, server, client
<1>5. \A f \in 1 .. r.next - 1 : Applied(f)
  BY <1>3 DEF Delivery, Prefixed
<1>6. r.pc = "204" => r.next = r.last + 1
  BY <1>0, <1>3
<1>7. applied' = applied /\ acked' = acked
  BY <1>1 DEF server, client
<1> QED
  BY <1>3, <1>4, <1>5, <1>6, <1>7, Quiet

\* The session, the page's closing and DELETE.
LEMMA OtherStep ==
  ASSUME Delivery, SessionTake \/ SessionReturns \/ Close \/ Delete
  PROVE  Delivery'
<1>1. UNCHANGED <<applied, acked, req, tries, attempt, retried>>
  BY DEF SessionTake, SessionReturns, Close, Delete, client, server
<1>2. chan' \in Seq(1 .. MaxFrames) /\ Len(chan') <= ChanCap
  <2>1. CASE SessionTake
    BY <2>1, UpAssumption DEF SessionTake, Delivery, UTypeOK
  <2>2. CASE SessionReturns
    BY <2>2, UpAssumption DEF SessionReturns
  <2>3. CASE Close \/ Delete
    BY <2>3 DEF Close, Delete, server, Delivery, UTypeOK
  <2> QED
    BY <2>1, <2>2, <2>3
<1>3. inMap' \in BOOLEAN /\ over' \in BOOLEAN /\ page' \in {"open", "closed"}
  BY DEF SessionTake, SessionReturns, Close, Delete, client, server, Delivery, UTypeOK
<1>4. UTypeOK'
  BY <1>1, <1>2, <1>3 DEF Delivery, UTypeOK
<1> QED
  BY <1>1, <1>4, Untouched

-----------------------------------------------------------------------------
(* Steps of the page *)

\* A new request whose frames before the first are applied.
LEMMA RequestStep ==
  ASSUME Delivery, NEW first \in Nat \ {0}, NEW last \in 0 .. MaxFrames,
         first <= last + 1, Request(first, last),
         \A f \in 1 .. first - 1 : Applied(f),
         attempt' \in 0 .. RetryMax, retried' \in BOOLEAN,
         UNCHANGED <<server, acked, page>>
  PROVE  Delivery'
<1>a. PICK a : a = tries + 1
  OBVIOUS
<1>b. PICK r : r = [NoRequest EXCEPT !.first = first, !.next = first, !.last = last,
                                     !.pc = "sent"]
  OBVIOUS
<1>1. a \in Tries /\ tries' = a /\ req' = [req EXCEPT ![a] = r]
  BY <1>a, <1>b, UpAssumption DEF Request, Delivery, UTypeOK, Tries
<1>2. r \in Requests /\ r.next = first /\ r.first = first /\ r.last = last
      /\ r.pc = "sent" /\ r.next \in r.first .. r.last + 1
  <2>1. r = [first |-> first, last |-> last, next |-> first, pc |-> "sent"]
    BY <1>b DEF NoRequest
  <2>2. first \in first .. last + 1
    BY UpAssumption
  <2> QED
    BY <2>1, <2>2 DEF Requests
<1>3. UTypeOK'
  <2>1. /\ req' \in [Tries -> Requests]
        /\ \A b \in Tries : req'[b].next \in req'[b].first .. req'[b].last + 1
    BY <1>1, <1>2, OneRequest DEF Delivery
  <2>2. tries' \in 0 .. MaxTries
    BY <1>1, UpAssumption DEF Tries
  <2> QED
    BY <2>1, <2>2 DEF Delivery, UTypeOK, Requests, server
<1>4. \A f \in 1 .. r.next - 1 : Applied(f)
  BY <1>2
<1>5. r.pc = "204" => r.next = r.last + 1
  BY <1>2
<1>6. applied' = applied
  BY DEF server
<1> QED
  BY <1>1, <1>2, <1>3, <1>4, <1>5, <1>6, Quiet

LEMMA PageStep ==
  ASSUME Delivery, SendFirst \/ GetAck \/ SendNext \/ Retry
  PROVE  Delivery'
<1>0. /\ acked \in 0 .. MaxFrames /\ attempt \in 0 .. RetryMax
      /\ retried \in BOOLEAN /\ tries \in 0 .. MaxTries
      /\ tries # 0 => tries \in Tries
  BY UpAssumption DEF Delivery, UTypeOK, Tries
<1>1. CASE SendFirst
  <2>1. PICK last \in 1 .. BatchMax : last <= MaxFrames /\ Request(1, last)
    BY <1>1 DEF SendFirst
  <2>2. attempt' \in 0 .. RetryMax /\ retried' = retried
        /\ UNCHANGED <<server, acked, page>>
    BY <1>1, UpAssumption DEF SendFirst
  <2> QED
    BY <1>0, <2>1, <2>2, UpAssumption, RequestStep
<1>2. CASE GetAck
  <2>1. /\ tries \in Tries /\ req[tries].pc = "204"
        /\ acked' = req[tries].last
        /\ UNCHANGED <<server, req, tries, attempt, retried, page>>
    BY <1>0, <1>2 DEF GetAck, Answered
  <2>2. UTypeOK'
    <3>1. acked' \in 0 .. MaxFrames
      BY <2>1, Places, UpAssumption DEF Delivery
    <3> QED
      BY <2>1, <3>1 DEF Delivery, UTypeOK, server
  <2>3. \A f \in 1 .. req[tries].last : Applied(f)
    <3>1. req[tries].next - 1 = req[tries].last
      BY <2>1, Places DEF Delivery, Prefixed
    <3> QED
      BY <2>1, <3>1 DEF Delivery, Prefixed
  <2> QED
    BY <2>1, <2>2, <2>3
       DEF Delivery, Prefixed, AckMeansApplied, NoFrameAhead, Applied, server
<1>3. CASE SendNext
  <2>1. PICK last \in acked + 1 .. acked + BatchMax :
          last <= MaxFrames /\ Request(acked + 1, last)
    BY <1>3 DEF SendNext
  <2>2. attempt' \in 0 .. RetryMax /\ retried' = retried
        /\ UNCHANGED <<server, acked, page>>
    BY <1>3, UpAssumption DEF SendNext
  <2>3. \A f \in 1 .. acked + 1 - 1 : Applied(f)
    BY <1>0 DEF Delivery, AckMeansApplied
  <2> QED
    BY <1>0, <2>1, <2>2, <2>3, UpAssumption, RequestStep
<1>4. CASE Retry
  <2>a. PICK first, last : first = req[tries].first /\ last = req[tries].last
    OBVIOUS
  <2>1. /\ tries \in Tries /\ Request(first, last)
        /\ attempt' \in 0 .. RetryMax /\ retried' \in BOOLEAN
        /\ UNCHANGED <<server, acked, page>>
    BY <1>0, <1>4, <2>a, UpAssumption DEF Retry
  <2>2. \A f \in 1 .. first - 1 : Applied(f)
    <3>1. \A f \in 1 .. req[tries].next - 1 : Applied(f)
      BY <2>1 DEF Delivery, Prefixed
    <3>2. first <= req[tries].next /\ first \in Nat /\ req[tries].next \in Nat
      BY <2>1, <2>a, Places DEF Delivery
    <3> QED
      BY <3>1, <3>2
  <2>3. first \in Nat \ {0} /\ last \in 0 .. MaxFrames /\ first <= last + 1
    BY <2>1, <2>a, Places, UpAssumption DEF Delivery
  <2> QED
    BY <2>1, <2>2, <2>3, RequestStep
<1> QED
  BY <1>1, <1>2, <1>3, <1>4

-----------------------------------------------------------------------------

LEMMA DeliveryInit == UInit => Delivery
<1> SUFFICES ASSUME UInit PROVE Delivery
  OBVIOUS
<1>1. NoRequest \in Requests /\ NoRequest.next \in NoRequest.first .. NoRequest.last + 1
      /\ NoRequest.next - 1 = 0 /\ NoRequest.pc = "unsent"
  BY UpAssumption DEF NoRequest, Requests
<1>2. /\ req \in [Tries -> Requests]
      /\ \A a \in Tries : req[a] = NoRequest
  BY <1>1 DEF UInit
<1>3. UTypeOK
  <2>1. /\ chan \in Seq(1 .. MaxFrames) /\ Len(chan) <= ChanCap
        /\ applied \in Seq(1 .. MaxFrames)
    BY UpAssumption DEF UInit
  <2>2. tries \in 0 .. MaxTries /\ attempt \in 0 .. RetryMax /\ acked \in 0 .. MaxFrames
    BY UpAssumption DEF UInit
  <2>3. \A a \in Tries : req[a].next \in req[a].first .. req[a].last + 1
    BY <1>1, <1>2
  <2> QED
    BY <1>2, <2>1, <2>2, <2>3 DEF UInit, UTypeOK, Requests
<1>4. Prefixed
  BY <1>1, <1>2 DEF Prefixed
<1>5. AckMeansApplied /\ NoFrameAhead
  BY DEF UInit, AckMeansApplied, NoFrameAhead
<1> QED
  BY <1>3, <1>4, <1>5 DEF Delivery

LEMMA DeliveryStep ==
  ASSUME Delivery, [UNext]_uvars
  PROVE  Delivery'
<1>1. CASE SessionTake \/ SessionReturns \/ Delete
  BY <1>1, OtherStep
<1>2. ASSUME NEW a \in Tries, Handler(a) \/ Cancel(a) PROVE Delivery'
  BY <1>2, PushFrameStep, HandlerStep DEF Handler
<1>3. CASE Page
  BY <1>3, PageStep, OtherStep DEF Page
<1>4. CASE UNCHANGED uvars
  BY <1>4, Untouched DEF uvars, server, client, Delivery, UTypeOK
<1> QED
  BY <1>1, <1>2, <1>3, <1>4 DEF UNext

LEMMA DeliveryInvariant == USpec => []Delivery
<1>1. Delivery /\ [UNext]_uvars => Delivery'
  BY DeliveryStep
<1> QED
  BY <1>1, DeliveryInit, PTL DEF USpec

\* The uplink's variables keep their types in every reachable state.
THEOREM UpTypeCorrect == USpec => []UTypeOK
<1>1. Delivery => UTypeOK
  BY DEF Delivery
<1> QED
  BY <1>1, DeliveryInvariant, PTL

\* Whatever requests are retried, cut short or answered late, what the page
\* saw acknowledged is in the session's channel.
THEOREM AckCorrect == USpec => []AckMeansApplied
<1>1. Delivery => AckMeansApplied
  BY DEF Delivery
<1> QED
  BY <1>1, DeliveryInvariant, PTL

\* And no frame comes there before an earlier one has, although the handlers
\* of several attempts may be pushing at once.
THEOREM OrderCorrect == USpec => []NoFrameAhead
<1>1. Delivery => NoFrameAhead
  BY DEF Delivery
<1> QED
  BY <1>1, DeliveryInvariant, PTL

-----------------------------------------------------------------------------
(* Without a retry *)

\* While no request was given up one request runs at a time: those before it
\* were answered 204, and the frames in the session's channel are numbered up
\* to its next one.
Alone ==
  /\ \A p \in DOMAIN applied : applied[p] = p
  /\ tries = 0 => Len(applied) = 0
  /\ tries # 0 => Len(applied) = req[tries].next - 1
  /\ \A a \in Tries : /\ a > tries => req[a].pc = "unsent"
                      /\ a < tries => req[a].pc = "204"

\* Once a request was given up, that is not taken back.
LEMMA RetriedStays == [UNext]_uvars => (retried => retried')
BY DEF UNext, SessionTake, SessionReturns, Handler, Arrive, PushFrame, PushRefused,
       PushDone, Cancel, Page, SendFirst, GetAck, SendNext, Retry, Close, Delete,
       server, client, uvars

\* The next frame is the one after those in the channel.
LEMMA AloneHandler ==
  ASSUME Delivery, Alone, NEW a \in Tries, Handler(a) \/ Cancel(a)
  PROVE  Alone'
<1>0. /\ req \in [Tries -> Requests] /\ tries \in 0 .. MaxTries
      /\ applied \in Seq(1 .. MaxFrames)
      /\ req[a].next \in Nat /\ a \in Nat \ {0} /\ tries \in Nat
  <2>1. req \in [Tries -> Requests] /\ tries \in 0 .. MaxTries
        /\ applied \in Seq(1 .. MaxFrames)
    BY DEF Delivery, UTypeOK, Requests
  <2>2. req[a].next \in Nat
    BY Places DEF Delivery
  <2> QED
    BY <2>1, <2>2, UpAssumption DEF Tries
<1>1. CASE PushFrame(a)
  <2>1. /\ req[a].pc = "push" /\ applied' = Append(applied, req[a].next)
        /\ req' = [req EXCEPT ![a] = [req[a] EXCEPT !.next = req[a].next + 1]]
        /\ tries' = tries
    BY <1>1 DEF PushFrame, client
  <2>2. a = tries /\ tries # 0
    BY <1>0, <2>1 DEF Alone
  <2>3. Len(applied) = req[a].next - 1
    BY <2>2 DEF Alone
  <2>4. PICK r : r = [req[a] EXCEPT !.next = req[a].next + 1]
    OBVIOUS
  <2>5. r.next = req[a].next + 1 /\ r.pc = req[a].pc
    BY <1>0, <2>4, Fields
  <2>6. req'[a] = r /\ \A b \in Tries : b # a => req'[b] = req[b]
    BY <1>0, <2>1, <2>4
  <2>7. Len(applied') = Len(applied) + 1 /\ \A p \in DOMAIN applied' : applied'[p] = p
    <3>1. Len(applied) \in Nat /\ applied' = Append(applied, req[a].next)
          /\ DOMAIN applied = 1 .. Len(applied)
          /\ \A p \in 1 .. Len(applied) : applied[p] = p
      BY <1>0, <2>1 DEF Alone
    <3>2. Len(applied') = Len(applied) + 1 /\ DOMAIN applied' = 1 .. Len(applied) + 1
          /\ \A p \in 1 .. Len(applied) : applied'[p] = applied[p]
          /\ applied'[Len(applied) + 1] = req[a].next
      BY <1>0, <3>1
    <3> QED
      BY <1>0, <2>3, <3>1, <3>2
  <2> QED
    BY <1>0, <2>1, <2>2, <2>3, <2>5, <2>6, <2>7 DEF Alone
<1>2. CASE Arrive(a) \/ PushRefused(a) \/ PushDone(a) \/ Cancel(a)
  <2>1. Settles(a)
    BY <1>2, Settled DEF Delivery
  <2>2. PICK r \in Requests :
          /\ req' = [req EXCEPT ![a] = r]
          /\ r.next = req[a].next /\ r.first = req[a].first /\ r.last = req[a].last
          /\ r.pc = "204" => req[a].next > req[a].last
    BY <2>1 DEF Settles
  <2>3. req[a].pc \in {"sent", "push"} /\ applied' = applied /\ tries' = tries
    BY <1>2 DEF Arrive, PushRefused, PushDone, Cancel, server, client
  <2>4. a = tries
    BY <1>0, <2>3, UpAssumption DEF Alone, Tries
  <2>5. req'[a] = r /\ \A b \in Tries : b # a => req'[b] = req[b]
    BY <1>0, <2>2
  <2> QED
    BY <1>0, <2>2, <2>3, <2>4, <2>5 DEF Alone
<1> QED
  BY <1>1, <1>2 DEF Handler

\* The page's next request starts where the channel ends.
LEMMA AloneRequest ==
  ASSUME Delivery, Alone, NEW first, NEW last, Request(first, last),
         first = Len(applied) + 1, applied' = applied,
         tries # 0 => req[tries].pc = "204"
  PROVE  Alone'
<1>0. /\ req \in [Tries -> Requests] /\ tries \in 0 .. MaxTries
      /\ applied \in Seq(1 .. MaxFrames) /\ tries < MaxTries
  BY DEF Delivery, UTypeOK, Requests, Request
<1>1. PICK a, r : /\ a = tries + 1
                  /\ r = [NoRequest EXCEPT !.first = first, !.next = first, !.last = last,
                                           !.pc = "sent"]
  OBVIOUS
<1>2. a \in Tries /\ tries' = a /\ req' = [req EXCEPT ![a] = r]
  BY <1>0, <1>1, UpAssumption DEF Request, Tries
<1>3. r.next = first
  BY <1>1 DEF NoRequest
<1>4. req'[a] = r /\ \A b \in Tries : b # a => req'[b] = req[b]
  BY <1>0, <1>2
<1>5. \A b \in Tries : /\ b > a => req[b].pc = "unsent"
                       /\ b < a => req[b].pc = "204"
  BY <1>0, <1>1, UpAssumption DEF Alone, Tries
<1>6. Len(applied) = r.next - 1 /\ a # 0
  BY <1>0, <1>1, <1>3
<1> QED
  BY <1>2, <1>4, <1>5, <1>6, UpAssumption DEF Alone, Tries

\* While no request is given up the requests stay alone.
LEMMA AloneStep ==
  ASSUME Delivery, ~retried => Alone, [UNext]_uvars
  PROVE  ~retried' => Alone'
<1> SUFFICES ASSUME ~retried' PROVE Alone'
  OBVIOUS
<1>0. Alone
  BY RetriedStays
<1>1. ASSUME NEW a \in Tries, Handler(a) \/ Cancel(a) PROVE Alone'
  BY <1>0, <1>1, AloneHandler
<1>2. CASE SendFirst
  <2>1. \E last \in 1 .. BatchMax : Request(1, last)
    BY <1>2 DEF SendFirst
  <2>2. tries = 0 /\ applied' = applied /\ 1 = Len(applied) + 1
    BY <1>0, <1>2 DEF SendFirst, Alone, server
  <2> QED
    BY <1>0, <2>1, <2>2, AloneRequest
<1>3. CASE SendNext
  <2>1. \E last \in acked + 1 .. acked + BatchMax : Request(acked + 1, last)
    BY <1>3 DEF SendNext
  <2>2. applied' = applied /\ tries # 0 /\ req[tries].pc = "204" /\ acked = req[tries].last
    BY <1>3 DEF SendNext, Answered, server
  <2>3. tries \in Tries
    BY <2>2, UpAssumption DEF Delivery, UTypeOK, Tries
  <2>4. req[tries].next = acked + 1 /\ Len(applied) = req[tries].next - 1
    BY <1>0, <2>2, <2>3 DEF Delivery, Prefixed, Alone
  <2>5. acked + 1 = Len(applied) + 1
    BY <2>4, UpAssumption DEF Delivery, UTypeOK
  <2> QED
    BY <1>0, <2>1, <2>2, <2>5, AloneRequest
<1>4. CASE Retry
  BY <1>4 DEF Retry
<1>5. CASE SessionTake \/ SessionReturns \/ GetAck \/ Close \/ Delete \/ UNCHANGED uvars
  <2>1. UNCHANGED <<applied, req, tries>>
    BY <1>5 DEF SessionTake, SessionReturns, GetAck, Close, Delete, uvars, server, client
  <2> QED
    BY <1>0, <2>1 DEF Alone
<1> QED
  BY <1>1, <1>2, <1>3, <1>4, <1>5 DEF UNext, Page

\* While no request was given up every frame reaches the session once and in
\* order: only a retry repeats one (bridge_ref.html:98-120).
THEOREM OnceCorrect == USpec => []OnceUnlessRetried
<1>1. UInit => (~retried => Alone)
  BY UpAssumption DEF UInit, Alone, NoRequest, Tries
<1>2. Delivery /\ (~retried => Alone) /\ [UNext]_uvars => (~retried => Alone)'
  BY AloneStep
<1>3. (~retried => Alone) => OnceUnlessRetried
  BY DEF Alone, OnceUnlessRetried
<1> QED
  BY <1>1, <1>2, <1>3, DeliveryInvariant, PTL DEF USpec

-----------------------------------------------------------------------------
(* The uplink and the session together *)

\* The session of HttpCarrier with what is proved of it.
Proved == INSTANCE SessionProofs WITH FrameCap <- ChanCap, MaxFrames <- MaxPushes

-----------------------------------------------------------------------------
(* The session that is composed is the one that is proved about *)

LEMMA SessionConstants == Proved!SessionAssumption
BY CarrierAssumption, UpAssumption DEF Proved!IsFiniteSet, IsFiniteSet

LEMMA SameLoop == S!Loop <=> Proved!Loop
<1>1. S!RecvHello <=> Proved!RecvHello
  BY DEF S!RecvHello, Proved!RecvHello, S!Receive, Proved!Receive, S!Fail, Proved!Fail,
         S!Suspend, Proved!Suspend, S!NoFrame, Proved!NoFrame, S!NoStreams, Proved!NoStreams,
         S!NoConn, Proved!NoConn
<1>2. S!SendWelcome <=> Proved!SendWelcome
  BY DEF S!SendWelcome, Proved!SendWelcome, S!Suspended, Proved!Suspended, S!Emit, Proved!Emit,
         S!OutRoom, Proved!OutRoom, S!Control, Proved!Control, S!NoConn, Proved!NoConn,
         S!Resume, Proved!Resume, S!NoFrame, Proved!NoFrame
<1>3. S!WelcomeRefused <=> Proved!WelcomeRefused
  BY DEF S!WelcomeRefused, Proved!WelcomeRefused, S!Suspended, Proved!Suspended, S!Fail,
         Proved!Fail, S!NoFrame, Proved!NoFrame, S!NoStreams, Proved!NoStreams, S!NoConn,
         Proved!NoConn
<1>4. S!RecvOpen <=> Proved!RecvOpen
  BY DEF S!RecvOpen, Proved!RecvOpen, S!Receive, Proved!Receive, S!OpenRefused,
         Proved!OpenRefused, S!IsOpen, Proved!IsOpen, S!OpenStreams, Proved!OpenStreams,
         S!NoConn, Proved!NoConn, S!Cardinality, Proved!Cardinality, S!Fail, Proved!Fail,
         S!Suspend, Proved!Suspend, S!NoFrame, Proved!NoFrame, S!NoStreams, Proved!NoStreams
<1>5. S!ConnectOk <=> Proved!ConnectOk
  BY DEF S!ConnectOk, Proved!ConnectOk, S!Suspended, Proved!Suspended, S!Connection,
         Proved!Connection, S!Resume, Proved!Resume, S!NoFrame, Proved!NoFrame
<1>6. S!ConnectFail <=> Proved!ConnectFail
  BY DEF S!ConnectFail, Proved!ConnectFail, S!Suspended, Proved!Suspended, S!Fail, Proved!Fail,
         S!NoFrame, Proved!NoFrame, S!NoStreams, Proved!NoStreams, S!NoConn, Proved!NoConn
<1>7. S!RecvData <=> Proved!RecvData
  BY DEF S!RecvData, Proved!RecvData, S!Receive, Proved!Receive, S!IsOpen, Proved!IsOpen,
         S!NoConn, Proved!NoConn, S!Fail, Proved!Fail, S!Suspend, Proved!Suspend, S!NoFrame,
         Proved!NoFrame, S!NoStreams, Proved!NoStreams
<1>8. S!WriteOk <=> Proved!WriteOk
  BY DEF S!WriteOk, Proved!WriteOk, S!Suspended, Proved!Suspended, S!Resume, Proved!Resume,
         S!NoFrame, Proved!NoFrame
<1>9. S!WriteFail <=> Proved!WriteFail
  BY DEF S!WriteFail, Proved!WriteFail, S!Suspended, Proved!Suspended, S!Fail, Proved!Fail,
         S!NoFrame, Proved!NoFrame, S!NoStreams, Proved!NoStreams, S!NoConn, Proved!NoConn
<1>10. S!RecvClose <=> Proved!RecvClose
  BY DEF S!RecvClose, Proved!RecvClose, S!Receive, Proved!Receive, S!NoConn, Proved!NoConn,
         S!Handled, Proved!Handled
<1>11. S!RecvIgnored <=> Proved!RecvIgnored
  BY DEF S!RecvIgnored, Proved!RecvIgnored, S!Receive, Proved!Receive, S!Handled, Proved!Handled
<1>12. S!RecvUnexpected <=> Proved!RecvUnexpected
  BY DEF S!RecvUnexpected, Proved!RecvUnexpected, S!Receive, Proved!Receive, S!Fail,
         Proved!Fail, S!NoFrame, Proved!NoFrame, S!NoStreams, Proved!NoStreams, S!NoConn,
         Proved!NoConn
<1>13. S!RecvBye <=> Proved!RecvBye
  BY DEF S!RecvBye, Proved!RecvBye, S!Receive, Proved!Receive, S!Shutdown, Proved!Shutdown,
         S!NoStreams, Proved!NoStreams, S!NoConn, Proved!NoConn
<1>14. S!RecvClosed <=> Proved!RecvClosed
  BY DEF S!RecvClosed, Proved!RecvClosed, S!Shutdown, Proved!Shutdown, S!NoStreams,
         Proved!NoStreams, S!NoConn, Proved!NoConn
<1>15. S!SendBye <=> Proved!SendBye
  BY DEF S!SendBye, Proved!SendBye, S!Emit, Proved!Emit, S!OutRoom, Proved!OutRoom, S!Control,
         Proved!Control, S!NoConn, Proved!NoConn
<1> QED
  BY <1>1, <1>2, <1>3, <1>4, <1>5, <1>6, <1>7, <1>8, <1>9, <1>10, <1>11, <1>12, <1>13, <1>14, <1>15
     DEF S!Loop, Proved!Loop

LEMMA SameCarrier ==
  /\ S!Take <=> Proved!Take
  /\ S!DropOut <=> Proved!DropOut
  /\ S!CloseInput <=> Proved!CloseInput
  /\ \A f : S!Enqueue(f) <=> Proved!Enqueue(f)
BY DEF S!Take, Proved!Take, S!DropOut, Proved!DropOut, S!CloseInput, Proved!CloseInput,
       S!Enqueue, Proved!Enqueue, S!Ended, Proved!Ended

LEMMA SameConnections ==
  /\ S!Conn = Proved!Conn
  /\ \A c : S!Reader(c) <=> Proved!Reader(c)
  /\ \A c : S!Backend(c) <=> Proved!Backend(c)
<1>1. S!Conn = Proved!Conn
  BY DEF S!Conn, Proved!Conn
<1>2. \A c : S!Reader(c) <=> Proved!Reader(c)
  BY DEF S!Reader, Proved!Reader, S!ReaderData, Proved!ReaderData, S!ReaderEof,
         Proved!ReaderEof, S!Emit, Proved!Emit, S!OutRoom, Proved!OutRoom
<1>3. \A c : S!Backend(c) <=> Proved!Backend(c)
  BY DEF S!Backend, Proved!Backend, S!BackendSend, Proved!BackendSend, S!BackendFin,
         Proved!BackendFin, S!BackendReset, Proved!BackendReset
<1> QED
  BY <1>1, <1>2, <1>3

LEMMA SameInit == S!Init <=> Proved!Init
BY DEF S!Init, Proved!Init, S!NoFrame, Proved!NoFrame, S!NoStreams, Proved!NoStreams, S!NoConn,
       Proved!NoConn, S!Conn, Proved!Conn, S!Unconnected, Proved!Unconnected, S!Connection,
       Proved!Connection

LEMMA SamePushes ==
  /\ S!FrameTypes = Proved!FrameTypes
  /\ \A ty, i : S!Position(ty, i) = Proved!Position(ty, i)
  /\ \A f : S!Push(f) <=> Proved!Push(f)
BY DEF S!FrameTypes, Proved!FrameTypes, S!Position, Proved!Position, S!Push, Proved!Push,
       S!Enqueue, Proved!Enqueue, S!Ended, Proved!Ended

LEMMA SameNext == S!Next <=> Proved!Next
<1>1. S!Carrier <=> Proved!Carrier
  BY SameCarrier, SamePushes DEF S!Carrier, Proved!Carrier
<1> QED
  BY <1>1, SameLoop, SameConnections DEF S!Next, Proved!Next

LEMMA SameDownOrder == S!DownOrder <=> Proved!DownOrder
<1>1. S!ChunksPending <=> Proved!ChunksPending
  BY DEF S!ChunksPending, Proved!ChunksPending
<1>2. S!ClosesPending <=> Proved!ClosesPending
  BY DEF S!ClosesPending, Proved!ClosesPending, S!CloseDue, Proved!CloseDue
<1>3. S!OutInOrder <=> Proved!OutInOrder
  BY DEF S!OutInOrder, Proved!OutInOrder, S!NoConn, Proved!NoConn
<1>4. S!NoChunkLost <=> Proved!NoChunkLost
  BY DEF S!NoChunkLost, Proved!NoChunkLost, S!Queued, Proved!Queued
<1>5. S!Counted <=> Proved!Counted
  BY DEF S!Counted, Proved!Counted
<1> QED
  BY <1>1, <1>2, <1>3, <1>4, <1>5, SameConnections DEF S!DownOrder, Proved!DownOrder

LEMMA SameUpOrder == S!UpOrder <=> Proved!UpOrder
<1>1. S!InOrder(frames, sent) <=> Proved!InOrder(frames, sent)
  BY DEF S!InOrder, Proved!InOrder, S!Complete, Proved!Complete, S!Holds, Proved!Holds,
         S!Before, Proved!Before
<1>2. S!CurrentFirst <=> Proved!CurrentFirst
  BY DEF S!CurrentFirst, Proved!CurrentFirst, S!Complete, Proved!Complete, S!Holds,
         Proved!Holds, S!Before, Proved!Before
<1>3. S!WrittenSoFar <=> Proved!WrittenSoFar
  BY DEF S!WrittenSoFar, Proved!WrittenSoFar, S!Written, Proved!Written, S!Holds, Proved!Holds,
         S!OpenStreams, Proved!OpenStreams, S!NoConn, Proved!NoConn
<1> QED
  BY <1>1, <1>2, <1>3 DEF S!UpOrder, Proved!UpOrder

-----------------------------------------------------------------------------
(* A step of the two together is a step of each *)

\* For the uplink, of HttpUp or none.
LEMMA UplinkStep == [CNext]_cvars => [UNext]_uvars
<1> SUFFICES ASSUME [CNext]_cvars PROVE [UNext]_uvars
  OBVIOUS
<1>1. ASSUME NEW a \in Tries, Forward(a) PROVE UNext
  BY <1>1 DEF Forward, UNext, Handler
<1>2. CASE Uplink
  <2>1. ASSUME NEW a \in Tries, Arrive(a) \/ PushRefused(a) \/ PushDone(a) \/ Cancel(a)
        PROVE  UNext
    BY <2>1 DEF UNext, Handler
  <2>2. CASE Page \/ Delete
    BY <2>2 DEF UNext
  <2> QED
    BY <1>2, <2>1, <2>2 DEF Uplink
<1>3. CASE SessionStep
  <2>1. CASE loop' \in S!Ended
    BY <1>3, <2>1 DEF SessionStep, UNext
  <2>2. CASE loop' \notin S!Ended /\ Len(frames') < Len(frames)
    BY <1>3, <2>2 DEF SessionStep, UNext
  <2>3. CASE loop' \notin S!Ended /\ ~(Len(frames') < Len(frames))
    BY <1>3, <2>3 DEF SessionStep
  <2> QED
    BY <2>1, <2>2, <2>3
<1>4. CASE UNCHANGED cvars
  BY <1>4 DEF cvars
<1> QED
  BY <1>1, <1>2, <1>3, <1>4 DEF CNext

\* A step of the session that is none of its loop.
Aside == /\ [Proved!Next]_(Proved!vars)
         /\ UNCHANGED <<frames, sent, loop, cur, streams>>

LEMMA AsideSteps ==
  /\ S!CloseInput \/ S!Take \/ S!DropOut => Aside
  /\ \A c \in S!Conn : S!Reader(c) \/ S!Backend(c) => Aside
  /\ UNCHANGED session => Aside
<1>1. ASSUME S!CloseInput \/ S!Take \/ S!DropOut PROVE Aside
  <2>1. Proved!CloseInput \/ Proved!Take \/ Proved!DropOut
    BY <1>1, SameCarrier
  <2>2. UNCHANGED <<frames, sent, loop, cur, streams>>
    BY <2>1 DEF Proved!CloseInput, Proved!Take, Proved!DropOut
  <2> QED
    BY <2>1, <2>2 DEF Proved!Next, Proved!Carrier, Aside
<1>2. ASSUME NEW c \in S!Conn, S!Reader(c) \/ S!Backend(c) PROVE Aside
  <2>1. c \in Proved!Conn /\ (Proved!Reader(c) \/ Proved!Backend(c))
    BY <1>2, SameConnections
  <2>2. UNCHANGED <<frames, sent, loop, cur, streams>>
    BY <2>1 DEF Proved!Reader, Proved!ReaderData, Proved!ReaderEof, Proved!Backend,
                Proved!BackendSend, Proved!BackendFin, Proved!BackendReset
  <2> QED
    BY <2>1, <2>2 DEF Proved!Next, Aside
<1>3. UNCHANGED session => Aside
  BY DEF session, Proved!vars, Aside
<1> QED
  BY <1>1, <1>2, <1>3

\* For the session, of its loop or aside, but for what a handler forwards.
LEMMA SessionSteps ==
  ASSUME [CNext]_cvars
  PROVE  \/ \E a \in Tries : Forward(a)
         \/ Proved!Loop /\ applied' = applied
         \/ Aside /\ applied' = applied
<1>1. CASE Uplink
  <2>1. applied' = applied
    BY <1>1 DEF Uplink, Arrive, PushRefused, PushDone, Cancel, Page, SendFirst, GetAck,
                SendNext, Retry, Close, Delete, server
  <2>2. S!CloseInput \/ UNCHANGED session
    BY <1>1 DEF Uplink
  <2> QED
    BY <2>1, <2>2, AsideSteps
<1>2. CASE SessionStep
  <2>1. Proved!Loop
    BY <1>2, SameLoop DEF SessionStep
  <2>2. applied' = applied
    <3>1. SessionReturns \/ SessionTake \/ UNCHANGED uvars
      <4>1. CASE loop' \in S!Ended
        BY <1>2, <4>1 DEF SessionStep
      <4>2. CASE loop' \notin S!Ended /\ Len(frames') < Len(frames)
        BY <1>2, <4>2 DEF SessionStep
      <4>3. CASE loop' \notin S!Ended /\ ~(Len(frames') < Len(frames))
        BY <1>2, <4>3 DEF SessionStep
      <4> QED
        BY <4>1, <4>2, <4>3
    <3> QED
      BY <3>1 DEF SessionReturns, SessionTake, uvars, server
  <2> QED
    BY <2>1, <2>2
<1>3. CASE Downlink /\ UNCHANGED uvars
  <2>1. S!Take \/ S!DropOut \/ \E c \in S!Conn : S!Reader(c) \/ S!Backend(c)
    BY <1>3 DEF Downlink, Forwarder
  <2>2. Aside
    BY <2>1, AsideSteps
  <2> QED
    BY <1>3, <2>2 DEF uvars, server
<1>4. CASE UNCHANGED cvars
  BY <1>4, AsideSteps DEF cvars, uvars, server
<1> QED
  BY <1>1, <1>2, <1>3, <1>4 DEF CNext

LEMMA SameProgram == [CNext]_cvars => program' = program
BY DEF CNext, cvars

-----------------------------------------------------------------------------
(* The frames of the client *)

\* DATA frames of stream i among the first k frames.
Chunks(i, k) == {m \in 1 .. k : program[m].ty = "DATA" /\ program[m].id = i}

LEMMA ChunksCount ==
  ASSUME NEW i, NEW k \in Nat
  PROVE  /\ IsFiniteSet(Chunks(i, k))
         /\ Cardinality(Chunks(i, k)) \in Nat
<1>1. Chunks(i, k) \subseteq 1 .. k
  BY DEF Chunks
<1>2. IsFiniteSet(1 .. k)
  BY FS_Interval
<1> QED
  BY <1>1, <1>2, FS_Subset, FS_CardinalityType

\* The next frame counts, or not.
LEMMA NextChunk ==
  ASSUME NEW i, NEW k \in Nat, NEW m, m = k + 1
  PROVE  Cardinality(Chunks(i, m)) =
           IF program[m].ty = "DATA" /\ program[m].id = i
           THEN Cardinality(Chunks(i, k)) + 1 ELSE Cardinality(Chunks(i, k))
<1>1. \A x : x \in 1 .. m <=> x \in 1 .. k \/ x = m
  OBVIOUS
<1>2. CASE program[m].ty = "DATA" /\ program[m].id = i
  <2>1. Chunks(i, m) = Chunks(i, k) \cup {m}
    BY <1>1, <1>2 DEF Chunks
  <2>2. m \notin Chunks(i, k)
    BY DEF Chunks
  <2> QED
    BY <1>2, <2>1, <2>2, ChunksCount, FS_AddElement
<1>3. CASE ~(program[m].ty = "DATA" /\ program[m].id = i)
  <2>1. Chunks(i, m) = Chunks(i, k)
    BY <1>1, <1>3 DEF Chunks
  <2> QED
    BY <1>3, <2>1
<1> QED
  BY <1>2, <1>3

LEMMA FrameParts ==
  ASSUME program \in Programs, NEW k \in 1 .. MaxFrames
  PROVE  /\ program[k] \in ClientFrame
         /\ FrameOf(k).ty = program[k].ty /\ FrameOf(k).id = program[k].id
         /\ FrameOf(k).n = Cardinality(Chunks(program[k].id, k))
         /\ FrameOf(k) \in Proved!Frame
<1>1. program \in Seq(ClientFrame) /\ Len(program) = MaxFrames
  BY CarrierAssumption
<1>2. program[k] \in ClientFrame
  BY <1>1
<1>3. /\ FrameOf(k).ty = program[k].ty /\ FrameOf(k).id = program[k].id
      /\ FrameOf(k).n = Cardinality(Chunks(program[k].id, k))
      /\ FrameOf(k) = [ty |-> program[k].ty, id |-> program[k].id,
                       n |-> Cardinality(Chunks(program[k].id, k))]
  BY DEF FrameOf, Chunks
<1>4. Cardinality(Chunks(program[k].id, k)) \in Nat
  BY UpAssumption, ChunksCount
<1>5. program[k].ty \in Proved!FrameTypes /\ program[k].id \in Ids \cup {0}
  BY <1>2, SamePushes DEF ClientFrame
<1>6. FrameOf(k) \in Proved!Frame
  BY <1>3, <1>4, <1>5 DEF Proved!Frame
<1> QED
  BY <1>2, <1>3, <1>6

-----------------------------------------------------------------------------
(* What does not depend on the numbers of the frames *)

Carried == Delivery /\ Proved!Sound /\ program \in Programs

\* What handler a forwards is a frame of the client.
LEMMA ForwardFrame ==
  ASSUME Carried, NEW a \in Tries, Forward(a)
  PROVE  /\ req[a].next \in 1 .. MaxFrames
         /\ applied' = Append(applied, req[a].next)
         /\ FrameOf(req[a].next) \in Proved!Frame
         /\ Proved!Enqueue(FrameOf(req[a].next))
<1>1. req[a].next <= req[a].last /\ applied' = Append(applied, req[a].next)
      /\ S!Enqueue(FrameOf(req[a].next))
  BY DEF Forward, PushFrame
<1>2. req[a].next \in 1 .. MaxFrames
  BY <1>1, Places, UpAssumption DEF Carried, Delivery
<1> QED
  BY <1>1, <1>2, SameCarrier, FrameParts DEF Carried

LEMMA CarriedStep ==
  ASSUME Carried, [CNext]_cvars
  PROVE  Carried'
<1>1. Delivery'
  BY UplinkStep, DeliveryStep DEF Carried
<1>2. program' \in Programs
  BY SameProgram DEF Carried
<1>3. Proved!Sound'
  <2>1. CASE \E a \in Tries : Forward(a)
    BY <2>1, ForwardFrame, Proved!SoundEnqueue, SessionConstants DEF Carried
  <2>2. CASE Proved!Loop \/ Aside
    <3>1. [Proved!Next]_(Proved!vars)
      BY <2>2 DEF Aside, Proved!Next
    <3> QED
      BY <3>1, Proved!SoundNext, SessionConstants DEF Carried
  <2> QED
    BY <2>1, <2>2, SessionSteps
<1> QED
  BY <1>1, <1>2, <1>3 DEF Carried

LEMMA CarriedInit == CInit => Carried
<1>1. CInit => Proved!Sound
  BY SameInit, Proved!SoundInit, SessionConstants DEF CInit
<1> QED
  BY <1>1, DeliveryInit DEF CInit, Carried

LEMMA CarriedAlways == CSpec => []Carried
BY CarriedInit, CarriedStep, PTL DEF CSpec

\* The uplink behaves as HttpUp says, whatever session is behind it: what is
\* proved of it above holds here.
THEOREM UplinkKept == CSpec => USpec
<1>1. CInit => UInit
  BY DEF CInit
<1> QED
  BY <1>1, UplinkStep, PTL DEF CSpec, USpec

\* Behind the HTTP carrier, frames doubled or not, the channel toward it holds
\* exactly the chunks read and not taken, in order, and a CLOSE only where it
\* is due (run_session_loop, the reader tasks, the forwarder of api_session).
THEOREM DownCarried == CSpec => []DownOrder
<1>1. Carried => DownOrder
  BY SameDownOrder DEF Carried, Proved!Sound, Proved!DownInv, DownOrder
<1> QED
  BY <1>1, CarriedAlways, PTL

-----------------------------------------------------------------------------
(* While no frame is forwarded twice *)

\* The frames come in order, and the session has counted those forwarded.
InTurn ==
  /\ \A p \in DOMAIN applied : applied[p] = p
  /\ \A i \in Ids \cup {0} : sent[i] = Cardinality(Chunks(i, Len(applied)))

\* A handler that doubles no frame forwards the next one.
LEMMA NextInTurn ==
  ASSUME Carried, ~Doubled', InTurn, NEW a \in Tries, Forward(a)
  PROVE  /\ req[a].next = Len(applied) + 1
         /\ Len(applied) \in Nat /\ Len(applied') = Len(applied) + 1
         /\ Len(applied') <= MaxFrames
         /\ \A p \in DOMAIN applied' : applied'[p] = p
<1>1. PICK f, l : f = req[a].next /\ l = Len(applied)
  OBVIOUS
<1>2. f \in 1 .. MaxFrames /\ applied' = Append(applied, f)
  BY <1>1, ForwardFrame
<1>3. /\ l \in Nat /\ DOMAIN applied = 1 .. l
      /\ DOMAIN applied' = 1 .. l + 1 /\ Len(applied') = l + 1
      /\ \A p \in 1 .. l : applied'[p] = applied[p]
      /\ applied'[l + 1] = f
  BY <1>1, <1>2 DEF Carried, Delivery, UTypeOK
<1>4. \A p \in 1 .. l : p # f
  BY <1>3 DEF InTurn, Doubled
<1>5. \A g \in 1 .. f - 1 : g \in 1 .. l
  <2>1. \A g \in 1 .. f - 1 : Applied(g)
    BY <1>1 DEF Carried, Delivery, Prefixed
  <2> QED
    BY <1>3, <2>1 DEF Applied, InTurn
<1>6. f = l + 1
  <2>1. f \in Nat \ {0}
    BY <1>2, UpAssumption
  <2>2. f = 1 \/ f - 1 \in 1 .. f - 1
    BY <2>1
  <2>3. f - 1 <= l
    BY <1>3, <1>5, <2>1, <2>2
  <2>4. ~(f <= l)
    BY <1>3, <1>4, <2>1
  <2> QED
    BY <1>3, <2>1, <2>3, <2>4
<1>7. \A p \in DOMAIN applied' : applied'[p] = p
  BY <1>3, <1>6 DEF InTurn
<1> QED
  BY <1>1, <1>2, <1>3, <1>6, <1>7, UpAssumption

LEMMA DoubledStays == ASSUME Carried, [CNext]_cvars PROVE Doubled => Doubled'
<1>1. CASE \E a \in Tries : Forward(a)
  <2>1. PICK f \in 1 .. MaxFrames : applied' = Append(applied, f)
    BY <1>1, ForwardFrame
  <2>2. /\ DOMAIN applied \subseteq DOMAIN applied'
        /\ \A p \in DOMAIN applied : applied'[p] = applied[p]
    BY <2>1 DEF Carried, Delivery, UTypeOK
  <2> QED
    BY <2>2 DEF Doubled
<1>2. CASE applied' = applied
  BY <1>2 DEF Doubled
<1> QED
  BY <1>1, <1>2, SessionSteps

\* What is forwarded in turn carries the number the session expects.
LEMMA PushedInTurn ==
  ASSUME Carried, [CNext]_cvars, ~Doubled', InTurn, NEW a \in Tries, Forward(a)
  PROVE  /\ Proved!Push(FrameOf(req[a].next))
         /\ InTurn'
<1>1. PICK l : l = Len(applied)
  OBVIOUS
<1>2. PICK k : k = l + 1
  OBVIOUS
<1>3. /\ req[a].next = k /\ l \in Nat /\ Len(applied') = k
      /\ \A p \in DOMAIN applied' : applied'[p] = p
  BY <1>1, <1>2, NextInTurn
<1>4. PICK f : f = FrameOf(k)
  OBVIOUS
<1>5. f \in Proved!Frame /\ Proved!Enqueue(f) /\ k \in 1 .. MaxFrames
  BY <1>3, <1>4, ForwardFrame
<1>6. /\ f.ty = program[k].ty /\ f.id = program[k].id
      /\ f.n = Cardinality(Chunks(f.id, k))
  BY <1>4, <1>5, FrameParts DEF Carried
<1>7. f.id \in Ids \cup {0} /\ sent[f.id] = Cardinality(Chunks(f.id, l))
  BY <1>1, <1>5 DEF Proved!Frame, InTurn
<1>8. f.n = Proved!Position(f.ty, f.id)
  BY <1>2, <1>3, <1>6, <1>7, NextChunk DEF Proved!Position
<1>9. Proved!Push(f)
  BY <1>5, <1>8 DEF Proved!Push
<1>10. sent' = [sent EXCEPT ![f.id] = f.n] /\ program' = program
  BY <1>5, SameProgram DEF Proved!Enqueue
<1>11. sent \in [Ids \cup {0} -> Nat]
  BY DEF Carried, Proved!Sound, Proved!TypeOK
<1>12. ASSUME NEW i \in Ids \cup {0}
       PROVE  sent'[i] = Cardinality(Chunks(i, k))
  <2>1. CASE i = f.id
    BY <1>6, <1>7, <1>10, <1>11, <2>1
  <2>2. CASE i # f.id
    <3>1. sent'[i] = Cardinality(Chunks(i, l))
      BY <1>1, <1>10, <1>11, <2>2 DEF InTurn
    <3> QED
      BY <1>2, <1>3, <1>6, <2>2, <3>1, NextChunk
  <2> QED
    BY <2>1, <2>2
<1> QED
  BY <1>3, <1>4, <1>9, <1>10, <1>12 DEF InTurn, Chunks

\* The loop numbers no frame.
LEMMA LoopNumbersNone ==
  ASSUME Proved!Loop
  PROVE  sent' = sent
BY DEF Proved!Loop, Proved!RecvHello, Proved!SendWelcome, Proved!WelcomeRefused,
       Proved!RecvOpen, Proved!ConnectOk, Proved!ConnectFail, Proved!RecvData,
       Proved!WriteOk, Proved!WriteFail, Proved!RecvClose, Proved!RecvIgnored,
       Proved!RecvUnexpected, Proved!RecvBye, Proved!RecvClosed, Proved!SendBye,
       Proved!Fail, Proved!Suspend, Proved!Resume, Proved!Handled, Proved!Shutdown

LEMMA InTurnStep ==
  ASSUME Carried, ~Doubled => InTurn, [CNext]_cvars
  PROVE  ~Doubled' => InTurn'
<1> SUFFICES ASSUME ~Doubled' PROVE InTurn'
  OBVIOUS
<1>1. InTurn
  BY DoubledStays
<1>2. CASE \E a \in Tries : Forward(a)
  BY <1>1, <1>2, PushedInTurn
<1>3. CASE sent' = sent /\ applied' = applied
  BY <1>1, <1>3, SameProgram DEF InTurn, Chunks
<1> QED
  BY <1>2, <1>3, SessionSteps, LoopNumbersNone DEF Aside

LEMMA InTurnInit == CInit => InTurn
<1> SUFFICES ASSUME CInit PROVE InTurn
  OBVIOUS
<1>1. applied = <<>> /\ Len(applied) = 0 /\ DOMAIN applied = {}
  BY DEF CInit, UInit
<1>2. \A i : Chunks(i, 0) = {}
  BY DEF Chunks
<1>3. \A i \in Ids \cup {0} : sent[i] = 0
  BY SameInit DEF CInit, Proved!Init
<1> QED
  BY <1>1, <1>2, <1>3, FS_EmptySet DEF InTurn

\* However handlers are dropped or run at once, until a retry of the page makes
\* one forward a frame again the session is driven as Session.tla expects
\* (api_up, which keeps no record of sequence numbers): what is proved there
\* holds behind this carrier.
THEOREM SessionDriven == CSpec => DrivesUnlessDoubled
<1>1. CInit => S!Init
  BY DEF CInit
<1>2. Carried /\ (~Doubled => InTurn) /\ [CNext]_cvars
        => (~Doubled => InTurn)' /\ [Doubled' \/ S!Next]_session
  <2> SUFFICES ASSUME Carried, ~Doubled => InTurn, [CNext]_cvars
               PROVE  (~Doubled => InTurn)' /\ [Doubled' \/ S!Next]_session
    OBVIOUS
  <2>1. (~Doubled => InTurn)'
    BY InTurnStep
  <2>2. ASSUME ~Doubled', NEW a \in Tries, Forward(a) PROVE S!Next
    <3>1. S!Push(FrameOf(req[a].next))
      BY <2>2, PushedInTurn, DoubledStays, SamePushes
    <3>2. PICK f : f = FrameOf(req[a].next)
      OBVIOUS
    <3>3. /\ f \in Proved!Frame /\ req[a].next \in 1 .. MaxFrames
          /\ f = [ty |-> f.ty, id |-> f.id, n |-> f.n]
      BY <2>2, <3>2, ForwardFrame DEF FrameOf
    <3>4. /\ f.ty \in S!FrameTypes \ {"WINDOW", "PONG", "BYE", "OTHER"} => f.id \in Ids \cup {0}
          /\ f.ty \in {"WINDOW", "PONG", "BYE", "OTHER"} => f.id = 0
          /\ f.ty \in S!FrameTypes
      BY <3>2, <3>3, FrameParts DEF Carried, ClientFrame
    <3> QED
      BY <3>1, <3>2, <3>3, <3>4 DEF S!Next, S!Carrier, S!Push, S!FrameTypes
  <2>3. ASSUME Proved!Loop \/ Aside PROVE [S!Next]_session
    <3>1. [Proved!Next]_(Proved!vars)
      BY <2>3 DEF Aside, Proved!Next
    <3>2. CASE Proved!Next
      BY <3>2, SameNext
    <3>3. CASE UNCHANGED Proved!vars
      BY <3>3 DEF Proved!vars, session
    <3> QED
      BY <3>1, <3>2, <3>3
  <2> QED
    BY <2>1, <2>2, <2>3, SessionSteps
<1>3. CInit => (~Doubled => InTurn)
  BY InTurnInit
<1> QED
  BY <1>1, <1>2, <1>3, CarriedAlways, PTL DEF CSpec, DrivesUnlessDoubled

\* Until then what the loop still has to do keeps the order and the
\* completeness of what was forwarded (run_session_loop, api_up).
THEOREM UpUnlessDoubled == CSpec => [](Doubled \/ S!UpOrder)
<1>1. CInit => InTurn /\ (~Doubled => Proved!UpOrder)
  BY InTurnInit, SameInit, Proved!SoundInit, SessionConstants DEF CInit
<1>2. Carried /\ (~Doubled => InTurn) /\ (~Doubled => Proved!UpOrder) /\ [CNext]_cvars
        => (~Doubled => InTurn)' /\ (~Doubled => Proved!UpOrder)'
  <2> SUFFICES ASSUME Carried, ~Doubled => InTurn, ~Doubled => Proved!UpOrder, [CNext]_cvars
               PROVE  (~Doubled => InTurn)' /\ (~Doubled => Proved!UpOrder)'
    OBVIOUS
  <2>1. (~Doubled => InTurn)'
    BY InTurnStep
  <2>2. ASSUME ~Doubled', NEW a \in Tries, Forward(a) PROVE Proved!UpOrder'
    <3>1. Proved!Push(FrameOf(req[a].next)) /\ FrameOf(req[a].next) \in Proved!Frame
      BY <2>2, PushedInTurn, DoubledStays, ForwardFrame
    <3>2. Proved!UpOrder /\ Proved!TypeOK
      BY <2>2, DoubledStays DEF Carried, Proved!Sound
    <3> QED
      BY <3>1, <3>2, Proved!UpPush, SessionConstants DEF Proved!Push
  <2>3. ASSUME ~Doubled', Proved!Loop \/ Aside PROVE Proved!UpOrder'
    <3>1. [Proved!Next]_(Proved!vars)
      BY <2>3 DEF Aside, Proved!Next
    <3>2. Proved!UpOrder /\ Proved!Sound
      BY <2>3, DoubledStays DEF Carried
    <3> QED
      BY <3>1, <3>2, Proved!UpNext, SessionConstants
  <2> QED
    BY <2>1, <2>2, <2>3, SessionSteps
<1>3. (~Doubled => Proved!UpOrder) => Doubled \/ S!UpOrder
  BY SameUpOrder
<1> QED
  BY <1>1, <1>2, <1>3, CarriedAlways, PTL DEF CSpec

\* So until then page, handlers, session and forwarder together are to the
\* client the numbered pipes of Mux: doubled frames are the only way in which
\* this carrier can be told from them (api_up, run_session_loop).
THEOREM PromiseUnlessDoubled ==
  CSpec => /\ Proved!Promised!Init
           /\ [][Doubled' \/ Proved!Promised!Next]_(Proved!Promised!mvars)
<1>1. CInit => Proved!Promised!Init
  BY SameInit, Proved!PromiseInit, SessionConstants DEF CInit
<1>2. Carried /\ (Doubled \/ S!UpOrder) /\ [CNext]_cvars
        => [Doubled' \/ Proved!Promised!Next]_(Proved!Promised!mvars)
  <2> SUFFICES ASSUME Carried, Doubled \/ S!UpOrder, [CNext]_cvars, ~Doubled'
               PROVE  [Proved!Promised!Next]_(Proved!Promised!mvars)
    OBVIOUS
  <2>1. Proved!Sound /\ Proved!UpOrder
    BY DoubledStays, SameUpOrder DEF Carried
  <2>2. ASSUME NEW a \in Tries, Forward(a) PROVE UNCHANGED Proved!Promised!mvars
    BY <2>2, ForwardFrame, Proved!PromiseEnqueue, SessionConstants
  <2>3. ASSUME Proved!Loop \/ Aside PROVE [Proved!Promised!Next]_(Proved!Promised!mvars)
    <3>1. [Proved!Next]_(Proved!vars)
      BY <2>3 DEF Aside, Proved!Next
    <3> QED
      BY <2>1, <3>1, Proved!PromiseNext, SessionConstants
  <2> QED
    BY <2>2, <2>3, SessionSteps
<1> QED
  BY <1>1, <1>2, CarriedAlways, UpUnlessDoubled, PTL DEF CSpec

-----------------------------------------------------------------------------
(* What a client that keeps the protocol has opened *)

LEMMA NextOpened ==
  ASSUME NEW p, NEW k \in Nat, NEW m, m = k + 1, NEW i \in Ids
  PROVE  i \in Opened(p, m) <=>
           \/ p[m].ty = "OPEN" /\ p[m].id = i
           \/ i \in Opened(p, k) /\ ~(p[m].ty = "CLOSE" /\ p[m].id = i)
<1>0. \A x : x \in 1 .. m <=> x \in 1 .. k \/ x = m
  OBVIOUS
<1>1. ASSUME p[m].ty = "OPEN" /\ p[m].id = i PROVE i \in Opened(p, m)
  <2>1. m \in 1 .. m /\ m + 1 .. m = {}
    OBVIOUS
  <2> QED
    BY <1>1, <2>1 DEF Opened
<1>2. ASSUME i \in Opened(p, k), ~(p[m].ty = "CLOSE" /\ p[m].id = i)
      PROVE  i \in Opened(p, m)
  <2>1. PICK o \in 1 .. k : /\ p[o].ty = "OPEN" /\ p[o].id = i
                            /\ \A j \in o + 1 .. k : ~(p[j].ty = "CLOSE" /\ p[j].id = i)
    BY <1>2 DEF Opened
  <2>2. o \in 1 .. m /\ \A j \in o + 1 .. m : j \in o + 1 .. k \/ j = m
    OBVIOUS
  <2> QED
    BY <1>2, <2>1, <2>2 DEF Opened
<1>3. ASSUME i \in Opened(p, m), ~(p[m].ty = "OPEN" /\ p[m].id = i)
      PROVE  i \in Opened(p, k) /\ ~(p[m].ty = "CLOSE" /\ p[m].id = i)
  <2>1. PICK o \in 1 .. m : /\ p[o].ty = "OPEN" /\ p[o].id = i
                            /\ \A j \in o + 1 .. m : ~(p[j].ty = "CLOSE" /\ p[j].id = i)
    BY <1>3 DEF Opened
  <2>2. o # m
    BY <1>3, <2>1
  <2>3. o \in 1 .. k /\ m \in o + 1 .. m /\ \A j \in o + 1 .. k : j \in o + 1 .. m
    BY <2>2
  <2> QED
    BY <2>1, <2>3 DEF Opened
<1> QED
  BY <1>1, <1>2, <1>3

\* Frame f is the client's frame number k.
Is(f, k) == f.ty = program[k].ty /\ f.id = program[k].id

\* The loop has received h frames, no BYE among them, and opened and closed
\* what they open and close; the frames after them wait.
Received(h) ==
  /\ h + Len(frames) = Len(applied)
  /\ \A j \in DOMAIN frames : Is(frames[j], h + j)
  /\ \A j \in 1 .. h : program[j].ty # "BYE"
  /\ loop = "recv" => S!OpenStreams = Opened(program, h)
  /\ loop = "busy" => /\ h # 0 /\ Is(cur, h)
                      /\ S!OpenStreams = Opened(program, h - 1)

Following == loop \in {"recv", "busy"} => \E h \in Nat : Received(h)

\* In numbers.
LEMMA Waiting ==
  ASSUME Carried, NEW h \in Nat, Received(h)
  PROVE  /\ frames \in Seq(Proved!Frame) /\ Len(frames) \in Nat
         /\ DOMAIN frames = 1 .. Len(frames)
         /\ Len(applied) \in Nat /\ streams \in [Ids -> Proved!Conn \cup {Proved!NoConn}]
         /\ nconns \in Nat
BY DEF Carried, Delivery, UTypeOK, Proved!Sound, Proved!TypeOK

\* The next frame, received.
LEMMA NextReceived ==
  ASSUME Carried, NEW h \in Nat, Received(h), frames # <<>>, NEW k, k = h + 1,
         frames' = Tail(frames), applied' = applied, program' = program
  PROVE  /\ k \in Nat /\ Is(Head(frames), k)
         /\ k + Len(frames') = Len(applied')
         /\ \A j \in DOMAIN frames' : Is(frames[j + 1], k + j) /\ frames'[j] = frames[j + 1]
<1>1. /\ Len(frames) \in Nat \ {0} /\ DOMAIN frames = 1 .. Len(frames)
      /\ Head(frames) = frames[1] /\ Len(frames') = Len(frames) - 1
      /\ DOMAIN frames' = 1 .. Len(frames) - 1
      /\ \A j \in 1 .. Len(frames) - 1 : frames'[j] = frames[j + 1]
  BY Waiting
<1>2. Is(frames[1], k)
  BY <1>1 DEF Received
<1>3. k + Len(frames') = Len(applied)
  BY <1>1 DEF Received
<1>4. ASSUME NEW j \in 1 .. Len(frames) - 1
      PROVE  Is(frames[j + 1], k + j)
  <2>1. j + 1 \in DOMAIN frames /\ h + (j + 1) = k + j
    BY <1>1
  <2>2. Is(frames[j + 1], h + (j + 1))
    BY <2>1 DEF Received
  <2> QED
    BY <2>1, <2>2
<1> QED
  BY <1>1, <1>2, <1>3, <1>4

\* A handler suspends on it.
LEMMA SuspendFollows ==
  ASSUME Carried, NEW h \in Nat, Received(h), loop = "recv", frames # <<>>,
         Head(frames).ty # "BYE", S!Suspend, applied' = applied, program' = program
  PROVE  Following'
<1>1. PICK k : k = h + 1
  OBVIOUS
<1>2. frames' = Tail(frames) /\ cur' = Head(frames) /\ streams' = streams /\ loop' = "busy"
  BY DEF S!Suspend
<1>3. /\ k \in Nat /\ Is(Head(frames), k) /\ k + Len(frames') = Len(applied')
      /\ \A j \in DOMAIN frames' : Is(frames'[j], k + j)
  BY <1>1, <1>2, NextReceived
<1>4. \A j \in 1 .. k : program[j].ty # "BYE"
  <2>1. \A j \in 1 .. k : j \in 1 .. h \/ j = k
    BY <1>1
  <2> QED
    BY <1>3, <2>1 DEF Received, Is
<1>5. k # 0 /\ k - 1 = h
  BY <1>1
<1>6. S!OpenStreams' = Opened(program, k - 1)
  BY <1>2, <1>5 DEF Received, S!OpenStreams
<1>7. Received(k)'
  BY <1>2, <1>3, <1>4, <1>5, <1>6 DEF Received, Is, Opened
<1> QED
  BY <1>3, <1>7 DEF Following

\* It is handled without waiting.
LEMMA HandledFollows ==
  ASSUME Carried, NEW h \in Nat, Received(h), loop = "recv", frames # <<>>,
         Head(frames).ty # "BYE", frames' = Tail(frames), loop' = loop,
         applied' = applied, program' = program,
         \A i \in Ids : i \in S!OpenStreams' <=>
           /\ i \in S!OpenStreams
           /\ ~(Head(frames).ty = "CLOSE" /\ Head(frames).id = i),
         Head(frames).ty # "OPEN"
  PROVE  Following'
<1>1. PICK k : k = h + 1
  OBVIOUS
<1>2. /\ k \in Nat /\ Is(Head(frames), k) /\ k + Len(frames') = Len(applied')
      /\ \A j \in DOMAIN frames' : Is(frames'[j], k + j)
  BY <1>1, NextReceived
<1>3. \A j \in 1 .. k : program[j].ty # "BYE"
  <2>1. \A j \in 1 .. k : j \in 1 .. h \/ j = k
    BY <1>1
  <2> QED
    BY <1>2, <2>1 DEF Received, Is
<1>4. S!OpenStreams' = Opened(program, k)
  <2>1. S!OpenStreams = Opened(program, h)
    BY DEF Received
  <2>2. \A i \in Ids : i \in S!OpenStreams' <=> i \in Opened(program, k)
    BY <1>1, <1>2, <2>1, NextOpened DEF Is
  <2> QED
    BY <2>2 DEF S!OpenStreams, Opened
<1>5. Received(k)'
  <2>1. Opened(program, k)' = Opened(program, k)
    BY DEF Opened
  <2>2. S!OpenStreams' = Opened(program, k)'
    BY <1>4, <2>1
  <2>3. loop' = "recv"
    OBVIOUS
  <2> QED
    BY <1>2, <1>3, <2>2, <2>3 DEF Received, Is
<1> QED
  BY <1>2, <1>5 DEF Following

\* The suspended handler returns.
LEMMA ResumeFollows ==
  ASSUME Carried, NEW h \in Nat, Received(h), loop = "busy", loop' = "recv",
         frames' = frames, applied' = applied, program' = program,
         cur.ty # "CLOSE",
         \A i \in Ids : i \in S!OpenStreams' <=>
           i \in S!OpenStreams \/ (cur.ty = "OPEN" /\ cur.id = i)
  PROVE  Following'
<1>1. PICK k : k = h - 1
  OBVIOUS
<1>2. h # 0 /\ Is(cur, h) /\ S!OpenStreams = Opened(program, k)
  BY <1>1 DEF Received
<1>3. k \in Nat /\ h = k + 1
  BY <1>1, <1>2
<1>4. S!OpenStreams' = Opened(program, h)
  <2>1. \A i \in Ids : i \in S!OpenStreams' <=> i \in Opened(program, h)
    BY <1>2, <1>3, NextOpened DEF Is
  <2> QED
    BY <2>1 DEF S!OpenStreams, Opened
<1>5. Received(h)'
  BY <1>4 DEF Received, Is, Opened
<1> QED
  BY <1>5 DEF Following

LEMMA LoopFollows ==
  ASSUME Carried, Following, Proved!Loop, applied' = applied, program' = program
  PROVE  Following'
<1>0. S!Loop /\ streams \in [Ids -> Proved!Conn \cup {Proved!NoConn}] /\ nconns \in Nat
  BY SameLoop DEF Carried, Proved!Sound, Proved!TypeOK
<1>1. ASSUME S!Fail \/ S!SendBye \/ S!RecvBye \/ S!RecvClosed PROVE Following'
  BY <1>1 DEF S!Fail, S!SendBye, S!RecvBye, S!RecvClosed, S!Shutdown, Following
<1>2. CASE S!WelcomeRefused \/ S!ConnectFail \/ S!WriteFail \/ S!RecvUnexpected
  BY <1>1, <1>2 DEF S!WelcomeRefused, S!ConnectFail, S!WriteFail, S!RecvUnexpected
<1>3. CASE S!RecvHello \/ S!RecvOpen \/ S!RecvData
  <2>1. loop = "recv" /\ frames # <<>> /\ Head(frames).ty # "BYE"
    BY <1>3 DEF S!RecvHello, S!RecvOpen, S!RecvData, S!Receive
  <2>2. S!Fail \/ S!Suspend
    BY <1>3 DEF S!RecvHello, S!RecvOpen, S!RecvData
  <2> QED
    BY <1>1, <2>1, <2>2, SuspendFollows DEF Following
<1>4. CASE S!SendWelcome \/ S!WriteOk
  <2>1. loop = "busy" /\ loop' = "recv" /\ frames' = frames /\ streams' = streams
        /\ cur.ty \notin {"OPEN", "CLOSE"}
    BY <1>4 DEF S!SendWelcome, S!WriteOk, S!Suspended, S!Resume
  <2>2. S!OpenStreams' = S!OpenStreams
    BY <2>1 DEF S!OpenStreams
  <2> QED
    BY <2>1, <2>2, ResumeFollows DEF Following
<1>5. CASE S!ConnectOk
  <2>1. /\ loop = "busy" /\ loop' = "recv" /\ frames' = frames /\ cur.ty = "OPEN"
        /\ streams' = [streams EXCEPT ![cur.id] = nconns + 1]
    BY <1>5 DEF S!ConnectOk, S!Suspended, S!Resume
  <2>2. ASSUME NEW i \in Ids
        PROVE  i \in S!OpenStreams' <=> i \in S!OpenStreams \/ cur.id = i
    BY <1>0, <2>1 DEF S!OpenStreams, S!NoConn
  <2> QED
    BY <2>1, <2>2, ResumeFollows DEF Following
<1>6. CASE S!RecvClose
  <2>1. /\ loop = "recv" /\ loop' = loop /\ frames # <<>> /\ Head(frames).ty = "CLOSE"
        /\ frames' = Tail(frames)
        /\ streams' = [i \in Ids |-> IF i = Head(frames).id THEN S!NoConn ELSE streams[i]]
    BY <1>6 DEF S!RecvClose, S!Receive, S!Handled
  <2>2. ASSUME NEW i \in Ids
        PROVE  i \in S!OpenStreams' <=> i \in S!OpenStreams /\ Head(frames).id # i
    BY <2>1 DEF S!OpenStreams
  <2> QED
    BY <2>1, <2>2, HandledFollows DEF Following
<1>7. CASE S!RecvIgnored
  <2>1. /\ loop = "recv" /\ loop' = loop /\ frames # <<>>
        /\ Head(frames).ty \in {"WINDOW", "PONG"}
        /\ frames' = Tail(frames) /\ streams' = streams
    BY <1>7 DEF S!RecvIgnored, S!Receive, S!Handled
  <2>2. S!OpenStreams' = S!OpenStreams
    BY <2>1 DEF S!OpenStreams
  <2> QED
    BY <2>1, <2>2, HandledFollows DEF Following
<1> QED
  BY <1>0, <1>1, <1>2, <1>3, <1>4, <1>5, <1>6, <1>7 DEF S!Loop

\* What a handler forwards in turn waits behind what waits.
LEMMA ForwardFollows ==
  ASSUME Carried, InTurn, Following, ~Doubled', [CNext]_cvars, NEW a \in Tries, Forward(a)
  PROVE  Following'
<1>1. PICK f, l : f = req[a].next /\ l = Len(frames)
  OBVIOUS
<1>2. /\ f = Len(applied) + 1 /\ Len(applied) \in Nat /\ Len(applied') = f
      /\ Proved!Enqueue(FrameOf(f)) /\ FrameOf(f) \in Proved!Frame
      /\ f \in 1 .. MaxFrames /\ Is(FrameOf(f), f)
  BY <1>1, NextInTurn, ForwardFrame, FrameParts DEF Carried, Is
<1>3. /\ frames' = Append(frames, FrameOf(f))
      /\ UNCHANGED <<loop, cur, streams>> /\ program' = program
  BY <1>2, SameProgram DEF Proved!Enqueue
<1>4. ASSUME loop \in {"recv", "busy"} PROVE Following'
  <2>1. PICK h \in Nat : Received(h)
    BY <1>4 DEF Following
  <2>2. /\ l \in Nat /\ DOMAIN frames = 1 .. l /\ DOMAIN frames' = 1 .. l + 1
        /\ Len(frames') = l + 1 /\ frames'[l + 1] = FrameOf(f)
        /\ \A j \in 1 .. l : frames'[j] = frames[j]
    BY <1>1, <1>2, <1>3, <2>1, Waiting
  <2>3. h + l = Len(applied)
    BY <1>1, <2>1 DEF Received
  <2>4. h + Len(frames') = Len(applied')
    BY <1>2, <2>2, <2>3
  <2>5. \A j \in DOMAIN frames' : Is(frames'[j], h + j)
    <3>1. \A j \in 1 .. l + 1 : j \in 1 .. l \/ j = l + 1
      BY <2>2
    <3>2. h + (l + 1) = f
      BY <1>2, <2>2, <2>3
    <3> QED
      BY <1>2, <2>1, <2>2, <3>1, <3>2 DEF Received
  <2>6. Received(h)'
    BY <1>3, <2>1, <2>4, <2>5 DEF Received, Is, Opened, S!OpenStreams
  <2> QED
    BY <2>6 DEF Following
<1> QED
  BY <1>3, <1>4 DEF Following

LEMMA FollowingStep ==
  ASSUME Carried, ~Doubled => InTurn, ~Doubled => Following, [CNext]_cvars
  PROVE  ~Doubled' => Following'
<1> SUFFICES ASSUME ~Doubled' PROVE Following'
  OBVIOUS
<1>1. InTurn /\ Following
  BY DoubledStays
<1>2. CASE \E a \in Tries : Forward(a)
  BY <1>1, <1>2, ForwardFollows
<1>3. CASE Proved!Loop /\ applied' = applied
  BY <1>1, <1>3, LoopFollows, SameProgram
<1>4. CASE Aside /\ applied' = applied
  <2>1. UNCHANGED <<frames, loop, cur, streams, applied, program>>
    BY <1>4, SameProgram DEF Aside
  <2> QED
    BY <1>1, <2>1 DEF Following, Received, Is, Opened, S!OpenStreams
<1> QED
  BY <1>2, <1>3, <1>4, SessionSteps

LEMMA FollowingInit == CInit => Following
<1> SUFFICES ASSUME CInit PROVE Following
  OBVIOUS
<1>1. /\ frames = <<>> /\ applied = <<>> /\ loop = "recv" /\ streams = Proved!NoStreams
  BY SameInit DEF CInit, UInit, Proved!Init
<1>2. S!OpenStreams = Opened(program, 0)
  BY <1>1 DEF S!OpenStreams, S!NoConn, Opened, Proved!NoStreams, Proved!NoConn
<1>3. 0 + Len(frames) = Len(applied) /\ DOMAIN frames = {}
  BY <1>1
<1>4. Received(0)
  BY <1>1, <1>2, <1>3 DEF Received
<1> QED
  BY <1>4 DEF Following

\* The loop takes every frame of a client that keeps the protocol.
LEMMA NoRefusal ==
  ASSUME Carried, InTurn, Following, Proved!Loop, loop = "recv"
  PROVE  loop' # "failed"
<1> SUFFICES ASSUME loop' = "failed" PROVE FALSE
  OBVIOUS
<1>0. S!Loop
  BY SameLoop
<1>1. PICK h \in Nat : Received(h)
  BY DEF Following
<1>2. PICK k, l : k = h + 1 /\ l = Len(frames)
  OBVIOUS
<1>3. S!RecvHello \/ S!RecvOpen \/ S!RecvData \/ S!RecvUnexpected
  BY <1>0 DEF S!Loop, S!SendWelcome, S!WelcomeRefused, S!ConnectOk, S!ConnectFail, S!WriteOk,
              S!WriteFail, S!RecvClose, S!RecvIgnored, S!RecvBye, S!RecvClosed, S!SendBye,
              S!Suspended, S!Receive, S!Handled, S!Shutdown
<1>4. frames # <<>> /\ Head(frames).ty \in {"HELLO", "OPEN", "DATA", "OTHER"}
  BY <1>3 DEF S!RecvHello, S!RecvOpen, S!RecvData, S!RecvUnexpected, S!Receive
<1>5. l \in Nat \ {0} /\ Head(frames) = frames[1] /\ 1 \in DOMAIN frames
  BY <1>1, <1>2, <1>4, Waiting
<1>6. Is(Head(frames), k)
  BY <1>1, <1>2, <1>5 DEF Received
<1>7. k \in DOMAIN program
  <2>1. PICK n : n = Len(applied)
    OBVIOUS
  <2>2. n \in Nat /\ h + l = n
    BY <1>1, <1>2, <2>1, Waiting DEF Received
  <2>3. n \in DOMAIN applied /\ applied[n] = n
    BY <1>5, <2>1, <2>2 DEF InTurn, Carried, Delivery, UTypeOK
  <2>4. n <= MaxFrames
    BY <2>2, <2>3, UpAssumption DEF Carried, Delivery, UTypeOK
  <2>5. DOMAIN program = 1 .. MaxFrames
    BY CarrierAssumption DEF Carried
  <2> QED
    BY <1>2, <1>5, <2>2, <2>4, <2>5, UpAssumption
<1>8. k - 1 = h /\ S!OpenStreams = Opened(program, h)
  BY <1>1, <1>2 DEF Received
<1>9. /\ program[k].ty # "OTHER"
      /\ program[k].ty = "HELLO" => program[k].id = 0
      /\ program[k].ty = "OPEN" => /\ program[k].id \in Ids \ S!OpenStreams
                                   /\ Cardinality(S!OpenStreams) < MaxStreams
      /\ program[k].ty = "DATA" => program[k].id \in S!OpenStreams
  <2>1. KeepsProtocol(program)
    BY CarrierAssumption DEF Carried
  <2>2. \A j \in 1 .. k - 1 : program[j].ty # "BYE"
    BY <1>1, <1>8 DEF Received
  <2> QED
    BY <1>7, <1>8, <2>1, <2>2 DEF KeepsProtocol
<1>10. CASE S!RecvHello
  BY <1>6, <1>9, <1>10 DEF S!RecvHello, S!Receive, S!Suspend, Is
<1>11. CASE S!RecvOpen
  <2>1. program[k].ty = "OPEN" /\ S!OpenRefused(program[k].id)
    BY <1>6, <1>11 DEF S!RecvOpen, S!Receive, S!Suspend, Is
  <2>2. program[k].id \in Ids /\ program[k].id # 0
    BY <1>9, <2>1, CarrierAssumption
  <2>3. ~S!IsOpen(program[k].id)
    BY <1>9, <2>1 DEF S!IsOpen, S!OpenStreams
  <2>4. S!Cardinality(S!OpenStreams) = Cardinality(S!OpenStreams)
    BY DEF S!Cardinality, Cardinality
  <2>5. Cardinality(S!OpenStreams) < MaxStreams /\ Cardinality(S!OpenStreams) \in Nat
    <3>1. S!OpenStreams \subseteq Ids
      BY DEF S!OpenStreams
    <3> QED
      BY <1>9, <2>1, <3>1, CarrierAssumption, FS_Subset, FS_CardinalityType
  <2> QED
    BY <2>1, <2>2, <2>3, <2>4, <2>5, CarrierAssumption DEF S!OpenRefused
<1>12. CASE S!RecvData
  <2>1. S!IsOpen(program[k].id)
    BY <1>6, <1>9, <1>12 DEF S!RecvData, S!Receive, S!IsOpen, S!OpenStreams, Is
  <2> QED
    BY <1>6, <1>12, <2>1 DEF S!RecvData, S!Suspend, Is
<1>13. CASE S!RecvUnexpected
  BY <1>6, <1>9, <1>13 DEF S!RecvUnexpected, S!Receive, Is
<1> QED
  BY <1>3, <1>10, <1>11, <1>12, <1>13

\* A client that keeps the protocol is refused only when a retry of the page
\* made a handler forward a frame again (api_up, handle_frame).
THEOREM RefusedByRetry == CSpec => RefusedOnlyIfDoubled
<1>1. CInit => (~Doubled => InTurn) /\ (~Doubled => Following)
  BY InTurnInit, FollowingInit
<1>2. Carried /\ (~Doubled => InTurn) /\ (~Doubled => Following) /\ [CNext]_cvars
        => (~Doubled => InTurn)' /\ (~Doubled => Following)'
  BY InTurnStep, FollowingStep
<1>3. Carried /\ (~Doubled => InTurn) /\ (~Doubled => Following) /\ [CNext]_cvars
        => [loop = "recv" /\ loop' = "failed" => Doubled]_cvars
  <2> SUFFICES ASSUME Carried, ~Doubled => InTurn, ~Doubled => Following, [CNext]_cvars,
                      loop = "recv", loop' = "failed", ~Doubled
               PROVE  FALSE
    OBVIOUS
  <2>1. CASE \E a \in Tries : Forward(a)
    BY <2>1, ForwardFrame DEF Proved!Enqueue
  <2>2. CASE Proved!Loop
    BY <2>2, NoRefusal
  <2>3. CASE Aside
    BY <2>3 DEF Aside
  <2> QED
    BY <2>1, <2>2, <2>3, SessionSteps
<1> QED
  BY <1>1, <1>2, <1>3, CarriedAlways, PTL DEF CSpec, RefusedOnlyIfDoubled

-----------------------------------------------------------------------------
(* Where the tasks come to rest *)

\* The two descriptions of the frame channel agree, and neither channel is
\* closed at one end only as long as a task may still use the other.
Linked ==
  /\ over <=> loop \in S!Ended
  /\ Len(chan) = Len(frames)
  /\ loop \in S!Ended => frames = <<>>
  /\ inOpen => Senders
  /\ OutSenders => outOpen

\* The places of requests that were forwarded, one for each frame the session
\* has counted: MaxPushes is never what a handler waits for.
Spent == {s \in Tries \X (1 .. BatchMax) : s[2] <= req[s[1]].next - req[s[1]].first}
Metered ==
  /\ \A a \in Tries : req[a].last < req[a].first + BatchMax
  /\ \A a \in Tries : a > tries => req[a] = NoRequest
  /\ pushes = Cardinality(Spent)

LEMMA LoopDoes ==
  ASSUME Proved!Sound, S!Loop
  PROVE  /\ loop \notin S!Ended
         /\ loop' \in S!Ended => frames' = <<>>
         /\ loop' \notin S!Ended =>
              frames' = frames \/ (frames # <<>> /\ frames' = Tail(frames))
         /\ UNCHANGED <<inOpen, pushes, outOpen>>
BY DEF S!Ended, S!Loop, S!RecvHello, S!SendWelcome, S!WelcomeRefused, S!RecvOpen,
       S!ConnectOk, S!ConnectFail, S!RecvData, S!WriteOk, S!WriteFail, S!RecvClose,
       S!RecvIgnored, S!RecvUnexpected, S!RecvBye, S!RecvClosed, S!SendBye, S!Receive,
       S!Fail, S!Suspend, S!Suspended, S!Resume, S!Handled, S!Shutdown

\* What the forwarder, a reader or a backend does to the channel and the readers.
LEMMA DownlinkDoes ==
  ASSUME Proved!Sound, Downlink
  PROVE  /\ UNCHANGED <<frames, inOpen, pushes, loop>>
         /\ OutSenders' => OutSenders
         /\ outOpen /\ ~outOpen' => ~OutSenders
<1>0. conn \in [S!Conn -> Proved!ConnState] /\ outq \in Seq(Proved!Msg)
  BY SameConnections DEF Proved!Sound, Proved!TypeOK
<1>1. CASE S!Take
  <2>1. UNCHANGED <<frames, inOpen, pushes, loop, outOpen>>
    BY <1>1 DEF S!Take
  <2>2. \A c \in S!Conn : conn'[c].reader = conn[c].reader
    BY <1>0, <1>1 DEF S!Take, Proved!ConnState
  <2> QED
    BY <2>1, <2>2 DEF OutSenders
<1>2. CASE ~OutSenders /\ S!DropOut
  BY <1>2 DEF S!DropOut, OutSenders
<1>3. CASE \E c \in S!Conn : S!Reader(c)
  <2>1. PICK c \in S!Conn : S!Reader(c)
    BY <1>3
  <2>2. conn[c].reader = "reading" /\ UNCHANGED <<frames, inOpen, pushes, loop, outOpen>>
    BY <2>1 DEF S!Reader, S!ReaderData, S!ReaderEof
  <2> QED
    BY <2>2 DEF OutSenders
<1>4. CASE \E c \in S!Conn : S!Backend(c)
  <2>1. PICK c \in S!Conn : S!Backend(c)
    BY <1>4
  <2>2. UNCHANGED <<frames, inOpen, pushes, loop, outOpen>>
    BY <2>1 DEF S!Backend, S!BackendSend, S!BackendFin, S!BackendReset
  <2>3. \A d \in S!Conn : conn'[d].reader = conn[d].reader
    <3>1. CASE S!BackendSend(c)
      BY <1>0, <3>1 DEF S!BackendSend, Proved!ConnState
    <3>2. CASE S!BackendFin(c)
      BY <1>0, <3>2 DEF S!BackendFin, Proved!ConnState
    <3>3. CASE S!BackendReset(c)
      BY <1>0, <3>3 DEF S!BackendReset, Proved!ConnState
    <3> QED
      BY <2>1, <3>1, <3>2, <3>3 DEF S!Backend
  <2> QED
    BY <2>2, <2>3 DEF OutSenders
<1> QED
  BY <1>1, <1>2, <1>3, <1>4 DEF Downlink, Forwarder

LEMMA LinkedInit == CInit => Linked
BY DEF CInit, UInit, S!Init, Linked, Senders, OutSenders, S!Ended

LEMMA LinkedStep ==
  ASSUME Carried, Linked, [CNext]_cvars
  PROVE  Linked'
<1>0. /\ chan \in Seq(1 .. MaxFrames) /\ frames \in Seq(Proved!Frame)
      /\ req \in [Tries -> Requests]
  BY DEF Carried, Delivery, UTypeOK, Requests, Proved!Sound, Proved!TypeOK
<1>1. ASSUME NEW a \in Tries, Forward(a) PROVE Linked'
  <2>1. /\ UNCHANGED <<inMap, over, inOpen, loop, conn, outOpen>> /\ loop \notin S!Ended
        /\ req' = [req EXCEPT ![a].next = @ + 1] /\ req[a].pc = "push"
    BY <1>1 DEF Forward, PushFrame, S!Enqueue, client
  <2>2. req'[a].pc = "push"
    BY <1>0, <2>1 DEF Requests
  <2>3. PICK f, g : chan' = Append(chan, f) /\ frames' = Append(frames, g)
    BY <1>1 DEF Forward, PushFrame, S!Enqueue
  <2>4. Len(chan') = Len(frames')
    BY <1>0, <2>3 DEF Linked
  <2> QED
    BY <2>1, <2>2, <2>4 DEF Linked, Senders, OutSenders
<1>2. CASE Uplink
  <2>1. UNCHANGED <<over, chan>>
    BY <1>2 DEF Uplink, Arrive, PushRefused, PushDone, Cancel, Page, SendFirst, GetAck,
                SendNext, Retry, Close, Delete, server
  <2>2. /\ UNCHANGED <<frames, loop, conn, outOpen>>
        /\ inOpen' => Senders'
    <3>1. CASE inOpen /\ ~Senders'
      BY <1>2, <3>1 DEF Uplink, S!CloseInput
    <3>2. CASE ~(inOpen /\ ~Senders')
      BY <1>2, <3>2 DEF Uplink, session
    <3> QED
      BY <3>1, <3>2
  <2> QED
    BY <2>1, <2>2 DEF Linked, OutSenders
<1>3. CASE SessionStep
  <2>1. /\ loop \notin S!Ended /\ UNCHANGED <<inOpen, outOpen>>
        /\ loop' \in S!Ended => frames' = <<>>
        /\ loop' \notin S!Ended =>
             frames' = frames \/ (frames # <<>> /\ frames' = Tail(frames))
    BY <1>3, LoopDoes DEF SessionStep, Carried
  <2>2. UNCHANGED <<inMap, req>> /\ (over' <=> loop' \in S!Ended) /\ Len(chan') = Len(frames')
    <3>1. CASE loop' \in S!Ended
      BY <1>3, <2>1, <3>1 DEF SessionStep, SessionReturns, client
    <3>2. CASE loop' \notin S!Ended /\ Len(frames') < Len(frames)
      <4>1. SessionTake
        BY <1>3, <3>2 DEF SessionStep
      <4>2. chan' = Tail(chan) /\ chan # <<>> /\ UNCHANGED <<inMap, req, over>>
        BY <4>1 DEF SessionTake, client
      <4>3. frames' = Tail(frames) /\ frames # <<>>
        BY <1>0, <2>1, <3>2
      <4>4. Len(Tail(chan)) = Len(chan) - 1 /\ Len(Tail(frames)) = Len(frames) - 1
        BY <1>0, <4>2, <4>3
      <4> QED
        BY <2>1, <3>2, <4>2, <4>3, <4>4 DEF Linked
    <3>3. CASE loop' \notin S!Ended /\ ~(Len(frames') < Len(frames))
      <4>1. UNCHANGED uvars
        BY <1>3, <3>3 DEF SessionStep
      <4>2. frames' = frames
        BY <1>0, <2>1, <3>3
      <4> QED
        BY <2>1, <3>3, <4>1, <4>2 DEF Linked, uvars, server
    <3> QED
      BY <3>1, <3>2, <3>3
  <2>3. OutSenders
    BY <2>1 DEF OutSenders
  <2> QED
    BY <2>1, <2>2, <2>3 DEF Linked, Senders
<1>4. CASE Downlink /\ UNCHANGED uvars
  BY <1>4, DownlinkDoes DEF Carried, Linked, uvars, server, Senders
<1>5. CASE UNCHANGED cvars
  BY <1>5 DEF cvars, uvars, server, session, Linked, Senders, OutSenders
<1> QED
  BY <1>1, <1>2, <1>3, <1>4, <1>5 DEF CNext

-----------------------------------------------------------------------------
(* Frames forwarded, counted by their places in the requests *)

\* A step after which every request has forwarded as much as before.
LEMMA SpentKept ==
  ASSUME Metered, pushes' = pushes,
         \A a \in Tries : /\ req'[a].last < req'[a].first + BatchMax
                          /\ req'[a].next - req'[a].first = req[a].next - req[a].first
                          /\ a > tries' => req'[a] = NoRequest
  PROVE  Metered'
<1>1. Spent' = Spent
  BY DEF Spent
<1> QED
  BY <1>1 DEF Metered

LEMMA SpentBound ==
  ASSUME UTypeOK
  PROVE  /\ IsFiniteSet(Spent) /\ Cardinality(Spent) \in Nat
         /\ \A s \in (Tries \X (1 .. BatchMax)) \ Spent : Cardinality(Spent) < MaxPushes
<1>1. /\ IsFiniteSet(Tries) /\ Cardinality(Tries) = MaxTries
      /\ IsFiniteSet(1 .. BatchMax) /\ Cardinality(1 .. BatchMax) = BatchMax
  BY UpAssumption, FS_Interval DEF Tries
<1>2. PICK all : all = Tries \X (1 .. BatchMax)
  OBVIOUS
<1>3. IsFiniteSet(all) /\ Cardinality(all) = MaxTries * BatchMax
  BY <1>1, <1>2, FS_Product
<1>4. Spent \subseteq all
  BY <1>2 DEF Spent
<1>5. IsFiniteSet(Spent) /\ Cardinality(Spent) \in Nat /\ Cardinality(all) \in Nat
  BY <1>3, <1>4, FS_Subset, FS_CardinalityType
<1>6. ASSUME NEW s \in all \ Spent PROVE Cardinality(Spent) < Cardinality(all)
  <2>1. Cardinality(Spent) <= Cardinality(all) /\ Cardinality(Spent) # Cardinality(all)
    BY <1>3, <1>4, <1>6, FS_Subset
  <2> QED
    BY <1>5, <2>1
<1>7. Cardinality(all) <= MaxPushes /\ MaxPushes \in Nat
  BY <1>3, CarrierAssumption
<1> QED
  BY <1>2, <1>5, <1>6, <1>7

\* A handler with frames left may forward the next.
LEMMA NeverSpent ==
  ASSUME Carried, Metered, NEW a \in Tries, req[a].next <= req[a].last
  PROVE  /\ pushes < MaxPushes
         /\ <<a, req[a].next - req[a].first + 1>> \in (Tries \X (1 .. BatchMax)) \ Spent
<1>1. PICK first \in Nat, next \in Nat, last \in Nat :
        /\ first = req[a].first /\ next = req[a].next /\ last = req[a].last
        /\ first <= next /\ next <= last /\ last < first + BatchMax
  BY Places DEF Carried, Delivery, Metered
<1>2. next - first + 1 \in 1 .. BatchMax /\ ~(next - first + 1 <= next - first)
  BY <1>1, UpAssumption
<1>3. <<a, next - first + 1>> \in (Tries \X (1 .. BatchMax)) \ Spent
  BY <1>1, <1>2 DEF Spent
<1> QED
  BY <1>1, <1>3, SpentBound DEF Metered, Carried, Delivery

LEMMA MeteredInit == CInit => Metered
<1> SUFFICES ASSUME CInit PROVE Metered
  OBVIOUS
<1>1. /\ req = [a \in Tries |-> NoRequest] /\ pushes = 0
  BY DEF CInit, UInit, S!Init
<1>2. \A a \in Tries : req[a].first = 1 /\ req[a].next = 1 /\ req[a].last = 0
  BY <1>1 DEF NoRequest
<1>3. Spent = {}
  BY <1>2 DEF Spent
<1> QED
  BY <1>1, <1>2, <1>3, FS_EmptySet, UpAssumption DEF Metered

\* Forwarding takes one place.
LEMMA ForwardSpends ==
  ASSUME Carried, Metered, NEW a \in Tries, Forward(a)
  PROVE  Metered'
<1>1. /\ req[a].next <= req[a].last /\ pushes' = pushes + 1 /\ tries' = tries
      /\ req[a].pc = "push"
      /\ req' = [req EXCEPT ![a].next = @ + 1]
  BY DEF Forward, PushFrame, S!Enqueue, client
<1>2. req \in [Tries -> Requests]
  BY DEF Carried, Delivery, UTypeOK, Requests
<1>3. PICK first \in Nat, next \in Nat : first = req[a].first /\ next = req[a].next
  BY Places DEF Carried, Delivery
<1>4. /\ req'[a].first = first /\ req'[a].next = next + 1 /\ req'[a].last = req[a].last
      /\ \A b \in Tries : b # a => req'[b] = req[b]
  BY <1>1, <1>2, <1>3 DEF Requests
<1>5. PICK s : s = <<a, next - first + 1>>
  OBVIOUS
<1>6. s \in (Tries \X (1 .. BatchMax)) \ Spent
  BY <1>1, <1>3, <1>5, NeverSpent
<1>7. Spent' = Spent \cup {s}
  <2>1. ASSUME NEW t \in Tries \X (1 .. BatchMax)
        PROVE  t \in Spent' <=> t \in Spent \/ t = s
    <3>1. t = <<t[1], t[2]>> /\ t[1] \in Tries /\ t[2] \in Nat
      BY UpAssumption
    <3>2. CASE t[1] # a
      BY <1>4, <1>5, <3>1, <3>2 DEF Spent
    <3>3. CASE t[1] = a
      <4>1. t \in Spent <=> t[2] <= next - first
        BY <1>3, <3>3 DEF Spent
      <4>2. t \in Spent' <=> t[2] <= next + 1 - first
        BY <1>4, <3>3 DEF Spent
      <4>3. t = s <=> t[2] = next - first + 1
        BY <1>5, <3>1, <3>3
      <4> QED
        BY <1>3, <3>1, <4>1, <4>2, <4>3
    <3> QED
      BY <3>2, <3>3
  <2>2. Spent' \subseteq Tries \X (1 .. BatchMax) /\ Spent \subseteq Tries \X (1 .. BatchMax)
    BY DEF Spent
  <2> QED
    BY <1>6, <2>1, <2>2
<1>8. Cardinality(Spent') = Cardinality(Spent) + 1
  BY <1>6, <1>7, SpentBound, FS_AddElement DEF Carried, Delivery
<1>9. ~(a > tries)
  BY <1>1 DEF Metered, NoRequest
<1> QED
  BY <1>1, <1>4, <1>8, <1>9 DEF Metered

\* A new request has forwarded nothing.
LEMMA RequestSpends ==
  ASSUME Carried, Metered, NEW first \in Nat \ {0}, NEW last \in Nat, last < first + BatchMax,
         Request(first, last), pushes' = pushes
  PROVE  Metered'
<1>1. PICK a : a = tries + 1
  OBVIOUS
<1>r. PICK r : r = [NoRequest EXCEPT !.first = first, !.next = first, !.last = last,
                                     !.pc = "sent"]
  OBVIOUS
<1>2. r = [first |-> first, last |-> last, next |-> first, pc |-> "sent"]
  BY <1>r DEF NoRequest
<1>3. a \in Tries /\ tries' = a /\ a > tries /\ tries \in Nat
  BY <1>1, UpAssumption DEF Request, Carried, Delivery, UTypeOK, Tries
<1>4. req' = [req EXCEPT ![a] = r]
  BY <1>1, <1>r DEF Request
<1>5. req'[a] = r /\ \A b \in Tries : b # a => req'[b] = req[b]
  BY <1>3, <1>4 DEF Carried, Delivery, UTypeOK
<1>6. req[a].next = req[a].first /\ req[a].first \in Nat
  BY <1>3 DEF Metered, NoRequest
<1>7. ASSUME NEW b \in Tries
      PROVE  /\ req'[b].last < req'[b].first + BatchMax
             /\ req'[b].next - req'[b].first = req[b].next - req[b].first
             /\ b > tries' => req'[b] = NoRequest
  <2>1. CASE b = a
    <3>1. req'[b].last = last /\ req'[b].first = first /\ req'[b].next = first
      BY <1>2, <1>5, <2>1
    <3>2. ~(b > tries')
      BY <1>3, <2>1, UpAssumption DEF Tries
    <3> QED
      BY <1>6, <2>1, <3>1, <3>2
  <2>2. CASE b # a
    BY <1>3, <1>5, <2>2, UpAssumption DEF Metered, Tries
  <2> QED
    BY <2>1, <2>2
<1> QED
  BY <1>7, SpentKept

LEMMA MeteredStep ==
  ASSUME Carried, Metered, [CNext]_cvars
  PROVE  Metered'
<1>0. /\ acked \in Nat /\ tries \in Nat /\ BatchMax \in Nat \ {0}
      /\ req \in [Tries -> Requests]
  BY UpAssumption DEF Carried, Delivery, UTypeOK, Requests
<1>1. ASSUME UNCHANGED <<req, tries, pushes>> PROVE Metered'
  BY <1>1 DEF Metered, Spent
<1>2. CASE \E a \in Tries : Forward(a)
  BY <1>2, ForwardSpends
<1>3. CASE Uplink
  <2>1. pushes' = pushes
    <3>1. CASE inOpen /\ ~Senders'
      BY <1>3, <3>1 DEF Uplink, S!CloseInput
    <3>2. CASE ~(inOpen /\ ~Senders')
      BY <1>3, <3>2 DEF Uplink, session
    <3> QED
      BY <3>1, <3>2
  <2>2. ASSUME NEW a \in Tries, Arrive(a) \/ PushRefused(a) \/ PushDone(a) \/ Cancel(a)
        PROVE  Metered'
    <3>1. PICK r \in Requests :
            /\ req' = [req EXCEPT ![a] = r]
            /\ r.next = req[a].next /\ r.first = req[a].first /\ r.last = req[a].last
      BY <2>2, Settled DEF Carried, Delivery, Settles
    <3>2. req[a].pc # "unsent" /\ tries' = tries
      BY <2>2 DEF Arrive, PushRefused, PushDone, Cancel, client
    <3>3. ~(a > tries)
      BY <3>2 DEF Metered, NoRequest
    <3>4. \A b \in Tries : /\ req'[b].last = req[b].last /\ req'[b].first = req[b].first
                           /\ req'[b].next = req[b].next
                           /\ b > tries' => req'[b] = req[b]
      BY <1>0, <3>1, <3>2, <3>3
    <3> QED
      BY <2>1, <3>2, <3>4, SpentKept DEF Metered
  <2>3. CASE SendFirst
    <3>1. PICK last \in 1 .. BatchMax : Request(1, last)
      BY <2>3 DEF SendFirst
    <3>2. last \in Nat /\ last < 1 + BatchMax
      BY <1>0
    <3> QED
      BY <2>1, <3>1, <3>2, RequestSpends
  <2>4. CASE SendNext
    <3>1. PICK last \in acked + 1 .. acked + BatchMax : Request(acked + 1, last)
      BY <2>4 DEF SendNext
    <3>2. last \in Nat /\ last < acked + 1 + BatchMax /\ acked + 1 \in Nat \ {0}
      BY <1>0
    <3> QED
      BY <2>1, <3>1, <3>2, RequestSpends
  <2>5. CASE Retry
    <3>1. tries \in Tries /\ Request(req[tries].first, req[tries].last)
      BY <1>0, <2>5, UpAssumption DEF Retry, Tries, Carried, Delivery, UTypeOK
    <3>2. /\ req[tries].first \in Nat \ {0} /\ req[tries].last \in Nat
          /\ req[tries].last < req[tries].first + BatchMax
      BY <3>1, Places DEF Metered, Carried, Delivery
    <3> QED
      BY <2>1, <3>1, <3>2, RequestSpends
  <2>6. CASE GetAck \/ Close \/ Delete
    BY <1>1, <2>1, <2>6 DEF GetAck, Close, Delete, client
  <2> QED
    BY <1>3, <2>2, <2>3, <2>4, <2>5, <2>6 DEF Uplink, Page
<1>4. CASE SessionStep
  <2>1. pushes' = pushes
    BY <1>4, LoopDoes DEF SessionStep, Carried
  <2>2. SessionReturns \/ SessionTake \/ UNCHANGED uvars
    <3>1. CASE loop' \in S!Ended
      BY <1>4, <3>1 DEF SessionStep
    <3>2. CASE loop' \notin S!Ended /\ Len(frames') < Len(frames)
      BY <1>4, <3>2 DEF SessionStep
    <3>3. CASE loop' \notin S!Ended /\ ~(Len(frames') < Len(frames))
      BY <1>4, <3>3 DEF SessionStep
    <3> QED
      BY <3>1, <3>2, <3>3
  <2> QED
    BY <1>1, <2>1, <2>2 DEF SessionReturns, SessionTake, uvars, client
<1>5. CASE Downlink /\ UNCHANGED uvars
  BY <1>1, <1>5, DownlinkDoes DEF Carried, uvars, client
<1>6. CASE UNCHANGED cvars
  BY <1>1, <1>6 DEF cvars, uvars, client, session
<1> QED
  BY <1>2, <1>3, <1>4, <1>5, <1>6 DEF CNext

-----------------------------------------------------------------------------
(* So there is always a task to move, or nothing to do *)

LEMMA MovesOrRestsAlways ==
  ASSUME Carried, Linked, Metered
  PROVE  MovesOrRests
<1> SUFFICES ASSUME ~RelayMoves PROVE AtRest
  BY DEF MovesOrRests
<1>0. /\ chan \in Seq(1 .. MaxFrames) /\ frames \in Seq(Proved!Frame) /\ outq \in Seq(Proved!Msg)
      /\ req \in [Tries -> Requests] /\ inOpen \in BOOLEAN /\ outOpen \in BOOLEAN
      /\ conn \in [S!Conn -> Proved!ConnState]
      /\ loop \in {"recv", "busy", "bye", "done", "failed"}
      /\ loop = "busy" => cur.ty \in {"HELLO", "OPEN", "DATA"}
  BY SameConnections DEF Carried, Delivery, UTypeOK, Requests, Proved!Sound, Proved!TypeOK
<1>1. outq = <<>> /\ (outOpen => OutSenders)
  BY DEF RelayMoves, ForwarderMoves, Carried, Proved!Sound, Proved!DownInv, Proved!DownOrder
<1>2. S!Sends
  BY <1>1, CarrierAssumption DEF S!Sends
<1>3. /\ loop \in S!Ended \/ (loop = "recv" /\ frames = <<>> /\ inOpen)
  BY <1>0, <1>2 DEF RelayMoves, S!LoopMoves, S!Ended
<1>4. frames = <<>>
  BY <1>3 DEF Linked
<1>5. Len(chan) < ChanCap
  BY <1>4, UpAssumption DEF Linked
<1>6. ASSUME NEW a \in Tries PROVE req[a].pc \notin {"sent", "push"}
  <2>1. ~HandlerMoves(a)
    BY DEF RelayMoves
  <2>2. req[a].next \in Nat /\ req[a].last \in Nat
    BY Places DEF Carried, Delivery
  <2>3. CASE req[a].next <= req[a].last
    BY <1>5, <2>1, <2>3, NeverSpent DEF HandlerMoves
  <2>4. CASE req[a].next > req[a].last
    BY <2>1, <2>4 DEF HandlerMoves
  <2> QED
    BY <2>2, <2>3, <2>4
<1>7. loop = "recv" => inMap
  BY <1>3, <1>6 DEF Linked, Senders, S!Ended
<1>8. ASSUME NEW c \in S!Conn, conn[c].reader = "reading"
      PROVE  conn[c].peer = "open" /\ conn[c].read = conn[c].made
  <2>1. conn[c].peer = "open" /\ ~(conn[c].read < conn[c].made)
    BY <1>2, <1>8 DEF RelayMoves, S!ReaderMoves
  <2>2. conn[c].read \in Nat /\ conn[c].made \in Nat
    BY <1>0 DEF Proved!ConnState
  <2>3. conn[c].read <= conn[c].made
    <3>1. c \in 1 .. nconns
      BY <1>8, SameConnections DEF Carried, Proved!Sound, Proved!TypeOK, Proved!DownInv,
                                   Proved!DownOrder, Proved!Conn
    <3> QED
      BY <3>1 DEF Carried, Proved!Sound, Proved!DownInv, Proved!DownOrder, Proved!Counted
  <2> QED
    BY <2>1, <2>2, <2>3
<1> QED
  BY <1>1, <1>3, <1>4, <1>6, <1>7, <1>8 DEF AtRest, Linked

\* Nothing waits for ever on a full channel, a lost sender or a dropped
\* handler, for every capacity, number of requests and of connections: unless
\* some handler, the loop, a reader or the forwarder can take a step, all that
\* was taken in went through, and what still runs waits for the page or for a
\* backend that is open (api_up, run_session_loop, the forwarder).
THEOREM RestsWhenIdle == CSpec => []MovesOrRests
<1>1. CInit => Linked /\ Metered
  BY LinkedInit, MeteredInit
<1>2. Carried /\ Linked /\ Metered /\ [CNext]_cvars => Linked' /\ Metered'
  BY LinkedStep, MeteredStep
<1>3. Carried /\ Linked /\ Metered => MovesOrRests
  BY MovesOrRestsAlways
<1> QED
  BY <1>1, <1>2, <1>3, CarriedAlways, PTL DEF CSpec
=============================================================================
