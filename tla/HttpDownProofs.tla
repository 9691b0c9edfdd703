--------------------------- MODULE HttpDownProofs ---------------------------
(* Theorems about HttpDown.tla, for every value of its constants. *)
EXTENDS HttpDown, SequenceTheorems, TLAPS

-----------------------------------------------------------------------------
(* The inductive invariant, part by part *)

Places == {"unsent", "sent", "collect", "wait", "cursor", "replied", "taken",
           "dropped"}
Statuses == {0, 200, 204, 401}
Request ==
  [pc : Places,
   next : Nat \ {0}, got : Seq(Nat), status : Statuses, upto : Nat]

DTypeOK ==
  /\ sent \in Nat
  /\ cursor \in Nat \cup {NoEntry}
  /\ req \in [Tries -> Request]
  /\ tries \in 0 .. MaxTries
  /\ seen \in Seq(Nat)
  /\ known \in Nat
  /\ closed \in BOOLEAN

\* What the handler's place says of what it holds: nothing before it collects
\* and in the long poll, something when it moves the cursor and in a 200.
Placed(r) ==
  /\ r.pc \in {"unsent", "sent", "wait"} => r.got = <<>>
  /\ r.pc = "cursor" => r.got # <<>>
  /\ r.status = 200 => r.got # <<>> /\ r.pc \in {"replied", "taken"}

\* A batch is short and without a gap, of messages up to number s; the
\* receiver stands behind it, and right behind it while it is collected.
Batch(r, s) ==
  /\ r.next <= s + 1
  /\ Len(r.got) <= BatchMax
  /\ \A j \in 1 .. Len(r.got) - 1 : r.got[j + 1] = r.got[j] + 1
  /\ \A j \in 1 .. Len(r.got) : r.got[j] <= s
  /\ r.pc = "collect" /\ r.got # <<>> => r.got[Len(r.got)] + 1 = r.next

Batches == \A a \in Tries : Placed(req[a]) /\ Batch(req[a], sent)

\* The requests not made yet are idle.
Unmade == \A a \in Tries : a > tries => req[a] = Idle

\* All messages of q come before the batch of r and what its receiver reads.
After(r, q) ==
  /\ r.pc \in {"collect", "wait"} => \A i \in 1 .. Len(q) : q[i] < r.next
  /\ r.pc # "taken" => \A i \in 1 .. Len(q), j \in 1 .. Len(r.got) : q[i] < r.got[j]

\* The client's current request is new to it, and nothing it has received was
\* forwarded later.
Fresh ==
  /\ \A i \in 1 .. Len(seen) : seen[i] <= sent
  /\ tries # 0 => After(req[tries], seen)

\* A page that is open has asked for no DELETE; the answer that waits for it
\* counts on top of what it knows.
Pending ==
  /\ ~closed => del = "none"
  /\ del # "done" => cursor # NoEntry
  /\ ~closed /\ tries # 0 /\ req[tries].pc = "replied" /\ req[tries].status = 200 =>
       known + Len(req[tries].got) <= req[tries].upto /\ req[tries].upto <= cursor

DownlinkInv ==
  /\ DTypeOK
  /\ Batches
  /\ Unmade
  /\ Fresh /\ NeverTwice
  /\ Pending /\ CursorCounts

-----------------------------------------------------------------------------
(* One request changes *)

\* The fields of a request.
LEMMA RequestFields ==
  ASSUME NEW r \in Request
  PROVE  /\ r.next \in Nat \ {0} /\ r.upto \in Nat
         /\ r.got \in Seq(Nat) /\ Len(r.got) \in Nat
         /\ \A j \in 1 .. Len(r.got) : r.got[j] \in Nat
<1>1. r.next \in Nat \ {0} /\ r.upto \in Nat /\ r.got \in Seq(Nat)
  BY DEF Request
<1> QED
  BY <1>1

\* What a handler or the page makes of a request.
Put(r, pc) == [r EXCEPT !.pc = pc]
Move(r, pc, n) == [r EXCEPT !.pc = pc, !.next = n]
Receive(r, pc, n, got) == [r EXCEPT !.pc = pc, !.next = n, !.got = got]
Reply(r, pc, st) == [r EXCEPT !.pc = pc, !.status = st]
Answer(r, pc, st, c) == [r EXCEPT !.pc = pc, !.status = st, !.upto = c]

\* It is a request again, with the fields that were written.
LEMMA PutRequest ==
  ASSUME NEW r \in Request, NEW pc \in Places
  PROVE  LET s == Put(r, pc) IN
         /\ s \in Request /\ s.pc = pc /\ s.next = r.next /\ s.got = r.got
         /\ s.status = r.status /\ s.upto = r.upto
BY DEF Request, Put

\* The same of the receiver moved on,
LEMMA MoveRequest ==
  ASSUME NEW r \in Request, NEW pc \in Places, NEW n \in Nat \ {0}
  PROVE  LET s == Move(r, pc, n) IN
         /\ s \in Request /\ s.pc = pc /\ s.next = n
         /\ s.got = r.got /\ s.status = r.status
BY DEF Request, Move

\* of a message received,
LEMMA ReceiveRequest ==
  ASSUME NEW r \in Request, NEW pc \in Places, NEW n \in Nat \ {0},
         NEW got \in Seq(Nat)
  PROVE  LET s == Receive(r, pc, n, got) IN
         /\ s \in Request /\ s.pc = pc /\ s.next = n
         /\ s.got = got /\ s.status = r.status
BY DEF Request, Receive

\* of a reply without a message,
LEMMA ReplyRequest ==
  ASSUME NEW r \in Request, NEW pc \in Places, NEW st \in Statuses
  PROVE  LET s == Reply(r, pc, st) IN
         /\ s \in Request /\ s.pc = pc /\ s.next = r.next
         /\ s.got = r.got /\ s.status = st
BY DEF Request, Reply

\* and of an answer.
LEMMA AnswerRequest ==
  ASSUME NEW r \in Request, NEW pc \in Places, NEW st \in Statuses, NEW c \in Nat
  PROVE  LET s == Answer(r, pc, st, c) IN
         /\ s \in Request /\ s.pc = pc /\ s.next = r.next
         /\ s.got = r.got /\ s.status = st /\ s.upto = c
BY DEF Request, Answer

\* The places and the statuses, one by one.
LEMMA Named ==
  /\ "sent" \in Places /\ "collect" \in Places /\ "wait" \in Places
  /\ "cursor" \in Places /\ "replied" \in Places /\ "taken" \in Places
  /\ "dropped" \in Places
  /\ 200 \in Statuses /\ 204 \in Statuses /\ 401 \in Statuses
BY DEF Places, Statuses

\* A request is answered out of the channel: the parts that are about the
\* requests and what the client has seen of them.
LEMMA OneRequest ==
  ASSUME DTypeOK, Batches, Unmade, Fresh,
         NEW a \in Tries, NEW r \in Request,
         req' = [req EXCEPT ![a] = r], a <= tries,
         Placed(r), Batch(r, sent), After(req[a], seen) => After(r, seen),
         UNCHANGED <<sent, tries, seen>>
  PROVE  /\ req' \in [Tries -> Request]
         /\ req'[a] = r
         /\ \A b \in Tries : b # a => req'[b] = req[b]
         /\ Batches' /\ Unmade' /\ Fresh'
<1>1. /\ req' \in [Tries -> Request]
      /\ req'[a] = r
      /\ \A b \in Tries : b # a => req'[b] = req[b]
  BY DEF DTypeOK
<1>2. Batches'
  BY <1>1 DEF Batches
<1>3. Unmade'
  BY <1>1 DEF Unmade, Tries, DTypeOK
<1>4. Fresh'
  <2>1. tries # 0 => tries \in Tries
    BY DownAssumption DEF DTypeOK, Tries
  <2> QED
    BY <1>1, <2>1 DEF Fresh
<1> QED
  BY <1>1, <1>2, <1>3, <1>4

\* As long as the answers stay the same, so does what they count.
LEMMA SameAnswers ==
  ASSUME CursorCounts,
         \A b \in Tries :
           \/ req'[b].status # 200 /\ req[b].status # 200
           \/ /\ req'[b].status = req[b].status
              /\ req'[b].got = req[b].got /\ req'[b].upto = req[b].upto,
         UNCHANGED cursor, del' # "done" => del # "done",
         UNCHANGED <<seen, known>>, closed => closed'
  PROVE  CursorCounts'
<1>1. Answers' = Answers
  BY DEF Answers
<1>2. \A b \in Answers : Share(b)' = Share(b)
  BY DEF Answers, Share
<1> QED
  BY <1>1, <1>2 DEF CursorCounts

\* A handler that gives no 200 leaves the count alone.
LEMMA NoAnswer ==
  ASSUME DownlinkInv, NEW a \in Tries, NEW r \in Request,
         req' = [req EXCEPT ![a] = r], req[a].pc # "unsent",
         req[a].status # 200, r.status # 200,
         Placed(r), Batch(r, sent), After(req[a], seen) => After(r, seen),
         UNCHANGED <<sent, maps, page>>
  PROVE  DownlinkInv'
<1>1. a <= tries
  BY DEF DownlinkInv, Unmade, Idle, DTypeOK, Tries
<1>2. /\ req' \in [Tries -> Request]
      /\ req'[a] = r
      /\ \A b \in Tries : b # a => req'[b] = req[b]
      /\ Batches' /\ Unmade' /\ Fresh'
  BY <1>1, OneRequest DEF DownlinkInv, page
<1>3. CursorCounts'
  BY <1>2, SameAnswers DEF DownlinkInv, page, maps
<1>4. Pending'
  <2>1. tries # 0 => tries \in Tries
    BY DownAssumption DEF DownlinkInv, DTypeOK, Tries
  <2> QED
    BY <1>2, <2>1 DEF DownlinkInv, Pending, page, maps
<1>5. DTypeOK' /\ NeverTwice'
  BY <1>2 DEF DownlinkInv, DTypeOK, NeverTwice, page, maps
<1> QED
  BY <1>2, <1>3, <1>4, <1>5 DEF DownlinkInv

-----------------------------------------------------------------------------
(* api_down *)

\* The handler arrives, ends its loop or its long poll, or is dropped.
LEMMA WithoutMessage ==
  ASSUME DownlinkInv, NEW a \in Tries,
         Arrive(a) \/ CollectEnd(a) \/ WaitEnd(a) \/ Cancel(a)
  PROVE  DownlinkInv'
<1>1. /\ req[a] \in Request /\ Placed(req[a]) /\ Batch(req[a], sent)
      /\ sent \in Nat /\ req \in [Tries -> Request] /\ Cap \in Nat \ {0}
      /\ seen \in Seq(Nat)
      /\ UNCHANGED <<sent, maps, page>> /\ req[a].pc # "unsent"
  BY DownAssumption
     DEF DownlinkInv, DTypeOK, Batches, Arrive, CollectEnd, WaitEnd, Cancel
<1>0. req[a] \in Request /\ sent \in Nat /\ sent + 1 \in Nat \ {0}
  BY <1>1
<1>2. req[a].status # 200
  BY <1>1 DEF Placed, Arrive, CollectEnd, WaitEnd, Cancel
<1>3. CASE Arrive(a)
  <2>1. CASE outMap
    <3>r. PICK r : r = Move(req[a], "collect", sent + 1)
      OBVIOUS
    <3>1. req' = [req EXCEPT ![a] = r]
      BY <3>r, <1>1, <1>3, <2>1 DEF Arrive, Move
    <3>2. /\ r \in Request /\ r.pc = "collect" /\ r.next = sent + 1
          /\ r.got = req[a].got /\ r.status = req[a].status
      <4>1. req[a] \in Request /\ "collect" \in Places /\ sent + 1 \in Nat \ {0}
        BY <1>0, Named
      <4> QED
        BY ONLY <3>r, <4>1, MoveRequest
    <3>3. req[a].got = <<>>
      BY <1>1, <1>3 DEF Arrive, Placed
    <3>4. Placed(r) /\ Batch(r, sent)
      BY <1>1, <1>2, <3>2, <3>3, DownAssumption DEF Placed, Batch
    <3>5. After(r, seen)
      <4>1. \A i \in 1 .. Len(seen) : seen[i] <= sent /\ seen[i] \in Nat
        BY <1>1 DEF DownlinkInv, Fresh
      <4> QED
        BY <1>1, <3>2, <3>3, <4>1 DEF After
    <3> QED
      BY <1>1, <1>2, <3>1, <3>2, <3>4, <3>5, NoAnswer
  <2>2. CASE ~outMap
    <3>r. PICK r : r = Reply(req[a], "replied", 401)
      OBVIOUS
    <3>1. req' = [req EXCEPT ![a] = r]
      <4>1. /\ req' = [req EXCEPT ![a].pc = "replied", ![a].status = 401]
            /\ req \in [Tries -> Request] /\ a \in Tries
        BY <1>1, <1>3, <2>2 DEF Arrive, Replied
      <4> QED
        BY ONLY <3>r, <4>1 DEF Reply
    <3>2. /\ r \in Request /\ r.pc = "replied" /\ r.next = req[a].next
          /\ r.got = req[a].got /\ r.status # 200
      <4>1. req[a] \in Request /\ "replied" \in Places /\ 401 \in Statuses
        BY <1>0, Named
      <4>2. /\ r \in Request /\ r.pc = "replied" /\ r.next = req[a].next
            /\ r.got = req[a].got /\ r.status = 401
        BY ONLY <3>r, <4>1, ReplyRequest
      <4> QED
        BY ONLY <4>2
    <3>3. Placed(r) /\ Batch(r, sent) /\ (After(req[a], seen) => After(r, seen))
      BY <1>1, <1>3, <3>2 DEF Placed, Batch, After, Arrive
    <3> QED
      BY <1>1, <1>2, <3>1, <3>2, <3>3, NoAnswer
  <2> QED
    BY <2>1, <2>2
<1>4. CASE CollectEnd(a)
  <2>1. PICK n, pc :
          /\ n = IF Lagging(a) /\ Len(req[a].got) < BatchMax THEN Oldest
                                                            ELSE req[a].next
          /\ pc = IF req[a].got # <<>> THEN "cursor" ELSE "wait"
    OBVIOUS
  <2>2. n \in Nat \ {0} /\ req[a].next <= n /\ n <= sent + 1
    BY <1>1, <2>1, RequestFields DEF Lagging, Oldest, Batch
  <2>r. PICK r : r = Move(req[a], pc, n)
    OBVIOUS
  <2>3. req' = [req EXCEPT ![a] = r]
    BY <2>r, <1>1, <1>4, <2>1 DEF CollectEnd, Move
  <2>4. /\ r \in Request /\ r.pc = pc /\ r.next = n
        /\ r.got = req[a].got /\ r.status = req[a].status
    <3>1. pc \in Places
      BY <2>1 DEF Places
    <3> QED
      BY <1>0, <2>2, <2>r, <3>1, MoveRequest
  <2>5. Placed(r) /\ Batch(r, sent)
    BY <1>1, <1>2, <2>1, <2>2, <2>4 DEF Placed, Batch
  <2>6. After(req[a], seen) => After(r, seen)
    BY <1>1, <1>4, <2>1, <2>2, <2>4, RequestFields DEF After, CollectEnd
  <2> QED
    BY <1>1, <1>2, <2>3, <2>4, <2>5, <2>6, NoAnswer
<1>5. CASE WaitEnd(a)
  <2>r. PICK r : r = Reply(req[a], "replied", 204)
    OBVIOUS
  <2>1. req' = [req EXCEPT ![a] = r]
    BY <2>r, <1>1, <1>5 DEF WaitEnd, Replied, Reply
  <2>2. /\ r \in Request /\ r.pc = "replied" /\ r.next = req[a].next
        /\ r.got = req[a].got /\ r.status # 200
    <3>1. req[a] \in Request /\ "replied" \in Places /\ 204 \in Statuses
      BY <1>0, Named
    <3>2. /\ r \in Request /\ r.pc = "replied" /\ r.next = req[a].next
          /\ r.got = req[a].got /\ r.status = 204
      BY ONLY <2>r, <3>1, ReplyRequest
    <3> QED
      BY ONLY <3>2
  <2>3. Placed(r) /\ Batch(r, sent) /\ (After(req[a], seen) => After(r, seen))
    BY <1>1, <1>5, <2>2 DEF Placed, Batch, After, WaitEnd
  <2> QED
    BY <1>1, <1>2, <2>1, <2>2, <2>3, NoAnswer
<1>6. CASE Cancel(a)
  <2>r. PICK r : r = Put(req[a], "dropped")
    OBVIOUS
  <2>1. req' = [req EXCEPT ![a] = r]
    BY <2>r, <1>1, <1>6 DEF Cancel, Put
  <2>2. /\ r \in Request /\ r.pc = "dropped" /\ r.next = req[a].next
        /\ r.got = req[a].got /\ r.status = req[a].status
    BY <1>0, <2>r, PutRequest, Named
  <2>3. Placed(r) /\ Batch(r, sent) /\ (After(req[a], seen) => After(r, seen))
    BY <1>1, <1>2, <1>6, <2>2 DEF Placed, Batch, After, Cancel
  <2> QED
    BY <1>1, <1>2, <2>1, <2>2, <2>3, NoAnswer
<1> QED
  BY <1>3, <1>4, <1>5, <1>6

\* The receiver gives the handler its next message.
LEMMA WithMessage ==
  ASSUME DownlinkInv, NEW a \in Tries, Collect(a) \/ WaitMsg(a)
  PROVE  DownlinkInv'
<1>1. /\ req[a] \in Request /\ Placed(req[a]) /\ Batch(req[a], sent)
      /\ sent \in Nat /\ req \in [Tries -> Request]
      /\ UNCHANGED <<sent, maps, page>> /\ req[a].pc \in {"collect", "wait"}
      /\ req[a].next <= sent /\ seen \in Seq(Nat)
  BY DEF DownlinkInv, DTypeOK, Batches, Collect, WaitMsg, Available
<1>0. req[a] \in Request /\ sent \in Nat /\ sent + 1 \in Nat \ {0}
  BY <1>1
<1>2. req[a].status # 200
  BY <1>1 DEF Placed
<1>3. PICK n, got, pc :
        /\ n = req[a].next
        /\ got = Append(req[a].got, req[a].next)
        /\ pc = IF req[a].pc = "collect" THEN "collect" ELSE "cursor"
  OBVIOUS
<1>r. PICK r : r = Receive(req[a], pc, n + 1, got)
  OBVIOUS
<1> DEFINE l == Len(req[a].got)
<1>4. /\ n \in Nat \ {0} /\ req[a].got \in Seq(Nat) /\ l \in Nat
      /\ got \in Seq(Nat) /\ Len(got) = l + 1
      /\ \A j \in 1 .. l : got[j] = req[a].got[j] /\ got[j] \in Nat
      /\ got[l + 1] = n
  BY <1>1, <1>3, RequestFields
<1>5. req' = [req EXCEPT ![a] = r]
  <2>1. CASE Collect(a)
    BY <1>1, <1>3, <1>r, <2>1 DEF Collect, Receive
  <2>2. CASE WaitMsg(a)
    <3>1. req[a].got = <<>>
      BY <1>1, <2>2 DEF WaitMsg, Placed
    <3>2. got = <<req[a].next>>
      BY <1>3, <3>1
    <3> QED
      BY <1>1, <1>3, <1>r, <2>2, <3>2 DEF WaitMsg, Receive
  <2> QED
    BY <2>1, <2>2
<1>6. /\ r \in Request /\ r.pc = pc /\ r.next = n + 1
      /\ r.got = got /\ r.status = req[a].status
  <2>1. pc \in Places /\ n + 1 \in Nat \ {0} /\ got \in Seq(Nat)
    BY <1>3, <1>4 DEF Places
  <2> QED
    BY <1>1, <1>r, <2>1, ReceiveRequest
<1>7. l < BatchMax /\ (l # 0 => req[a].got[l] + 1 = n)
  BY <1>1, <1>3, <1>4, DownAssumption
     DEF Collect, WaitMsg, Placed, Batch
<1>l. Len(req[a].got) = l
  OBVIOUS
<1> HIDE DEF l
<1>8. Placed(r)
  BY <1>2, <1>3, <1>4, <1>6 DEF Placed
<1>9. Batch(r, sent)
  <2>0. /\ \A j \in 1 .. l - 1 : req[a].got[j + 1] = req[a].got[j] + 1
        /\ \A j \in 1 .. l : req[a].got[j] <= sent
    BY <1>1, <1>l DEF Batch
  <2>1. ASSUME NEW j \in 1 .. l PROVE got[j + 1] = got[j] + 1
    <3>1. CASE j = l
      BY <1>4, <1>7, <3>1
    <3>2. CASE j # l
      <4>1. j \in 1 .. l - 1 /\ j + 1 \in 1 .. l
        BY <1>4, <3>2
      <4> QED
        BY <1>4, <2>0, <4>1
    <3> QED
      BY <3>1, <3>2
  <2>2. ASSUME NEW j \in 1 .. l + 1 PROVE got[j] <= sent
    <3>1. j = l + 1 \/ j \in 1 .. l
      BY <1>4
    <3> QED
      BY <1>1, <1>3, <1>4, <2>0, <3>1
  <2>3. n + 1 <= sent + 1 /\ l + 1 <= BatchMax /\ l + 1 - 1 = l
    BY <1>1, <1>3, <1>4, <1>7, DownAssumption
  <2> QED
    BY ONLY <1>4, <1>6, <2>1, <2>2, <2>3 DEF Batch
<1>10. ASSUME After(req[a], seen) PROVE After(r, seen)
  <2>1. \A i \in 1 .. Len(seen) : seen[i] \in Nat /\ seen[i] < n
    BY <1>1, <1>3, <1>10 DEF After
  <2>2. \A i \in 1 .. Len(seen), j \in 1 .. l : seen[i] < got[j]
    BY <1>1, <1>4, <1>10, <1>l DEF After
  <2>3. \A j \in 1 .. l + 1 : j \in 1 .. l \/ j = l + 1
    BY <1>4
  <2>4. \A i \in 1 .. Len(seen), j \in 1 .. l + 1 : seen[i] < got[j]
    BY <1>4, <2>1, <2>2, <2>3
  <2>5. \A i \in 1 .. Len(seen) : seen[i] < n + 1
    BY <1>4, <2>1
  <2> QED
    BY ONLY <1>4, <1>6, <2>4, <2>5 DEF After
<1> QED
  BY <1>1, <1>2, <1>5, <1>6, <1>8, <1>9, <1>10, NoAnswer

\* The cursor moves on by the answer, whose share is what it moved by.
LEMMA AnswerCounted ==
  ASSUME DownlinkInv, NEW a \in Tries, Advance(a)
  PROVE  DownlinkInv'
<1>1. /\ req[a] \in Request /\ Placed(req[a]) /\ Batch(req[a], sent)
      /\ sent \in Nat /\ req \in [Tries -> Request]
      /\ UNCHANGED <<sent, del, page>> /\ req[a].pc = "cursor"
      /\ cursor \in Nat \cup {NoEntry} /\ known \in Nat
  BY DEF DownlinkInv, DTypeOK, Batches, Advance
<1>2. PICK l : l = Len(req[a].got)
  OBVIOUS
<1>3. PICK c : c = (IF cursor = NoEntry THEN 0 ELSE cursor) + l
  OBVIOUS
<1>4. PICK r : r = Answer(req[a], "replied", 200, c)
  OBVIOUS
<1>5. req' = [req EXCEPT ![a] = r] /\ cursor' = c
  <2>1. /\ cursor' = c
        /\ req' = [req EXCEPT ![a].pc = "replied", ![a].status = 200, ![a].upto = c]
    BY <1>2, <1>3 DEF Advance
  <2>2. req \in [Tries -> Request] /\ a \in Tries
    BY <1>1
  <2> QED
    BY ONLY <1>4, <2>1, <2>2 DEF Answer
<1>6. /\ l \in Nat \ {0} /\ c \in Nat /\ c # NoEntry
      /\ cursor # NoEntry => cursor \in Nat /\ c = cursor + l
  <2>1. l \in Nat \ {0}
    BY <1>1, <1>2, RequestFields DEF Placed
  <2> QED
    BY <1>1, <1>3, <2>1 DEF NoEntry
<1>7. /\ r \in Request /\ r.pc = "replied" /\ r.next = req[a].next
      /\ r.got = req[a].got /\ r.status = 200 /\ r.upto = c
  <2>1. req[a] \in Request /\ "replied" \in Places /\ 200 \in Statuses /\ c \in Nat
    BY <1>1, <1>6, Named
  <2> QED
    BY ONLY <1>4, <2>1, AnswerRequest
<1>8. Placed(r) /\ Batch(r, sent) /\ (After(req[a], seen) => After(r, seen))
  BY <1>1, <1>7 DEF Placed, Batch, After
<1>9. a <= tries /\ (tries # 0 => tries \in Tries)
  BY <1>1, DownAssumption DEF DownlinkInv, Unmade, Idle, DTypeOK, Tries
<1>10. /\ req' \in [Tries -> Request]
       /\ req'[a] = r
       /\ \A b \in Tries : b # a => req'[b] = req[b]
       /\ Batches' /\ Unmade' /\ Fresh'
  BY <1>1, <1>5, <1>7, <1>8, <1>9, OneRequest DEF DownlinkInv, page
<1>11. CursorCounts'
  <2>1. /\ Answers' = Answers \cup {a} /\ a \notin Answers
        /\ \A b \in Answers : Share(b)' = Share(b)
    BY <1>1, <1>7, <1>10 DEF Placed, Answers, Share
  <2>2. ASSUME del # "done"
        PROVE  /\ UNION {Share(b)' : b \in Answers'} = 1 .. cursor'
               /\ \A b, d \in Answers' : b # d => Share(b)' \cap Share(d)' = {}
    <3>1. /\ UNION {Share(b) : b \in Answers} = 1 .. cursor
          /\ \A b, d \in Answers : b # d => Share(b) \cap Share(d) = {}
          /\ cursor # NoEntry
      BY <2>2 DEF DownlinkInv, CursorCounts, Pending
    <3>2. Share(a)' = cursor + 1 .. cursor + l /\ cursor' = cursor + l
          /\ cursor \in Nat
      BY <1>2, <1>5, <1>6, <1>7, <1>10, <3>1 DEF Share
    <3>3. \A b \in Answers : Share(b) \cap Share(a)' = {}
      <4>1. \A b \in Answers : Share(b) \subseteq 1 .. cursor
        BY <3>1
      <4>2. 1 .. cursor \cap Share(a)' = {}
        BY <3>2
      <4> QED
        BY <4>1, <4>2
    <3>4. UNION {Share(b)' : b \in Answers'}
            = (UNION {Share(b) : b \in Answers}) \cup Share(a)'
      <4>1. ASSUME NEW x \in UNION {Share(b)' : b \in Answers'}
            PROVE  x \in (UNION {Share(b) : b \in Answers}) \cup Share(a)'
        <5>1. PICK b \in Answers' : x \in Share(b)'
          OBVIOUS
        <5>2. CASE b = a
          <6>1. x \in Share(a)'
            BY <5>1, <5>2 DEF Share
          <6> QED
            BY <6>1
        <5>3. CASE b \in Answers
          BY <2>1, <5>1, <5>3
        <5> QED
          BY <2>1, <5>2, <5>3
      <4>2. ASSUME NEW x \in (UNION {Share(b) : b \in Answers}) \cup Share(a)'
            PROVE  x \in UNION {Share(b)' : b \in Answers'}
        <5>1. CASE x \in Share(a)'
          BY <2>1, <5>1
        <5>2. CASE x \notin Share(a)'
          <6>1. PICK b \in Answers : x \in Share(b)
            BY <4>2, <5>2
          <6> QED
            BY <2>1, <6>1
        <5> QED
          BY <5>1, <5>2
      <4> QED
        BY <4>1, <4>2
    <3>5. 1 .. cursor' = 1 .. cursor \cup Share(a)'
      BY <1>6, <3>2
    <3> QED
      BY <2>1, <3>1, <3>3, <3>4, <3>5
  <2>3. Len(seen) <= known /\ UNCHANGED <<seen, known, closed>>
    BY <1>1 DEF DownlinkInv, CursorCounts, page
  <2>4. ~closed => known <= cursor'
    BY <1>1, <1>5, <1>6 DEF DownlinkInv, CursorCounts, Pending
  <2> QED
    BY <1>1, <2>2, <2>3, <2>4 DEF CursorCounts
<1>12. Pending'
  <2>1. UNCHANGED <<closed, known, tries>> /\ del' = del
    BY <1>1 DEF page
  <2>2. ASSUME ~closed, tries # 0, req'[tries].pc = "replied", req'[tries].status = 200
        PROVE  /\ known + Len(req'[tries].got) <= req'[tries].upto
               /\ req'[tries].upto <= cursor'
    <3>1. cursor # NoEntry /\ known <= cursor
      BY <2>2 DEF DownlinkInv, Pending, CursorCounts
    <3>2. CASE a = tries
      BY <1>1, <1>2, <1>5, <1>6, <1>7, <1>10, <3>1, <3>2
    <3>3. CASE a # tries
      <4>1. /\ req'[tries] = req[tries] /\ req[tries] \in Request
            /\ known + Len(req[tries].got) <= req[tries].upto
            /\ req[tries].upto <= cursor
        BY <1>1, <1>9, <1>10, <2>2, <3>3 DEF DownlinkInv, Pending
      <4>2. req[tries].upto \in Nat
        BY <4>1, RequestFields
      <4> QED
        BY <1>5, <1>6, <3>1, <4>1, <4>2
    <3> QED
      BY <3>2, <3>3
  <2> QED
    BY <1>5, <1>6, <2>1, <2>2 DEF DownlinkInv, Pending
<1>13. DTypeOK' /\ NeverTwice'
  BY <1>1, <1>5, <1>6, <1>10 DEF DownlinkInv, DTypeOK, NeverTwice, page
<1> QED
  BY <1>10, <1>11, <1>12, <1>13 DEF DownlinkInv

-----------------------------------------------------------------------------
(* The bridge page *)

\* A request is made: it has collected nothing, so it is new to the client.
LEMMA Sending ==
  ASSUME DownlinkInv, Start \/ Retry
  PROVE  DownlinkInv'
<1>1. PICK a : a = tries + 1
  OBVIOUS
<1>2. /\ a \in Tries /\ tries' = a /\ tries \in Nat
      /\ req' = [req EXCEPT ![a].pc = "sent"] /\ req[a] = Idle
      /\ UNCHANGED <<sent, maps, seen, known, closed>>
      /\ req \in [Tries -> Request] /\ sent \in Nat /\ seen \in Seq(Nat)
  BY <1>1, DownAssumption
     DEF Start, Retry, Send, DownlinkInv, DTypeOK, Unmade, Tries
<1>3. PICK r : r = [Idle EXCEPT !.pc = "sent"]
  OBVIOUS
<1>4. r.pc = "sent" /\ r.next = 1 /\ r.got = <<>> /\ r.status = 0 /\ r.upto = 0
      /\ Idle.status = 0 /\ r \in Request
  <2>1. r = [pc |-> "sent", next |-> 1, got |-> <<>>, status |-> 0, upto |-> 0]
    BY <1>3 DEF Idle
  <2>2. "sent" \in Places /\ 0 \in Statuses /\ <<>> \in Seq(Nat)
    BY DEF Places, Statuses
  <2> QED
    BY ONLY <2>1, <2>2 DEF Request, Idle
<1>5. /\ req' \in [Tries -> Request] /\ req'[a] = r
      /\ \A b \in Tries : b # a => req'[b] = req[b]
  BY <1>2, <1>3, <1>4
<1>6. Batches'
  <2>1. Placed(r) /\ Batch(r, sent)
    BY <1>2, <1>4, DownAssumption DEF Placed, Batch
  <2> QED
    BY <1>2, <1>5, <2>1 DEF DownlinkInv, Batches
<1>7. Unmade'
  BY <1>1, <1>2, <1>5 DEF DownlinkInv, Unmade, Tries
<1>8. Fresh'
  <2>1. tries' = a /\ req'[tries'] = r /\ UNCHANGED <<seen, sent>>
    BY <1>2, <1>5
  <2>2. After(r, seen)
    BY <1>4 DEF After
  <2> QED
    BY <2>1, <2>2 DEF DownlinkInv, Fresh
<1>9. CursorCounts'
  BY <1>2, <1>4, <1>5, SameAnswers DEF DownlinkInv, maps
<1>10. Pending'
  BY <1>2, <1>4, <1>5 DEF DownlinkInv, Pending, maps
<1>11. DTypeOK' /\ NeverTwice'
  BY <1>2, <1>5, DownAssumption DEF DownlinkInv, DTypeOK, NeverTwice, maps, Tries
<1> QED
  BY <1>6, <1>7, <1>8, <1>9, <1>10, <1>11 DEF DownlinkInv

\* An answer is taken: its batch comes after all the client has.
LEMMA Getting ==
  ASSUME DownlinkInv, GetBatch \/ GetNothing
  PROVE  DownlinkInv'
<1>1. PICK a \in Tries : a = tries
  BY DownAssumption DEF GetBatch, GetNothing, Answered, DownlinkInv, DTypeOK, Tries
<1>2. PICK r : r = Put(req[a], "taken")
  OBVIOUS
<1>3. /\ req[a] \in Request /\ req \in [Tries -> Request] /\ sent \in Nat
      /\ seen \in Seq(Nat) /\ known \in Nat
      /\ Placed(req[a]) /\ Batch(req[a], sent) /\ After(req[a], seen)
      /\ UNCHANGED <<sent, maps, tries, closed>> /\ tries # 0 /\ ~closed
      /\ req' = [req EXCEPT ![a] = r] /\ req[a].pc = "replied"
  BY <1>1, <1>2 DEF GetBatch, GetNothing, Answered, Taken, Put, DownlinkInv, DTypeOK,
                    Batches, Fresh, page
<1>4. /\ r \in Request /\ r.pc = "taken" /\ r.next = req[a].next
      /\ r.got = req[a].got /\ r.status = req[a].status /\ r.upto = req[a].upto
  BY <1>2, <1>3, PutRequest, Named
<1>5. /\ req' \in [Tries -> Request] /\ req'[a] = r
      /\ \A b \in Tries : b # a => req'[b] = req[b]
  BY <1>3, <1>4
<1>6. Batches'
  <2>1. Placed(r) /\ Batch(r, sent)
    BY <1>3, <1>4 DEF Placed, Batch
  <2> QED
    BY <1>3, <1>5, <2>1 DEF DownlinkInv, Batches
<1>7. Unmade'
  BY <1>1, <1>3, <1>5 DEF DownlinkInv, Unmade, Tries
<1>8. /\ \A b \in Tries : /\ req'[b].status = req[b].status
                          /\ req'[b].got = req[b].got /\ req'[b].upto = req[b].upto
      /\ UNCHANGED <<cursor, del, closed>>
  BY <1>3, <1>4, <1>5 DEF maps
<1>9. Pending'
  BY <1>1, <1>3, <1>4, <1>5 DEF DownlinkInv, Pending, maps
<1>10. CASE GetNothing
  <2>1. UNCHANGED <<seen, known>>
    BY <1>10 DEF GetNothing, page
  <2>2. Fresh' /\ NeverTwice' /\ DTypeOK'
    BY <1>1, <1>3, <1>4, <1>5, <2>1
       DEF DownlinkInv, Fresh, After, NeverTwice, DTypeOK, maps
  <2>3. CursorCounts'
    BY <1>8, <2>1, SameAnswers DEF DownlinkInv
  <2> QED
    BY <1>6, <1>7, <1>9, <2>2, <2>3 DEF DownlinkInv
<1>11. CASE GetBatch
  <2>1. PICK got, l, m : got = req[a].got /\ l = Len(seen) /\ m = Len(got)
    OBVIOUS
  <2>2. /\ got \in Seq(Nat) /\ l \in Nat /\ m \in Nat /\ req[a].upto \in Nat
        /\ seen' = seen \o got /\ known' = req[a].upto /\ req[a].status = 200
    BY <1>1, <1>3, <1>11, <2>1, RequestFields DEF GetBatch, Answered
  <2>3. /\ seen' \in Seq(Nat) /\ Len(seen') = l + m
        /\ \A j \in 1 .. l : seen'[j] = seen[j] /\ seen[j] \in Nat
        /\ \A j \in 1 .. m : seen'[l + j] = got[j] /\ got[j] \in Nat
        /\ \A j \in l + 1 .. l + m : j - l \in 1 .. m /\ seen'[j] = got[j - l]
    <3>1. seen' \in Seq(Nat) /\ Len(seen') = l + m
      BY <1>3, <2>1, <2>2
    <3>2. /\ \A j \in 1 .. l : seen'[j] = seen[j] /\ seen[j] \in Nat
          /\ \A j \in 1 .. m : got[j] \in Nat
      BY <1>3, <2>1, <2>2
    <3>3. \A j \in l + 1 .. l + m : j - l \in 1 .. m /\ seen'[j] = got[j - l]
      BY <1>3, <2>1, <2>2
    <3>4. ASSUME NEW j \in 1 .. m PROVE seen'[l + j] = got[j]
      <4>1. l + j \in l + 1 .. l + m /\ (l + j) - l = j
        BY <2>2
      <4> QED
        BY <3>3, <4>1
    <3> QED
      BY ONLY <3>1, <3>2, <3>3, <3>4
  <2>4. /\ \A i \in 1 .. l, j \in 1 .. m : seen[i] < got[j]
        /\ \A j \in 1 .. m - 1 : got[j + 1] = got[j] + 1
        /\ \A j \in 1 .. m : got[j] <= sent
        /\ \A i \in 1 .. l : seen[i] <= sent
        /\ \A i \in 1 .. l - 1 : seen[i] < seen[i + 1]
    BY <1>3, <2>1 DEF After, Batch, DownlinkInv, Fresh, NeverTwice
  <2>5. NeverTwice'
    <3> SUFFICES ASSUME NEW j \in 1 .. l + m - 1 PROVE seen'[j] < seen'[j + 1]
      <4>1. Len(seen') = l + m
        BY <2>3
      <4> QED
        BY <2>2, <4>1 DEF NeverTwice
    <3>0. l \in Nat /\ j \in Int
      BY <2>2
    <3>1. CASE j < l
      <4>1. j \in 1 .. l - 1 /\ j \in 1 .. l /\ j + 1 \in 1 .. l
        BY <2>2, <3>1
      <4> QED
        BY <2>3, <2>4, <4>1
    <3>2. CASE j = l
      <4>1. j \in 1 .. l /\ 1 \in 1 .. m
        BY <2>2, <3>2
      <4> QED
        BY <2>3, <2>4, <3>2, <4>1
    <3>3. CASE j > l
      <4>1. /\ j - l \in 1 .. m - 1 /\ j \in l + 1 .. l + m /\ j + 1 \in l + 1 .. l + m
            /\ (j + 1) - l = (j - l) + 1 /\ j - l \in 1 .. m
        BY <2>2, <3>3
      <4> QED
        BY <2>3, <2>4, <4>1
    <3> QED
      BY <3>0, <3>1, <3>2, <3>3
  <2>6. Fresh'
    <3>1. \A j \in 1 .. l + m : j \in 1 .. l \/ j \in l + 1 .. l + m
      BY <2>2
    <3>2. \A j \in 1 .. l + m : seen'[j] <= sent
      BY <2>3, <2>4, <3>1
    <3>3. req'[tries] = r /\ r.pc = "taken"
      BY <1>1, <1>4, <1>5
    <3> QED
      BY <1>3, <2>3, <3>2, <3>3 DEF Fresh, After
  <2>7. DTypeOK'
    BY <1>3, <1>5, <2>2, <2>3 DEF DownlinkInv, DTypeOK, maps
  <2>8. CursorCounts'
    <3>1. Answers' = Answers /\ \A b \in Answers : Share(b)' = Share(b)
      BY <1>8 DEF Answers, Share
    <3>2. Len(seen') <= known'
      BY <1>1, <1>3, <2>1, <2>2, <2>3 DEF DownlinkInv, Pending, CursorCounts
    <3>3. known' <= cursor
      BY <1>1, <1>3, <2>2 DEF DownlinkInv, Pending
    <3> QED
      BY <1>8, <3>1, <3>2, <3>3 DEF DownlinkInv, CursorCounts
  <2> QED
    BY <1>6, <1>7, <1>9, <2>5, <2>6, <2>7, <2>8 DEF DownlinkInv
<1> QED
  BY <1>10, <1>11

-----------------------------------------------------------------------------
(* The session, the forwarder, the end of the page and DELETE *)

\* A step that makes or answers no request and takes no answer.
LEMMA Elsewhere ==
  ASSUME DownlinkInv, UNCHANGED <<req, tries, seen, known>>,
         sent' = sent \/ sent' = sent + 1,
         \/ UNCHANGED <<cursor, del, closed>>
         \/ UNCHANGED cursor /\ closed' /\ closed' \in BOOLEAN /\ del' # "done"
              /\ del # "done"
         \/ cursor' = NoEntry /\ del' = "done" /\ closed' = closed /\ del # "none"
  PROVE  DownlinkInv'
<1>1. DTypeOK'
  BY DEF DownlinkInv, DTypeOK
<1>2. Batches'
  <2>1. \A a \in Tries : Batch(req[a], sent) => Batch(req[a], sent')
    <3> SUFFICES ASSUME NEW a \in Tries, Batch(req[a], sent)
                 PROVE  Batch(req[a], sent')
      OBVIOUS
    <3>1. /\ req[a].next \in Nat /\ sent \in Nat
          /\ \A j \in 1 .. Len(req[a].got) : req[a].got[j] \in Nat
      BY RequestFields DEF DownlinkInv, DTypeOK
    <3> QED
      BY <3>1 DEF Batch
  <2> QED
    BY <2>1 DEF DownlinkInv, Batches
<1>3. Unmade' /\ NeverTwice'
  BY DEF DownlinkInv, Unmade, NeverTwice
<1>4. Fresh'
  <2>1. \A i \in 1 .. Len(seen) : seen[i] \in Nat
    BY DEF DownlinkInv, DTypeOK
  <2> QED
    BY <2>1 DEF DownlinkInv, Fresh, DTypeOK
<1>5. Pending'
  BY DEF DownlinkInv, Pending
<1>6. CursorCounts'
  <2>1. Answers' = Answers /\ \A b \in Answers : Share(b)' = Share(b)
    BY DEF Answers, Share
  <2> QED
    BY <2>1 DEF DownlinkInv, CursorCounts, Pending
<1> QED
  BY <1>1, <1>2, <1>3, <1>4, <1>5, <1>6 DEF DownlinkInv

\* Every step keeps the invariant.
LEMMA DownlinkStep ==
  ASSUME DownlinkInv, [DNext]_dvars
  PROVE  DownlinkInv'
<1>1. CASE Emit \/ SessionEnd \/ Forward
  BY <1>1, Elsewhere DEF Emit, SessionEnd, Forward, maps, page
<1>2. ASSUME NEW a \in Tries, Handler(a) \/ Cancel(a) PROVE DownlinkInv'
  BY <1>2, WithoutMessage, WithMessage, AnswerCounted DEF Handler
<1>3. CASE Page
  <2>1. CASE Close
    <3>1. ~closed /\ del = "none"
      BY <2>1 DEF Close, DownlinkInv, Pending
    <3> QED
      BY <2>1, <3>1, Elsewhere DEF Close
  <2> QED
    BY <1>3, <2>1, Sending, Getting DEF Page
<1>4. CASE DeleteCursor
  BY <1>4, Elsewhere DEF DeleteCursor, page
<1>5. CASE DeleteSession \/ DeleteOut \/ DeleteLost
  <2>1. del \notin {"none", "done"} /\ del' # "done" /\ closed
        /\ UNCHANGED <<req, sent, cursor, page>>
    BY <1>5 DEF DeleteSession, DeleteOut, DeleteLost, DownlinkInv, Pending
  <2>2. closed' = closed /\ closed \in BOOLEAN
    BY <2>1 DEF DownlinkInv, DTypeOK, page
  <2> QED
    BY <2>1, <2>2, Elsewhere DEF page
<1>6. CASE UNCHANGED dvars
  BY <1>6, Elsewhere DEF dvars, maps, page
<1> QED
  BY <1>1, <1>2, <1>3, <1>4, <1>5, <1>6 DEF DNext, Delete

\* Nothing is asked, collected or counted at the start.
LEMMA DownlinkInit == DInit => DownlinkInv
<1> SUFFICES ASSUME DInit PROVE DownlinkInv
  OBVIOUS
<1>1. Idle \in Request /\ Idle.status = 0 /\ Idle.got = <<>> /\ Idle.next = 1
      /\ Idle.pc = "unsent"
  <2>1. "unsent" \in Places /\ 0 \in Statuses /\ <<>> \in Seq(Nat)
    BY DEF Places, Statuses
  <2> QED
    BY ONLY <2>1 DEF Request, Idle
<1>2. req = [a \in Tries |-> Idle] /\ \A a \in Tries : req[a] = Idle
  BY DEF DInit
<1>3. DTypeOK
  <2>1. req \in [Tries -> Request]
    BY <1>1, <1>2
  <2>2. /\ sent = 0 /\ cursor = 0 /\ tries = 0 /\ seen = <<>> /\ known = 0
        /\ closed = FALSE /\ 0 \in 0 .. MaxTries
    BY DownAssumption DEF DInit
  <2> QED
    <3>1. closed \in BOOLEAN
      BY <2>2
    <3>2. seen \in Seq(Nat) /\ cursor \in Nat \cup {NoEntry}
      BY <2>2
    <3> QED
      BY <2>1, <2>2, <3>1, <3>2 DEF DTypeOK
<1>4. Batches
  BY <1>1, <1>2, DownAssumption DEF DInit, Batches, Placed, Batch
<1>5. Unmade /\ Fresh /\ NeverTwice
  BY <1>2 DEF DInit, Unmade, Fresh, NeverTwice
<1>6. Pending
  BY DEF DInit, Pending, NoEntry
<1>7. CursorCounts
  <2>1. Answers = {}
    BY <1>1, <1>2 DEF Answers
  <2>2. Len(seen) = 0 /\ known = 0 /\ cursor = 0
    BY DEF DInit
  <2>3. UNION {Share(a) : a \in Answers} = {} /\ 1 .. cursor = {}
    BY <2>1, <2>2
  <2> QED
    BY <2>1, <2>2, <2>3 DEF CursorCounts
<1> QED
  BY <1>3, <1>4, <1>5, <1>6, <1>7 DEF DownlinkInv

-----------------------------------------------------------------------------
(* The theorems *)

\* The invariant holds of every behaviour of the downlink.
THEOREM DownlinkCorrect == DSpec => []DownlinkInv
  BY DownlinkInit, DownlinkStep, PTL DEF DSpec

\* An answer never has a gap, a repetition or more than BatchMax messages,
\* however far its receiver lags behind.
THEOREM BatchesContiguous == DSpec => []BatchContiguous
<1>1. DownlinkInv => BatchContiguous
  BY DEF DownlinkInv, Batches, Placed, Batch, BatchContiguous
<1> QED
  BY <1>1, DownlinkCorrect, PTL

\* The client receives no message twice, however often it retries.
THEOREM ReceivedInOrder == DSpec => []NeverTwice
<1>1. DownlinkInv => NeverTwice
  BY DEF DownlinkInv
<1> QED
  BY <1>1, DownlinkCorrect, PTL

\* Two answers made at the same time never count the same place of the cursor.
THEOREM CursorExact == DSpec => []CursorCounts
<1>1. DownlinkInv => CursorCounts
  BY DEF DownlinkInv
<1> QED
  BY <1>1, DownlinkCorrect, PTL

=============================================================================
