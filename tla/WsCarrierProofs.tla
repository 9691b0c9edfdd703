-------------------------- MODULE WsCarrierProofs --------------------------
(* Theorems about WsCarrier.tla, for every value of its constants: behind a *)
(* websocket the session is driven as Session.tla expects, so that what     *)
(* SessionProofs.tla shows of a session holds here.                         *)
EXTENDS WsCarrier, SessionProofs

-----------------------------------------------------------------------------
(* What is on its way from the client *)

\* The frames a client sends.
Sendable == {f \in [ty : {"HELLO", "OPEN", "DATA", "CLOSE", "BYE"}, id : Ids \cup {0}, n : Nat] :
               f.ty = "BYE" => f.id = 0}
Counts == [Ids \cup {0} -> Nat]

\* Message w on its way, the one being forwarded first.
At(b, msgs, w) == IF w = 0 THEN b ELSE msgs[w]
Sooner(u, j, w, k) == u < w \/ (u = w /\ j < k)

\* The number a frame of its stream has before frame f.
Base(f) == IF f.ty = "DATA" THEN f.n - 1 ELSE f.n

\* Frame k of message w goes on counting where its stream stands: where the
\* frames before it leave off, or else at what was forwarded, which is last.
Behind(b, msgs, last, w, k) ==
  LET f == At(b, msgs, w)[k] IN
  /\ last[f.id] <= Base(f)
  /\ \A u \in 0 .. Len(msgs) : \A j \in DOMAIN At(b, msgs, u) :
       Sooner(u, j, w, k) /\ At(b, msgs, u)[j].id = f.id => At(b, msgs, u)[j].n <= Base(f)
  /\ \/ Base(f) = last[f.id]
     \/ \E u \in 0 .. Len(msgs) : \E j \in DOMAIN At(b, msgs, u) :
          Sooner(u, j, w, k) /\ At(b, msgs, u)[j].id = f.id /\ At(b, msgs, u)[j].n = Base(f)

Numbered(b, msgs, last) ==
  \A w \in 0 .. Len(msgs) : \A k \in DOMAIN At(b, msgs, w) : Behind(b, msgs, last, w, k)

\* The client counts on from there.
Leads(b, msgs, last, count) ==
  \A i \in Ids \cup {0} :
    /\ last[i] <= count[i]
    /\ \A u \in 0 .. Len(msgs) : \A j \in DOMAIN At(b, msgs, u) :
         At(b, msgs, u)[j].id = i => At(b, msgs, u)[j].n <= count[i]
    /\ \/ count[i] = last[i]
       \/ \E u \in 0 .. Len(msgs) : \E j \in DOMAIN At(b, msgs, u) :
            At(b, msgs, u)[j].id = i /\ At(b, msgs, u)[j].n = count[i]

\* While the session takes frames, every frame on its way is the next of its
\* stream when its turn comes.
WsInv ==
  /\ batch \in Seq(Sendable) /\ wire \in Seq(Seq(Sendable))
  /\ csent \in Counts /\ sent \in Counts
  /\ loop \notin Ended => Numbered(batch, wire, sent)
  /\ loop \notin Ended /\ client = "open" => Leads(batch, wire, sent, csent)

-----------------------------------------------------------------------------
(* The queue of frames, without the carrier *)

\* A frame on its way is one the client may send.
LEMMA OnItsWay ==
  ASSUME NEW b \in Seq(Sendable), NEW msgs \in Seq(Seq(Sendable)),
         NEW w \in 0 .. Len(msgs), NEW k \in DOMAIN At(b, msgs, w)
  PROVE  /\ At(b, msgs, w) \in Seq(Sendable)
         /\ At(b, msgs, w)[k] \in Sendable
         /\ At(b, msgs, w)[k].id \in Ids \cup {0}
         /\ At(b, msgs, w)[k].n \in Nat
         /\ Base(At(b, msgs, w)[k]) \in Int
<1>1. At(b, msgs, w) \in Seq(Sendable)
  BY DEF At
<1>2. At(b, msgs, w)[k] \in Sendable
  BY <1>1
<1> QED
  BY <1>1, <1>2 DEF Sendable, Base

\* The next message becomes the one being forwarded.
LEMMA NextMessage ==
  ASSUME NEW msgs \in Seq(Seq(Sendable)), msgs # <<>>, NEW last,
         Numbered(<<>>, msgs, last)
  PROVE  Numbered(Head(msgs), Tail(msgs), last)
<1>1. Len(msgs) \in Nat \ {0} /\ Len(Tail(msgs)) = Len(msgs) - 1
  BY HeadTailProperties
<1>2. \A w \in 0 .. Len(Tail(msgs)) :
        w + 1 \in 0 .. Len(msgs) /\ At(Head(msgs), Tail(msgs), w) = At(<<>>, msgs, w + 1)
  BY <1>1 DEF At
<1>3. \A u \in 0 .. Len(msgs), j \in DOMAIN At(<<>>, msgs, 0) : FALSE
  BY DEF At
<1>4. ASSUME NEW w \in 0 .. Len(Tail(msgs)), NEW k \in DOMAIN At(Head(msgs), Tail(msgs), w)
      PROVE  Behind(Head(msgs), Tail(msgs), last, w, k)
  <2>1. k \in DOMAIN At(<<>>, msgs, w + 1) /\ Behind(<<>>, msgs, last, w + 1, k)
    BY <1>2 DEF Numbered
  <2>2. PICK f : f = At(<<>>, msgs, w + 1)[k] /\ f = At(Head(msgs), Tail(msgs), w)[k]
    BY <1>2
  <2>3. ASSUME NEW u \in 0 .. Len(Tail(msgs)), NEW j \in DOMAIN At(Head(msgs), Tail(msgs), u),
               Sooner(u, j, w, k), At(Head(msgs), Tail(msgs), u)[j].id = f.id
        PROVE  At(Head(msgs), Tail(msgs), u)[j].n <= Base(f)
    <3>1. Sooner(u + 1, j, w + 1, k)
      BY <2>3 DEF Sooner
    <3> QED
      BY <1>2, <2>1, <2>2, <2>3, <3>1 DEF Behind
  <2>4. ASSUME NEW u \in 0 .. Len(msgs), NEW j \in DOMAIN At(<<>>, msgs, u),
               Sooner(u, j, w + 1, k), At(<<>>, msgs, u)[j].id = f.id,
               At(<<>>, msgs, u)[j].n = Base(f)
        PROVE  \E x \in 0 .. Len(Tail(msgs)) : \E y \in DOMAIN At(Head(msgs), Tail(msgs), x) :
                 /\ Sooner(x, y, w, k)
                 /\ At(Head(msgs), Tail(msgs), x)[y].id = f.id
                 /\ At(Head(msgs), Tail(msgs), x)[y].n = Base(f)
    <3>1. u # 0
      BY <1>3
    <3>2. u - 1 \in 0 .. Len(Tail(msgs)) /\ (u - 1) + 1 = u
      BY <1>1, <3>1
    <3>3. At(Head(msgs), Tail(msgs), u - 1) = At(<<>>, msgs, u)
      BY <1>2, <3>2
    <3>4. Sooner(u - 1, j, w, k)
      BY <2>4 DEF Sooner
    <3> QED
      BY <2>4, <3>2, <3>3, <3>4
  <2> QED
    BY <2>1, <2>2, <2>3, <2>4 DEF Behind
<1> QED
  BY <1>4 DEF Numbered

\* The client's count is not touched by that.
LEMMA NextMessageLeads ==
  ASSUME NEW msgs \in Seq(Seq(Sendable)), msgs # <<>>, NEW last, NEW count,
         Leads(<<>>, msgs, last, count)
  PROVE  Leads(Head(msgs), Tail(msgs), last, count)
<1>1. Len(msgs) \in Nat \ {0} /\ Len(Tail(msgs)) = Len(msgs) - 1
  BY HeadTailProperties
<1>2. \A w \in 0 .. Len(Tail(msgs)) :
        w + 1 \in 0 .. Len(msgs) /\ At(Head(msgs), Tail(msgs), w) = At(<<>>, msgs, w + 1)
  BY <1>1 DEF At
<1>3. \A u \in 0 .. Len(msgs) : \A j \in DOMAIN At(<<>>, msgs, u) :
        u - 1 \in 0 .. Len(Tail(msgs)) /\ At(Head(msgs), Tail(msgs), u - 1) = At(<<>>, msgs, u)
  BY <1>1 DEF At
<1>4. ASSUME NEW i \in Ids \cup {0}
      PROVE  /\ last[i] <= count[i]
             /\ \A u \in 0 .. Len(Tail(msgs)) : \A j \in DOMAIN At(Head(msgs), Tail(msgs), u) :
                  At(Head(msgs), Tail(msgs), u)[j].id = i => At(Head(msgs), Tail(msgs), u)[j].n <= count[i]
             /\ \/ count[i] = last[i]
                \/ \E u \in 0 .. Len(Tail(msgs)) : \E j \in DOMAIN At(Head(msgs), Tail(msgs), u) :
                     At(Head(msgs), Tail(msgs), u)[j].id = i /\ At(Head(msgs), Tail(msgs), u)[j].n = count[i]
  <2>1. \A u \in 0 .. Len(Tail(msgs)) : \A j \in DOMAIN At(Head(msgs), Tail(msgs), u) :
          At(Head(msgs), Tail(msgs), u)[j].id = i => At(Head(msgs), Tail(msgs), u)[j].n <= count[i]
    BY <1>2 DEF Leads
  <2>2. ASSUME NEW u \in 0 .. Len(msgs), NEW j \in DOMAIN At(<<>>, msgs, u),
               At(<<>>, msgs, u)[j].id = i, At(<<>>, msgs, u)[j].n = count[i]
        PROVE  \E x \in 0 .. Len(Tail(msgs)) : \E y \in DOMAIN At(Head(msgs), Tail(msgs), x) :
                 At(Head(msgs), Tail(msgs), x)[y].id = i /\ At(Head(msgs), Tail(msgs), x)[y].n = count[i]
    BY <1>3, <2>2
  <2> QED
    BY <2>1, <2>2 DEF Leads
<1> QED
  BY <1>4 DEF Leads

\* The frame whose turn it is has the number its stream expects, and those
\* behind it go on from it.
LEMMA NextFrame ==
  ASSUME NEW b \in Seq(Sendable), NEW msgs \in Seq(Seq(Sendable)), b # <<>>,
         NEW last \in Counts, NEW new \in Counts, NEW f, f = Head(b),
         Numbered(b, msgs, last), new[f.id] = f.n,
         \A i \in Ids \cup {0} : i # f.id => new[i] = last[i]
  PROVE  last[f.id] = Base(f) /\ Numbered(Tail(b), msgs, new)
<1>1. /\ Len(b) \in Nat \ {0} /\ Len(Tail(b)) = Len(b) - 1 /\ f = b[1] /\ f \in Sendable
      /\ Tail(b) \in Seq(Sendable) /\ Len(msgs) \in Nat
      /\ DOMAIN b = 1 .. Len(b) /\ DOMAIN Tail(b) = 1 .. Len(b) - 1
      /\ \A p \in 1 .. Len(b) - 1 : Tail(b)[p] = b[p + 1]
  BY TailPositions
<1>2. f.id \in Ids \cup {0} /\ f.n \in Nat /\ Base(f) <= f.n /\ Base(f) \in Int
  BY <1>1 DEF Sendable, Base
<1>3. 0 \in 0 .. Len(msgs) /\ 1 \in DOMAIN At(b, msgs, 0) /\ At(b, msgs, 0)[1] = f
  BY <1>1 DEF At
<1>4. ASSUME NEW u \in 0 .. Len(msgs), NEW j \in DOMAIN At(b, msgs, u)
      PROVE  ~Sooner(u, j, 0, 1) /\ (Sooner(0, 1, u, j) \/ (u = 0 /\ j = 1))
  BY <1>1 DEF At, Sooner
<1>5. last[f.id] = Base(f)
  BY <1>3, <1>4 DEF Numbered, Behind
\* A frame that stays, with its place before.
<1>6. ASSUME NEW w \in 0 .. Len(msgs), NEW k \in DOMAIN At(Tail(b), msgs, w)
      PROVE  \E old \in DOMAIN At(b, msgs, w) :
               /\ old = IF w = 0 THEN k + 1 ELSE k
               /\ At(b, msgs, w)[old] = At(Tail(b), msgs, w)[k]
               /\ Sooner(0, 1, w, old)
  BY <1>1 DEF At, Sooner
<1>7. ASSUME NEW w \in 0 .. Len(msgs), NEW k \in DOMAIN At(Tail(b), msgs, w)
      PROVE  Behind(Tail(b), msgs, new, w, k)
  <2>1. PICK old \in DOMAIN At(b, msgs, w) :
          /\ old = IF w = 0 THEN k + 1 ELSE k
          /\ At(b, msgs, w)[old] = At(Tail(b), msgs, w)[k]
          /\ Sooner(0, 1, w, old)
    BY <1>6
  <2>2. PICK g : g = At(Tail(b), msgs, w)[k] /\ g = At(b, msgs, w)[old]
    BY <2>1
  <2>3. g \in Sendable /\ g.id \in Ids \cup {0} /\ Base(g) \in Int
    BY <2>2, OnItsWay
  <2>4. Behind(b, msgs, last, w, old)
    BY DEF Numbered
  <2>5. new[g.id] <= Base(g)
    BY <1>2, <1>3, <2>1, <2>2, <2>3, <2>4 DEF Behind
  <2>6. ASSUME NEW u \in 0 .. Len(msgs), NEW j \in DOMAIN At(Tail(b), msgs, u),
               Sooner(u, j, w, k), At(Tail(b), msgs, u)[j].id = g.id
        PROVE  At(Tail(b), msgs, u)[j].n <= Base(g)
    <3>1. PICK x \in DOMAIN At(b, msgs, u) :
            /\ x = IF u = 0 THEN j + 1 ELSE j
            /\ At(b, msgs, u)[x] = At(Tail(b), msgs, u)[j]
      BY <1>6
    <3>2. j \in Int /\ k \in Int
      BY <1>1 DEF At
    <3>3. Sooner(u, x, w, old)
      BY <2>1, <2>6, <3>1, <3>2 DEF Sooner
    <3> QED
      BY <2>2, <2>4, <2>6, <3>1, <3>3 DEF Behind
  <2>7. CASE Base(g) = last[g.id]
    <3>1. CASE g.id = f.id
      <4>1. f.n <= Base(g)
        BY <1>3, <2>1, <2>2, <2>4, <3>1 DEF Behind
      <4>2. new[g.id] = Base(g)
        BY <1>2, <1>5, <2>3, <2>7, <3>1, <4>1
      <4> QED
        BY <2>2, <2>5, <2>6, <4>2 DEF Behind
    <3>2. CASE g.id # f.id
      BY <2>2, <2>3, <2>5, <2>6, <2>7, <3>2 DEF Behind
    <3> QED
      BY <3>1, <3>2
  <2>8. ASSUME NEW u \in 0 .. Len(msgs), NEW j \in DOMAIN At(b, msgs, u), Sooner(u, j, w, old),
               At(b, msgs, u)[j].id = g.id, At(b, msgs, u)[j].n = Base(g)
        PROVE  Behind(Tail(b), msgs, new, w, k)
    <3>1. CASE u = 0 /\ j = 1
      <4>1. new[g.id] = Base(g)
        BY <1>3, <2>8, <3>1
      <4> QED
        BY <2>2, <2>5, <2>6, <4>1 DEF Behind
    <3>2. CASE ~(u = 0 /\ j = 1)
      <4>1. PICK x \in DOMAIN At(Tail(b), msgs, u) :
              /\ j = IF u = 0 THEN x + 1 ELSE x
              /\ At(Tail(b), msgs, u)[x] = At(b, msgs, u)[j]
        <5>1. CASE u = 0
          <6>1. j \in 1 .. Len(b) /\ j # 1
            BY <1>1, <3>2, <5>1 DEF At
          <6>2. j - 1 \in 1 .. Len(b) - 1 /\ (j - 1) + 1 = j
            BY <1>1, <6>1
          <6>3. j - 1 \in DOMAIN At(Tail(b), msgs, 0) /\ At(Tail(b), msgs, 0)[j - 1] = At(b, msgs, 0)[j]
            BY <1>1, <6>2 DEF At
          <6> QED
            BY <5>1, <6>2, <6>3
        <5>2. CASE u # 0
          BY <5>2 DEF At
        <5> QED
          BY <5>1, <5>2
      <4>2. x \in Int /\ k \in Int
        BY <1>1 DEF At
      <4>3. Sooner(u, x, w, k)
        BY <2>1, <2>8, <4>1, <4>2 DEF Sooner
      <4> QED
        BY <2>2, <2>5, <2>6, <2>8, <4>1, <4>3 DEF Behind
    <3> QED
      BY <3>1, <3>2
  <2> QED
    BY <2>2, <2>4, <2>7, <2>8 DEF Behind
<1> QED
  BY <1>5, <1>7 DEF Numbered

\* Forwarding does not touch the client's count either.
LEMMA NextFrameLeads ==
  ASSUME NEW b \in Seq(Sendable), NEW msgs \in Seq(Seq(Sendable)), b # <<>>,
         NEW last \in Counts, NEW new \in Counts, NEW count \in Counts, NEW f, f = Head(b),
         Leads(b, msgs, last, count), last[f.id] <= f.n, new[f.id] = f.n,
         \A i \in Ids \cup {0} : i # f.id => new[i] = last[i]
  PROVE  Leads(Tail(b), msgs, new, count)
<1>1. /\ Len(b) \in Nat \ {0} /\ Len(Tail(b)) = Len(b) - 1 /\ f = b[1] /\ f \in Sendable
      /\ Tail(b) \in Seq(Sendable) /\ Len(msgs) \in Nat
      /\ DOMAIN b = 1 .. Len(b) /\ DOMAIN Tail(b) = 1 .. Len(b) - 1
      /\ \A p \in 1 .. Len(b) - 1 : Tail(b)[p] = b[p + 1]
  BY TailPositions
<1>2. f.id \in Ids \cup {0} /\ f.n \in Nat
  BY <1>1 DEF Sendable
<1>3. 0 \in 0 .. Len(msgs) /\ 1 \in DOMAIN At(b, msgs, 0) /\ At(b, msgs, 0)[1] = f
  BY <1>1 DEF At
<1>4. ASSUME NEW w \in 0 .. Len(msgs), NEW k \in DOMAIN At(Tail(b), msgs, w)
      PROVE  \E old \in DOMAIN At(b, msgs, w) : At(b, msgs, w)[old] = At(Tail(b), msgs, w)[k]
  BY <1>1 DEF At
<1>5. ASSUME NEW u \in 0 .. Len(msgs), NEW j \in DOMAIN At(b, msgs, u), ~(u = 0 /\ j = 1)
      PROVE  \E x \in DOMAIN At(Tail(b), msgs, u) : At(Tail(b), msgs, u)[x] = At(b, msgs, u)[j]
  <2>1. CASE u = 0
    <3>1. j \in 1 .. Len(b) /\ j # 1
      BY <1>1, <1>5, <2>1 DEF At
    <3>2. j - 1 \in 1 .. Len(b) - 1 /\ (j - 1) + 1 = j
      BY <1>1, <3>1
    <3>3. j - 1 \in DOMAIN At(Tail(b), msgs, 0) /\ At(Tail(b), msgs, 0)[j - 1] = At(b, msgs, 0)[j]
      BY <1>1, <3>2 DEF At
    <3> QED
      BY <2>1, <3>3
  <2>2. CASE u # 0
    BY <2>2 DEF At
  <2> QED
    BY <2>1, <2>2
<1>6. ASSUME NEW i \in Ids \cup {0}
      PROVE  /\ new[i] <= count[i]
             /\ \A u \in 0 .. Len(msgs) : \A j \in DOMAIN At(Tail(b), msgs, u) :
                  At(Tail(b), msgs, u)[j].id = i => At(Tail(b), msgs, u)[j].n <= count[i]
             /\ \/ count[i] = new[i]
                \/ \E u \in 0 .. Len(msgs) : \E j \in DOMAIN At(Tail(b), msgs, u) :
                     At(Tail(b), msgs, u)[j].id = i /\ At(Tail(b), msgs, u)[j].n = count[i]
  <2>1. new[i] <= count[i]
    BY <1>3 DEF Leads
  <2>2. \A u \in 0 .. Len(msgs) : \A j \in DOMAIN At(Tail(b), msgs, u) :
          At(Tail(b), msgs, u)[j].id = i => At(Tail(b), msgs, u)[j].n <= count[i]
    BY <1>4 DEF Leads
  <2>3. CASE count[i] = last[i]
    <3>1. new[i] \in Nat /\ count[i] \in Nat /\ last[i] \in Nat
      BY DEF Counts
    <3>2. new[i] = last[i] \/ new[i] >= last[i]
      BY <1>2, <3>1
    <3>3. count[i] = new[i]
      BY <2>1, <2>3, <3>1, <3>2
    <3> QED
      BY <2>1, <2>2, <3>3
  <2>4. ASSUME NEW u \in 0 .. Len(msgs), NEW j \in DOMAIN At(b, msgs, u),
               At(b, msgs, u)[j].id = i, At(b, msgs, u)[j].n = count[i]
        PROVE  \/ count[i] = new[i]
               \/ \E x \in 0 .. Len(msgs) : \E y \in DOMAIN At(Tail(b), msgs, x) :
                    At(Tail(b), msgs, x)[y].id = i /\ At(Tail(b), msgs, x)[y].n = count[i]
    BY <1>3, <1>5, <2>4
  <2> QED
    BY <2>1, <2>2, <2>3, <2>4 DEF Leads
<1> QED
  BY <1>6 DEF Leads

\* What is lost lies behind what stays.
LEMMA CutOff ==
  ASSUME NEW b \in Seq(Sendable), NEW msgs \in Seq(Seq(Sendable)), NEW last,
         NEW k \in 0 .. Len(msgs), Numbered(b, msgs, last)
  PROVE  /\ SubSeq(msgs, 1, k) \in Seq(Seq(Sendable))
         /\ Numbered(b, SubSeq(msgs, 1, k), last)
<1>1. PICK v : v = SubSeq(msgs, 1, k)
  OBVIOUS
<1>2. /\ v \in Seq(Seq(Sendable)) /\ Len(v) = k /\ Len(msgs) \in Nat
      /\ \A p \in 1 .. k : v[p] = msgs[p]
  BY <1>1
<1>3. \A w \in 0 .. Len(v) : w \in 0 .. Len(msgs) /\ At(b, v, w) = At(b, msgs, w)
  BY <1>2 DEF At
<1>4. ASSUME NEW w \in 0 .. Len(v), NEW j \in DOMAIN At(b, v, w)
      PROVE  Behind(b, v, last, w, j)
  <2>1. Behind(b, msgs, last, w, j)
    BY <1>3 DEF Numbered
  <2>2. PICK f : f = At(b, v, w)[j] /\ f = At(b, msgs, w)[j]
    BY <1>3
  <2>3. ASSUME NEW u \in 0 .. Len(msgs), NEW i \in DOMAIN At(b, msgs, u), Sooner(u, i, w, j),
               At(b, msgs, u)[i].id = f.id, At(b, msgs, u)[i].n = Base(f)
        PROVE  \E x \in 0 .. Len(v) : \E y \in DOMAIN At(b, v, x) :
                 Sooner(x, y, w, j) /\ At(b, v, x)[y].id = f.id /\ At(b, v, x)[y].n = Base(f)
    <3>1. u \in 0 .. Len(v)
      BY <1>2, <2>3 DEF Sooner
    <3> QED
      BY <1>3, <2>3, <3>1
  <2>4. \A u \in 0 .. Len(v) : \A i \in DOMAIN At(b, v, u) :
          Sooner(u, i, w, j) /\ At(b, v, u)[i].id = f.id => At(b, v, u)[i].n <= Base(f)
    BY <1>3, <2>1, <2>2 DEF Behind
  <2> QED
    BY <2>1, <2>2, <2>3, <2>4 DEF Behind
<1> QED
  BY <1>1, <1>2, <1>4 DEF Numbered

\* Frame f has joined the messages msgs at their end, which gave v.
Joined(msgs, v, f) ==
  /\ v \in Seq(Seq(Sendable)) /\ v # <<>> /\ f \in Sendable
  /\ Len(v) \in {Len(msgs), Len(msgs) + 1}
  /\ v[Len(v)] # <<>> /\ v[Len(v)][Len(v[Len(v)])] = f
  /\ \A w \in 1 .. Len(msgs) : \A k \in DOMAIN msgs[w] :
       k \in DOMAIN v[w] /\ v[w][k] = msgs[w][k] /\ ~(w = Len(v) /\ k = Len(v[w]))
  /\ \A w \in 1 .. Len(v) : \A k \in DOMAIN v[w] :
       \/ w = Len(v) /\ k = Len(v[w])
       \/ w \in 1 .. Len(msgs) /\ k \in DOMAIN msgs[w]

\* The frame makes a message of its own, or joins the last one.
LEMMA OwnMessage ==
  ASSUME NEW msgs \in Seq(Seq(Sendable)), NEW f \in Sendable
  PROVE  Joined(msgs, Append(msgs, <<f>>), f)
<1>1. PICK v : v = Append(msgs, <<f>>)
  OBVIOUS
<1>2. <<f>> \in Seq(Sendable)
  OBVIOUS
<1>3. /\ v \in Seq(Seq(Sendable)) /\ Len(v) = Len(msgs) + 1 /\ Len(msgs) \in Nat
      /\ \A p \in 1 .. Len(msgs) : v[p] = msgs[p]
      /\ v[Len(msgs) + 1] = <<f>>
  BY <1>1, <1>2, AppendPositions
<1>4. Len(<<f>>) = 1 /\ DOMAIN <<f>> = {1} /\ <<f>>[1] = f /\ <<f>> # <<>>
  OBVIOUS
<1>5. v # <<>>
  BY <1>3
<1> QED
  BY <1>1, <1>3, <1>4, <1>5 DEF Joined

\* A frame joins the last message.
LEMMA LastMessage ==
  ASSUME NEW msgs \in Seq(Seq(Sendable)), NEW f \in Sendable, msgs # <<>>
  PROVE  Joined(msgs, [msgs EXCEPT ![Len(msgs)] = Append(@, f)], f)
<1>1. PICK v : v = [msgs EXCEPT ![Len(msgs)] = Append(@, f)]
  OBVIOUS
<1>2. Len(msgs) \in Nat \ {0} /\ Len(msgs) \in DOMAIN msgs /\ DOMAIN msgs = 1 .. Len(msgs)
  OBVIOUS
<1>3. PICK m \in Seq(Sendable) : m = msgs[Len(msgs)]
  BY <1>2
<1>4. PICK n : n = Append(m, f)
  OBVIOUS
<1>5. /\ n \in Seq(Sendable) /\ Len(n) = Len(m) + 1
      /\ DOMAIN n = 1 .. Len(m) + 1 /\ DOMAIN m = 1 .. Len(m)
      /\ \A p \in 1 .. Len(m) : n[p] = m[p]
      /\ n[Len(m) + 1] = f
  BY <1>4, AppendPositions
<1>6. Len(m) \in Nat
  OBVIOUS
<1>7. n # <<>>
  BY <1>5, <1>6
<1>8. /\ v = [msgs EXCEPT ![Len(msgs)] = n] /\ n \in Seq(Sendable)
      /\ msgs \in [1 .. Len(msgs) -> Seq(Sendable)]
  BY <1>1, <1>2, <1>3, <1>4, <1>5
<1>9. /\ v \in [1 .. Len(msgs) -> Seq(Sendable)] /\ v[Len(msgs)] = n
      /\ \A p \in 1 .. Len(msgs) : p # Len(msgs) => v[p] = msgs[p]
  BY <1>2, <1>8
<1>10. v \in Seq(Seq(Sendable)) /\ Len(v) = Len(msgs) /\ v # <<>>
  <2>1. v \in Seq(Seq(Sendable)) /\ Len(v) = Len(msgs)
    BY <1>2, <1>8, ExceptSeq
  <2> QED
    BY <1>2, <2>1
<1>11. \A w \in 1 .. Len(msgs) : \A k \in DOMAIN msgs[w] :
         k \in DOMAIN v[w] /\ v[w][k] = msgs[w][k] /\ ~(w = Len(v) /\ k = Len(v[w]))
  <2>1. ASSUME NEW w \in 1 .. Len(msgs), NEW k \in DOMAIN msgs[w]
        PROVE  k \in DOMAIN v[w] /\ v[w][k] = msgs[w][k] /\ ~(w = Len(v) /\ k = Len(v[w]))
    <3>1. CASE w = Len(msgs)
      <4>1. k \in 1 .. Len(m) /\ v[w] = n /\ msgs[w] = m
        BY <1>3, <1>5, <1>9, <3>1
      <4>2. k \in DOMAIN n /\ n[k] = m[k] /\ k # Len(n)
        BY <1>5, <1>6, <4>1
      <4> QED
        BY <4>1, <4>2
    <3>2. CASE w # Len(msgs)
      BY <1>9, <1>10, <3>2
    <3> QED
      BY <3>1, <3>2
  <2> QED
    BY <2>1
<1>12. ASSUME NEW w \in 1 .. Len(v), NEW k \in DOMAIN v[w]
       PROVE  \/ w = Len(v) /\ k = Len(v[w])
              \/ w \in 1 .. Len(msgs) /\ k \in DOMAIN msgs[w]
  <2>1. CASE w = Len(msgs)
    <3>1. k \in 1 .. Len(m) + 1 /\ v[w] = n /\ msgs[w] = m
      BY <1>3, <1>5, <1>9, <2>1
    <3> QED
      BY <1>2, <1>5, <1>6, <1>10, <2>1, <3>1
  <2>2. CASE w # Len(msgs)
    BY <1>9, <1>10, <2>2
  <2> QED
    BY <2>1, <2>2
<1>13. v[Len(v)] # <<>> /\ v[Len(v)][Len(v[Len(v)])] = f
  BY <1>5, <1>7, <1>9, <1>10
<1> QED
  BY <1>1, <1>10, <1>11, <1>12, <1>13 DEF Joined

\* It stands in place <<W, K>>, behind what was on its way before.
JoinedAt(b, msgs, v, f, W, K) ==
  /\ W \in 0 .. Len(v) /\ K \in DOMAIN At(b, v, W) /\ At(b, v, W)[K] = f
  /\ \A w \in 0 .. Len(msgs) : \A k \in DOMAIN At(b, msgs, w) :
       /\ w \in 0 .. Len(v) /\ k \in DOMAIN At(b, v, w)
       /\ At(b, v, w)[k] = At(b, msgs, w)[k]
       /\ Sooner(w, k, W, K)
  /\ \A w \in 0 .. Len(v) : \A k \in DOMAIN At(b, v, w) :
       \/ w = W /\ k = K
       \/ /\ w \in 0 .. Len(msgs) /\ k \in DOMAIN At(b, msgs, w)
          /\ At(b, v, w)[k] = At(b, msgs, w)[k]

\* What was on its way is there after a frame has joined, before that frame,
\* and nothing else is.
LEMMA JoinedPlaces ==
  ASSUME NEW b \in Seq(Sendable), NEW msgs \in Seq(Seq(Sendable)), NEW v, NEW f,
         Joined(msgs, v, f), NEW W, NEW K, W = Len(v), K = Len(v[W])
  PROVE  JoinedAt(b, msgs, v, f, W, K)
<1>1. /\ v \in Seq(Seq(Sendable)) /\ Len(v) \in Nat \ {0} /\ Len(msgs) \in Nat
      /\ Len(v) \in {Len(msgs), Len(msgs) + 1}
  BY DEF Joined
<1>2. /\ v[W] \in Seq(Sendable) /\ v[W] # <<>> /\ K \in Nat \ {0}
      /\ DOMAIN v[W] = 1 .. K /\ v[W][K] = f
  BY <1>1 DEF Joined
<1>3. W \in 0 .. Len(v) /\ K \in DOMAIN At(b, v, W) /\ At(b, v, W)[K] = f
  BY <1>1, <1>2 DEF At
<1>4. ASSUME NEW w \in 0 .. Len(msgs), NEW k \in DOMAIN At(b, msgs, w)
      PROVE  /\ w \in 0 .. Len(v) /\ k \in DOMAIN At(b, v, w)
             /\ At(b, v, w)[k] = At(b, msgs, w)[k]
             /\ Sooner(w, k, W, K)
  <2>1. CASE w = 0
    BY <1>1, <2>1 DEF At, Sooner
  <2>2. CASE w # 0
    <3>1. w \in 1 .. Len(msgs) /\ k \in DOMAIN msgs[w]
      BY <1>1, <2>2 DEF At
    <3>2. k \in DOMAIN v[w] /\ v[w][k] = msgs[w][k] /\ ~(w = W /\ k = K)
      BY <3>1 DEF Joined
    <3>3. w < W \/ (w = W /\ k \in 1 .. K /\ k # K)
      BY <1>1, <1>2, <3>1, <3>2
    <3> QED
      BY <1>1, <1>2, <2>2, <3>1, <3>2, <3>3 DEF At, Sooner
  <2> QED
    BY <2>1, <2>2
<1>5. ASSUME NEW w \in 0 .. Len(v), NEW k \in DOMAIN At(b, v, w), ~(w = W /\ k = K)
      PROVE  /\ w \in 0 .. Len(msgs) /\ k \in DOMAIN At(b, msgs, w)
             /\ At(b, v, w)[k] = At(b, msgs, w)[k]
  <2>1. CASE w = 0
    BY <1>1, <2>1 DEF At
  <2>2. CASE w # 0
    <3>1. w \in 1 .. Len(v) /\ k \in DOMAIN v[w]
      BY <1>1, <2>2 DEF At
    <3>2. w \in 1 .. Len(msgs) /\ k \in DOMAIN msgs[w]
      BY <1>5, <3>1 DEF Joined
    <3>3. v[w][k] = msgs[w][k]
      BY <3>2 DEF Joined
    <3> QED
      BY <1>1, <2>2, <3>2, <3>3 DEF At
  <2> QED
    BY <2>1, <2>2
<1> QED
  BY <1>3, <1>4, <1>5 DEF JoinedAt

\* A frame that joins with the number the client counts next keeps the order.
LEMMA JoinNumbered ==
  ASSUME NEW b \in Seq(Sendable), NEW msgs \in Seq(Seq(Sendable)), NEW v, NEW f,
         Joined(msgs, v, f), NEW last \in Counts, NEW count \in Counts,
         Numbered(b, msgs, last), Leads(b, msgs, last, count), Base(f) = count[f.id]
  PROVE  Numbered(b, v, last)
<1>1. PICK W, K : W = Len(v) /\ K = Len(v[W])
  OBVIOUS
<1>2. JoinedAt(b, msgs, v, f, W, K)
  BY <1>1, JoinedPlaces
<1>3. f \in Sendable /\ f.id \in Ids \cup {0} /\ v \in Seq(Seq(Sendable))
  BY DEF Joined, Sendable
<1>4. ~Sooner(W, K, W, K)
  <2>1. v[W] \in Seq(Sendable) /\ W \in Int
    BY <1>1, <1>3 DEF Joined
  <2> QED
    BY <1>1, <2>1 DEF Sooner
<1>5. Behind(b, v, last, W, K)
  <2>1. last[f.id] <= Base(f)
    BY <1>3 DEF Leads
  <2>2. \A u \in 0 .. Len(v) : \A j \in DOMAIN At(b, v, u) :
          Sooner(u, j, W, K) /\ At(b, v, u)[j].id = f.id => At(b, v, u)[j].n <= Base(f)
    BY <1>2, <1>3, <1>4 DEF Leads, JoinedAt
  <2>3. \/ Base(f) = last[f.id]
        \/ \E u \in 0 .. Len(v) : \E j \in DOMAIN At(b, v, u) :
             Sooner(u, j, W, K) /\ At(b, v, u)[j].id = f.id /\ At(b, v, u)[j].n = Base(f)
    <3>1. CASE count[f.id] = last[f.id]
      BY <3>1
    <3>2. ASSUME NEW u \in 0 .. Len(msgs), NEW j \in DOMAIN At(b, msgs, u),
                 At(b, msgs, u)[j].id = f.id, At(b, msgs, u)[j].n = count[f.id]
          PROVE  \E x \in 0 .. Len(v) : \E y \in DOMAIN At(b, v, x) :
                   Sooner(x, y, W, K) /\ At(b, v, x)[y].id = f.id /\ At(b, v, x)[y].n = Base(f)
      BY <1>2, <3>2 DEF JoinedAt
    <3> QED
      BY <1>3, <3>1, <3>2 DEF Leads
  <2> QED
    BY <1>2, <2>1, <2>2, <2>3 DEF Behind, JoinedAt
<1>6. ASSUME NEW w \in 0 .. Len(msgs), NEW k \in DOMAIN At(b, msgs, w)
      PROVE  Behind(b, v, last, w, k)
  <2>1. Behind(b, msgs, last, w, k)
    BY DEF Numbered
  <2>2. PICK g : g = At(b, v, w)[k] /\ g = At(b, msgs, w)[k]
    BY <1>2 DEF JoinedAt
  <2>3. ~Sooner(W, K, w, k)
    <3>1. Sooner(w, k, W, K) /\ w \in Int /\ W \in Int
      BY <1>2 DEF JoinedAt
    <3>2. k \in Int /\ K \in Int
      <4>1. v[W] \in Seq(Sendable)
        BY <1>1, <1>3 DEF Joined
      <4>2. At(b, msgs, w) \in Seq(Sendable)
        BY OnItsWay
      <4> QED
        BY <1>1, <4>1, <4>2
    <3> QED
      BY <3>1, <3>2 DEF Sooner
  <2>4. \A u \in 0 .. Len(v) : \A j \in DOMAIN At(b, v, u) :
          Sooner(u, j, w, k) /\ At(b, v, u)[j].id = g.id => At(b, v, u)[j].n <= Base(g)
    BY <1>2, <2>1, <2>2, <2>3 DEF Behind, JoinedAt
  <2>5. \/ Base(g) = last[g.id]
        \/ \E u \in 0 .. Len(v) : \E j \in DOMAIN At(b, v, u) :
             Sooner(u, j, w, k) /\ At(b, v, u)[j].id = g.id /\ At(b, v, u)[j].n = Base(g)
    <3>1. ASSUME NEW u \in 0 .. Len(msgs), NEW j \in DOMAIN At(b, msgs, u), Sooner(u, j, w, k),
                 At(b, msgs, u)[j].id = g.id, At(b, msgs, u)[j].n = Base(g)
          PROVE  \E x \in 0 .. Len(v) : \E y \in DOMAIN At(b, v, x) :
                   Sooner(x, y, w, k) /\ At(b, v, x)[y].id = g.id /\ At(b, v, x)[y].n = Base(g)
      BY <1>2, <3>1 DEF JoinedAt
    <3> QED
      BY <2>1, <2>2, <3>1 DEF Behind
  <2> QED
    BY <2>1, <2>2, <2>4, <2>5 DEF Behind
<1> QED
  BY <1>2, <1>5, <1>6 DEF Numbered, JoinedAt

\* And the client counts on from it.
LEMMA JoinLeads ==
  ASSUME NEW b \in Seq(Sendable), NEW msgs \in Seq(Seq(Sendable)), NEW v, NEW f,
         Joined(msgs, v, f), NEW last \in Counts, NEW count \in Counts, NEW new \in Counts,
         Leads(b, msgs, last, count), count[f.id] <= f.n, new[f.id] = f.n,
         \A i \in Ids \cup {0} : i # f.id => new[i] = count[i]
  PROVE  Leads(b, v, last, new)
<1>1. PICK W, K : W = Len(v) /\ K = Len(v[W])
  OBVIOUS
<1>2. JoinedAt(b, msgs, v, f, W, K)
  BY <1>1, JoinedPlaces
<1>3. f \in Sendable /\ f.id \in Ids \cup {0} /\ f.n \in Nat
  BY DEF Joined, Sendable
<1>4. ASSUME NEW i \in Ids \cup {0}
      PROVE  /\ last[i] <= new[i]
             /\ \A u \in 0 .. Len(v) : \A j \in DOMAIN At(b, v, u) :
                  At(b, v, u)[j].id = i => At(b, v, u)[j].n <= new[i]
             /\ \/ new[i] = last[i]
                \/ \E u \in 0 .. Len(v) : \E j \in DOMAIN At(b, v, u) :
                     At(b, v, u)[j].id = i /\ At(b, v, u)[j].n = new[i]
  <2>1. last[i] \in Nat /\ count[i] \in Nat /\ new[i] \in Nat
    BY DEF Counts
  <2>2. count[i] <= new[i]
    BY <2>1
  <2>3. last[i] <= new[i]
    BY <2>1, <2>2 DEF Leads
  <2>4. ASSUME NEW u \in 0 .. Len(v), NEW j \in DOMAIN At(b, v, u), At(b, v, u)[j].id = i
        PROVE  At(b, v, u)[j].n <= new[i]
    <3>1. CASE u = W /\ j = K
      BY <1>2, <1>3, <2>4, <3>1 DEF JoinedAt
    <3>2. CASE ~(u = W /\ j = K)
      <4>1. u \in 0 .. Len(msgs) /\ j \in DOMAIN At(b, msgs, u) /\ At(b, v, u)[j] = At(b, msgs, u)[j]
        BY <1>2, <3>2 DEF JoinedAt
      <4>2. At(b, msgs, u)[j].n <= count[i] /\ At(b, msgs, u)[j].n \in Nat
        BY <2>4, <4>1, OnItsWay DEF Leads
      <4> QED
        BY <2>1, <2>2, <4>1, <4>2
    <3> QED
      BY <3>1, <3>2
  <2>5. \/ new[i] = last[i]
        \/ \E u \in 0 .. Len(v) : \E j \in DOMAIN At(b, v, u) :
             At(b, v, u)[j].id = i /\ At(b, v, u)[j].n = new[i]
    <3>1. CASE i = f.id
      BY <1>2, <3>1 DEF JoinedAt
    <3>2. CASE i # f.id
      BY <1>2, <3>2 DEF Leads, JoinedAt
    <3> QED
      BY <3>1, <3>2
  <2> QED
    BY <2>3, <2>4, <2>5
<1> QED
  BY <1>4 DEF Leads

-----------------------------------------------------------------------------
(* The carrier's steps *)

\* The loop takes frames and numbers none, and never starts again.
LEMMA LoopNumbersNone == Loop => sent' = sent /\ loop \notin Ended
<1> SUFFICES ASSUME Loop PROVE sent' = sent /\ loop \notin Ended
  OBVIOUS
<1>1. loop \in {"recv", "busy", "bye"}
  BY DEF Loop, RecvHello, SendWelcome, WelcomeRefused, RecvOpen, ConnectOk, ConnectFail,
         RecvData, WriteOk, WriteFail, RecvClose, RecvIgnored, RecvUnexpected, RecvBye,
         RecvClosed, SendBye, Receive, Suspended
<1>2. sent' = sent
  BY DEF Loop, RecvHello, SendWelcome, WelcomeRefused, RecvOpen, ConnectOk, ConnectFail,
         RecvData, WriteOk, WriteFail, RecvClose, RecvIgnored, RecvUnexpected, RecvBye,
         RecvClosed, SendBye, Fail, Suspend, Handled, Resume, Shutdown
<1> QED
  BY <1>1, <1>2 DEF Ended

\* A step that leaves what is on its way alone keeps it in order.
LEMMA WsKept ==
  ASSUME WsInv, batch' = batch, wire' = wire, csent' = csent, sent' = sent,
         loop' \notin Ended => loop \notin Ended,
         client' = "open" => client = "open"
  PROVE  WsInv'
  BY DEF WsInv, Ended

\* The client sends a frame.
LEMMA ClientSends ==
  ASSUME WsInv, NEW ty \in {"HELLO", "OPEN", "DATA", "CLOSE", "BYE"}, NEW i \in Ids \cup {0},
         ty = "BYE" => i = 0, ClientSend(ty, i)
  PROVE  WsInv'
<1>1. /\ batch \in Seq(Sendable) /\ wire \in Seq(Seq(Sendable))
      /\ csent \in Counts /\ sent \in Counts
      /\ batch' = batch /\ sent' = sent /\ loop' = loop /\ client' = client
      /\ client = "open"
  BY DEF WsInv, ClientSend, vars
<1>2. PICK n \in Nat : n = IF ty = "DATA" THEN csent[i] + 1 ELSE csent[i]
  BY <1>1 DEF Counts
<1>3. PICK f : f = [ty |-> ty, id |-> i, n |-> n]
  OBVIOUS
<1>4. /\ f.ty = ty /\ f.id = i /\ f.n = n /\ f \in Sendable
  BY <1>3 DEF Sendable
<1>5. /\ csent' = [csent EXCEPT ![i] = n]
      /\ \/ wire' = Append(wire, <<f>>)
         \/ wire # <<>> /\ wire' = [wire EXCEPT ![Len(wire)] = Append(@, f)]
  BY <1>2, <1>3 DEF ClientSend
<1>6. Joined(wire, wire', f)
  BY <1>1, <1>4, <1>5, OwnMessage, LastMessage
<1>7. /\ csent' \in Counts /\ csent'[f.id] = f.n
      /\ \A j \in Ids \cup {0} : j # f.id => csent'[j] = csent[j]
  BY <1>1, <1>4, <1>5 DEF Counts
<1>8. csent[i] \in Nat /\ csent[f.id] <= f.n /\ Base(f) = csent[f.id]
  BY <1>1, <1>2, <1>4 DEF Counts, Base
<1>9. wire' \in Seq(Seq(Sendable))
  BY <1>6 DEF Joined
<1>10. ASSUME loop \notin Ended
       PROVE  Numbered(batch, wire', sent) /\ Leads(batch, wire', sent, csent')
  <2>1. Numbered(batch, wire, sent) /\ Leads(batch, wire, sent, csent)
    BY <1>1, <1>10 DEF WsInv
  <2>2. PICK b, msgs, v, last, count, new :
          /\ b = batch /\ msgs = wire /\ v = wire' /\ last = sent /\ count = csent /\ new = csent'
    OBVIOUS
  <2>3. Numbered(b, v, last)
    BY <1>1, <1>6, <1>8, <2>1, <2>2, JoinNumbered
  <2>4. Leads(b, v, last, new)
    BY <1>1, <1>6, <1>7, <1>8, <2>1, <2>2, JoinLeads
  <2> QED
    BY <2>2, <2>3, <2>4
<1> QED
  BY <1>1, <1>7, <1>9, <1>10 DEF WsInv, Ended

\* A message without a frame is as good as none.
LEMMA EmptyMessage ==
  ASSUME NEW b \in Seq(Sendable), NEW msgs \in Seq(Seq(Sendable)), NEW last, NEW count
  PROVE  /\ Append(msgs, <<>>) \in Seq(Seq(Sendable))
         /\ Numbered(b, msgs, last) => Numbered(b, Append(msgs, <<>>), last)
         /\ Leads(b, msgs, last, count) => Leads(b, Append(msgs, <<>>), last, count)
<1>1. PICK v : v = Append(msgs, <<>>)
  OBVIOUS
<1>2. /\ v \in Seq(Seq(Sendable)) /\ Len(v) = Len(msgs) + 1 /\ Len(msgs) \in Nat
      /\ \A p \in 1 .. Len(msgs) : v[p] = msgs[p]
      /\ v[Len(msgs) + 1] = <<>>
  BY <1>1, AppendPositions
<1>3. /\ \A w \in 0 .. Len(msgs) : w \in 0 .. Len(v) /\ At(b, v, w) = At(b, msgs, w)
      /\ \A w \in 0 .. Len(v) : \A k \in DOMAIN At(b, v, w) : w \in 0 .. Len(msgs)
  BY <1>2 DEF At
<1>4. ASSUME Numbered(b, msgs, last), NEW w \in 0 .. Len(msgs), NEW k \in DOMAIN At(b, msgs, w)
      PROVE  Behind(b, v, last, w, k)
  <2>1. Behind(b, msgs, last, w, k)
    BY <1>4 DEF Numbered
  <2>2. PICK f : f = At(b, msgs, w)[k] /\ f = At(b, v, w)[k]
    BY <1>3
  <2>3. \A u \in 0 .. Len(v) : \A j \in DOMAIN At(b, v, u) :
          Sooner(u, j, w, k) /\ At(b, v, u)[j].id = f.id => At(b, v, u)[j].n <= Base(f)
    BY <1>3, <2>1, <2>2 DEF Behind
  <2>4. \/ Base(f) = last[f.id]
        \/ \E u \in 0 .. Len(v) : \E j \in DOMAIN At(b, v, u) :
             Sooner(u, j, w, k) /\ At(b, v, u)[j].id = f.id /\ At(b, v, u)[j].n = Base(f)
    BY <1>3, <2>1, <2>2 DEF Behind
  <2> QED
    BY <2>1, <2>2, <2>3, <2>4 DEF Behind
<1>5. Numbered(b, msgs, last) => Numbered(b, v, last)
  BY <1>3, <1>4 DEF Numbered
<1>6. ASSUME Leads(b, msgs, last, count)
      PROVE  Leads(b, v, last, count)
  <2>1. ASSUME NEW i \in Ids \cup {0}
        PROVE  /\ last[i] <= count[i]
               /\ \A u \in 0 .. Len(v) : \A j \in DOMAIN At(b, v, u) :
                    At(b, v, u)[j].id = i => At(b, v, u)[j].n <= count[i]
               /\ \/ count[i] = last[i]
                  \/ \E u \in 0 .. Len(v) : \E j \in DOMAIN At(b, v, u) :
                       At(b, v, u)[j].id = i /\ At(b, v, u)[j].n = count[i]
    <3>1. /\ last[i] <= count[i]
          /\ \A u \in 0 .. Len(msgs) : \A j \in DOMAIN At(b, msgs, u) :
               At(b, msgs, u)[j].id = i => At(b, msgs, u)[j].n <= count[i]
          /\ \/ count[i] = last[i]
             \/ \E u \in 0 .. Len(msgs) : \E j \in DOMAIN At(b, msgs, u) :
                  At(b, msgs, u)[j].id = i /\ At(b, msgs, u)[j].n = count[i]
      BY <1>6 DEF Leads
    <3>2. \A u \in 0 .. Len(v) : \A j \in DOMAIN At(b, v, u) :
            At(b, v, u)[j].id = i => At(b, v, u)[j].n <= count[i]
      BY <1>3, <3>1
    <3>3. \/ count[i] = last[i]
          \/ \E u \in 0 .. Len(v) : \E j \in DOMAIN At(b, v, u) :
               At(b, v, u)[j].id = i /\ At(b, v, u)[j].n = count[i]
      BY <1>3, <3>1
    <3> QED
      BY <3>1, <3>2, <3>3
  <2> QED
    BY <2>1 DEF Leads
<1> QED
  BY <1>1, <1>2, <1>5, <1>6

\* The client sends, closes or drops the connection: the session does not move.
LEMMA ClientSteps ==
  ASSUME WsInv, Client
  PROVE  WsInv' /\ UNCHANGED vars
<1>1. ASSUME NEW ty \in {"OPEN", "DATA", "CLOSE"}, NEW i \in Ids, ClientSend(ty, i)
      PROVE  WsInv' /\ UNCHANGED vars
  BY <1>1, ClientSends DEF ClientSend
<1>2. ASSUME NEW ty \in {"HELLO", "BYE"}, ClientSend(ty, 0)
      PROVE  WsInv' /\ UNCHANGED vars
  BY <1>2, ClientSends DEF ClientSend
<1>3. CASE ClientOther
  <2>1. UNCHANGED <<vars, client, csent, batch>> /\ wire' = Append(wire, <<>>)
    BY <1>3 DEF ClientOther
  <2>2. UNCHANGED <<sent, loop>>
    BY <2>1 DEF vars
  <2>3. PICK b, msgs, last, count : b = batch /\ msgs = wire /\ last = sent /\ count = csent
    OBVIOUS
  <2>4. b \in Seq(Sendable) /\ msgs \in Seq(Seq(Sendable))
    BY <2>3 DEF WsInv
  <2>5. /\ Append(msgs, <<>>) \in Seq(Seq(Sendable))
        /\ Numbered(b, msgs, last) => Numbered(b, Append(msgs, <<>>), last)
        /\ Leads(b, msgs, last, count) => Leads(b, Append(msgs, <<>>), last, count)
    BY <2>4, EmptyMessage
  <2> QED
    BY <2>1, <2>2, <2>3, <2>5 DEF WsInv, Ended
<1>4. CASE ClientClose
  <2>1. UNCHANGED <<vars, csent, wire, batch>> /\ client' = "closing"
    BY <1>4 DEF ClientClose
  <2> QED
    BY <2>1, WsKept DEF vars
<1>5. CASE ClientDrop
  <2>1. UNCHANGED <<vars, csent, batch>> /\ client' = "gone"
    BY <1>5 DEF ClientDrop
  <2>2. PICK k \in 0 .. Len(wire) : wire' = SubSeq(wire, 1, k)
    BY <1>5 DEF ClientDrop
  <2>3. UNCHANGED <<sent, loop>>
    BY <2>1 DEF vars
  <2>4. PICK b, msgs, last : b = batch /\ msgs = wire /\ last = sent
    OBVIOUS
  <2>5. b \in Seq(Sendable) /\ msgs \in Seq(Seq(Sendable)) /\ k \in 0 .. Len(msgs)
    BY <2>2, <2>4 DEF WsInv
  <2>6. wire' = SubSeq(msgs, 1, k)
    BY <2>2, <2>4
  <2>7. loop \notin Ended => Numbered(b, msgs, last)
    BY <2>4 DEF WsInv
  <2>8. \/ loop \in Ended
        \/ wire' \in Seq(Seq(Sendable)) /\ Numbered(b, wire', last)
    BY <2>5, <2>6, <2>7, CutOff
  <2>9. wire' \in Seq(Seq(Sendable))
    BY <2>5, <2>6
  <2> QED
    BY <2>1, <2>3, <2>4, <2>8, <2>9 DEF WsInv, Ended
<1> QED
  BY <1>1, <1>2, <1>3, <1>4, <1>5 DEF Client

\* The upgrade task forwards a frame: it is the one the session expects, or
\* the session has returned.
LEMMA PushStep ==
  ASSUME WsInv, WsPush
  PROVE  WsInv' /\ [Next]_vars
<1>1. /\ batch \in Seq(Sendable) /\ wire \in Seq(Seq(Sendable)) /\ batch # <<>>
      /\ csent \in Counts /\ sent \in Counts
      /\ batch' = Tail(batch) /\ wire' = wire /\ csent' = csent /\ client' = client
  BY DEF WsInv, WsPush
<1>2. PICK f : f = Head(batch)
  OBVIOUS
<1>3. f \in Sendable /\ f.id \in Ids \cup {0} /\ f.n \in Nat /\ Tail(batch) \in Seq(Sendable)
  <2>1. f \in Sendable /\ Tail(batch) \in Seq(Sendable)
    BY <1>1, <1>2, TailPositions
  <2> QED
    BY <2>1 DEF Sendable
<1>4. CASE Enqueue(Head(batch))
  <2>1. /\ loop \notin Ended /\ loop' = loop /\ sent' = [sent EXCEPT ![f.id] = f.n]
        /\ Enqueue(f)
    BY <1>2, <1>4 DEF Enqueue
  <2>2. /\ sent' \in Counts /\ sent'[f.id] = f.n
        /\ \A i \in Ids \cup {0} : i # f.id => sent'[i] = sent[i]
    BY <1>1, <1>3, <2>1 DEF Counts
  <2>3. PICK b, msgs, last, new, count :
          b = batch /\ msgs = wire /\ last = sent /\ new = sent' /\ count = csent
    OBVIOUS
  <2>4. /\ b \in Seq(Sendable) /\ msgs \in Seq(Seq(Sendable)) /\ b # <<>> /\ f = Head(b)
        /\ last \in Counts /\ new \in Counts /\ count \in Counts
        /\ Numbered(b, msgs, last) /\ new[f.id] = f.n
        /\ \A i \in Ids \cup {0} : i # f.id => new[i] = last[i]
    BY <1>1, <1>2, <2>1, <2>2, <2>3 DEF WsInv
  <2>5. last[f.id] = Base(f) /\ Numbered(Tail(b), msgs, new)
    BY <2>4, NextFrame
  <2>6. last[f.id] <= f.n
    BY <1>3, <2>5 DEF Base
  <2>7. Leads(b, msgs, last, count) => Leads(Tail(b), msgs, new, count)
    BY <2>4, <2>6, NextFrameLeads
  <2>8. WsInv'
    BY <1>1, <1>3, <2>1, <2>2, <2>3, <2>5, <2>7 DEF WsInv, Ended
  <2>9. f.n = Position(f.ty, f.id)
    <3>1. sent[f.id] \in Nat
      BY <1>1, <1>3 DEF Counts
    <3> QED
      BY <1>3, <2>3, <2>5, <3>1 DEF Position, Base
  <2>10. Push(f)
    BY <2>1, <2>9 DEF Push
  <2>11. f = [ty |-> f.ty, id |-> f.id, n |-> Position(f.ty, f.id)]
    BY <1>3, <2>9 DEF Sendable
  <2>12. f.ty \in {"HELLO", "OPEN", "DATA", "CLOSE"} \/ (f.ty = "BYE" /\ f.id = 0)
    BY <1>3 DEF Sendable
  <2>13. Carrier
    BY <1>3, <2>10, <2>11, <2>12 DEF Carrier
  <2> QED
    BY <2>8, <2>13 DEF Next
<1>5. CASE loop \in Ended /\ UNCHANGED vars
  <2>1. UNCHANGED <<sent, loop>>
    BY <1>5 DEF vars
  <2> QED
    BY <1>1, <1>3, <1>5, <2>1 DEF WsInv, Ended
<1> QED
  BY <1>4, <1>5 DEF WsPush

\* The upgrade task takes the next message, or waits for the others to end.
LEMMA UpgradeSteps ==
  ASSUME WsInv, Upgrade
  PROVE  WsInv' /\ [Next]_vars
<1>1. CASE WsRecv
  <2>1. /\ UNCHANGED <<vars, client, csent>> /\ batch = <<>> /\ wire # <<>>
        /\ batch' = Head(wire) /\ wire' = Tail(wire)
    BY <1>1 DEF WsRecv
  <2>2. UNCHANGED <<sent, loop>>
    BY <2>1 DEF vars
  <2>3. PICK msgs, last, count : msgs = wire /\ last = sent /\ count = csent
    OBVIOUS
  <2>4. msgs \in Seq(Seq(Sendable)) /\ msgs # <<>>
    BY <2>1, <2>3 DEF WsInv
  <2>5. Head(msgs) \in Seq(Sendable) /\ Tail(msgs) \in Seq(Seq(Sendable))
    BY <2>4, TailPositions
  <2>6. /\ Numbered(<<>>, msgs, last) => Numbered(Head(msgs), Tail(msgs), last)
        /\ Leads(<<>>, msgs, last, count) => Leads(Head(msgs), Tail(msgs), last, count)
    BY <2>4, NextMessage, NextMessageLeads
  <2> QED
    BY <2>1, <2>2, <2>3, <2>5, <2>6 DEF WsInv, Ended
<1>2. CASE WsPush
  BY <1>2, PushStep
<1>3. CASE WsClosed
  <2>1. CloseInput /\ UNCHANGED <<client, csent, wire, batch>>
    BY <1>3 DEF WsClosed
  <2>2. UNCHANGED <<sent, loop>>
    BY <2>1 DEF CloseInput
  <2> QED
    BY <2>1, <2>2, WsKept DEF Next, Carrier
<1>4. CASE WsJoinSession \/ WsJoinWriter
  <2>1. UNCHANGED <<vars, client, csent, wire, batch>>
    BY <1>4 DEF WsJoinSession, WsJoinWriter
  <2> QED
    BY <2>1, WsKept DEF vars
<1> QED
  BY <1>1, <1>2, <1>3, <1>4 DEF Upgrade

\* The writer task takes messages of the session, or gives up.
LEMMA WriterSteps ==
  ASSUME WsInv, Writer
  PROVE  WsInv' /\ [Next]_vars
<1>1. UNCHANGED <<client, csent, wire, batch>>
  BY DEF Writer, WriterTake, WriterSend, WriterError, WriterEnd
<1>2. Take \/ DropOut \/ UNCHANGED vars
  BY DEF Writer, WriterTake, WriterSend, WriterError, WriterEnd
<1>3. UNCHANGED <<sent, loop>>
  BY <1>2 DEF Take, DropOut, vars
<1> QED
  BY <1>1, <1>2, <1>3, WsKept DEF Next, Carrier

\* Every step keeps the frames in order and is one of the session's, or none.
LEMMA WsStep == WsInv /\ [WsNext]_allVars => WsInv' /\ [Next]_vars
<1> SUFFICES ASSUME WsInv, [WsNext]_allVars PROVE WsInv' /\ [Next]_vars
  OBVIOUS
<1>1. CASE Client
  BY <1>1, ClientSteps
<1>2. CASE Upgrade
  BY <1>2, UpgradeSteps
<1>3. CASE Writer
  BY <1>3, WriterSteps
<1>4. CASE Loop /\ UNCHANGED wsVars
  BY <1>4, LoopNumbersNone, WsKept DEF wsVars, Next
<1>5. ASSUME NEW c \in Conn, Reader(c) \/ Backend(c), UNCHANGED wsVars
      PROVE  WsInv' /\ [Next]_vars
  <2>1. UNCHANGED <<sent, loop>>
    BY <1>5 DEF Reader, ReaderData, ReaderEof, Backend, BackendSend, BackendFin, BackendReset
  <2> QED
    BY <1>5, <2>1, WsKept DEF wsVars, Next
<1>6. CASE UNCHANGED allVars
  BY <1>6, WsKept DEF allVars, wsVars, vars
<1> QED
  BY <1>1, <1>2, <1>3, <1>4, <1>5, <1>6 DEF WsNext

\* Nothing is on its way at first.
LEMMA WsStart == WsInit => WsInv
<1> SUFFICES ASSUME WsInit PROVE WsInv
  OBVIOUS
<1>1. /\ batch = <<>> /\ wire = <<>>
      /\ \A i \in Ids \cup {0} : csent[i] = 0 /\ sent[i] = 0
      /\ csent \in Counts /\ sent \in Counts
  BY DEF WsInit, Init, Counts
<1>2. \A w \in 0 .. Len(wire) : \A k \in DOMAIN At(batch, wire, w) : FALSE
  BY <1>1 DEF At
<1>3. Numbered(batch, wire, sent)
  BY <1>2 DEF Numbered
<1>4. Leads(batch, wire, sent, csent)
  BY <1>1, <1>2 DEF Leads
<1> QED
  BY <1>1, <1>3, <1>4 DEF WsInv

\* The carrier drives the session as Session.tla expects: WsCarrier.tla
\* implements Session.tla, so no frame is lost, doubled or overtaken between
\* the socket and a session that runs (server.rs:356-384).
THEOREM SessionDriven == WsSpec => DrivesSession
<1>1. WsInit => Init
  BY DEF WsInit
<1> QED
  BY <1>1, WsStart, WsStep, PTL DEF WsSpec, DrivesSession, Spec

\* So behind a websocket every frame of a stream reaches its one writer in
\* the client's order (session.rs:102-170).
THEOREM WsUpCorrect == WsSpec => [](WriterOwnership /\ UpOrder)
<1>1. WsSpec => Spec
  BY SessionDriven DEF DrivesSession
<1> QED
  BY <1>1, OwnershipCorrect, UpCorrect, PTL

\* What a backend sends reaches the socket in order (session.rs:214-241).
THEOREM WsDownCorrect == WsSpec => []DownOrder
<1>1. WsSpec => Spec
  BY SessionDriven DEF DrivesSession
<1> QED
  BY <1>1, DownCorrect, PTL

\* And each connection is the pipe a client is promised.
THEOREM WsPromiseKept == WsSpec => KeepsPromise
BY SessionDriven, PromiseKept DEF DrivesSession

-----------------------------------------------------------------------------
(* Where the three tasks come to rest *)

\* Which of the three has ended, which channel is closed, and what is left: the
\* upgrade task drops its sender and then joins, the writer drops the receiver.
WsLinked ==
  /\ ws \in {"read", "joinSession", "joinWriter", "done"}
  /\ writer \in {"recv", "send", "ended"}
  /\ inOpen <=> ws = "read"
  /\ ws # "read" => client # "open" /\ wire = <<>> /\ batch = <<>>
  /\ ws \in {"joinWriter", "done"} => loop \in Ended
  /\ ws = "done" => writer = "ended"
  /\ writer = "ended" => ~outOpen
  /\ loop \in Ended => frames = <<>>

LEMMA WsLinkedInit == WsInit => WsLinked
BY DEF WsInit, Init, WsLinked, Ended

\* A step of the loop leaves both ends of the channels alone; the one that ends
\* it drops what the frame channel holds.
LEMMA LoopDoes ==
  ASSUME Loop
  PROVE  /\ loop \notin Ended
         /\ loop' \in Ended => frames' = <<>>
         /\ UNCHANGED <<inOpen, outOpen>>
BY DEF Ended, Loop, RecvHello, SendWelcome, WelcomeRefused, RecvOpen, ConnectOk,
       ConnectFail, RecvData, WriteOk, WriteFail, RecvClose, RecvIgnored, RecvUnexpected,
       RecvBye, RecvClosed, SendBye, Receive, Fail, Suspend, Suspended, Resume, Handled,
       Shutdown

LEMMA WsLinkedStep ==
  ASSUME WsLinked, [WsNext]_allVars
  PROVE  WsLinked'
<1>1. CASE Client
  <2>1. UNCHANGED <<vars, ws, batch, writer>>
    BY <1>1 DEF Client, ClientSend, ClientOther, ClientClose, ClientDrop
  <2>2. client = "open" \/ (client' # "open" /\ (wire = <<>> => wire' = <<>>))
    <3>1. CASE ClientDrop
      BY <3>1 DEF ClientDrop
    <3>2. CASE ~ClientDrop
      BY <1>1, <3>2 DEF Client, ClientSend, ClientOther, ClientClose
    <3> QED
      BY <3>1, <3>2
  <2> QED
    BY <2>1, <2>2 DEF WsLinked, vars, Ended
<1>2. CASE WsRecv
  BY <1>2 DEF WsRecv, WsLinked, vars, Ended
<1>3. CASE WsPush
  <2>1. UNCHANGED <<client, wire, ws, writer, inOpen, outOpen, loop>> /\ ws = "read"
    BY <1>3 DEF WsPush, Enqueue, vars
  <2>2. loop \in Ended => frames' = frames
    BY <1>3 DEF WsPush, Enqueue, vars
  <2> QED
    BY <2>1, <2>2 DEF WsLinked, Ended
<1>4. CASE WsClosed
  BY <1>4 DEF WsClosed, CloseInput, WsLinked, Ended
<1>5. CASE WsJoinSession \/ WsJoinWriter
  BY <1>5 DEF WsJoinSession, WsJoinWriter, WsLinked, vars, Ended
<1>6. CASE Writer
  <2>1. UNCHANGED <<client, wire, batch, ws, loop, frames, inOpen>>
    BY <1>6 DEF Writer, WriterTake, WriterSend, WriterError, WriterEnd, Take, DropOut, vars
  <2>2. writer # "ended" /\ writer' \in {"recv", "send", "ended"}
    BY <1>6 DEF Writer, WriterTake, WriterSend, WriterError, WriterEnd
  <2>3. writer' = "ended" => ~outOpen'
    BY <1>6 DEF Writer, WriterTake, WriterSend, WriterError, WriterEnd, DropOut
  <2> QED
    BY <2>1, <2>2, <2>3 DEF WsLinked, Ended
<1>7. CASE Loop /\ UNCHANGED wsVars
  BY <1>7, LoopDoes DEF WsLinked, wsVars, Ended
<1>8. CASE \E c \in Conn : (Reader(c) \/ Backend(c)) /\ UNCHANGED wsVars
  BY <1>8 DEF WsLinked, wsVars, Reader, ReaderData, ReaderEof, Backend, BackendSend,
              BackendFin, BackendReset, Ended
<1>9. CASE UNCHANGED allVars
  BY <1>9 DEF WsLinked, allVars, vars, wsVars, Ended
<1> QED
  BY <1>1, <1>2, <1>3, <1>4, <1>5, <1>6, <1>7, <1>8, <1>9 DEF WsNext, Upgrade

LEMMA WsMovesOrRestsAlways ==
  ASSUME WsLinked, TypeOK, DownOrder
  PROVE  WsMovesOrRests
<1> SUFFICES ASSUME ~WsMoves PROVE WsAtRest
  BY DEF WsMovesOrRests
<1>1. outq = <<>> /\ (writer = "ended" \/ (writer = "recv" /\ Senders))
  BY DEF WsMoves, WriterMoves, WsLinked, DownOrder
<1>2. Sends
  BY <1>1, SessionAssumption DEF Sends
<1>3. loop \in Ended \/ (loop = "recv" /\ frames = <<>> /\ inOpen)
  BY <1>2 DEF WsMoves, LoopMoves, TypeOK, Ended
<1>4. frames = <<>> /\ (loop \in Ended \/ (loop = "recv" /\ ws = "read"))
  BY <1>3 DEF WsLinked
<1>5. Len(frames) < FrameCap
  BY <1>4, SessionAssumption
<1>6. wire = <<>> /\ batch = <<>> /\ (ws = "read" => client = "open")
  BY <1>5 DEF WsMoves, UpgradeMoves, WsLinked
<1>7. \/ ws = "read"
      \/ ws = "joinWriter" /\ writer = "recv"
      \/ ws = "done" /\ writer = "ended"
  BY <1>1, <1>4 DEF WsMoves, UpgradeMoves, WsLinked
<1>8. ASSUME NEW c \in Conn, conn[c].reader = "reading"
      PROVE  conn[c].peer = "open" /\ conn[c].read = conn[c].made
  <2>1. conn[c].peer = "open" /\ ~(conn[c].read < conn[c].made)
    BY <1>2, <1>8 DEF WsMoves, ReaderMoves
  <2>2. conn[c].read \in Nat /\ conn[c].made \in Nat
    BY DEF TypeOK, ConnState
  <2>3. conn[c].read <= conn[c].made
    BY <1>8 DEF DownOrder, Counted, Conn, TypeOK
  <2> QED
    BY <2>1, <2>2, <2>3
<1> QED
  BY <1>1, <1>4, <1>6, <1>7, <1>8 DEF WsAtRest

\* The three tasks never wait for one another in a circle, for every capacity of
\* the two channels, every number of streams and every size of a message: unless
\* one of them or a reader can take a step, all the client sent went through, and
\* what still runs waits for a client that is there or for a backend that is open
\* (server.rs:356-388).
THEOREM WsRestsWhenIdle == WsSpec => []WsMovesOrRests
<1>1. WsSpec => Spec
  BY SessionDriven DEF DrivesSession
<1>2. WsInit => WsLinked
  BY WsLinkedInit
<1>3. WsLinked /\ [WsNext]_allVars => WsLinked'
  BY WsLinkedStep
<1>4. WsLinked /\ TypeOK /\ DownOrder => WsMovesOrRests
  BY WsMovesOrRestsAlways
<1> QED
  BY <1>1, <1>2, <1>3, <1>4, TypeCorrect, DownCorrect, PTL DEF WsSpec

=============================================================================
