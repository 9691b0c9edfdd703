---------------------------- MODULE LanesProofs ----------------------------
(* Theorems about Lanes.tla, for every value of its constants: of the page  *)
(* in its three carriers, what it counts and in which order it passes its   *)
(* frames on; of its lanes, that each end is told, once and by one party.   *)
EXTENDS Lanes, SequenceTheorems, WellFoundedInduction, FunctionTheorems,
        FiniteSetTheorems, TLAPS

-----------------------------------------------------------------------------
(* Induction, over sets of numbers *)

\* A set of numbers has a least element.
LEMMA Least ==
  ASSUME NEW T \in SUBSET Nat, T # {}
  PROVE  \E x \in T : \A y \in T : x <= y
<1>1. PICK x \in T : \A y \in T : ~(<<y, x>> \in OpToRel(<, Nat))
  BY NatLessThanWellFounded, WFMin
<1>2. ASSUME NEW y \in T, y < x PROVE FALSE
  <2>1. <<y, x>> \in Nat \X Nat /\ <<y, x>>[1] < <<y, x>>[2]
    BY <1>2
  <2>2. <<y, x>> \in OpToRel(<, Nat)
    BY <2>1 DEF OpToRel
  <2> QED
    BY <1>1, <2>2
<1>3. T \subseteq Nat
  OBVIOUS
<1>4. ASSUME NEW y \in T PROVE x <= y
  BY <1>2, <1>3, <1>4
<1> QED
  BY <1>4

\* What holds of 0 and of the successor of each it holds of, holds up to last.
LEMMA Upward ==
  ASSUME NEW last \in Nat, NEW T, 0 \in T,
         \A n \in 0 .. last - 1 : n \in T => n + 1 \in T
  PROVE  \A n \in 0 .. last : n \in T
<1> SUFFICES ASSUME NEW bad \in 0 .. last, bad \notin T PROVE FALSE
  OBVIOUS
<1>1. PICK rest : rest = {n \in 0 .. last : n \notin T}
  OBVIOUS
<1>2. rest \in SUBSET Nat /\ rest # {}
  BY <1>1
<1>3. PICK x \in rest : \A y \in rest : x <= y
  BY <1>2, Least
<1>4. x \in 0 .. last /\ x \notin T /\ x # 0
  BY <1>1, <1>3
<1>5. x - 1 \in 0 .. last - 1 /\ (x - 1) + 1 = x
  BY <1>4
<1>6. x - 1 \notin rest
  BY <1>3, <1>5
<1>7. x - 1 \in T
  BY <1>1, <1>5, <1>6
<1> QED
  BY <1>4, <1>5, <1>7

-----------------------------------------------------------------------------
(* Joined *)

\* The function Joined chooses: what the first n messages hold.
JoinsTo(to, items) ==
  to = [n \in 0 .. Len(items) |-> IF n = 0 THEN <<>> ELSE to[n - 1] \o items[n]]

LEMMA JoinedChosen ==
  ASSUME NEW items
  PROVE  Joined(items) = (CHOOSE to : JoinsTo(to, items))[Len(items)]
BY DEF Joined, JoinsTo

\* The same, argument by argument, for the first m messages.
JoinsUpTo(to, items, m) ==
  /\ to = [n \in 0 .. m |-> to[n]]
  /\ to[0] = <<>>
  /\ \A n \in 1 .. m : to[n] = to[n - 1] \o items[n]

\* There is one.
LEMMA JoinsFurther ==
  ASSUME NEW items, NEW m \in Nat, NEW to, JoinsUpTo(to, items, m)
  PROVE  \E next : JoinsUpTo(next, items, m + 1)
<1>1. PICK next : next = [n \in 0 .. m + 1 |-> IF n <= m THEN to[n]
                                               ELSE to[m] \o items[m + 1]]
  OBVIOUS
<1>2. \A n \in 0 .. m : next[n] = to[n]
  BY <1>1
<1>3. next[m + 1] = to[m] \o items[m + 1]
  BY <1>1
<1>4. next = [n \in 0 .. m + 1 |-> next[n]]
  BY <1>1
<1>5. next[0] = <<>>
  BY <1>2 DEF JoinsUpTo
<1>6. ASSUME NEW n \in 1 .. m + 1 PROVE next[n] = next[n - 1] \o items[n]
  <2>1. CASE n = m + 1
    <3>1. n - 1 = m /\ m \in 0 .. m
      BY <2>1
    <3> QED
      BY <1>2, <1>3, <2>1, <3>1
  <2>2. CASE n \in 1 .. m
    <3>1. n \in 0 .. m /\ n - 1 \in 0 .. m
      BY <2>2
    <3> QED
      BY <1>2, <2>2, <3>1 DEF JoinsUpTo
  <2>3. n = m + 1 \/ n \in 1 .. m
    OBVIOUS
  <2> QED
    BY <2>1, <2>2, <2>3
<1> QED
  BY <1>4, <1>5, <1>6 DEF JoinsUpTo

LEMMA JoinExists ==
  ASSUME NEW items, NEW last \in Nat
  PROVE  \E to : JoinsUpTo(to, items, last)
<1>1. PICK T : T = {m \in 0 .. last : \E to : JoinsUpTo(to, items, m)}
  OBVIOUS
<1>2. 0 \in T
  <2>1. PICK to : to = [n \in 0 .. 0 |-> <<>>]
    OBVIOUS
  <2>2. JoinsUpTo(to, items, 0)
    BY <2>1 DEF JoinsUpTo
  <2> QED
    BY <1>1, <2>2
<1>3. ASSUME NEW m \in 0 .. last - 1, m \in T PROVE m + 1 \in T
  <2>1. PICK to : JoinsUpTo(to, items, m)
    BY <1>1, <1>3
  <2>2. \E next : JoinsUpTo(next, items, m + 1)
    BY <2>1, JoinsFurther
  <2>3. m + 1 \in 0 .. last
    OBVIOUS
  <2> QED
    BY <1>1, <2>2, <2>3
<1>4. \A n \in 0 .. last - 1 : n \in T => n + 1 \in T
  BY <1>3
<1>5. last \in T
  BY <1>2, <1>4, Upward
<1> QED
  BY <1>1, <1>5

\* And Joined is its value at the end.
LEMMA JoinedUpTo ==
  ASSUME NEW S, NEW items \in Seq(Seq(S))
  PROVE  \E to : JoinsUpTo(to, items, Len(items)) /\ Joined(items) = to[Len(items)]
<1>1. PICK last \in Nat : last = Len(items)
  OBVIOUS
<1>2. ASSUME NEW to PROVE JoinsTo(to, items) <=> JoinsUpTo(to, items, last)
  <2>1. ASSUME JoinsTo(to, items) PROVE JoinsUpTo(to, items, last)
    <3>1. to = [n \in 0 .. last |-> IF n = 0 THEN <<>> ELSE to[n - 1] \o items[n]]
      BY <1>1, <2>1 DEF JoinsTo
    <3>2. \A n \in 0 .. last : to[n] = IF n = 0 THEN <<>> ELSE to[n - 1] \o items[n]
      BY <3>1
    <3>3. to = [n \in 0 .. last |-> to[n]]
      BY <3>1, <3>2
    <3> QED
      BY <3>2, <3>3 DEF JoinsUpTo
  <2>2. ASSUME JoinsUpTo(to, items, last) PROVE JoinsTo(to, items)
    <3>1. to[0] = <<>> /\ \A n \in 1 .. last : to[n] = to[n - 1] \o items[n]
      BY <2>2 DEF JoinsUpTo
    <3>2. \A n \in 0 .. last : n = 0 \/ (n # 0 /\ n \in 1 .. last)
      OBVIOUS
    <3>3. \A n \in 0 .. last : to[n] = IF n = 0 THEN <<>> ELSE to[n - 1] \o items[n]
      BY <3>1, <3>2
    <3>4. to = [n \in 0 .. last |-> to[n]]
      BY <2>2 DEF JoinsUpTo
    <3>5. to = [n \in 0 .. last |-> IF n = 0 THEN <<>> ELSE to[n - 1] \o items[n]]
      BY <3>3, <3>4
    <3> QED
      BY <1>1, <3>5 DEF JoinsTo
  <2> QED
    BY <2>1, <2>2
<1>3. \E to : JoinsTo(to, items)
  BY <1>2, JoinExists
<1>4. PICK to : to = (CHOOSE x : JoinsTo(x, items))
  OBVIOUS
<1>5. JoinsTo(to, items)
  BY <1>3, <1>4
<1> QED
  BY <1>1, <1>2, <1>4, <1>5, JoinedChosen

\* Joining gives a sequence of frames.
LEMMA JoinsTyped ==
  ASSUME NEW S, NEW items \in Seq(Seq(S)), NEW m \in Nat, m <= Len(items),
         NEW to, JoinsUpTo(to, items, m)
  PROVE  \A n \in 0 .. m : to[n] \in Seq(S)
<1>1. PICK T : T = {n \in 0 .. m : to[n] \in Seq(S)}
  OBVIOUS
<1>2. 0 \in T
  <2>1. to[0] = <<>> /\ 0 \in 0 .. m
    BY DEF JoinsUpTo
  <2>2. to[0] \in Seq(S)
    BY <2>1
  <2> QED
    BY <1>1, <2>1, <2>2
<1>3. ASSUME NEW n \in 0 .. m - 1, n \in T PROVE n + 1 \in T
  <2>1. n + 1 \in 1 .. m /\ (n + 1) - 1 = n /\ n + 1 \in 1 .. Len(items)
    OBVIOUS
  <2>2. to[n + 1] = to[n] \o items[n + 1]
    BY <2>1 DEF JoinsUpTo
  <2>3. to[n] \in Seq(S) /\ items[n + 1] \in Seq(S)
    BY <1>1, <1>3, <2>1
  <2>4. to[n + 1] \in Seq(S)
    BY <2>2, <2>3
  <2> QED
    BY <1>1, <2>1, <2>4
<1>4. \A n \in 0 .. m - 1 : n \in T => n + 1 \in T
  BY <1>3
<1>5. \A n \in 0 .. m : n \in T
  BY <1>2, <1>4, Upward
<1> QED
  BY <1>1, <1>5

\* Two lists of messages agree: after the first n of the one.
Matches(items, n, others, m) == \A k \in 1 .. m : items[n + k] = others[k]

\* What a list of messages holds.
Messages(items, m, S) == \A k \in 1 .. m : items[k] \in Seq(S)

\* Where two lists of messages agree, so does what they are joined to.
LEMMA JoinsAgree ==
  ASSUME NEW items, NEW others, NEW last \in Nat, NEW m \in 0 .. last, NEW to, NEW too,
         JoinsUpTo(to, items, last), JoinsUpTo(too, others, m),
         Matches(items, 0, others, m)
  PROVE  too[m] = to[m]
<1>1. PICK T : T = {n \in 0 .. m : too[n] = to[n]}
  OBVIOUS
<1>2. 0 \in T
  BY <1>1 DEF JoinsUpTo
<1>3. ASSUME NEW n \in 0 .. m - 1, n \in T PROVE n + 1 \in T
  <2>1. n + 1 \in 1 .. m /\ n + 1 \in 1 .. last /\ (n + 1) - 1 = n
    OBVIOUS
  <2>2. to[n + 1] = to[n] \o items[n + 1] /\ too[n + 1] = too[n] \o others[n + 1]
    BY <2>1 DEF JoinsUpTo
  <2>3. items[0 + (n + 1)] = others[n + 1] /\ 0 + (n + 1) = n + 1
    BY <2>1 DEF Matches
  <2>4. too[n + 1] = to[n + 1]
    BY <1>1, <1>3, <2>1, <2>2, <2>3
  <2> QED
    BY <1>1, <2>1, <2>4
<1>4. \A n \in 0 .. m - 1 : n \in T => n + 1 \in T
  BY <1>3
<1>5. \A n \in 0 .. m : n \in T
  BY <1>2, <1>4, Upward
<1> QED
  BY <1>1, <1>5

\* What is joined after the first n messages.
GoesOn(to, items, n, rest, back, m, last, S) ==
  /\ n \in Nat /\ m \in Nat /\ last = n + m
  /\ JoinsUpTo(to, items, last) /\ JoinsUpTo(rest, back, m)
  /\ Matches(items, n, back, m)
  /\ to[n] \in Seq(S) /\ Messages(back, m, S) /\ Messages(rest, m, S)

Extends(to, n, last, rest, m) == to[last] = to[n] \o rest[m]

LEMMA JoinsBehind ==
  ASSUME NEW to, NEW items, NEW n, NEW rest, NEW back, NEW m, NEW last, NEW S,
         GoesOn(to, items, n, rest, back, m, last, S)
  PROVE  Extends(to, n, last, rest, m)
<1>0. /\ n \in Nat /\ m \in Nat /\ last = n + m
      /\ JoinsUpTo(to, items, last) /\ JoinsUpTo(rest, back, m)
      /\ Matches(items, n, back, m)
      /\ to[n] \in Seq(S) /\ Messages(back, m, S) /\ Messages(rest, m, S)
  BY DEF GoesOn
<1>1. PICK T : T = {k \in 0 .. m : to[n + k] = to[n] \o rest[k]}
  OBVIOUS
<1>2. 0 \in T
  <2>1. rest[0] = <<>> /\ n + 0 = n /\ 0 \in 0 .. m
    BY <1>0 DEF JoinsUpTo
  <2>2. to[n] \o <<>> = to[n]
    BY <1>0, ConcatEmptySeq
  <2> QED
    BY <1>1, <2>1, <2>2
<1>3. ASSUME NEW k \in 0 .. m - 1, k \in T PROVE k + 1 \in T
  <2>1. /\ n + (k + 1) \in 1 .. last /\ (n + (k + 1)) - 1 = n + k
        /\ k + 1 \in 1 .. m /\ (k + 1) - 1 = k /\ k + 1 \in 0 .. m /\ k \in 0 .. m
    BY <1>0
  <2>2. to[n + (k + 1)] = to[n + k] \o items[n + (k + 1)]
    BY <1>0, <2>1 DEF JoinsUpTo
  <2>3. rest[k + 1] = rest[k] \o back[k + 1]
    BY <1>0, <2>1 DEF JoinsUpTo
  <2>4. items[n + (k + 1)] = back[k + 1] /\ back[k + 1] \in Seq(S)
    BY <1>0, <2>1 DEF Matches, Messages
  <2>5. to[n + k] = to[n] \o rest[k]
    BY <1>0, <1>1, <1>3
  <2>6. rest[k] \in Seq(S)
    <3>1. CASE k = 0
      <4>1. rest[0] = <<>> /\ <<>> \in Seq(S)
        BY <1>0 DEF JoinsUpTo
      <4> QED
        BY <3>1, <4>1
    <3>2. CASE k # 0
      <4>1. k \in 1 .. m
        BY <2>1, <3>2
      <4> QED
        BY <1>0, <4>1 DEF Messages
    <3> QED
      BY <3>1, <3>2
  <2>7. PICK a, b, c : a = to[n] /\ b = rest[k] /\ c = back[k + 1]
    OBVIOUS
  <2>8. a \in Seq(S) /\ b \in Seq(S) /\ c \in Seq(S)
    BY <1>0, <2>4, <2>6, <2>7
  <2>9. (a \o b) \o c = a \o (b \o c)
    BY <2>8, ConcatAssociative
  <2>10. to[n + (k + 1)] = to[n] \o rest[k + 1]
    BY <2>2, <2>3, <2>4, <2>5, <2>7, <2>9
  <2> QED
    BY <1>1, <2>1, <2>10
<1>4. \A k \in 0 .. m - 1 : k \in T => k + 1 \in T
  BY <1>3
<1>5. \A k \in 0 .. m : k \in T
  BY <1>0, <1>2, <1>4, Upward
<1>6. m \in 0 .. m
  BY <1>0
<1> QED
  BY <1>0, <1>1, <1>5, <1>6 DEF Extends

\* Joining no message.
LEMMA JoinEmpty == Joined(<<>>) = <<>>
<1>1. PICK items : items = <<>>
  OBVIOUS
<1>2. items \in Seq(Seq(Nat)) /\ Len(items) = 0
  BY <1>1
<1>3. PICK to : JoinsUpTo(to, items, Len(items)) /\ Joined(items) = to[Len(items)]
  BY <1>2, JoinedUpTo
<1> QED
  BY <1>1, <1>2, <1>3 DEF JoinsUpTo

LEMMA JoinTyped ==
  ASSUME NEW S, NEW items \in Seq(Seq(S))
  PROVE  Joined(items) \in Seq(S)
<1>1. PICK to : JoinsUpTo(to, items, Len(items)) /\ Joined(items) = to[Len(items)]
  BY JoinedUpTo
<1>2. Len(items) \in Nat
  BY LenProperties
<1>3. \A n \in 0 .. Len(items) : to[n] \in Seq(S)
  BY <1>1, <1>2, JoinsTyped
<1> QED
  BY <1>1, <1>2, <1>3

\* Lists of messages.
Lists(S) == Seq(Seq(S))

\* Two lists of messages, one after the other.
LEMMA JoinConcat ==
  ASSUME NEW S, NEW front \in Lists(S), NEW back \in Lists(S)
  PROVE  /\ front \o back \in Lists(S)
         /\ Joined(front \o back) = Joined(front) \o Joined(back)
<1>1. PICK n \in Nat, m \in Nat : n = Len(front) /\ m = Len(back)
  BY LenProperties DEF Lists
<1>a. PICK last : last = n + m
  OBVIOUS
<1>2. PICK items : items = front \o back
  OBVIOUS
<1>3. items \in Lists(S) /\ Len(items) = last
  BY <1>a, <1>1, <1>2, ConcatProperties DEF Lists
<1>4. Matches(items, 0, front, n)
  BY <1>1, <1>2 DEF Matches, Lists
<1>5. Matches(items, n, back, m)
  BY <1>1, <1>2 DEF Matches, Lists
<1>6. PICK to : JoinsUpTo(to, items, last) /\ Joined(items) = to[last]
  BY <1>3, JoinedUpTo DEF Lists
<1>7. PICK first : JoinsUpTo(first, front, n) /\ Joined(front) = first[n]
  BY <1>1, JoinedUpTo DEF Lists
<1>8. PICK rest : JoinsUpTo(rest, back, m) /\ Joined(back) = rest[m]
  BY <1>1, JoinedUpTo DEF Lists
<1>9. last \in Nat /\ n \in 0 .. last /\ n <= Len(front) /\ m <= Len(back)
  BY <1>a, <1>1
<1>10. first[n] = to[n]
  BY <1>4, <1>6, <1>7, <1>9, JoinsAgree
<1>11. first[n] \in Seq(S)
  BY <1>7, JoinTyped DEF Lists
<1>12. Messages(back, m, S) /\ Messages(rest, m, S)
  <2>1. \A k \in 0 .. m : rest[k] \in Seq(S)
    BY <1>8, <1>9, JoinsTyped DEF Lists
  <2> QED
    BY <1>1, <2>1 DEF Messages, Lists
<1>13. to[n] \in Seq(S)
  BY <1>10, <1>11
<1>14. to[last] = to[n] \o rest[m]
  <2>1. GoesOn(to, items, n, rest, back, m, last, S)
    BY <1>a, <1>5, <1>6, <1>8, <1>12, <1>13 DEF GoesOn
  <2>2. Extends(to, n, last, rest, m)
    BY <2>1, JoinsBehind
  <2> QED
    BY <2>2 DEF Extends
<1> QED
  BY <1>a, <1>2, <1>3, <1>6, <1>7, <1>8, <1>10, <1>14

\* Joining one message.
LEMMA JoinOne ==
  ASSUME NEW S, NEW items \in Seq(Seq(S)), Len(items) = 1
  PROVE  Joined(items) = items[1]
<1>1. PICK to : JoinsUpTo(to, items, 1) /\ Joined(items) = to[1]
  BY JoinedUpTo
<1>2. to[1] = to[1 - 1] \o items[1] /\ to[0] = <<>> /\ 1 - 1 = 0
  BY <1>1 DEF JoinsUpTo
<1>3. items[1] \in Seq(S)
  OBVIOUS
<1> QED
  BY <1>1, <1>2, <1>3, ConcatEmptySeq

\* A message more at the end.
LEMMA JoinAppend ==
  ASSUME NEW S, NEW items \in Lists(S), NEW data \in Seq(S)
  PROVE  /\ Append(items, data) \in Lists(S)
         /\ Joined(Append(items, data)) = Joined(items) \o data
<1>1. PICK one : one = <<data>>
  OBVIOUS
<1>2. one \in Lists(S) /\ Len(one) = 1 /\ one[1] = data
  BY <1>1 DEF Lists
<1>3. Append(items, data) = items \o one
  BY <1>1, AppendIsConcat DEF Lists
<1>4. Joined(one) = data
  BY <1>2, JoinOne DEF Lists
<1>5. /\ items \o one \in Lists(S)
      /\ Joined(items \o one) = Joined(items) \o Joined(one)
  BY <1>2, JoinConcat
<1> QED
  BY <1>3, <1>4, <1>5

\* The first n messages, and those after them.
LEMMA JoinFront ==
  ASSUME NEW S, NEW items \in Lists(S), NEW n \in 0 .. Len(items)
  PROVE  /\ SubSeq(items, 1, n) \in Lists(S)
         /\ SubSeq(items, n + 1, Len(items)) \in Lists(S)
         /\ Len(SubSeq(items, n + 1, Len(items))) = Len(items) - n
         /\ Joined(items) = Joined(SubSeq(items, 1, n))
                              \o Joined(SubSeq(items, n + 1, Len(items)))
<1>1. PICK front, back : front = SubSeq(items, 1, n) /\ back = SubSeq(items, n + 1, Len(items))
  OBVIOUS
<1>2. /\ front \in Lists(S) /\ back \in Lists(S) /\ Len(back) = Len(items) - n
  BY <1>1, SubSeqProperties DEF Lists
<1>3. items = front \o back
  <2>1. 1 \in 1 .. Len(items) + 1 /\ n \in 1 - 1 .. Len(items) /\ Len(items) \in n .. Len(items)
    BY LenProperties DEF Lists
  <2>2. SubSeq(items, 1, n) \o SubSeq(items, n + 1, Len(items)) = SubSeq(items, 1, Len(items))
    BY <2>1, ConcatAdjacentSubSeq DEF Lists
  <2>3. SubSeq(items, 1, Len(items)) = items
    BY SubSeqFull DEF Lists
  <2> QED
    BY <1>1, <2>2, <2>3
<1>4. Joined(front \o back) = Joined(front) \o Joined(back)
  BY <1>2, JoinConcat
<1> QED
  BY <1>1, <1>2, <1>3, <1>4

\* The first message, and the others.
LEMMA JoinHead ==
  ASSUME NEW S, NEW items \in Lists(S), items # <<>>
  PROVE  /\ Head(items) \in Seq(S) /\ Tail(items) \in Lists(S)
         /\ Len(Tail(items)) = Len(items) - 1
         /\ Joined(items) = Head(items) \o Joined(Tail(items))
<1>1. PICK one, rest : one = <<Head(items)>> /\ rest = Tail(items)
  OBVIOUS
<1>2. /\ Head(items) \in Seq(S) /\ rest \in Lists(S) /\ Len(rest) = Len(items) - 1
      /\ one \in Lists(S) /\ Len(one) = 1 /\ one[1] = Head(items)
      /\ items = one \o rest
  <2>1. /\ Head(items) \in Seq(S) /\ rest \in Lists(S) /\ Len(rest) = Len(items) - 1
        /\ one \in Lists(S) /\ Len(one) = 1 /\ one[1] = Head(items)
    BY <1>1, HeadTailProperties DEF Lists
  <2>2. items = one \o rest
    BY <1>1, HeadTailProperties, SubSeqFull DEF Lists
  <2> QED
    BY <2>1, <2>2
<1>3. Joined(one) = Head(items)
  BY <1>2, JoinOne DEF Lists
<1>4. Joined(one \o rest) = Joined(one) \o Joined(rest)
  BY <1>2, JoinConcat
<1> QED
  BY <1>1, <1>2, <1>3, <1>4

\* A sequence made of two; a list whose first message is another.
Made(x, a, b) == x = a \o b
Shortened(items, rest) == [items EXCEPT ![1] = rest]

\* Cutting the first message: its rest stays in front of the others.
LEMMA JoinCut ==
  ASSUME NEW S, NEW items \in Lists(S), items # <<>>,
         NEW body \in Seq(S), NEW rest \in Seq(S), Made(items[1], body, rest)
  PROVE  /\ Shortened(items, rest) \in Lists(S)
         /\ Len(Shortened(items, rest)) = Len(items)
         /\ Made(Joined(items), body, Joined(Shortened(items, rest)))
<1>1. PICK left : left = [items EXCEPT ![1] = rest] /\ left = Shortened(items, rest)
  BY DEF Shortened
<1>0. items[1] = body \o rest
  BY DEF Made
<1>2. /\ left \in Lists(S) /\ Len(left) = Len(items) /\ left # <<>>
      /\ Head(left) = rest /\ Tail(left) = Tail(items) /\ Head(items) = items[1]
  <2>1. left \in Seq(Seq(S)) /\ Len(left) = Len(items)
        /\ \A k \in 1 .. Len(items) : left[k] = IF k = 1 THEN rest ELSE items[k]
    BY <1>1, ExceptSeq DEF Lists
  <2>2. Len(items) \in Nat \ {0}
    BY LenProperties, EmptySeq DEF Lists
  <2>3. left # <<>> /\ Head(left) = rest /\ Head(items) = items[1]
    BY <2>1, <2>2 DEF Lists
  <2>4. Tail(left) = Tail(items)
    <3>1. /\ Tail(left) \in Seq(Seq(S)) /\ Tail(items) \in Seq(Seq(S))
          /\ Len(Tail(left)) = Len(items) - 1 /\ Len(Tail(items)) = Len(items) - 1
          /\ \A k \in 1 .. Len(items) - 1 : /\ Tail(left)[k] = left[k + 1]
                                          /\ Tail(items)[k] = items[k + 1]
      BY <2>1, <2>3, HeadTailProperties DEF Lists
    <3>2. \A k \in 1 .. Len(items) - 1 : k + 1 \in 1 .. Len(items) /\ k + 1 # 1
      BY <2>2
    <3>3. \A k \in 1 .. Len(Tail(left)) : Tail(left)[k] = Tail(items)[k]
      BY <2>1, <3>1, <3>2
    <3> QED
      BY <3>1, <3>3, SeqEqual
  <2> QED
    BY <2>1, <2>3, <2>4 DEF Lists
<1>3. Joined(items) = items[1] \o Joined(Tail(items)) /\ Tail(items) \in Lists(S)
  BY <1>2, JoinHead
<1>4. Joined(left) = rest \o Joined(Tail(items))
  BY <1>2, JoinHead
<1>5. PICK others : others = Joined(Tail(items))
  OBVIOUS
<1>6. others \in Seq(S)
  BY <1>3, <1>5, JoinTyped DEF Lists
<1>7. (body \o rest) \o others = body \o (rest \o others)
  BY <1>6, ConcatAssociative
<1> QED
  BY <1>0, <1>1, <1>2, <1>3, <1>4, <1>5, <1>7 DEF Made

-----------------------------------------------------------------------------
(* The queue's operations *)

Bodies == Seq(Nat)
Queues == [up : Lists(Nat), bytes : Int, items : Int, flight : [body : Bodies, count : Nat],
           sent : Bodies, buffered : Nat, timer : BOOLEAN, micro : BOOLEAN, failed : BOOLEAN]

\* What a queue has taken, in order; how much of it is under way or waits, in
\* frames and in items.
Contents(s) == s.sent \o s.flight.body \o Joined(s.up)
Waiting(s) == Len(s.flight.body) + Len(Joined(s.up))
Units(s) == s.flight.count + Len(s.up)

\* Queue s becomes r without losing count: nothing enters or leaves.
Keeps(s, r) ==
  /\ r \in Queues
  /\ Contents(r) = Contents(s)
  /\ r.bytes - Waiting(r) = s.bytes - Waiting(s)
  /\ r.items - Units(r) = s.items - Units(s)
  /\ r.bytes + r.buffered <= s.bytes + s.buffered
  /\ r.failed = s.failed

\* What the parts of a queue are.
LEMMA Parts ==
  ASSUME NEW s \in Queues
  PROVE  /\ s.up \in Lists(Nat) /\ Len(s.up) \in Nat
         /\ Joined(s.up) \in Bodies /\ Len(Joined(s.up)) \in Nat
         /\ s.flight \in [body : Bodies, count : Nat]
         /\ s.flight.body \in Bodies /\ Len(s.flight.body) \in Nat
         /\ s.flight.count \in Nat /\ s.sent \in Bodies
         /\ s.bytes \in Int /\ s.items \in Int /\ s.buffered \in Nat
         /\ s.timer \in BOOLEAN /\ s.micro \in BOOLEAN /\ s.failed \in BOOLEAN
<1>1. /\ s.up \in Lists(Nat) /\ s.flight \in [body : Bodies, count : Nat]
      /\ s.flight.body \in Bodies /\ s.flight.count \in Nat /\ s.sent \in Bodies
      /\ s.bytes \in Int /\ s.items \in Int /\ s.buffered \in Nat
      /\ s.timer \in BOOLEAN /\ s.micro \in BOOLEAN /\ s.failed \in BOOLEAN
  BY DEF Queues
<1>2. Joined(s.up) \in Bodies
  BY <1>1, JoinTyped DEF Lists, Bodies
<1>3. Len(s.up) \in Nat /\ Len(Joined(s.up)) \in Nat /\ Len(s.flight.body) \in Nat
  BY <1>1, <1>2, LenProperties DEF Lists, Bodies
<1> QED
  BY <1>1, <1>2, <1>3

\* The messages that fit are some, and not more than there are.
LEMMA FittingSome ==
  ASSUME NEW s \in Queues, s.up # <<>>, Len(s.up[1]) <= BatchLimit
  PROVE  Fitting(s) \in 1 .. Len(s.up)
<1>1. PICK last : last = Len(s.up)
  OBVIOUS
<1>2. last \in Nat \ {0} /\ s.up \in Lists(Nat)
  BY <1>1, Parts, EmptySeq DEF Lists
<1>3. ASSUME NEW n \in 0 .. last
      PROVE  Len(Joined(SubSeq(s.up, 1, n))) \in Nat
  <2>1. SubSeq(s.up, 1, n) \in Lists(Nat)
    BY <1>1, <1>2, JoinFront
  <2> QED
    BY <2>1, JoinTyped, LenProperties DEF Lists
<1>4. Len(Joined(SubSeq(s.up, 1, 1))) <= BatchLimit
  <2>1. /\ SubSeq(s.up, 1, 1) \in Lists(Nat) /\ Len(SubSeq(s.up, 1, 1)) = 1
        /\ SubSeq(s.up, 1, 1)[1] = s.up[1]
    BY <1>1, <1>2, SubSeqProperties DEF Lists
  <2>2. Joined(SubSeq(s.up, 1, 1)) = s.up[1]
    BY <2>1, JoinOne DEF Lists
  <2> QED
    BY <2>2
<1>5. PICK fits : fits = {n \in 0 .. last - 1 : Len(Joined(SubSeq(s.up, 1, n + 1))) <= BatchLimit}
  OBVIOUS
<1>6. 0 \in fits
  BY <1>2, <1>4, <1>5
<1>7. \E n \in 1 .. last : /\ Len(Joined(SubSeq(s.up, 1, n))) <= BatchLimit
                           /\ n < last => Len(Joined(SubSeq(s.up, 1, n + 1))) > BatchLimit
  <2>1. CASE \A n \in 0 .. last - 1 - 1 : n \in fits => n + 1 \in fits
    <3>1. last - 1 \in Nat
      BY <1>2
    <3>2. \A n \in 0 .. last - 1 : n \in fits
      BY <1>6, <2>1, <3>1, Upward
    <3>3. last - 1 \in fits /\ (last - 1) + 1 = last
      BY <1>2, <3>2
    <3>4. last \in 1 .. last /\ Len(Joined(SubSeq(s.up, 1, last))) <= BatchLimit /\ ~(last < last)
      BY <1>2, <1>5, <3>3
    <3> QED
      BY <3>4
  <2>2. CASE \E n \in 0 .. last - 1 - 1 : n \in fits /\ n + 1 \notin fits
    <3>1. PICK n \in 0 .. last - 1 - 1 : n \in fits /\ n + 1 \notin fits
      BY <2>2
    <3>2. n + 1 \in 1 .. last /\ n + 1 \in 0 .. last - 1 /\ (n + 1) + 1 \in 0 .. last
      BY <1>2
    <3>3. ~(Len(Joined(SubSeq(s.up, 1, (n + 1) + 1))) <= BatchLimit)
      BY <1>5, <3>1, <3>2
    <3>4. Len(Joined(SubSeq(s.up, 1, (n + 1) + 1))) > BatchLimit
      BY <1>3, <3>2, <3>3, PageAssumption
    <3>5. Len(Joined(SubSeq(s.up, 1, n + 1))) <= BatchLimit
      BY <1>5, <3>1
    <3> QED
      BY <3>2, <3>4, <3>5
  <2> QED
    BY <2>1, <2>2
<1> QED
  BY <1>1, <1>7 DEF Fitting

\* Batch b takes the first frames of what waits in s; the rest stays.
Cuts(s, b) ==
  /\ b.body \in Bodies /\ b.count \in Nat /\ b.left \in Queues
  /\ Joined(s.up) = b.body \o Joined(b.left.up)
  /\ Len(Joined(s.up)) = Len(b.body) + Len(Joined(b.left.up))
  /\ b.left.items - b.count - Len(b.left.up) = s.items - Len(s.up)
  /\ b.left.bytes = s.bytes /\ b.left.flight = s.flight /\ b.left.sent = s.sent
  /\ b.left.buffered = s.buffered /\ b.left.failed = s.failed
  /\ b.left.timer = s.timer /\ b.left.micro = s.micro

\* Other messages and another count, nothing else.
Requeued(s, up, items) == [s EXCEPT !.up = up, !.items = items]

LEMMA Requeue ==
  ASSUME NEW s \in Queues, NEW up, NEW items, up \in Lists(Nat), items \in Int
  PROVE  /\ Requeued(s, up, items) \in Queues
         /\ Requeued(s, up, items).up = up /\ Requeued(s, up, items).items = items
         /\ Requeued(s, up, items).bytes = s.bytes
         /\ Requeued(s, up, items).flight = s.flight
         /\ Requeued(s, up, items).sent = s.sent
         /\ Requeued(s, up, items).buffered = s.buffered
         /\ Requeued(s, up, items).failed = s.failed
         /\ Requeued(s, up, items).timer = s.timer
         /\ Requeued(s, up, items).micro = s.micro
  BY DEF Queues, Requeued

\* Taking frames off the front shortens what waits by them.
LEMMA CutLength ==
  ASSUME NEW up \in Lists(Nat), NEW rest \in Lists(Nat), NEW body \in Bodies,
         Joined(up) = body \o Joined(rest)
  PROVE  Len(Joined(up)) = Len(body) + Len(Joined(rest))
<1>1. Joined(rest) \in Seq(Nat) /\ body \in Seq(Nat)
  BY JoinTyped DEF Lists, Bodies
<1>2. Len(body \o Joined(rest)) = Len(body) + Len(Joined(rest))
  BY <1>1, ConcatProperties
<1> QED
  BY <1>2

LEMMA SplitFirstCuts ==
  ASSUME NEW s \in Queues, s.up # <<>>, Len(s.up[1]) > BatchLimit
  PROVE  Cuts(s, SplitFirst(s))
<1>1. PICK first, body, rest :
        /\ first = s.up[1] /\ body = SubSeq(first, 1, BatchLimit)
        /\ rest = SubSeq(first, BatchLimit + 1, Len(first))
  OBVIOUS
<1>2. s.up \in Lists(Nat) /\ s.items \in Int /\ Len(s.up) \in Nat
  BY Parts
<1>3. first \in Seq(Nat) /\ Len(first) \in Nat /\ BatchLimit \in 1 .. Len(first)
  <2>1. first \in Seq(Nat)
    BY <1>1, <1>2, EmptySeq DEF Lists
  <2> QED
    BY <1>1, <2>1, LenProperties, PageAssumption
<1>4. body \in Seq(Nat) /\ rest \in Seq(Nat) /\ first = body \o rest
  <2>1. body \in Seq(Nat) /\ rest \in Seq(Nat)
    <3>1. \A i \in 1 .. BatchLimit : first[i] \in Nat
      BY <1>3
    <3>2. \A i \in BatchLimit + 1 .. Len(first) : first[i] \in Nat
      BY <1>3
    <3>3. 1 \in Int /\ BatchLimit \in Int /\ BatchLimit + 1 \in Int /\ Len(first) \in Int
      BY <1>3
    <3> QED
      BY <1>1, <3>1, <3>2, <3>3, SubSeqProperties
  <2>2. /\ 1 \in 1 .. Len(first) + 1 /\ BatchLimit \in 1 - 1 .. Len(first)
        /\ Len(first) \in BatchLimit .. Len(first)
    BY <1>3
  <2>3. body \o rest = SubSeq(first, 1, Len(first))
    BY <1>1, <1>3, <2>2, ConcatAdjacentSubSeq
  <2> QED
    BY <1>3, <2>1, <2>3, SubSeqFull
<1>5. PICK up : up = [s.up EXCEPT ![1] = rest] /\ up = Shortened(s.up, rest)
  BY DEF Shortened
<1>6. /\ up \in Lists(Nat) /\ Len(up) = Len(s.up)
      /\ Joined(s.up) = body \o Joined(up)
  <2>1. Made(s.up[1], body, rest)
    BY <1>1, <1>4 DEF Made
  <2>2. PICK items : items = s.up
    OBVIOUS
  <2>3. items \in Lists(Nat) /\ items # <<>> /\ Made(items[1], body, rest)
        /\ up = Shortened(items, rest)
    BY <1>2, <1>5, <2>1, <2>2
  <2>4. /\ Shortened(items, rest) \in Lists(Nat)
        /\ Len(Shortened(items, rest)) = Len(items)
        /\ Made(Joined(items), body, Joined(Shortened(items, rest)))
    BY <1>4, <2>3, JoinCut
  <2> QED
    BY <2>2, <2>3, <2>4 DEF Made
<1>7. Len(Joined(s.up)) = Len(body) + Len(Joined(up))
  BY <1>2, <1>4, <1>6, CutLength DEF Bodies
<1>8. PICK r, items : r = Requeued(s, up, items) /\ items = s.items + 1
  OBVIOUS
<1>9. /\ r \in Queues /\ r.up = up /\ r.items = s.items + 1
      /\ r.bytes = s.bytes /\ r.flight = s.flight /\ r.sent = s.sent
      /\ r.buffered = s.buffered /\ r.failed = s.failed
      /\ r.timer = s.timer /\ r.micro = s.micro
  <2>1. s.items + 1 \in Int
    BY <1>2
  <2> QED
    BY <1>6, <1>8, <2>1, Requeue
<1>10. SplitFirst(s) = [body |-> body, count |-> 1, left |-> r]
  BY <1>1, <1>2, <1>5, <1>8 DEF SplitFirst, Queues, Requeued
<1>11. PICK b : b = SplitFirst(s)
  OBVIOUS
<1>12. b.body = body /\ b.count = 1 /\ b.left = r
  BY <1>10, <1>11
<1>13. r.items - 1 - Len(up) = s.items - Len(s.up)
  BY <1>2, <1>6, <1>9
<1>14. Cuts(s, b)
  <2>1. Joined(s.up) = b.body \o Joined(b.left.up)
    BY <1>6, <1>9, <1>12
  <2>2. Len(Joined(s.up)) = Len(b.body) + Len(Joined(b.left.up))
    BY <1>7, <1>9, <1>12
  <2>3. b.left.items - b.count - Len(b.left.up) = s.items - Len(s.up)
    BY <1>9, <1>12, <1>13
  <2>4. b.body \in Bodies /\ b.count \in Nat
    BY <1>4, <1>12 DEF Bodies
  <2> QED
    BY <1>9, <1>12, <2>1, <2>2, <2>3, <2>4 DEF Cuts
<1> QED
  BY <1>11, <1>14

\* What the next body is made of.
LEMMA JoinPendingCuts ==
  ASSUME NEW s \in Queues, s.up # <<>>
  PROVE  Cuts(s, joinPending(s))
<1>1. CASE Len(s.up[1]) > BatchLimit
  BY <1>1, SplitFirstCuts DEF joinPending
<1>2. CASE ~(Len(s.up[1]) > BatchLimit)
  <2>0. s.up \in Lists(Nat) /\ s.items \in Int /\ Len(s.up) \in Nat
    BY Parts
  <2>1. Len(s.up[1]) <= BatchLimit
    <3>1. s.up[1] \in Seq(Nat)
      BY <2>0, EmptySeq DEF Lists
    <3> QED
      BY <1>2, <3>1, LenProperties, PageAssumption
  <2>2. PICK n : n = Fitting(s)
    OBVIOUS
  <2>3. n \in 1 .. Len(s.up) /\ n \in 0 .. Len(s.up) /\ n \in Nat
    BY <2>0, <2>1, <2>2, FittingSome
  <2>4. PICK front, up : /\ front = SubSeq(s.up, 1, n)
                         /\ up = SubSeq(s.up, n + 1, Len(s.up))
    OBVIOUS
  <2>5. /\ front \in Lists(Nat) /\ up \in Lists(Nat) /\ Len(up) = Len(s.up) - n
        /\ Joined(s.up) = Joined(front) \o Joined(up)
    BY <2>0, <2>3, <2>4, JoinFront
  <2>6. PICK body : body = Joined(front)
    OBVIOUS
  <2>7. body \in Bodies
    BY <2>5, <2>6, JoinTyped DEF Lists, Bodies
  <2>8. Joined(s.up) = body \o Joined(up)
    BY <2>5, <2>6
  <2>9. Len(Joined(s.up)) = Len(body) + Len(Joined(up))
    BY <2>0, <2>5, <2>7, <2>8, CutLength
  <2>10. PICK r, items : r = Requeued(s, up, items) /\ items = s.items
    OBVIOUS
  <2>11. /\ r \in Queues /\ r.up = up /\ r.items = s.items
         /\ r.bytes = s.bytes /\ r.flight = s.flight /\ r.sent = s.sent
         /\ r.buffered = s.buffered /\ r.failed = s.failed
         /\ r.timer = s.timer /\ r.micro = s.micro
    <3>1. /\ r \in Queues /\ r.up = up /\ r.items = items
          /\ r.bytes = s.bytes /\ r.flight = s.flight /\ r.sent = s.sent
          /\ r.buffered = s.buffered /\ r.failed = s.failed
          /\ r.timer = s.timer /\ r.micro = s.micro
      BY <2>0, <2>5, <2>10, Requeue
    <3> QED
      BY <2>10, <3>1
  <2>12. PICK b : b = joinPending(s)
    OBVIOUS
  <2>13. r = [s EXCEPT !.up = up]
    BY <2>10 DEF Queues, Requeued
  <2>14. b = [body |-> body, count |-> n, left |-> r]
    BY <1>2, <2>2, <2>4, <2>6, <2>12, <2>13 DEF joinPending
  <2>15. b.body = body /\ b.count = n /\ b.left = r
    BY <2>14
  <2>16. r.items - n - Len(up) = s.items - Len(s.up)
    BY <2>0, <2>3, <2>5, <2>11
  <2>17. Cuts(s, b)
    BY <2>3, <2>5, <2>7, <2>8, <2>9, <2>11, <2>15, <2>16 DEF Cuts
  <2> QED
    BY <2>12, <2>17
<1> QED
  BY <1>1, <1>2

\* Queues that hold and count the same keep what they have.
LEMMA SameKeeps ==
  ASSUME NEW s \in Queues, NEW r \in Queues, Contents(r) = Contents(s),
         r.bytes - Waiting(r) = s.bytes - Waiting(s),
         r.items - Units(r) = s.items - Units(s),
         r.bytes + r.buffered = s.bytes + s.buffered, r.failed = s.failed
  PROVE  Keeps(s, r)
<1>1. PICK n : n = s.bytes + s.buffered
  OBVIOUS
<1>2. n \in Int
  BY <1>1, Parts
<1>3. n <= n
  BY <1>2
<1> QED
  BY <1>1, <1>3 DEF Keeps

\* The flags of a queue may change freely.
Flagged(s, timer, micro) == [s EXCEPT !.timer = timer, !.micro = micro]

LEMMA FlaggedKeeps ==
  ASSUME NEW s \in Queues, NEW timer \in BOOLEAN, NEW micro \in BOOLEAN
  PROVE  /\ Keeps(s, Flagged(s, timer, micro))
         /\ Flagged(s, timer, micro).flight = s.flight
         /\ Flagged(s, timer, micro).timer = timer
         /\ Flagged(s, timer, micro).micro = micro
<1>1. PICK r : r = Flagged(s, timer, micro)
  OBVIOUS
<1>2. /\ r \in Queues /\ r.up = s.up /\ r.items = s.items /\ r.bytes = s.bytes
      /\ r.flight = s.flight /\ r.sent = s.sent /\ r.buffered = s.buffered
      /\ r.failed = s.failed /\ r.timer = timer /\ r.micro = micro
  BY <1>1 DEF Flagged, Queues
<1>3. Contents(r) = Contents(s) /\ Waiting(r) = Waiting(s) /\ Units(r) = Units(s)
  BY <1>2 DEF Contents, Waiting, Units
<1>4. Keeps(s, r)
  BY <1>2, <1>3, SameKeeps
<1> QED
  BY <1>1, <1>2, <1>4

\* A body comes under way.
Flown(s, flight) == [s EXCEPT !.flight = flight]

LEMMA FlownParts ==
  ASSUME NEW s \in Queues, NEW flight \in [body : Bodies, count : Nat]
  PROVE  /\ Flown(s, flight) \in Queues
         /\ Flown(s, flight).flight = flight /\ Flown(s, flight).up = s.up
         /\ Flown(s, flight).items = s.items /\ Flown(s, flight).bytes = s.bytes
         /\ Flown(s, flight).sent = s.sent /\ Flown(s, flight).buffered = s.buffered
         /\ Flown(s, flight).failed = s.failed /\ Flown(s, flight).timer = s.timer
         /\ Flown(s, flight).micro = s.micro
  BY DEF Queues, Flown

LEMMA NoFlightParts ==
  NoFlight \in [body : Bodies, count : Nat] /\ NoFlight.body = <<>> /\ NoFlight.count = 0
BY DEF NoFlight, Bodies

LEMMA RunUpKeeps ==
  ASSUME NEW s \in Queues
  PROVE  /\ Keeps(s, runUp(s))
         /\ runUp(s).timer = s.timer /\ runUp(s).micro = s.micro
<1>1. CASE s.flight # NoFlight \/ s.up = <<>>
  BY <1>1, SameKeeps DEF runUp
<1>2. CASE s.flight = NoFlight /\ s.up # <<>>
  <2>1. PICK b : b = joinPending(s)
    OBVIOUS
  <2>2. Cuts(s, b)
    BY <1>2, <2>1, JoinPendingCuts
  <2>3. PICK flight, r : /\ flight = [body |-> b.body, count |-> b.count]
                         /\ r = [b.left EXCEPT !.flight = flight] /\ r = Flown(b.left, flight)
    BY DEF Flown
  <2>4. runUp(s) = r
    BY <1>2, <2>1, <2>3 DEF runUp
  <2>5. /\ flight \in [body : Bodies, count : Nat] /\ flight.body = b.body
        /\ flight.count = b.count /\ b.left \in Queues
    BY <2>2, <2>3 DEF Cuts
  <2>6. /\ r \in Queues /\ r.flight = flight /\ r.up = b.left.up /\ r.items = b.left.items
        /\ r.bytes = b.left.bytes /\ r.sent = b.left.sent /\ r.buffered = b.left.buffered
        /\ r.failed = b.left.failed /\ r.timer = b.left.timer /\ r.micro = b.left.micro
    BY <2>3, <2>5, FlownParts
  <2>7. /\ b.left.bytes = s.bytes /\ b.left.sent = s.sent /\ b.left.buffered = s.buffered
        /\ b.left.failed = s.failed /\ b.left.timer = s.timer /\ b.left.micro = s.micro
    BY <2>2 DEF Cuts
  <2>8. Contents(r) = Contents(s)
    <3>1. PICK sent, body, rest : sent = s.sent /\ body = b.body /\ rest = Joined(b.left.up)
      OBVIOUS
    <3>2. sent \in Bodies /\ body \in Bodies /\ rest \in Bodies
      BY <2>2, <3>1, Parts DEF Cuts
    <3>3. Joined(s.up) = body \o rest
      BY <2>2, <3>1 DEF Cuts
    <3>4. Contents(s) = (sent \o <<>>) \o (body \o rest)
      BY <1>2, <3>1, <3>3, NoFlightParts DEF Contents
    <3>5. Contents(r) = (sent \o body) \o rest
      BY <2>5, <2>6, <2>7, <3>1 DEF Contents
    <3>6. sent \o <<>> = sent
      BY <3>2, ConcatEmptySeq DEF Bodies
    <3>7. (sent \o body) \o rest = sent \o (body \o rest)
      BY <3>2, ConcatAssociative DEF Bodies
    <3> QED
      BY <3>4, <3>5, <3>6, <3>7
  <2>9. Waiting(r) = Waiting(s)
    <3>1. Len(Joined(s.up)) = Len(b.body) + Len(Joined(b.left.up)) /\ b.left \in Queues
      BY <2>2 DEF Cuts
    <3>2. Len(s.flight.body) = 0 /\ Len(Joined(s.up)) \in Nat
      BY <1>2, NoFlightParts, Parts
    <3>3. Waiting(r) = Len(b.body) + Len(Joined(b.left.up))
      BY <2>5, <2>6 DEF Waiting
    <3>4. Waiting(s) = Len(Joined(s.up))
      BY <3>2 DEF Waiting
    <3> QED
      BY <3>1, <3>3, <3>4
  <2>10. r.items - Units(r) = s.items - Units(s)
    <3>1. /\ b.left.items - b.count - Len(b.left.up) = s.items - Len(s.up)
          /\ b.left.items \in Int /\ b.count \in Nat /\ Len(b.left.up) \in Nat
      BY <2>2, <2>5, Parts DEF Cuts
    <3>2. s.flight.count = 0 /\ s.items \in Int /\ Len(s.up) \in Nat
      BY <1>2, NoFlightParts, Parts
    <3> QED
      BY <2>5, <2>6, <3>1, <3>2 DEF Units
  <2>11. Keeps(s, r)
    BY <2>6, <2>7, <2>8, <2>9, <2>10, SameKeeps
  <2> QED
    BY <2>4, <2>6, <2>7, <2>11
<1> QED
  BY <1>1, <1>2

\* The socket takes a body.
Taken(b) ==
  [release(b.left, Len(b.body), b.count) EXCEPT
     !.sent = @ \o b.body, !.buffered = @ + Len(b.body), !.micro = b.left.up # <<>>]

LEMMA TakenParts ==
  ASSUME NEW s \in Queues, NEW b, Cuts(s, b)
  PROVE  /\ Taken(b) \in Queues
         /\ Made(Taken(b).sent, s.sent, b.body) /\ Taken(b).up = b.left.up
         /\ Taken(b).flight = s.flight /\ Taken(b).failed = s.failed
         /\ Taken(b).bytes = s.bytes - Len(b.body)
         /\ Taken(b).items = b.left.items - b.count
         /\ Taken(b).buffered = s.buffered + Len(b.body)
         /\ Taken(b).timer = s.timer /\ Taken(b).micro \in BOOLEAN
<1>1. PICK left, total, count : left = b.left /\ total = Len(b.body) /\ count = b.count
  OBVIOUS
<1>2. /\ left \in Queues /\ total \in Nat /\ count \in Nat /\ b.body \in Bodies
      /\ left.bytes = s.bytes /\ left.flight = s.flight /\ left.sent = s.sent
      /\ left.buffered = s.buffered /\ left.failed = s.failed
      /\ left.timer = s.timer
  BY <1>1, LenProperties DEF Cuts, Bodies
<1>3. /\ left.bytes \in Int /\ left.items \in Int /\ left.buffered \in Nat /\ left.sent \in Bodies
  BY <1>2, Parts
<1>4. PICK sent : sent = left.sent \o b.body
  OBVIOUS
<1>10. PICK micro \in BOOLEAN : micro = (left.up # <<>>)
  <2>1. (left.up # <<>>) \in BOOLEAN
    OBVIOUS
  <2> QED
    BY <2>1
<1>5. sent \in Bodies
  BY <1>2, <1>3, <1>4, ConcatProperties DEF Bodies
<1>6. PICK r : r = [left EXCEPT !.bytes = left.bytes - total, !.items = left.items - count,
                                !.sent = sent, !.buffered = left.buffered + total,
                                !.micro = micro]
  OBVIOUS
<1>7. left.bytes - total \in Int /\ left.items - count \in Int /\ left.buffered + total \in Nat
  BY <1>2, <1>3
<1>8. /\ r \in Queues /\ r.sent = sent /\ r.up = left.up /\ r.flight = left.flight
      /\ r.failed = left.failed /\ r.bytes = left.bytes - total /\ r.items = left.items - count
      /\ r.buffered = left.buffered + total /\ r.timer = left.timer /\ r.micro = micro
  BY <1>2, <1>5, <1>6, <1>7, <1>10 DEF Queues
<1>9. Taken(b) = r
  BY <1>1, <1>2, <1>4, <1>6, <1>10 DEF Taken, release, Queues
<1> QED
  BY <1>1, <1>2, <1>4, <1>8, <1>9, <1>10 DEF Made

LEMMA RunWebSocketUpKeeps ==
  ASSUME NEW s \in Queues, s.flight = NoFlight
  PROVE  /\ Keeps(s, runWebSocketUp(s))
         /\ runWebSocketUp(s).flight = NoFlight
<1>0. s.timer \in BOOLEAN
  BY Parts
<1>1. CASE ~Open \/ s.up = <<>>
  <2>1. runWebSocketUp(s) = Flagged(s, s.timer, FALSE)
    BY <1>0, <1>1 DEF runWebSocketUp, Flagged, Queues
  <2>2. /\ Keeps(s, Flagged(s, s.timer, FALSE))
        /\ Flagged(s, s.timer, FALSE).flight = s.flight
    BY <1>0, FlaggedKeeps
  <2> QED
    BY <2>1, <2>2
<1>2. CASE ~(~Open \/ s.up = <<>>) /\ Backpressure(s)
  <2>1. runWebSocketUp(s) = Flagged(s, TRUE, FALSE)
    BY <1>2 DEF runWebSocketUp, Flagged, Queues
  <2> QED
    BY <2>1, FlaggedKeeps
<1>3. CASE ~(~Open \/ s.up = <<>>) /\ ~Backpressure(s)
  <2>1. PICK b : b = joinPending(s)
    OBVIOUS
  <2>2. Cuts(s, b)
    BY <1>3, <2>1, JoinPendingCuts
  <2>3. PICK r : r = Taken(b)
    OBVIOUS
  <2>4. runWebSocketUp(s) = r
    BY <1>3, <2>1, <2>3 DEF runWebSocketUp, Taken
  <2>5. /\ r \in Queues
        /\ Made(r.sent, s.sent, b.body) /\ r.up = b.left.up
        /\ r.flight = s.flight /\ r.failed = s.failed
        /\ r.bytes = s.bytes - Len(b.body)
        /\ r.items = b.left.items - b.count
        /\ r.buffered = s.buffered + Len(b.body)
    BY <2>2, <2>3, TakenParts
  <2>6. b.body \in Bodies /\ b.left \in Queues /\ b.count \in Nat /\ Len(b.body) \in Nat
    BY <2>2, LenProperties DEF Cuts, Bodies
  <2>8. Contents(r) = Contents(s)
    <3>1. PICK sent, body, rest : sent = s.sent /\ body = b.body /\ rest = Joined(b.left.up)
      OBVIOUS
    <3>2. sent \in Bodies /\ body \in Bodies /\ rest \in Bodies
      BY <2>2, <3>1, Parts DEF Cuts
    <3>3. Joined(s.up) = body \o rest
      BY <2>2, <3>1 DEF Cuts
    <3>4. Contents(s) = (sent \o <<>>) \o (body \o rest)
      BY <3>1, <3>3, NoFlightParts DEF Contents
    <3>5. Contents(r) = ((sent \o body) \o <<>>) \o rest
      BY <2>5, <3>1, NoFlightParts DEF Contents, Made
    <3>6. sent \o <<>> = sent
      BY <3>2, ConcatEmptySeq DEF Bodies
    <3>7. (sent \o body) \o rest = sent \o (body \o rest)
      BY <3>2, ConcatAssociative DEF Bodies
    <3>8. sent \o body \in Bodies
      BY <3>2, ConcatProperties DEF Bodies
    <3>9. (sent \o body) \o <<>> = sent \o body
      BY <3>8, ConcatEmptySeq DEF Bodies
    <3> QED
      BY <3>4, <3>5, <3>6, <3>7, <3>9
  <2>9. r.bytes - Waiting(r) = s.bytes - Waiting(s)
    <3>1. Len(Joined(s.up)) = Len(b.body) + Len(Joined(b.left.up))
      BY <2>2 DEF Cuts
    <3>2. /\ Len(s.flight.body) = 0 /\ Len(r.flight.body) = 0
          /\ Len(Joined(s.up)) \in Nat /\ Len(Joined(b.left.up)) \in Nat /\ s.bytes \in Int
      BY <2>5, <2>6, NoFlightParts, Parts
    <3>3. Waiting(r) = Len(Joined(b.left.up))
      BY <2>5, <3>2 DEF Waiting
    <3>4. Waiting(s) = Len(Joined(s.up))
      BY <3>2 DEF Waiting
    <3>5. PICK n, rest : n = Len(b.body) /\ rest = Len(Joined(b.left.up))
      OBVIOUS
    <3>6. /\ n \in Nat /\ rest \in Nat /\ Waiting(r) = rest /\ Waiting(s) = n + rest
          /\ r.bytes = s.bytes - n /\ s.bytes \in Int
      BY <2>5, <2>6, <3>1, <3>2, <3>3, <3>4, <3>5
    <3> QED
      BY <3>6
  <2>10. r.items - Units(r) = s.items - Units(s)
    <3>1. /\ b.left.items - b.count - Len(b.left.up) = s.items - Len(s.up)
          /\ b.left.items \in Int /\ b.count \in Nat /\ Len(b.left.up) \in Nat
      BY <2>2, <2>6, Parts DEF Cuts
    <3>2. s.flight.count = 0 /\ s.items \in Int /\ Len(s.up) \in Nat
      BY NoFlightParts, Parts
    <3> QED
      BY <2>5, <3>1, <3>2 DEF Units
  <2>11. r.bytes + r.buffered = s.bytes + s.buffered
    <3>1. s.bytes \in Int /\ s.buffered \in Nat
      BY Parts
    <3> QED
      BY <2>5, <2>6, <3>1
  <2>12. Keeps(s, r)
    BY <2>5, <2>8, <2>9, <2>10, <2>11, SameKeeps
  <2> QED
    BY <2>4, <2>5, <2>12
<1> QED
  BY <1>1, <1>2, <1>3

\* Other accounts, and whether a reserve failed.
Counted(s, bytes, items, failed) ==
  [s EXCEPT !.bytes = bytes, !.items = items, !.failed = failed]

LEMMA CountedParts ==
  ASSUME NEW s \in Queues, NEW bytes \in Int, NEW items \in Int, NEW failed \in BOOLEAN
  PROVE  /\ Counted(s, bytes, items, failed) \in Queues
         /\ Counted(s, bytes, items, failed).bytes = bytes
         /\ Counted(s, bytes, items, failed).items = items
         /\ Counted(s, bytes, items, failed).failed = failed
         /\ Counted(s, bytes, items, failed).up = s.up
         /\ Counted(s, bytes, items, failed).flight = s.flight
         /\ Counted(s, bytes, items, failed).sent = s.sent
         /\ Counted(s, bytes, items, failed).buffered = s.buffered
         /\ Counted(s, bytes, items, failed).timer = s.timer
         /\ Counted(s, bytes, items, failed).micro = s.micro
         /\ Contents(Counted(s, bytes, items, failed)) = Contents(s)
         /\ Waiting(Counted(s, bytes, items, failed)) = Waiting(s)
         /\ Units(Counted(s, bytes, items, failed)) = Units(s)
<1>1. PICK r : r = Counted(s, bytes, items, failed)
  OBVIOUS
<1>2. /\ r \in Queues /\ r.bytes = bytes /\ r.items = items /\ r.failed = failed
      /\ r.up = s.up /\ r.flight = s.flight /\ r.sent = s.sent
      /\ r.buffered = s.buffered /\ r.timer = s.timer /\ r.micro = s.micro
  BY <1>1 DEF Counted, Queues
<1>3. Contents(r) = Contents(s) /\ Waiting(r) = Waiting(s) /\ Units(r) = Units(s)
  BY <1>2 DEF Contents, Waiting, Units
<1> QED
  BY <1>1, <1>2, <1>3

\* The accounts change, without a failure.
Recounts(s, r, bytes, items) ==
  bytes \in Int /\ items \in Int /\ r = Counted(s, bytes, items, FALSE)

LEMMA Recounted ==
  ASSUME NEW s \in Queues, NEW bytes, NEW items, NEW r,
         Recounts(s, r, bytes, items)
  PROVE  /\ r \in Queues /\ r.bytes = bytes /\ r.items = items
         /\ r.flight = s.flight /\ r.timer = s.timer /\ r.micro = s.micro
         /\ r.buffered = s.buffered
         /\ Contents(r) = Contents(s) /\ Waiting(r) = Waiting(s) /\ Units(r) = Units(s)
<1>1. /\ r \in Queues /\ r.bytes = bytes /\ r.items = items /\ r.failed = FALSE
      /\ r.up = s.up /\ r.flight = s.flight /\ r.sent = s.sent
      /\ r.buffered = s.buffered /\ r.timer = s.timer /\ r.micro = s.micro
  BY DEF Recounts, Counted, Queues
<1>2. Contents(r) = Contents(s) /\ Waiting(r) = Waiting(s) /\ Units(r) = Units(s)
  BY <1>1 DEF Contents, Waiting, Units
<1> QED
  BY <1>1, <1>2

LEMMA ReserveCounts ==
  ASSUME NEW s \in Queues, s.failed = FALSE, NEW data \in Bodies
  PROVE  /\ Len(data) \in Nat
         /\ reserve(s, data) =
              IF HasRoom(s, data) THEN Counted(s, s.bytes + Len(data), s.items + 1, FALSE)
              ELSE Counted(s, s.bytes, s.items, TRUE)
         /\ HasRoom(s, data) => s.bytes + Len(data) + s.buffered <= QueueLimit
<1>1. s.bytes \in Int /\ s.items \in Int /\ s.buffered \in Nat
  BY Parts
<1>2. Len(data) \in Nat
  BY LenProperties DEF Bodies
<1>3. HasRoom(s, data) => s.bytes + Len(data) + s.buffered <= QueueLimit
  BY <1>1, <1>2, PageAssumption DEF HasRoom
<1>4. ASSUME HasRoom(s, data)
      PROVE  reserve(s, data) = Counted(s, s.bytes + Len(data), s.items + 1, FALSE)
  BY <1>4 DEF reserve, Counted, Queues
<1>5. ASSUME ~HasRoom(s, data)
      PROVE  reserve(s, data) = Counted(s, s.bytes, s.items, TRUE)
  BY <1>5 DEF reserve, Counted, Queues
<1> QED
  BY <1>2, <1>3, <1>4, <1>5

LEMMA ReleaseCounts ==
  ASSUME NEW s \in Queues, s.failed = FALSE, NEW bytes, NEW items
  PROVE  release(s, bytes, items) = Counted(s, s.bytes - bytes, s.items - items, FALSE)
BY DEF release, Counted, Queues

\* Queue s has taken data and become r.
Takes(s, r, data) ==
  /\ r \in Queues
  /\ Made(Contents(r), Contents(s), data)
  /\ r.bytes - Waiting(r) = s.bytes - Waiting(s)
  /\ r.items - Units(r) = s.items - Units(s)
  /\ r.bytes + r.buffered <= QueueLimit
  /\ r.failed = FALSE

\* A queue that has been reserved room pushes data.
Pushed(s, data) ==
  [s EXCEPT !.bytes = s.bytes + Len(data), !.items = s.items + 1, !.up = Append(s.up, data)]

LEMMA PushedTakes ==
  ASSUME NEW s \in Queues, s.failed = FALSE, NEW data \in Bodies, HasRoom(s, data)
  PROVE  /\ Takes(s, Pushed(s, data), data)
         /\ Pushed(s, data).flight = s.flight
         /\ Pushed(s, data).timer = s.timer /\ Pushed(s, data).micro = s.micro
<1>1. PICK r, up : r = Pushed(s, data) /\ up = Append(s.up, data)
  OBVIOUS
<1>2. /\ s.up \in Lists(Nat) /\ s.bytes \in Int /\ s.items \in Int /\ Len(data) \in Nat
      /\ s.bytes + Len(data) + s.buffered <= QueueLimit
  BY Parts, ReserveCounts
<1>3. /\ up \in Lists(Nat) /\ Joined(up) = Joined(s.up) \o data
      /\ Len(up) = Len(s.up) + 1
  <2>1. s.up \in Seq(Seq(Nat)) /\ data \in Seq(Nat)
    BY <1>2 DEF Lists, Bodies
  <2>2. Append(s.up, data) \in Lists(Nat) /\ Joined(Append(s.up, data)) = Joined(s.up) \o data
    BY <1>2, <2>1, JoinAppend
  <2>3. Len(Append(s.up, data)) = Len(s.up) + 1
    BY <2>1, AppendProperties
  <2> QED
    BY <1>1, <2>2, <2>3
<1>4. /\ r \in Queues /\ r.bytes = s.bytes + Len(data) /\ r.items = s.items + 1
      /\ r.up = up /\ r.flight = s.flight /\ r.sent = s.sent /\ r.failed = FALSE
      /\ r.buffered = s.buffered /\ r.timer = s.timer /\ r.micro = s.micro
  <2>1. s.bytes + Len(data) \in Int /\ s.items + 1 \in Int
    BY <1>2
  <2> QED
    BY <1>1, <1>3, <2>1 DEF Pushed, Queues
<1>5. Len(Joined(up)) = Len(Joined(s.up)) + Len(data)
  <2>1. Joined(s.up) \in Seq(Nat) /\ data \in Seq(Nat)
    BY Parts DEF Bodies
  <2> QED
    BY <1>3, <2>1, ConcatProperties
<1>6. r.bytes - Waiting(r) = s.bytes - Waiting(s)
  <2>1. PICK n, old, body :
          n = Len(data) /\ old = Len(Joined(s.up)) /\ body = Len(s.flight.body)
    OBVIOUS
  <2>2. n \in Nat /\ old \in Nat /\ body \in Nat
    BY <1>2, <2>1, Parts
  <2>3. Waiting(r) = body + (old + n) /\ Waiting(s) = body + old
    BY <1>4, <1>5, <2>1 DEF Waiting
  <2>4. r.bytes = s.bytes + n
    BY <1>4, <2>1
  <2> QED
    BY <1>2, <2>2, <2>3, <2>4
<1>7. r.items - Units(r) = s.items - Units(s)
  <2>1. PICK n, count : n = Len(s.up) /\ count = s.flight.count
    OBVIOUS
  <2>2. n \in Nat /\ count \in Nat
    BY <2>1, Parts
  <2>3. Units(r) = count + (n + 1) /\ Units(s) = count + n
    BY <1>3, <1>4, <2>1 DEF Units
  <2> QED
    BY <1>2, <1>4, <2>2, <2>3
<1>8. Made(Contents(r), Contents(s), data)
  <2>1. PICK ahead, old : ahead = s.sent \o s.flight.body /\ old = Joined(s.up)
    OBVIOUS
  <2>2. ahead \in Seq(Nat) /\ old \in Seq(Nat) /\ data \in Seq(Nat)
    BY <2>1, Parts, ConcatProperties DEF Bodies
  <2>3. Contents(r) = ahead \o (old \o data) /\ Contents(s) = ahead \o old
    BY <1>3, <1>4, <2>1 DEF Contents
  <2>4. (ahead \o old) \o data = ahead \o (old \o data)
    BY <2>2, ConcatAssociative
  <2> QED
    BY <2>3, <2>4 DEF Made
<1> QED
  BY <1>1, <1>2, <1>4, <1>6, <1>7, <1>8 DEF Takes

\* What keeps its contents has still taken the data.
LEMMA TakesAndKeeps ==
  ASSUME NEW s \in Queues, NEW data \in Bodies, NEW p, NEW r, Takes(s, p, data), Keeps(p, r)
  PROVE  Takes(s, r, data)
<1>1. p \in Queues /\ r \in Queues
  BY DEF Takes, Keeps
<1>2. PICK b, c : b = p.bytes + p.buffered /\ c = r.bytes + r.buffered
  OBVIOUS
<1>3. b \in Int /\ c \in Int
  BY <1>1, <1>2, Parts
<1>4. c <= b /\ b <= QueueLimit
  BY <1>2 DEF Keeps, Takes
<1>5. c <= QueueLimit
  BY <1>3, <1>4, PageAssumption
<1> QED
  BY <1>2, <1>5 DEF Takes, Keeps

\* queueCarrier refuses data, or takes it; the part of the queue the other
\* carrier uses stays as it is.
Fails(s, r) ==
  /\ r \in Queues /\ r.failed
  /\ r.bytes = s.bytes /\ r.buffered = s.buffered
  /\ r.flight = s.flight /\ r.timer = s.timer /\ r.micro = s.micro

Serves(s, r, data) ==
  /\ Fails(s, r) \/ Takes(s, r, data)
  /\ mode # "https" => r.flight = s.flight
  /\ mode = "https" => r.timer = s.timer /\ r.micro = s.micro

LEMMA QueueCarrierServes ==
  ASSUME NEW s \in Queues, s.failed = FALSE, NEW data \in Bodies,
         mode # "https" => s.flight = NoFlight
  PROVE  Serves(s, queueCarrier(s, data), data)
<1>1. PICK r : r = queueCarrier(s, data)
  OBVIOUS
<1>2. s.bytes \in Int /\ s.items \in Int /\ Len(data) \in Nat
  BY Parts, ReserveCounts
<1>3. CASE ~HasRoom(s, data)
  <2>1. PICK c : c = Counted(s, s.bytes, s.items, TRUE)
    OBVIOUS
  <2>2. reserve(s, data) = c
    BY <1>3, <2>1, ReserveCounts
  <2>3. Fails(s, c)
    BY <2>1 DEF Fails, Counted, Queues
  <2>4. r = c
    BY <1>1, <2>2, <2>3 DEF queueCarrier, Fails
  <2> QED
    BY <1>1, <2>3, <2>4 DEF Serves, Fails
<1>4. CASE HasRoom(s, data)
  <2>1. PICK p : p = Pushed(s, data)
    OBVIOUS
  <2>2. /\ Takes(s, p, data) /\ p \in Queues /\ p.flight = s.flight
        /\ p.timer = s.timer /\ p.micro = s.micro
    BY <1>4, <2>1, PushedTakes DEF Takes
  <2>3. r = IF mode = "https" THEN runUp(p) ELSE runWebSocketUp(p)
    <3>1. PICK c : c = Counted(s, s.bytes + Len(data), s.items + 1, FALSE)
      OBVIOUS
    <3>2. reserve(s, data) = c
      BY <1>4, <3>1, ReserveCounts
    <3>3. s.bytes + Len(data) \in Int /\ s.items + 1 \in Int
      BY <1>2
    <3>4. c.failed = FALSE
      BY <3>1, <3>3, CountedParts
    <3>5. [c EXCEPT !.up = Append(@, data)] = p
      BY <2>1, <3>1 DEF Counted, Pushed, Queues
    <3> QED
      BY <1>1, <3>2, <3>4, <3>5 DEF queueCarrier
  <2>4. CASE mode = "https"
    <3>1. r = runUp(p)
      BY <2>3, <2>4
    <3>2. Keeps(p, r) /\ r.timer = p.timer /\ r.micro = p.micro
      BY <2>2, <3>1, RunUpKeeps
    <3>3. Takes(s, r, data)
      BY <2>2, <3>2, TakesAndKeeps
    <3> QED
      BY <1>1, <2>2, <2>4, <3>2, <3>3 DEF Serves, Takes
  <2>5. CASE mode # "https"
    <3>1. r = runWebSocketUp(p) /\ p.flight = NoFlight
      BY <2>2, <2>3, <2>5
    <3>2. Keeps(p, r) /\ r.flight = NoFlight
      BY <2>2, <3>1, RunWebSocketUpKeeps
    <3>3. Takes(s, r, data)
      BY <2>2, <3>2, TakesAndKeeps
    <3> QED
      BY <1>1, <2>2, <2>5, <3>2, <3>3 DEF Serves, Takes
  <2> QED
    BY <2>4, <2>5
<1> QED
  BY <1>3, <1>4

-----------------------------------------------------------------------------
(* Numbers in order *)

\* The next k numbers after n.
After(n, k) == [j \in 1 .. k |-> n + j]

\* Sequence e holds each of the first n numbers once, and in order unless loose.
Holds(e, n, loose) ==
  /\ e \in Seq(Nat)
  /\ Len(e) = n
  /\ \A f \in 1 .. n : \E k \in 1 .. Len(e) : e[k] = f
  /\ ~loose => \A k \in 1 .. Len(e) : e[k] = k

LEMMA AfterTyped ==
  ASSUME NEW n \in Nat, NEW k \in Nat
  PROVE  After(n, k) \in Seq(Nat) /\ Len(After(n, k)) = k
<1>1. \A j \in 1 .. k : n + j \in Nat
  OBVIOUS
<1>2. After(n, k) \in [1 .. k -> Nat]
  BY <1>1 DEF After
<1> QED
  BY <1>2

\* More numbers, between two parts of a sequence.
LEMMA HoldsInsert ==
  ASSUME NEW a \in Seq(Nat), NEW b \in Seq(Nat), NEW n \in Nat, NEW k \in Nat,
         NEW total, total = n + k, NEW old, NEW new,
         Holds(a \o b, n, old), ~new => ~old /\ b = <<>>
  PROVE  Holds((a \o After(n, k)) \o b, total, new)
<1>1. PICK data, la, lb : data = After(n, k) /\ la = Len(a) /\ lb = Len(b)
  OBVIOUS
<1>2. data \in Seq(Nat) /\ Len(data) = k /\ \A j \in 1 .. k : data[j] = n + j
  BY <1>1, AfterTyped DEF After
<1>3. la \in Nat /\ lb \in Nat /\ la + lb = n
  BY <1>1, LenProperties, ConcatProperties DEF Holds
<1>4. PICK e, x, y : e = a \o b /\ x = a \o data /\ y = x \o b
  OBVIOUS
<1>5. /\ e \in Seq(Nat) /\ Len(e) = la + lb
      /\ \A i \in 1 .. la + lb : e[i] = IF i <= la THEN a[i] ELSE b[i - la]
  BY <1>1, <1>4, ConcatProperties
<1>6. /\ x \in Seq(Nat) /\ Len(x) = la + k
      /\ \A i \in 1 .. la + k : x[i] = IF i <= la THEN a[i] ELSE data[i - la]
  BY <1>1, <1>2, <1>4, ConcatProperties
<1>7. /\ y \in Seq(Nat) /\ Len(y) = la + k + lb
      /\ \A i \in 1 .. la + k + lb : y[i] = IF i <= la + k THEN x[i] ELSE b[i - (la + k)]
  <2>1. /\ y \in Seq(Nat) /\ Len(y) = Len(x) + Len(b)
        /\ \A i \in 1 .. Len(x) + Len(b) :
             y[i] = IF i <= Len(x) THEN x[i] ELSE b[i - Len(x)]
    BY <1>4, <1>6, ConcatProperties
  <2>2. Len(x) = la + k /\ Len(b) = lb
    BY <1>1, <1>6
  <2> QED
    BY <2>1, <2>2
<1>8. Len(y) = total
  BY <1>3, <1>7
<1>9. ASSUME NEW f \in 1 .. total
      PROVE  \E i \in 1 .. Len(y) : y[i] = f
  <2>1. CASE f > n
    <3>1. f - n \in 1 .. k /\ la + (f - n) \in 1 .. la + k /\ la + (f - n) \in 1 .. Len(y)
      BY <1>3, <1>7, <2>1
    <3>2. ~(la + (f - n) <= la) /\ (la + (f - n)) - la = f - n
      BY <1>3, <2>1
    <3>3. x[la + (f - n)] = data[f - n]
      BY <1>6, <3>1, <3>2
    <3>4. data[f - n] = f
      BY <1>2, <3>1
    <3>5. y[la + (f - n)] = x[la + (f - n)]
      BY <1>3, <1>7, <3>1
    <3> QED
      BY <3>1, <3>3, <3>4, <3>5
  <2>2. CASE f <= n
    <3>1. f \in 1 .. n
      BY <2>2
    <3>2. PICK i \in 1 .. Len(e) : e[i] = f
      BY <1>4, <3>1 DEF Holds
    <3>3. i \in 1 .. la + lb
      BY <1>5
    <3>4. CASE i <= la
      <4>1. e[i] = a[i]
        BY <1>5, <3>3, <3>4
      <4>2. i \in 1 .. la + k /\ i \in 1 .. la + k + lb /\ i <= la + k
        BY <1>3, <3>3, <3>4
      <4>3. x[i] = a[i] /\ y[i] = x[i]
        BY <1>6, <1>7, <3>4, <4>2
      <4> QED
        BY <1>7, <3>2, <4>1, <4>2, <4>3
    <3>5. CASE ~(i <= la)
      <4>1. e[i] = b[i - la]
        BY <1>5, <3>3, <3>5
      <4>2. i + k \in 1 .. la + k + lb /\ ~(i + k <= la + k) /\ (i + k) - (la + k) = i - la
        BY <1>3, <3>3, <3>5
      <4>3. y[i + k] = b[i - la]
        BY <1>7, <4>2
      <4> QED
        BY <1>7, <3>2, <4>1, <4>2, <4>3
    <3> QED
      BY <3>4, <3>5
  <2> QED
    BY <2>1, <2>2
<1>10. ASSUME ~new
       PROVE  \A i \in 1 .. Len(y) : y[i] = i
  <2>1. lb = 0 /\ la = n /\ total = la + k
    BY <1>1, <1>3, <1>10, EmptySeq
  <2>2. \A i \in 1 .. la : e[i] = i
    BY <1>4, <1>5, <1>10, <2>1 DEF Holds
  <2>3. ASSUME NEW i \in 1 .. Len(y)
        PROVE  y[i] = i
    <3>1. i \in 1 .. la + k /\ i \in 1 .. la + k + lb /\ i <= la + k
      BY <1>3, <1>8, <2>1
    <3>2. y[i] = x[i]
      BY <1>7, <3>1
    <3>3. CASE i <= la
      <4>1. i \in 1 .. la /\ i \in 1 .. la + lb
        BY <1>3, <3>1, <3>3
      <4>2. x[i] = a[i] /\ e[i] = a[i] /\ e[i] = i
        BY <1>5, <1>6, <2>2, <3>1, <3>3, <4>1
      <4> QED
        BY <3>2, <4>2
    <3>4. CASE ~(i <= la)
      <4>1. i - la \in 1 .. k /\ n + (i - la) = i
        BY <1>3, <2>1, <3>1, <3>4
      <4>2. x[i] = data[i - la] /\ data[i - la] = n + (i - la)
        BY <1>2, <1>6, <3>1, <3>4, <4>1
      <4> QED
        BY <3>2, <4>1, <4>2
    <3> QED
      BY <3>3, <3>4
  <2> QED
    BY <2>3
<1>11. Holds(y, total, new)
  BY <1>7, <1>8, <1>9, <1>10 DEF Holds
<1> QED
  BY <1>1, <1>4, <1>11

\* More numbers at the end.
LEMMA HoldsAppend ==
  ASSUME NEW a \in Seq(Nat), NEW n \in Nat, NEW k \in Nat,
         NEW total, total = n + k, NEW loose, Holds(a, n, loose)
  PROVE  Holds(a \o After(n, k), total, loose)
<1>1. PICK b : b = <<>>
  OBVIOUS
<1>2. b \in Seq(Nat) /\ a \o b = a
  BY <1>1, ConcatEmptySeq
<1>3. Holds(a \o b, n, loose)
  BY <1>2
<1>4. Holds((a \o After(n, k)) \o b, total, loose)
  BY <1>1, <1>2, <1>3, HoldsInsert
<1>5. a \o After(n, k) \in Seq(Nat)
  BY AfterTyped, ConcatProperties
<1>6. (a \o After(n, k)) \o b = a \o After(n, k)
  BY <1>1, <1>5, ConcatEmptySeq
<1> QED
  BY <1>4, <1>6

-----------------------------------------------------------------------------
(* The page's queue and what waits in pending *)

\* The accounts of queue s are right with waiting in pending, and both hold the
\* first n numbers once, and in order unless loose.
Right(s, waiting, n, loose) ==
  /\ s.bytes = Waiting(s) + Len(Joined(waiting))
  /\ s.items = Units(s) + Len(waiting)
  /\ Holds(Contents(s) \o Joined(waiting), n, loose)

LEMMA Measures ==
  ASSUME NEW s \in Queues
  PROVE  Waiting(s) \in Nat /\ Units(s) \in Nat /\ Contents(s) \in Seq(Nat)
<1>1. Waiting(s) \in Nat /\ Units(s) \in Nat
  <2>1. PICK a, b, c, d : /\ a = Len(s.flight.body) /\ b = Len(Joined(s.up))
                          /\ c = s.flight.count /\ d = Len(s.up)
    OBVIOUS
  <2>2. a \in Nat /\ b \in Nat /\ c \in Nat /\ d \in Nat
    BY <2>1, Parts
  <2>3. Waiting(s) = a + b /\ Units(s) = c + d
    BY <2>1 DEF Waiting, Units
  <2> QED
    BY <2>2, <2>3
<1>2. s.sent \o s.flight.body \in Seq(Nat)
  BY Parts, ConcatProperties DEF Bodies
<1>3. (s.sent \o s.flight.body) \o Joined(s.up) \in Seq(Nat)
  BY <1>2, Parts, ConcatProperties DEF Bodies
<1> QED
  BY <1>1, <1>3 DEF Contents

LEMMA ListParts ==
  ASSUME NEW waiting \in Lists(Nat)
  PROVE  /\ Joined(waiting) \in Seq(Nat) /\ Len(Joined(waiting)) \in Nat
         /\ Len(waiting) \in Nat
<1>1. Joined(waiting) \in Seq(Nat)
  BY JoinTyped DEF Lists
<1> QED
  BY <1>1, LenProperties DEF Lists

LEMMA KeepsRight ==
  ASSUME NEW s \in Queues, NEW waiting \in Lists(Nat), NEW n, NEW loose, NEW r,
         Right(s, waiting, n, loose), Keeps(s, r)
  PROVE  Right(r, waiting, n, loose)
<1>1. r \in Queues /\ Contents(r) = Contents(s)
  BY DEF Keeps
<1>2. PICK w, u, x, y : /\ w = Waiting(s) /\ u = Waiting(r) /\ x = Units(s) /\ y = Units(r)
  OBVIOUS
<1>3. w \in Nat /\ u \in Nat /\ x \in Nat /\ y \in Nat
  BY <1>1, <1>2, Measures
<1>4. PICK j, k : j = Len(Joined(waiting)) /\ k = Len(waiting)
  OBVIOUS
<1>5. j \in Nat /\ k \in Nat
  BY <1>4, ListParts
<1>6. s.bytes = w + j /\ s.items = x + k
  BY <1>2, <1>4 DEF Right
<1>7. /\ r.bytes \in Int /\ r.items \in Int
      /\ r.bytes - u = s.bytes - w /\ r.items - y = s.items - x
  BY <1>1, <1>2, Parts DEF Keeps
<1>8. r.bytes = u + j /\ r.items = y + k
  BY <1>3, <1>5, <1>6, <1>7
<1> QED
  BY <1>1, <1>2, <1>4, <1>8 DEF Right

\* A message is posted into pending.
LEMMA WaitsRight ==
  ASSUME NEW s \in Queues, NEW waiting \in Lists(Nat), NEW n \in Nat, NEW loose,
         NEW k \in Nat, NEW total, total = n + k, NEW r,
         Right(s, waiting, n, loose),
         NEW bytes, bytes = s.bytes + k, NEW items, items = s.items + 1,
         Recounts(s, r, bytes, items)
  PROVE  /\ Append(waiting, After(n, k)) \in Lists(Nat)
         /\ Right(r, Append(waiting, After(n, k)), total, loose)
<1>1. PICK data, more : data = After(n, k) /\ more = Append(waiting, data)
  OBVIOUS
<1>2. data \in Seq(Nat) /\ Len(data) = k
  BY <1>1, AfterTyped
<1>3. more \in Lists(Nat) /\ Joined(more) = Joined(waiting) \o data
  BY <1>1, <1>2, JoinAppend
<1>4. Len(more) = Len(waiting) + 1
  <2>1. waiting \in Seq(Seq(Nat))
    BY DEF Lists
  <2> QED
    BY <1>1, <1>2, <2>1, AppendProperties
<1>5. Joined(waiting) \in Seq(Nat) /\ Len(Joined(waiting)) \in Nat /\ Len(waiting) \in Nat
  BY ListParts
<1>6. Len(Joined(more)) = Len(Joined(waiting)) + k
  BY <1>2, <1>3, <1>5, ConcatProperties
<1>7. /\ r.bytes = s.bytes + k /\ r.items = s.items + 1 /\ Contents(r) = Contents(s)
      /\ Waiting(r) = Waiting(s) /\ Units(r) = Units(s)
  <2>1. /\ r.bytes = bytes /\ r.items = items /\ Contents(r) = Contents(s)
        /\ Waiting(r) = Waiting(s) /\ Units(r) = Units(s)
    BY Recounted
  <2> QED
    BY <2>1
<1>8. Waiting(s) \in Nat /\ Units(s) \in Nat /\ Contents(s) \in Seq(Nat)
  BY Measures
<1>9. r.bytes = Waiting(r) + Len(Joined(more))
  <2>1. PICK w, j : w = Waiting(s) /\ j = Len(Joined(waiting))
    OBVIOUS
  <2>2. w \in Nat /\ j \in Nat /\ r.bytes = (w + j) + k
    BY <1>5, <1>7, <1>8, <2>1 DEF Right
  <2>3. Waiting(r) = w /\ Len(Joined(more)) = j + k
    BY <1>6, <1>7, <2>1
  <2>4. (w + j) + k = w + (j + k)
    BY <2>2
  <2> QED
    BY <2>2, <2>3, <2>4
<1>10. r.items = Units(r) + Len(more)
  <2>1. PICK x, m : x = Units(s) /\ m = Len(waiting)
    OBVIOUS
  <2>2. x \in Nat /\ m \in Nat /\ r.items = (x + m) + 1
    BY <1>5, <1>7, <1>8, <2>1 DEF Right
  <2>3. Units(r) = x /\ Len(more) = m + 1
    BY <1>4, <1>7, <2>1
  <2>4. (x + m) + 1 = x + (m + 1)
    BY <2>2
  <2> QED
    BY <2>2, <2>3, <2>4
<1>11. Holds(Contents(r) \o Joined(more), total, loose)
  <2>1. PICK held : held = Contents(s) \o Joined(waiting)
    OBVIOUS
  <2>2. held \in Seq(Nat) /\ Holds(held, n, loose)
    BY <1>5, <1>8, <2>1, ConcatProperties DEF Right
  <2>3. Holds(held \o After(n, k), total, loose)
    BY <2>2, HoldsAppend
  <2>4. Contents(s) \o (Joined(waiting) \o data) = held \o data
    <3>1. PICK a, b : a = Contents(s) /\ b = Joined(waiting)
      OBVIOUS
    <3>2. a \in Seq(Nat) /\ b \in Seq(Nat)
      BY <1>5, <1>8, <3>1
    <3>3. (a \o b) \o data = a \o (b \o data)
      BY <1>2, <3>2, ConcatAssociative
    <3> QED
      BY <2>1, <3>1, <3>3
  <2> QED
    BY <1>1, <1>3, <1>7, <2>3, <2>4
<1> QED
  BY <1>1, <1>3, <1>9, <1>10, <1>11 DEF Right

\* A message is posted past pending.
LEMMA TakesRight ==
  ASSUME NEW s \in Queues, NEW waiting \in Lists(Nat), NEW n \in Nat, NEW old,
         NEW k \in Nat, NEW total, total = n + k, NEW r, NEW new,
         Right(s, waiting, n, old), Takes(s, r, After(n, k)),
         ~new => ~old /\ waiting = <<>>
  PROVE  Right(r, waiting, total, new)
<1>1. PICK data : data = After(n, k)
  OBVIOUS
<1>2. data \in Seq(Nat)
  BY <1>1, AfterTyped
<1>3. r \in Queues /\ Contents(r) = Contents(s) \o data
  BY <1>1 DEF Takes, Made
<1>4. PICK w, u, x, y : /\ w = Waiting(s) /\ u = Waiting(r) /\ x = Units(s) /\ y = Units(r)
  OBVIOUS
<1>5. w \in Nat /\ u \in Nat /\ x \in Nat /\ y \in Nat /\ Contents(s) \in Seq(Nat)
  BY <1>3, <1>4, Measures
<1>6. PICK j, m : j = Len(Joined(waiting)) /\ m = Len(waiting)
  OBVIOUS
<1>7. j \in Nat /\ m \in Nat /\ Joined(waiting) \in Seq(Nat)
  BY <1>6, ListParts
<1>8. r.bytes = u + j /\ r.items = y + m
  <2>1. s.bytes = w + j /\ s.items = x + m
    BY <1>4, <1>6 DEF Right
  <2>2. /\ r.bytes \in Int /\ r.items \in Int
        /\ r.bytes - u = s.bytes - w /\ r.items - y = s.items - x
    BY <1>3, <1>4, Parts DEF Takes
  <2>3. PICK before, after, had, has :
          before = s.bytes /\ after = r.bytes /\ had = s.items /\ has = r.items
    OBVIOUS
  <2>4. /\ after \in Int /\ has \in Int /\ before = w + j /\ had = x + m
        /\ after - u = before - w /\ has - y = had - x
    BY <2>1, <2>2, <2>3
  <2>5. after = u + j /\ has = y + m
    BY <1>5, <1>7, <2>4
  <2> QED
    BY <2>3, <2>5
<1>9. Holds((Contents(s) \o data) \o Joined(waiting), total, new)
  <2>1. PICK a, b : a = Contents(s) /\ b = Joined(waiting)
    OBVIOUS
  <2>2. a \in Seq(Nat) /\ b \in Seq(Nat) /\ Holds(a \o b, n, old)
    BY <1>5, <1>7, <2>1 DEF Right
  <2>3. ~new => ~old /\ b = <<>>
    BY <2>1, JoinEmpty
  <2>4. Holds((a \o After(n, k)) \o b, total, new)
    BY <2>2, <2>3, HoldsInsert
  <2> QED
    BY <1>1, <2>1, <2>4
<1> QED
  BY <1>3, <1>4, <1>6, <1>8, <1>9 DEF Right

\* The first message of pending goes over to the queue.
LEMMA DrainRight ==
  ASSUME NEW s \in Queues, s.failed = FALSE, NEW waiting \in Lists(Nat), waiting # <<>>,
         NEW n, NEW loose, NEW p, NEW r, Right(s, waiting, n, loose),
         p = release(s, Len(Head(waiting)), 1), Takes(p, r, Head(waiting))
  PROVE  Tail(waiting) \in Lists(Nat) /\ Right(r, Tail(waiting), n, loose)
<1>1. PICK data, rest : data = Head(waiting) /\ rest = Tail(waiting)
  OBVIOUS
<1>2. /\ data \in Seq(Nat) /\ rest \in Lists(Nat) /\ Len(rest) = Len(waiting) - 1
      /\ Joined(waiting) = data \o Joined(rest)
  BY <1>1, JoinHead
<1>3. PICK d : d = Len(data)
  OBVIOUS
<1>4. d \in Nat /\ Joined(rest) \in Seq(Nat)
  BY <1>2, <1>3, LenProperties, ListParts
<1>5. /\ p.bytes = s.bytes - d /\ p.items = s.items - 1 /\ Contents(p) = Contents(s)
      /\ Waiting(p) = Waiting(s) /\ Units(p) = Units(s)
  <2>1. s.bytes - d \in Int /\ s.items - 1 \in Int
    BY <1>4, Parts
  <2>2. p = Counted(s, s.bytes - d, s.items - 1, FALSE)
    BY <1>1, <1>3, ReleaseCounts
  <2>3. PICK bytes, items : bytes = s.bytes - d /\ items = s.items - 1
    OBVIOUS
  <2>4. Recounts(s, p, bytes, items)
    BY <2>1, <2>2, <2>3 DEF Recounts
  <2>5. /\ p.bytes = bytes /\ p.items = items /\ Contents(p) = Contents(s)
        /\ Waiting(p) = Waiting(s) /\ Units(p) = Units(s)
    BY <2>4, Recounted
  <2> QED
    BY <2>3, <2>5
<1>6. /\ r \in Queues /\ Contents(r) = Contents(s) \o data
      /\ r.bytes - Waiting(r) = p.bytes - Waiting(s)
      /\ r.items - Units(r) = p.items - Units(s)
  BY <1>1, <1>5 DEF Takes, Made
<1>7. PICK w, u, x, y : /\ w = Waiting(s) /\ u = Waiting(r) /\ x = Units(s) /\ y = Units(r)
  OBVIOUS
<1>8. w \in Nat /\ u \in Nat /\ x \in Nat /\ y \in Nat /\ Contents(s) \in Seq(Nat)
  BY <1>6, <1>7, Measures
<1>9. PICK j, m : j = Len(Joined(rest)) /\ m = Len(rest)
  OBVIOUS
<1>10. j \in Nat /\ m \in Nat /\ Len(Joined(waiting)) = d + j /\ Len(waiting) = m + 1
  <2>1. Len(data \o Joined(rest)) = Len(data) + Len(Joined(rest))
    BY <1>2, <1>4, ConcatProperties
  <2>2. j \in Nat /\ m \in Nat /\ Len(waiting) \in Nat
    BY <1>2, <1>9, ListParts
  <2> QED
    BY <1>2, <1>3, <1>9, <2>1, <2>2
<1>11. r.bytes = u + j /\ r.items = y + m
  <2>1. s.bytes = w + (d + j) /\ s.items = x + (m + 1)
    BY <1>7, <1>10 DEF Right
  <2>2. /\ r.bytes \in Int /\ r.items \in Int
        /\ r.bytes - u = (s.bytes - d) - w /\ r.items - y = (s.items - 1) - x
    BY <1>5, <1>6, <1>7, Parts
  <2>3. PICK before, after, had, has :
          before = s.bytes /\ after = r.bytes /\ had = s.items /\ has = r.items
    OBVIOUS
  <2>4. /\ after \in Int /\ has \in Int /\ before = w + (d + j) /\ had = x + (m + 1)
        /\ after - u = (before - d) - w /\ has - y = (had - 1) - x
    BY <2>1, <2>2, <2>3
  <2>5. after = u + j /\ has = y + m
    BY <1>4, <1>8, <1>10, <2>4
  <2> QED
    BY <2>3, <2>5
<1>12. Holds(Contents(r) \o Joined(rest), n, loose)
  <2>1. (Contents(s) \o data) \o Joined(rest) = Contents(s) \o (data \o Joined(rest))
    <3>1. PICK a, b, c : a = Contents(s) /\ b = data /\ c = Joined(rest)
      OBVIOUS
    <3>2. a \in Seq(Nat) /\ b \in Seq(Nat) /\ c \in Seq(Nat)
      BY <1>2, <1>4, <1>8, <3>1
    <3>3. (a \o b) \o c = a \o (b \o c)
      BY <3>2, ConcatAssociative
    <3> QED
      BY <3>1, <3>3
  <2>2. Holds(Contents(s) \o Joined(waiting), n, loose)
    BY DEF Right
  <2> QED
    BY <1>2, <1>6, <2>1, <2>2
<1> QED
  BY <1>1, <1>2, <1>7, <1>9, <1>11, <1>12 DEF Right

-----------------------------------------------------------------------------
(* The page *)

Phases == {"idle", "posting", "body", "socket", "drain", "done"}

PageTyped ==
  /\ mode \in {"https", "websocket", "websocket-lanes"} /\ phase \in Phases
  /\ arrived \in Nat /\ early \in BOOLEAN /\ closed \in BOOLEAN
  /\ pending \in Lists(Nat) /\ q \in Queues

\* What a carrier does not use stays empty, pending is empty once it has been
\* drained, and a reserve that failed has closed the page.
Quiescent ==
  /\ mode # "https" => q.flight = NoFlight
  /\ mode # "websocket" => ~q.timer /\ ~q.micro
  /\ phase = "done" => pending = <<>>
  /\ q.failed => closed

\* The bytes of Bounded; its items are below.
BytesBounded == q.bytes + q.buffered <= QueueLimit

PageInv ==
  /\ PageTyped /\ Quiescent /\ BytesBounded
  /\ ~closed => Right(q, pending, arrived, early)

LEMMA EmptyQueueParts ==
  ASSUME NEW loose
  PROVE  /\ EmptyQueue \in Queues /\ EmptyQueue.flight = NoFlight
         /\ ~EmptyQueue.timer /\ ~EmptyQueue.micro /\ ~EmptyQueue.failed
         /\ EmptyQueue.bytes + EmptyQueue.buffered <= QueueLimit
         /\ Right(EmptyQueue, <<>>, 0, loose)
<1>1. <<>> \in Lists(Nat) /\ <<>> \in Bodies /\ NoFlight \in [body : Bodies, count : Nat]
  BY NoFlightParts, EmptySeq DEF Lists, Bodies
<1>2. PICK s : s = EmptyQueue
  OBVIOUS
<1>3. /\ s \in Queues /\ s.flight = NoFlight /\ ~s.timer /\ ~s.micro /\ ~s.failed
      /\ s.bytes = 0 /\ s.items = 0 /\ s.buffered = 0 /\ s.up = <<>> /\ s.sent = <<>>
  BY <1>1, <1>2 DEF EmptyQueue, Queues
<1>4. Joined(<<>>) = <<>> /\ Len(<<>>) = 0
  BY JoinEmpty, EmptySeq
<1>5. Waiting(s) = 0 /\ Units(s) = 0
  BY <1>3, <1>4, NoFlightParts DEF Waiting, Units
<1>6. PICK none : none = <<>> /\ none \in Seq(Nat) /\ Len(none) = 0
  BY EmptySeq
<1>7. none \o none = none
  BY <1>6, ConcatEmptySeq
<1>8. Contents(s) \o Joined(<<>>) = none
  BY <1>3, <1>4, <1>6, <1>7, NoFlightParts DEF Contents
<1>9. Holds(none, 0, loose)
  BY <1>6 DEF Holds
<1>10. Right(s, <<>>, 0, loose)
  <2>1. Len(Joined(<<>>)) = 0
    BY <1>4
  <2>2. s.bytes = Waiting(s) + Len(Joined(<<>>)) /\ s.items = Units(s) + Len(<<>>)
    BY <1>3, <1>4, <1>5, <2>1
  <2> QED
    BY <1>8, <1>9, <2>2 DEF Right
<1>11. s.bytes + s.buffered <= QueueLimit
  BY <1>3, PageAssumption
<1> QED
  BY <1>2, <1>3, <1>10, <1>11

LEMMA PageStart ==
  PInit \/ ( /\ mode = "websocket-lanes" /\ phase = "done" /\ arrived = 0 /\ early = FALSE
             /\ pending = <<>> /\ q = EmptyQueue /\ closed = FALSE ) => PageInv
<1> SUFFICES ASSUME /\ mode \in {"https", "websocket", "websocket-lanes"}
                    /\ phase \in {"idle", "done"} /\ arrived = 0 /\ early = FALSE
                    /\ pending = <<>> /\ q = EmptyQueue /\ closed = FALSE
             PROVE  PageInv
  BY DEF PInit
<1>1. PageTyped
  BY EmptyQueueParts, EmptySeq DEF PageTyped, Phases, Lists
<1>2. Quiescent
  BY EmptyQueueParts DEF Quiescent
<1>3. BytesBounded
  BY EmptyQueueParts DEF BytesBounded
<1>4. Right(q, pending, arrived, early)
  BY EmptyQueueParts
<1> QED
  BY <1>1, <1>2, <1>3, <1>4 DEF PageInv

\* What the runs check follows.
LEMMA PageSound ==
  PageInv => Accounted /\ OnceInOrder
<1> SUFFICES ASSUME PageInv PROVE Accounted /\ OnceInOrder
  OBVIOUS
<1>1. CASE closed
  BY <1>1 DEF Accounted, OnceInOrder, PageInv
<1>2. CASE ~closed
  <2>1. /\ Right(q, pending, arrived, early)
        /\ pending \in Lists(Nat) /\ q \in Queues
    BY <1>2 DEF PageInv, PageTyped
  <2>2. PICK a, b, c, d, e, f :
          /\ a = Len(q.flight.body) /\ b = Len(Joined(q.up)) /\ c = Len(Joined(pending))
          /\ d = q.flight.count /\ e = Len(q.up) /\ f = Len(pending)
    OBVIOUS
  <2>3. Accounted
    BY <2>1 DEF Accounted, Right, Waiting, Units
  <2>4. Holds(Everything, arrived, early)
    BY <2>1 DEF Everything, Right, Contents
  <2>5. DOMAIN Everything = 1 .. Len(Everything)
    BY <2>4 DEF Holds
  <2>6. OnceInOrder
    BY <2>4, <2>5 DEF OnceInOrder, Holds
  <2> QED
    BY <2>3, <2>6
<1> QED
  BY <1>1, <1>2

\* Another phase, and nothing else but the end.
LEMMA PhaseStep ==
  ASSUME PageInv, phase' \in Phases, phase' = "done" => (pending = <<>> \/ phase = "done"),
         closed' \in BOOLEAN, closed => closed',
         UNCHANGED <<mode, arrived, early, pending, q>>
  PROVE  PageInv'
<1>1. PageTyped'
  BY DEF PageInv, PageTyped
<1>2. Quiescent'
  BY DEF PageInv, Quiescent, PageTyped
<1>3. BytesBounded' /\ (~closed' => Right(q, pending, arrived, early)')
  BY DEF PageInv, BytesBounded, PageTyped
<1> QED
  BY <1>1, <1>2, <1>3 DEF PageInv

\* The queue goes on with what it has.
LEMMA KeepsStep ==
  ASSUME PageInv, ~closed, Keeps(q, q'),
         mode # "https" => q'.flight = NoFlight,
         mode # "websocket" => ~q'.timer /\ ~q'.micro,
         closed' = q'.failed \/ closed' = closed,
         UNCHANGED <<mode, phase, arrived, early, pending>>
  PROVE  PageInv'
<1>1. /\ PageTyped /\ Quiescent /\ BytesBounded /\ ~q.failed
      /\ Right(q, pending, arrived, early)
  BY DEF PageInv, Quiescent
<1>2. /\ q' \in Queues /\ q'.failed = q.failed /\ q'.bytes + q'.buffered <= q.bytes + q.buffered
  BY DEF Keeps
<1>3. PageTyped'
  BY <1>1, <1>2, Parts DEF PageTyped
<1>4. Quiescent'
  BY <1>1, <1>2 DEF Quiescent
<1>5. BytesBounded'
  <2>1. /\ q.bytes \in Int /\ q.buffered \in Nat /\ q'.bytes \in Int /\ q'.buffered \in Nat
    BY <1>1, <1>2, Parts DEF PageTyped
  <2> QED
    BY <1>1, <1>2, <2>1, PageAssumption DEF BytesBounded
<1>6. Right(q, pending, arrived, early)'
  <2>1. Right(q', pending, arrived, early)
    BY <1>1, KeepsRight DEF PageTyped
  <2> QED
    BY <2>1
<1> QED
  BY <1>3, <1>4, <1>5, <1>6 DEF PageInv

LEMMA KeepsOn ==
  ASSUME NEW s \in Queues, NEW p, NEW r, Keeps(s, p), Keeps(p, r)
  PROVE  Keeps(s, r)
<1>1. p \in Queues /\ r \in Queues
  BY DEF Keeps
<1>2. PICK a, b, c : a = s.bytes + s.buffered /\ b = p.bytes + p.buffered
                     /\ c = r.bytes + r.buffered
  OBVIOUS
<1>3. a \in Int /\ b \in Int /\ c \in Int /\ c <= b /\ b <= a
  <2>1. /\ s.bytes \in Int /\ s.buffered \in Nat /\ p.bytes \in Int /\ p.buffered \in Nat
        /\ r.bytes \in Int /\ r.buffered \in Nat
    BY <1>1, Parts
  <2> QED
    BY <1>2, <2>1 DEF Keeps
<1>4. c <= a
  BY <1>3
<1> QED
  BY <1>2, <1>4 DEF Keeps

\* The body under way has arrived.
Landed(s) ==
  [s EXCEPT !.sent = s.sent \o s.flight.body, !.flight = NoFlight,
            !.bytes = s.bytes - Len(s.flight.body), !.items = s.items - s.flight.count]

LEMMA LandedKeeps ==
  ASSUME NEW s \in Queues
  PROVE  /\ Keeps(s, Landed(s)) /\ Landed(s).flight = NoFlight
         /\ Landed(s).timer = s.timer /\ Landed(s).micro = s.micro
<1>1. PICK r, sent, body, count :
        r = Landed(s) /\ sent = s.sent \o s.flight.body /\ body = Len(s.flight.body)
        /\ count = s.flight.count
  OBVIOUS
<1>2. /\ body \in Nat /\ count \in Nat /\ sent \in Bodies
      /\ s.bytes \in Int /\ s.items \in Int /\ s.buffered \in Nat
  BY <1>1, Parts, ConcatProperties DEF Bodies
<1>3. /\ r \in Queues /\ r.sent = sent /\ r.flight = NoFlight /\ r.up = s.up
      /\ r.bytes = s.bytes - body /\ r.items = s.items - count /\ r.buffered = s.buffered
      /\ r.failed = s.failed /\ r.timer = s.timer /\ r.micro = s.micro
  <2>1. s.bytes - body \in Int /\ s.items - count \in Int
    BY <1>2
  <2> QED
    BY <1>1, <1>2, <2>1, NoFlightParts DEF Landed, Queues
<1>4. PICK up, m : up = Len(Joined(s.up)) /\ m = Len(s.up)
  OBVIOUS
<1>5. up \in Nat /\ m \in Nat
  BY <1>4, Parts
<1>6. Waiting(s) = body + up /\ Units(s) = count + m /\ Waiting(r) = 0 + up /\ Units(r) = 0 + m
  BY <1>1, <1>3, <1>4, NoFlightParts, EmptySeq DEF Waiting, Units
<1>7. /\ r.bytes - Waiting(r) = s.bytes - Waiting(s)
      /\ r.items - Units(r) = s.items - Units(s)
      /\ r.bytes + r.buffered <= s.bytes + s.buffered
  BY <1>2, <1>3, <1>5, <1>6
<1>8. Contents(r) = Contents(s)
  <2>1. sent \o <<>> = sent
    BY <1>2, ConcatEmptySeq DEF Bodies
  <2> QED
    BY <1>1, <1>3, <2>1, NoFlightParts DEF Contents
<1>9. Keeps(s, r)
  BY <1>3, <1>7, <1>8 DEF Keeps
<1> QED
  BY <1>1, <1>3, <1>9

LEMMA AckedStep ==
  ASSUME PageInv, Acked
  PROVE  PageInv'
<1>1. /\ ~closed /\ q \in Queues /\ mode = "https" /\ ~q.timer /\ ~q.micro
  BY DEF PageInv, PageTyped, Quiescent, Acked, Idle
<1>2. PICK s, p : s = q /\ p = Landed(q)
  OBVIOUS
<1>3. q' = runUp(p)
  BY <1>1, <1>2 DEF Acked, Landed, release, Queues
<1>4. /\ Keeps(s, p) /\ p \in Queues /\ p.timer = s.timer /\ p.micro = s.micro
  BY <1>1, <1>2, LandedKeeps DEF Keeps
<1>5. Keeps(p, q') /\ q'.timer = p.timer /\ q'.micro = p.micro
  BY <1>3, <1>4, RunUpKeeps
<1>6. Keeps(q, q')
  BY <1>1, <1>2, <1>4, <1>5, KeepsOn
<1>7. UNCHANGED <<mode, phase, arrived, early, pending, closed>>
  BY DEF Acked
<1> QED
  BY <1>1, <1>2, <1>4, <1>5, <1>6, <1>7, KeepsStep

\* The socket buffers something else.
Buffering(s, left) == [s EXCEPT !.buffered = left]

LEMMA SocketDrainsStep ==
  ASSUME PageInv, SocketDrains
  PROVE  PageInv'
<1>1. /\ ~closed /\ q \in Queues /\ Quiescent
  BY DEF PageInv, PageTyped, SocketDrains, Idle
<1>2. PICK left \in 0 .. q.buffered - 1 : q' = Buffering(q, left)
  BY DEF SocketDrains, Buffering
<1>3. PICK s, r : s = q /\ r = q'
  OBVIOUS
<1>4. s.buffered \in Nat /\ s.bytes \in Int /\ left \in Nat /\ left <= s.buffered
  BY <1>1, <1>2, <1>3, Parts
<1>5. /\ r \in Queues /\ r.up = s.up /\ r.items = s.items /\ r.bytes = s.bytes
      /\ r.flight = s.flight /\ r.sent = s.sent /\ r.buffered = left
      /\ r.failed = s.failed /\ r.timer = s.timer /\ r.micro = s.micro
  BY <1>1, <1>2, <1>3, <1>4 DEF Buffering, Queues
<1>6. /\ Contents(r) = Contents(s) /\ Waiting(r) = Waiting(s) /\ Units(r) = Units(s)
      /\ r.bytes + r.buffered <= s.bytes + s.buffered
  BY <1>4, <1>5 DEF Contents, Waiting, Units
<1>7. Keeps(q, q')
  BY <1>3, <1>5, <1>6 DEF Keeps
<1>8. UNCHANGED <<mode, phase, arrived, early, pending, closed>>
  BY DEF SocketDrains
<1> QED
  BY <1>1, <1>3, <1>5, <1>7, <1>8, KeepsStep DEF Quiescent

LEMMA MicrotaskStep ==
  ASSUME PageInv, Microtask
  PROVE  PageInv'
<1>1. /\ ~closed /\ q \in Queues /\ mode = "websocket" /\ q.flight = NoFlight
  BY DEF PageInv, PageTyped, Quiescent, Microtask
<1>2. /\ q' = runWebSocketUp(q) /\ closed' = q'.failed
      /\ UNCHANGED <<mode, phase, arrived, early, pending>>
  BY DEF Microtask, Queue
<1>3. PICK s, r : s = q /\ r = runWebSocketUp(q)
  OBVIOUS
<1>4. Keeps(s, r) /\ r.flight = NoFlight
  BY <1>1, <1>3, RunWebSocketUpKeeps
<1> QED
  BY <1>1, <1>2, <1>3, <1>4, KeepsStep

LEMMA TimerStep ==
  ASSUME PageInv, TimerFires
  PROVE  PageInv'
<1>1. /\ ~closed /\ q \in Queues /\ mode = "websocket" /\ q.flight = NoFlight
      /\ q.micro \in BOOLEAN
  BY Parts DEF PageInv, PageTyped, Quiescent, TimerFires, Idle
<1>2. /\ q' = runWebSocketUp([q EXCEPT !.timer = FALSE]) /\ closed' = q'.failed
      /\ UNCHANGED <<mode, phase, arrived, early, pending>>
  BY DEF TimerFires, Queue
<1>3. PICK s, p, r : s = q /\ p = [q EXCEPT !.timer = FALSE] /\ r = q'
  OBVIOUS
<1>5. Keeps(s, p) /\ p \in Queues /\ p.flight = NoFlight
  <2>1. /\ p \in Queues /\ p.up = s.up /\ p.items = s.items /\ p.bytes = s.bytes
        /\ p.flight = s.flight /\ p.sent = s.sent /\ p.buffered = s.buffered
        /\ p.failed = s.failed
    BY <1>1, <1>3 DEF Queues
  <2>2. Contents(p) = Contents(s) /\ Waiting(p) = Waiting(s) /\ Units(p) = Units(s)
    BY <2>1 DEF Contents, Waiting, Units
  <2>3. s \in Queues
    BY <1>1, <1>3
  <2>4. Keeps(s, p)
    BY <2>1, <2>2, <2>3, SameKeeps
  <2> QED
    BY <1>1, <1>3, <2>1, <2>4
<1>6. r = runWebSocketUp(p)
  BY <1>2, <1>3
<1>7. Keeps(p, r) /\ r.flight = NoFlight
  BY <1>5, <1>6, RunWebSocketUpKeeps
<1>8. Keeps(s, r)
  BY <1>1, <1>3, <1>5, <1>7, KeepsOn
<1> QED
  BY <1>1, <1>2, <1>3, <1>7, <1>8, KeepsStep

\* A reserve has failed: the page closes.
LEMMA FailedStep ==
  ASSUME PageInv, ~closed, closed' = TRUE,
         q' \in Queues, q'.bytes + q'.buffered <= QueueLimit,
         mode # "https" => q'.flight = NoFlight,
         mode # "websocket" => ~q'.timer /\ ~q'.micro,
         pending' \in Lists(Nat), phase = "done" => pending' = <<>>,
         arrived' \in Nat, early' \in BOOLEAN, UNCHANGED <<mode, phase>>
  PROVE  PageInv'
<1>1. PageTyped'
  BY DEF PageInv, PageTyped
<1>2. Quiescent'
  BY DEF Quiescent
<1>3. BytesBounded'
  BY DEF BytesBounded
<1> QED
  BY <1>1, <1>2, <1>3 DEF PageInv

\* A message has been taken, or moved: the accounts are right again.
LEMMA RightStep ==
  ASSUME PageInv, ~closed, closed' = FALSE,
         q' \in Queues, ~q'.failed, q'.bytes + q'.buffered <= QueueLimit,
         mode # "https" => q'.flight = NoFlight,
         mode # "websocket" => ~q'.timer /\ ~q'.micro,
         pending' \in Lists(Nat), phase = "done" => pending' = <<>>,
         arrived' \in Nat, early' \in BOOLEAN, UNCHANGED <<mode, phase>>,
         Right(q', pending', arrived', early')
  PROVE  PageInv'
<1>1. PageTyped'
  BY DEF PageInv, PageTyped
<1>2. Quiescent'
  BY DEF Quiescent
<1>3. BytesBounded'
  BY DEF BytesBounded
<1> QED
  BY <1>1, <1>2, <1>3 DEF PageInv

LEMMA NextItemAfter ==
  ASSUME PageInv, NEW n \in 1 .. MaxItem
  PROVE  /\ NextItem(n) = After(arrived, n) /\ NextItem(n) \in Bodies
         /\ Len(NextItem(n)) = n /\ n \in Nat /\ arrived \in Nat /\ arrived + n \in Nat
<1>1. arrived \in Nat /\ n \in Nat
  BY PageAssumption DEF PageInv, PageTyped
<1>2. NextItem(n) = After(arrived, n)
  BY DEF NextItem, After
<1> QED
  BY <1>1, <1>2, AfterTyped DEF Bodies

\* What an action that lets the page take a message may rely on.
LEMMA Ready ==
  ASSUME PageInv, ~closed
  PROVE  /\ q \in Queues /\ q.failed = FALSE /\ pending \in Lists(Nat)
         /\ q.bytes \in Int /\ q.items \in Int /\ q.buffered \in Nat
         /\ q.bytes + q.buffered <= QueueLimit
         /\ Right(q, pending, arrived, early) /\ early \in BOOLEAN
         /\ mode # "https" => q.flight = NoFlight
         /\ mode # "websocket" => ~q.timer /\ ~q.micro
         /\ phase = "done" => pending = <<>>
<1>1. q \in Queues /\ ~q.failed
  BY DEF PageInv, PageTyped, Quiescent
<1>2. q.bytes \in Int /\ q.items \in Int /\ q.buffered \in Nat /\ q.failed \in BOOLEAN
  BY <1>1, Parts
<1> QED
  BY <1>1, <1>2 DEF PageInv, PageTyped, Quiescent, BytesBounded

LEMMA MessageWaitsStep ==
  ASSUME PageInv, NEW n \in 1 .. MaxItem, MessageWaits(n)
  PROVE  PageInv'
<1>1. ~closed /\ phase = "posting"
  BY DEF MessageWaits, Idle
<1>2. PICK data, total : data = NextItem(n) /\ total = arrived + n
  OBVIOUS
<1>3. /\ data = After(arrived, n) /\ data \in Bodies /\ Len(data) = n
      /\ n \in Nat /\ arrived \in Nat /\ total \in Nat
  BY <1>2, NextItemAfter
<1>4. PICK s, r : s = q /\ r = q'
  OBVIOUS
<1>5. /\ r = reserve(s, data) /\ closed' = r.failed /\ arrived' = total
      /\ pending' = (IF closed' THEN pending ELSE Append(pending, data))
      /\ UNCHANGED <<mode, phase, early>>
  BY <1>2, <1>4 DEF MessageWaits, Queue
<1>6. s \in Queues /\ s.failed = FALSE
  BY <1>1, <1>4, Ready
<1>7. CASE ~HasRoom(s, data)
  <2>1. r = Counted(s, s.bytes, s.items, TRUE)
    BY <1>3, <1>5, <1>6, <1>7, ReserveCounts
  <2>2. Fails(s, r)
    BY <1>6, <2>1 DEF Fails, Counted, Queues
  <2>3. closed' = TRUE /\ r \in Queues /\ r.bytes = q.bytes /\ r.buffered = q.buffered
        /\ r.flight = q.flight /\ r.timer = q.timer /\ r.micro = q.micro
    BY <1>4, <1>5, <1>6, <2>2, Parts DEF Fails
  <2>4. pending' = pending
    BY <1>5, <2>3
  <2> QED
    BY <1>1, <1>3, <1>4, <1>5, <2>3, <2>4, Ready, FailedStep
<1>8. CASE HasRoom(s, data)
  <2>1. r = Counted(s, s.bytes + Len(data), s.items + 1, FALSE)
        /\ s.bytes + Len(data) + s.buffered <= QueueLimit
    BY <1>3, <1>5, <1>6, <1>8, ReserveCounts
  <2>2. PICK bytes, items : bytes = s.bytes + n /\ items = s.items + 1
    OBVIOUS
  <2>3. Recounts(s, r, bytes, items)
    BY <1>3, <1>6, <2>1, <2>2, Parts DEF Recounts
  <2>4. /\ r \in Queues /\ r.bytes = bytes /\ r.flight = s.flight
        /\ r.timer = s.timer /\ r.micro = s.micro /\ r.buffered = s.buffered
    BY <1>6, <2>3, Recounted
  <2>5. r.failed = FALSE
    BY <1>6, <2>1 DEF Counted, Queues
  <2>6. closed' = FALSE /\ pending' = Append(pending, After(arrived, n))
    BY <1>3, <1>5, <2>5
  <2>7. r.bytes + r.buffered <= QueueLimit
    BY <1>3, <2>1, <2>2, <2>4
  <2>8. PICK waiting, old : waiting = pending /\ old = arrived
    OBVIOUS
  <2>9. Right(s, waiting, old, early) /\ waiting \in Lists(Nat) /\ total = old + n
    BY <1>1, <1>2, <1>4, <2>8, Ready
  <2>10. /\ Append(waiting, After(old, n)) \in Lists(Nat)
         /\ Right(r, Append(waiting, After(old, n)), total, early)
    BY <1>3, <1>6, <2>2, <2>3, <2>8, <2>9, WaitsRight
  <2>11. pending' \in Lists(Nat) /\ Right(q', pending', arrived', early')
    BY <1>4, <1>5, <2>6, <2>8, <2>10
  <2>12. q' \in Queues /\ ~q'.failed /\ q'.bytes + q'.buffered <= QueueLimit
         /\ q'.flight = q.flight /\ q'.timer = q.timer /\ q'.micro = q.micro
    BY <1>4, <2>4, <2>5, <2>7
  <2> QED
    BY <1>1, <1>3, <1>5, <2>6, <2>11, <2>12, Ready, RightStep
<1> QED
  BY <1>7, <1>8

LEMMA MessageQueuedStep ==
  ASSUME PageInv, mode # "websocket-lanes", NEW n \in 1 .. MaxItem, MessageQueued(n)
  PROVE  PageInv'
<1>1. ~closed /\ ~q.micro
  BY DEF MessageQueued, Idle
<1>2. PICK data, total : data = NextItem(n) /\ total = arrived + n
  OBVIOUS
<1>3. /\ data = After(arrived, n) /\ data \in Bodies
      /\ n \in Nat /\ arrived \in Nat /\ total \in Nat
  BY <1>2, NextItemAfter
<1>4. PICK s, r : s = q /\ r = q'
  OBVIOUS
<1>5. /\ r = queueCarrier(s, data) /\ closed' = r.failed /\ arrived' = total
      /\ early' = (early \/ phase # "done")
      /\ UNCHANGED <<mode, phase, pending>>
  BY <1>2, <1>4 DEF MessageQueued, Queue
<1>6. /\ s \in Queues /\ s.failed = FALSE /\ (mode # "https" => s.flight = NoFlight)
      /\ (mode # "websocket" => ~s.timer /\ ~s.micro)
  BY <1>1, <1>4, Ready
<1>7. Serves(s, r, data)
  BY <1>3, <1>5, <1>6, QueueCarrierServes
<1>8. mode \in {"https", "websocket", "websocket-lanes"}
  BY DEF PageInv, PageTyped
<1>9. /\ mode # "https" => r.flight = NoFlight
      /\ mode = "https" => ~r.timer /\ ~r.micro
  BY <1>6, <1>7 DEF Serves
<1>10. mode # "websocket" => ~r.timer /\ ~r.micro
  BY <1>8, <1>9
<1>11. /\ pending \in Lists(Nat) /\ early \in BOOLEAN /\ early' \in BOOLEAN
       /\ phase = "done" => pending = <<>>
  BY <1>1, <1>5, Ready
<1>12. CASE Fails(s, r)
  <2>1. closed' = TRUE /\ r \in Queues /\ r.bytes + r.buffered <= QueueLimit
    <3>1. r.bytes = q.bytes /\ r.buffered = q.buffered /\ r \in Queues /\ r.failed
      BY <1>4, <1>12 DEF Fails
    <3>2. r.failed \in BOOLEAN
      BY <3>1, Parts
    <3> QED
      BY <1>1, <1>5, <3>1, <3>2, Ready
  <2> QED
    BY <1>1, <1>3, <1>4, <1>5, <1>9, <1>10, <1>11, <2>1, FailedStep
<1>13. CASE Takes(s, r, data)
  <2>1. /\ r \in Queues /\ r.failed = FALSE /\ closed' = FALSE
        /\ r.bytes + r.buffered <= QueueLimit
    BY <1>5, <1>13 DEF Takes
  <2>2. PICK waiting, old, loose, more :
          waiting = pending /\ old = arrived /\ loose = early /\ more = early'
    OBVIOUS
  <2>3. Right(s, waiting, old, loose) /\ waiting \in Lists(Nat) /\ total = old + n
    BY <1>1, <1>2, <1>4, <2>2, Ready
  <2>4. ~more => ~loose /\ waiting = <<>>
    BY <1>5, <1>11, <2>2
  <2>5. Takes(s, r, After(old, n)) /\ old \in Nat
    BY <1>3, <1>13, <2>2
  <2>6. Right(r, waiting, total, more)
    BY <1>3, <1>6, <2>3, <2>4, <2>5, TakesRight
  <2>7. Right(q', pending', arrived', early')
    BY <1>4, <1>5, <2>2, <2>6
  <2> QED
    BY <1>1, <1>3, <1>4, <1>5, <1>9, <1>10, <1>11, <2>1, <2>7, RightStep
<1> QED
  BY <1>7, <1>12, <1>13 DEF Serves

LEMMA DrainStep ==
  ASSUME PageInv, mode # "websocket-lanes", Drain
  PROVE  PageInv'
<1>1. ~closed /\ phase = "drain" /\ pending # <<>>
  BY DEF Drain
<1>2. PICK s, waiting, p, r, data : /\ s = q /\ waiting = pending /\ r = q'
        /\ data = Head(waiting) /\ p = release(s, Len(data), 1)
  OBVIOUS
<1>3. /\ r = queueCarrier(p, data) /\ closed' = r.failed /\ pending' = Tail(waiting)
      /\ UNCHANGED <<mode, phase, arrived, early>>
  BY <1>2 DEF Drain, Queue
<1>4. /\ s \in Queues /\ s.failed = FALSE /\ waiting \in Lists(Nat) /\ waiting # <<>>
      /\ Right(s, waiting, arrived, early)
      /\ (mode # "https" => s.flight = NoFlight)
      /\ (mode # "websocket" => ~s.timer /\ ~s.micro)
  BY <1>1, <1>2, Ready
<1>5. data \in Bodies /\ Len(data) \in Nat /\ Tail(waiting) \in Lists(Nat)
  BY <1>2, <1>4, JoinHead, LenProperties DEF Bodies
<1>6. /\ p \in Queues /\ p.failed = FALSE /\ p.flight = s.flight
      /\ p.timer = s.timer /\ p.micro = s.micro
      /\ p.bytes + p.buffered <= QueueLimit
  <2>1. PICK bytes, items : bytes = s.bytes - Len(data) /\ items = s.items - 1
    OBVIOUS
  <2>2. Recounts(s, p, bytes, items)
    <3>1. s.bytes \in Int /\ s.items \in Int
      BY <1>4, Parts
    <3>2. bytes \in Int /\ items \in Int
      BY <1>5, <2>1, <3>1
    <3>3. p = Counted(s, s.bytes - Len(data), s.items - 1, FALSE)
      BY <1>2, <1>4, ReleaseCounts
    <3> QED
      BY <2>1, <3>2, <3>3 DEF Recounts
  <2>3. /\ p \in Queues /\ p.bytes = bytes /\ p.flight = s.flight
        /\ p.timer = s.timer /\ p.micro = s.micro /\ p.buffered = s.buffered
    BY <1>4, <2>2, Recounted
  <2>4. p.failed = FALSE
    BY <1>4, <2>2 DEF Recounts, Counted, Queues
  <2>5. s.bytes \in Int /\ s.buffered \in Nat /\ s.bytes + s.buffered <= QueueLimit
    BY <1>1, <1>2, Ready
  <2>6. (s.bytes - Len(data)) + s.buffered <= QueueLimit
    BY <1>5, <2>5, PageAssumption
  <2> QED
    BY <2>1, <2>3, <2>4, <2>6
<1>7. Serves(p, r, data)
  BY <1>3, <1>4, <1>5, <1>6, QueueCarrierServes
<1>8. mode \in {"https", "websocket", "websocket-lanes"} /\ arrived \in Nat /\ early \in BOOLEAN
  BY DEF PageInv, PageTyped
<1>9. /\ mode # "https" => r.flight = NoFlight
      /\ mode = "https" => ~r.timer /\ ~r.micro
  BY <1>4, <1>6, <1>7 DEF Serves
<1>10. mode # "websocket" => ~r.timer /\ ~r.micro
  BY <1>8, <1>9
<1>11. CASE Fails(p, r)
  <2>1. closed' = TRUE /\ r \in Queues /\ r.bytes + r.buffered <= QueueLimit
    <3>1. r.bytes = p.bytes /\ r.buffered = p.buffered /\ r \in Queues /\ r.failed
      BY <1>11 DEF Fails
    <3>2. r.failed \in BOOLEAN
      BY <3>1, Parts
    <3> QED
      BY <1>3, <1>6, <3>1, <3>2
  <2> QED
    BY <1>1, <1>2, <1>3, <1>5, <1>8, <1>9, <1>10, <2>1, FailedStep
<1>12. CASE Takes(p, r, data)
  <2>1. /\ r \in Queues /\ r.failed = FALSE /\ closed' = FALSE
        /\ r.bytes + r.buffered <= QueueLimit
    BY <1>3, <1>12 DEF Takes
  <2>2. PICK old, loose : old = arrived /\ loose = early
    OBVIOUS
  <2>3. Right(s, waiting, old, loose)
    BY <1>4, <2>2
  <2>4. p = release(s, Len(Head(waiting)), 1) /\ Takes(p, r, Head(waiting))
    BY <1>2, <1>12
  <2>5. Right(r, Tail(waiting), old, loose)
    BY <1>4, <2>3, <2>4, DrainRight
  <2>6. Right(q', pending', arrived', early')
    BY <1>2, <1>3, <2>2, <2>5
  <2> QED
    BY <1>1, <1>2, <1>3, <1>5, <1>8, <1>9, <1>10, <2>1, <2>6, RightStep
<1> QED
  BY <1>7, <1>11, <1>12 DEF Serves

\* Every step of the page in these carriers keeps its invariant.
LEMMA PageStep ==
  ASSUME PageInv, mode # "websocket-lanes", PNext
  PROVE  PageInv'
<1>1. ASSUME FirstMessage \/ TokenArrives \/ OpenSocket \/ Connected \/ Drained \/ Close
      PROVE  PageInv'
  <2>1. /\ phase' \in Phases
        /\ phase' = "done" => (pending = <<>> \/ phase = "done")
        /\ closed' \in BOOLEAN
        /\ closed => closed'
        /\ UNCHANGED <<mode, arrived, early, pending, q>>
    BY <1>1 DEF FirstMessage, TokenArrives, OpenSocket, Connected, Drained, Close, Idle,
                Phases, PageInv, PageTyped
  <2> QED
    BY <2>1, PhaseStep
<1>2. ASSUME NEW n \in 1 .. MaxItem, MessageWaits(n) \/ MessageQueued(n)
      PROVE  PageInv'
  BY <1>2, MessageWaitsStep, MessageQueuedStep
<1>3. ASSUME Drain PROVE PageInv'
  BY <1>3, DrainStep
<1>4. ASSUME Microtask \/ Acked \/ SocketDrains \/ TimerFires
      PROVE  PageInv'
  BY <1>4, MicrotaskStep, AckedStep, SocketDrainsStep, TimerStep
<1> QED
  BY <1>1, <1>2, <1>3, <1>4 DEF PNext, Create

LEMMA PageStutter ==
  ASSUME PageInv, UNCHANGED pvars
  PROVE  PageInv'
BY DEF pvars, PageInv, PageTyped, Quiescent, BytesBounded

-----------------------------------------------------------------------------
(* Sequences of numbers *)

LEMMA NumbersAssociate ==
  ASSUME NEW a \in Seq(Nat), NEW b \in Seq(Nat), NEW c \in Seq(Nat)
  PROVE  (a \o b) \o c = a \o (b \o c)
BY ConcatAssociative

-----------------------------------------------------------------------------
(* The carriers of one queue *)

\* The lanes leave the one queue alone; the page may close.
LEMMA LaneSame ==
  ASSUME PageInv, Same, closed' = TRUE \/ closed' = closed
  PROVE  PageInv'
<1>1. /\ phase' \in Phases /\ closed' \in BOOLEAN /\ (closed => closed')
      /\ phase' = "done" => (pending = <<>> \/ phase = "done")
      /\ UNCHANGED <<mode, arrived, early, pending, q>>
  BY DEF Same, PageInv, PageTyped
<1> QED
  BY <1>1, PhaseStep

LEMMA PageKept ==
  ASSUME PageInv, [LNext]_allvars
  PROVE  PageInv'
<1>1. CASE Base(PNext)
  BY <1>1, PageStep DEF Base
<1>2. ASSUME Same, NEW i \in LaneIds, NEW ty, queueWebSocketLane(ty, i)
      PROVE  PageInv'
  <2>1. closed' = TRUE \/ closed' = closed
    BY <1>2 DEF queueWebSocketLane, Fail, Enter
  <2> QED
    BY <1>2, <2>1, LaneSame
<1>3. ASSUME Same, NEW i \in LaneIds, Socket(i)
      PROVE  PageInv'
  <2>1. closed' = TRUE \/ closed' = closed
    BY <1>3 DEF Socket, SocketOpens, SocketEnds, LaneDrains, LaneTimer, RelayClose,
                CrossLane, OnClose, Fail
  <2> QED
    BY <1>3, <2>1, LaneSame
<1>4. CASE CloseLanes /\ Same
  BY <1>4, LaneSame DEF CloseLanes, Fail
<1>5. CASE UNCHANGED allvars
  BY <1>5, PageStutter DEF allvars
<1> QED
  BY <1>1, <1>2, <1>3, <1>4, <1>5 DEF LNext

LEMMA PageAlways ==
  LSpec => []PageInv
<1>1. LInit => PageInv
  BY PageStart DEF LInit
<1>2. PageInv /\ [LNext]_allvars => PageInv'
  BY PageKept
<1> QED
  BY <1>1, <1>2, PTL DEF LSpec

\* queuedBytes and queuedItems count exactly what waits or is under way
\* (reserve, release, joinPending, runUp, runWebSocketUp).
THEOREM QueueCounts == LSpec => []Accounted
<1>1. PageInv => Accounted
  BY PageSound
<1> QED
  BY <1>1, PageAlways, PTL

\* No frame is lost or doubled in the queue, and the frames leave in the order
\* posted, but for those that overtake pending (createSession).
THEOREM FramesInOrder == LSpec => []OnceInOrder
<1>1. PageInv => OnceInOrder
  BY PageSound
<1> QED
  BY <1>1, PageAlways, PTL

-----------------------------------------------------------------------------
(* The items of the queue *)

\* A body under way is of one item at least, and releases it when it is
\* answered: with it there may be one item more than the limit.
Within(s) ==
  /\ s.flight # NoFlight => s.flight.count >= 1
  /\ s.items <= ItemLimit + (IF s.flight = NoFlight THEN 0 ELSE 1)

\* The next body takes one item at least, and cutting a message makes one.
LEMMA CutItems ==
  ASSUME NEW s \in Queues, s.up # <<>>
  PROVE  joinPending(s).count >= 1 /\ joinPending(s).left.items <= s.items + 1
<1>1. PICK b : b = joinPending(s)
  OBVIOUS
<1>2. s.items \in Int /\ s.up \in Lists(Nat) /\ Len(s.up) \in Nat
  BY Parts
<1>3. CASE Len(s.up[1]) > BatchLimit
  <2>1. b = SplitFirst(s)
    BY <1>1, <1>3 DEF joinPending
  <2>2. b.count = 1 /\ b.left.items = s.items + 1
    BY <2>1 DEF SplitFirst, Queues
  <2> QED
    BY <1>1, <1>2, <2>2
<1>4. CASE ~(Len(s.up[1]) > BatchLimit)
  <2>1. Len(s.up[1]) <= BatchLimit
    <3>1. s.up[1] \in Seq(Nat)
      BY <1>2, EmptySeq DEF Lists
    <3> QED
      BY <1>4, <3>1, LenProperties, PageAssumption
  <2>2. PICK n : n = Fitting(s)
    OBVIOUS
  <2>3. n \in 1 .. Len(s.up)
    BY <2>1, <2>2, FittingSome
  <2>4. b.count = n /\ b.left = [s EXCEPT !.up = SubSeq(@, n + 1, Len(@))]
    BY <1>1, <1>4, <2>2 DEF joinPending
  <2>5. b.left.items = s.items
    BY <2>4 DEF Queues
  <2> QED
    BY <1>1, <1>2, <2>3, <2>4, <2>5
<1> QED
  BY <1>3, <1>4

LEMMA RunUpWithin ==
  ASSUME NEW s \in Queues, Within(s)
  PROVE  Within(runUp(s))
<1>1. CASE s.flight # NoFlight \/ s.up = <<>>
  BY <1>1 DEF runUp
<1>2. CASE s.flight = NoFlight /\ s.up # <<>>
  <2>1. PICK b : b = joinPending(s)
    OBVIOUS
  <2>2. Cuts(s, b) /\ b.count >= 1 /\ b.left.items <= s.items + 1
    BY <1>2, <2>1, JoinPendingCuts, CutItems
  <2>3. PICK flight, r : /\ flight = [body |-> b.body, count |-> b.count]
                         /\ r = [b.left EXCEPT !.flight = flight] /\ r = Flown(b.left, flight)
    BY DEF Flown
  <2>4. runUp(s) = r
    BY <1>2, <2>1, <2>3 DEF runUp
  <2>5. /\ flight \in [body : Bodies, count : Nat] /\ flight.count = b.count
        /\ b.left \in Queues /\ b.count \in Nat
    BY <2>2, <2>3 DEF Cuts
  <2>6. r.flight = flight /\ r.items = b.left.items
    BY <2>3, <2>5, FlownParts
  <2>7. flight # NoFlight
    BY <2>2, <2>5, NoFlightParts
  <2>8. s.items \in Int /\ b.left.items \in Int /\ s.items <= ItemLimit
    <3>1. s.items <= ItemLimit + 0
      BY <1>2 DEF Within
    <3> QED
      BY <2>5, <3>1, Parts, PageAssumption
  <2>9. r.items <= ItemLimit + 1
    BY <2>2, <2>6, <2>8, PageAssumption
  <2> QED
    BY <2>2, <2>4, <2>5, <2>6, <2>7, <2>9 DEF Within
<1> QED
  BY <1>1, <1>2

LEMMA RunWebSocketUpWithin ==
  ASSUME NEW s \in Queues, s.flight = NoFlight, Within(s)
  PROVE  Within(runWebSocketUp(s))
<1>1. PICK r : r = runWebSocketUp(s)
  OBVIOUS
<1>2. r.flight = NoFlight
  BY <1>1, RunWebSocketUpKeeps
<1>3. s.items \in Int /\ s.items <= ItemLimit /\ ItemLimit \in Nat
  <2>1. s.items <= ItemLimit + 0
    BY DEF Within
  <2> QED
    BY <2>1, Parts, PageAssumption
<1>4. r.items <= ItemLimit
  <2>1. CASE ~Open \/ s.up = <<>> \/ Backpressure(s)
    <3>1. r.items = s.items
      BY <1>1, <2>1 DEF runWebSocketUp, Queues
    <3> QED
      BY <1>3, <3>1
  <2>2. CASE ~(~Open \/ s.up = <<>> \/ Backpressure(s))
    <3>1. PICK b : b = joinPending(s)
      OBVIOUS
    <3>2. Cuts(s, b) /\ b.count >= 1 /\ b.left.items <= s.items + 1
      BY <2>2, <3>1, JoinPendingCuts, CutItems
    <3>3. r = Taken(b)
      BY <1>1, <2>2, <3>1 DEF runWebSocketUp, Taken
    <3>4. r.items = b.left.items - b.count
      BY <3>2, <3>3, TakenParts
    <3>5. b.left.items \in Int /\ b.count \in Nat
      <4>1. b.left \in Queues /\ b.count \in Nat
        BY <3>2 DEF Cuts
      <4> QED
        BY <4>1, Parts
    <3> QED
      BY <1>3, <3>2, <3>4, <3>5
  <2> QED
    BY <2>1, <2>2
<1> QED
  BY <1>1, <1>2, <1>3, <1>4 DEF Within

\* Room is reserved for one item below the limit only.
LEMMA OneMore ==
  ASSUME NEW s \in Queues, Within(s), NEW data, HasRoom(s, data)
  PROVE  s.items + 1 <= ItemLimit + (IF s.flight = NoFlight THEN 0 ELSE 1)
<1>1. s.items \in Int /\ s.items < ItemLimit /\ ItemLimit \in Nat
  BY Parts, PageAssumption DEF HasRoom
<1>2. s.items + 1 <= ItemLimit + 0 /\ s.items + 1 <= ItemLimit + 1
  BY <1>1
<1> QED
  BY <1>2

\* The same body under way, and no more items than are allowed with it.
LEMMA WithinSame ==
  ASSUME NEW s \in Queues, Within(s), NEW r, r.flight = s.flight,
         r.items <= ItemLimit + (IF s.flight = NoFlight THEN 0 ELSE 1)
  PROVE  Within(r)
  BY DEF Within

LEMMA ReserveWithin ==
  ASSUME NEW s \in Queues, s.failed = FALSE, Within(s), NEW data \in Bodies
  PROVE  Within(reserve(s, data))
<1>1. PICK r : r = reserve(s, data)
  OBVIOUS
<1>2. CASE HasRoom(s, data)
  <2>1. r.flight = s.flight /\ r.items = s.items + 1
    BY <1>1, <1>2 DEF reserve, Queues
  <2> QED
    BY <1>1, <1>2, <2>1, OneMore, WithinSame
<1>3. CASE ~HasRoom(s, data)
  <2>1. r.flight = s.flight /\ r.items = s.items
    BY <1>1, <1>3 DEF reserve, Queues
  <2> QED
    BY <1>1, <2>1 DEF Within
<1> QED
  BY <1>2, <1>3

LEMMA QueueCarrierWithin ==
  ASSUME NEW s \in Queues, s.failed = FALSE, Within(s), NEW data \in Bodies,
         mode # "https" => s.flight = NoFlight
  PROVE  Within(queueCarrier(s, data))
<1>1. PICK r, c : r = queueCarrier(s, data) /\ c = reserve(s, data)
  OBVIOUS
<1>2. s.bytes \in Int /\ s.items \in Int /\ Len(data) \in Nat
  BY Parts, ReserveCounts
<1>3. CASE ~HasRoom(s, data)
  <2>1. c.failed
    BY <1>1, <1>3 DEF reserve, Queues
  <2> QED
    BY <1>1, <2>1, ReserveWithin DEF queueCarrier
<1>4. CASE HasRoom(s, data)
  <2>1. PICK p : p = Pushed(s, data)
    OBVIOUS
  <2>2. p \in Queues /\ p.flight = s.flight /\ p.items = s.items + 1
    BY <1>4, <2>1, PushedTakes DEF Takes, Pushed, Queues
  <2>3. Within(p)
    BY <1>4, <2>2, OneMore, WithinSame
  <2>4. r = IF mode = "https" THEN runUp(p) ELSE runWebSocketUp(p)
    <3>1. c = Counted(s, s.bytes + Len(data), s.items + 1, FALSE)
      BY <1>1, <1>4, ReserveCounts
    <3>2. s.bytes + Len(data) \in Int /\ s.items + 1 \in Int
      BY <1>2
    <3>3. c.failed = FALSE
      BY <3>1, <3>2, CountedParts
    <3>4. [c EXCEPT !.up = Append(@, data)] = p
      BY <2>1, <3>1 DEF Counted, Pushed, Queues
    <3> QED
      BY <1>1, <3>3, <3>4 DEF queueCarrier
  <2>5. CASE mode = "https"
    BY <1>1, <2>2, <2>3, <2>4, <2>5, RunUpWithin
  <2>6. CASE mode # "https"
    BY <1>1, <2>2, <2>3, <2>4, <2>6, RunWebSocketUpWithin
  <2> QED
    BY <2>5, <2>6
<1> QED
  BY <1>3, <1>4

\* Every step of the page in the carriers of one queue keeps it.
LEMMA WithinStep ==
  ASSUME PageInv, Within(q), mode # "websocket-lanes", PNext
  PROVE  Within(q')
<1>1. CASE q' = q
  BY <1>1
<1>2. PICK s \in Queues : s = q
  BY DEF PageInv, PageTyped
<1>3. s.items \in Int /\ s.flight.count \in Nat /\ s.micro \in BOOLEAN /\ ItemLimit \in Nat
  BY Parts, PageAssumption
<1>4. ASSUME NEW n \in 1 .. MaxItem, MessageWaits(n) PROVE Within(q')
  <2>1. ~closed /\ q' = reserve(q, NextItem(n)) /\ NextItem(n) \in Bodies
    BY <1>4, NextItemAfter DEF MessageWaits, Queue, Idle
  <2> QED
    BY <1>2, <2>1, Ready, ReserveWithin
<1>5. ASSUME NEW n \in 1 .. MaxItem, MessageQueued(n) PROVE Within(q')
  <2>1. ~closed /\ q' = queueCarrier(q, NextItem(n)) /\ NextItem(n) \in Bodies
    BY <1>5, NextItemAfter DEF MessageQueued, Queue, Idle
  <2> QED
    BY <1>2, <2>1, Ready, QueueCarrierWithin
<1>6. ASSUME Drain PROVE Within(q')
  <2>1. PICK data, p : data = Head(pending) /\ p = release(s, Len(data), 1)
    OBVIOUS
  <2>2. ~closed /\ pending # <<>> /\ q' = queueCarrier(p, data)
    BY <1>2, <1>6, <2>1 DEF Drain, Queue
  <2>3. s.failed = FALSE /\ pending \in Lists(Nat) /\ (mode # "https" => s.flight = NoFlight)
    BY <1>2, <2>2, Ready
  <2>4. data \in Bodies /\ Len(data) \in Nat /\ s.bytes \in Int
    BY <2>1, <2>2, <2>3, JoinHead, LenProperties, Parts DEF Bodies
  <2>5. s.bytes - Len(data) \in Int /\ s.items - 1 \in Int
    BY <1>3, <2>4
  <2>6. p = Counted(s, s.bytes - Len(data), s.items - 1, FALSE)
    BY <2>1, <2>3, ReleaseCounts
  <2>7. p \in Queues /\ p.failed = FALSE /\ p.flight = s.flight /\ p.items = s.items - 1
    <3>1. PICK bytes, items : bytes = s.bytes - Len(data) /\ items = s.items - 1
      OBVIOUS
    <3>2. Recounts(s, p, bytes, items)
      BY <2>5, <2>6, <3>1 DEF Recounts
    <3>3. p \in Queues /\ p.flight = s.flight
      BY <3>2, Recounted
    <3>4. p.failed = FALSE /\ p.items = items
      BY <3>2 DEF Recounts, Counted, Queues
    <3> QED
      BY <3>1, <3>3, <3>4
  <2>8. Within(p)
    <3>1. s.items <= ItemLimit + (IF s.flight = NoFlight THEN 0 ELSE 1)
      BY <1>2 DEF Within
    <3>2. s.items - 1 <= ItemLimit + (IF s.flight = NoFlight THEN 0 ELSE 1)
      BY <1>3, <3>1
    <3> QED
      BY <1>2, <2>7, <3>2, WithinSame
  <2> QED
    BY <2>2, <2>3, <2>4, <2>7, <2>8, QueueCarrierWithin
<1>7. ASSUME Microtask PROVE Within(q')
  <2>1. q' = runWebSocketUp(q) /\ q.flight = NoFlight
    BY <1>7 DEF Microtask, Queue, PageInv, Quiescent
  <2> QED
    BY <1>2, <2>1, RunWebSocketUpWithin
<1>8. ASSUME Acked PROVE Within(q')
  <2>1. PICK p : p = Landed(s)
    OBVIOUS
  <2>2. q' = runUp(p) /\ s.flight # NoFlight
    BY <1>2, <1>8, <2>1 DEF Acked, Landed, release, Queues
  <2>3. p \in Queues /\ p.flight = NoFlight /\ p.items = s.items - s.flight.count
    BY <2>1, LandedKeeps DEF Keeps, Landed, Queues
  <2>4. s.flight.count >= 1 /\ s.items <= ItemLimit + 1
    BY <1>2, <2>2 DEF Within
  <2>5. p.items <= ItemLimit + 0
    BY <1>3, <2>3, <2>4
  <2>6. Within(p)
    BY <2>3, <2>5 DEF Within
  <2> QED
    BY <2>2, <2>3, <2>6, RunUpWithin
<1>9. ASSUME SocketDrains PROVE Within(q')
  <2>1. q'.flight = s.flight /\ q'.items = s.items
    BY <1>2, <1>9 DEF SocketDrains, Queues
  <2> QED
    BY <1>2, <2>1 DEF Within
<1>10. ASSUME TimerFires PROVE Within(q')
  <2>1. PICK p : p = [s EXCEPT !.timer = FALSE]
    OBVIOUS
  <2>2. q' = runWebSocketUp(p) /\ s.flight = NoFlight
    BY <1>2, <1>3, <1>10, <2>1 DEF TimerFires, Queue, PageInv, Quiescent
  <2>3. p \in Queues /\ p.flight = s.flight /\ p.items = s.items
    BY <2>1 DEF Queues
  <2>4. Within(p)
    BY <1>2, <2>3 DEF Within
  <2> QED
    BY <2>2, <2>3, <2>4, RunWebSocketUpWithin
<1> QED
  BY <1>1, <1>4, <1>5, <1>6, <1>7, <1>8, <1>9, <1>10
     DEF PNext, Create, FirstMessage, TokenArrives, OpenSocket, Connected, Drained, Close

LEMMA WithinAlways ==
  LSpec => []Within(q)
<1>1. LInit => Within(q)
  <2>1. EmptyQueue.flight = NoFlight /\ EmptyQueue.items = 0
    BY DEF EmptyQueue
  <2>2. Within(EmptyQueue)
    BY <2>1, PageAssumption DEF Within
  <2> QED
    BY <2>2 DEF LInit, PInit
<1>2. PageInv /\ Within(q) /\ [LNext]_allvars => Within(q)'
  <2> SUFFICES ASSUME PageInv, Within(q), [LNext]_allvars PROVE Within(q')
    BY DEF Within, NoFlight
  <2>1. CASE Base(PNext)
    BY <2>1, WithinStep DEF Base
  <2>2. CASE q' = q
    BY <2>2
  <2> QED
    BY <2>1, <2>2 DEF LNext, Same, allvars, pvars
<1> QED
  BY <1>1, <1>2, PageAlways, PTL DEF LSpec

\* What the page and its socket hold is within queueLimit, its items within
\* queueItemLimit but for the one a cut adds while its first part is under way
\* (reserve, joinPending).
THEOREM QueueBounded == LSpec => []Bounded
<1>1. PageInv /\ Within(q) => Bounded
  BY DEF PageInv, BytesBounded, Within, Bounded
<1> QED
  BY <1>1, PageAlways, WithinAlways, PTL

-----------------------------------------------------------------------------
(* Counting frames lane by lane *)

Heights(high) == [LaneIds -> 0 .. high]
Column(i, k) == {i} \X (1 .. k)
Held(f, high) == {p \in LaneIds \X (1 .. high) : p[2] <= f[p[1]]}
Others(f, high, i) == {p \in Held(f, high) : p[1] # i}

LEMMA ColumnCount ==
  ASSUME NEW i, NEW k \in Nat
  PROVE  IsFiniteSet(Column(i, k)) /\ Cardinality(Column(i, k)) = k
<1>1. PICK f : f = [n \in 1 .. k |-> <<i, n>>]
  OBVIOUS
<1>2. f \in [1 .. k -> Column(i, k)]
  BY <1>1 DEF Column
<1>3. \A a, b \in 1 .. k : f[a] = f[b] => a = b
  BY <1>1
<1>4. ASSUME NEW t \in Column(i, k)
      PROVE  \E n \in 1 .. k : f[n] = t
  <2>1. t[2] \in 1 .. k /\ t = <<i, t[2]>>
    BY DEF Column
  <2> QED
    BY <1>1, <2>1
<1>5. f \in Bijection(1 .. k, Column(i, k))
  BY <1>2, <1>3, <1>4, Fun_IsBij
<1>6. IsFiniteSet(1 .. k) /\ Cardinality(1 .. k) = k
  BY FS_Interval
<1>7. ExistsBijection(1 .. k, Column(i, k))
  BY <1>5 DEF ExistsBijection
<1> QED
  BY <1>6, <1>7, FS_Bijection

LEMMA HeldCount ==
  ASSUME NEW high \in Nat, NEW f \in Heights(high)
  PROVE  IsFiniteSet(Held(f, high)) /\ Cardinality(Held(f, high)) \in Nat
<1>1. IsFiniteSet(LaneIds) /\ IsFiniteSet(1 .. high)
  BY LanesAssumption, FS_Interval
<1>2. IsFiniteSet(LaneIds \X (1 .. high))
  BY <1>1, FS_Product
<1>3. Held(f, high) \in SUBSET (LaneIds \X (1 .. high))
  BY DEF Held
<1> QED
  BY <1>2, <1>3, FS_Subset, FS_CardinalityType

\* The frames of a lane and those of the others.
LEMMA HeldSplit ==
  ASSUME NEW high \in Nat, NEW f \in Heights(high), NEW i \in LaneIds
  PROVE  /\ f[i] \in 0 .. high
         /\ IsFiniteSet(Others(f, high, i)) /\ Cardinality(Others(f, high, i)) \in Nat
         /\ Cardinality(Held(f, high)) = Cardinality(Others(f, high, i)) + f[i]
<1>1. f[i] \in 0 .. high /\ f[i] \in Nat
  BY DEF Heights
<1>2. Others(f, high, i) \in SUBSET Held(f, high)
  BY DEF Others
<1>3. IsFiniteSet(Others(f, high, i)) /\ Cardinality(Others(f, high, i)) \in Nat
  BY <1>2, HeldCount, FS_Subset, FS_CardinalityType
<1>4. PICK k, a, b : k = f[i] /\ a = Others(f, high, i) /\ b = Column(i, k)
  OBVIOUS
<1>5. IsFiniteSet(b) /\ Cardinality(b) = k
  BY <1>1, <1>4, ColumnCount
<1>6. Held(f, high) = a \cup b
  <2>1. ASSUME NEW p \in Held(f, high)
        PROVE  p \in a \cup b
    <3>1. p \in LaneIds \X (1 .. high) /\ p[2] <= f[p[1]]
      BY DEF Held
    <3>2. CASE p[1] = i
      BY <1>1, <1>4, <3>1, <3>2 DEF Column
    <3>3. CASE p[1] # i
      BY <1>4, <3>3 DEF Others
    <3> QED
      BY <3>2, <3>3
  <2>2. ASSUME NEW p \in b
        PROVE  p \in Held(f, high)
    BY <1>1, <1>4 DEF Column, Held
  <2> QED
    BY <1>2, <1>4, <2>1, <2>2
<1>7. a \cap b = {}
  BY <1>4 DEF Others, Column
<1>8. Cardinality(a \cup b) = Cardinality(a) + Cardinality(b) - Cardinality(a \cap b)
  BY <1>3, <1>4, <1>5, FS_Union
<1>9. Cardinality(a \cap b) = 0
  BY <1>7, FS_EmptySet
<1>10. Cardinality(a \cup b) = Cardinality(a) + k
  BY <1>1, <1>3, <1>4, <1>5, <1>8, <1>9
<1> QED
  BY <1>1, <1>3, <1>4, <1>6, <1>10

\* One lane holds k frames now.
LEMMA HeldWith ==
  ASSUME NEW high \in Nat, NEW f \in Heights(high), NEW i \in LaneIds, NEW g \in Heights(high),
         \A j \in LaneIds : j # i => g[j] = f[j]
  PROVE  /\ Cardinality(Held(g, high)) = Cardinality(Held(f, high)) - f[i] + g[i]
         /\ f[i] <= Cardinality(Held(f, high))
         /\ f[i] \in Nat /\ g[i] \in Nat /\ g[i] <= high
         /\ Cardinality(Held(f, high)) \in Nat
<1>1. Others(g, high, i) = Others(f, high, i)
  BY DEF Others, Held
<1>2. PICK n, a, b : n = Cardinality(Others(f, high, i)) /\ a = f[i] /\ b = g[i]
  OBVIOUS
<1>3. /\ n \in Nat /\ a \in Nat /\ b \in Nat /\ b <= high
      /\ Cardinality(Held(f, high)) = n + a
  BY <1>2, HeldSplit
<1>4. Cardinality(Held(g, high)) = n + b
  BY <1>1, <1>2, HeldSplit
<1> QED
  BY <1>2, <1>3, <1>4

LEMMA HeldNone ==
  ASSUME NEW high \in Nat, NEW f \in Heights(high), \A i \in LaneIds : f[i] = 0
  PROVE  Cardinality(Held(f, high)) = 0
<1>1. Held(f, high) = {}
  BY DEF Held
<1> QED
  BY <1>1, FS_EmptySet

-----------------------------------------------------------------------------
(* A lane *)

LaneRecs ==
  [count : Nat, pending : Bodies, sent : Bodies, socket : {"connecting", "open", "gone"},
   buffered : Nat, timer : BOOLEAN, opened : BOOLEAN, localClosed : BOOLEAN,
   remoteClosed : BOOLEAN]
Voices == {"application", "relay", "page"}
Tellings == Seq(Voices)
Upto(n) == [k \in 1 .. n |-> k]

\* Lane l, of whose end t has been told: its socket buffers only while it is
\* open, it holds the frames posted into it in order, and its end is told once
\* one side has closed it, and not by the page.
Sound(l, t) ==
  /\ l \in LaneRecs
  /\ l.sent \o l.pending = Upto(l.count)
  /\ l.socket # "open" => l.buffered = 0
  /\ Len(l.pending) <= LaneLimit
  /\ (l.localClosed \/ l.remoteClosed) <=> t # <<>>
  /\ \A n \in 1 .. Len(t) : t[n] # "page"

\* The socket takes n frames of lane l, which becomes r.
Moves(l, r, n) ==
  /\ r \in LaneRecs /\ n \in Nat
  /\ r.sent \o r.pending = l.sent \o l.pending
  /\ Len(l.pending) = Len(r.pending) + n
  /\ r.buffered = l.buffered + n
  /\ l.socket # "open" => n = 0
  /\ r.count = l.count /\ r.socket = l.socket /\ r.opened = l.opened
  /\ r.localClosed = l.localClosed /\ r.remoteClosed = l.remoteClosed

LEMMA LaneParts ==
  ASSUME NEW l \in LaneRecs
  PROVE  /\ l.count \in Nat /\ l.pending \in Bodies /\ l.sent \in Bodies
         /\ l.socket \in {"connecting", "open", "gone"} /\ l.buffered \in Nat
         /\ l.timer \in BOOLEAN /\ l.opened \in BOOLEAN
         /\ l.localClosed \in BOOLEAN /\ l.remoteClosed \in BOOLEAN
         /\ Len(l.pending) \in Nat
<1>1. /\ l.count \in Nat /\ l.pending \in Bodies /\ l.sent \in Bodies
      /\ l.socket \in {"connecting", "open", "gone"} /\ l.buffered \in Nat
      /\ l.timer \in BOOLEAN /\ l.opened \in BOOLEAN
      /\ l.localClosed \in BOOLEAN /\ l.remoteClosed \in BOOLEAN
  BY DEF LaneRecs
<1> QED
  BY <1>1, LenProperties DEF Bodies

LEMMA LaneUpMoves ==
  ASSUME NEW l \in LaneRecs
  PROVE  Moves(l, LaneUp(l).lane, LaneUp(l).released)
<1>0. /\ l.buffered \in Nat /\ l.pending \in Seq(Nat) /\ l.sent \in Seq(Nat)
      /\ Len(l.pending) \in Nat /\ l.timer \in BOOLEAN
  BY LaneParts DEF Bodies
<1>1. CASE l.socket # "open" \/ l.pending = <<>>
  <2>1. LaneUp(l) = [lane |-> l, released |-> 0]
    BY <1>1 DEF LaneUp
  <2>2. LaneUp(l).lane = l /\ LaneUp(l).released = 0
    BY <2>1
  <2> QED
    BY <1>0, <2>2 DEF Moves
<1>2. CASE ~(l.socket # "open" \/ l.pending = <<>>) /\ l.buffered >= BatchLimit
  <2>1. PICK r : r = [l EXCEPT !.timer = TRUE]
    OBVIOUS
  <2>2. LaneUp(l) = [lane |-> r, released |-> 0]
    BY <1>2, <2>1 DEF LaneUp
  <2>3. LaneUp(l).lane = r /\ LaneUp(l).released = 0
    BY <2>2
  <2>4. /\ r \in LaneRecs /\ r.count = l.count /\ r.pending = l.pending /\ r.sent = l.sent
        /\ r.socket = l.socket /\ r.buffered = l.buffered /\ r.opened = l.opened
        /\ r.localClosed = l.localClosed /\ r.remoteClosed = l.remoteClosed
    BY <2>1 DEF LaneRecs
  <2>5. Moves(l, r, 0)
    BY <1>0, <2>4 DEF Moves
  <2> QED
    BY <2>3, <2>5
<1>3. CASE ~(l.socket # "open" \/ l.pending = <<>>) /\ ~(l.buffered >= BatchLimit)
  <2>1. PICK n : n = IF Len(l.pending) < BatchLimit THEN Len(l.pending) ELSE BatchLimit
    OBVIOUS
  <2>2. n \in 0 .. Len(l.pending) /\ n \in Nat
    BY <1>0, <2>1, PageAssumption
  <2>3. PICK front, rest, sent :
          /\ front = SubSeq(l.pending, 1, n) /\ rest = SubSeq(l.pending, n + 1, Len(l.pending))
          /\ sent = l.sent \o front
    OBVIOUS
  <2>4. /\ front \in Seq(Nat) /\ rest \in Seq(Nat) /\ Len(rest) = Len(l.pending) - n
    <3>1. \A k \in 1 .. n : l.pending[k] \in Nat
      BY <1>0, <2>2
    <3>2. \A k \in n + 1 .. Len(l.pending) : l.pending[k] \in Nat
      BY <1>0, <2>2
    <3>3. 1 \in Int /\ n \in Int /\ n + 1 \in Int /\ Len(l.pending) \in Int
      BY <1>0, <2>2
    <3>4. front \in Seq(Nat) /\ rest \in Seq(Nat)
      BY <2>3, <3>1, <3>2, <3>3, SubSeqProperties
    <3>5. Len(rest) = IF n + 1 <= Len(l.pending) THEN Len(l.pending) - (n + 1) + 1 ELSE 0
      BY <2>3, <3>2, <3>3, SubSeqProperties
    <3> QED
      BY <1>0, <2>2, <3>4, <3>5
  <2>5. front \o rest = l.pending
    <3>1. /\ 1 \in 1 .. Len(l.pending) + 1 /\ n \in 1 - 1 .. Len(l.pending)
          /\ Len(l.pending) \in n .. Len(l.pending)
      BY <1>0, <2>2
    <3>2. front \o rest = SubSeq(l.pending, 1, Len(l.pending))
      BY <1>0, <2>3, <3>1, ConcatAdjacentSubSeq
    <3> QED
      BY <1>0, <3>2, SubSeqFull
  <2>6. sent \in Seq(Nat)
    BY <1>0, <2>3, <2>4, ConcatProperties
  <2>7. sent \o rest = l.sent \o l.pending
    <3>1. (l.sent \o front) \o rest = l.sent \o (front \o rest)
      BY <1>0, <2>4, NumbersAssociate
    <3> QED
      BY <2>3, <2>5, <3>1
  <2>8. PICK timer \in BOOLEAN : timer = (l.timer \/ n < Len(l.pending))
    <3>1. (l.timer \/ n < Len(l.pending)) \in BOOLEAN
      OBVIOUS
    <3> QED
      BY <3>1
  <2>9. PICK r : r = [l EXCEPT !.pending = rest, !.sent = sent, !.buffered = l.buffered + n,
                               !.timer = timer]
    OBVIOUS
  <2>10. /\ r \in LaneRecs /\ r.count = l.count /\ r.pending = rest /\ r.sent = sent
         /\ r.socket = l.socket /\ r.buffered = l.buffered + n /\ r.opened = l.opened
         /\ r.localClosed = l.localClosed /\ r.remoteClosed = l.remoteClosed
    <3>1. l.buffered + n \in Nat
      BY <1>0, <2>2
    <3> QED
      BY <2>4, <2>6, <2>8, <2>9, <3>1 DEF LaneRecs, Bodies
  <2>11. LaneUp(l) = [released |-> n, lane |-> r]
    BY <1>3, <2>1, <2>3, <2>8, <2>9 DEF LaneUp, LaneRecs
  <2>12. LaneUp(l).lane = r /\ LaneUp(l).released = n
    BY <2>11
  <2>13. Len(l.pending) = Len(r.pending) + n
    BY <1>0, <2>2, <2>4, <2>10
  <2>14. Moves(l, r, n)
    BY <1>3, <2>2, <2>7, <2>10, <2>13 DEF Moves
  <2> QED
    BY <2>12, <2>14
<1> QED
  BY <1>1, <1>2, <1>3

\* What the socket takes leaves the lane sound.
LEMMA MovesSound ==
  ASSUME NEW l, NEW r, NEW n, NEW t, Sound(l, t), Moves(l, r, n)
  PROVE  Sound(r, t)
<1>1. l \in LaneRecs /\ r \in LaneRecs /\ n \in Nat
  BY DEF Sound, Moves
<1>2. PICK a, b : a = Len(l.pending) /\ b = Len(r.pending)
  OBVIOUS
<1>3. a \in Nat /\ b \in Nat /\ a = b + n /\ a <= LaneLimit
  BY <1>1, <1>2, LaneParts DEF Sound, Moves
<1>4. b <= LaneLimit
  BY <1>1, <1>3, LanesAssumption
<1>5. r.socket # "open" => r.buffered = 0
  BY <1>1, LaneParts DEF Sound, Moves
<1> QED
  BY <1>1, <1>2, <1>4, <1>5 DEF Sound, Moves

-----------------------------------------------------------------------------
(* The invariant of the lanes *)

Pending(ls) == [i \in LaneIds |-> IF i \in DOMAIN ls THEN Len(ls[i].pending) ELSE 0]
InSockets(ls) == [i \in LaneIds |-> IF i \in DOMAIN ls THEN ls[i].buffered ELSE 0]

LanesTyped ==
  /\ Live \subseteq LaneIds /\ lanes = [i \in Live |-> lanes[i]]
  /\ order \in Seq(LaneIds) /\ told \in [LaneIds -> Tellings]

\* A live lane is sound and has not been closed; of one that has been closed,
\* or was, the end is told; the page tells it first or not at all.
Ends ==
  /\ \A i \in Live : Sound(lanes[i], told[i]) /\ i \notin ClosedLanes
  /\ \A i \in ClosedLanes : told[i] # <<>>
  /\ \A i \in LaneIds : \A n \in 1 .. Len(told[i]) : told[i][n] = "page" => n = 1

\* No lane is remembered twice.
Remembered ==
  \A m, n \in 1 .. Len(order) : order[m] = order[n] => m = n

\* The page counts what its lanes hold, and the sockets stay within the limit.
Filled ==
  /\ InSockets(lanes) \in Heights(QueueLimit)
  /\ queued = Cardinality(Held(Pending(lanes), LaneLimit))
  /\ queued + Cardinality(Held(InSockets(lanes), QueueLimit)) <= QueueLimit

LanesInv == LanesTyped /\ Ends /\ Remembered /\ Filled

\* What the lanes hold has a size.
LEMMA PendingTyped ==
  ASSUME LanesInv
  PROVE  /\ Pending(lanes) \in Heights(LaneLimit) /\ queued \in Nat
         /\ \A i \in Live : i \in LaneIds /\ lanes[i] \in LaneRecs
<1>1. ASSUME NEW i \in Live
      PROVE  /\ i \in LaneIds /\ lanes[i] \in LaneRecs
             /\ Len(lanes[i].pending) \in 0 .. LaneLimit
  <2>1. Sound(lanes[i], told[i]) /\ i \in LaneIds
    BY DEF LanesInv, LanesTyped, Ends
  <2>2. lanes[i] \in LaneRecs /\ Len(lanes[i].pending) <= LaneLimit
    BY <2>1 DEF Sound
  <2>3. Len(lanes[i].pending) \in Nat
    BY <2>2, LaneParts
  <2> QED
    BY <2>1, <2>2, <2>3, LanesAssumption
<1>2. Pending(lanes) \in Heights(LaneLimit)
  BY <1>1, LanesAssumption DEF Pending, Heights, Live
<1>3. LaneLimit \in Nat
  BY LanesAssumption
<1>4. queued \in Nat
  BY <1>2, <1>3, HeldCount DEF LanesInv, Filled
<1> QED
  BY <1>1, <1>2, <1>4

LEMMA LanesStart ==
  LInit => LanesInv
<1> SUFFICES ASSUME LInit PROVE LanesInv
  OBVIOUS
<1>1. /\ lanes = [i \in {} |-> NewLane] /\ Live = {} /\ queued = 0 /\ order = <<>>
      /\ told = [i \in LaneIds |-> <<>>]
  BY DEF LInit, Live
<1>2. Len(order) = 0 /\ order \in Seq(LaneIds) /\ <<>> \in Tellings /\ Len(<<>>) = 0
  BY <1>1, EmptySeq DEF Tellings
<1>3. ClosedLanes = {}
  BY <1>1, <1>2 DEF ClosedLanes
<1>4. LanesTyped
  BY <1>1, <1>2 DEF LanesTyped
<1>5. Ends
  BY <1>1, <1>2, <1>3 DEF Ends
<1>6. Remembered
  BY <1>2 DEF Remembered
<1>7. Filled
  <2>1. PICK f, g : f = Pending(lanes) /\ g = InSockets(lanes)
    OBVIOUS
  <2>2. /\ f \in Heights(LaneLimit) /\ \A i \in LaneIds : f[i] = 0
    BY <1>1, <2>1, LanesAssumption DEF Live, Pending, Heights
  <2>3. /\ g \in Heights(QueueLimit) /\ \A i \in LaneIds : g[i] = 0
    BY <1>1, <2>1, PageAssumption DEF Live, InSockets, Heights
  <2>4. Cardinality(Held(f, LaneLimit)) = 0
    BY <2>2, LanesAssumption, HeldNone
  <2>5. Cardinality(Held(g, QueueLimit)) = 0
    BY <2>3, PageAssumption, HeldNone
  <2>6. 0 + 0 <= QueueLimit
    BY PageAssumption
  <2> QED
    BY <1>1, <2>1, <2>3, <2>4, <2>5, <2>6 DEF Filled
<1> QED
  BY <1>4, <1>5, <1>6, <1>7 DEF LanesInv

\* The accounts after lane i has become l, or gone: at most extra more than
\* there was room for.
LEMMA FilledStep ==
  ASSUME LanesInv, NEW i \in LaneIds, NEW extra \in Nat,
         DOMAIN lanes' \subseteq LaneIds, DOMAIN lanes' \ {i} = Live \ {i},
         \A j \in Live \ {i} : lanes'[j] = lanes[j],
         i \in DOMAIN lanes' => Sound(lanes'[i], told'[i]),
         queued' = queued - Pending(lanes)[i] + Pending(lanes')[i],
         queued + Cardinality(Held(InSockets(lanes), QueueLimit)) + extra <= QueueLimit,
         queued' + InSockets(lanes')[i] <= queued + InSockets(lanes)[i] + extra
  PROVE  Filled'
<1>1. PICK f, g, h, k : /\ f = Pending(lanes) /\ g = InSockets(lanes)
                        /\ h = Pending(lanes') /\ k = InSockets(lanes')
  OBVIOUS
<1>2. QueueLimit \in Nat /\ LaneLimit \in Nat
  BY PageAssumption, LanesAssumption
<1>3. f \in Heights(LaneLimit) /\ g \in Heights(QueueLimit) /\ queued \in Nat
  BY <1>1, PendingTyped DEF LanesInv, Filled
<1>4. ASSUME NEW j \in LaneIds, j # i
      PROVE  h[j] = f[j] /\ k[j] = g[j]
  <2>1. j \in Live <=> j \in DOMAIN lanes'
    BY <1>4
  <2>2. j \in Live => lanes'[j] = lanes[j]
    BY <1>4
  <2> QED
    BY <1>1, <2>1, <2>2 DEF Pending, InSockets, Live
<1>5. h[i] \in 0 .. LaneLimit /\ k[i] \in Nat
  <2>1. CASE i \in DOMAIN lanes'
    <3>1. PICK l : l = lanes'[i]
      OBVIOUS
    <3>2. l \in LaneRecs /\ Len(l.pending) <= LaneLimit
      BY <2>1, <3>1 DEF Sound
    <3>3. Len(l.pending) \in Nat /\ l.buffered \in Nat
      BY <3>2, LaneParts
    <3>4. h[i] = Len(l.pending) /\ k[i] = l.buffered
      BY <1>1, <2>1, <3>1 DEF Pending, InSockets
    <3> QED
      BY <1>2, <3>2, <3>3, <3>4
  <2>2. CASE i \notin DOMAIN lanes'
    BY <1>1, <1>2, <2>2 DEF Pending, InSockets
  <2> QED
    BY <2>1, <2>2
<1>6. h \in Heights(LaneLimit)
  <2>1. \A j \in LaneIds : h[j] \in 0 .. LaneLimit
    BY <1>3, <1>4, <1>5 DEF Heights
  <2> QED
    BY <1>1, <2>1 DEF Pending, Heights
<1>7. PICK n, old, new, wait, now :
        /\ n = Cardinality(Held(g, QueueLimit)) /\ old = g[i] /\ new = k[i]
        /\ wait = queued /\ now = queued'
  OBVIOUS
<1>8. /\ wait = Cardinality(Held(f, LaneLimit)) /\ now = wait - f[i] + h[i]
      /\ wait + n + extra <= QueueLimit /\ now + new <= wait + old + extra
  BY <1>1, <1>7 DEF LanesInv, Filled
<1>9. /\ Cardinality(Held(h, LaneLimit)) = wait - f[i] + h[i]
      /\ f[i] <= wait /\ f[i] \in Nat /\ h[i] \in Nat
  BY <1>2, <1>3, <1>4, <1>6, <1>8, HeldWith
<1>10. /\ n \in Nat /\ old \in Nat /\ old <= n
  <2>1. \A j \in LaneIds : j # i => g[j] = g[j]
    OBVIOUS
  <2> QED
    BY <1>2, <1>3, <1>7, <2>1, HeldWith
<1>11. new \in Nat /\ now \in Nat /\ new <= QueueLimit
  BY <1>2, <1>3, <1>5, <1>7, <1>8, <1>9, <1>10
<1>12. k \in Heights(QueueLimit)
  <2>1. \A j \in LaneIds : k[j] \in 0 .. QueueLimit
    BY <1>2, <1>3, <1>4, <1>7, <1>11 DEF Heights
  <2> QED
    BY <1>1, <2>1 DEF InSockets, Heights
<1>13. Cardinality(Held(k, QueueLimit)) = n - old + new
  BY <1>2, <1>3, <1>4, <1>7, <1>12, HeldWith
<1>14. now + (n - old + new) <= QueueLimit
  BY <1>2, <1>3, <1>7, <1>8, <1>10, <1>11
<1>15. /\ queued' = Cardinality(Held(h, LaneLimit))
       /\ queued' + Cardinality(Held(k, QueueLimit)) <= QueueLimit
  BY <1>7, <1>8, <1>9, <1>13, <1>14
<1> QED
  BY <1>1, <1>12, <1>15 DEF Filled

\* A lane that is not among the closed ones becomes l, t is told of it.
LEMMA LaneStep ==
  ASSUME LanesInv, NEW i \in LaneIds, i \notin ClosedLanes,
         NEW l, NEW t \in Tellings, Sound(l, t),
         lanes' = SetLane(i, l), told' = [told EXCEPT ![i] = t], order' = order,
         NEW extra \in Nat,
         queued + Cardinality(Held(InSockets(lanes), QueueLimit)) + extra <= QueueLimit,
         queued' = queued - Pending(lanes)[i] + Len(l.pending),
         queued' + l.buffered <= queued + InSockets(lanes)[i] + extra
  PROVE  LanesInv'
<1>1. LanesTyped /\ Ends /\ Remembered /\ Filled
  BY DEF LanesInv
<1>2. DOMAIN lanes = Live /\ Live \subseteq LaneIds
  BY <1>1 DEF LanesTyped, Live
<1>3. /\ DOMAIN lanes' = Live \cup {i} /\ lanes'[i] = l
      /\ \A j \in Live \ {i} : lanes'[j] = lanes[j]
  BY DEF SetLane
<1>4. /\ told' \in [LaneIds -> Tellings] /\ told'[i] = t
      /\ \A j \in LaneIds \ {i} : told'[j] = told[j]
  BY <1>1 DEF LanesTyped
<1>5. ClosedLanes' = ClosedLanes
  BY DEF ClosedLanes
<1>6. LanesTyped'
  <2>1. lanes' = [j \in DOMAIN lanes' |-> lanes'[j]]
    BY <1>3 DEF SetLane
  <2> QED
    BY <1>1, <1>2, <1>3, <1>4, <2>1 DEF LanesTyped, Live
<1>7. Ends'
  <2>1. ASSUME NEW j \in DOMAIN lanes'
        PROVE  Sound(lanes'[j], told'[j]) /\ j \notin ClosedLanes
    <3>1. CASE j = i
      BY <1>3, <1>4, <3>1
    <3>2. CASE j # i
      <4>1. j \in Live /\ j \in LaneIds
        BY <1>2, <1>3, <3>2
      <4>2. lanes'[j] = lanes[j] /\ told'[j] = told[j]
        BY <1>3, <1>4, <3>2, <4>1
      <4>3. Sound(lanes[j], told[j]) /\ j \notin ClosedLanes
        BY <1>1, <4>1 DEF Ends
      <4> QED
        BY <4>2, <4>3
    <3> QED
      BY <3>1, <3>2
  <2>2. ASSUME NEW j \in ClosedLanes
        PROVE  told'[j] # <<>>
    <3>1. j \in LaneIds /\ j # i
      BY <1>1, EmptySeq DEF ClosedLanes, LanesTyped
    <3> QED
      BY <1>1, <1>4, <3>1 DEF Ends
  <2>3. ASSUME NEW j \in LaneIds, NEW n \in 1 .. Len(told'[j]), told'[j][n] = "page"
        PROVE  n = 1
    <3>1. CASE j = i
      BY <1>4, <2>3, <3>1 DEF Sound
    <3>2. CASE j # i
      BY <1>1, <1>4, <2>3, <3>2 DEF Ends
    <3> QED
      BY <3>1, <3>2
  <2> QED
    BY <1>5, <2>1, <2>2, <2>3 DEF Ends, Live
<1>8. Remembered'
  BY <1>1 DEF Remembered
<1>9. Filled'
  <2>1. /\ DOMAIN lanes' \subseteq LaneIds /\ DOMAIN lanes' \ {i} = Live \ {i}
    BY <1>2, <1>3
  <2>2. i \in DOMAIN lanes' => Sound(lanes'[i], told'[i])
    BY <1>3, <1>4
  <2>3. Pending(lanes')[i] = Len(l.pending) /\ InSockets(lanes')[i] = l.buffered
    BY <1>3 DEF Pending, InSockets
  <2>4. queued' = queued - Pending(lanes)[i] + Pending(lanes')[i]
    BY <2>3
  <2>5. queued' + InSockets(lanes')[i] <= queued + InSockets(lanes)[i] + extra
    BY <2>3
  <2> QED
    BY <1>3, <2>1, <2>2, <2>4, <2>5, FilledStep
<1> QED
  BY <1>6, <1>7, <1>8, <1>9 DEF LanesInv

\* What is known of a live lane.
LEMMA LiveLane ==
  ASSUME LanesInv, NEW i \in Live
  PROVE  /\ i \in LaneIds /\ i \notin ClosedLanes
         /\ Sound(lanes[i], told[i]) /\ lanes[i] \in LaneRecs
         /\ told[i] \in Tellings /\ told = [told EXCEPT ![i] = told[i]]
         /\ Pending(lanes)[i] = Len(lanes[i].pending)
         /\ InSockets(lanes)[i] = lanes[i].buffered
         /\ queued \in Nat
         /\ queued + Cardinality(Held(InSockets(lanes), QueueLimit)) + 0 <= QueueLimit
<1>1. i \in LaneIds /\ i \notin ClosedLanes /\ Sound(lanes[i], told[i])
  BY DEF LanesInv, LanesTyped, Ends
<1>2. lanes[i] \in LaneRecs
  BY <1>1 DEF Sound
<1>3. told[i] \in Tellings /\ told = [told EXCEPT ![i] = told[i]]
  BY <1>1 DEF LanesInv, LanesTyped
<1>4. Pending(lanes)[i] = Len(lanes[i].pending) /\ InSockets(lanes)[i] = lanes[i].buffered
  BY <1>1 DEF Pending, InSockets, Live
<1>5. queued \in Nat
  BY PendingTyped
<1>6. PICK n : n = Cardinality(Held(InSockets(lanes), QueueLimit))
  OBVIOUS
<1>7. n \in Nat /\ queued + n <= QueueLimit
  BY <1>6, PageAssumption, HeldCount DEF LanesInv, Filled
<1>8. queued + n + 0 <= QueueLimit
  BY <1>5, <1>7
<1> QED
  BY <1>1, <1>2, <1>3, <1>4, <1>5, <1>6, <1>8

\* Lane i becomes l, and then its queue runs.
LEMMA UpStep ==
  ASSUME LanesInv, NEW i \in Live, NEW l, Sound(l, told[i]), RunLaneUp(i, l),
         Len(l.pending) = Len(lanes[i].pending), l.buffered = lanes[i].buffered,
         UNCHANGED <<order, told>>
  PROVE  LanesInv'
<1>1. PICK r, n : r = LaneUp(l).lane /\ n = LaneUp(l).released
  OBVIOUS
<1>2. Moves(l, r, n) /\ l \in LaneRecs
  BY <1>1, LaneUpMoves DEF Sound
<1>3. Sound(r, told[i])
  BY <1>2, MovesSound
<1>4. lanes' = SetLane(i, r) /\ queued' = queued - n
  BY <1>1 DEF RunLaneUp
<1>5. /\ i \in LaneIds /\ i \notin ClosedLanes
      /\ told[i] \in Tellings /\ told = [told EXCEPT ![i] = told[i]]
      /\ queued \in Nat
      /\ queued + Cardinality(Held(InSockets(lanes), QueueLimit)) + 0 <= QueueLimit
  BY LiveLane
<1>6. PICK a, b, c, d : /\ a = Pending(lanes)[i] /\ b = Len(r.pending)
                        /\ c = InSockets(lanes)[i] /\ d = r.buffered
  OBVIOUS
<1>7. /\ n \in Nat /\ b \in Nat /\ c \in Nat /\ a = b + n /\ d = c + n
  <2>1. r \in LaneRecs /\ n \in Nat /\ Len(l.pending) = Len(r.pending) + n
        /\ r.buffered = l.buffered + n
    BY <1>2 DEF Moves
  <2>2. a = Len(l.pending) /\ c = l.buffered
    BY <1>6, LiveLane
  <2>3. b \in Nat /\ c \in Nat
    BY <1>2, <1>6, <2>1, <2>2, LaneParts
  <2> QED
    BY <1>6, <2>1, <2>2, <2>3
<1>8. queued' = queued - a + b /\ queued' + d <= queued + c + 0
  BY <1>4, <1>5, <1>7
<1>9. told' = [told EXCEPT ![i] = told[i]] /\ order' = order
  BY <1>5
<1>10. /\ queued' = queued - Pending(lanes)[i] + Len(r.pending)
       /\ queued' + r.buffered <= queued + InSockets(lanes)[i] + 0
  BY <1>6, <1>8
<1>11. 0 \in Nat
  OBVIOUS
<1> QED
  BY <1>3, <1>4, <1>5, <1>9, <1>10, <1>11, LaneStep

\* A lane changes without its queue running: its frames stay, and its socket
\* buffers no more than before.
LEMMA StillStep ==
  ASSUME LanesInv, NEW i \in Live, NEW l, NEW t \in Tellings, Sound(l, t),
         lanes' = SetLane(i, l), told' = [told EXCEPT ![i] = t],
         l.pending = lanes[i].pending, l.buffered <= lanes[i].buffered,
         UNCHANGED <<order, queued>>
  PROVE  LanesInv'
<1>1. /\ i \in LaneIds /\ i \notin ClosedLanes /\ queued \in Nat
      /\ Pending(lanes)[i] = Len(l.pending) /\ lanes[i] \in LaneRecs
      /\ InSockets(lanes)[i] = lanes[i].buffered
      /\ queued + Cardinality(Held(InSockets(lanes), QueueLimit)) + 0 <= QueueLimit
  BY LiveLane
<1>2. PICK a, b, c : /\ a = Pending(lanes)[i] /\ b = InSockets(lanes)[i] /\ c = l.buffered
  OBVIOUS
<1>3. a \in Nat /\ b \in Nat /\ c \in Nat /\ c <= b
  <2>1. l \in LaneRecs
    BY DEF Sound
  <2> QED
    BY <1>1, <1>2, <2>1, LaneParts
<1>4. queued' = queued - a + a /\ queued' + c <= queued + b + 0
  BY <1>1, <1>3
<1>5. /\ queued' = queued - Pending(lanes)[i] + Len(l.pending)
      /\ queued' + l.buffered <= queued + InSockets(lanes)[i] + 0
  BY <1>1, <1>2, <1>4
<1>6. 0 \in Nat
  OBVIOUS
<1> QED
  BY <1>1, <1>5, <1>6, LaneStep

\* A live lane replaced by itself with other fields.
LEMMA SetLive ==
  ASSUME LanesInv, NEW i \in Live, NEW l
  PROVE  [lanes EXCEPT ![i] = l] = SetLane(i, l)
<1>1. lanes = [j \in Live |-> lanes[j]] /\ Live \cup {i} = Live
  BY DEF LanesInv, LanesTyped
<1> QED
  BY <1>1 DEF SetLane

LEMMA SocketOpensStep ==
  ASSUME LanesInv, NEW i \in LaneIds, SocketOpens(i)
  PROVE  LanesInv'
<1>1. i \in Live /\ lanes[i].socket = "connecting"
  BY DEF SocketOpens
<1>2. PICK o, l : o = lanes[i] /\ l = [o EXCEPT !.socket = "open", !.opened = TRUE]
  OBVIOUS
<1>3. o \in LaneRecs /\ Sound(o, told[i]) /\ o.socket = "connecting"
  BY <1>1, <1>2, LiveLane
<1>4. /\ l \in LaneRecs /\ l.count = o.count /\ l.pending = o.pending /\ l.sent = o.sent
      /\ l.socket = "open" /\ l.buffered = o.buffered
      /\ l.localClosed = o.localClosed /\ l.remoteClosed = o.remoteClosed
  BY <1>2, <1>3 DEF LaneRecs
<1>5. Sound(l, told[i])
  BY <1>3, <1>4 DEF Sound
<1>6. RunLaneUp(i, l) /\ UNCHANGED <<order, told>>
  BY <1>2 DEF SocketOpens
<1>7. Len(l.pending) = Len(lanes[i].pending) /\ l.buffered = lanes[i].buffered
  BY <1>2, <1>4
<1> QED
  BY <1>1, <1>5, <1>6, <1>7, UpStep

LEMMA LaneTimerStep ==
  ASSUME LanesInv, NEW i \in LaneIds, LaneTimer(i)
  PROVE  LanesInv'
<1>1. i \in Live
  BY DEF LaneTimer
<1>2. PICK o, l : o = lanes[i] /\ l = [o EXCEPT !.timer = FALSE]
  OBVIOUS
<1>3. o \in LaneRecs /\ Sound(o, told[i])
  BY <1>1, <1>2, LiveLane
<1>4. /\ l \in LaneRecs /\ l.count = o.count /\ l.pending = o.pending /\ l.sent = o.sent
      /\ l.socket = o.socket /\ l.buffered = o.buffered
      /\ l.localClosed = o.localClosed /\ l.remoteClosed = o.remoteClosed
  BY <1>2, <1>3 DEF LaneRecs
<1>5. Sound(l, told[i])
  BY <1>3, <1>4 DEF Sound
<1>6. RunLaneUp(i, l) /\ UNCHANGED <<order, told>>
  BY <1>2 DEF LaneTimer
<1>7. Len(l.pending) = Len(lanes[i].pending) /\ l.buffered = lanes[i].buffered
  BY <1>2, <1>4
<1> QED
  BY <1>1, <1>5, <1>6, <1>7, UpStep

LEMMA SocketEndsStep ==
  ASSUME LanesInv, NEW i \in LaneIds, SocketEnds(i)
  PROVE  LanesInv'
<1>1. i \in Live
  BY DEF SocketEnds
<1>2. PICK o, l, t : /\ o = lanes[i] /\ l = [o EXCEPT !.socket = "gone", !.buffered = 0]
                     /\ t = told[i]
  OBVIOUS
<1>3. /\ o \in LaneRecs /\ Sound(o, t) /\ t \in Tellings
      /\ told = [told EXCEPT ![i] = t] /\ o.buffered \in Nat
  BY <1>1, <1>2, LiveLane, LaneParts
<1>4. /\ l \in LaneRecs /\ l.count = o.count /\ l.pending = o.pending /\ l.sent = o.sent
      /\ l.buffered = 0
      /\ l.localClosed = o.localClosed /\ l.remoteClosed = o.remoteClosed
  BY <1>2, <1>3 DEF LaneRecs
<1>5. Sound(l, t)
  BY <1>3, <1>4 DEF Sound
<1>6. lanes' = [lanes EXCEPT ![i] = l]
  BY <1>2 DEF SocketEnds
<1>7. lanes' = SetLane(i, l)
  BY <1>1, <1>6, SetLive
<1>8. l.pending = lanes[i].pending /\ l.buffered <= lanes[i].buffered
  BY <1>2, <1>3, <1>4
<1>9. told' = [told EXCEPT ![i] = t] /\ UNCHANGED <<order, queued>>
  BY <1>3 DEF SocketEnds
<1> QED
  BY <1>1, <1>3, <1>5, <1>7, <1>8, <1>9, StillStep

LEMMA LaneDrainsStep ==
  ASSUME LanesInv, NEW i \in LaneIds, LaneDrains(i)
  PROVE  LanesInv'
<1>1. i \in Live
  BY DEF LaneDrains
<1>2. PICK o, t : o = lanes[i] /\ t = told[i]
  OBVIOUS
<1>3. /\ o \in LaneRecs /\ Sound(o, t) /\ t \in Tellings
      /\ told = [told EXCEPT ![i] = t] /\ o.buffered \in Nat
  BY <1>1, <1>2, LiveLane, LaneParts
<1>4. PICK left \in 0 .. o.buffered - 1 : lanes' = [lanes EXCEPT ![i].buffered = left]
  BY <1>2 DEF LaneDrains
<1>5. PICK l : l = [o EXCEPT !.buffered = left]
  OBVIOUS
<1>6. left \in Nat /\ left <= o.buffered /\ o.buffered # 0
  BY <1>3
<1>7. /\ l \in LaneRecs /\ l.count = o.count /\ l.pending = o.pending /\ l.sent = o.sent
      /\ l.buffered = left /\ l.socket = o.socket
      /\ l.localClosed = o.localClosed /\ l.remoteClosed = o.remoteClosed
  BY <1>3, <1>5, <1>6 DEF LaneRecs
<1>8. Sound(l, t)
  BY <1>3, <1>6, <1>7 DEF Sound
<1>9. lanes' = [lanes EXCEPT ![i] = l]
  BY <1>2, <1>4, <1>5
<1>10. lanes' = SetLane(i, l)
  BY <1>1, <1>9, SetLive
<1>11. l.pending = lanes[i].pending /\ l.buffered <= lanes[i].buffered
  BY <1>2, <1>6, <1>7
<1>12. told' = [told EXCEPT ![i] = t] /\ UNCHANGED <<order, queued>>
  BY <1>3 DEF LaneDrains
<1> QED
  BY <1>1, <1>3, <1>8, <1>10, <1>11, <1>12, StillStep

\* One voice more.
LEMMA Tell ==
  ASSUME NEW t \in Tellings, NEW voice \in Voices
  PROVE  /\ Append(t, voice) \in Tellings /\ Append(t, voice) # <<>>
         /\ Len(Append(t, voice)) = Len(t) + 1 /\ Len(t) \in Nat
         /\ \A n \in 1 .. Len(t) : Append(t, voice)[n] = t[n]
         /\ Append(t, voice)[Len(t) + 1] = voice
BY AppendProperties, LenProperties DEF Tellings

LEMMA RelayCloseStep ==
  ASSUME LanesInv, NEW i \in LaneIds, RelayClose(i)
  PROVE  LanesInv'
<1>1. i \in Live
  BY DEF RelayClose
<1>2. PICK o, l, old, t : /\ o = lanes[i] /\ l = [o EXCEPT !.remoteClosed = TRUE]
                          /\ old = told[i] /\ t = Append(old, "relay")
  OBVIOUS
<1>3. /\ o \in LaneRecs /\ Sound(o, old) /\ old \in Tellings /\ o.buffered \in Nat
  BY <1>1, <1>2, LiveLane, LaneParts
<1>4. /\ l \in LaneRecs /\ l.count = o.count /\ l.pending = o.pending /\ l.sent = o.sent
      /\ l.buffered = o.buffered /\ l.socket = o.socket /\ l.remoteClosed
  BY <1>2, <1>3 DEF LaneRecs
<1>5. /\ t \in Tellings /\ t # <<>> /\ Len(t) = Len(old) + 1 /\ Len(old) \in Nat
      /\ \A n \in 1 .. Len(old) : t[n] = old[n]
      /\ t[Len(old) + 1] = "relay"
  <2>1. "relay" \in Voices
    BY DEF Voices
  <2> QED
    BY <1>2, <1>3, <2>1, Tell
<1>6. \A n \in 1 .. Len(t) : t[n] # "page"
  <2>1. \A n \in 1 .. Len(t) : n \in 1 .. Len(old) \/ n = Len(old) + 1
    BY <1>5
  <2>2. \A n \in 1 .. Len(old) : old[n] # "page"
    BY <1>3 DEF Sound
  <2> QED
    BY <1>5, <2>1, <2>2
<1>7. Sound(l, t)
  BY <1>3, <1>4, <1>5, <1>6 DEF Sound
<1>8. lanes' = [lanes EXCEPT ![i] = l]
  BY <1>2 DEF RelayClose
<1>9. lanes' = SetLane(i, l)
  BY <1>1, <1>8, SetLive
<1>10. l.pending = lanes[i].pending /\ l.buffered <= lanes[i].buffered
  BY <1>2, <1>3, <1>4
<1>11. told' = [told EXCEPT ![i] = t] /\ UNCHANGED <<order, queued>>
  BY <1>2 DEF RelayClose
<1> QED
  BY <1>1, <1>5, <1>7, <1>9, <1>10, <1>11, StillStep

\* The list of closed lanes, without the one it forgets.
Kept == IF Len(order) = ClosedLimit THEN Tail(order) ELSE order

LEMMA KeptParts ==
  ASSUME LanesInv
  PROVE  /\ Kept \in Seq(LaneIds) /\ Len(Kept) \in Nat
         /\ \A n \in 1 .. Len(Kept) : Kept[n] \in ClosedLanes
         /\ \A m, n \in 1 .. Len(Kept) : Kept[m] = Kept[n] => m = n
<1>1. /\ order \in Seq(LaneIds) /\ Len(order) \in Nat /\ DOMAIN order = 1 .. Len(order)
      /\ \A m, n \in 1 .. Len(order) : order[m] = order[n] => m = n
  BY LenProperties DEF LanesInv, LanesTyped, Remembered
<1>2. CASE Len(order) # ClosedLimit
  <2>1. Kept = order
    BY <1>2 DEF Kept
  <2> QED
    BY <1>1, <2>1 DEF ClosedLanes
<1>3. CASE Len(order) = ClosedLimit
  <2>1. Kept = Tail(order) /\ Len(order) # 0
    BY <1>3, LanesAssumption DEF Kept
  <2>2. order # <<>>
    BY <2>1, EmptySeq
  <2>3. /\ Tail(order) \in Seq(LaneIds) /\ Len(Tail(order)) = Len(order) - 1
        /\ \A n \in 1 .. Len(order) - 1 : Tail(order)[n] = order[n + 1]
    BY <1>1, <2>2, HeadTailProperties
  <2>4. \A n \in 1 .. Len(order) - 1 : n + 1 \in 1 .. Len(order)
    BY <1>1
  <2>5. Len(order) - 1 \in Nat
    BY <1>1, <2>1
  <2>6. ASSUME NEW n \in 1 .. Len(Kept)
        PROVE  Kept[n] = order[n + 1] /\ n + 1 \in 1 .. Len(order) /\ n \in Nat
    BY <2>1, <2>3, <2>4
  <2>7. ASSUME NEW m \in 1 .. Len(Kept), NEW n \in 1 .. Len(Kept), Kept[m] = Kept[n]
        PROVE  m = n
    <3>1. m + 1 = n + 1
      BY <1>1, <2>6, <2>7
    <3> QED
      BY <2>6, <3>1
  <2>8. \A n \in 1 .. Len(Kept) : Kept[n] \in ClosedLanes
    BY <1>1, <2>6 DEF ClosedLanes
  <2> QED
    BY <2>1, <2>3, <2>5, <2>7, <2>8
<1> QED
  BY <1>2, <1>3

LEMMA FinishStep ==
  ASSUME LanesInv, NEW i \in Live,
         finishWebSocketLane(i, ~lanes[i].localClosed /\ ~lanes[i].remoteClosed)
  PROVE  LanesInv'
<1>1. PICK o, t : o = lanes[i] /\ t = told[i]
  OBVIOUS
<1>2. /\ i \in LaneIds /\ i \notin ClosedLanes /\ Sound(o, t) /\ o \in LaneRecs
      /\ t \in Tellings /\ queued \in Nat /\ Len(o.pending) \in Nat /\ o.buffered \in Nat
      /\ Pending(lanes)[i] = Len(o.pending) /\ InSockets(lanes)[i] = o.buffered
      /\ queued + Cardinality(Held(InSockets(lanes), QueueLimit)) + 0 <= QueueLimit
  BY <1>1, LiveLane, LaneParts
<1>3. /\ lanes' = [j \in Live \ {i} |-> lanes[j]] /\ queued' = queued - Len(o.pending)
      /\ order' = Append(Kept, i)
      /\ told' = IF ~o.localClosed /\ ~o.remoteClosed
                 THEN [told EXCEPT ![i] = Append(t, "page")] ELSE told
  BY <1>1 DEF finishWebSocketLane, rememberLaneClosed, Kept
<1>4. LanesTyped /\ Ends /\ Remembered /\ Filled
  BY DEF LanesInv
<1>5. PICK u : u = IF ~o.localClosed /\ ~o.remoteClosed THEN Append(t, "page") ELSE t
  OBVIOUS
<1>6. /\ u \in Tellings /\ u # <<>>
      /\ \A n \in 1 .. Len(u) : u[n] = "page" => n = 1
  <2>1. CASE ~o.localClosed /\ ~o.remoteClosed
    <3>1. t = <<>> /\ Len(t) = 0
      BY <1>2, <2>1, EmptySeq DEF Sound
    <3>2. "page" \in Voices
      BY DEF Voices
    <3>3. Append(t, "page") \in Tellings /\ Append(t, "page") # <<>>
          /\ Len(Append(t, "page")) = Len(t) + 1
      BY <1>2, <3>2, Tell
    <3>4. u = Append(t, "page") /\ Len(u) = 1
      BY <1>5, <2>1, <3>1, <3>3
    <3> QED
      BY <3>3, <3>4
  <2>2. CASE ~(~o.localClosed /\ ~o.remoteClosed)
    BY <1>2, <1>5, <2>2 DEF Sound
  <2> QED
    BY <2>1, <2>2
<1>7. /\ told' \in [LaneIds -> Tellings] /\ told'[i] = u
      /\ \A j \in LaneIds \ {i} : told'[j] = told[j]
  BY <1>1, <1>2, <1>3, <1>4, <1>5, <1>6 DEF LanesTyped
<1>8. /\ Kept \in Seq(LaneIds) /\ Len(Kept) \in Nat
      /\ \A n \in 1 .. Len(Kept) : Kept[n] \in ClosedLanes
      /\ \A m, n \in 1 .. Len(Kept) : Kept[m] = Kept[n] => m = n
  BY KeptParts
<1>9. /\ order' \in Seq(LaneIds) /\ Len(order') = Len(Kept) + 1
      /\ \A n \in 1 .. Len(Kept) : order'[n] = Kept[n]
      /\ order'[Len(Kept) + 1] = i
  BY <1>2, <1>3, <1>8, AppendProperties
<1>10. \A n \in 1 .. Len(order') : n \in 1 .. Len(Kept) \/ n = Len(Kept) + 1
  BY <1>8, <1>9
<1>11. DOMAIN order' = 1 .. Len(order')
  BY <1>9, LenProperties
<1>12. ClosedLanes' \subseteq ClosedLanes \cup {i}
  <2>1. \A n \in 1 .. Len(order') : order'[n] \in ClosedLanes \cup {i}
    BY <1>8, <1>9, <1>10
  <2>2. ClosedLanes' = {order'[n] : n \in DOMAIN order'}
    BY DEF ClosedLanes
  <2> QED
    BY <1>11, <2>1, <2>2
<1>13. /\ DOMAIN lanes' = Live \ {i} /\ DOMAIN lanes = Live /\ Live \subseteq LaneIds
       /\ \A j \in Live \ {i} : lanes'[j] = lanes[j]
  BY <1>3, <1>4 DEF LanesTyped, Live
<1>14. LanesTyped'
  <2>1. lanes' = [j \in DOMAIN lanes' |-> lanes'[j]]
    BY <1>3
  <2> QED
    BY <1>7, <1>9, <1>13, <2>1 DEF LanesTyped, Live
<1>15. Ends'
  <2>1. ASSUME NEW j \in DOMAIN lanes'
        PROVE  Sound(lanes'[j], told'[j]) /\ j \notin ClosedLanes'
    <3>1. j \in Live /\ j # i /\ j \in LaneIds
      BY <1>13
    <3>2. lanes'[j] = lanes[j] /\ told'[j] = told[j]
      BY <1>7, <1>13, <3>1
    <3>3. Sound(lanes[j], told[j]) /\ j \notin ClosedLanes
      BY <1>4, <3>1 DEF Ends
    <3> QED
      BY <1>12, <3>1, <3>2, <3>3
  <2>2. ASSUME NEW j \in ClosedLanes'
        PROVE  told'[j] # <<>>
    <3>1. CASE j = i
      BY <1>6, <1>7, <3>1
    <3>2. CASE j # i
      <4>1. j \in ClosedLanes /\ j \in LaneIds
        BY <1>4, <1>12, <3>2, EmptySeq DEF ClosedLanes, LanesTyped
      <4> QED
        BY <1>4, <1>7, <3>2, <4>1 DEF Ends
    <3> QED
      BY <3>1, <3>2
  <2>3. ASSUME NEW j \in LaneIds, NEW n \in 1 .. Len(told'[j]), told'[j][n] = "page"
        PROVE  n = 1
    <3>1. CASE j = i
      BY <1>6, <1>7, <2>3, <3>1
    <3>2. CASE j # i
      BY <1>4, <1>7, <2>3, <3>2 DEF Ends
    <3> QED
      BY <3>1, <3>2
  <2> QED
    BY <2>1, <2>2, <2>3 DEF Ends, Live
<1>16. Remembered'
  <2>1. ASSUME NEW m \in 1 .. Len(order'), NEW n \in 1 .. Len(order'), order'[m] = order'[n]
        PROVE  m = n
    <3>1. CASE m \in 1 .. Len(Kept) /\ n \in 1 .. Len(Kept)
      BY <1>8, <1>9, <2>1, <3>1
    <3>2. CASE m = Len(Kept) + 1 /\ n = Len(Kept) + 1
      BY <3>2
    <3>3. CASE m \in 1 .. Len(Kept) /\ n = Len(Kept) + 1
      BY <1>2, <1>8, <1>9, <2>1, <3>3
    <3>4. CASE m = Len(Kept) + 1 /\ n \in 1 .. Len(Kept)
      BY <1>2, <1>8, <1>9, <2>1, <3>4
    <3> QED
      BY <1>10, <3>1, <3>2, <3>3, <3>4
  <2> QED
    BY <2>1 DEF Remembered
<1>17. Filled'
  <2>1. Pending(lanes')[i] = 0 /\ InSockets(lanes')[i] = 0
    BY <1>2, <1>13 DEF Pending, InSockets
  <2>2. PICK a, b : a = Len(o.pending) /\ b = o.buffered
    OBVIOUS
  <2>3. a \in Nat /\ b \in Nat
    BY <1>2, <2>2
  <2>4. queued - a = queued - a + 0 /\ (queued - a) + 0 <= queued + b + 0
    BY <1>2, <2>3
  <2>5. /\ queued' = queued - Pending(lanes)[i] + Pending(lanes')[i]
        /\ queued' + InSockets(lanes')[i] <= queued + InSockets(lanes)[i] + 0
    BY <1>2, <1>3, <2>1, <2>2, <2>4
  <2>6. /\ DOMAIN lanes' \subseteq LaneIds /\ DOMAIN lanes' \ {i} = Live \ {i}
        /\ i \in DOMAIN lanes' => Sound(lanes'[i], told'[i])
    BY <1>13
  <2>7. 0 \in Nat
    OBVIOUS
  <2> QED
    BY <1>2, <1>13, <2>5, <2>6, <2>7, FilledStep
<1> QED
  BY <1>14, <1>15, <1>16, <1>17 DEF LanesInv

LEMMA LanesStutter ==
  ASSUME LanesInv, UNCHANGED <<lanes, queued, order, told>>
  PROVE  LanesInv'
BY DEF LanesInv, LanesTyped, Ends, Remembered, Filled, Live, ClosedLanes

LEMMA OnCloseStep ==
  ASSUME LanesInv, NEW i \in LaneIds, OnClose(i)
  PROVE  LanesInv'
<1>1. i \in Live
  BY DEF OnClose
<1>2. CASE ~lanes[i].opened
  BY <1>2, LanesStutter DEF OnClose, Fail
<1>3. CASE lanes[i].opened
  BY <1>1, <1>3, FinishStep DEF OnClose
<1> QED
  BY <1>2, <1>3

-----------------------------------------------------------------------------
(* A frame enters its lane *)

\* What the sockets hold is what the page counts of the open ones.
LEMMA BufferedHeld ==
  ASSUME LanesInv
  PROVE  Buffered = Cardinality(Held(InSockets(lanes), QueueLimit))
<1>1. PICK f : f = InSockets(lanes)
  OBVIOUS
<1>2. ASSUME NEW p \in LaneIds \X (1 .. QueueLimit)
      PROVE  ( /\ p[1] \in Live /\ lanes[p[1]].socket = "open"
               /\ p[2] <= lanes[p[1]].buffered ) <=> p[2] <= f[p[1]]
  <2>1. p[1] \in LaneIds /\ p[2] \in Nat \ {0}
    BY PageAssumption
  <2>2. PICK i, n : i = p[1] /\ n = p[2]
    OBVIOUS
  <2>3. CASE i \notin Live
    <3>1. f[i] = 0
      BY <1>1, <2>1, <2>2, <2>3 DEF InSockets, Live
    <3> QED
      BY <2>1, <2>2, <2>3, <3>1
  <2>4. CASE i \in Live
    <3>1. PICK l : l = lanes[i]
      OBVIOUS
    <3>2. f[i] = l.buffered /\ Sound(l, told[i])
      BY <1>1, <2>4, <3>1, LiveLane
    <3>3. l.socket # "open" => l.buffered = 0
      BY <3>2 DEF Sound
    <3>4. l.socket # "open" => ~(n <= l.buffered)
      BY <2>1, <2>2, <3>3
    <3> QED
      BY <2>2, <2>4, <3>1, <3>2, <3>4
  <2> QED
    BY <2>3, <2>4
<1>3. {p \in LaneIds \X (1 .. QueueLimit) :
         /\ p[1] \in Live /\ lanes[p[1]].socket = "open"
         /\ p[2] <= lanes[p[1]].buffered} = Held(f, QueueLimit)
  BY <1>2 DEF Held
<1> QED
  BY <1>1, <1>3 DEF Buffered

\* Concatenation of lists of numbers may be regrouped.
LEMMA Regroup ==
  ASSUME NEW a, NEW b, NEW c, a \in Seq(Nat), b \in Seq(Nat), c \in Seq(Nat)
  PROVE  (a \o b) \o c = a \o (b \o c)
  BY ConcatAssociative

\* What is appended to the second of two lists is appended to both.
LEMMA AppendOut ==
  ASSUME NEW a \in Seq(Nat), NEW b \in Seq(Nat), NEW m \in Nat
  PROVE  a \o Append(b, m) = Append(a \o b, m)
<1>1. PICK x, one : x = a \o b /\ one = <<m>>
  OBVIOUS
<1>2. x \in Seq(Nat)
  BY <1>1, ConcatProperties
<1>3. one \in Seq(Nat)
  BY <1>1
<1>4. Append(b, m) = b \o one
  BY <1>1, AppendIsConcat
<1>5. Append(x, m) = x \o one
  BY <1>1, <1>2, AppendIsConcat
<1>6. (a \o b) \o one = a \o (b \o one)
  BY <1>3, Regroup
<1> QED
  BY <1>1, <1>4, <1>5, <1>6

\* Numbering goes on.
LEMMA UptoNext ==
  ASSUME NEW n \in Nat, NEW a \in Seq(Nat), NEW b \in Seq(Nat), a \o b = Upto(n),
         NEW m, m = n + 1
  PROVE  a \o Append(b, m) = Upto(m)
<1>1. PICK x, u : x = a \o b /\ u = Upto(m)
  OBVIOUS
<1>2. x \in Seq(Nat)
  BY <1>1, ConcatProperties
<1>3. Len(x) = n /\ \A k \in 1 .. n : x[k] = k
  <2>1. DOMAIN x = 1 .. n /\ \A k \in 1 .. n : x[k] = k
    BY <1>1 DEF Upto
  <2> QED
    BY <1>2, <2>1, LenProperties
<1>4. PICK y : y = Append(x, m)
  OBVIOUS
<1>5. /\ y \in Seq(Nat) /\ Len(y) = n + 1 /\ y[n + 1] = m
      /\ \A k \in 1 .. n : y[k] = x[k]
  <2>1. m \in Nat
    OBVIOUS
  <2>2. /\ y \in Seq(Nat) /\ Len(y) = Len(x) + 1 /\ y[Len(x) + 1] = m
        /\ \A k \in 1 .. Len(x) : y[k] = x[k]
    BY <1>2, <1>4, <2>1, AppendProperties
  <2> QED
    BY <1>3, <2>2
<1>6. \A k \in 1 .. m : y[k] = k
  <2>1. \A k \in 1 .. m : k \in 1 .. n \/ k = n + 1
    OBVIOUS
  <2> QED
    BY <1>3, <1>5, <2>1
<1>7. y = u
  <2>1. y = [k \in 1 .. m |-> y[k]]
    BY <1>5, LenProperties
  <2>2. [k \in 1 .. m |-> y[k]] = [k \in 1 .. m |-> k]
    BY <1>6
  <2> QED
    BY <1>1, <2>1, <2>2 DEF Upto
<1>8. a \o Append(b, m) = Append(a \o b, m)
  BY AppendOut
<1> QED
  BY <1>1, <1>4, <1>7, <1>8

\* The lane a frame enters, before it does, and what was told of it.
Old(i) == IF i \in Live THEN lanes[i] ELSE NewLane
Told(i) == IF i \in Live THEN told[i] ELSE <<>>

LEMMA OldLane ==
  ASSUME LanesInv, NEW i \in LaneIds, i \notin ClosedLanes
  PROVE  /\ Sound(Old(i), Told(i)) /\ Told(i) \in Tellings /\ Old(i) \in LaneRecs
         /\ Pending(lanes)[i] = Len(Old(i).pending)
         /\ InSockets(lanes)[i] = Old(i).buffered
<1>1. CASE i \in Live
  BY <1>1, LiveLane DEF Old, Told
<1>2. CASE i \notin Live
  <2>1. PICK l, t : l = NewLane /\ t = <<>>
    OBVIOUS
  <2>2. t \in Tellings /\ Len(t) = 0 /\ t \in Seq(Nat) /\ t \in Bodies
    BY <2>1, EmptySeq DEF Tellings, Bodies
  <2>3. /\ l \in LaneRecs /\ l.count = 0 /\ l.pending = t /\ l.sent = t /\ l.buffered = 0
        /\ ~l.localClosed /\ ~l.remoteClosed
    BY <2>1, <2>2 DEF NewLane, LaneRecs
  <2>4. t \o t = Upto(0)
    <3>1. t \o t = t
      BY <2>2, ConcatEmptySeq
    <3>2. t = [k \in 1 .. 0 |-> k]
      BY <2>1
    <3> QED
      BY <3>1, <3>2 DEF Upto
  <2>5. Sound(l, t)
    BY <2>1, <2>2, <2>3, <2>4, LanesAssumption DEF Sound
  <2>6. Pending(lanes)[i] = 0 /\ InSockets(lanes)[i] = 0
    BY <1>2 DEF Pending, InSockets, Live
  <2> QED
    BY <1>2, <2>1, <2>2, <2>3, <2>5, <2>6 DEF Old, Told
<1> QED
  BY <1>1, <1>2

LEMMA EnterStep ==
  ASSUME LanesInv, NEW i \in LaneIds, NEW ty, ~Refused(ty, i), ~Full(Old(i)), Enter(ty, i)
  PROVE  LanesInv'
<1>1. i \notin ClosedLanes /\ (i \notin Live => ty = "OPEN")
  <2>1. CASE i \in Live
    BY <2>1, LiveLane
  <2>2. CASE i \notin Live
    BY <2>2 DEF Refused
  <2> QED
    BY <2>1, <2>2
<1>2. PICK o, s : o = Old(i) /\ s = Told(i)
  OBVIOUS
<1>3. /\ Sound(o, s) /\ s \in Tellings /\ o \in LaneRecs
      /\ Pending(lanes)[i] = Len(o.pending) /\ InSockets(lanes)[i] = o.buffered
  BY <1>1, <1>2, OldLane
<1>4. /\ o.count \in Nat /\ o.pending \in Seq(Nat) /\ o.sent \in Seq(Nat)
      /\ o.buffered \in Nat /\ o.localClosed \in BOOLEAN /\ o.remoteClosed \in BOOLEAN
      /\ Len(o.pending) \in Nat
  BY <1>3, LaneParts DEF Bodies
<1>5. PICK next, frames : next = o.count + 1 /\ frames = Append(o.pending, next)
  OBVIOUS
<1>6. PICK ends \in BOOLEAN : ends = (o.localClosed \/ ty = "CLOSE")
  <2>1. (o.localClosed \/ ty = "CLOSE") \in BOOLEAN
    OBVIOUS
  <2> QED
    BY <2>1
<1>7. PICK l : l = [o EXCEPT !.count = next, !.pending = frames, !.localClosed = ends]
  OBVIOUS
<1>8. /\ next \in Nat /\ frames \in Seq(Nat) /\ Len(frames) = Len(o.pending) + 1
  BY <1>4, <1>5, AppendProperties
<1>9. /\ l \in LaneRecs /\ l.count = next /\ l.pending = frames /\ l.sent = o.sent
      /\ l.socket = o.socket /\ l.buffered = o.buffered /\ l.localClosed = ends
      /\ l.remoteClosed = o.remoteClosed
  BY <1>3, <1>6, <1>7, <1>8 DEF LaneRecs, Bodies
<1>10. PICK t : t = s \o (IF ty = "CLOSE" /\ ~o.localClosed THEN <<"application">> ELSE <<>>)
  OBVIOUS
<1>11. PICK r, n : r = LaneUp(l).lane /\ n = LaneUp(l).released
  OBVIOUS
<1>12. /\ lanes' = SetLane(i, r) /\ queued' = queued + 1 - n
       /\ told' = [told EXCEPT ![i] = t] /\ order' = order
  <2>1. l = [o EXCEPT !.count = @ + 1, !.pending = Append(@, o.count + 1),
                      !.localClosed = @ \/ ty = "CLOSE"]
    BY <1>5, <1>6, <1>7
  <2>2. t = (IF i \in Live THEN told[i] ELSE <<>>)
              \o (IF ty = "CLOSE" /\ ~o.localClosed THEN <<"application">> ELSE <<>>)
    BY <1>2, <1>10 DEF Told
  <2>3. o = IF i \in Live THEN lanes[i] ELSE NewLane
    BY <1>2 DEF Old
  <2> QED
    BY <1>11, <2>1, <2>2, <2>3 DEF Enter
<1>13. Moves(l, r, n)
  BY <1>9, <1>11, LaneUpMoves
<1>14. /\ t \in Tellings /\ \A k \in 1 .. Len(t) : t[k] # "page"
       /\ (l.localClosed \/ l.remoteClosed) <=> t # <<>>
  <2>1. CASE ty = "CLOSE" /\ ~o.localClosed
    <3>1. t = Append(s, "application")
      BY <1>3, <1>10, <2>1, AppendIsConcat DEF Tellings
    <3>2. "application" \in Voices
      BY DEF Voices
    <3>3. /\ t \in Tellings /\ t # <<>> /\ Len(t) = Len(s) + 1 /\ Len(s) \in Nat
          /\ \A k \in 1 .. Len(s) : t[k] = s[k]
          /\ t[Len(s) + 1] = "application"
      BY <1>3, <3>1, <3>2, Tell
    <3>4. \A k \in 1 .. Len(t) : k \in 1 .. Len(s) \/ k = Len(s) + 1
      BY <3>3
    <3>5. \A k \in 1 .. Len(s) : s[k] # "page"
      BY <1>3 DEF Sound
    <3>6. l.localClosed
      BY <1>6, <1>9, <2>1
    <3> QED
      BY <3>3, <3>4, <3>5, <3>6
  <2>2. CASE ~(ty = "CLOSE" /\ ~o.localClosed)
    <3>1. t = s
      BY <1>3, <1>10, <2>2, ConcatEmptySeq DEF Tellings
    <3>2. l.localClosed = o.localClosed
      BY <1>4, <1>6, <1>9, <2>2
    <3> QED
      BY <1>3, <1>9, <3>1, <3>2 DEF Sound
  <2> QED
    BY <2>1, <2>2
<1>15. Sound(l, t)
  <2>1. l.sent \o l.pending = Upto(l.count)
    <3>1. PICK a, b, c : a = o.sent /\ b = o.pending /\ c = o.count
      OBVIOUS
    <3>2. a \in Seq(Nat) /\ b \in Seq(Nat) /\ c \in Nat /\ a \o b = Upto(c) /\ next = c + 1
      BY <1>3, <1>4, <1>5, <3>1 DEF Sound
    <3>3. a \o Append(b, next) = Upto(next)
      BY <3>2, UptoNext
    <3> QED
      BY <1>5, <1>9, <3>1, <3>3
  <2>2. Len(l.pending) <= LaneLimit
    <3>1. ~(Len(o.pending) >= LaneLimit)
      BY <1>2 DEF Full
    <3> QED
      BY <1>4, <1>8, <1>9, <3>1, LanesAssumption
  <2>3. l.socket # "open" => l.buffered = 0
    BY <1>3, <1>9 DEF Sound
  <2> QED
    BY <1>9, <1>14, <2>1, <2>2, <2>3 DEF Sound
<1>16. Sound(r, t)
  BY <1>13, <1>15, MovesSound
<1>17. PICK w, a, b, c, d : /\ w = queued /\ a = Len(o.pending) /\ b = Len(r.pending)
                            /\ c = o.buffered /\ d = r.buffered
  OBVIOUS
<1>18. /\ w \in Nat /\ a \in Nat /\ b \in Nat /\ c \in Nat /\ n \in Nat
       /\ a + 1 = b + n /\ d = c + n
  <2>1. /\ r \in LaneRecs /\ n \in Nat /\ Len(l.pending) = Len(r.pending) + n
        /\ r.buffered = l.buffered + n
    BY <1>13 DEF Moves
  <2>2. Len(r.pending) \in Nat /\ queued \in Nat
    BY <2>1, LaneParts, PendingTyped
  <2> QED
    BY <1>4, <1>8, <1>9, <1>17, <2>1, <2>2
<1>19. queued' = w - a + b /\ queued' + d <= w + c + 1
  <2>1. PICK now : now = queued'
    OBVIOUS
  <2>2. now = w + 1 - n
    BY <1>12, <1>17, <2>1
  <2>3. now = w - a + b /\ now + d <= w + c + 1
    BY <1>18, <2>2
  <2> QED
    BY <2>1, <2>3
<1>20. queued + Cardinality(Held(InSockets(lanes), QueueLimit)) + 1 <= QueueLimit
  <2>1. PICK held : held = Cardinality(Held(InSockets(lanes), QueueLimit))
    OBVIOUS
  <2>2. held \in Nat /\ QueueLimit \in Nat
    BY <2>1, PageAssumption, HeldCount DEF LanesInv, Filled
  <2>3. ~(w + held >= QueueLimit)
    BY <1>17, <2>1, BufferedHeld DEF Full
  <2>4. w + held + 1 <= QueueLimit
    BY <1>18, <2>2, <2>3
  <2> QED
    BY <1>17, <2>1, <2>4
<1>21. /\ queued' = queued - Pending(lanes)[i] + Len(r.pending)
       /\ queued' + r.buffered <= queued + InSockets(lanes)[i] + 1
  BY <1>3, <1>17, <1>19
<1>22. 1 \in Nat
  OBVIOUS
<1> QED
  BY <1>1, <1>12, <1>14, <1>16, <1>20, <1>21, <1>22, LaneStep

LEMMA queueWebSocketLaneStep ==
  ASSUME LanesInv, NEW i \in LaneIds, NEW ty, queueWebSocketLane(ty, i)
  PROVE  LanesInv'
<1>1. CASE UNCHANGED <<lanes, queued, order, told>>
  BY <1>1, LanesStutter
<1>2. CASE ~Refused(ty, i) /\ ~Full(Old(i)) /\ Enter(ty, i)
  BY <1>2, EnterStep
<1> QED
  BY <1>1, <1>2 DEF queueWebSocketLane, Fail, Old

LEMMA LanesKept ==
  ASSUME LanesInv, [LNext]_allvars
  PROVE  LanesInv'
<1>1. CASE UNCHANGED lvars
  BY <1>1, LanesStutter DEF lvars
<1>2. ASSUME NEW i \in LaneIds, NEW ty, queueWebSocketLane(ty, i)
      PROVE  LanesInv'
  BY <1>2, queueWebSocketLaneStep
<1>3. ASSUME NEW i \in LaneIds, Socket(i)
      PROVE  LanesInv'
  <2>1. CASE CrossLane(i)
    BY <2>1, LanesStutter DEF CrossLane, Fail
  <2> QED
    BY <1>3, <2>1, SocketOpensStep, SocketEndsStep, LaneDrainsStep, LaneTimerStep,
       RelayCloseStep, OnCloseStep DEF Socket
<1>4. CASE CloseLanes
  BY <1>4, LanesStutter DEF CloseLanes, Fail
<1> QED
  BY <1>1, <1>2, <1>3, <1>4 DEF LNext, Base, allvars

\* The lanes' invariant holds in every reachable state.
THEOREM LanesCorrect == LSpec => []LanesInv
<1>1. LInit => LanesInv
  BY LanesStart
<1>2. LanesInv /\ [LNext]_allvars => LanesInv'
  BY LanesKept
<1> QED
  BY <1>1, <1>2, PTL DEF LSpec

\* The application learns the end of every lane, and the page reports it only
\* when neither the application nor the relay has (finishWebSocketLane).
THEOREM EndsTold == LSpec => []EndTold
<1>1. LanesInv => EndTold
  <2> SUFFICES ASSUME LanesInv, NEW i \in LaneIds
               PROVE  /\ ~closed /\ i \in ClosedLanes => told[i] # <<>>
                      /\ \A n \in DOMAIN told[i] :
                           told[i][n] = "page" => n = 1 /\ i \notin Live
    BY DEF EndTold
  <2>1. DOMAIN told[i] = 1 .. Len(told[i])
    BY LenProperties DEF LanesInv, LanesTyped, Tellings
  <2>2. i \in Live => \A n \in 1 .. Len(told[i]) : told[i][n] # "page"
    BY LiveLane DEF Sound
  <2> QED
    BY <2>1, <2>2 DEF LanesInv, Ends
<1> QED
  BY <1>1, LanesCorrect, PTL

\* The page counts what its lanes hold, lane by lane in order, within its limit
\* with what the sockets buffer; no live lane is among the closed ones (reserve,
\* release, runWebSocketLaneUp, finishWebSocketLane, rememberLaneClosed).
THEOREM LanesCounted == LSpec => []LanesAccounted
<1>1. LanesInv => LanesAccounted
  <2> SUFFICES ASSUME LanesInv
               PROVE  LanesAccounted
    OBVIOUS
  <2>1. queued + Buffered <= QueueLimit
    BY BufferedHeld DEF LanesInv, Filled
  <2>2. queued = Cardinality({p \in LaneIds \X (1 .. LaneLimit) :
                                p[1] \in Live /\ p[2] \in DOMAIN lanes[p[1]].pending})
    <3>1. ASSUME NEW p \in LaneIds \X (1 .. LaneLimit)
          PROVE  (p[1] \in Live /\ p[2] \in DOMAIN lanes[p[1]].pending)
                   <=> p[2] <= Pending(lanes)[p[1]]
      <4>1. p[1] \in LaneIds /\ p[2] \in Nat \ {0}
        BY LanesAssumption
      <4>2. CASE p[1] \notin Live
        BY <4>1, <4>2 DEF Pending, Live
      <4>3. CASE p[1] \in Live
        <5>1. PICK i, n, l : i = p[1] /\ n = p[2] /\ l = lanes[i]
          OBVIOUS
        <5>2. Pending(lanes)[i] = Len(l.pending) /\ l \in LaneRecs
          BY <4>3, <5>1, LiveLane
        <5>3. DOMAIN l.pending = 1 .. Len(l.pending) /\ Len(l.pending) \in Nat
          BY <5>2, LaneParts, LenProperties DEF Bodies
        <5>4. n \in DOMAIN l.pending <=> n <= Len(l.pending)
          BY <4>1, <5>1, <5>3
        <5> QED
          BY <4>3, <5>1, <5>2, <5>4
      <4> QED
        BY <4>2, <4>3
    <3>2. {p \in LaneIds \X (1 .. LaneLimit) :
             p[1] \in Live /\ p[2] \in DOMAIN lanes[p[1]].pending}
            = Held(Pending(lanes), LaneLimit)
      BY <3>1 DEF Held
    <3> QED
      BY <3>2 DEF LanesInv, Filled
  <2>3. \A i \in Live : /\ lanes[i].sent \o lanes[i].pending = [n \in 1 .. lanes[i].count |-> n]
                        /\ i \notin ClosedLanes
    BY LiveLane DEF Sound, Upto
  <2>4. Cardinality(ClosedLanes) = Len(order)
    <3>1. order \in Seq(LaneIds) /\ Len(order) \in Nat /\ DOMAIN order = 1 .. Len(order)
      BY LenProperties DEF LanesInv, LanesTyped
    <3>2. order \in [1 .. Len(order) -> ClosedLanes]
      <4>1. \A n \in 1 .. Len(order) : order[n] \in ClosedLanes
        BY <3>1 DEF ClosedLanes
      <4>2. order = [n \in 1 .. Len(order) |-> order[n]]
        BY <3>1
      <4> QED
        BY <4>1, <4>2
    <3>3. \A m, n \in 1 .. Len(order) : order[m] = order[n] => m = n
      BY DEF LanesInv, Remembered
    <3>4. \A i \in ClosedLanes : \E n \in 1 .. Len(order) : order[n] = i
      BY <3>1 DEF ClosedLanes
    <3>5. order \in Bijection(1 .. Len(order), ClosedLanes)
      BY <3>2, <3>3, <3>4, Fun_IsBij
    <3>6. ExistsBijection(1 .. Len(order), ClosedLanes)
      BY <3>5 DEF ExistsBijection
    <3> QED
      BY <3>1, <3>6, FS_CountingElements
  <2> QED
    BY <2>1, <2>2, <2>3, <2>4 DEF LanesAccounted
<1> QED
  BY <1>1, LanesCorrect, PTL
=============================================================================
