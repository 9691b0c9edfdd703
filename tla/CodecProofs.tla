---------------------------- MODULE CodecProofs ----------------------------
(* Theorems about FrameCodec.tla, for every base and limit: the relay and   *)
(* the page read the wire format as the relay writes it.                    *)
EXTENDS FrameCodec, SequenceTheorems, WellFoundedInduction, TLAPS

-----------------------------------------------------------------------------
(* Numbers and their digits *)

LEMMA ProductGrows ==
  ASSUME NEW k \in Nat, NEW d \in Nat, k >= 1
  PROVE  k * d >= d /\ k * d \in Nat
<1>1. PICK j \in Nat : k = j + 1
  <2>1. k - 1 \in Nat /\ k = (k - 1) + 1
    OBVIOUS
  <2> QED
    BY <2>1
<1>2. j * d \in Nat /\ k * d = j * d + d
  BY <1>1
<1> QED
  BY <1>2

\* A number is its digits before the last, shifted, and its last.
LEMMA DigitsApart ==
  ASSUME NEW n \in Nat
  PROVE  /\ Shifted(n) \in Nat /\ Low(n) \in Byte
         /\ n = Shifted(n) * Base + Low(n)
BY CodecAssumption DEF Shifted, Low, Byte

LEMMA DigitsJoined ==
  ASSUME NEW n \in Nat, NEW d \in Byte
  PROVE  Shifted(n * Base + d) = n /\ Low(n * Base + d) = d /\ n * Base + d \in Nat
<1>1. PICK m : m = n * Base + d
  OBVIOUS
<1>2. m \in Nat /\ Base \in Nat /\ d \in Nat /\ d < Base
  <2>1. n * Base \in Nat
    BY CodecAssumption
  <2> QED
    BY <1>1, <2>1, CodecAssumption DEF Byte
<1>3. PICK s \in Nat, l \in Byte : s = Shifted(m) /\ l = Low(m) /\ m = s * Base + l
  BY <1>2, DigitsApart
<1>4. l \in Nat /\ l < Base
  BY <1>3, CodecAssumption DEF Byte
<1>5. ~ s < n
  <2> SUFFICES ASSUME s < n PROVE FALSE
    OBVIOUS
  <2>1. PICK k \in Nat : n = s + k /\ k >= 1
    <3>1. n - s \in Nat /\ n = s + (n - s) /\ n - s >= 1
      OBVIOUS
    <3> QED
      BY <3>1
  <2>2. n * Base = s * Base + k * Base
    BY <1>2, <2>1
  <2>3. k * Base >= Base /\ k * Base \in Nat
    BY <1>2, <2>1, ProductGrows
  <2>4. s * Base \in Nat
    BY <1>2
  <2> QED
    BY <1>1, <1>2, <1>3, <1>4, <2>2, <2>3, <2>4
<1>6. ~ n < s
  <2> SUFFICES ASSUME n < s PROVE FALSE
    OBVIOUS
  <2>1. PICK k \in Nat : s = n + k /\ k >= 1
    <3>1. s - n \in Nat /\ s = n + (s - n) /\ s - n >= 1
      OBVIOUS
    <3> QED
      BY <3>1
  <2>2. s * Base = n * Base + k * Base
    BY <1>2, <2>1
  <2>3. k * Base >= Base /\ k * Base \in Nat
    BY <1>2, <2>1, ProductGrows
  <2>4. n * Base \in Nat
    BY <1>2
  <2> QED
    BY <1>1, <1>2, <1>3, <1>4, <2>2, <2>3, <2>4
<1>7. s = n
  BY <1>5, <1>6
<1>8. n * Base \in Nat
  BY <1>2
<1> QED
  BY <1>1, <1>2, <1>3, <1>4, <1>7, <1>8

\* Four bytes and their number; three and theirs.
LEMMA NumberTyped ==
  ASSUME NEW a \in Byte, NEW b \in Byte, NEW c \in Byte, NEW d \in Byte
  PROVE  UInt24(a, b, c) \in Nat /\ UInt32(a, b, c, d) \in Nat
<1>1. a \in Nat
  BY CodecAssumption DEF Byte
<1>2. a * Base + b \in Nat
  BY <1>1, DigitsJoined
<1>3. (a * Base + b) * Base + c \in Nat
  BY <1>2, DigitsJoined
<1>4. ((a * Base + b) * Base + c) * Base + d \in Nat
  BY <1>3, DigitsJoined
<1> QED
  BY <1>3, <1>4 DEF UInt24, UInt32

LEMMA DigitsOfNumber ==
  ASSUME NEW a \in Byte, NEW b \in Byte, NEW c \in Byte, NEW d \in Byte,
         NEW n, n = UInt24(a, b, c)
  PROVE  /\ Low(n) = c /\ Low(Shifted(n)) = b /\ Low(Shifted(Shifted(n))) = a
         /\ Shifted(Shifted(n)) = a
<1>1. a \in Nat
  BY CodecAssumption DEF Byte
<1>2. PICK ab \in Nat : ab = a * Base + b /\ Shifted(ab) = a /\ Low(ab) = b
  BY <1>1, DigitsJoined
<1>3. Shifted(n) = ab /\ Low(n) = c
  BY <1>2, DigitsJoined DEF UInt24
<1>4. Low(a) = a
  <2>1. 0 \in Nat /\ 0 * Base + a = a
    BY <1>1, CodecAssumption
  <2> QED
    BY <2>1, DigitsJoined
<1> QED
  BY <1>2, <1>3, <1>4

LEMMA DigitsOfLong ==
  ASSUME NEW a \in Byte, NEW b \in Byte, NEW c \in Byte, NEW d \in Byte,
         NEW n, n = UInt32(a, b, c, d)
  PROVE  /\ Low(n) = d /\ Low(Shifted(n)) = c /\ Low(Shifted(Shifted(n))) = b
         /\ Low(Shifted(Shifted(Shifted(n)))) = a
<1>1. PICK abc \in Nat : abc = UInt24(a, b, c)
  BY NumberTyped
<1>2. Shifted(n) = abc /\ Low(n) = d
  BY <1>1, DigitsJoined DEF UInt32
<1> QED
  BY <1>1, <1>2, DigitsOfNumber

\* The digits of a number of that length, and their number.
LEMMA FitsBelow ==
  ASSUME NEW n \in Nat, NEW m \in Nat, n < m * Base
  PROVE  Shifted(n) < m
<1>1. PICK s \in Nat, l \in Byte : s = Shifted(n) /\ n = s * Base + l
  BY DigitsApart
<1>2. l \in Nat /\ Base \in Nat
  BY CodecAssumption DEF Byte
<1> SUFFICES ASSUME s >= m PROVE FALSE
  BY <1>1
<1>3. PICK k \in Nat : s = m + k
  <2>1. s - m \in Nat /\ s = m + (s - m)
    OBVIOUS
  <2> QED
    BY <2>1
<1>4. s * Base = m * Base + k * Base /\ k * Base \in Nat /\ m * Base \in Nat
  BY <1>2, <1>3
<1> QED
  BY <1>1, <1>2, <1>4

LEMMA NumberOfDigits ==
  ASSUME NEW n \in Nat, n < Base * Base * Base
  PROVE  UInt24(Low(Shifted(Shifted(n))), Low(Shifted(n)), Low(n)) = n
<1>1. Base \in Nat /\ Base * Base \in Nat
  BY CodecAssumption
<1>2. PICK s \in Nat : s = Shifted(n) /\ n = s * Base + Low(n) /\ s < Base * Base
  BY <1>1, DigitsApart, FitsBelow
<1>3. PICK t \in Nat : t = Shifted(s) /\ s = t * Base + Low(s) /\ t < Base
  BY <1>1, <1>2, DigitsApart, FitsBelow
<1>4. Low(t) = t
  <2>1. t \in Byte /\ 0 \in Nat /\ 0 * Base + t = t
    BY <1>1, <1>3 DEF Byte
  <2> QED
    BY <2>1, DigitsJoined
<1> QED
  BY <1>2, <1>3, <1>4 DEF UInt24

LEMMA LongOfDigits ==
  ASSUME NEW n \in Nat, n < Base * Base * Base * Base
  PROVE  UInt32(Low(Shifted(Shifted(Shifted(n)))), Low(Shifted(Shifted(n))),
                Low(Shifted(n)), Low(n)) = n
<1>1. Base * Base * Base \in Nat
  <2>1. Base \in Nat /\ Base * Base \in Nat
    BY CodecAssumption
  <2> QED
    BY <2>1
<1>2. PICK s \in Nat : s = Shifted(n) /\ n = s * Base + Low(n) /\ s < Base * Base * Base
  BY <1>1, DigitsApart, FitsBelow
<1>3. UInt24(Low(Shifted(Shifted(s))), Low(Shifted(s)), Low(s)) = s
  BY <1>2, NumberOfDigits
<1> QED
  BY <1>2, <1>3 DEF UInt32

-----------------------------------------------------------------------------
(* Induction, over sets of numbers *)

\* A set of numbers has a least element.
LEMMA Least ==
  ASSUME NEW T \in SUBSET Nat, T # {}
  PROVE  \E x \in T : \A y \in T : x <= y
<1>1. PICK x \in T : \A y \in T : ~(<<y, x>> \in OpToRel(<, Nat))
  BY NatLessThanWellFounded, WFMin
<1>2. ASSUME NEW y \in T, y < x PROVE FALSE
  <2>1. <<y, x>> \in Nat \X Nat /\ <<y, x>>[1] < <<y, x>>[2]
    BY <1>2
  <2>2. <<y, x>> \in OpToRel(<, Nat)
    BY <2>1 DEF OpToRel
  <2> QED
    BY <1>1, <2>2
<1>3. T \subseteq Nat
  OBVIOUS
<1>4. ASSUME NEW y \in T PROVE x <= y
  BY <1>2, <1>3, <1>4
<1> QED
  BY <1>4

\* What holds of 0 and of the successor of each it holds of, holds up to last.
LEMMA Upward ==
  ASSUME NEW last \in Nat, NEW T, 0 \in T,
         \A n \in 0 .. last - 1 : n \in T => n + 1 \in T
  PROVE  \A n \in 0 .. last : n \in T
<1> SUFFICES ASSUME NEW bad \in 0 .. last, bad \notin T PROVE FALSE
  OBVIOUS
<1>1. PICK rest : rest = {n \in 0 .. last : n \notin T}
  OBVIOUS
<1>2. rest \in SUBSET Nat /\ rest # {}
  BY <1>1
<1>3. PICK x \in rest : \A y \in rest : x <= y
  BY <1>2, Least
<1>4. x \in 0 .. last /\ x \notin T /\ x # 0
  BY <1>1, <1>3
<1>5. x - 1 \in 0 .. last - 1 /\ (x - 1) + 1 = x
  BY <1>4
<1>6. x - 1 \notin rest
  BY <1>3, <1>5
<1>7. x - 1 \in T
  BY <1>1, <1>5, <1>6
<1> QED
  BY <1>4, <1>5, <1>7

-----------------------------------------------------------------------------
(* Loops over a buffer *)

Stepped(next, last, p) == IF p \in 1 .. last THEN next[p] ELSE p

\* The function Walk chooses, and the same for the first m turns.
Walks(at, next, last) ==
  at = [k \in 0 .. last |-> IF k = 0 THEN 1 ELSE Stepped(next, last, at[k - 1])]

WalksTo(at, next, last, m) ==
  /\ at = [k \in 0 .. m |-> at[k]]
  /\ at[0] = 1
  /\ \A k \in 1 .. m : at[k] = Stepped(next, last, at[k - 1])

LEMMA WalkChosen ==
  ASSUME NEW next, NEW last
  PROVE  Walk(next, last) = CHOOSE at : Walks(at, next, last)
BY DEF Walk, Walks, Stepped

LEMMA WalksFurther ==
  ASSUME NEW next, NEW last, NEW m \in Nat, NEW at, WalksTo(at, next, last, m)
  PROVE  \E more : WalksTo(more, next, last, m + 1)
<1>1. PICK more : more = [k \in 0 .. m + 1 |-> IF k <= m THEN at[k]
                                               ELSE Stepped(next, last, at[m])]
  OBVIOUS
<1>2. \A k \in 0 .. m : more[k] = at[k]
  BY <1>1
<1>3. more[m + 1] = Stepped(next, last, at[m])
  BY <1>1
<1>4. more = [k \in 0 .. m + 1 |-> more[k]]
  BY <1>1
<1>5. more[0] = 1
  BY <1>2 DEF WalksTo
<1>6. ASSUME NEW k \in 1 .. m + 1 PROVE more[k] = Stepped(next, last, more[k - 1])
  <2>1. CASE k = m + 1
    <3>1. k - 1 = m /\ m \in 0 .. m
      BY <2>1
    <3> QED
      BY <1>2, <1>3, <2>1, <3>1
  <2>2. CASE k \in 1 .. m
    <3>1. k \in 0 .. m /\ k - 1 \in 0 .. m
      BY <2>2
    <3> QED
      BY <1>2, <2>2, <3>1 DEF WalksTo
  <2>3. k = m + 1 \/ k \in 1 .. m
    OBVIOUS
  <2> QED
    BY <2>1, <2>2, <2>3
<1> QED
  BY <1>4, <1>5, <1>6 DEF WalksTo

\* Walk is that function.
LEMMA WalkIs ==
  ASSUME NEW next, NEW last \in Nat
  PROVE  WalksTo(Walk(next, last), next, last, last)
<1>1. PICK T : T = {m \in 0 .. last : \E at : WalksTo(at, next, last, m)}
  OBVIOUS
<1>2. 0 \in T
  <2>1. PICK at : at = [k \in 0 .. 0 |-> 1]
    OBVIOUS
  <2>2. WalksTo(at, next, last, 0)
    BY <2>1 DEF WalksTo
  <2> QED
    BY <1>1, <2>2
<1>3. ASSUME NEW m \in 0 .. last - 1, m \in T PROVE m + 1 \in T
  <2>1. PICK at : WalksTo(at, next, last, m)
    BY <1>1, <1>3
  <2>2. \E more : WalksTo(more, next, last, m + 1)
    BY <2>1, WalksFurther
  <2>3. m + 1 \in 0 .. last
    OBVIOUS
  <2> QED
    BY <1>1, <2>2, <2>3
<1>4. \A m \in 0 .. last - 1 : m \in T => m + 1 \in T
  BY <1>3
<1>5. last \in T
  BY <1>2, <1>4, Upward
<1>6. PICK found : WalksTo(found, next, last, last)
  BY <1>1, <1>5
<1>7. ASSUME NEW at PROVE Walks(at, next, last) <=> WalksTo(at, next, last, last)
  <2>1. ASSUME Walks(at, next, last) PROVE WalksTo(at, next, last, last)
    <3>1. at = [k \in 0 .. last |-> IF k = 0 THEN 1 ELSE Stepped(next, last, at[k - 1])]
      BY <2>1 DEF Walks
    <3>2. \A k \in 0 .. last : at[k] = IF k = 0 THEN 1 ELSE Stepped(next, last, at[k - 1])
      BY <3>1
    <3>3. at = [k \in 0 .. last |-> at[k]]
      BY <3>1, <3>2
    <3>4. at[0] = 1
      BY <3>2
    <3>5. ASSUME NEW k \in 1 .. last PROVE at[k] = Stepped(next, last, at[k - 1])
      <4>1. k \in 0 .. last /\ k # 0
        OBVIOUS
      <4> QED
        BY <3>2, <4>1
    <3> QED
      BY <3>3, <3>4, <3>5 DEF WalksTo
  <2>2. ASSUME WalksTo(at, next, last, last) PROVE Walks(at, next, last)
    <3>1. at[0] = 1 /\ \A k \in 1 .. last : at[k] = Stepped(next, last, at[k - 1])
      BY <2>2 DEF WalksTo
    <3>2. \A k \in 0 .. last : k = 0 \/ (k # 0 /\ k \in 1 .. last)
      OBVIOUS
    <3>3. \A k \in 0 .. last : at[k] = IF k = 0 THEN 1 ELSE Stepped(next, last, at[k - 1])
      BY <3>1, <3>2
    <3>4. at = [k \in 0 .. last |-> at[k]]
      BY <2>2 DEF WalksTo
    <3>5. at = [k \in 0 .. last |-> IF k = 0 THEN 1 ELSE Stepped(next, last, at[k - 1])]
      BY <3>3, <3>4
    <3> QED
      BY <3>5 DEF Walks
  <2> QED
    BY <2>1, <2>2
<1>8. PICK at : at = CHOOSE x : Walks(x, next, last)
  OBVIOUS
<1>9. Walks(at, next, last)
  BY <1>6, <1>7, <1>8
<1> QED
  BY <1>7, <1>8, <1>9, WalkChosen

\* A loop that advances goes through n turns, and then stands behind the last
\* byte or has failed.
Advances(next, last) ==
  \A p \in 1 .. last : next[p] = 0 \/ (next[p] \in 1 .. last + 1 /\ next[p] > p)

Path(at, next, last, n) ==
  /\ n \in 0 .. last
  /\ at[0] = 1
  /\ \A k \in 0 .. n - 1 : at[k] \in 1 .. last /\ at[k + 1] = next[at[k]]
  /\ at[n] \in {0, last + 1}

LEMMA WalkEnds ==
  ASSUME NEW next, NEW last \in Nat, Advances(next, last), NEW at, at = Walk(next, last)
  PROVE  Path(at, next, last, Turns(at, last))
<1>1. at[0] = 1 /\ \A k \in 1 .. last : at[k] = Stepped(next, last, at[k - 1])
  BY WalkIs DEF WalksTo
<1>2. PICK T : T = {k \in 0 .. last : /\ at[k] \in 0 .. last + 1
                                      /\ at[k] \in 1 .. last => at[k] > k}
  OBVIOUS
<1>3. 0 \in T
  BY <1>1, <1>2
<1>4. ASSUME NEW k \in 0 .. last - 1, k \in T PROVE k + 1 \in T
  <2>1. k + 1 \in 1 .. last /\ k + 1 \in 0 .. last /\ (k + 1) - 1 = k
    OBVIOUS
  <2>2. at[k + 1] = Stepped(next, last, at[k])
    BY <1>1, <2>1
  <2>3. at[k] \in 0 .. last + 1 /\ (at[k] \in 1 .. last => at[k] > k)
    BY <1>2, <1>4
  <2>4. CASE at[k] \in 1 .. last
    <3>1. at[k + 1] = 0 \/ (at[k + 1] \in 1 .. last + 1 /\ at[k + 1] > at[k])
      BY <2>2, <2>4 DEF Stepped, Advances
    <3>2. at[k + 1] \in 0 .. last + 1 /\ (at[k + 1] \in 1 .. last => at[k + 1] > k + 1)
      BY <2>3, <2>4, <3>1
    <3> QED
      BY <1>2, <2>1, <3>2
  <2>5. CASE at[k] \notin 1 .. last
    <3>1. at[k + 1] = at[k]
      BY <2>2, <2>5 DEF Stepped
    <3> QED
      BY <1>2, <2>1, <2>3, <2>5, <3>1
  <2> QED
    BY <2>4, <2>5
<1>5. \A k \in 0 .. last - 1 : k \in T => k + 1 \in T
  BY <1>4
<1>6. \A k \in 0 .. last : k \in T
  BY <1>3, <1>5, Upward
<1>7. PICK over : over = {k \in 0 .. last : at[k] \notin 1 .. last}
  OBVIOUS
<1>8. last \in over
  <2>1. last \in T
    BY <1>6
  <2> QED
    BY <1>2, <1>7, <2>1
<1>9. PICK n \in over : \A k \in over : n <= k
  <2>1. over \in SUBSET Nat /\ over # {}
    BY <1>7, <1>8
  <2> QED
    BY <2>1, Least
<1>10. n \in 0 .. last /\ at[n] \notin 1 .. last /\ \A k \in 0 .. n - 1 : at[k] \in 1 .. last
  <2>1. n \in 0 .. last /\ at[n] \notin 1 .. last
    BY <1>7, <1>9
  <2>2. ASSUME NEW k \in 0 .. n - 1 PROVE at[k] \in 1 .. last
    <3>1. k \in 0 .. last /\ ~(n <= k)
      BY <2>1
    <3> QED
      BY <1>7, <1>9, <3>1
  <2> QED
    BY <2>1, <2>2
<1>11. PICK t : t = Turns(at, last)
  OBVIOUS
<1>12. t \in 0 .. last /\ at[t] \notin 1 .. last /\ \A k \in 0 .. t - 1 : at[k] \in 1 .. last
  BY <1>10, <1>11 DEF Turns
<1>13. at[t] \in {0, last + 1}
  <2>1. t \in T
    BY <1>6, <1>12
  <2>2. at[t] \in 0 .. last + 1
    BY <1>2, <2>1
  <2> QED
    BY <1>12, <2>2
<1>14. ASSUME NEW k \in 0 .. t - 1 PROVE at[k] \in 1 .. last /\ at[k + 1] = next[at[k]]
  <2>1. k + 1 \in 1 .. last /\ (k + 1) - 1 = k /\ at[k] \in 1 .. last
    BY <1>12
  <2>2. at[k + 1] = Stepped(next, last, at[k])
    BY <1>1, <2>1
  <2> QED
    BY <2>1, <2>2 DEF Stepped
<1> QED
  BY <1>1, <1>11, <1>12, <1>13, <1>14 DEF Path

\* Two loops that do the same wherever the first one comes are one.
LEMMA SamePath ==
  ASSUME NEW last \in Nat, NEW at, NEW next, NEW n, Path(at, next, last, n),
         NEW other, NEW leads, NEW m, Path(other, leads, last, m),
         \A k \in 0 .. n - 1 : leads[at[k]] = next[at[k]]
  PROVE  m = n /\ \A k \in 0 .. n : other[k] = at[k]
<1>1. /\ n \in 0 .. last /\ at[0] = 1 /\ at[n] \in {0, last + 1}
      /\ \A k \in 0 .. n - 1 : at[k] \in 1 .. last /\ at[k + 1] = next[at[k]]
  BY DEF Path
<1>2. /\ m \in 0 .. last /\ other[0] = 1 /\ other[m] \in {0, last + 1}
      /\ \A k \in 0 .. m - 1 : other[k] \in 1 .. last /\ other[k + 1] = leads[other[k]]
  BY DEF Path
<1>3. PICK T : T = {k \in 0 .. n : k <= m /\ other[k] = at[k]}
  OBVIOUS
<1>4. 0 \in T
  BY <1>1, <1>2, <1>3
<1>5. ASSUME NEW k \in 0 .. n - 1, k \in T PROVE k + 1 \in T
  <2>1. k <= m /\ other[k] = at[k] /\ at[k] \in 1 .. last /\ at[k + 1] = next[at[k]]
    BY <1>1, <1>3, <1>5
  <2>2. k # m
    BY <1>2, <2>1
  <2>3. k \in 0 .. m - 1 /\ k + 1 <= m /\ k + 1 \in 0 .. n
    BY <1>1, <1>2, <2>1, <2>2
  <2>4. other[k + 1] = leads[other[k]]
    BY <1>2, <2>3
  <2> QED
    BY <1>3, <2>1, <2>3, <2>4
<1>6. \A k \in 0 .. n - 1 : k \in T => k + 1 \in T
  BY <1>5
<1>7. \A k \in 0 .. n : k \in T
  BY <1>1, <1>4, <1>6, Upward
<1>8. n <= m /\ other[n] = at[n]
  BY <1>1, <1>3, <1>7
<1>9. ~ n < m
  BY <1>1, <1>2, <1>8
<1> QED
  BY <1>1, <1>2, <1>3, <1>7, <1>8, <1>9

-----------------------------------------------------------------------------
(* One frame *)

Bytes == Seq(Byte)
Frames == [ty : Byte, id : Ids, payload : Payloads]

LEMMA BytesTyped ==
  ASSUME NEW s \in Bytes
  PROVE  Len(s) \in Nat /\ DOMAIN s = 1 .. Len(s) /\ \A i \in 1 .. Len(s) : s[i] \in Byte
BY LenProperties, ElementOfSeq DEF Bytes

\* A part of a buffer.
LEMMA PartOf ==
  ASSUME NEW b \in Bytes, NEW p \in 1 .. Len(b) + 1, NEW q \in p - 1 .. Len(b)
  PROVE  /\ SubSeq(b, p, q) \in Bytes /\ Len(SubSeq(b, p, q)) = q - p + 1
         /\ \A i \in 1 .. q - p + 1 : SubSeq(b, p, q)[i] = b[p + i - 1]
<1>1. Len(b) \in Nat /\ \A i \in 1 .. Len(b) : b[i] \in Byte
  BY BytesTyped
<1>2. p \in Int /\ q \in Int /\ \A i \in p .. q : b[i] \in Byte
  BY <1>1
<1>3. /\ SubSeq(b, p, q) \in Seq(Byte)
      /\ Len(SubSeq(b, p, q)) = IF p <= q THEN q - p + 1 ELSE 0
      /\ \A i \in 1 .. q - p + 1 : SubSeq(b, p, q)[i] = b[p + i - 1]
  BY <1>2, SubSeqProperties
<1> QED
  BY <1>1, <1>3 DEF Bytes

\* A function on 1 .. n is a sequence of that length.
LEMMA SequenceOf ==
  ASSUME NEW S, NEW n \in Nat, NEW s \in [1 .. n -> S]
  PROVE  s \in Seq(S) /\ Len(s) = n /\ DOMAIN s = 1 .. n
<1>1. s \in Seq(S)
  BY SeqDef
<1>2. PICK m \in Nat : m = Len(s) /\ DOMAIN s = 1 .. m
  BY <1>1, LenProperties
<1>3. DOMAIN s = 1 .. n
  OBVIOUS
<1>4. (m \in 1 .. m <=> m \in 1 .. n) /\ (n \in 1 .. m <=> n \in 1 .. n)
  BY <1>2, <1>3
<1>5. m = n
  BY <1>4
<1> QED
  BY <1>1, <1>2, <1>3, <1>5

\* Payloads are sequences of bytes within the limit.
LEMMA PayloadTyped ==
  ASSUME NEW s
  PROVE  s \in Payloads <=> s \in Bytes /\ Len(s) \in 0 .. MaxPayload
<1>1. ASSUME s \in Payloads PROVE s \in Bytes /\ Len(s) \in 0 .. MaxPayload
  <2>1. PICK n \in 0 .. MaxPayload : s \in [1 .. n -> Byte]
    BY <1>1 DEF Payloads
  <2>2. n \in Nat
    BY CodecAssumption
  <2>3. s \in Seq(Byte) /\ Len(s) = n
    BY <2>1, <2>2, SequenceOf
  <2> QED
    BY <2>1, <2>3 DEF Bytes
<1>2. ASSUME s \in Bytes, Len(s) \in 0 .. MaxPayload PROVE s \in Payloads
  <2>1. s \in [1 .. Len(s) -> Byte]
    BY <1>2, LenProperties DEF Bytes
  <2> QED
    BY <1>2, <2>1 DEF Payloads
<1> QED
  BY <1>1, <1>2

\* The greater digits, the greater number.
LEMMA Ordered ==
  ASSUME NEW n \in Nat, NEW m \in Nat, n <= m, NEW a \in Nat, NEW b \in Nat, a <= b
  PROVE  n * Base + a <= m * Base + b /\ n * Base + a \in Nat /\ m * Base + b \in Nat
<1>1. PICK k \in Nat : m = n + k
  <2>1. m - n \in Nat /\ m = n + (m - n)
    OBVIOUS
  <2> QED
    BY <2>1
<1>2. /\ n * Base \in Nat /\ m * Base \in Nat /\ k * Base \in Nat
      /\ m * Base = n * Base + k * Base
  BY <1>1, CodecAssumption
<1> QED
  BY <1>2

\* Three bytes hold all stream ids and no other number.
LEMMA IdsAre ==
  Ids = {n \in Nat : n < Base * Base * Base}
<1>1. PICK d \in Nat : Base = d + 1
  <2>1. Base - 1 \in Nat /\ Base = (Base - 1) + 1
    BY CodecAssumption
  <2> QED
    BY <2>1
<1>2. Base - 1 = d
  BY <1>1
<1>3. UInt24(d, d, d) = (d * (d + 1) + d) * (d + 1) + d
  BY <1>1 DEF UInt24
<1>4. PICK e \in Nat : e = d * d
  BY <1>1
<1>5. d * (d + 1) + d = e + 2 * d /\ (d + 1) * (d + 1) = e + 2 * d + 1
  BY <1>4
<1>6. PICK g \in Nat : g = e + 2 * d
  BY <1>4
<1>7. (d * (d + 1) + d) * (d + 1) + d = g * (d + 1) + d
  BY <1>5, <1>6
<1>8. (d + 1) * (d + 1) * (d + 1) = (g + 1) * (d + 1)
  BY <1>5, <1>6
<1>9. (g + 1) * (d + 1) = g * (d + 1) + d + 1 /\ g * (d + 1) \in Nat
  BY <1>6
<1>10. PICK h \in Nat : h = g * (d + 1) + d
  BY <1>9
<1>11. UInt24(Base - 1, Base - 1, Base - 1) = h /\ Base * Base * Base = h + 1
  BY <1>1, <1>2, <1>3, <1>7, <1>8, <1>9, <1>10
<1> QED
  BY <1>10, <1>11 DEF Ids

LEMMA NumberInIds ==
  ASSUME NEW a \in Byte, NEW b \in Byte, NEW c \in Byte
  PROVE  UInt24(a, b, c) \in Ids
<1>0. PICK m \in Nat : m = Base - 1 /\ Base = m + 1
  <2>1. Base - 1 \in Nat /\ Base = (Base - 1) + 1
    BY CodecAssumption
  <2> QED
    BY <2>1
<1>1. Base = m + 1 /\ a <= m /\ b <= m /\ c <= m
  BY <1>0, CodecAssumption DEF Byte
<1>2. a \in Nat /\ b \in Nat /\ c \in Nat
  BY CodecAssumption DEF Byte
<1>3. PICK x, y \in Nat : x = a * Base + b /\ y = m * Base + m /\ x <= y
  BY <1>1, <1>2, Ordered
<1>4. x * Base + c <= y * Base + m /\ x * Base + c \in Nat
  BY <1>1, <1>2, <1>3, Ordered
<1> QED
  BY <1>0, <1>1, <1>3, <1>4 DEF UInt24, Ids

LEMMA DigitsAreBytes ==
  ASSUME NEW n \in Nat
  PROVE  /\ Low(n) \in Byte /\ Low(Shifted(n)) \in Byte /\ Low(Shifted(Shifted(n))) \in Byte
         /\ Low(Shifted(Shifted(Shifted(n)))) \in Byte
<1>1. /\ Shifted(n) \in Nat /\ Shifted(Shifted(n)) \in Nat
      /\ Shifted(Shifted(Shifted(n))) \in Nat
  BY DigitsApart
<1> QED
  BY <1>1, DigitsApart

\* What encode makes of a frame, byte by byte.
Reads(e, f) ==
  /\ Len(e) >= 8 + Len(f.payload)
  /\ e[1] = f.ty /\ UInt24(e[2], e[3], e[4]) = f.id
  /\ UInt32(e[5], e[6], e[7], e[8]) = Len(f.payload)
  /\ \A i \in 1 .. Len(f.payload) : e[8 + i] = f.payload[i]

LEMMA EncodeReads ==
  ASSUME NEW f \in Frames
  PROVE  /\ encode(f) \in Bytes /\ Len(encode(f)) = 8 + Len(f.payload)
         /\ Reads(encode(f), f)
<1>1. /\ f.ty \in Byte /\ f.id \in Nat /\ f.id < Base * Base * Base
      /\ f.payload \in Bytes /\ Len(f.payload) \in Nat
      /\ Len(f.payload) < Base * Base * Base * Base
  <2>1. f.ty \in Byte /\ f.id \in Ids /\ f.payload \in Payloads
    BY DEF Frames
  <2>2. f.payload \in Bytes /\ Len(f.payload) \in 0 .. MaxPayload
    BY <2>1, PayloadTyped
  <2> QED
    BY <2>1, <2>2, IdsAre, CodecAssumption
<1>2. PICK a, b, c : /\ a = Low(Shifted(Shifted(f.id))) /\ b = Low(Shifted(f.id))
                     /\ c = Low(f.id)
  OBVIOUS
<1>3. a \in Byte /\ b \in Byte /\ c \in Byte /\ UInt24(a, b, c) = f.id
  BY <1>1, <1>2, DigitsAreBytes, NumberOfDigits
<1>4. PICK w, x, y, z :
        /\ w = Low(Shifted(Shifted(Shifted(Len(f.payload)))))
        /\ x = Low(Shifted(Shifted(Len(f.payload)))) /\ y = Low(Shifted(Len(f.payload)))
        /\ z = Low(Len(f.payload))
  OBVIOUS
<1>5. /\ w \in Byte /\ x \in Byte /\ y \in Byte /\ z \in Byte
      /\ UInt32(w, x, y, z) = Len(f.payload)
  BY <1>1, <1>4, DigitsAreBytes, LongOfDigits
<1>6. PICK header : header = <<f.ty, a, b, c, w, x, y, z>>
  OBVIOUS
<1>7. /\ header \in Bytes /\ Len(header) = 8 /\ header[1] = f.ty
      /\ header[2] = a /\ header[3] = b /\ header[4] = c
      /\ header[5] = w /\ header[6] = x /\ header[7] = y /\ header[8] = z
  BY <1>1, <1>3, <1>5, <1>6 DEF Bytes
<1>8. encode(f) = header \o f.payload
  BY <1>2, <1>4, <1>6 DEF encode
<1>9. PICK e : e = encode(f)
  OBVIOUS
<1>10. /\ e \in Bytes /\ Len(e) = 8 + Len(f.payload)
       /\ \A i \in 1 .. 8 + Len(f.payload) :
            e[i] = IF i <= 8 THEN header[i] ELSE f.payload[i - 8]
  <2>1. PICK p : p = f.payload
    OBVIOUS
  <2>2. header \in Seq(Byte) /\ p \in Seq(Byte)
    BY <1>1, <1>7, <2>1 DEF Bytes
  <2>3. /\ header \o p \in Seq(Byte) /\ Len(header \o p) = Len(header) + Len(p)
        /\ \A i \in 1 .. Len(header) + Len(p) :
             (header \o p)[i] = IF i <= Len(header) THEN header[i] ELSE p[i - Len(header)]
    BY <2>2, ConcatProperties
  <2>4. e = header \o p
    BY <1>8, <1>9, <2>1
  <2> QED
    BY <1>7, <2>1, <2>3, <2>4 DEF Bytes
<1>11. /\ e[1] = f.ty /\ e[2] = a /\ e[3] = b /\ e[4] = c
       /\ e[5] = w /\ e[6] = x /\ e[7] = y /\ e[8] = z
  <2>1. \A i \in 1 .. 8 : e[i] = header[i]
    BY <1>1, <1>10
  <2> QED
    BY <1>7, <2>1
<1>12. ASSUME NEW i \in 1 .. Len(f.payload) PROVE e[8 + i] = f.payload[i]
  <2>1. 8 + i \in 1 .. 8 + Len(f.payload) /\ ~(8 + i <= 8) /\ (8 + i) - 8 = i
    BY <1>1
  <2> QED
    BY <1>10, <2>1
<1>13. Len(e) >= 8 + Len(f.payload)
  BY <1>1, <1>10
<1> QED
  BY <1>3, <1>5, <1>9, <1>10, <1>11, <1>12, <1>13 DEF Reads

\* A frame is read from the bytes that hold it,
LEMMA DecodeReads ==
  ASSUME NEW s \in Bytes, NEW f \in Frames, Reads(s, f)
  PROVE  decode(s) = [is |-> "frame", used |-> 8 + Len(f.payload), frame |-> f]
<1>1. Len(f.payload) \in 0 .. MaxPayload /\ f.payload \in Bytes
  BY PayloadTyped DEF Frames
<1>2. Len(f.payload) \in Nat /\ MaxPayload \in Nat /\ Len(s) \in Nat
  BY <1>1, CodecAssumption, BytesTyped
<1>3. /\ Len(s) >= 8 + Len(f.payload) /\ s[1] = f.ty
      /\ UInt24(s[2], s[3], s[4]) = f.id
      /\ UInt32(s[5], s[6], s[7], s[8]) = Len(f.payload)
      /\ \A i \in 1 .. Len(f.payload) : s[8 + i] = f.payload[i]
  BY DEF Reads
<1>4. PICK q : q = 8 + Len(f.payload)
  OBVIOUS
<1>5. q \in Nat /\ q <= Len(s) /\ q - 9 + 1 = Len(f.payload)
  BY <1>2, <1>3, <1>4
<1>6. SubSeq(s, 9, q) = f.payload
  <2>1. 9 \in 1 .. Len(s) + 1 /\ q \in 9 - 1 .. Len(s)
    BY <1>2, <1>3, <1>4, <1>5
  <2>2. /\ SubSeq(s, 9, q) \in Bytes /\ Len(SubSeq(s, 9, q)) = q - 9 + 1
        /\ \A i \in 1 .. q - 9 + 1 : SubSeq(s, 9, q)[i] = s[9 + i - 1]
    BY <2>1, PartOf
  <2>3. ASSUME NEW i \in 1 .. Len(f.payload) PROVE SubSeq(s, 9, q)[i] = f.payload[i]
    <3>1. i \in 1 .. q - 9 + 1 /\ 9 + i - 1 = 8 + i
      BY <1>5
    <3> QED
      BY <1>3, <2>2, <3>1
  <2> QED
    BY <1>1, <1>5, <2>2, <2>3, SeqEqual DEF Bytes
<1>7. f = Frame(f.ty, f.id, f.payload)
  BY DEF Frames, Frame
<1>8. ~(Len(s) < 8) /\ ~(Len(f.payload) > MaxPayload) /\ ~(Len(s) < 8 + Len(f.payload))
  BY <1>1, <1>2, <1>3
<1>9. PICK len : len = UInt32(s[5], s[6], s[7], s[8])
  OBVIOUS
<1>10. decode(s) = [is |-> "frame", used |-> 8 + len,
                   frame |-> Frame(s[1], UInt24(s[2], s[3], s[4]), SubSeq(s, 8 + 1, 8 + len))]
  BY <1>3, <1>8, <1>9 DEF decode, HEADER_LEN
<1>11. 8 + 1 = 9 /\ 8 + len = q
  BY <1>3, <1>4, <1>9
<1> QED
  BY <1>3, <1>4, <1>6, <1>7, <1>10, <1>11

\* and what is read is held by them.
LEMMA DecodeHolds ==
  ASSUME NEW s \in Bytes, decode(s).is = "frame"
  PROVE  /\ decode(s).frame \in Frames /\ Reads(s, decode(s).frame)
         /\ decode(s).used = 8 + Len(decode(s).frame.payload)
<1>1. Len(s) \in Nat /\ MaxPayload \in Nat /\ \A i \in 1 .. Len(s) : s[i] \in Byte
  BY CodecAssumption, BytesTyped
<1>2. ~(Len(s) < 8)
  BY DEF decode, HEADER_LEN, Incomplete
<1>3. PICK len : len = UInt32(s[5], s[6], s[7], s[8])
  OBVIOUS
<1>4. len \in Nat /\ UInt24(s[2], s[3], s[4]) \in Nat /\ s[1] \in Byte
  <2>1. /\ s[1] \in Byte /\ s[2] \in Byte /\ s[3] \in Byte /\ s[4] \in Byte
        /\ s[5] \in Byte /\ s[6] \in Byte /\ s[7] \in Byte /\ s[8] \in Byte
    BY <1>1, <1>2
  <2> QED
    BY <1>3, <2>1, NumberTyped
<1>5. ~(len > MaxPayload) /\ ~(Len(s) < 8 + len)
  BY <1>2, <1>3 DEF decode, HEADER_LEN, Incomplete, Oversized
<1>6. PICK q, payload : q = 8 + len /\ payload = SubSeq(s, 9, q)
  OBVIOUS
<1>7. PICK f : f = Frame(s[1], UInt24(s[2], s[3], s[4]), payload)
  OBVIOUS
<1>8. decode(s) = [is |-> "frame", used |-> q, frame |-> f]
  BY <1>2, <1>3, <1>5, <1>6, <1>7 DEF decode, HEADER_LEN
<1>9. /\ payload \in Bytes /\ Len(payload) = len
      /\ \A i \in 1 .. len : payload[i] = s[8 + i]
  <2>1. 9 \in 1 .. Len(s) + 1 /\ q \in 9 - 1 .. Len(s) /\ q - 9 + 1 = len
    BY <1>1, <1>2, <1>4, <1>5, <1>6
  <2>2. /\ payload \in Bytes /\ Len(payload) = q - 9 + 1
        /\ \A i \in 1 .. q - 9 + 1 : payload[i] = s[9 + i - 1]
    BY <1>6, <2>1, PartOf
  <2>3. ASSUME NEW i \in 1 .. len PROVE payload[i] = s[8 + i]
    <3>1. i \in 1 .. q - 9 + 1 /\ 9 + i - 1 = 8 + i
      BY <2>1
    <3> QED
      BY <2>2, <3>1
  <2> QED
    BY <2>1, <2>2, <2>3
<1>10. /\ f.ty = s[1] /\ f.id = UInt24(s[2], s[3], s[4]) /\ f.payload = payload
       /\ f = [ty |-> f.ty, id |-> f.id, payload |-> f.payload]
  BY <1>7 DEF Frame
<1>11. f.payload \in Payloads
  BY <1>1, <1>4, <1>5, <1>9, <1>10, PayloadTyped
<1>12. f.id \in Ids
  <2>1. /\ s[2] \in Byte /\ s[3] \in Byte /\ s[4] \in Byte
    BY <1>1, <1>2
  <2> QED
    BY <1>10, <2>1, NumberInIds
<1>13. f \in Frames
  BY <1>4, <1>10, <1>11, <1>12 DEF Frames
<1>14. Reads(s, f)
  BY <1>1, <1>3, <1>4, <1>5, <1>9, <1>10 DEF Reads
<1>15. decode(s).frame = f /\ decode(s).used = q
  BY <1>8
<1> QED
  BY <1>6, <1>9, <1>10, <1>13, <1>14, <1>15

-----------------------------------------------------------------------------
(* The turns of the three loops *)

From(b, p) == SubSeq(b, p, Len(b))

LEMMA FromIs ==
  ASSUME NEW b \in Bytes, NEW p \in 1 .. Len(b) + 1
  PROVE  /\ From(b, p) \in Bytes /\ Len(From(b, p)) = Len(b) - p + 1
         /\ \A i \in 1 .. Len(b) - p + 1 : From(b, p)[i] = b[p + i - 1]
<1>1. Len(b) \in Nat /\ Len(b) \in p - 1 .. Len(b)
  BY BytesTyped
<1> QED
  BY <1>1, PartOf DEF From

\* Where the bytes of a frame are the same, so is the frame.
LEMMA DecodeAlike ==
  ASSUME NEW s \in Bytes, decode(s).is = "frame", NEW t \in Bytes,
         NEW used, used = decode(s).used, Len(t) >= used,
         \A i \in 1 .. used : t[i] = s[i]
  PROVE  decode(t) = decode(s)
<1>1. PICK f \in Frames : Reads(s, f) /\ used = 8 + Len(f.payload)
  BY DecodeHolds
<1>2. Len(f.payload) \in Nat
  BY PayloadTyped, BytesTyped DEF Frames
<1>3. Reads(t, f)
  <2>1. /\ t[1] = s[1] /\ t[2] = s[2] /\ t[3] = s[3] /\ t[4] = s[4]
        /\ t[5] = s[5] /\ t[6] = s[6] /\ t[7] = s[7] /\ t[8] = s[8]
    BY <1>1, <1>2
  <2>2. ASSUME NEW i \in 1 .. Len(f.payload) PROVE t[8 + i] = f.payload[i]
    <3>1. 8 + i \in 1 .. used
      BY <1>1, <1>2
    <3> QED
      BY <1>1, <3>1 DEF Reads
  <2> QED
    BY <1>1, <2>1, <2>2 DEF Reads
<1> QED
  BY <1>1, <1>3, DecodeReads

LEMMA DecodeTurnIs ==
  ASSUME NEW b \in Bytes, NEW p \in 1 .. Len(b), NEW d, d = decode(From(b, p))
  PROVE  /\ d.is = "frame" => /\ decodeTurn(b, p) = p + d.used
                              /\ d.used \in 8 .. Len(b) - p + 1
         /\ d.is # "frame" => decodeTurn(b, p) = 0
<1>1. Len(b) \in Nat /\ From(b, p) \in Bytes /\ Len(From(b, p)) = Len(b) - p + 1
  BY BytesTyped, FromIs
<1>2. decodeTurn(b, p) = IF d.is = "frame" THEN p + d.used ELSE 0
  BY DEF decodeTurn, From
<1>3. ASSUME d.is = "frame" PROVE d.used \in 8 .. Len(b) - p + 1
  <2>1. PICK f \in Frames : Reads(From(b, p), f) /\ d.used = 8 + Len(f.payload)
    BY <1>1, <1>3, DecodeHolds
  <2>2. Len(f.payload) \in Nat
    BY PayloadTyped, BytesTyped DEF Frames
  <2> QED
    BY <1>1, <2>1, <2>2 DEF Reads
<1> QED
  BY <1>2, <1>3

\* The length of a payload, as the page reads it and as the relay does.
LEMMA SameLength ==
  ASSUME NEW b \in Bytes, NEW p \in 1 .. Len(b), Len(b) - p + 1 >= 8,
         NEW s, s = From(b, p)
  PROVE  /\ getUint32(b, p + 4) = UInt32(s[5], s[6], s[7], s[8])
         /\ getUint32(b, p + 4) \in Nat
<1>0. Len(b) \in Nat /\ p \in 1 .. Len(b) + 1
  BY BytesTyped
<1>1. /\ Len(b) \in Nat /\ s \in Bytes /\ Len(s) = Len(b) - p + 1
      /\ \A i \in 1 .. Len(b) - p + 1 : s[i] = b[p + i - 1]
  BY <1>0, FromIs
<1>2. s[5] = b[p + 4] /\ s[6] = b[p + 5] /\ s[7] = b[p + 6] /\ s[8] = b[p + 7]
  <2>1. /\ 5 \in 1 .. Len(b) - p + 1 /\ 6 \in 1 .. Len(b) - p + 1
        /\ 7 \in 1 .. Len(b) - p + 1 /\ 8 \in 1 .. Len(b) - p + 1
        /\ p + 5 - 1 = p + 4 /\ p + 6 - 1 = p + 5 /\ p + 7 - 1 = p + 6 /\ p + 8 - 1 = p + 7
    BY <1>1
  <2> QED
    BY <1>1, <2>1
<1>3. (p + 4) + 1 = p + 5 /\ (p + 4) + 2 = p + 6 /\ (p + 4) + 3 = p + 7
  OBVIOUS
<1>4. s[5] \in Byte /\ s[6] \in Byte /\ s[7] \in Byte /\ s[8] \in Byte
  <2>1. /\ 5 \in 1 .. Len(s) /\ 6 \in 1 .. Len(s) /\ 7 \in 1 .. Len(s) /\ 8 \in 1 .. Len(s)
    BY <1>1
  <2> QED
    BY <1>1, <2>1, BytesTyped
<1>5. getUint32(b, p + 4) = UInt32(b[p + 4], b[p + 5], b[p + 6], b[p + 7])
  BY <1>3 DEF getUint32
<1>6. UInt32(s[5], s[6], s[7], s[8]) \in Nat
  BY <1>4, NumberTyped
<1> QED
  BY <1>2, <1>5, <1>6

\* The relay goes where the page does, and frameBound where the relay does.
LEMMA SplitAsDecoded ==
  ASSUME NEW b \in Bytes, NEW p \in 1 .. Len(b), splitTurn(b, p) # 0
  PROVE  decodeTurn(b, p) = splitTurn(b, p)
<1>1. ~(Len(b) - p + 1 < 8) /\ Len(b) \in Nat /\ MaxPayload \in Nat
  BY BytesTyped, CodecAssumption DEF splitTurn
<1>2. PICK s : s = From(b, p)
  OBVIOUS
<1>3. PICK size \in Nat : /\ size = getUint32(b, p + 4)
                          /\ size = UInt32(s[5], s[6], s[7], s[8])
  BY <1>1, <1>2, SameLength
<1>4. PICK end : end = p + 8 + size
  OBVIOUS
<1>5. splitTurn(b, p) = end /\ ~(size > MaxPayload) /\ ~(end > Len(b) + 1)
  BY <1>1, <1>3, <1>4 DEF splitTurn
<1>6. Len(s) = Len(b) - p + 1
  <2>1. p \in 1 .. Len(b) + 1
    BY <1>1
  <2> QED
    BY <1>2, <2>1, FromIs
<1>7. ~(Len(s) < 8) /\ ~(Len(s) < 8 + size)
  BY <1>1, <1>3, <1>4, <1>5, <1>6
<1>8. decode(s).is = "frame" /\ decode(s).used = 8 + size
  BY <1>3, <1>5, <1>7 DEF decode, HEADER_LEN
<1>9. decodeTurn(b, p) = p + (8 + size)
  BY <1>2, <1>8, DecodeTurnIs
<1> QED
  BY <1>3, <1>4, <1>5, <1>9

LEMMA BoundAsDecoded ==
  ASSUME NEW b \in Bytes, NEW p \in 1 .. Len(b), decodeTurn(b, p) # 0
  PROVE  boundTurn(b, p) = decodeTurn(b, p)
<1>1. PICK s, d : s = From(b, p) /\ d = decode(s)
  OBVIOUS
<1>2. s \in Bytes /\ Len(s) = Len(b) - p + 1 /\ Len(b) \in Nat
  BY <1>1, BytesTyped, FromIs
<1>3. d.is = "frame" /\ decodeTurn(b, p) = p + d.used /\ d.used \in 8 .. Len(b) - p + 1
  BY <1>1, DecodeTurnIs
<1>4. PICK f \in Frames : Reads(s, f) /\ d.used = 8 + Len(f.payload)
  BY <1>1, <1>2, <1>3, DecodeHolds
<1>5. PICK size \in Nat : /\ size = getUint32(b, p + 4)
                          /\ size = UInt32(s[5], s[6], s[7], s[8])
  <2>1. Len(b) - p + 1 >= 8
    BY <1>2, <1>3
  <2> QED
    BY <1>1, <2>1, SameLength
<1>6. d.used = 8 + size
  BY <1>4, <1>5 DEF Reads
<1>7. ~(Len(b) - p + 1 < 8) /\ ~(p + 8 + size > Len(b) + 1) /\ p + 8 + size = p + d.used
  <2>1. PICK last \in Nat : last = Len(b)
    BY <1>2
  <2>2. 8 + size \in 8 .. last - p + 1 /\ p \in 1 .. last
    BY <1>3, <1>6, <2>1
  <2>3. 8 + size <= last - p + 1
    BY <1>5, <2>1, <2>2
  <2>4. ~(last - p + 1 < 8) /\ ~(p + 8 + size > last + 1) /\ p + 8 + size = p + (8 + size)
    BY <1>5, <2>1, <2>2, <2>3
  <2> QED
    BY <1>6, <2>1, <2>4
<1>8. boundTurn(b, p) = p + 8 + size
  BY <1>5, <1>7 DEF boundTurn
<1> QED
  BY <1>3, <1>7, <1>8

\* Each of them advances.
DecodeNext(b) == [p \in DOMAIN b |-> decodeTurn(b, p)]
SplitNext(b) == [p \in DOMAIN b |-> splitTurn(b, p)]
BoundNext(b) == [p \in DOMAIN b |-> boundTurn(b, p)]

LEMMA AllAdvance ==
  ASSUME NEW b \in Bytes
  PROVE  /\ Advances(DecodeNext(b), Len(b)) /\ Advances(SplitNext(b), Len(b))
         /\ Advances(BoundNext(b), Len(b))
<1>1. Len(b) \in Nat /\ DOMAIN b = 1 .. Len(b)
  BY BytesTyped
<1>2. ASSUME NEW p \in 1 .. Len(b)
      PROVE  decodeTurn(b, p) = 0 \/ (decodeTurn(b, p) \in 1 .. Len(b) + 1 /\ decodeTurn(b, p) > p)
  <2>1. PICK d : d = decode(From(b, p))
    OBVIOUS
  <2>2. CASE d.is = "frame"
    <3>1. decodeTurn(b, p) = p + d.used /\ d.used \in 8 .. Len(b) - p + 1
      BY <2>1, <2>2, DecodeTurnIs
    <3> QED
      BY <1>1, <3>1
  <2> QED
    BY <2>1, <2>2, DecodeTurnIs
<1>3. ASSUME NEW p \in 1 .. Len(b)
      PROVE  boundTurn(b, p) = 0 \/ (boundTurn(b, p) \in 1 .. Len(b) + 1 /\ boundTurn(b, p) > p)
  <2>1. CASE boundTurn(b, p) # 0
    <3>1. ~(Len(b) - p + 1 < 8)
      BY <2>1 DEF boundTurn
    <3>2. getUint32(b, p + 4) \in Nat
      BY <1>1, <3>1, SameLength
    <3>3. /\ boundTurn(b, p) = p + 8 + getUint32(b, p + 4)
          /\ ~(p + 8 + getUint32(b, p + 4) > Len(b) + 1)
      BY <2>1, <3>1 DEF boundTurn
    <3> QED
      BY <1>1, <3>2, <3>3
  <2> QED
    BY <2>1
<1>4. ASSUME NEW p \in 1 .. Len(b)
      PROVE  splitTurn(b, p) = 0 \/ (splitTurn(b, p) \in 1 .. Len(b) + 1 /\ splitTurn(b, p) > p)
  BY <1>2, SplitAsDecoded
<1> QED
  BY <1>1, <1>2, <1>3, <1>4 DEF Advances, DecodeNext, SplitNext, BoundNext

-----------------------------------------------------------------------------
(* A whole buffer *)

\* b is decoded in n turns, in which the loop stands at the positions at.
Decodes(b, at, n) == Path(at, DecodeNext(b), Len(b), n) /\ at[n] # 0

\* Path, frame by frame.
LEMMA DecodesIs ==
  ASSUME NEW b \in Bytes, NEW at, NEW n
  PROVE  Decodes(b, at, n) <=>
           /\ n \in 0 .. Len(b) /\ at[0] = 1 /\ at[n] = Len(b) + 1
           /\ \A k \in 0 .. n - 1 : /\ at[k] \in 1 .. Len(b)
                                    /\ at[k + 1] = decodeTurn(b, at[k])
<1>1. Len(b) \in Nat /\ DOMAIN b = 1 .. Len(b)
  BY BytesTyped
<1>2. \A p \in 1 .. Len(b) : DecodeNext(b)[p] = decodeTurn(b, p)
  BY <1>1 DEF DecodeNext
<1> QED
  BY <1>1, <1>2 DEF Decodes, Path

\* What it is decoded to.
DecodedFrames(b, at, n) == [k \in 1 .. n |-> decode(From(b, at[k - 1])).frame]
Decoded(b, at, n) == [is |-> "frames", frames |-> DecodedFrames(b, at, n)]

LEMMA BatchDecoded ==
  ASSUME NEW b \in Bytes, NEW at, NEW n, Decodes(b, at, n)
  PROVE  decode_batch(b) = Decoded(b, at, n)
<1>1. PICK last \in Nat : last = Len(b)
  BY BytesTyped
<1>2. PICK au, m : au = Walk(DecodeNext(b), last) /\ m = Turns(au, last)
  OBVIOUS
<1>3. Path(au, DecodeNext(b), last, m)
  BY <1>1, <1>2, AllAdvance, WalkEnds
<1>4. m = n /\ \A k \in 0 .. n : au[k] = at[k]
  <2>1. Path(at, DecodeNext(b), last, n)
    BY <1>1 DEF Decodes
  <2> QED
    BY <1>3, <2>1, SamePath
<1>5. n \in 0 .. last /\ au[n] # 0
  BY <1>1, <1>4 DEF Decodes, Path
<1>6. decode_batch(b) =
        [is |-> "frames", frames |-> [k \in 1 .. m |-> decode(From(b, au[k - 1])).frame]]
  BY <1>1, <1>2, <1>4, <1>5 DEF decode_batch, DecodeNext, From
<1>7. \A k \in 1 .. m : au[k - 1] = at[k - 1]
  BY <1>4, <1>5
<1>8. [k \in 1 .. m |-> decode(From(b, au[k - 1])).frame] = DecodedFrames(b, at, n)
  BY <1>4, <1>7 DEF DecodedFrames
<1> QED
  BY <1>6, <1>8 DEF Decoded

LEMMA BatchDecodes ==
  ASSUME NEW b \in Bytes, decode_batch(b).is = "frames"
  PROVE  \E at, n : Decodes(b, at, n)
<1>1. PICK last \in Nat : last = Len(b)
  BY BytesTyped
<1>2. PICK at, n : at = Walk(DecodeNext(b), last) /\ n = Turns(at, last)
  OBVIOUS
<1>3. Path(at, DecodeNext(b), last, n)
  BY <1>1, <1>2, AllAdvance, WalkEnds
<1>4. ASSUME at[n] = 0 PROVE FALSE
  <2>1. decode_batch(b) = decode(From(b, at[n - 1]))
    BY <1>1, <1>2, <1>4 DEF decode_batch, DecodeNext, From
  <2>2. decode(From(b, at[n - 1])).is # "frames"
    BY DEF decode, Incomplete, Oversized
  <2> QED
    BY <2>1, <2>2
<1> QED
  BY <1>1, <1>3, <1>4 DEF Decodes

-----------------------------------------------------------------------------
(* Writing frames *)

\* The function EncodeAll chooses, and the same for the first m frames.
Encodes(to, fs) ==
  to = [n \in 0 .. Len(fs) |-> IF n = 0 THEN <<>> ELSE to[n - 1] \o encode(fs[n])]

EncodesTo(to, fs, m) ==
  /\ to = [n \in 0 .. m |-> to[n]]
  /\ to[0] = <<>>
  /\ \A n \in 1 .. m : to[n] = to[n - 1] \o encode(fs[n])

LEMMA EncodeChosen ==
  ASSUME NEW fs
  PROVE  EncodeAll(fs) = (CHOOSE to : Encodes(to, fs))[Len(fs)]
BY DEF EncodeAll, Encodes

LEMMA EncodesFurther ==
  ASSUME NEW fs, NEW m \in Nat, NEW to, EncodesTo(to, fs, m)
  PROVE  \E more : EncodesTo(more, fs, m + 1)
<1>1. PICK more : more = [n \in 0 .. m + 1 |-> IF n <= m THEN to[n]
                                               ELSE to[m] \o encode(fs[m + 1])]
  OBVIOUS
<1>2. \A n \in 0 .. m : more[n] = to[n]
  BY <1>1
<1>3. more[m + 1] = to[m] \o encode(fs[m + 1])
  BY <1>1
<1>4. more = [n \in 0 .. m + 1 |-> more[n]]
  BY <1>1
<1>5. more[0] = <<>>
  BY <1>2 DEF EncodesTo
<1>6. ASSUME NEW n \in 1 .. m + 1 PROVE more[n] = more[n - 1] \o encode(fs[n])
  <2>1. CASE n = m + 1
    <3>1. n - 1 = m /\ m \in 0 .. m
      BY <2>1
    <3> QED
      BY <1>2, <1>3, <2>1, <3>1
  <2>2. CASE n \in 1 .. m
    <3>1. n \in 0 .. m /\ n - 1 \in 0 .. m
      BY <2>2
    <3> QED
      BY <1>2, <2>2, <3>1 DEF EncodesTo
  <2>3. n = m + 1 \/ n \in 1 .. m
    OBVIOUS
  <2> QED
    BY <2>1, <2>2, <2>3
<1> QED
  BY <1>4, <1>5, <1>6 DEF EncodesTo

LEMMA EncodeUpTo ==
  ASSUME NEW fs, NEW last \in Nat, last = Len(fs)
  PROVE  \E to : EncodesTo(to, fs, last) /\ EncodeAll(fs) = to[last]
<1>1. PICK T : T = {m \in 0 .. last : \E to : EncodesTo(to, fs, m)}
  OBVIOUS
<1>2. 0 \in T
  <2>1. PICK to : to = [n \in 0 .. 0 |-> <<>>]
    OBVIOUS
  <2>2. EncodesTo(to, fs, 0)
    BY <2>1 DEF EncodesTo
  <2> QED
    BY <1>1, <2>2
<1>3. ASSUME NEW m \in 0 .. last - 1, m \in T PROVE m + 1 \in T
  <2>1. PICK to : EncodesTo(to, fs, m)
    BY <1>1, <1>3
  <2>2. \E more : EncodesTo(more, fs, m + 1)
    BY <2>1, EncodesFurther
  <2>3. m + 1 \in 0 .. last
    OBVIOUS
  <2> QED
    BY <1>1, <2>2, <2>3
<1>4. \A m \in 0 .. last - 1 : m \in T => m + 1 \in T
  BY <1>3
<1>5. last \in T
  BY <1>2, <1>4, Upward
<1>6. PICK found : EncodesTo(found, fs, last)
  BY <1>1, <1>5
<1>7. ASSUME NEW to PROVE Encodes(to, fs) <=> EncodesTo(to, fs, last)
  <2>1. ASSUME Encodes(to, fs) PROVE EncodesTo(to, fs, last)
    <3>1. to = [n \in 0 .. last |-> IF n = 0 THEN <<>> ELSE to[n - 1] \o encode(fs[n])]
      BY <2>1 DEF Encodes
    <3>2. \A n \in 0 .. last : to[n] = IF n = 0 THEN <<>> ELSE to[n - 1] \o encode(fs[n])
      BY <3>1
    <3>3. to = [n \in 0 .. last |-> to[n]]
      BY <3>1, <3>2
    <3>4. to[0] = <<>>
      BY <3>2
    <3>5. ASSUME NEW n \in 1 .. last PROVE to[n] = to[n - 1] \o encode(fs[n])
      <4>1. n \in 0 .. last /\ n # 0
        OBVIOUS
      <4> QED
        BY <3>2, <4>1
    <3> QED
      BY <3>3, <3>4, <3>5 DEF EncodesTo
  <2>2. ASSUME EncodesTo(to, fs, last) PROVE Encodes(to, fs)
    <3>1. to[0] = <<>> /\ \A n \in 1 .. last : to[n] = to[n - 1] \o encode(fs[n])
      BY <2>2 DEF EncodesTo
    <3>2. \A n \in 0 .. last : n = 0 \/ (n # 0 /\ n \in 1 .. last)
      OBVIOUS
    <3>3. \A n \in 0 .. last : to[n] = IF n = 0 THEN <<>> ELSE to[n - 1] \o encode(fs[n])
      BY <3>1, <3>2
    <3>4. to = [n \in 0 .. last |-> to[n]]
      BY <2>2 DEF EncodesTo
    <3>5. to = [n \in 0 .. last |-> IF n = 0 THEN <<>> ELSE to[n - 1] \o encode(fs[n])]
      BY <3>3, <3>4
    <3> QED
      BY <3>5 DEF Encodes
  <2> QED
    BY <2>1, <2>2
<1>8. PICK to : to = CHOOSE x : Encodes(x, fs)
  OBVIOUS
<1>9. Encodes(to, fs)
  BY <1>6, <1>7, <1>8
<1> QED
  BY <1>7, <1>8, <1>9, EncodeChosen

\* All bytes of a frame can be read off it.
LEMMA SameBytes ==
  ASSUME NEW f \in Frames, NEW s \in Bytes, NEW e \in Bytes, Reads(s, f), Reads(e, f)
  PROVE  \A i \in 1 .. 8 + Len(f.payload) : s[i] = e[i]
<1>1. Len(f.payload) \in Nat /\ Len(s) \in Nat /\ Len(e) \in Nat
  BY PayloadTyped, BytesTyped DEF Frames
<1>2. /\ 8 <= Len(s) /\ 8 <= Len(e)
      /\ s[1] = e[1] /\ UInt24(s[2], s[3], s[4]) = UInt24(e[2], e[3], e[4])
      /\ UInt32(s[5], s[6], s[7], s[8]) = UInt32(e[5], e[6], e[7], e[8])
      /\ \A i \in 1 .. Len(f.payload) : s[8 + i] = e[8 + i]
  BY <1>1 DEF Reads
<1>3. /\ \A i \in 1 .. 8 : i \in 1 .. Len(s) /\ i \in 1 .. Len(e)
  BY <1>1, <1>2
<1>4. \A i \in 1 .. 8 : s[i] \in Byte /\ e[i] \in Byte
  BY <1>3, BytesTyped
<1>5. s[2] = e[2] /\ s[3] = e[3] /\ s[4] = e[4]
  <2>1. /\ s[2] \in Byte /\ s[3] \in Byte /\ s[4] \in Byte
        /\ e[2] \in Byte /\ e[3] \in Byte /\ e[4] \in Byte
    BY <1>4
  <2>2. PICK n : n = UInt24(s[2], s[3], s[4])
    OBVIOUS
  <2>3. Low(n) = s[4] /\ Low(Shifted(n)) = s[3] /\ Low(Shifted(Shifted(n))) = s[2]
    BY <2>1, <2>2, DigitsOfNumber
  <2>4. Low(n) = e[4] /\ Low(Shifted(n)) = e[3] /\ Low(Shifted(Shifted(n))) = e[2]
    BY <1>2, <2>1, <2>2, DigitsOfNumber
  <2> QED
    BY <2>3, <2>4
<1>6. s[5] = e[5] /\ s[6] = e[6] /\ s[7] = e[7] /\ s[8] = e[8]
  <2>1. /\ s[5] \in Byte /\ s[6] \in Byte /\ s[7] \in Byte /\ s[8] \in Byte
        /\ e[5] \in Byte /\ e[6] \in Byte /\ e[7] \in Byte /\ e[8] \in Byte
    BY <1>4
  <2>2. PICK n : n = UInt32(s[5], s[6], s[7], s[8])
    OBVIOUS
  <2>3. /\ Low(n) = s[8] /\ Low(Shifted(n)) = s[7] /\ Low(Shifted(Shifted(n))) = s[6]
        /\ Low(Shifted(Shifted(Shifted(n)))) = s[5]
    BY <2>1, <2>2, DigitsOfLong
  <2>4. /\ Low(n) = e[8] /\ Low(Shifted(n)) = e[7] /\ Low(Shifted(Shifted(n))) = e[6]
        /\ Low(Shifted(Shifted(Shifted(n)))) = e[5]
    BY <1>2, <2>1, <2>2, DigitsOfLong
  <2> QED
    BY <2>3, <2>4
<1>7. ASSUME NEW i \in 1 .. 8 + Len(f.payload) PROVE s[i] = e[i]
  <2>1. CASE i > 8
    <3>1. i - 8 \in 1 .. Len(f.payload) /\ 8 + (i - 8) = i
      BY <1>1, <2>1
    <3> QED
      BY <1>2, <3>1
  <2>2. CASE ~(i > 8)
    <3>1. i = 1 \/ i = 2 \/ i = 3 \/ i = 4 \/ i = 5 \/ i = 6 \/ i = 7 \/ i = 8
      BY <1>1, <2>2
    <3> QED
      BY <1>2, <1>5, <1>6, <3>1
  <2> QED
    BY <2>1, <2>2
<1> QED
  BY <1>7

\* A frame that was decoded is encoded to the bytes it was decoded from.
LEMMA FrameBytes ==
  ASSUME NEW b \in Bytes, NEW p \in 1 .. Len(b), decodeTurn(b, p) # 0
  PROVE  /\ decode(From(b, p)).frame \in Frames
         /\ encode(decode(From(b, p)).frame) = SubSeq(b, p, decodeTurn(b, p) - 1)
<1>1. PICK s, d : s = From(b, p) /\ d = decode(s)
  OBVIOUS
<1>2. /\ s \in Bytes /\ Len(s) = Len(b) - p + 1 /\ Len(b) \in Nat
      /\ \A i \in 1 .. Len(b) - p + 1 : s[i] = b[p + i - 1]
  <2>1. Len(b) \in Nat /\ p \in 1 .. Len(b) + 1
    BY BytesTyped
  <2> QED
    BY <1>1, <2>1, FromIs
<1>3. d.is = "frame" /\ decodeTurn(b, p) = p + d.used /\ d.used \in 8 .. Len(b) - p + 1
  BY <1>1, DecodeTurnIs
<1>4. PICK f \in Frames : f = d.frame /\ Reads(s, f) /\ d.used = 8 + Len(f.payload)
  BY <1>1, <1>2, <1>3, DecodeHolds
<1>5. PICK e \in Bytes : e = encode(f) /\ Len(e) = d.used /\ Reads(e, f)
  BY <1>4, EncodeReads
<1>6. PICK q : q = decodeTurn(b, p) - 1
  OBVIOUS
<1>7. /\ p \in 1 .. Len(b) + 1 /\ q \in p - 1 .. Len(b) /\ q - p + 1 = d.used
      /\ d.used \in Nat
  BY <1>2, <1>3, <1>6
<1>8. /\ SubSeq(b, p, q) \in Bytes /\ Len(SubSeq(b, p, q)) = d.used
      /\ \A i \in 1 .. d.used : SubSeq(b, p, q)[i] = b[p + i - 1]
  BY <1>7, PartOf
<1>9. ASSUME NEW i \in 1 .. d.used PROVE SubSeq(b, p, q)[i] = e[i]
  <2>1. s[i] = e[i]
    BY <1>2, <1>4, <1>5, SameBytes
  <2>2. i \in 1 .. Len(b) - p + 1
    BY <1>2, <1>3
  <2> QED
    BY <1>2, <1>8, <2>1, <2>2
<1>10. SubSeq(b, p, q) = e
  BY <1>5, <1>8, <1>9, SeqEqual DEF Bytes
<1> QED
  BY <1>1, <1>4, <1>5, <1>6, <1>10

\* So the first m frames are encoded to the bytes before the m-th position.
LEMMA EncodesBuffer ==
  ASSUME NEW b \in Bytes, NEW at, NEW n, Decodes(b, at, n), NEW m \in 0 .. n,
         NEW fs, Len(fs) = m, \A k \in 1 .. m : fs[k] = DecodedFrames(b, at, n)[k]
  PROVE  EncodeAll(fs) = SubSeq(b, 1, at[m] - 1)
<1>1. /\ n \in 0 .. Len(b) /\ at[0] = 1 /\ at[n] = Len(b) + 1 /\ Len(b) \in Nat
      /\ \A k \in 0 .. n - 1 : at[k] \in 1 .. Len(b) /\ at[k + 1] = decodeTurn(b, at[k])
  BY DecodesIs, BytesTyped
<1>2. \A k \in 0 .. n : at[k] \in 1 .. Len(b) + 1
  <2>1. ASSUME NEW k \in 0 .. n PROVE at[k] \in 1 .. Len(b) + 1
    <3>1. k = n \/ k \in 0 .. n - 1
      BY <1>1
    <3> QED
      BY <1>1, <3>1
  <2> QED
    BY <2>1
<1>3. m \in Nat /\ n \in Nat
  BY <1>1
<1>4. PICK to : EncodesTo(to, fs, m) /\ EncodeAll(fs) = to[m]
  BY <1>3, EncodeUpTo
<1>5. to[0] = <<>> /\ \A k \in 1 .. m : to[k] = to[k - 1] \o encode(fs[k])
  BY <1>4 DEF EncodesTo
<1>6. PICK T : T = {k \in 0 .. m : to[k] = SubSeq(b, 1, at[k] - 1)}
  OBVIOUS
<1>7. 0 \in T
  <2>1. SubSeq(b, 1, at[0] - 1) = <<>>
    <3>1. at[0] - 1 = 0 /\ 0 < 1
      BY <1>1
    <3> QED
      BY <3>1, SubSeqEmpty
  <2>2. PICK none : none = SubSeq(b, 1, at[0] - 1)
    OBVIOUS
  <2>3. to[0] = none
    BY <1>5, <2>1, <2>2
  <2>4. 0 \in 0 .. m
    BY <1>3
  <2> QED
    BY <1>6, <2>2, <2>3, <2>4
<1>8. ASSUME NEW k \in 0 .. m - 1, k \in T PROVE k + 1 \in T
  <2>1. /\ k + 1 \in 1 .. m /\ (k + 1) - 1 = k /\ k \in 0 .. n - 1 /\ k + 1 \in 0 .. n
        /\ k + 1 \in 1 .. n
    BY <1>1
  <2>2. PICK p, q : p = at[k] /\ q = at[k + 1]
    OBVIOUS
  <2>3. p \in 1 .. Len(b) /\ q = decodeTurn(b, p) /\ q \in 1 .. Len(b) + 1
    BY <1>1, <1>2, <2>1, <2>2
  <2>4. fs[k + 1] = decode(From(b, p)).frame
    BY <2>1, <2>2 DEF DecodedFrames
  <2>5. q # 0
    BY <1>1, <2>3
  <2>6. encode(fs[k + 1]) = SubSeq(b, p, q - 1)
    BY <2>3, <2>4, <2>5, FrameBytes
  <2>7. to[k] = SubSeq(b, 1, p - 1) /\ to[k + 1] = to[k] \o encode(fs[k + 1])
    BY <1>5, <1>6, <1>8, <2>1, <2>2
  <2>8. p < q
    <3>1. Advances(DecodeNext(b), Len(b)) /\ DOMAIN b = 1 .. Len(b)
      BY AllAdvance, BytesTyped
    <3>2. DecodeNext(b)[p] = q
      BY <2>3, <3>1 DEF DecodeNext
    <3> QED
      BY <2>3, <2>5, <3>1, <3>2 DEF Advances
  <2>9. SubSeq(b, 1, p - 1) \o SubSeq(b, p, q - 1) = SubSeq(b, 1, q - 1)
    <3>1. PICK j, l : j = p - 1 /\ l = q - 1
      OBVIOUS
    <3>2. /\ 1 \in 1 .. Len(b) + 1 /\ j \in 1 - 1 .. Len(b) /\ l \in j .. Len(b)
          /\ j + 1 = p
      BY <1>1, <2>3, <2>8, <3>1
    <3>3. SubSeq(b, 1, j) \o SubSeq(b, j + 1, l) = SubSeq(b, 1, l)
      BY <3>2, ConcatAdjacentSubSeq DEF Bytes
    <3> QED
      BY <3>1, <3>2, <3>3
  <2>10. to[k + 1] = SubSeq(b, 1, at[k + 1] - 1)
    BY <2>2, <2>6, <2>7, <2>9
  <2>11. k + 1 \in 0 .. m
    BY <2>1
  <2> QED
    BY <1>6, <2>10, <2>11
<1>9. \A k \in 0 .. m - 1 : k \in T => k + 1 \in T
  BY <1>8
<1>10. m \in T
  <2>1. \A k \in 0 .. m : k \in T
    BY <1>3, <1>7, <1>9, Upward
  <2> QED
    BY <1>3, <2>1
<1> QED
  BY <1>4, <1>6, <1>10

-----------------------------------------------------------------------------
(* Parts of a buffer *)

\* The positions grow.
LEMMA PathGrows ==
  ASSUME NEW b \in Bytes, NEW at, NEW n, Decodes(b, at, n), NEW j \in 0 .. n
  PROVE  /\ at[j] \in 1 .. Len(b) + 1
         /\ \A k \in j .. n : at[k] \in 1 .. Len(b) + 1 /\ at[k] - at[j] >= k - j
<1>1. /\ n \in 0 .. Len(b) /\ at[0] = 1 /\ at[n] = Len(b) + 1 /\ Len(b) \in Nat
      /\ \A k \in 0 .. n - 1 : at[k] \in 1 .. Len(b) /\ at[k + 1] = decodeTurn(b, at[k])
  BY DecodesIs, BytesTyped
<1>2. \A k \in 0 .. n : at[k] \in 1 .. Len(b) + 1
  <2>1. ASSUME NEW k \in 0 .. n PROVE at[k] \in 1 .. Len(b) + 1
    <3>1. k = n \/ k \in 0 .. n - 1
      BY <1>1
    <3> QED
      BY <1>1, <3>1
  <2> QED
    BY <2>1
<1>3. ASSUME NEW k \in 0 .. n - 1 PROVE at[k] < at[k + 1]
  <2>1. PICK p, q : p = at[k] /\ q = at[k + 1]
    OBVIOUS
  <2>2. p \in 1 .. Len(b) /\ q = decodeTurn(b, p)
    BY <1>1, <2>1
  <2>3. q \in 1 .. Len(b) + 1
    <3>1. k + 1 \in 0 .. n
      BY <1>1
    <3> QED
      BY <1>2, <2>1, <3>1
  <2>4. Advances(DecodeNext(b), Len(b)) /\ DecodeNext(b)[p] = q
    <3>1. DOMAIN b = 1 .. Len(b)
      BY BytesTyped
    <3> QED
      BY <2>2, <3>1, AllAdvance DEF DecodeNext
  <2>5. p < q
    BY <1>1, <2>2, <2>3, <2>4 DEF Advances
  <2> QED
    BY <2>1, <2>5
<1>4. PICK T : T = {k \in 0 .. n : k >= j => at[k] - at[j] >= k - j}
  OBVIOUS
<1>5. 0 \in T
  BY <1>1, <1>4
<1>6. ASSUME NEW k \in 0 .. n - 1, k \in T PROVE k + 1 \in T
  <2>1. k + 1 \in 0 .. n /\ (k >= j => at[k] - at[j] >= k - j) /\ at[k] < at[k + 1]
    BY <1>1, <1>3, <1>4, <1>6
  <2>2. PICK x, y, z : x = at[j] /\ y = at[k] /\ z = at[k + 1]
    OBVIOUS
  <2>3. x \in Nat /\ y \in Nat /\ z \in Nat
    BY <1>1, <1>2, <2>1, <2>2
  <2>4. k + 1 >= j => z - x >= (k + 1) - j
    <3>1. CASE k >= j
      BY <2>1, <2>2, <2>3, <3>1
    <3>2. CASE k + 1 = j
      BY <2>2, <2>3, <3>2
    <3> QED
      BY <1>1, <3>1, <3>2
  <2> QED
    BY <1>4, <2>1, <2>2, <2>4
<1>7. \A k \in 0 .. n - 1 : k \in T => k + 1 \in T
  BY <1>6
<1>8. \A k \in 0 .. n : k \in T
  <2>1. n \in Nat
    BY <1>1
  <2> QED
    BY <1>5, <1>7, <2>1, Upward
<1>9. ASSUME NEW k \in j .. n PROVE at[k] - at[j] >= k - j /\ k \in 0 .. n
  <2>1. k \in 0 .. n /\ k >= j
    BY <1>1
  <2> QED
    BY <1>4, <1>8, <2>1
<1> QED
  BY <1>2, <1>9

\* A frame that two buffers hold at one position.
LEMMA AlikeTurns ==
  ASSUME NEW b \in Bytes, NEW c \in Bytes, NEW p \in 1 .. Len(b), p \in 1 .. Len(c),
         NEW q, q = decodeTurn(b, p), q # 0, q <= Len(c) + 1,
         \A i \in p .. q - 1 : c[i] = b[i]
  PROVE  decode(From(c, p)) = decode(From(b, p)) /\ decodeTurn(c, p) = q
<1>1. PICK s, t, d : s = From(b, p) /\ t = From(c, p) /\ d = decode(s)
  OBVIOUS
<1>2. /\ Len(b) \in Nat /\ Len(c) \in Nat /\ p \in 1 .. Len(b) + 1 /\ p \in 1 .. Len(c) + 1
  BY BytesTyped
<1>3. /\ s \in Bytes /\ \A i \in 1 .. Len(b) - p + 1 : s[i] = b[p + i - 1]
      /\ t \in Bytes /\ Len(t) = Len(c) - p + 1
      /\ \A i \in 1 .. Len(c) - p + 1 : t[i] = c[p + i - 1]
  BY <1>1, <1>2, FromIs
<1>4. d.is = "frame" /\ q = p + d.used /\ d.used \in 8 .. Len(b) - p + 1
  BY <1>1, DecodeTurnIs
<1>5. d.used \in Nat /\ Len(t) >= d.used
  BY <1>2, <1>3, <1>4
<1>6. ASSUME NEW i \in 1 .. d.used PROVE t[i] = s[i]
  <2>1. /\ i \in 1 .. Len(b) - p + 1 /\ i \in 1 .. Len(c) - p + 1
        /\ p + i - 1 \in p .. q - 1
    BY <1>2, <1>3, <1>4, <1>5
  <2>2. t[i] = c[p + i - 1] /\ s[i] = b[p + i - 1] /\ c[p + i - 1] = b[p + i - 1]
    BY <1>3, <2>1
  <2> QED
    BY <2>2
<1>7. decode(t) = d
  BY <1>1, <1>3, <1>4, <1>5, <1>6, DecodeAlike
<1>8. decodeTurn(c, p) = p + d.used
  BY <1>1, <1>4, <1>7, DecodeTurnIs
<1> QED
  BY <1>1, <1>4, <1>7, <1>8

\* A buffer that ends where a frame begins decodes to the frames before it.
LEMMA FrontDecodes ==
  ASSUME NEW b \in Bytes, NEW at, NEW n, Decodes(b, at, n), NEW m \in 0 .. n
  PROVE  Decodes(SubSeq(b, 1, at[m] - 1), at, m)
<1>1. /\ n \in 0 .. Len(b) /\ at[0] = 1 /\ Len(b) \in Nat
      /\ \A k \in 0 .. n - 1 : at[k] \in 1 .. Len(b) /\ at[k + 1] = decodeTurn(b, at[k])
  BY DecodesIs, BytesTyped
<1>2. PICK cut : cut = at[m] - 1
  OBVIOUS
<1>3. at[m] \in 1 .. Len(b) + 1 /\ cut \in 0 .. Len(b)
  BY <1>1, <1>2, PathGrows
<1>4. PICK c : c = SubSeq(b, 1, cut)
  OBVIOUS
<1>5. c \in Bytes /\ Len(c) = cut /\ \A i \in 1 .. cut : c[i] = b[i]
  <2>1. 1 \in 1 .. Len(b) + 1 /\ cut \in 1 - 1 .. Len(b) /\ cut - 1 + 1 = cut
    BY <1>1, <1>3
  <2>2. /\ c \in Bytes /\ Len(c) = cut - 1 + 1
        /\ \A i \in 1 .. cut - 1 + 1 : c[i] = b[1 + i - 1]
    BY <1>4, <2>1, PartOf
  <2>3. \A i \in 1 .. cut : 1 + i - 1 = i
    BY <1>3
  <2> QED
    BY <2>1, <2>2, <2>3
<1>6. m \in 0 .. cut
  <2>1. 0 \in 0 .. n /\ m \in 0 .. n
    BY <1>1
  <2>2. at[m] - at[0] >= m - 0
    BY <2>1, PathGrows
  <2> QED
    BY <1>1, <1>2, <1>3, <2>2
<1>7. ASSUME NEW k \in 0 .. m - 1
      PROVE  at[k] \in 1 .. cut /\ at[k + 1] = decodeTurn(c, at[k])
  <2>1. /\ k \in 0 .. n - 1 /\ k \in 0 .. n /\ k + 1 \in 0 .. n
        /\ m \in k .. n /\ m \in k + 1 .. n
    BY <1>1
  <2>2. PICK p, q : p = at[k] /\ q = at[k + 1]
    OBVIOUS
  <2>3. /\ p \in 1 .. Len(b) /\ q = decodeTurn(b, p) /\ q \in 1 .. Len(b) + 1
        /\ at[m] - p >= m - k /\ at[m] - q >= m - (k + 1)
    BY <1>1, <2>1, <2>2, PathGrows
  <2>4. p \in 1 .. cut /\ q <= cut + 1 /\ q # 0
    <3>1. PICK r \in Nat : r = at[m] /\ r = cut + 1
      BY <1>2, <1>3
    <3>2. r - p >= m - k /\ r - q >= m - (k + 1)
      BY <2>3, <3>1
    <3>3. p \in Nat /\ q \in Nat /\ p >= 1 /\ q >= 1 /\ m \in Nat /\ k \in Nat /\ k < m
          /\ cut \in Nat
      BY <1>1, <1>3, <2>3
    <3> QED
      BY <3>1, <3>2, <3>3
  <2>5. \A i \in p .. q - 1 : c[i] = b[i]
    <3>1. \A i \in p .. q - 1 : i \in 1 .. cut
      BY <1>3, <2>3, <2>4
    <3> QED
      BY <1>5, <3>1
  <2>6. decodeTurn(c, p) = q
    BY <1>5, <2>3, <2>4, <2>5, AlikeTurns
  <2> QED
    BY <2>2, <2>4, <2>6
<1>8. at[m] = cut + 1
  BY <1>1, <1>2, <1>3
<1> QED
  BY <1>1, <1>2, <1>4, <1>5, <1>6, <1>7, <1>8, DecodesIs

\* And one that begins there to the frames behind it.
LEMMA RestDecodes ==
  ASSUME NEW b \in Bytes, NEW at, NEW n, Decodes(b, at, n), NEW m \in 0 .. n,
         NEW rest, rest = [k \in 0 .. n - m |-> at[m + k] - (at[m] - 1)]
  PROVE  Decodes(From(b, at[m]), rest, n - m)
<1>1. /\ n \in 0 .. Len(b) /\ at[n] = Len(b) + 1 /\ Len(b) \in Nat
      /\ \A k \in 0 .. n - 1 : at[k] \in 1 .. Len(b) /\ at[k + 1] = decodeTurn(b, at[k])
  BY DecodesIs, BytesTyped
<1>2. PICK cut : cut = at[m] - 1
  OBVIOUS
<1>3. at[m] \in 1 .. Len(b) + 1 /\ cut \in 0 .. Len(b) /\ at[m] = cut + 1
  <2>1. PICK x : x = at[m]
    OBVIOUS
  <2>2. x \in 1 .. Len(b) + 1
    BY <2>1, PathGrows
  <2>3. cut = x - 1
    BY <1>2, <2>1
  <2>4. cut \in 0 .. Len(b) /\ x = cut + 1
    BY <1>1, <2>2, <2>3
  <2> QED
    BY <2>1, <2>2, <2>4
<1>4. PICK c : c = From(b, at[m])
  OBVIOUS
<1>5. /\ c \in Bytes /\ Len(c) = Len(b) - cut
      /\ \A i \in 1 .. Len(b) - cut : c[i] = b[cut + i]
  <2>1. /\ c \in Bytes /\ Len(c) = Len(b) - at[m] + 1
        /\ \A i \in 1 .. Len(b) - at[m] + 1 : c[i] = b[at[m] + i - 1]
    BY <1>3, <1>4, FromIs
  <2>2. Len(b) - at[m] + 1 = Len(b) - cut
    BY <1>1, <1>3
  <2>3. \A i \in 1 .. Len(b) - cut : at[m] + i - 1 = cut + i
    BY <1>1, <1>3
  <2> QED
    BY <2>1, <2>2, <2>3
<1>6. \A k \in 0 .. n - m : m + k \in m .. n /\ rest[k] = at[m + k] - cut
  BY <1>1, <1>2
<1>7. n - m \in 0 .. Len(c)
  <2>1. at[n] - at[m] >= n - m
    <3>1. n \in m .. n
      BY <1>1
    <3> QED
      BY <3>1, PathGrows
  <2> QED
    BY <1>1, <1>3, <1>5, <2>1
<1>8. rest[0] = 1
  <2>1. 0 \in 0 .. n - m /\ m + 0 = m
    BY <1>1
  <2>2. rest[0] = at[m] - cut
    BY <1>6, <2>1
  <2> QED
    BY <1>3, <2>2
<1>9. rest[n - m] = Len(c) + 1
  <2>1. n - m \in 0 .. n - m /\ m + (n - m) = n
    BY <1>1
  <2>2. rest[n - m] = at[n] - cut
    BY <1>6, <2>1
  <2> QED
    BY <1>1, <1>3, <1>5, <2>2
<1>10. ASSUME NEW k \in 0 .. (n - m) - 1
       PROVE  rest[k] \in 1 .. Len(c) /\ rest[k + 1] = decodeTurn(c, rest[k])
  <2>1. /\ k \in 0 .. n - m /\ k + 1 \in 0 .. n - m /\ m + k \in 0 .. n - 1
        /\ m + k \in m .. n /\ m + (k + 1) = (m + k) + 1 /\ m + k >= m
    BY <1>1
  <2>2. PICK p, q, r : p = at[m + k] /\ q = at[(m + k) + 1] /\ r = rest[k]
    OBVIOUS
  <2>3. r = p - cut /\ rest[k + 1] = q - cut
    <3>1. rest[k] = at[m + k] - cut /\ rest[k + 1] = at[m + (k + 1)] - cut
      BY <1>6, <2>1
    <3> QED
      BY <2>1, <2>2, <3>1
  <2>4. p \in 1 .. Len(b) /\ q = decodeTurn(b, p)
    BY <1>1, <2>1, <2>2
  <2>5. p - at[m] >= (m + k) - m
    BY <2>1, <2>2, PathGrows
  <2>6. r \in 1 .. Len(c) /\ r \in Nat /\ p = cut + r /\ r \in 1 .. Len(c) + 1
    BY <1>1, <1>3, <1>5, <2>1, <2>3, <2>4, <2>5
  <2>7. From(c, r) = From(b, p)
    <3>1. /\ From(c, r) \in Bytes /\ Len(From(c, r)) = Len(c) - r + 1
          /\ \A i \in 1 .. Len(c) - r + 1 : From(c, r)[i] = c[r + i - 1]
      BY <1>5, <2>6, FromIs
    <3>2. p \in 1 .. Len(b) + 1
      BY <1>1, <2>4
    <3>3. /\ From(b, p) \in Bytes /\ Len(From(b, p)) = Len(b) - p + 1
          /\ \A i \in 1 .. Len(b) - p + 1 : From(b, p)[i] = b[p + i - 1]
      BY <3>2, FromIs
    <3>4. Len(c) - r + 1 = Len(b) - p + 1
      BY <1>1, <1>3, <1>5, <2>6
    <3>5. ASSUME NEW i \in 1 .. Len(c) - r + 1 PROVE From(c, r)[i] = From(b, p)[i]
      <4>1. r + i - 1 \in 1 .. Len(b) - cut /\ cut + (r + i - 1) = p + i - 1
        BY <1>1, <1>3, <1>5, <2>6
      <4>2. c[r + i - 1] = b[p + i - 1]
        BY <1>5, <4>1
      <4> QED
        BY <3>1, <3>3, <3>4, <4>2
    <3> QED
      BY <3>1, <3>3, <3>4, <3>5, SeqEqual DEF Bytes
  <2>8. decodeTurn(c, r) = q - cut
    <3>1. PICK d : d = decode(From(b, p))
      OBVIOUS
    <3>2. q # 0
      <4>1. at[(m + k) + 1] \in 1 .. Len(b) + 1
        <5>1. (m + k) + 1 \in 0 .. n
          BY <1>1, <2>1
        <5> QED
          BY <5>1, PathGrows
      <4> QED
        BY <1>1, <2>2, <4>1
    <3>3. d.is = "frame" /\ q = p + d.used /\ d.used \in 8 .. Len(b) - p + 1
      BY <2>4, <3>1, <3>2, DecodeTurnIs
    <3>4. decodeTurn(c, r) = r + d.used
      BY <1>5, <2>6, <2>7, <3>1, <3>3, DecodeTurnIs
    <3> QED
      BY <1>1, <1>3, <2>6, <3>3, <3>4
  <2> QED
    BY <2>2, <2>3, <2>6, <2>8
<1>11. PICK l : l = n - m
  OBVIOUS
<1>12. /\ l \in 0 .. Len(c) /\ rest[0] = 1 /\ rest[l] = Len(c) + 1
       /\ \A k \in 0 .. l - 1 : rest[k] \in 1 .. Len(c) /\ rest[k + 1] = decodeTurn(c, rest[k])
  BY <1>7, <1>8, <1>9, <1>10, <1>11
<1>13. Decodes(c, rest, l)
  BY <1>5, <1>12, DecodesIs
<1> QED
  BY <1>4, <1>11, <1>13

-----------------------------------------------------------------------------
(* The page's cut *)

\* Where frameBound stops.
BoundStops(b, at, n, maxFrames, maxBytes) ==
  \/ at[n] \notin DOMAIN b
  \/ /\ BoundNext(b)[at[n]] # 0
     /\ boundBreaks(n, BoundNext(b)[at[n]], maxFrames, maxBytes)

FirstStop(b, at, maxFrames, maxBytes) ==
  CHOOSE n \in 0 .. Len(b) : /\ BoundStops(b, at, n, maxFrames, maxBytes)
                             /\ \A k \in 0 .. n - 1 : ~BoundStops(b, at, k, maxFrames, maxBytes)

\* In a buffer that decodes it stops after a frame, the first at the earliest,
\* and lets through no more than it may.
LEMMA BoundCuts ==
  ASSUME NEW b \in Bytes, b # <<>>, NEW at, NEW n, Decodes(b, at, n),
         NEW maxFrames \in Nat \ {0}, NEW maxBytes
  PROVE  \E t \in 1 .. n : t <= maxFrames /\ frameBound(b, maxFrames, maxBytes) = at[t] - 1
<1>1. /\ n \in 0 .. Len(b) /\ at[0] = 1 /\ at[n] = Len(b) + 1 /\ Len(b) \in Nat
      /\ DOMAIN b = 1 .. Len(b) /\ Len(b) # 0
      /\ \A k \in 0 .. n - 1 : at[k] \in 1 .. Len(b) /\ at[k + 1] = decodeTurn(b, at[k])
  BY DecodesIs, BytesTyped, EmptySeq DEF Bytes
<1>2. PICK au, m : au = Walk(BoundNext(b), Len(b)) /\ m = Turns(au, Len(b))
  OBVIOUS
<1>3. \A k \in 0 .. n : at[k] \in 1 .. Len(b) + 1
  BY PathGrows
<1>4. ASSUME NEW k \in 0 .. n - 1
      PROVE  BoundNext(b)[at[k]] = at[k + 1] /\ DecodeNext(b)[at[k]] = at[k + 1] /\ at[k + 1] # 0
  <2>1. PICK p, q : p = at[k] /\ q = at[k + 1]
    OBVIOUS
  <2>2. p \in 1 .. Len(b) /\ q = decodeTurn(b, p)
    BY <1>1, <2>1
  <2>3. q # 0
    <3>1. k + 1 \in 0 .. n
      BY <1>1
    <3> QED
      BY <1>1, <1>3, <2>1, <3>1
  <2>4. boundTurn(b, p) = q
    BY <2>2, <2>3, BoundAsDecoded
  <2> QED
    BY <1>1, <2>1, <2>2, <2>3, <2>4 DEF BoundNext, DecodeNext
<1>5. \A k \in 0 .. n : au[k] = at[k]
  <2>1. Path(au, BoundNext(b), Len(b), m)
    BY <1>1, <1>2, AllAdvance, WalkEnds
  <2>2. Path(at, DecodeNext(b), Len(b), n)
    BY DEF Decodes
  <2>3. \A k \in 0 .. n - 1 : BoundNext(b)[at[k]] = DecodeNext(b)[at[k]]
    BY <1>4
  <2> QED
    BY <1>1, <2>1, <2>2, <2>3, SamePath
<1>6. PICK stops : stops = {k \in 0 .. Len(b) : BoundStops(b, au, k, maxFrames, maxBytes)}
  OBVIOUS
<1>7. n \in stops
  <2>1. n \in 0 .. n
    BY <1>1
  <2>2. au[n] \notin DOMAIN b
    BY <1>1, <1>5, <2>1
  <2> QED
    BY <1>1, <1>6, <2>2 DEF BoundStops
<1>8. PICK first \in stops : \A k \in stops : first <= k
  <2>1. stops \in SUBSET Nat /\ stops # {}
    BY <1>6, <1>7
  <2> QED
    BY <2>1, Least
<1>9. /\ first \in 0 .. Len(b) /\ BoundStops(b, au, first, maxFrames, maxBytes)
      /\ \A k \in 0 .. first - 1 : ~BoundStops(b, au, k, maxFrames, maxBytes)
  <2>1. first \in 0 .. Len(b) /\ BoundStops(b, au, first, maxFrames, maxBytes)
    BY <1>6, <1>8
  <2>2. ASSUME NEW k \in 0 .. first - 1 PROVE ~BoundStops(b, au, k, maxFrames, maxBytes)
    <3>1. k \in 0 .. Len(b) /\ ~(first <= k)
      BY <1>1, <2>1
    <3> QED
      BY <1>6, <1>8, <3>1
  <2> QED
    BY <2>1, <2>2
<1>10. PICK t : t = FirstStop(b, au, maxFrames, maxBytes)
  OBVIOUS
<1>11. /\ t \in 0 .. Len(b) /\ BoundStops(b, au, t, maxFrames, maxBytes)
       /\ \A k \in 0 .. t - 1 : ~BoundStops(b, au, k, maxFrames, maxBytes)
  BY <1>9, <1>10 DEF FirstStop
<1>12. frameBound(b, maxFrames, maxBytes) = au[t] - 1
  BY <1>2, <1>10 DEF frameBound, BoundNext, FirstStop, BoundStops
<1>13. t <= n
  <2>1. ~(n \in 0 .. t - 1)
    BY <1>6, <1>7, <1>11
  <2> QED
    BY <1>1, <1>11, <2>1
<1>14. t # 0
  <2> SUFFICES ASSUME t = 0 PROVE FALSE
    OBVIOUS
  <2>1. au[0] = 1 /\ 1 \in DOMAIN b
    <3>1. 0 \in 0 .. n
      BY <1>1
    <3> QED
      BY <1>1, <1>5, <3>1
  <2>2. ~boundBreaks(0, BoundNext(b)[1], maxFrames, maxBytes)
    BY DEF boundBreaks
  <2> QED
    BY <1>11, <2>1, <2>2 DEF BoundStops
<1>15. t <= maxFrames
  <2> SUFFICES ASSUME maxFrames < t PROVE FALSE
    BY <1>11
  <2>1. maxFrames \in 0 .. t - 1 /\ maxFrames \in 0 .. n - 1 /\ maxFrames \in 0 .. n
    BY <1>1, <1>11, <1>13
  <2>2. au[maxFrames] = at[maxFrames] /\ BoundNext(b)[at[maxFrames]] # 0
    BY <1>4, <1>5, <2>1
  <2>3. boundBreaks(maxFrames, BoundNext(b)[at[maxFrames]], maxFrames, maxBytes)
    BY DEF boundBreaks
  <2> QED
    BY <1>11, <2>1, <2>2, <2>3 DEF BoundStops
<1>16. t \in 1 .. n /\ au[t] = at[t]
  BY <1>1, <1>5, <1>11, <1>13, <1>14
<1> QED
  BY <1>12, <1>15, <1>16

-----------------------------------------------------------------------------
(* The theorems *)

\* What a buffer decodes to: frames, as many as the loop has turns.
LEMMA FramesTyped ==
  ASSUME NEW b \in Bytes, NEW at, NEW n, Decodes(b, at, n)
  PROVE  /\ DecodedFrames(b, at, n) \in Seq(Frames) /\ Len(DecodedFrames(b, at, n)) = n
         /\ n \in Nat
<1>1. /\ n \in 0 .. Len(b) /\ Len(b) \in Nat
      /\ \A k \in 0 .. n - 1 : at[k] \in 1 .. Len(b) /\ at[k + 1] = decodeTurn(b, at[k])
  BY DecodesIs, BytesTyped
<1>2. PICK fs : fs = DecodedFrames(b, at, n)
  OBVIOUS
<1>3. ASSUME NEW k \in 1 .. n PROVE decode(From(b, at[k - 1])).frame \in Frames
  <2>1. PICK p, q : p = at[k - 1] /\ q = at[k]
    OBVIOUS
  <2>2. k - 1 \in 0 .. n - 1 /\ (k - 1) + 1 = k /\ k \in 0 .. n
    BY <1>1
  <2>3. p \in 1 .. Len(b) /\ q = decodeTurn(b, p)
    BY <1>1, <2>1, <2>2
  <2>4. q # 0
    BY <1>1, <2>1, <2>2, PathGrows
  <2> QED
    BY <2>1, <2>3, <2>4, FrameBytes
<1>4. fs \in [1 .. n -> Frames] /\ n \in Nat
  BY <1>1, <1>2, <1>3 DEF DecodedFrames
<1> QED
  BY <1>2, <1>4, SequenceOf

\* The buffer holds bytes; while no byte was added, what was encoded.
CodecInv ==
  /\ buf \in Bytes /\ raw \in BOOLEAN
  /\ ~raw => decode_batch(buf) = [is |-> "frames", frames |-> batch]

\* One more frame behind a buffer that decodes.
LEMMA OneMoreFrame ==
  ASSUME NEW b \in Bytes, NEW fs, decode_batch(b) = [is |-> "frames", frames |-> fs],
         NEW f \in Frames
  PROVE  /\ b \o encode(f) \in Bytes
         /\ decode_batch(b \o encode(f)) = [is |-> "frames", frames |-> Append(fs, f)]
<1>1. decode_batch(b).is = "frames" /\ decode_batch(b).frames = fs
  OBVIOUS
<1>2. PICK at, n : Decodes(b, at, n)
  BY <1>1, BatchDecodes
<1>3. decode_batch(b) = Decoded(b, at, n)
  BY <1>2, BatchDecoded
<1>4. fs = DecodedFrames(b, at, n) /\ fs \in Seq(Frames) /\ Len(fs) = n /\ n \in Nat
  BY <1>1, <1>2, <1>3, FramesTyped DEF Decoded
<1>5. PICK e : e = encode(f)
  OBVIOUS
<1>6. /\ e \in Bytes /\ Len(e) = 8 + Len(f.payload) /\ Reads(e, f)
      /\ Len(f.payload) \in Nat /\ Len(b) \in Nat
  BY <1>5, EncodeReads, PayloadTyped, BytesTyped DEF Frames
<1>7. PICK c : c = b \o e
  OBVIOUS
<1>8. /\ c \in Bytes /\ Len(c) = Len(b) + Len(e) /\ Len(c) \in Nat /\ Len(e) \in Nat
      /\ \A i \in 1 .. Len(b) + Len(e) : c[i] = IF i <= Len(b) THEN b[i] ELSE e[i - Len(b)]
  <2>1. b \in Seq(Byte) /\ e \in Seq(Byte)
    BY <1>6 DEF Bytes
  <2>2. /\ b \o e \in Seq(Byte) /\ Len(b \o e) = Len(b) + Len(e)
        /\ \A i \in 1 .. Len(b) + Len(e) :
             (b \o e)[i] = IF i <= Len(b) THEN b[i] ELSE e[i - Len(b)]
    BY <2>1, ConcatProperties
  <2>3. Len(b) \in Nat /\ Len(e) \in Nat
    BY <2>1, LenProperties
  <2>4. Len(b) + Len(e) \in Nat
    BY <2>3
  <2> QED
    BY <1>7, <2>2, <2>3, <2>4 DEF Bytes
<1>9. /\ n \in 0 .. Len(b) /\ at[0] = 1 /\ at[n] = Len(b) + 1
      /\ \A k \in 0 .. n - 1 : at[k] \in 1 .. Len(b) /\ at[k + 1] = decodeTurn(b, at[k])
  BY <1>2, DecodesIs
<1>10. ASSUME NEW k \in 0 .. n - 1
       PROVE  /\ at[k] \in 1 .. Len(c) /\ decodeTurn(c, at[k]) = at[k + 1]
              /\ decode(From(c, at[k])) = decode(From(b, at[k]))
  <2>1. PICK p, q : p = at[k] /\ q = at[k + 1]
    OBVIOUS
  <2>2. p \in 1 .. Len(b) /\ q = decodeTurn(b, p) /\ p \in 1 .. Len(c)
    BY <1>6, <1>8, <1>9, <2>1
  <2>3. q \in 1 .. Len(b) + 1
    <3>1. k + 1 \in 0 .. n
      BY <1>9
    <3> QED
      BY <1>2, <2>1, <3>1, PathGrows
  <2>4. q \in Nat /\ q # 0 /\ q <= Len(c) + 1 /\ \A i \in p .. q - 1 : c[i] = b[i]
    <3>1. \A i \in p .. q - 1 : i \in 1 .. Len(b) + Len(e) /\ i <= Len(b)
      BY <1>6, <1>8, <2>2, <2>3
    <3> QED
      BY <1>6, <1>8, <2>3, <3>1
  <2>5. decode(From(c, p)) = decode(From(b, p)) /\ decodeTurn(c, p) = q
    BY <1>8, <2>2, <2>4, AlikeTurns
  <2> QED
    BY <2>1, <2>2, <2>5
<1>11. PICK last : last = Len(b) + 1
  OBVIOUS
<1>12. From(c, last) = e
  <2>1. last \in 1 .. Len(c) + 1 /\ Len(c) - last + 1 = Len(e)
    BY <1>6, <1>8, <1>11
  <2>2. /\ From(c, last) \in Bytes /\ Len(From(c, last)) = Len(e)
        /\ \A i \in 1 .. Len(e) : From(c, last)[i] = c[last + i - 1]
    BY <1>8, <2>1, FromIs
  <2>3. ASSUME NEW i \in 1 .. Len(e) PROVE From(c, last)[i] = e[i]
    <3>1. /\ last + i - 1 = Len(b) + i /\ Len(b) + i \in 1 .. Len(b) + Len(e)
          /\ ~(Len(b) + i <= Len(b)) /\ (Len(b) + i) - Len(b) = i
      BY <1>6, <1>8, <1>11
    <3> QED
      BY <1>8, <2>2, <3>1
  <2> QED
    BY <1>6, <2>2, <2>3, SeqEqual DEF Bytes
<1>13. decode(From(c, last)) = [is |-> "frame", used |-> Len(e), frame |-> f]
  BY <1>6, <1>12, DecodeReads
<1>14. last \in 1 .. Len(c) /\ decodeTurn(c, last) = Len(c) + 1
  <2>1. last \in 1 .. Len(c)
    BY <1>6, <1>8, <1>11
  <2>2. PICK d : d = decode(From(c, last))
    OBVIOUS
  <2>3. d.is = "frame" /\ d.used = Len(e)
    BY <1>13, <2>2
  <2>4. decodeTurn(c, last) = last + Len(e)
    BY <1>8, <2>1, <2>2, <2>3, DecodeTurnIs
  <2>5. last + Len(e) = Len(c) + 1
    <3>1. PICK x, y \in Nat : x = Len(b) /\ y = Len(e)
      BY <1>6, <1>8
    <3>2. Len(c) = x + y /\ last = x + 1
      BY <1>8, <1>11, <3>1
    <3> QED
      BY <3>1, <3>2
  <2> QED
    BY <2>1, <2>4, <2>5
<1>15. PICK au : au = [k \in 0 .. n + 1 |-> IF k <= n THEN at[k] ELSE Len(c) + 1]
  OBVIOUS
<1>16. PICK m : m = n + 1
  OBVIOUS
<1>17. (\A k \in 0 .. n : au[k] = at[k]) /\ au[m] = Len(c) + 1
  BY <1>4, <1>15, <1>16
<1>18. ASSUME NEW k \in 0 .. m - 1
       PROVE  au[k] \in 1 .. Len(c) /\ au[k + 1] = decodeTurn(c, au[k])
  <2>1. CASE k = n
    <3>1. au[k] = last /\ au[k + 1] = Len(c) + 1
      <4>1. n \in 0 .. n
        BY <1>4
      <4> QED
        BY <1>9, <1>11, <1>16, <1>17, <2>1, <4>1
    <3> QED
      BY <1>14, <3>1
  <2>2. CASE k # n
    <3>1. k \in 0 .. n - 1 /\ k \in 0 .. n /\ k + 1 \in 0 .. n
      BY <1>4, <1>16, <2>2
    <3> QED
      BY <1>10, <1>17, <3>1
  <2> QED
    BY <2>1, <2>2
<1>19. Decodes(c, au, m)
  <2>1. m \in 0 .. Len(c) /\ 0 \in 0 .. n
    BY <1>4, <1>6, <1>8, <1>9, <1>16
  <2>2. au[0] = 1
    BY <1>9, <1>17, <2>1
  <2> QED
    BY <1>8, <1>17, <1>18, <2>1, <2>2, DecodesIs
<1>20. decode_batch(c) = Decoded(c, au, m)
  BY <1>8, <1>19, BatchDecoded
<1>21. PICK gs : gs = DecodedFrames(c, au, m)
  OBVIOUS
<1>22. gs \in Seq(Frames) /\ Len(gs) = m
  BY <1>8, <1>19, <1>21, FramesTyped
<1>23. ASSUME NEW k \in 1 .. m PROVE gs[k] = Append(fs, f)[k]
  <2>1. /\ gs[k] = decode(From(c, au[k - 1])).frame
        /\ k - 1 \in 0 .. n
    BY <1>4, <1>16, <1>21 DEF DecodedFrames
  <2>2. au[k - 1] = at[k - 1]
    BY <1>17, <2>1
  <2>3. CASE k = m
    <3>1. k - 1 = n
      BY <1>4, <1>16, <2>3
    <3>2. gs[k] = f
      BY <1>9, <1>11, <1>13, <2>1, <2>2, <3>1
    <3>3. Append(fs, f)[k] = f
      BY <1>4, <1>16, <2>3, AppendProperties
    <3> QED
      BY <3>2, <3>3
  <2>4. CASE k # m
    <3>1. k \in 1 .. n /\ k - 1 \in 0 .. n - 1
      BY <1>4, <1>16, <2>4
    <3>2. fs[k] = decode(From(b, at[k - 1])).frame
      BY <1>4, <3>1 DEF DecodedFrames
    <3>3. decode(From(c, at[k - 1])) = decode(From(b, at[k - 1]))
      BY <1>10, <3>1
    <3>4. Append(fs, f)[k] = fs[k]
      BY <1>4, <3>1, AppendProperties
    <3> QED
      BY <2>1, <2>2, <3>2, <3>3, <3>4
  <2> QED
    BY <2>3, <2>4
<1>24. Append(fs, f) \in Seq(Frames) /\ Len(Append(fs, f)) = m
  BY <1>4, <1>16, AppendProperties
<1>25. gs = Append(fs, f)
  BY <1>22, <1>23, <1>24, SeqEqual
<1> QED
  BY <1>5, <1>7, <1>8, <1>20, <1>21, <1>25 DEF Decoded

LEMMA StartsEmpty == CInit => CodecInv
<1> SUFFICES ASSUME CInit PROVE CodecInv
  OBVIOUS
<1>1. PICK none : none = <<>>
  OBVIOUS
<1>2. none \in Bytes /\ Len(none) = 0
  BY <1>1 DEF Bytes
<1>3. PICK at : at = [k \in 0 .. 0 |-> 1]
  OBVIOUS
<1>4. Decodes(none, at, 0)
  <2>1. at[0] = 1 /\ 0 \in 0 .. Len(none) /\ at[0] = Len(none) + 1
    BY <1>2, <1>3
  <2>2. \A k \in 0 .. 0 - 1 : at[k] \in 1 .. Len(none) /\ at[k + 1] = decodeTurn(none, at[k])
    OBVIOUS
  <2> QED
    BY <1>2, <2>1, <2>2, DecodesIs
<1>5. decode_batch(none) = Decoded(none, at, 0)
  BY <1>2, <1>4, BatchDecoded
<1>6. DecodedFrames(none, at, 0) = none
  <2>1. PICK fs : fs = DecodedFrames(none, at, 0)
    OBVIOUS
  <2>2. fs \in Seq(Frames) /\ Len(fs) = 0
    BY <1>2, <1>4, <2>1, FramesTyped
  <2> QED
    BY <1>1, <2>1, <2>2, EmptySeq
<1>7. decode_batch(buf) = [is |-> "frames", frames |-> batch]
  BY <1>1, <1>5, <1>6 DEF Decoded, CInit
<1> QED
  BY <1>1, <1>2, <1>7 DEF CodecInv, CInit

LEMMA CodecKept ==
  ASSUME CodecInv, [CNext]_cvars
  PROVE  CodecInv'
<1>1. ASSUME NEW ty \in Byte, NEW id \in Ids, NEW payload \in Payloads,
             AddFrame(Frame(ty, id, payload))
      PROVE  CodecInv'
  <2>1. PICK f \in Frames : f = Frame(ty, id, payload)
    BY DEF Frames, Frame
  <2>2. ~raw /\ raw' = raw /\ batch' = Append(batch, f) /\ buf' = buf \o encode(f)
    BY <1>1, <2>1 DEF AddFrame
  <2>3. buf \in Bytes /\ decode_batch(buf) = [is |-> "frames", frames |-> batch]
    BY <2>2 DEF CodecInv
  <2>4. PICK c, more : c = buf \o encode(f) /\ more = Append(batch, f)
    OBVIOUS
  <2>5. c \in Bytes /\ decode_batch(c) = [is |-> "frames", frames |-> more]
    BY <2>3, <2>4, OneMoreFrame
  <2>6. buf' = c /\ batch' = more
    BY <2>2, <2>4
  <2> QED
    BY <2>2, <2>5, <2>6 DEF CodecInv
<1>2. ASSUME NEW x \in Byte, AddByte(x) PROVE CodecInv'
  <2>1. buf' \in Bytes
    BY <1>2, AppendProperties DEF AddByte, CodecInv, Bytes
  <2> QED
    BY <1>2, <2>1 DEF AddByte, CodecInv
<1>3. CASE UNCHANGED cvars
  BY <1>3 DEF cvars, CodecInv
<1> QED
  BY <1>1, <1>2, <1>3 DEF CNext

THEOREM CodecCorrect == CSpec => []CodecInv
BY StartsEmpty, CodecKept, PTL DEF CSpec

\* Whatever bytes arrive, a buffer that decodes is what its frames are encoded
\* to; and what encode wrote, frame by frame, decode_batch reads (frame.rs).
THEOREM OneMeaning == CSpec => []Canonical
<1>1. CodecInv => Canonical
  <2> SUFFICES ASSUME CodecInv, decode_batch(buf).is = "frames"
               PROVE  EncodeAll(decode_batch(buf).frames) = buf
    BY DEF Canonical, CodecInv
  <2>1. PICK b \in Bytes : b = buf
    BY DEF CodecInv
  <2>2. PICK at, n : Decodes(b, at, n)
    BY <2>1, BatchDecodes
  <2>3. PICK fs : fs = DecodedFrames(b, at, n)
    OBVIOUS
  <2>4. decode_batch(b).frames = fs
    BY <2>2, <2>3, BatchDecoded DEF Decoded
  <2>5. Len(fs) = n /\ n \in 0 .. n
    BY <2>2, <2>3, FramesTyped
  <2>6. EncodeAll(fs) = SubSeq(b, 1, at[n] - 1)
    BY <2>2, <2>3, <2>5, EncodesBuffer
  <2>7. at[n] - 1 = Len(b)
    <3>1. at[n] = Len(b) + 1 /\ Len(b) \in Nat
      BY <2>2, DecodesIs, BytesTyped
    <3> QED
      BY <3>1
  <2>8. SubSeq(b, 1, Len(b)) = b
    BY SubSeqFull DEF Bytes
  <2> QED
    BY <2>1, <2>4, <2>6, <2>7, <2>8
<1> QED
  BY <1>1, CodecCorrect, PTL

\* Every batch the page accepts, the relay cuts at the same places
\* (bridge_ref.html:43-54, frame.rs).
THEOREM PageSplitsAsRelay == CSpec => []PageAgreesWithRelay
<1>1. CodecInv => PageAgreesWithRelay
  <2> SUFFICES ASSUME CodecInv, splitFrames(buf).ok
               PROVE  /\ decode_batch(buf).is = "frames"
                      /\ Len(decode_batch(buf).frames) = Len(splitFrames(buf).ends)
                      /\ \A m \in DOMAIN splitFrames(buf).ends :
                           Len(EncodeAll(SubSeq(decode_batch(buf).frames, 1, m)))
                             = splitFrames(buf).ends[m]
    BY DEF PageAgreesWithRelay
  <2>1. PICK b \in Bytes : b = buf
    BY DEF CodecInv
  <2>2. PICK last \in Nat : last = Len(b) /\ DOMAIN b = 1 .. last
    BY BytesTyped
  <2>3. PICK at, n : at = Walk(SplitNext(b), last) /\ n = Turns(at, last)
    OBVIOUS
  <2>4. /\ splitFrames(b).ok <=> at[n] # 0 /\ n \in 1 .. MaxFrames
        /\ splitFrames(b).ends = [k \in 1 .. n |-> at[k] - 1]
    BY <2>2, <2>3 DEF splitFrames, SplitNext
  <2>5. Path(at, SplitNext(b), last, n) /\ at[n] # 0
    BY <2>1, <2>2, <2>3, <2>4, AllAdvance, WalkEnds
  <2>6. Decodes(b, at, n)
    <3>1. /\ n \in 0 .. last /\ at[0] = 1 /\ at[n] \in {0, last + 1}
          /\ \A k \in 0 .. n - 1 : at[k] \in 1 .. last /\ at[k + 1] = SplitNext(b)[at[k]]
      BY <2>5 DEF Path
    <3>2. ASSUME NEW k \in 0 .. n - 1 PROVE at[k + 1] = DecodeNext(b)[at[k]]
      <4>1. PICK p, q : p = at[k] /\ q = at[k + 1]
        OBVIOUS
      <4>2. p \in 1 .. last /\ q = splitTurn(b, p)
        BY <2>2, <3>1, <4>1 DEF SplitNext
      <4>3. q # 0
        <5>1. k + 1 = n \/ k + 1 \in 0 .. n - 1
          BY <3>1
        <5>2. 0 \notin 1 .. last
          OBVIOUS
        <5> QED
          BY <2>5, <3>1, <4>1, <5>1, <5>2
      <4>4. decodeTurn(b, p) = q
        BY <2>2, <4>2, <4>3, SplitAsDecoded
      <4> QED
        BY <2>2, <4>1, <4>2, <4>4 DEF DecodeNext
    <3> QED
      BY <2>2, <2>5, <3>1, <3>2 DEF Decodes, Path
  <2>7. PICK fs : fs = DecodedFrames(b, at, n)
    OBVIOUS
  <2>8. decode_batch(b).is = "frames" /\ decode_batch(b).frames = fs
    BY <2>6, <2>7, BatchDecoded DEF Decoded
  <2>9. fs \in Seq(Frames) /\ Len(fs) = n /\ n \in Nat
    BY <2>6, <2>7, FramesTyped
  <2>10. PICK ends : ends = [k \in 1 .. n |-> at[k] - 1]
    OBVIOUS
  <2>11. Len(ends) = n /\ DOMAIN ends = 1 .. n
    <3>1. ASSUME NEW k \in 1 .. n PROVE at[k] - 1 \in Nat
      <4>1. k \in 0 .. n
        BY <2>9
      <4>2. at[k] \in 1 .. Len(b) + 1
        BY <2>6, <4>1, PathGrows
      <4> QED
        BY <2>2, <4>2
    <3>2. ends \in [1 .. n -> Nat]
      BY <2>10, <3>1
    <3> QED
      BY <2>9, <3>2, SequenceOf
  <2>12. ASSUME NEW m \in 1 .. n PROVE Len(EncodeAll(SubSeq(fs, 1, m))) = ends[m]
    <3>1. m \in 0 .. n /\ m \in Nat
      BY <2>9
    <3>2. PICK gs : gs = SubSeq(fs, 1, m)
      OBVIOUS
    <3>3. Len(gs) = m /\ \A k \in 1 .. m : gs[k] = fs[k]
      <4>1. \A k \in 1 .. m : k \in 1 .. n /\ fs[k] \in Frames
        BY <2>9
      <4>2. Len(gs) = m /\ \A k \in 1 .. m - 1 + 1 : gs[k] = fs[1 + k - 1]
        BY <2>9, <3>1, <3>2, <4>1, SubSeqProperties
      <4>3. \A k \in 1 .. m : k \in 1 .. m - 1 + 1 /\ 1 + k - 1 = k
        BY <3>1
      <4> QED
        BY <4>2, <4>3
    <3>4. EncodeAll(gs) = SubSeq(b, 1, at[m] - 1)
      BY <2>6, <2>7, <3>1, <3>3, EncodesBuffer
    <3>5. PICK cut : cut = at[m] - 1
      OBVIOUS
    <3>6. cut \in 0 .. Len(b)
      <4>1. PICK x : x = at[m]
        OBVIOUS
      <4>2. x \in 1 .. Len(b) + 1
        BY <2>6, <3>1, <4>1, PathGrows
      <4> QED
        BY <2>2, <3>5, <4>1, <4>2
    <3>7. Len(SubSeq(b, 1, cut)) = cut
      <4>1. 1 \in 1 .. Len(b) + 1 /\ cut \in 1 - 1 .. Len(b) /\ cut - 1 + 1 = cut
        BY <2>2, <3>6
      <4> QED
        BY <4>1, PartOf
    <3> QED
      BY <2>10, <3>2, <3>4, <3>5, <3>7
  <2>13. splitFrames(b).ends = ends
    BY <2>4, <2>10
  <2> QED
    BY <2>1, <2>8, <2>9, <2>11, <2>12, <2>13
<1> QED
  BY <1>1, CodecCorrect, PTL

\* For all limits frameBound is given, the page cuts a body that decodes into two
\* that do, the first with a frame and with no more frames than the limit
\* (bridge_ref.html:55-66).
LEMMA BoundBetweenFrames ==
  ASSUME NEW b \in Bytes, decode_batch(b).is = "frames", b # <<>>,
         NEW maxFrames \in Nat \ {0}, NEW maxBytes,
         NEW cut, cut = frameBound(b, maxFrames, maxBytes)
  PROVE  /\ cut > 0 /\ decode_batch(SubSeq(b, 1, cut)).is = "frames"
         /\ Len(decode_batch(SubSeq(b, 1, cut)).frames) <= maxFrames
         /\ decode_batch(SubSeq(b, cut + 1, Len(b))).is = "frames"
<1>1. PICK at, n : Decodes(b, at, n)
  BY BatchDecodes
<1>2. PICK t \in 1 .. n : t <= maxFrames /\ cut = at[t] - 1
  BY <1>1, BoundCuts
<1>3. n \in Nat /\ t \in 0 .. n /\ 0 \in 0 .. n /\ at[0] = 1 /\ Len(b) \in Nat
  BY <1>1, FramesTyped, DecodesIs, BytesTyped
<1>4. PICK x : x = at[t]
  OBVIOUS
<1>5. x \in 1 .. Len(b) + 1 /\ x - 1 >= t - 0
  BY <1>1, <1>3, <1>4, PathGrows
<1>6. cut > 0 /\ cut \in 0 .. Len(b) /\ cut + 1 = x
  BY <1>2, <1>3, <1>4, <1>5
<1>7. PICK c, d : c = SubSeq(b, 1, cut) /\ d = From(b, x)
  OBVIOUS
<1>8. c \in Bytes /\ d \in Bytes
  <2>1. 1 \in 1 .. Len(b) + 1 /\ cut \in 1 - 1 .. Len(b)
    BY <1>3, <1>6
  <2>2. c \in Bytes
    BY <1>7, <2>1, PartOf
  <2> QED
    BY <1>5, <1>7, <2>2, FromIs
<1>9. Decodes(c, at, t)
  BY <1>1, <1>2, <1>3, <1>7, FrontDecodes
<1>10. decode_batch(c).is = "frames" /\ Len(decode_batch(c).frames) = t
  <2>1. decode_batch(c) = Decoded(c, at, t)
    BY <1>8, <1>9, BatchDecoded
  <2>2. Len(DecodedFrames(c, at, t)) = t
    BY <1>8, <1>9, FramesTyped
  <2> QED
    BY <2>1, <2>2 DEF Decoded
<1>11. decode_batch(d).is = "frames"
  <2>1. PICK rest : rest = [k \in 0 .. n - t |-> at[t + k] - (at[t] - 1)]
    OBVIOUS
  <2>2. Decodes(d, rest, n - t)
    BY <1>1, <1>3, <1>4, <1>7, <2>1, RestDecodes
  <2>3. decode_batch(d) = Decoded(d, rest, n - t)
    BY <1>8, <2>2, BatchDecoded
  <2> QED
    BY <2>3 DEF Decoded
<1> QED
  BY <1>2, <1>6, <1>7, <1>10, <1>11 DEF From

THEOREM CutsAtFrames == CSpec => []CutsBetweenFrames
<1>1. CodecInv => CutsBetweenFrames
  <2> SUFFICES ASSUME CodecInv, decode_batch(buf).is = "frames", buf # <<>>,
                      NEW maxFrames \in 1 .. 2, NEW maxBytes \in 1 .. MaxLen,
                      NEW cut, cut = frameBound(buf, maxFrames, maxBytes)
               PROVE  /\ cut > 0 /\ decode_batch(SubSeq(buf, 1, cut)).is = "frames"
                      /\ Len(decode_batch(SubSeq(buf, 1, cut)).frames) <= maxFrames
                      /\ decode_batch(SubSeq(buf, cut + 1, Len(buf))).is = "frames"
    BY DEF CutsBetweenFrames
  <2>1. PICK b \in Bytes : b = buf
    BY DEF CodecInv
  <2>2. maxFrames \in Nat \ {0}
    OBVIOUS
  <2> QED
    BY <2>1, <2>2, BoundBetweenFrames
<1> QED
  BY <1>1, CodecCorrect, PTL
=============================================================================
