----------------------------- MODULE FrameCodec -----------------------------
(***************************************************************************)
(* The wire format: type | stream id (3 bytes) | payload length (4 bytes)  *)
(* | payload, big endian.  Its two readers are decode_batch of the relay   *)
(* (src/src/frame.rs) and splitFrames and frameBound of the bridge page    *)
(* (src/res/bridge_ref.html:43-66), written independently of each other.   *)
(*                                                                         *)
(* A byte is a digit to the base Base, 256 in the code; the state is a     *)
(* buffer that grows by whole frames or by single bytes.                   *)
(***************************************************************************)
EXTENDS Integers, Sequences

CONSTANTS
  Base,        \* values of a byte (256)
  MaxPayload,  \* MAX_FRAME_PAYLOAD (2^20), and the limit in splitFrames
  MaxFrames,   \* frames splitFrames accepts in one buffer (4096)
  TypeData,    \* TYPE_DATA (2), which the page refuses without a payload
  MaxLen       \* bound: length of the buffer

ASSUME CodecAssumption ==
  /\ Base \in Nat /\ Base >= 2
  /\ MaxPayload \in Nat /\ MaxPayload < Base * Base * Base * Base
  /\ MaxFrames \in Nat
  /\ TypeData \in 0 .. Base - 1
  /\ MaxLen \in Nat

VARIABLES
  batch,  \* the frames encoded so far, while the buffer is nothing else
  raw,    \* a byte was added
  buf     \* the buffer

cvars == <<batch, raw, buf>>

Byte == 0 .. Base - 1
HEADER_LEN == 8

\* Big endian numbers: getUint32, from_be_bytes and the shifts of to_be_bytes.
UInt24(a, b, c) == (a * Base + b) * Base + c
UInt32(a, b, c, d) == UInt24(a, b, c) * Base + d
Shifted(n) == n \div Base
Low(n) == n % Base

\* Where a loop over a buffer stands, turn by turn: at first 1, then where next
\* leads, until it has passed the last byte or next leads nowhere (0).
Walk(next, last) ==
  LET at[k \in 0 .. last] ==
        IF k = 0 THEN 1
        ELSE LET p == at[k - 1] IN IF p \in 1 .. last THEN next[p] ELSE p
  IN at

\* The turns until then.
Turns(at, last) ==
  CHOOSE n \in 0 .. last : at[n] \notin 1 .. last /\ \A k \in 0 .. n - 1 : at[k] \in 1 .. last

-----------------------------------------------------------------------------
(* src/src/frame.rs *)

Frame(ty, id, payload) == [ty |-> ty, id |-> id, payload |-> payload]

encode(f) ==
  LET id == f.id
      len == Len(f.payload)
  IN <<f.ty, Low(Shifted(Shifted(id))), Low(Shifted(id)), Low(id),
       Low(Shifted(Shifted(Shifted(len)))), Low(Shifted(Shifted(len))), Low(Shifted(len)),
       Low(len)>> \o f.payload

Incomplete == [is |-> "incomplete"]
Oversized == [is |-> "oversized"]

\* Mutant: a frame whose last byte is missing is taken as it is.
DecodeShort(b) ==
  IF Len(b) < HEADER_LEN THEN Incomplete
  ELSE LET plen == UInt32(b[5], b[6], b[7], b[8])
       IN IF plen > MaxPayload THEN Oversized
          ELSE IF Len(b) + 1 < HEADER_LEN + plen THEN Incomplete
          ELSE [is |-> "frame", used |-> HEADER_LEN + plen,
                frame |-> Frame(b[1], UInt24(b[2], b[3], b[4]),
                                SubSeq(b, HEADER_LEN + 1, Len(b)))]

\* The first frame of b, if b holds all of it.
decode(b) ==
  IF Len(b) < HEADER_LEN THEN Incomplete
  ELSE LET plen == UInt32(b[5], b[6], b[7], b[8])
       IN IF plen > MaxPayload THEN Oversized
          ELSE IF Len(b) < HEADER_LEN + plen THEN Incomplete
          ELSE [is |-> "frame", used |-> HEADER_LEN + plen,
                frame |-> Frame(b[1], UInt24(b[2], b[3], b[4]),
                                SubSeq(b, HEADER_LEN + 1, HEADER_LEN + plen))]

\* One turn of decode_batch: where the frame at p ends.
decodeTurn(b, p) ==
  LET d == decode(SubSeq(b, p, Len(b))) IN IF d.is = "frame" THEN p + d.used ELSE 0

\* The frames of b, or the first error.
decode_batch(b) ==
  LET at == Walk([p \in DOMAIN b |-> decodeTurn(b, p)], Len(b))
      n == Turns(at, Len(b))
      One(k) == decode(SubSeq(b, at[k], Len(b)))
  IN IF at[n] = 0 THEN One(n - 1)
     ELSE [is |-> "frames", frames |-> [k \in 1 .. n |-> One(k - 1).frame]]

-----------------------------------------------------------------------------
(* src/res/bridge_ref.html *)

getUint32(b, p) == UInt32(b[p], b[p + 1], b[p + 2], b[p + 3])

\* Mutant: the page accepts one byte more than the relay.
SplitOneMore(b, p) ==
  IF Len(b) - p + 1 < 8 THEN 0
  ELSE LET size == getUint32(b, p + 4)
           end == p + 8 + size
       IN IF (b[p] = TypeData /\ size = 0) \/ size > MaxPayload + 1 \/ end > Len(b) + 1
          THEN 0 ELSE end

\* One turn of splitFrames.
splitTurn(b, p) ==
  IF Len(b) - p + 1 < 8 THEN 0
  ELSE LET size == getUint32(b, p + 4)
           end == p + 8 + size
       IN IF (b[p] = TypeData /\ size = 0) \/ size > MaxPayload \/ end > Len(b) + 1
          THEN 0 ELSE end

\* The positions at which the frames of b end, if the page accepts b.
splitFrames(b) ==
  LET at == Walk([p \in DOMAIN b |-> splitTurn(b, p)], Len(b))
      n == Turns(at, Len(b))
  IN [ok |-> at[n] # 0 /\ n \in 1 .. MaxFrames, ends |-> [k \in 1 .. n |-> at[k] - 1]]

\* One turn of frameBound.
boundTurn(b, p) ==
  IF Len(b) - p + 1 < 8 THEN 0
  ELSE LET end == p + 8 + getUint32(b, p + 4) IN IF end > Len(b) + 1 THEN 0 ELSE end

\* Mutant: a first frame over the limits is not let through.
BoundBreaksAtOnce(frames, end, maxFrames, maxBytes) ==
  frames >= maxFrames \/ end - 1 > maxBytes

\* Whether frameBound stops before the frame that ends before end.
boundBreaks(frames, end, maxFrames, maxBytes) ==
  frames > 0 /\ (frames >= maxFrames \/ end - 1 > maxBytes)

\* How many bytes of b a request may carry: whole frames within both limits,
\* and the first frame whatever its length; -1 when b is no sequence of frames.
frameBound(b, maxFrames, maxBytes) ==
  LET next == [p \in DOMAIN b |-> boundTurn(b, p)]
      at == Walk(next, Len(b))
      Stops(n) == \/ at[n] \notin DOMAIN b
                  \/ next[at[n]] # 0 /\ boundBreaks(n, next[at[n]], maxFrames, maxBytes)
      stop == CHOOSE n \in 0 .. Len(b) : Stops(n) /\ \A k \in 0 .. n - 1 : ~Stops(k)
  IN at[stop] - 1

-----------------------------------------------------------------------------
CInit ==
  /\ batch = <<>>
  /\ raw = FALSE
  /\ buf = <<>>

AddFrame(f) ==
  /\ ~raw
  /\ Len(buf) + Len(encode(f)) <= MaxLen
  /\ batch' = Append(batch, f)
  /\ buf' = buf \o encode(f)
  /\ UNCHANGED raw

AddByte(b) ==
  /\ Len(buf) < MaxLen
  /\ buf' = Append(buf, b)
  /\ raw' = TRUE
  /\ batch' = <<>>

Ids == 0 .. UInt24(Base - 1, Base - 1, Base - 1)
Payloads == UNION {[1 .. n -> Byte] : n \in 0 .. MaxPayload}

CNext ==
  \/ \E ty \in Byte, id \in Ids, payload \in Payloads :
       AddFrame(Frame(ty, id, payload))
  \/ \E b \in Byte : AddByte(b)

CSpec == CInit /\ [][CNext]_cvars

-----------------------------------------------------------------------------
(* Properties *)

EncodeAll(fs) ==
  LET to[n \in 0 .. Len(fs)] == IF n = 0 THEN <<>> ELSE to[n - 1] \o encode(fs[n])
  IN to[Len(fs)]

\* A buffer has one meaning: when it decodes, encoding the frames gives it
\* back, and what was encoded frame by frame decodes to those frames.
Canonical ==
  LET d == decode_batch(buf)
  IN /\ d.is = "frames" => EncodeAll(d.frames) = buf
     /\ ~raw => d = [is |-> "frames", frames |-> batch]

\* What the page splits, the relay decodes into as many frames, cut at the
\* same places.
PageAgreesWithRelay ==
  LET s == splitFrames(buf)
      d == decode_batch(buf)
  IN s.ok => /\ d.is = "frames" /\ Len(d.frames) = Len(s.ends)
             /\ \A n \in DOMAIN s.ends : Len(EncodeAll(SubSeq(d.frames, 1, n))) = s.ends[n]

\* Wherever the page cuts a body that decodes, both parts decode, and the
\* first makes progress.
CutsBetweenFrames ==
  decode_batch(buf).is = "frames" /\ buf # <<>> =>
    \A maxFrames \in 1 .. 2, maxBytes \in 1 .. MaxLen :
      LET cut == frameBound(buf, maxFrames, maxBytes)
      IN /\ cut > 0
         /\ decode_batch(SubSeq(buf, 1, cut)).is = "frames"
         /\ Len(decode_batch(SubSeq(buf, 1, cut)).frames) <= maxFrames
         /\ decode_batch(SubSeq(buf, cut + 1, Len(buf))).is = "frames"
=============================================================================
