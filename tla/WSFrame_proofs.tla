----------------------------- MODULE WSFrame_proofs -----------------------------
(***************************************************************************)
(* FramesWhole for payloads of any length up to what a browser reads, any  *)
(* limit of the server and a wire of any length.  The peer's reading of    *)
(* the wire is recursive; what matters of it is that a frame stays what it *)
(* is when more arrives (SameFrame), so that the reading of a longer wire  *)
(* is the reading of the wire and then of the rest (Continued).  The       *)
(* headers of the three forms then say what was written (HeaderSays), and  *)
(* the invariant FrameIInv is: what the peer has not read is the header of *)
(* the frame of the pump that holds writeMu, or nothing.                   *)
(***************************************************************************)
EXTENDS WSFrame, SequenceTheorems, WellFoundedInduction, TLAPS

-------------------------------------------------------------------------------
(* The format *)

(* What the wire holds, and the frames that the server writes              *)
Piece == [value : Int, count : Nat]
Opcode == {TextFrame, CloseFrame, PingFrame, PongFrame}

(* The number NoLimit itself is too long for one of the provers: what     *)
(* matters of it is said here.                                             *)
LEMMA Limit == NoLimit \in Nat /\ 12 \in 0..NoLimit /\ 0 \in 0..NoLimit /\ \A n \in 0..NoLimit : n \in Nat
<1>1. NoLimit \in Nat
  BY SMT DEF NoLimit
<1>2. 12 <= NoLimit
  BY SMT DEF NoLimit
<1>. QED BY <1>1, <1>2

(* A number is what its high and its low part make together.               *)
LEMMA Octets ==
  ASSUME NEW n \in Nat
  PROVE  /\ 256 * (n \div 256) + (n % 256) = n
         /\ 65536 * (n \div 65536) + (n % 65536) = n
         /\ n \div 256 \in Nat /\ n % 256 \in Nat /\ n \div 65536 \in Nat /\ n % 65536 \in Nat
OBVIOUS

LEMMA BytesAre ==
  ASSUME NEW values \in Seq(Nat)
  PROVE  /\ Bytes(values) \in Seq(Piece) /\ Len(Bytes(values)) = Len(values)
         /\ \A i \in 1..Len(values) :
              Bytes(values)[i].value = values[i] /\ Bytes(values)[i].count = 1
<1>1. DOMAIN values = 1..Len(values) /\ Len(values) \in Nat /\ \A i \in 1..Len(values) : values[i] \in Nat
  OBVIOUS
<1>2. Bytes(values) = [i \in 1..Len(values) |-> [value |-> values[i], count |-> 1]]
  BY <1>1 DEF Bytes
<1>3. \A i \in 1..Len(values) : [value |-> values[i], count |-> 1] \in Piece
  BY <1>1 DEF Piece
<1>. QED BY <1>1, <1>2, <1>3

(* What the beginning of a frame says is well formed and within the limit. *)
Begun(r) ==
  /\ Len(r) >= 2 /\ ~(r[1].value < 0 \/ r[2].value < 0)
  /\ Len(r) >= 2 + lenBytes(r) /\ ~\E i \in 3..2 + lenBytes(r) : r[i].value < 0
  /\ ~(lenBytes(r) = 8 /\ \E i \in 3..6 : r[i].value # 0)

Headed(r, maxLen) ==
  /\ Begun(r) /\ ~(payloadLen(r) > maxLen)
  /\ Len(r) >= body(r) - 1
  /\ ~(isMasked(r) /\ r[body(r) - 1].value # Key)

(* A frame is one of two: without a payload, or with all of it.            *)
LEMMA TwoFrames ==
  ASSUME NEW r, NEW maxLen
  PROVE  /\ readWSFrame(r, maxLen).status = "frame" =>
              Headed(r, maxLen) /\ (payloadLen(r) = 0 \/ Len(r) >= body(r))
         /\ Headed(r, maxLen) /\ payloadLen(r) = 0 => readWSFrame(r, maxLen) = Frame(r, body(r) - 1)
         /\ Headed(r, maxLen) /\ payloadLen(r) # 0 /\ Len(r) >= body(r) =>
              IF /\ r[body(r)].value = (IF isMasked(r) THEN Masked ELSE Data)
                 /\ r[body(r)].count = payloadLen(r)
                THEN readWSFrame(r, maxLen) = Frame(r, body(r))
                ELSE readWSFrame(r, maxLen).status # "frame"
         /\ Headed(r, maxLen) /\ payloadLen(r) # 0 /\ ~(Len(r) >= body(r)) =>
              readWSFrame(r, maxLen) = Incomplete
<1>1. Incomplete.status # "frame" /\ Garbage.status # "frame" /\ Refused.status # "frame"
  BY DEF Incomplete, Garbage, Refused
<1>2. ASSUME Headed(r, maxLen), payloadLen(r) = 0
      PROVE  readWSFrame(r, maxLen) = Frame(r, body(r) - 1)
  BY <1>2, Zenon DEF readWSFrame, Headed, Begun
<1>3. ASSUME Headed(r, maxLen), payloadLen(r) # 0, Len(r) >= body(r)
      PROVE  IF /\ r[body(r)].value = (IF isMasked(r) THEN Masked ELSE Data)
                /\ r[body(r)].count = payloadLen(r)
               THEN readWSFrame(r, maxLen) = Frame(r, body(r))
               ELSE readWSFrame(r, maxLen).status # "frame"
  BY <1>1, <1>3, Zenon DEF readWSFrame, Headed, Begun
<1>4. ASSUME Headed(r, maxLen), payloadLen(r) # 0, ~(Len(r) >= body(r))
      PROVE  readWSFrame(r, maxLen) = Incomplete
  BY <1>4, Zenon DEF readWSFrame, Headed, Begun
<1>5. ASSUME ~Headed(r, maxLen)
      PROVE  readWSFrame(r, maxLen).status # "frame"
  BY <1>1, <1>5, Zenon DEF readWSFrame, Headed, Begun
<1>. QED BY <1>1, <1>2, <1>3, <1>4, <1>5, Zenon

(* The length's place in a header, and the length, by what a piece is      *)
(* before anything is appended                                             *)
LEMMA LengthBytes ==
  ASSUME NEW r \in Seq(Piece), NEW q \in Seq(Piece), 2 <= Len(r), Len(r) <= Len(q),
         \A i \in 1..Len(r) : q[i] = r[i]
  PROVE  /\ lenBytes(r) \in {0, 2, 8} /\ lenBytes(q) = lenBytes(r)
         /\ isMasked(r) \in BOOLEAN /\ isMasked(q) = isMasked(r)
         /\ body(r) \in 3..12 /\ body(q) = body(r) /\ body(r) > 2 + lenBytes(r)
         /\ Len(r) >= 2 + lenBytes(r) => payloadLen(q) = payloadLen(r) /\ payloadLen(r) \in Int
<1>0. r[2] \in Piece /\ q[2] = r[2]
  OBVIOUS
<1>1. r[2].value \in Int /\ r[2].value % 128 \in 0..127 /\ q[2] = r[2]
  <2>1. \A n \in Int : n % 128 \in 0..127
    OBVIOUS
  <2>2. r[2].value \in Int
    BY <1>0 DEF Piece
  <2>. QED BY <1>0, <2>1, <2>2
<1>2. lenBytes(r) \in {0, 2, 8} /\ lenBytes(q) = lenBytes(r)
  BY <1>1 DEF lenBytes
<1>3. isMasked(r) \in BOOLEAN /\ isMasked(q) = isMasked(r)
  BY <1>1 DEF isMasked
<1>4. body(r) \in 3..12 /\ body(q) = body(r) /\ body(r) > 2 + lenBytes(r)
  BY <1>2, <1>3 DEF body
<1>5. ASSUME Len(r) >= 2 + lenBytes(r)
      PROVE  payloadLen(q) = payloadLen(r) /\ payloadLen(r) \in Int
  <2>1. \A i \in 1..2 + lenBytes(r) : q[i] = r[i] /\ r[i].value \in Int
    <3>. SUFFICES ASSUME NEW i \in 1..2 + lenBytes(r)
                  PROVE  q[i] = r[i] /\ r[i].value \in Int
      OBVIOUS
    <3>1. i \in 1..Len(r)
      BY <1>2, <1>5
    <3>2. r[i] \in Piece
      BY <3>1
    <3>. QED BY <3>1, <3>2 DEF Piece
  <2>2. CASE lenBytes(r) = 2
    <3>1. Uint16(q, 3) = Uint16(r, 3) /\ Uint16(r, 3) \in Int
      <4>1. /\ q[3] = r[3] /\ r[3].value \in Int
            /\ q[4] = r[4] /\ r[4].value \in Int /\ 3 + 1 = 4
        BY <2>1, <2>2
      <4>. QED BY <4>1 DEF Uint16
    <3>2. payloadLen(r) = Uint16(r, 3) /\ payloadLen(q) = Uint16(q, 3)
      BY <1>2, <2>2 DEF payloadLen
    <3>. QED BY <3>1, <3>2
  <2>3. CASE lenBytes(r) = 8
    <3>1. /\ Uint16(q, 7) = Uint16(r, 7) /\ Uint16(r, 7) \in Int
          /\ Uint16(q, 9) = Uint16(r, 9) /\ Uint16(r, 9) \in Int
      <4>1. ASSUME NEW a \in 1..9
            PROVE  Uint16(q, a) = Uint16(r, a) /\ Uint16(r, a) \in Int
        <5>1. a \in 1..2 + lenBytes(r) /\ a + 1 \in 1..2 + lenBytes(r)
          BY <2>3
        <5>2. /\ q[a] = r[a] /\ r[a].value \in Int
              /\ q[a + 1] = r[a + 1] /\ r[a + 1].value \in Int
          BY <2>1, <5>1
        <5>. QED BY <5>2 DEF Uint16
      <4>. QED BY <4>1
    <3>2. lenBytes(r) # 2 /\ lenBytes(q) = 8 /\ lenBytes(q) # 2
      BY <1>2, <2>3
    <3>3. /\ payloadLen(r) = 65536 * Uint16(r, 7) + Uint16(r, 9)
          /\ payloadLen(q) = 65536 * Uint16(q, 7) + Uint16(q, 9)
      BY <2>3, <3>2 DEF payloadLen
    <3>. QED BY <3>1, <3>3
  <2>4. CASE lenBytes(r) = 0
    BY <1>1, <1>2, <2>4 DEF payloadLen
  <2>. QED BY <1>2, <2>2, <2>3, <2>4
<1>. QED BY <1>2, <1>3, <1>4, <1>5

(* What is read as a frame stays one whatever follows.                     *)
LEMMA SameFrame ==
  ASSUME NEW r \in Seq(Piece), NEW q \in Seq(Piece), Len(r) <= Len(q),
         \A i \in 1..Len(r) : q[i] = r[i],
         NEW maxLen \in Nat, readWSFrame(r, maxLen).status = "frame"
  PROVE  /\ readWSFrame(q, maxLen) = readWSFrame(r, maxLen)
         /\ readWSFrame(r, maxLen).used \in 2..Len(r)
         /\ readWSFrame(r, maxLen).length \in Int
<1>1. Headed(r, maxLen) /\ (payloadLen(r) = 0 \/ Len(r) >= body(r))
  BY TwoFrames
<1>2. Len(r) \in Nat /\ Len(q) \in Nat
  OBVIOUS
<1>3. Len(r) >= 2 /\ Len(r) >= 2 + lenBytes(r) /\ Len(r) >= body(r) - 1
  BY <1>1 DEF Headed, Begun
<1>4. /\ lenBytes(r) \in {0, 2, 8} /\ lenBytes(q) = lenBytes(r)
      /\ isMasked(q) = isMasked(r)
      /\ body(r) \in 3..12 /\ body(q) = body(r) /\ body(r) > 2 + lenBytes(r)
      /\ payloadLen(q) = payloadLen(r) /\ payloadLen(r) \in Int
  BY <1>2, <1>3, LengthBytes
<1>5. Headed(q, maxLen)
  <2>1. \A i \in 1..2 + lenBytes(r) : q[i] = r[i]
    BY <1>2, <1>3, <1>4
  <2>2. q[1] = r[1] /\ q[2] = r[2] /\ q[body(r) - 1] = r[body(r) - 1]
    BY <1>2, <1>3, <1>4
  <2>3. ~\E i \in 3..2 + lenBytes(q) : q[i].value < 0
    BY <1>1, <1>4, <2>1 DEF Headed, Begun
  <2>4. ~(lenBytes(q) = 8 /\ \E i \in 3..6 : q[i].value # 0)
    <3>1. CASE lenBytes(r) = 8
      <4>1. \A i \in 3..6 : i \in 1..2 + lenBytes(r)
        BY <3>1
      <4>2. \A i \in 3..6 : r[i].value = 0
        BY <1>1, <3>1 DEF Headed, Begun
      <4>. QED BY <2>1, <4>1, <4>2
    <3>. QED BY <1>4, <3>1
  <2>. QED BY <1>1, <1>2, <1>3, <1>4, <2>2, <2>3, <2>4 DEF Headed, Begun
<1>6. r[1].value % 16 = q[1].value % 16
  BY <1>2, <1>3
<1>7. \A n : Frame(q, n) = Frame(r, n)
  BY <1>4, <1>6 DEF Frame
<1>8. CASE payloadLen(r) = 0
  <2>1. readWSFrame(r, maxLen) = Frame(r, body(r) - 1) /\ readWSFrame(q, maxLen) = Frame(q, body(q) - 1)
    BY <1>1, <1>4, <1>5, <1>8, TwoFrames
  <2>. QED BY <1>2, <1>3, <1>4, <1>7, <2>1 DEF Frame
<1>9. CASE payloadLen(r) # 0
  <2>1. Len(r) >= body(r) /\ Len(q) >= body(q) /\ q[body(q)] = r[body(r)]
    BY <1>1, <1>2, <1>4, <1>9
  <2>2. /\ r[body(r)].value = (IF isMasked(r) THEN Masked ELSE Data)
        /\ r[body(r)].count = payloadLen(r)
    BY <1>1, <1>9, <2>1, TwoFrames
  <2>3. /\ q[body(q)].value = (IF isMasked(q) THEN Masked ELSE Data)
        /\ q[body(q)].count = payloadLen(q)
    BY <1>4, <2>1, <2>2
  <2>4. readWSFrame(r, maxLen) = Frame(r, body(r))
    BY <1>1, <1>9, <2>1, <2>2, TwoFrames
  <2>5. readWSFrame(q, maxLen) = Frame(q, body(q))
    BY <1>4, <1>5, <1>9, <2>1, <2>3, TwoFrames
  <2>. QED BY <1>2, <1>4, <1>7, <2>1, <2>4, <2>5 DEF Frame
<1>. QED BY <1>8, <1>9

-------------------------------------------------------------------------------
(* The peer's reading *)

(* Of some naturals, one is the least: what a recursive function computes  *)
(* is proved by the least of the arguments where it would be wrong.        *)
LEMMA Least ==
  ASSUME NEW T \in SUBSET Nat, T # {}
  PROVE  \E n \in T : \A m \in T : n <= m
<1>1. IsWellFoundedOn(OpToRel(<, Nat), Nat)
  BY NatLessThanWellFounded, Zenon
<1>2. PICK R : R = OpToRel(<, Nat)
  BY Zenon
<1>3. PICK n \in T : \A m \in T : ~(<<m, n>> \in R)
  BY <1>1, <1>2, WFMin, Zenon
<1>4. \A m \in T : ~(m < n)
  BY <1>2, <1>3 DEF OpToRel
<1>. QED BY <1>4

(* Of some of the numbers up to n, one is the greatest.                    *)
LEMMA GreatestOf ==
  ASSUME NEW n \in Nat, NEW bad \in SUBSET (1..n), bad # {}
  PROVE  \E i \in bad : \A j \in bad : j <= i
<1>1. PICK T : T = {n - i : i \in bad}
  OBVIOUS
<1>2. T \in SUBSET Nat /\ T # {}
  <2>1. \A i \in bad : n - i \in Nat
    OBVIOUS
  <2>. QED BY <1>1, <2>1
<1>3. PICK m \in T : \A k \in T : m <= k
  BY <1>2, Least
<1>4. PICK i \in bad : m = n - i
  BY <1>1
<1>5. \A j \in bad : n - j \in T /\ i \in Int /\ j \in Int
  BY <1>1
<1>6. \A j \in bad : j <= i
  BY <1>3, <1>4, <1>5
<1>. QED BY <1>6

(* The readings of a wire of n - 1 pieces                                  *)
Reading(n) == [pongs : Seq(Int), stopped : {"incomplete", "refused", "garbage"}, at : 1..n]

LEMMA NotFrame ==
  \A r, maxLen : readWSFrame(r, maxLen).status # "frame" =>
                   readWSFrame(r, maxLen).status \in {"incomplete", "refused", "garbage"}
<1>. SUFFICES ASSUME NEW r, NEW maxLen, readWSFrame(r, maxLen).status # "frame"
              PROVE  readWSFrame(r, maxLen) \in {Incomplete, Garbage, Refused}
  BY DEF Incomplete, Garbage, Refused
<1>1. \A n : Frame(r, n).status = "frame"
  BY DEF Frame
<1>. QED BY <1>1, Zenon DEF readWSFrame

(* A frame at i ends within the wire.                                      *)
LEMMA FrameAtUsed ==
  ASSUME NEW w \in Seq(Piece), NEW i \in 1..Len(w) + 1
  PROVE  \/ FrameAt(w, i).status \in {"incomplete", "refused", "garbage"}
         \/ /\ FrameAt(w, i).status = "frame" /\ FrameAt(w, i).used \in Nat
            /\ FrameAt(w, i).length \in Int
            /\ i + FrameAt(w, i).used \in i + 1..Len(w) + 1
<1>1. /\ SubSeq(w, i, Len(w)) \in Seq(Piece)
      /\ Len(SubSeq(w, i, Len(w))) = Len(w) - i + 1
      /\ Len(w) \in Nat
  <2>1. \A j \in i..Len(w) : w[j] \in Piece
    OBVIOUS
  <2>. QED BY <2>1, SubSeqProperties
<1>2. NoLimit \in Nat
  BY Limit
<1>3. ASSUME FrameAt(w, i).status = "frame"
      PROVE  FrameAt(w, i).used \in 2..Len(SubSeq(w, i, Len(w))) /\ FrameAt(w, i).length \in Int
  <2>1. PICK r : r = SubSeq(w, i, Len(w))
    OBVIOUS
  <2>2. r \in Seq(Piece) /\ Len(r) <= Len(r) /\ readWSFrame(r, NoLimit).status = "frame"
    BY <1>1, <1>3, <2>1 DEF FrameAt
  <2>3. readWSFrame(r, NoLimit).used \in 2..Len(r) /\ readWSFrame(r, NoLimit).length \in Int
    BY <1>2, <2>2, SameFrame
  <2>. QED BY <2>1, <2>3 DEF FrameAt
<1>4. CASE FrameAt(w, i).status = "frame"
  BY <1>1, <1>3, <1>4
<1>5. CASE FrameAt(w, i).status # "frame"
  BY <1>5, NotFrame DEF FrameAt
<1>. QED BY <1>4, <1>5

(* One step of ReadFrom                                                    *)
Step(w, from, i) ==
  IF FrameAt(w, i).status # "frame"
    THEN [pongs |-> <<>>, stopped |-> FrameAt(w, i).status, at |-> i]
    ELSE Preceded(from[i + FrameAt(w, i).used], FrameAt(w, i))

LEMMA PrecededType ==
  \A n : \A reading \in Reading(n) : \A frame :
    frame.length \in Int =>
         /\ Preceded(reading, frame) \in Reading(n)
         /\ Preceded(reading, frame).pongs =
              IF frame.opcode = PongFrame THEN <<frame.length>> \o reading.pongs ELSE reading.pongs
         /\ Preceded(reading, frame).stopped = reading.stopped
         /\ Preceded(reading, frame).at = reading.at
<1>. SUFFICES ASSUME NEW n, NEW reading \in Reading(n), NEW frame, frame.length \in Int
              PROVE  /\ Preceded(reading, frame) \in Reading(n)
                     /\ Preceded(reading, frame).pongs =
                          IF frame.opcode = PongFrame THEN <<frame.length>> \o reading.pongs ELSE reading.pongs
                     /\ Preceded(reading, frame).stopped = reading.stopped
                     /\ Preceded(reading, frame).at = reading.at
  OBVIOUS
<1>1. <<frame.length>> \in Seq(Int) /\ reading.pongs \in Seq(Int)
  BY DEF Reading
<1>2. <<frame.length>> \o reading.pongs \in Seq(Int)
  BY <1>1, ConcatProperties
<1>. QED BY <1>1, <1>2 DEF Preceded, Reading

(* A reading of w from each of its last k places and its end               *)
Solves(from, w, k) ==
  from = [i \in Len(w) + 2 - k..Len(w) + 1 |-> Step(w, from, i)]

(* There is one: of the numbers of places without one, the least would     *)
(* follow a number with one.                                               *)
LEMMA Solvable ==
  ASSUME NEW w \in Seq(Piece)
  PROVE  \A k \in 0..Len(w) + 1 : \E from : Solves(from, w, k)
<1>. DEFINE n == Len(w) + 1
            bad == {k \in 0..n : ~\E from : Solves(from, w, k)}
<1>1. n \in Nat /\ Len(w) + 2 = n + 1
  OBVIOUS
<1>2. bad = {}
  <2>. SUFFICES ASSUME bad # {}
                PROVE  FALSE
    OBVIOUS
  <2>1. PICK k \in bad : \A m \in bad : k <= m
    <3>1. bad \in SUBSET Nat
      OBVIOUS
    <3>. HIDE DEF bad
    <3>. QED BY <3>1, Least
  <2>2. k \in 0..n /\ ~\E from : Solves(from, w, k)
    OBVIOUS
  <2>3. k # 0
    <3>1. \A f : [i \in Len(w) + 2 - 0..Len(w) + 1 |-> Step(w, f, i)] = [i \in {} |-> TRUE]
      <4>1. Len(w) + 2 - 0..Len(w) + 1 = {}
        BY <1>1
      <4>. QED BY <4>1
    <3>2. Solves([i \in {} |-> TRUE], w, 0)
      BY <3>1 DEF Solves
    <3>. QED BY <2>2, <3>2
  <2>4. k - 1 \in 0..n /\ k - 1 \notin bad
    BY <1>1, <2>1, <2>2, <2>3
  <2>5. PICK g : Solves(g, w, k - 1)
    BY <2>4
  <2>. DEFINE a == n + 1 - k
              h == [i \in a..n |-> IF i = a THEN Step(w, g, a) ELSE g[i]]
  <2>6. a \in 1..n /\ Len(w) + 2 - (k - 1) = a + 1 /\ Len(w) + 2 - k = a
    BY <1>1, <2>2, <2>3
  <2>7. \A i \in a + 1..n : g[i] = Step(w, g, i) /\ h[i] = g[i]
    <3>1. g = [i \in a + 1..n |-> Step(w, g, i)]
      BY <2>5, <2>6 DEF Solves
    <3>2. \A i \in a + 1..n : g[i] = Step(w, g, i)
      BY <3>1, Zenon
    <3>3. \A i \in a + 1..n : i # a /\ i \in a..n
      BY <2>6
    <3>. QED BY <3>2, <3>3
  <2>8. ASSUME NEW i \in a..n
        PROVE  Step(w, h, i) = Step(w, g, i)
    <3>1. CASE FrameAt(w, i).status # "frame"
      BY <3>1 DEF Step
    <3>2. CASE FrameAt(w, i).status = "frame"
      <4>1. i \in 1..Len(w) + 1
        BY <2>6
      <4>2. i + FrameAt(w, i).used \in a + 1..n
        <5>1. i + FrameAt(w, i).used \in i + 1..n
          BY <3>2, <4>1, FrameAtUsed
        <5>. QED BY <2>6, <5>1
      <4>3. h[i + FrameAt(w, i).used] = g[i + FrameAt(w, i).used]
        BY <2>7, <4>2
      <4>. QED BY <3>2, <4>3 DEF Step
    <3>. QED BY <3>1, <3>2
  <2>9. \A i \in a..n : h[i] = Step(w, h, i)
    <3>1. h[a] = Step(w, h, a)
      BY <2>6, <2>8
    <3>2. \A i \in a..n : i = a \/ i \in a + 1..n
      BY <2>6
    <3>. HIDE DEF h
    <3>. QED BY <2>7, <2>8, <3>1, <3>2
  <2>10. Solves(h, w, k)
    <3>1. h = [i \in a..n |-> h[i]]
      OBVIOUS
    <3>. HIDE DEF h
    <3>2. h = [i \in a..n |-> Step(w, h, i)]
      BY <2>9, <3>1
    <3>. QED BY <2>6, <3>2 DEF Solves
  <2>. QED BY <2>2, <2>10
<1>. QED BY <1>2

(* ReadFrom is what its recursive definition says.                         *)
LEMMA ReadFromIs ==
  ASSUME NEW w \in Seq(Piece), NEW i \in 1..Len(w) + 1
  PROVE  ReadFrom(w)[i] = Step(w, ReadFrom(w), i)
<1>1. Len(w) + 1 \in 0..Len(w) + 1 /\ Len(w) + 2 - (Len(w) + 1) = 1
  OBVIOUS
<1>2. PICK g : g = [j \in 1..Len(w) + 1 |-> Step(w, g, j)]
  BY <1>1, Solvable DEF Solves
<1>3. ReadFrom(w) = CHOOSE from : from = [j \in 1..Len(w) + 1 |-> Step(w, from, j)]
  BY Zenon DEF ReadFrom, Step
<1>4. ReadFrom(w) = [j \in 1..Len(w) + 1 |-> Step(w, ReadFrom(w), j)]
  BY <1>2, <1>3
<1>. QED BY <1>4, Zenon

LEMMA ReadingTypes ==
  ASSUME NEW w \in Seq(Piece), NEW i \in 1..Len(w) + 1
  PROVE  LET read == ReadFrom(w)[i]
         IN  /\ read \in Reading(Len(w) + 1)
             /\ FrameAt(w, read.at).status = read.stopped /\ read.stopped # "frame"
<1>. DEFINE n == Len(w) + 1
            from == ReadFrom(w)
            Typed(j) == /\ from[j] \in Reading(n)
                        /\ FrameAt(w, from[j].at).status = from[j].stopped
                        /\ from[j].stopped # "frame"
            bad == {j \in 1..n : ~Typed(j)}
<1>1. n \in Nat
  OBVIOUS
<1>2. bad = {}
  <2>. SUFFICES ASSUME bad # {}
                PROVE  FALSE
    OBVIOUS
  <2>1. PICK j \in bad : \A k \in bad : k <= j
    <3>1. bad \in SUBSET (1..n)
      OBVIOUS
    <3>. HIDE DEF bad
    <3>. QED BY <1>1, <3>1, GreatestOf
  <2>2. j \in 1..n /\ ~Typed(j)
    OBVIOUS
  <2>3. from[j] = Step(w, from, j)
    BY <2>2, ReadFromIs
  <2>4. CASE FrameAt(w, j).status # "frame"
    <3>1. from[j] = [pongs |-> <<>>, stopped |-> FrameAt(w, j).status, at |-> j]
      BY <2>3, <2>4, Zenon DEF Step
    <3>2. FrameAt(w, j).status \in {"incomplete", "refused", "garbage"}
      BY <2>2, <2>4, FrameAtUsed
    <3>3. from[j] \in Reading(n)
      <4>1. <<>> \in Seq(Int)
        OBVIOUS
      <4>. HIDE DEF from
      <4>. QED BY <2>2, <3>1, <3>2, <4>1 DEF Reading
    <3>4. from[j].at = j /\ from[j].stopped = FrameAt(w, j).status
      BY <3>1
    <3>. HIDE DEF from
    <3>. QED BY <2>2, <2>4, <3>3, <3>4
  <2>5. CASE FrameAt(w, j).status = "frame"
    <3>. DEFINE k == j + FrameAt(w, j).used
    <3>1. k \in j + 1..n /\ FrameAt(w, j).length \in Int
      BY <2>2, <2>5, FrameAtUsed
    <3>2. k \in 1..n /\ ~(k <= j)
      BY <2>2, <3>1
    <3>3. Typed(k)
      BY <2>1, <3>2
    <3>4. from[j] = Preceded(from[k], FrameAt(w, j))
      BY <2>3, <2>5, Zenon DEF Step
    <3>. HIDE DEF from, k, n
    <3>5. /\ from[j] \in Reading(n) /\ from[j].at = from[k].at
          /\ from[j].stopped = from[k].stopped
      <4>1. from[k] \in Reading(n)
        BY <3>3, Zenon
      <4>2. FrameAt(w, j).length \in Int
        BY <3>1
      <4>3. Preceded(from[k], FrameAt(w, j)) \in Reading(n)
        BY <4>1, <4>2, PrecededType, Zenon
      <4>4. Preceded(from[k], FrameAt(w, j)).at = from[k].at
        BY <4>1, <4>2, PrecededType, Zenon
      <4>5. Preceded(from[k], FrameAt(w, j)).stopped = from[k].stopped
        BY <4>1, <4>2, PrecededType, Zenon
      <4>. QED BY <3>4, <4>3, <4>4, <4>5, Zenon
    <3>. QED BY <2>2, <3>3, <3>5
  <2>. QED BY <2>4, <2>5
<1>. QED BY <1>2

LEMMA SameFrameAt ==
  ASSUME NEW w \in Seq(Piece), NEW x \in Seq(Piece), NEW j \in 1..Len(w) + 1,
         FrameAt(w, j).status = "frame"
  PROVE  FrameAt(w \o x, j) = FrameAt(w, j)
<1>1. PICK v : v = w \o x
  OBVIOUS
<1>2. /\ v \in Seq(Piece) /\ Len(v) = Len(w) + Len(x) /\ Len(x) \in Nat /\ Len(w) \in Nat
      /\ \A i \in 1..Len(w) : v[i] = w[i]
  BY <1>1, ConcatProperties
<1>3. PICK r : r = SubSeq(w, j, Len(w))
  OBVIOUS
<1>4. PICK q : q = SubSeq(v, j, Len(v))
  OBVIOUS
<1>5. /\ r \in Seq(Piece) /\ Len(r) = Len(w) - j + 1
      /\ \A i \in 1..Len(w) - j + 1 : r[i] = w[j + i - 1]
  <2>1. \A i \in j..Len(w) : w[i] \in Piece
    OBVIOUS
  <2>. QED BY <1>2, <1>3, <2>1, SubSeqProperties
<1>6. /\ q \in Seq(Piece) /\ Len(q) = Len(v) - j + 1
      /\ \A i \in 1..Len(v) - j + 1 : q[i] = v[j + i - 1]
  <2>1. \A i \in j..Len(v) : v[i] \in Piece
    BY <1>2
  <2>. QED BY <1>2, <1>4, <2>1, SubSeqProperties
<1>7. Len(r) <= Len(q) /\ \A i \in 1..Len(r) : q[i] = r[i]
  <2>1. ASSUME NEW i \in 1..Len(r)
        PROVE  q[i] = r[i]
    <3>1. /\ i \in 1..Len(w) - j + 1 /\ i \in 1..Len(v) - j + 1
          /\ j + i - 1 \in 1..Len(w)
      BY <1>2, <1>5
    <3>. QED BY <1>2, <1>5, <1>6, <3>1
  <2>. QED BY <1>2, <1>5, <1>6, <2>1
<1>8. NoLimit \in Nat /\ readWSFrame(r, NoLimit).status = "frame"
  BY <1>3, Limit DEF FrameAt
<1>9. readWSFrame(q, NoLimit) = readWSFrame(r, NoLimit)
  BY <1>5, <1>6, <1>7, <1>8, SameFrame
<1>. QED BY <1>1, <1>3, <1>4, <1>9 DEF FrameAt

LEMMA Associative ==
  \A s, t, u \in Seq(Int) : s \o (t \o u) = (s \o t) \o u
BY ConcatAssociative

(* What is added after w is read from where the reading of w stopped.      *)
LEMMA Continued ==
  ASSUME NEW w \in Seq(Piece), NEW x \in Seq(Piece), NEW i \in 1..Len(w) + 1
  PROVE  LET before == ReadFrom(w)[i]
             after == ReadFrom(w \o x)[before.at]
         IN  ReadFrom(w \o x)[i] = [pongs |-> before.pongs \o after.pongs,
                                   stopped |-> after.stopped, at |-> after.at]
<1>. DEFINE n == Len(w) + 1
            v == w \o x
            f == ReadFrom(w)
            g == ReadFrom(v)
            Sum(b, a) == [pongs |-> b.pongs \o a.pongs, stopped |-> a.stopped, at |-> a.at]
            bad == {j \in 1..n : g[j] # Sum(f[j], g[f[j].at])}
<1>1. /\ n \in Nat /\ v \in Seq(Piece) /\ Len(v) = Len(w) + Len(x) /\ Len(x) \in Nat
      /\ \A j \in 1..Len(w) : v[j] = w[j]
  BY ConcatProperties
<1>2. \A j \in 1..n : j \in 1..Len(v) + 1
  BY <1>1
<1>3. bad = {}
  <2>. SUFFICES ASSUME bad # {}
                PROVE  FALSE
    OBVIOUS
  <2>1. PICK j \in bad : \A k \in bad : k <= j
    <3>1. bad \in SUBSET (1..n)
      OBVIOUS
    <3>. HIDE DEF bad
    <3>. QED BY <1>1, <3>1, GreatestOf
  <2>2. j \in 1..n /\ g[j] # Sum(f[j], g[f[j].at])
    OBVIOUS
  <2>. HIDE DEF bad
  <2>3. f[j] = Step(w, f, j)
    BY <2>2, ReadFromIs
  <2>4. g[j] = Step(v, g, j)
    BY <1>1, <1>2, <2>2, ReadFromIs
  <2>5. g[j] \in Reading(Len(v) + 1)
    BY <1>1, <1>2, <2>2, ReadingTypes
  <2>6. CASE FrameAt(w, j).status # "frame"
    <3>1. f[j].at = j /\ f[j].pongs = <<>>
      BY <2>3, <2>6 DEF Step
    <3>. HIDE DEF f, g, v
    <3>2. <<>> \o g[j].pongs = g[j].pongs
      BY <2>5, ConcatEmptySeq DEF Reading
    <3>3. g[j] = [pongs |-> g[j].pongs, stopped |-> g[j].stopped, at |-> g[j].at]
      BY <2>5 DEF Reading
    <3>. QED BY <2>2, <3>1, <3>2, <3>3
  <2>7. CASE FrameAt(w, j).status = "frame"
    <3>. DEFINE k == j + FrameAt(w, j).used
    <3>1. k \in j + 1..n /\ FrameAt(w, j).length \in Int
      BY <2>2, <2>7, FrameAtUsed
    <3>2. k \in 1..n /\ ~(k <= j)
      BY <2>2, <3>1
    <3>3. FrameAt(v, j) = FrameAt(w, j)
      BY <1>1, <2>2, <2>7, SameFrameAt
    <3>4. f[j] = Preceded(f[k], FrameAt(w, j))
      BY <2>3, <2>7, Zenon DEF Step
    <3>5. g[j] = Preceded(g[k], FrameAt(w, j))
      BY <2>4, <2>7, <3>3, Zenon DEF Step
    <3>6. g[k] = Sum(f[k], g[f[k].at])
      BY <2>1, <3>2 DEF bad
    <3>7. f[k] \in Reading(n) /\ g[k] \in Reading(Len(v) + 1)
      BY <1>1, <1>2, <3>2, ReadingTypes
    <3>8. f[k].at \in 1..n
      BY <3>7 DEF Reading
    <3>9. g[f[k].at] \in Reading(Len(v) + 1)
      BY <1>1, <1>2, <3>8, ReadingTypes
    <3>. HIDE DEF f, g, v, k, n
    <3>10. /\ g[j].stopped = g[k].stopped /\ g[j].at = g[k].at
           /\ g[j].pongs = IF FrameAt(w, j).opcode = PongFrame
                             THEN <<FrameAt(w, j).length>> \o g[k].pongs ELSE g[k].pongs
           /\ f[j].at = f[k].at
           /\ f[j].pongs = IF FrameAt(w, j).opcode = PongFrame
                             THEN <<FrameAt(w, j).length>> \o f[k].pongs ELSE f[k].pongs
      BY <3>1, <3>4, <3>5, <3>7, PrecededType
    <3>11. /\ g[k].stopped = g[f[k].at].stopped /\ g[k].at = g[f[k].at].at
           /\ g[k].pongs = f[k].pongs \o g[f[k].at].pongs
      <4>1. PICK b, a : b = f[k] /\ a = g[f[k].at]
        OBVIOUS
      <4>2. g[k] = [pongs |-> b.pongs \o a.pongs, stopped |-> a.stopped, at |-> a.at]
        BY <3>6, <4>1, Zenon
      <4>3. PICK p : p = b.pongs \o a.pongs
        OBVIOUS
      <4>4. g[k] = [pongs |-> p, stopped |-> a.stopped, at |-> a.at]
        BY <4>2, <4>3, Zenon
      <4>5. g[k].pongs = p /\ g[k].stopped = a.stopped /\ g[k].at = a.at
        BY <4>4
      <4>. QED BY <4>1, <4>3, <4>5, Zenon
    <3>12. g[j].pongs = f[j].pongs \o g[f[j].at].pongs
      <4>1. /\ f[k].pongs \in Seq(Int) /\ g[f[k].at].pongs \in Seq(Int)
            /\ <<FrameAt(w, j).length>> \in Seq(Int)
        BY <3>1, <3>7, <3>9 DEF Reading
      <4>2. <<FrameAt(w, j).length>> \o (f[k].pongs \o g[f[k].at].pongs)
              = (<<FrameAt(w, j).length>> \o f[k].pongs) \o g[f[k].at].pongs
        BY <4>1, Associative
      <4>. QED BY <3>10, <3>11, <4>2, Zenon
    <3>13. g[j] = [pongs |-> g[j].pongs, stopped |-> g[j].stopped, at |-> g[j].at]
      BY <2>5 DEF Reading
    <3>. QED BY <2>2, <3>10, <3>11, <3>12, <3>13
  <2>. QED BY <2>6, <2>7
<1>. QED BY <1>3

-------------------------------------------------------------------------------
(* What a header says *)

(* q begins with the header h of a frame without a mask, and what that     *)
(* says of the frame.                                                      *)
KeyPieces(mask) == IF mask = 128 THEN 1 ELSE 0

BeginsWith(q, h) == Len(h) <= Len(q) /\ \A i \in 1..Len(h) : q[i] = h[i]

Told(q, n, opcode, length, mask) ==
  /\ Begun(q) /\ (isMasked(q) <=> mask = 128)
  /\ q[1].value % 16 = opcode /\ payloadLen(q) = length
  /\ body(q) = n + 1 + KeyPieces(mask)

Says(h, opcode, length, mask) ==
  /\ h \in Seq(Piece) /\ Len(h) \in {2, 4, 10}
  /\ \A q \in Seq(Piece) : BeginsWith(q, h) => Told(q, Len(h), opcode, length, mask)

LEMMA FirstByte ==
  ASSUME NEW opcode \in Opcode
  PROVE  128 + opcode \in Nat /\ (128 + opcode) % 16 = opcode
BY DEF Opcode, TextFrame, CloseFrame, PingFrame, PongFrame

(* The bytes of a header, by the seven bits of the length                  *)
FirstTwo(values, opcode, mask, short) ==
  Len(values) \in {2, 4, 10} /\ values[1] = 128 + opcode /\ values[2] = mask + short

OneByte(values, short, length) ==
  short \notin {126, 127} => Len(values) = 2 /\ short = length

TwoBytes(values, short, length) ==
  short = 126 => Len(values) = 4 /\ 256 * values[3] + values[4] = length

HighZero(values) == \A i \in 3..6 : values[i] = 0

LowFour(values) == 65536 * (256 * values[7] + values[8]) + (256 * values[9] + values[10])

EightBytes(values, short, length) ==
  short = 127 => Len(values) = 10 /\ HighZero(values) /\ LowFour(values) = length

Coded(values, opcode, length, mask, short) ==
  /\ FirstTwo(values, opcode, mask, short) /\ OneByte(values, short, length)
  /\ TwoBytes(values, short, length) /\ EightBytes(values, short, length)

LEMMA SecondByte ==
  ASSUME NEW mask \in {0, 128}, NEW short \in 0..127
  PROVE  /\ mask + short \in Nat /\ (mask + short) % 128 = short
         /\ mask + short >= 128 <=> mask = 128
<1>1. CASE mask = 0
  BY <1>1
<1>2. CASE mask = 128
  BY <1>2
<1>. QED BY <1>1, <1>2

LEMMA SaysByBytes ==
  ASSUME NEW values \in Seq(Nat), NEW opcode \in Opcode, NEW length \in Nat,
         NEW mask \in {0, 128}, NEW short \in 0..127,
         Coded(values, opcode, length, mask, short)
  PROVE  Says(Bytes(values), opcode, length, mask)
<1>h. PICK h : h = Bytes(values)
  OBVIOUS
<1>1. /\ h \in Seq(Piece) /\ Len(h) = Len(values)
      /\ \A i \in 1..Len(values) : h[i].value = values[i] /\ values[i] \in Nat
  BY <1>h, BytesAre
<1>l. Len(h) \in {2, 4, 10}
  <2>1. Len(values) \in {2, 4, 10}
    BY Zenon DEF Coded, FirstTwo
  <2>. QED BY <1>1, <2>1
<1>. SUFFICES ASSUME NEW q \in Seq(Piece), BeginsWith(q, h)
              PROVE  Told(q, Len(h), opcode, length, mask)
  BY <1>h, <1>1, <1>l, Zenon DEF Says
<1>0. Len(h) <= Len(q) /\ \A i \in 1..Len(h) : q[i] = h[i]
  BY DEF BeginsWith
<1>. DEFINE n == Len(values)
<1>a. n \in {2, 4, 10} /\ values[1] = 128 + opcode /\ values[2] = mask + short
  BY Zenon DEF Coded, FirstTwo
<1>b. short \notin {126, 127} => n = 2 /\ short = length
  BY Zenon DEF Coded, OneByte
<1>c. short = 126 => n = 4 /\ 256 * values[3] + values[4] = length
  BY Zenon DEF Coded, TwoBytes
<1>d. short = 127 => n = 10 /\ HighZero(values) /\ LowFour(values) = length
  BY Zenon DEF Coded, EightBytes
<1>2. \A i \in 1..n : q[i].value = values[i] /\ values[i] \in Nat
  BY <1>0, <1>1
<1>e. Len(q) \in Nat /\ n <= Len(q)
  BY <1>0, <1>1
<1>. HIDE DEF n
<1>3. q[1].value = 128 + opcode /\ q[2].value = mask + short
  BY <1>2, <1>a
<1>4. q[1].value % 16 = opcode
  BY <1>3, FirstByte
<1>s. /\ mask + short \in Nat /\ (mask + short) % 128 = short
      /\ mask + short >= 128 <=> mask = 128
  BY SecondByte
<1>5. isMasked(q) <=> mask = 128
  BY <1>3, <1>s DEF isMasked
<1>6. lenBytes(q) = n - 2
  <2>0. q[2].value % 128 = short
    BY <1>3, <1>s
  <2>1. CASE short = 126
    BY <1>c, <2>0, <2>1 DEF lenBytes
  <2>2. CASE short = 127
    BY <1>d, <2>0, <2>2 DEF lenBytes
  <2>3. CASE short \notin {126, 127}
    BY <1>b, <2>0, <2>3 DEF lenBytes
  <2>. QED BY <2>1, <2>2, <2>3
<1>7. body(q) = Len(h) + 1 + KeyPieces(mask)
  <2>1. Len(h) = n
    BY <1>1 DEF n
  <2>. QED BY <1>a, <1>5, <1>6, <2>1 DEF body, KeyPieces
<1>8. payloadLen(q) = length
  <2>1. CASE short = 126
    <3>1. q[3].value = values[3] /\ q[4].value = values[4] /\ 3 + 1 = 4
      BY <1>2, <1>c, <2>1
    <3>2. Uint16(q, 3) = length
      BY <1>c, <2>1, <3>1 DEF Uint16
    <3>3. lenBytes(q) = 2
      BY <1>6, <1>c, <2>1
    <3>. QED BY <3>2, <3>3 DEF payloadLen
  <2>2. CASE short = 127
    <3>1. /\ q[7].value = values[7] /\ q[8].value = values[8] /\ 7 + 1 = 8
          /\ q[9].value = values[9] /\ q[10].value = values[10] /\ 9 + 1 = 10
      BY <1>2, <1>d, <2>2
    <3>2. 65536 * Uint16(q, 7) + Uint16(q, 9) = length
      BY <1>d, <2>2, <3>1 DEF Uint16, LowFour
    <3>3. lenBytes(q) = 8 /\ lenBytes(q) # 2
      BY <1>6, <1>d, <2>2
    <3>. QED BY <3>2, <3>3 DEF payloadLen
  <2>3. CASE short \notin {126, 127}
    <3>1. lenBytes(q) # 8 /\ lenBytes(q) # 2 /\ q[2].value % 128 = length
      BY <1>3, <1>s, <1>6, <1>b, <2>3
    <3>. QED BY <3>1 DEF payloadLen
  <2>. QED BY <2>1, <2>2, <2>3
<1>9. Begun(q)
  <2>1. ~\E i \in 3..2 + lenBytes(q) : q[i].value < 0
    <3>1. 2 + lenBytes(q) = n
      BY <1>6, <1>a
    <3>. SUFFICES ASSUME NEW i \in 3..n
                  PROVE  ~(q[i].value < 0)
      BY <3>1
    <3>2. i \in 1..n
      BY <1>a
    <3>3. q[i].value \in Nat
      BY <1>2, <3>2
    <3>. QED BY <3>3
  <2>2. ~(lenBytes(q) = 8 /\ \E i \in 3..6 : q[i].value # 0)
    <3>1. CASE lenBytes(q) = 8
      <4>1. n = 10 /\ short = 127
        BY <1>6, <1>a, <1>b, <1>c, <3>1
      <4>2. \A i \in 3..6 : i \in 1..n
        BY <4>1
      <4>3. \A i \in 3..6 : q[i].value = values[i] /\ values[i] = 0
        BY <1>2, <1>d, <4>1, <4>2, Zenon DEF HighZero
      <4>4. ASSUME NEW i \in 3..6
            PROVE  ~(q[i].value # 0)
        <5>1. q[i].value = values[i] /\ values[i] = 0
          BY <4>3, Zenon
        <5>. QED BY <5>1, Zenon
      <4>. QED BY <4>4, Zenon
    <3>. QED BY <3>1
  <2>3. Len(q) >= 2 /\ Len(q) >= 2 + lenBytes(q)
    BY <1>a, <1>e, <1>6
  <2>4. ~(q[1].value < 0 \/ q[2].value < 0)
    BY <1>3, <1>s, FirstByte
  <2>. QED BY <2>1, <2>2, <2>3, <2>4 DEF Begun
<1>. QED BY <1>4, <1>5, <1>7, <1>8, <1>9 DEF Told

(* Each of the three forms of a header says what was written.              *)
LEMMA HeaderSays ==
  ASSUME NEW opcode \in Opcode, NEW length \in Nat, NEW mask \in {0, 128}
  PROVE  Says(Header(opcode, length, mask), opcode, length, mask)
<1>1. 128 + opcode \in Nat
  BY FirstByte
<1>2. CASE length <= 125
  <2>. DEFINE values == <<128 + opcode, mask + length>>
  <2>1. /\ values \in Seq(Nat) /\ Len(values) = 2
        /\ values[1] = 128 + opcode /\ values[2] = mask + length
    BY <1>1
  <2>3. Header(opcode, length, mask) = Bytes(values)
    BY <1>2 DEF Header
  <2>. HIDE DEF values
  <2>2. Coded(values, opcode, length, mask, length)
    BY <1>2, <2>1 DEF Coded, FirstTwo, OneByte, TwoBytes, EightBytes
  <2>4. length \in 0..127
    BY <1>2
  <2>5. values \in Seq(Nat)
    BY <2>1
  <2>. QED BY <2>2, <2>3, <2>4, <2>5, SaysByBytes, Zenon
<1>3. CASE ~(length <= 125) /\ length <= 65535
  <2>. DEFINE low == length % 65536
              values == <<128 + opcode, mask + 126, low \div 256, low % 256>>
  <2>1. low = length
    BY <1>3
  <2>2. low \div 256 \in Nat /\ low % 256 \in Nat /\ 256 * (low \div 256) + (low % 256) = low
    BY <2>1, Octets
  <2>3. Header(opcode, length, mask) = Bytes(values)
    BY <1>3 DEF Header
  <2>. HIDE DEF low
  <2>4. /\ values \in Seq(Nat) /\ Len(values) = 4
        /\ values[1] = 128 + opcode /\ values[2] = mask + 126
        /\ values[3] = low \div 256 /\ values[4] = low % 256
    BY <1>1, <2>2
  <2>. HIDE DEF values
  <2>5. Coded(values, opcode, length, mask, 126)
    BY <2>1, <2>2, <2>4 DEF Coded, FirstTwo, OneByte, TwoBytes, EightBytes
  <2>. QED BY <2>3, <2>4, <2>5, SaysByBytes
<1>4. CASE ~(length <= 125) /\ ~(length <= 65535)
  <2>. DEFINE high == length \div 65536
              low == length % 65536
              values == <<128 + opcode, mask + 127, 0, 0, 0, 0,
                          high \div 256, high % 256, low \div 256, low % 256>>
  <2>1. high \in Nat /\ low \in Nat /\ 65536 * high + low = length
    BY Octets
  <2>3. Header(opcode, length, mask) = Bytes(values)
    BY <1>4 DEF Header
  <2>. HIDE DEF low, high
  <2>2. /\ low \div 256 \in Nat /\ low % 256 \in Nat /\ 256 * (low \div 256) + (low % 256) = low
        /\ high \div 256 \in Nat /\ high % 256 \in Nat /\ 256 * (high \div 256) + (high % 256) = high
    BY <2>1, Octets
  <2>4. /\ values \in Seq(Nat) /\ Len(values) = 10
        /\ values[1] = 128 + opcode /\ values[2] = mask + 127
        /\ values[3] = 0 /\ values[4] = 0 /\ values[5] = 0 /\ values[6] = 0
        /\ values[7] = high \div 256 /\ values[8] = high % 256
        /\ values[9] = low \div 256 /\ values[10] = low % 256
    BY <1>1, <2>2
  <2>. HIDE DEF values
  <2>5. HighZero(values)
    BY <2>4 DEF HighZero
  <2>6. Coded(values, opcode, length, mask, 127)
    <3>1. /\ 256 * values[7] + values[8] = high /\ 256 * values[9] + values[10] = low
      BY <2>2, <2>4
    <3>2. LowFour(values) = length
      BY <2>1, <3>1 DEF LowFour
    <3>. QED BY <2>4, <2>5, <3>2 DEF Coded, FirstTwo, OneByte, TwoBytes, EightBytes
  <2>. QED BY <2>3, <2>4, <2>6, SaysByBytes
<1>. QED BY <1>2, <1>3, <1>4

(* A header alone is a frame without a payload or a frame that is not all  *)
(* there; with the payload it is a frame.                                  *)
LEMMA Written ==
  ASSUME NEW h, NEW opcode \in Opcode, NEW length \in Nat, length <= NoLimit, Says(h, opcode, length, 0)
  PROVE  /\ length > 0 => readWSFrame(h, NoLimit) = Incomplete
         /\ length = 0 => readWSFrame(h, NoLimit) = [status |-> "frame", opcode |-> opcode, length |-> 0, used |-> Len(h)]
         /\ length > 0 =>
              /\ h \o Bulk(Data, length) \in Seq(Piece)
              /\ Len(h \o Bulk(Data, length)) = Len(h) + 1
              /\ readWSFrame(h \o Bulk(Data, length), NoLimit) =
                   [status |-> "frame", opcode |-> opcode, length |-> length, used |-> Len(h) + 1]
<1>1. h \in Seq(Piece) /\ Len(h) \in {2, 4, 10}
  BY DEF Says
<1>2. /\ Headed(h, NoLimit) /\ ~isMasked(h)
      /\ h[1].value % 16 = opcode /\ payloadLen(h) = length /\ body(h) = Len(h) + 1
  <2>1. /\ Begun(h) /\ ~isMasked(h)
        /\ h[1].value % 16 = opcode /\ payloadLen(h) = length /\ body(h) = Len(h) + 1
    <3>1. BeginsWith(h, h)
      BY <1>1 DEF BeginsWith
    <3>2. Told(h, Len(h), opcode, length, 0)
      BY <1>1, <3>1, Zenon DEF Says
    <3>. QED BY <1>1, <3>2 DEF Told, KeyPieces
  <2>. QED BY <1>1, <2>1, Limit DEF Headed
<1>3. ASSUME length > 0
      PROVE  readWSFrame(h, NoLimit) = Incomplete
  BY <1>1, <1>2, <1>3, TwoFrames
<1>4. ASSUME length = 0
      PROVE  readWSFrame(h, NoLimit) = [status |-> "frame", opcode |-> opcode, length |-> 0, used |-> Len(h)]
  <2>1. readWSFrame(h, NoLimit) = Frame(h, body(h) - 1)
    BY <1>2, <1>4, TwoFrames
  <2>2. body(h) - 1 = Len(h)
    BY <1>1, <1>2
  <2>. QED BY <1>2, <1>4, <2>1, <2>2 DEF Frame
<1>5. ASSUME length > 0
      PROVE  /\ h \o Bulk(Data, length) \in Seq(Piece)
             /\ Len(h \o Bulk(Data, length)) = Len(h) + 1
             /\ readWSFrame(h \o Bulk(Data, length), NoLimit) =
                  [status |-> "frame", opcode |-> opcode, length |-> length, used |-> Len(h) + 1]
  <2>1. PICK p : p = [value |-> Data, count |-> length]
    OBVIOUS
  <2>2. Bulk(Data, length) = <<p>> /\ p \in Piece /\ p.value = Data /\ p.count = length
    BY <1>5, <2>1 DEF Bulk, Piece, Data
  <2>3. PICK q : q = h \o <<p>>
    OBVIOUS
  <2>4. /\ q \in Seq(Piece) /\ Len(q) = Len(h) + 1 /\ q[Len(h) + 1] = p
        /\ \A i \in 1..Len(h) : q[i] = h[i]
    BY <1>1, <2>2, <2>3
  <2>5. /\ Headed(q, NoLimit) /\ ~isMasked(q)
        /\ q[1].value % 16 = opcode /\ payloadLen(q) = length /\ body(q) = Len(h) + 1
    <3>1. /\ Begun(q) /\ ~isMasked(q)
          /\ q[1].value % 16 = opcode /\ payloadLen(q) = length /\ body(q) = Len(h) + 1
      <4>1. BeginsWith(q, h)
        BY <1>1, <2>4 DEF BeginsWith
      <4>2. Told(q, Len(h), opcode, length, 0)
        BY <2>4, <4>1, Zenon DEF Says
      <4>. QED BY <1>1, <4>2 DEF Told, KeyPieces
    <3>. QED BY <1>1, <2>4, <3>1, Limit DEF Headed
  <2>6. Len(q) >= body(q) /\ q[body(q)] = p
    BY <1>1, <2>4, <2>5
  <2>7. readWSFrame(q, NoLimit) = Frame(q, body(q))
    BY <1>5, <2>2, <2>5, <2>6, TwoFrames
  <2>8. readWSFrame(q, NoLimit) = [status |-> "frame", opcode |-> opcode, length |-> length, used |-> Len(h) + 1]
    BY <2>5, <2>7 DEF Frame
  <2>. QED BY <2>2, <2>3, <2>4, <2>8
<1>. QED BY <1>3, <1>4, <1>5

(* The server reads a frame of the peer as what was sent, up to its limit. *)
LEMMA ClientFrameRead ==
  ASSUME NEW opcode \in Opcode, NEW length \in Nat, NEW maxLen \in Nat
  PROVE  LET frame == readWSFrame(ClientFrame(opcode, length), maxLen)
         IN  IF length <= maxLen
               THEN frame.status = "frame" /\ frame.opcode = opcode /\ frame.length = length
               ELSE frame.status # "frame"
<1>1. PICK h : h = Header(opcode, length, 128)
  OBVIOUS
<1>2. Says(h, opcode, length, 128) /\ h \in Seq(Piece) /\ Len(h) \in {2, 4, 10}
  BY <1>1, HeaderSays DEF Says
<1>3. PICK k, p : k = [value |-> Key, count |-> 4] /\ p = [value |-> Masked, count |-> length]
  OBVIOUS
<1>4. k \in Piece /\ p \in Piece /\ k.value = Key /\ p.value = Masked /\ p.count = length
  BY <1>3 DEF Piece, Key, Masked
<1>5. PICK q : q = ClientFrame(opcode, length)
  OBVIOUS
<1>6. q = IF length = 0 THEN h \o <<k>> ELSE h \o <<k>> \o <<p>>
  <2>1. Bulk(Key, 4) = <<k>>
    BY <1>3 DEF Bulk
  <2>2. CASE length = 0
    <3>1. Bulk(Masked, length) = <<>>
      BY <2>2 DEF Bulk
    <3>2. h \o <<k>> \in Seq(Piece)
      BY <1>2, <1>4
    <3>3. (h \o <<k>>) \o <<>> = h \o <<k>>
      BY <3>2, ConcatEmptySeq
    <3>. QED BY <1>1, <1>5, <2>1, <2>2, <3>1, <3>3 DEF ClientFrame
  <2>3. CASE length # 0
    <3>1. Bulk(Masked, length) = <<p>>
      BY <1>3, <2>3 DEF Bulk
    <3>. QED BY <1>1, <1>5, <2>1, <2>3, <3>1 DEF ClientFrame
  <2>. QED BY <2>2, <2>3
<1>7. /\ q \in Seq(Piece) /\ Len(q) = Len(h) + (IF length = 0 THEN 1 ELSE 2)
      /\ q[Len(h) + 1] = k /\ (length # 0 => q[Len(h) + 2] = p)
      /\ \A i \in 1..Len(h) : q[i] = h[i]
  <2>1. PICK s : s = h \o <<k>>
    OBVIOUS
  <2>2. /\ s \in Seq(Piece) /\ Len(s) = Len(h) + 1 /\ s[Len(h) + 1] = k
        /\ \A i \in 1..Len(h) : s[i] = h[i]
    BY <1>2, <1>4, <2>1
  <2>3. CASE length = 0
    BY <1>6, <2>1, <2>2, <2>3
  <2>4. CASE length # 0
    <3>1. q = s \o <<p>>
      BY <1>6, <2>1, <2>4
    <3>2. /\ q \in Seq(Piece) /\ Len(q) = Len(s) + 1 /\ q[Len(s) + 1] = p
          /\ \A i \in 1..Len(s) : q[i] = s[i]
      BY <1>4, <2>2, <3>1
    <3>3. Len(h) + 1 \in 1..Len(s) /\ \A i \in 1..Len(h) : i \in 1..Len(s)
      BY <1>2, <2>2
    <3>. QED BY <1>2, <2>2, <2>4, <3>2, <3>3
  <2>. QED BY <2>3, <2>4
<1>8. /\ Begun(q) /\ isMasked(q)
      /\ q[1].value % 16 = opcode /\ payloadLen(q) = length /\ body(q) = Len(h) + 2
  <2>1. BeginsWith(q, h)
    BY <1>2, <1>7 DEF BeginsWith
  <2>2. Told(q, Len(h), opcode, length, 128)
    BY <1>2, <1>7, <2>1, Zenon DEF Says
  <2>. QED BY <1>2, <2>2 DEF Told, KeyPieces
<1>9. CASE length <= maxLen
  <2>1. Headed(q, maxLen)
    <3>1. q[body(q) - 1].value = Key /\ Len(q) >= body(q) - 1
      <4>1. body(q) - 1 = Len(h) + 1 /\ Len(q) >= Len(h) + 1
        BY <1>2, <1>7, <1>8
      <4>. QED BY <1>4, <1>7, <4>1, Zenon
    <3>. QED BY <1>8, <1>9, <3>1 DEF Headed
  <2>2. PICK n : readWSFrame(q, maxLen) = Frame(q, n)
    <3>1. CASE length = 0
      BY <1>8, <2>1, <3>1, TwoFrames
    <3>2. CASE length # 0
      <4>1. Len(q) >= body(q) /\ q[body(q)] = p
        <5>1. Len(q) >= Len(h) + 2 /\ q[Len(h) + 2] = p
          BY <1>2, <1>7, <3>2
        <5>. QED BY <1>8, <5>1, Zenon
      <4>2. readWSFrame(q, maxLen) = Frame(q, body(q))
        BY <1>4, <1>8, <2>1, <3>2, <4>1, TwoFrames
      <4>. QED BY <4>2
    <3>. QED BY <3>1, <3>2
  <2>3. /\ readWSFrame(q, maxLen).status = "frame" /\ readWSFrame(q, maxLen).opcode = opcode
        /\ readWSFrame(q, maxLen).length = length
    BY <1>8, <2>2 DEF Frame
  <2>. QED BY <1>5, <1>9, <2>3
<1>10. CASE ~(length <= maxLen)
  <2>1. ~Headed(q, maxLen)
    BY <1>8, <1>10 DEF Headed
  <2>2. readWSFrame(q, maxLen).status # "frame"
    BY <2>1, TwoFrames
  <2>. QED BY <1>5, <1>10, <2>2
<1>. QED BY <1>9, <1>10

-------------------------------------------------------------------------------
(* The invariant *)

(* What the peer has read of the wire so far: the pongs, and where a part  *)
(* of a frame begins                                                       *)
Pongs == ReadFrom(wire)[1].pongs
Start == ReadFrom(wire)[1].at
Unread == SubSeq(wire, Start, Len(wire))

Job == [next : {"idle", "ended", "lock", "header", "payload"},
        opcode : {0} \union Opcode, length : 0..NoLimit]

FrameTypes ==
  /\ wire \in Seq(Piece) /\ pings \in Seq(Nat) /\ job \in [Pump -> Job]
  /\ writeMu \in Pump \union {Nobody}
  /\ failed \in BOOLEAN

Busy(p) == job[p].next \in {"lock", "header", "payload"}

(* Only the holder of writeMu writes, and only the read pump sends pongs.  *)
Writers ==
  /\ \A p \in Pump : job[p].next \in {"header", "payload"} <=> writeMu = p
  /\ \A p \in Pump : Busy(p) => job[p].opcode \in Opcode
  /\ Busy("read") => job["read"].opcode = PongFrame
  /\ Busy("write") => job["write"].opcode # PongFrame
  /\ \A p \in Pump : job[p].next = "payload" => job[p].length > 0

(* Whole frames, and after them nothing but the header of the frame that   *)
(* is being written.                                                       *)
Whole ==
  /\ ReadFrom(wire)[1].stopped = "incomplete"
  /\ (\A p \in Pump : job[p].next # "payload") => Start = Len(wire) + 1
  /\ \A p \in Pump : job[p].next = "payload" => Says(Unread, job[p].opcode, job[p].length, 0)

(* The pings that the read pump has read are answered but for the last.    *)
Answered ==
  /\ job["read"].next = "idle" => pings = Pongs
  /\ Busy("read") => pings = Append(Pongs, job["read"].length)
  /\ job["read"].next = "ended" =>
       pings = Pongs \/ \E length \in Nat : length > maxWSMessageSize /\ pings = Append(Pongs, length)

FrameIInv == FrameTypes /\ Writers /\ (~failed => Whole /\ Answered)

(* The peer's reading after a piece x is written, by what the part that it *)
(* had not read makes with x: a whole frame, or still a part of one.       *)
LEMMA NothingLeft ==
  ASSUME NEW w \in Seq(Piece)
  PROVE  ReadFrom(w)[Len(w) + 1] = [pongs |-> <<>>, stopped |-> "incomplete", at |-> Len(w) + 1]
<1>1. SubSeq(w, Len(w) + 1, Len(w)) = <<>>
  BY SubSeqEmpty
<1>2. FrameAt(w, Len(w) + 1) = Incomplete
  BY <1>1 DEF FrameAt, readWSFrame
<1>3. Incomplete.status = "incomplete"
  BY DEF Incomplete
<1>4. Len(w) + 1 \in 1..Len(w) + 1
  OBVIOUS
<1>. QED BY <1>2, <1>3, <1>4, ReadFromIs DEF Step

LEMMA TailOf ==
  ASSUME NEW w \in Seq(Piece), NEW a \in 1..Len(w) + 1
  PROVE  /\ SubSeq(w, a, Len(w)) \in Seq(Piece)
         /\ Len(SubSeq(w, a, Len(w))) = Len(w) + 1 - a
         /\ \A i \in 1..Len(w) + 1 - a : SubSeq(w, a, Len(w))[i] = w[a + i - 1]
<1>1. Len(w) \in Nat /\ \A i \in a..Len(w) : w[i] \in Piece
  OBVIOUS
<1>2. PICK s : s = SubSeq(w, a, Len(w))
  OBVIOUS
<1>3. /\ s \in Seq(Piece) /\ Len(s) = IF a <= Len(w) THEN Len(w) - a + 1 ELSE 0
      /\ \A i \in 1..Len(w) - a + 1 : s[i] = w[a + i - 1]
  BY <1>1, <1>2, SubSeqProperties
<1>4. Len(w) - a + 1 = Len(w) + 1 - a /\ (~(a <= Len(w)) => Len(w) + 1 - a = 0)
  BY <1>1
<1>. QED BY <1>2, <1>3, <1>4

LEMMA TailMore ==
  ASSUME NEW w \in Seq(Piece), NEW x \in Seq(Piece), NEW a \in 1..Len(w) + 1
  PROVE  SubSeq(w \o x, a, Len(w \o x)) = SubSeq(w, a, Len(w)) \o x
<1>1. PICK m, k, n : m = Len(w) /\ k = Len(x) /\ n = Len(w) + 1 - a
  OBVIOUS
<1>2. m \in Nat /\ k \in Nat /\ n \in Nat /\ a \in Nat /\ a > 0 /\ m = n + a - 1
  BY <1>1
<1>3. PICK v, s : v = w \o x /\ s = SubSeq(w, a, Len(w))
  OBVIOUS
<1>4. /\ v \in Seq(Piece) /\ Len(v) = m + k
      /\ \A i \in 1..m + k : v[i] = IF i <= m THEN w[i] ELSE x[i - m]
  BY <1>1, <1>3, ConcatProperties
<1>5. /\ s \in Seq(Piece) /\ Len(s) = n
      /\ \A i \in 1..n : s[i] = w[a + i - 1]
  BY <1>1, <1>3, TailOf
<1>6. PICK t, u : t = SubSeq(v, a, Len(v)) /\ u = s \o x
  OBVIOUS
<1>7. /\ t \in Seq(Piece) /\ Len(t) = n + k
      /\ \A i \in 1..n + k : t[i] = v[a + i - 1]
  <2>1. a \in 1..Len(v) + 1 /\ Len(v) + 1 - a = n + k
    BY <1>2, <1>4
  <2>2. /\ t \in Seq(Piece) /\ Len(t) = Len(v) + 1 - a
        /\ \A i \in 1..Len(v) + 1 - a : t[i] = v[a + i - 1]
    BY <1>4, <1>6, <2>1, TailOf
  <2>. QED BY <2>1, <2>2, Zenon
<1>8. /\ u \in Seq(Piece) /\ Len(u) = n + k
      /\ \A i \in 1..n + k : u[i] = IF i <= n THEN s[i] ELSE x[i - n]
  <2>1. /\ u \in Seq(Piece) /\ Len(u) = Len(s) + Len(x)
        /\ \A i \in 1..Len(s) + Len(x) : u[i] = IF i <= Len(s) THEN s[i] ELSE x[i - Len(s)]
    BY <1>5, <1>6, ConcatProperties
  <2>. QED BY <1>1, <1>5, <2>1, Zenon
<1>9. ASSUME NEW i \in 1..n + k
      PROVE  t[i] = u[i]
  <2>1. PICK j : j = a + i - 1
    OBVIOUS
  <2>2. j \in 1..m + k /\ i \in Nat /\ (i <= n <=> j <= m) /\ j - m = i - n
    BY <1>2, <2>1
  <2>3. t[i] = v[j] /\ v[j] = IF j <= m THEN w[j] ELSE x[j - m]
    BY <1>4, <1>7, <2>1, <2>2, Zenon
  <2>4. u[i] = IF i <= n THEN s[i] ELSE x[i - n]
    BY <1>8, Zenon
  <2>5. CASE i <= n
    <3>1. i \in 1..n
      BY <2>2, <2>5
    <3>2. s[i] = w[j]
      BY <1>5, <2>1, <3>1, Zenon
    <3>. QED BY <2>2, <2>3, <2>4, <2>5, <3>2, Zenon
  <2>6. CASE ~(i <= n)
    BY <2>2, <2>3, <2>4, <2>6, Zenon
  <2>. QED BY <2>5, <2>6
<1>10. t = u
  <2>1. \A i \in 1..Len(t) : t[i] = u[i]
    BY <1>7, <1>9, Zenon
  <2>2. Len(t) = Len(u)
    BY <1>7, <1>8, Zenon
  <2>. QED BY <1>7, <1>8, <2>1, <2>2, SeqEqual
<1>. QED BY <1>3, <1>6, <1>10, Zenon

LEMMA AfterPart ==
  ASSUME NEW w \in Seq(Piece), NEW x \in Seq(Piece), NEW a, a = ReadFrom(w)[1].at
  PROVE  /\ a \in 1..Len(w) + 1 /\ ReadFrom(w)[1] \in Reading(Len(w) + 1)
         /\ FrameAt(w \o x, a) = readWSFrame(SubSeq(w, a, Len(w)) \o x, NoLimit)
         /\ SubSeq(w \o x, a, Len(w \o x)) = SubSeq(w, a, Len(w)) \o x
         /\ SubSeq(w, a, Len(w)) \in Seq(Piece)
         /\ Len(SubSeq(w, a, Len(w))) = Len(w) + 1 - a
<1>1. 1 \in 1..Len(w) + 1 /\ Len(w) \in Nat /\ Len(x) \in Nat
  OBVIOUS
<1>2. ReadFrom(w)[1] \in Reading(Len(w) + 1)
  BY <1>1, ReadingTypes
<1>3. a \in 1..Len(w) + 1
  BY <1>2 DEF Reading
<1>. QED BY <1>2, <1>3, TailOf, TailMore DEF FrameAt

LEMMA PartMore ==
  ASSUME NEW w \in Seq(Piece), NEW x \in Seq(Piece), NEW a, a = ReadFrom(w)[1].at,
         readWSFrame(SubSeq(w, a, Len(w)) \o x, NoLimit) = Incomplete
  PROVE  /\ ReadFrom(w \o x)[1].pongs = ReadFrom(w)[1].pongs
         /\ ReadFrom(w \o x)[1].stopped = "incomplete"
         /\ ReadFrom(w \o x)[1].at = a
<1>1. PICK v : v = w \o x
  OBVIOUS
<1>2. v \in Seq(Piece) /\ Len(v) = Len(w) + Len(x) /\ Len(w) \in Nat /\ Len(x) \in Nat
  BY <1>1, ConcatProperties
<1>3. a \in 1..Len(w) + 1 /\ ReadFrom(w)[1] \in Reading(Len(w) + 1) /\ FrameAt(v, a) = Incomplete
  BY <1>1, AfterPart
<1>4. Incomplete.status = "incomplete"
  BY DEF Incomplete
<1>5. ReadFrom(v)[a] = [pongs |-> <<>>, stopped |-> "incomplete", at |-> a]
  <2>1. a \in 1..Len(v) + 1
    BY <1>2, <1>3
  <2>. QED BY <1>2, <1>3, <1>4, <2>1, ReadFromIs DEF Step
<1>6. ReadFrom(v)[1] = [pongs |-> ReadFrom(w)[1].pongs \o ReadFrom(v)[a].pongs,
                        stopped |-> ReadFrom(v)[a].stopped, at |-> ReadFrom(v)[a].at]
  <2>1. 1 \in 1..Len(w) + 1
    BY <1>2
  <2>. QED BY <1>1, <2>1, Continued
<1>7. ReadFrom(w)[1].pongs \o <<>> = ReadFrom(w)[1].pongs
  BY <1>3, ConcatEmptySeq DEF Reading
<1>. QED BY <1>1, <1>5, <1>6, <1>7

LEMMA PartWhole ==
  ASSUME NEW w \in Seq(Piece), NEW x \in Seq(Piece), NEW a, a = ReadFrom(w)[1].at,
         NEW frame, frame = readWSFrame(SubSeq(w, a, Len(w)) \o x, NoLimit),
         frame.status = "frame", frame.used = Len(w) + 1 - a + Len(x)
  PROVE  /\ ReadFrom(w \o x)[1].pongs =
              IF frame.opcode = PongFrame THEN Append(ReadFrom(w)[1].pongs, frame.length)
              ELSE ReadFrom(w)[1].pongs
         /\ ReadFrom(w \o x)[1].stopped = "incomplete"
         /\ ReadFrom(w \o x)[1].at = Len(w \o x) + 1
<1>1. PICK v : v = w \o x
  OBVIOUS
<1>2. v \in Seq(Piece) /\ Len(v) = Len(w) + Len(x) /\ Len(w) \in Nat /\ Len(x) \in Nat
  BY <1>1, ConcatProperties
<1>3. a \in 1..Len(w) + 1 /\ ReadFrom(w)[1] \in Reading(Len(w) + 1) /\ FrameAt(v, a) = frame
  BY <1>1, AfterPart
<1>4. a \in 1..Len(v) + 1 /\ a + frame.used = Len(v) + 1
  BY <1>2, <1>3
<1>5. frame.length \in Int
  BY <1>2, <1>3, <1>4, FrameAtUsed
<1>6. PICK end : end = [pongs |-> <<>>, stopped |-> "incomplete", at |-> Len(v) + 1]
  OBVIOUS
<1>7. ReadFrom(v)[Len(v) + 1] = end
  BY <1>2, <1>6, NothingLeft
<1>8. ReadFrom(v)[a] = Preceded(end, frame)
  BY <1>2, <1>3, <1>4, <1>7, ReadFromIs DEF Step
<1>9. end \in Reading(Len(v) + 1)
  <2>1. <<>> \in Seq(Int) /\ Len(v) + 1 \in 1..Len(v) + 1
    BY <1>2
  <2>. QED BY <1>6, <2>1 DEF Reading
<1>10. /\ ReadFrom(v)[a].pongs = IF frame.opcode = PongFrame THEN <<frame.length>> \o <<>> ELSE <<>>
       /\ ReadFrom(v)[a].stopped = "incomplete" /\ ReadFrom(v)[a].at = Len(v) + 1
  <2>1. end.pongs = <<>> /\ end.stopped = "incomplete" /\ end.at = Len(v) + 1
    BY <1>6
  <2>2. /\ Preceded(end, frame).pongs =
             IF frame.opcode = PongFrame THEN <<frame.length>> \o end.pongs ELSE end.pongs
        /\ Preceded(end, frame).stopped = end.stopped /\ Preceded(end, frame).at = end.at
    BY <1>5, <1>9, PrecededType
  <2>. QED BY <1>8, <2>1, <2>2, Zenon
<1>11. ReadFrom(v)[1] = [pongs |-> ReadFrom(w)[1].pongs \o ReadFrom(v)[a].pongs,
                         stopped |-> ReadFrom(v)[a].stopped, at |-> ReadFrom(v)[a].at]
  <2>1. 1 \in 1..Len(w) + 1
    BY <1>2
  <2>. QED BY <1>1, <2>1, Continued
<1>12. /\ ReadFrom(w)[1].pongs \o <<>> = ReadFrom(w)[1].pongs
       /\ <<frame.length>> \o <<>> = <<frame.length>>
       /\ ReadFrom(w)[1].pongs \o <<frame.length>> = Append(ReadFrom(w)[1].pongs, frame.length)
  <2>1. ReadFrom(w)[1].pongs \in Seq(Int) /\ <<frame.length>> \in Seq(Int)
    BY <1>3, <1>5 DEF Reading
  <2>2. ReadFrom(w)[1].pongs \o <<>> = ReadFrom(w)[1].pongs /\ <<frame.length>> \o <<>> = <<frame.length>>
    BY <2>1, ConcatEmptySeq
  <2>3. ReadFrom(w)[1].pongs \o <<frame.length>> = Append(ReadFrom(w)[1].pongs, frame.length)
    <3>1. PICK s, e : s = ReadFrom(w)[1].pongs /\ e = frame.length
      OBVIOUS
    <3>2. s \in Seq(Int) /\ e \in Int
      BY <1>5, <2>1, <3>1
    <3>3. s \o <<e>> = Append(s, e)
      BY <3>2, AppendIsConcat
    <3>. QED BY <3>1, <3>3, Zenon
  <2>. QED BY <2>2, <2>3
<1>13. /\ ReadFrom(v)[1].pongs = ReadFrom(w)[1].pongs \o ReadFrom(v)[a].pongs
       /\ ReadFrom(v)[1].stopped = "incomplete" /\ ReadFrom(v)[1].at = Len(v) + 1
  <2>1. PICK p, q : p = ReadFrom(w)[1].pongs \o ReadFrom(v)[a].pongs /\ q = ReadFrom(v)[a]
    OBVIOUS
  <2>2. ReadFrom(v)[1] = [pongs |-> p, stopped |-> q.stopped, at |-> q.at]
    BY <1>11, <2>1, Zenon
  <2>3. /\ ReadFrom(v)[1].pongs = p /\ ReadFrom(v)[1].stopped = q.stopped
        /\ ReadFrom(v)[1].at = q.at
    BY <2>2
  <2>. QED BY <1>10, <2>1, <2>3, Zenon
<1>14. CASE frame.opcode = PongFrame
  <2>1. ReadFrom(v)[a].pongs = <<frame.length>>
    BY <1>10, <1>12, <1>14, Zenon
  <2>. QED BY <1>1, <1>12, <1>13, <1>14, <2>1, Zenon
<1>15. CASE frame.opcode # PongFrame
  <2>1. ReadFrom(v)[a].pongs = <<>>
    BY <1>10, <1>15, Zenon
  <2>. QED BY <1>1, <1>12, <1>13, <1>15, <2>1, Zenon
<1>. QED BY <1>14, <1>15, Zenon

(* The reading after each of the two writes of a frame: v is the wire w    *)
(* with the header, or with the payload.                                   *)
HeaderReads(w, v, opcode, length) ==
  /\ v \in Seq(Piece) /\ ReadFrom(v)[1].stopped = "incomplete"
  /\ length > 0 => /\ ReadFrom(v)[1].pongs = ReadFrom(w)[1].pongs
                   /\ Says(SubSeq(v, ReadFrom(v)[1].at, Len(v)), opcode, length, 0)
  /\ length = 0 => /\ ReadFrom(v)[1].pongs =
                        IF opcode = PongFrame THEN Append(ReadFrom(w)[1].pongs, length)
                        ELSE ReadFrom(w)[1].pongs
                   /\ ReadFrom(v)[1].at = Len(v) + 1

PayloadReads(w, v, opcode, length) ==
  /\ v \in Seq(Piece) /\ ReadFrom(v)[1].stopped = "incomplete"
  /\ ReadFrom(v)[1].pongs =
       IF opcode = PongFrame THEN Append(ReadFrom(w)[1].pongs, length)
       ELSE ReadFrom(w)[1].pongs
  /\ ReadFrom(v)[1].at = Len(v) + 1

LEMMA HeaderWritten ==
  ASSUME NEW w \in Seq(Piece), ReadFrom(w)[1].stopped = "incomplete", ReadFrom(w)[1].at = Len(w) + 1,
         NEW opcode \in Opcode, NEW length \in Nat, length <= NoLimit
  PROVE  HeaderReads(w, w \o Header(opcode, length, 0), opcode, length)
<1>v. PICK v : v = w \o Header(opcode, length, 0)
  OBVIOUS
<1>1. PICK h, a : h = Header(opcode, length, 0) /\ a = ReadFrom(w)[1].at
  OBVIOUS
<1>2. Says(h, opcode, length, 0) /\ h \in Seq(Piece) /\ Len(h) \in Nat
  BY <1>1, HeaderSays DEF Says
<1>3. v = w \o h /\ v \in Seq(Piece) /\ Len(v) = Len(w) + Len(h) /\ Len(w) \in Nat
  BY <1>1, <1>v, <1>2, ConcatProperties
<1>4. /\ a \in 1..Len(w) + 1 /\ SubSeq(w, a, Len(w)) = <<>> /\ <<>> \o h = h
      /\ SubSeq(v, a, Len(v)) = SubSeq(w, a, Len(w)) \o h
  <2>1. SubSeq(w, a, Len(w)) = <<>>
    BY <1>1, <1>3, SubSeqEmpty
  <2>2. <<>> \o h = h
    BY <1>2, ConcatEmptySeq
  <2>3. a \in 1..Len(w) + 1
    BY <1>1, <1>3
  <2>. QED BY <1>2, <1>3, <2>1, <2>2, <2>3, TailMore
<1>5. ASSUME length > 0
      PROVE  /\ ReadFrom(v)[1].pongs = ReadFrom(w)[1].pongs
             /\ ReadFrom(v)[1].stopped = "incomplete"
             /\ Says(SubSeq(v, ReadFrom(v)[1].at, Len(v)), opcode, length, 0)
  <2>1. readWSFrame(h, NoLimit) = Incomplete
    BY <1>2, <1>5, Written
  <2>2. readWSFrame(SubSeq(w, a, Len(w)) \o h, NoLimit) = Incomplete
    BY <1>4, <2>1, Zenon
  <2>3. /\ ReadFrom(v)[1].pongs = ReadFrom(w)[1].pongs
        /\ ReadFrom(v)[1].stopped = "incomplete" /\ ReadFrom(v)[1].at = a
    BY <1>1, <1>2, <1>3, <2>2, PartMore
  <2>. QED BY <1>2, <1>4, <2>3, Zenon
<1>6. ASSUME length = 0
      PROVE  /\ ReadFrom(v)[1].pongs =
                  IF opcode = PongFrame THEN Append(ReadFrom(w)[1].pongs, length)
                  ELSE ReadFrom(w)[1].pongs
             /\ ReadFrom(v)[1].stopped = "incomplete" /\ ReadFrom(v)[1].at = Len(v) + 1
  <2>1. PICK frame : frame = [status |-> "frame", opcode |-> opcode, length |-> length, used |-> Len(h)]
    OBVIOUS
  <2>2. readWSFrame(h, NoLimit) = frame
    BY <1>2, <1>6, <2>1, Written
  <2>3. frame = readWSFrame(SubSeq(w, a, Len(w)) \o h, NoLimit)
    BY <1>4, <2>2, Zenon
  <2>4. /\ frame.status = "frame" /\ frame.opcode = opcode /\ frame.length = length
        /\ frame.used = Len(w) + 1 - a + Len(h)
    BY <1>1, <1>2, <1>3, <2>1
  <2>5. /\ ReadFrom(v)[1].pongs =
             IF frame.opcode = PongFrame THEN Append(ReadFrom(w)[1].pongs, frame.length)
             ELSE ReadFrom(w)[1].pongs
        /\ ReadFrom(v)[1].stopped = "incomplete" /\ ReadFrom(v)[1].at = Len(v) + 1
    <3>1. /\ frame = readWSFrame(SubSeq(w, ReadFrom(w)[1].at, Len(w)) \o h, NoLimit)
          /\ frame.used = Len(w) + 1 - ReadFrom(w)[1].at + Len(h)
      BY <1>1, <2>3, <2>4, Zenon
    <3>2. h \in Seq(Piece) /\ frame.status = "frame"
      BY <1>2, <2>4
    <3>3. /\ ReadFrom(w \o h)[1].pongs =
               IF frame.opcode = PongFrame THEN Append(ReadFrom(w)[1].pongs, frame.length)
               ELSE ReadFrom(w)[1].pongs
          /\ ReadFrom(w \o h)[1].stopped = "incomplete" /\ ReadFrom(w \o h)[1].at = Len(w \o h) + 1
      <4>1. PICK x : x = h
        OBVIOUS
      <4>2. /\ x \in Seq(Piece) /\ frame.status = "frame"
            /\ frame = readWSFrame(SubSeq(w, ReadFrom(w)[1].at, Len(w)) \o x, NoLimit)
            /\ frame.used = Len(w) + 1 - ReadFrom(w)[1].at + Len(x)
        BY <3>1, <3>2, <4>1, Zenon
      <4>3. /\ ReadFrom(w \o x)[1].pongs =
                 IF frame.opcode = PongFrame THEN Append(ReadFrom(w)[1].pongs, frame.length)
                 ELSE ReadFrom(w)[1].pongs
            /\ ReadFrom(w \o x)[1].stopped = "incomplete" /\ ReadFrom(w \o x)[1].at = Len(w \o x) + 1
        BY <4>2, PartWhole
      <4>. QED BY <4>1, <4>3, Zenon
    <3>. QED BY <1>3, <3>3, Zenon
  <2>. QED BY <2>4, <2>5, Zenon
<1>7. length > 0 \/ length = 0
  OBVIOUS
<1>. QED BY <1>v, <1>3, <1>5, <1>6, <1>7, Zenon DEF HeaderReads

LEMMA PayloadWritten ==
  ASSUME NEW w \in Seq(Piece), NEW opcode \in Opcode, NEW length \in Nat, 0 < length, length <= NoLimit,
         Says(SubSeq(w, ReadFrom(w)[1].at, Len(w)), opcode, length, 0)
  PROVE  PayloadReads(w, w \o Bulk(Data, length), opcode, length)
<1>v. PICK v : v = w \o Bulk(Data, length)
  OBVIOUS
<1>1. PICK x, a, h : x = Bulk(Data, length) /\ a = ReadFrom(w)[1].at /\ h = SubSeq(w, a, Len(w))
  OBVIOUS
<1>2. x \in Seq(Piece) /\ Len(x) = 1
  <2>1. [value |-> Data, count |-> length] \in Piece
    BY DEF Piece, Data
  <2>2. x = << [value |-> Data, count |-> length] >>
    BY <1>1 DEF Bulk
  <2>. QED BY <2>1, <2>2
<1>3. v = w \o x /\ v \in Seq(Piece)
  BY <1>1, <1>v, <1>2, ConcatProperties
<1>4. a \in 1..Len(w) + 1 /\ Len(h) = Len(w) + 1 - a /\ Len(w) \in Nat
  <2>1. /\ a \in 1..Len(w) + 1
        /\ Len(SubSeq(w, a, Len(w))) = Len(w) + 1 - a
    BY <1>1, <1>2, AfterPart
  <2>2. Len(h) = Len(w) + 1 - a
    BY <1>1, <2>1, Zenon
  <2>. QED BY <2>1, <2>2
<1>5. PICK frame : frame = [status |-> "frame", opcode |-> opcode, length |-> length, used |-> Len(h) + 1]
  OBVIOUS
<1>6. readWSFrame(h \o x, NoLimit) = frame
  BY <1>1, <1>5, Written
<1>7. /\ frame.status = "frame" /\ frame.opcode = opcode /\ frame.length = length
      /\ frame.used = Len(w) + 1 - a + Len(x)
  BY <1>2, <1>4, <1>5
<1>8. frame = readWSFrame(SubSeq(w, a, Len(w)) \o x, NoLimit)
  BY <1>1, <1>6, Zenon
<1>9. /\ ReadFrom(v)[1].pongs =
           IF frame.opcode = PongFrame THEN Append(ReadFrom(w)[1].pongs, frame.length)
           ELSE ReadFrom(w)[1].pongs
      /\ ReadFrom(v)[1].stopped = "incomplete" /\ ReadFrom(v)[1].at = Len(v) + 1
  <2>1. frame.used = Len(w) + 1 - ReadFrom(w)[1].at + Len(x)
    BY <1>1, <1>7, Zenon
  <2>2. frame = readWSFrame(SubSeq(w, ReadFrom(w)[1].at, Len(w)) \o x, NoLimit)
    BY <1>1, <1>8, Zenon
  <2>3. x \in Seq(Piece) /\ frame.status = "frame"
    BY <1>2, <1>7
  <2>4. /\ ReadFrom(w \o x)[1].pongs =
             IF frame.opcode = PongFrame THEN Append(ReadFrom(w)[1].pongs, frame.length)
             ELSE ReadFrom(w)[1].pongs
        /\ ReadFrom(w \o x)[1].stopped = "incomplete" /\ ReadFrom(w \o x)[1].at = Len(w \o x) + 1
    BY <2>1, <2>2, <2>3, PartWhole
  <2>. QED BY <1>3, <2>4, Zenon
<1>. QED BY <1>v, <1>3, <1>7, <1>9, Zenon DEF PayloadReads

-------------------------------------------------------------------------------
(* The steps *)

(* Nothing is written yet.                                                 *)
LEMMA FrameStart == FrameInit => FrameIInv
<1>. SUFFICES ASSUME FrameInit
              PROVE  FrameIInv
  OBVIOUS
<1>1. wire = <<>> /\ pings = <<>> /\ wire \in Seq(Piece) /\ pings \in Seq(Nat) /\ Len(wire) = 0
  BY DEF FrameInit
<1>2. \A p \in Pump : job[p] = Idle /\ Idle.next = "idle"
  BY DEF FrameInit, Idle
<1>3. job \in [Pump -> Job]
  BY <1>2, Limit DEF FrameInit, Job, Idle
<1>4. FrameTypes
  BY <1>1, <1>3 DEF FrameTypes, FrameInit, Pump
<1>5. Writers
  BY <1>2 DEF Writers, Busy, FrameInit, Pump, Nobody
<1>6. ReadFrom(wire)[1] = [pongs |-> <<>>, stopped |-> "incomplete", at |-> 1]
  <2>1. ReadFrom(wire)[Len(wire) + 1] = [pongs |-> <<>>, stopped |-> "incomplete", at |-> Len(wire) + 1]
    BY <1>1, NothingLeft
  <2>2. Len(wire) + 1 = 1
    BY <1>1
  <2>. QED BY <2>1, <2>2, Zenon
<1>7. Whole
  BY <1>1, <1>2, <1>6 DEF Whole, Start
<1>8. Answered
  BY <1>1, <1>2, <1>6 DEF Answered, Busy, Pongs, Pump
<1>. QED BY <1>4, <1>5, <1>7, <1>8 DEF FrameIInv

(* What a pump goes on to do                                               *)
LEMMA NewJob ==
  ASSUME job \in [Pump -> Job], NEW p \in Pump, NEW j \in Job, job' = [job EXCEPT ![p] = j]
  PROVE  /\ job' \in [Pump -> Job] /\ job'[p] = j
         /\ \A q \in Pump \ {p} : job'[q] = job[q]
OBVIOUS

LEMMA Jobs ==
  /\ Idle \in Job /\ Ended \in Job /\ Idle.next = "idle" /\ Ended.next = "ended"
  /\ \A opcode \in Opcode, length \in 0..NoLimit :
       [next |-> "lock", opcode |-> opcode, length |-> length] \in Job
  /\ \A j \in Job, n \in {"header", "payload"} :
       /\ [j EXCEPT !.next = n] \in Job /\ [j EXCEPT !.next = n].next = n
       /\ [j EXCEPT !.next = n].opcode = j.opcode /\ [j EXCEPT !.next = n].length = j.length
BY Limit DEF Job, Idle, Ended

(* A step of pump p that writes nothing, takes writeMu or not              *)
Quietly(p, j) ==
  /\ job' = [job EXCEPT ![p] = j]
  /\ j \in Job /\ j.next \in {"idle", "ended", "lock"} /\ job[p].next \notin {"header", "payload"}
  /\ j.next = "lock" => j.opcode \in Opcode /\ (p = "read" <=> j.opcode = PongFrame)
  /\ UNCHANGED <<wire, writeMu, failed>>

LEMMA QuietStep ==
  ASSUME FrameIInv, NEW p \in Pump, NEW j, Quietly(p, j), pings' \in Seq(Nat)
  PROVE  FrameTypes' /\ Writers' /\ (~failed' => Whole')
<1>1. /\ job \in [Pump -> Job] /\ j \in Job /\ job' \in [Pump -> Job] /\ job'[p] = j
      /\ \A q \in Pump \ {p} : job'[q] = job[q]
  <2>1. job \in [Pump -> Job] /\ j \in Job /\ job' = [job EXCEPT ![p] = j]
    BY DEF FrameIInv, FrameTypes, Quietly
  <2>. QED BY <2>1, NewJob
<1>2. wire' = wire /\ writeMu' = writeMu /\ failed' = failed
  BY DEF Quietly
<1>3. FrameTypes'
  BY <1>1, <1>2 DEF FrameIInv, FrameTypes
<1>4. /\ job[p].next \notin {"header", "payload"} /\ job'[p].next \notin {"header", "payload"}
      /\ Busy(p)' => job'[p].opcode \in Opcode /\ (p = "read" <=> job'[p].opcode = PongFrame)
  BY <1>1 DEF Quietly, Busy
<1>5. Writers'
  <2>1. \A q \in Pump : job'[q].next \in {"header", "payload"} <=> writeMu' = q
    BY <1>1, <1>2, <1>4 DEF FrameIInv, Writers
  <2>2. \A q \in Pump : Busy(q)' => job'[q].opcode \in Opcode /\ (q = "read" <=> job'[q].opcode = PongFrame)
    <3>1. ASSUME NEW q \in Pump \ {p}, Busy(q)'
          PROVE  job'[q].opcode \in Opcode /\ (q = "read" <=> job'[q].opcode = PongFrame)
      <4>1. Busy(q) /\ job'[q] = job[q] /\ q \in {"read", "write"}
        BY <1>1, <3>1 DEF Busy, Pump
      <4>. QED BY <4>1 DEF FrameIInv, Writers, Pump
    <3>. QED BY <1>4, <3>1
  <2>3. \A q \in Pump : job'[q].next = "payload" => job'[q].length > 0
    BY <1>1, <1>4 DEF FrameIInv, Writers
  <2>. QED BY <2>1, <2>2, <2>3 DEF Writers, Pump
<1>6. ASSUME ~failed'
      PROVE  Whole'
  <2>1. Whole
    BY <1>2, <1>6 DEF FrameIInv
  <2>2. \A q \in Pump : (job'[q].next = "payload" <=> job[q].next = "payload")
                        /\ (job[q].next = "payload" => job'[q] = job[q])
    BY <1>1, <1>4
  <2>3. Start' = Start /\ Unread' = Unread /\ ReadFrom(wire)' = ReadFrom(wire)
    BY <1>2 DEF Start, Unread
  <2>. QED BY <1>2, <2>1, <2>2, <2>3 DEF Whole
<1>. QED BY <1>3, <1>5, <1>6

LEMMA SameAnswers ==
  ASSUME Answered, UNCHANGED <<wire, pings>>, job'["read"] = job["read"]
  PROVE  Answered'
<1>1. Pongs' = Pongs
  BY DEF Pongs
<1>2. Busy("read")' <=> Busy("read")
  BY DEF Busy
<1>. QED BY <1>1, <1>2 DEF Answered

(* The write pump chooses what to write.                                   *)
LEMMA ChooseStep ==
  ASSUME FrameIInv, PumpPing \/ PumpClosed \/ \E length \in Length : PumpMessage(length)
  PROVE  FrameIInv'
<1>1. PICK opcode \in Opcode \ {PongFrame}, length \in 0..NoLimit :
        /\ job["write"] = Idle /\ Wants("write", opcode, length)
        /\ UNCHANGED <<wire, pings, writeMu, closed, connOpen, failed>>
  <2>1. /\ PingFrame \in Opcode \ {PongFrame} /\ CloseFrame \in Opcode \ {PongFrame}
        /\ TextFrame \in Opcode \ {PongFrame} /\ 12 \in 0..NoLimit /\ 0 \in 0..NoLimit
    BY Limit DEF Opcode, TextFrame, CloseFrame, PingFrame, PongFrame
  <2>2. CASE PumpPing
    BY <2>1, <2>2 DEF PumpPing
  <2>3. CASE PumpClosed
    BY <2>1, <2>3 DEF PumpClosed
  <2>4. CASE \E length \in Length : PumpMessage(length)
    BY <2>1, <2>4, WSFrameAssumption DEF PumpMessage
  <2>. QED BY <2>2, <2>3, <2>4
<1>2. PICK j : j = [next |-> "lock", opcode |-> opcode, length |-> length]
  OBVIOUS
<1>3. j \in Job /\ j.next = "lock" /\ j.opcode = opcode /\ "write" \in Pump /\ "read" \in Pump
  BY <1>2, Jobs DEF Pump
<1>4. Quietly("write", j)
  BY <1>1, <1>2, <1>3, Jobs DEF Quietly, Wants
<1>5. pings' = pings /\ pings \in Seq(Nat) /\ job \in [Pump -> Job]
  BY <1>1 DEF FrameIInv, FrameTypes
<1>6. FrameTypes' /\ Writers' /\ (~failed' => Whole')
  BY <1>3, <1>4, <1>5, QuietStep
<1>7. ASSUME ~failed'
      PROVE  Answered'
  <2>1. Answered /\ wire' = wire
    BY <1>1, <1>7 DEF FrameIInv
  <2>2. job'["read"] = job["read"]
    BY <1>3, <1>4, <1>5 DEF Quietly
  <2>. QED BY <1>5, <2>1, <2>2, SameAnswers
<1>. QED BY <1>6, <1>7 DEF FrameIInv

(* The read pump reads a frame, or nothing.                                *)
LEMMA ReceiveStep ==
  ASSUME FrameIInv, NEW opcode \in {TextFrame, PingFrame, CloseFrame}, NEW length \in Length,
         Receive(opcode, length)
  PROVE  FrameIInv'
<1>1. PICK frame : frame = readWSFrame(ClientFrame(opcode, length), maxWSMessageSize)
  OBVIOUS
<1>2. /\ job["read"] = Idle /\ UNCHANGED <<wire, writeMu, failed>>
      /\ pings' = IF opcode = PingFrame THEN Append(pings, length) ELSE pings
      /\ frame.status = "frame" /\ frame.opcode = PingFrame => Wants("read", PongFrame, frame.length)
      /\ frame.status = "frame" /\ frame.opcode = TextFrame => job' = job
      /\ ~(frame.status = "frame" /\ frame.opcode \in {PingFrame, TextFrame}) =>
           job' = [job EXCEPT !["read"] = Ended]
  BY <1>1 DEF Receive, TextFrame, PingFrame
<1>3. length \in 0..NoLimit /\ length \in Nat /\ opcode \in Opcode /\ maxWSMessageSize \in Nat
  BY WSFrameAssumption, Limit DEF Opcode
<1>4. IF length <= maxWSMessageSize
        THEN frame.status = "frame" /\ frame.opcode = opcode /\ frame.length = length
        ELSE frame.status # "frame"
  BY <1>1, <1>3, ClientFrameRead
<1>5. job \in [Pump -> Job] /\ pings \in Seq(Nat) /\ pings' \in Seq(Nat)
      /\ "read" \in Pump /\ Idle.next = "idle"
  BY <1>2, <1>3 DEF FrameIInv, FrameTypes, Pump, Idle
<1>6. job["read"].next = "idle" /\ (~failed => pings = Pongs) /\ Pongs' = Pongs
  BY <1>2, <1>5 DEF FrameIInv, Answered, Pongs
<1>7. CASE opcode = PingFrame /\ length <= maxWSMessageSize
  <2>1. PICK j : j = [next |-> "lock", opcode |-> PongFrame, length |-> length]
    OBVIOUS
  <2>2. j \in Job /\ j.next = "lock" /\ j.opcode = PongFrame /\ j.length = length /\ PongFrame \in Opcode
    BY <1>3, <2>1, Jobs DEF Opcode
  <2>3. job' = [job EXCEPT !["read"] = j]
    <3>1. frame.status = "frame" /\ frame.opcode = PingFrame /\ frame.length = length
      BY <1>4, <1>7
    <3>2. Wants("read", PongFrame, frame.length)
      BY <1>2, <3>1, Zenon
    <3>. QED BY <2>1, <3>1, <3>2, Zenon DEF Wants
  <2>4. Quietly("read", j)
    BY <1>2, <1>6, <2>2, <2>3 DEF Quietly
  <2>5. FrameTypes' /\ Writers' /\ (~failed' => Whole')
    BY <1>5, <2>4, QuietStep
  <2>6. job'["read"] = j
    BY <1>5, <2>3
  <2>7. ASSUME ~failed'
        PROVE  Answered'
    <3>1. pings' = Append(Pongs', length)
      BY <1>2, <1>6, <1>7, <2>7
    <3>. QED BY <2>2, <2>6, <3>1 DEF Answered
  <2>. QED BY <2>5, <2>7 DEF FrameIInv
<1>8. CASE opcode = TextFrame /\ length <= maxWSMessageSize
  <2>1. job' = job /\ pings' = pings
    BY <1>2, <1>4, <1>8 DEF TextFrame, PingFrame
  <2>2. job' = [job EXCEPT !["read"] = Idle]
    BY <1>2, <1>5, <2>1
  <2>3. Quietly("read", Idle)
    BY <1>2, <1>6, <2>2, Jobs DEF Quietly
  <2>4. FrameTypes' /\ Writers' /\ (~failed' => Whole')
    BY <1>5, <2>3, QuietStep
  <2>5. ~failed' => Answered'
    BY <1>2, <2>1, SameAnswers DEF FrameIInv
  <2>. QED BY <2>4, <2>5 DEF FrameIInv
<1>9. CASE opcode = CloseFrame \/ length > maxWSMessageSize
  <2>1. job' = [job EXCEPT !["read"] = Ended]
    <3>1. ~(frame.status = "frame" /\ frame.opcode \in {PingFrame, TextFrame})
      BY <1>3, <1>4, <1>9 DEF CloseFrame, PingFrame, TextFrame
    <3>. QED BY <1>2, <3>1, Zenon
  <2>2. Quietly("read", Ended)
    BY <1>2, <1>6, <2>1, Jobs DEF Quietly
  <2>3. FrameTypes' /\ Writers' /\ (~failed' => Whole')
    BY <1>5, <2>2, QuietStep
  <2>4. job'["read"] = Ended
    BY <1>5, <2>1
  <2>5. ASSUME ~failed'
        PROVE  Answered'
    <3>1. pings = Pongs'
      BY <1>2, <1>6, <2>5
    <3>2. pings' = Pongs' \/ (length > maxWSMessageSize /\ pings' = Append(Pongs', length))
      BY <1>2, <1>9, <3>1 DEF CloseFrame, PingFrame
    <3>3. ~Busy("read")' /\ job'["read"].next = "ended"
      BY <2>4, Jobs DEF Busy
    <3>. QED BY <1>3, <3>2, <3>3 DEF Answered
  <2>. QED BY <2>3, <2>5 DEF FrameIInv
<1>. QED BY <1>3, <1>7, <1>8, <1>9

LEMMA ReceiveNothingStep ==
  ASSUME FrameIInv, ReceiveNothing
  PROVE  FrameIInv'
<1>1. /\ job["read"] = Idle /\ job' = [job EXCEPT !["read"] = Ended]
      /\ UNCHANGED <<wire, pings, writeMu, failed>>
  BY DEF ReceiveNothing
<1>2. job \in [Pump -> Job] /\ pings \in Seq(Nat) /\ pings' \in Seq(Nat)
      /\ "read" \in Pump /\ job["read"].next = "idle"
  BY <1>1, Jobs DEF FrameIInv, FrameTypes, Pump
<1>3. Quietly("read", Ended)
  BY <1>1, <1>2, Jobs DEF Quietly
<1>4. FrameTypes' /\ Writers' /\ (~failed' => Whole')
  BY <1>2, <1>3, QuietStep
<1>5. ASSUME ~failed'
      PROVE  Answered'
  <2>1. pings = Pongs /\ pings' = pings /\ Pongs' = Pongs
    BY <1>1, <1>2, <1>5 DEF FrameIInv, Answered, Pongs
  <2>2. job'["read"] = Ended
    BY <1>1, <1>2
  <2>3. ~Busy("read")' /\ job'["read"].next = "ended"
    BY <2>2, Jobs DEF Busy
  <2>. QED BY <2>1, <2>3 DEF Answered
<1>. QED BY <1>4, <1>5 DEF FrameIInv

(* A pump takes writeMu.                                                   *)
LEMMA LockStep ==
  ASSUME FrameIInv, NEW p \in Pump, Lock(p)
  PROVE  FrameIInv'
<1>1. PICK j : j = [job[p] EXCEPT !.next = "header"]
  OBVIOUS
<1>2. /\ job \in [Pump -> Job] /\ job[p] \in Job /\ job[p].next = "lock" /\ writeMu = Nobody /\ writeMu' = p
      /\ wire' = wire /\ pings' = pings /\ failed' = failed /\ job' = [job EXCEPT ![p] = j]
  BY <1>1 DEF FrameIInv, FrameTypes, Lock
<1>3. j \in Job /\ j.next = "header" /\ j.opcode = job[p].opcode /\ j.length = job[p].length
  BY <1>1, <1>2, Jobs
<1>4. job' \in [Pump -> Job] /\ job'[p] = j /\ \A q \in Pump \ {p} : job'[q] = job[q]
  BY <1>2, <1>3, NewJob
<1>5. FrameTypes'
  BY <1>2, <1>4 DEF FrameIInv, FrameTypes
<1>6. \A q \in Pump : /\ Busy(q)' <=> Busy(q)
                      /\ job'[q].opcode = job[q].opcode /\ job'[q].length = job[q].length
                      /\ job'[q].next # "payload" /\ job[q].next # "payload"
                      /\ job'[q].next \in {"idle", "ended"} <=> job[q].next \in {"idle", "ended"}
                      /\ job[q].next \in {"idle", "ended"} => job'[q].next = job[q].next
  <2>1. \A q \in Pump : job[q].next \notin {"header", "payload"}
    BY <1>2 DEF FrameIInv, Writers, Pump, Nobody
  <2>2. /\ Busy(p)' /\ Busy(p) /\ job'[p].next = "header"
    BY <1>2, <1>3, <1>4 DEF Busy
  <2>3. \A q \in Pump \ {p} : Busy(q)' <=> Busy(q)
    BY <1>4 DEF Busy
  <2>. QED BY <1>2, <1>3, <1>4, <2>1, <2>2, <2>3
<1>7. Writers'
  <2>1. \A q \in Pump : job'[q].next \in {"header", "payload"} <=> writeMu' = q
    BY <1>2, <1>3, <1>4 DEF FrameIInv, Writers, Pump, Nobody
  <2>2. "read" \in Pump /\ "write" \in Pump
    BY DEF Pump
  <2>. QED BY <1>6, <2>1, <2>2 DEF FrameIInv, Writers
<1>8. ASSUME ~failed'
      PROVE  Whole' /\ Answered'
  <2>1. Whole /\ Answered
    BY <1>2, <1>8 DEF FrameIInv
  <2>2. Start' = Start /\ Unread' = Unread /\ Pongs' = Pongs /\ ReadFrom(wire)' = ReadFrom(wire)
    BY <1>2 DEF Start, Unread, Pongs
  <2>3. Whole'
    BY <1>2, <1>6, <2>1, <2>2 DEF Whole
  <2>4. "read" \in Pump
    BY DEF Pump
  <2>. QED BY <1>2, <1>6, <2>1, <2>2, <2>3, <2>4 DEF Answered
<1>. QED BY <1>5, <1>7, <1>8 DEF FrameIInv

(* writeFrame ends, with the frame written, or with an error: what pump p  *)
(* does next, and that it holds writeMu no longer.                         *)
LEMMA Released ==
  ASSUME FrameTypes, Writers, NEW p \in Pump, job[p].next \in {"header", "payload"},
         NEW j \in {Idle, Ended}, job' = [job EXCEPT ![p] = j], writeMu' = Nobody,
         wire' \in Seq(Piece), pings' = pings, failed' \in BOOLEAN
  PROVE  /\ FrameTypes' /\ Writers' /\ job'[p] = j
         /\ \A q \in Pump : job'[q].next \notin {"header", "payload"}
         /\ \A q \in Pump \ {p} : job'[q] = job[q]
<1>1. /\ job \in [Pump -> Job] /\ j \in Job /\ j.next \in {"idle", "ended"}
  BY Jobs DEF FrameTypes
<1>2. job' \in [Pump -> Job] /\ job'[p] = j /\ \A q \in Pump \ {p} : job'[q] = job[q]
  BY <1>1, NewJob
<1>3. FrameTypes'
  BY <1>2 DEF FrameTypes
<1>4. writeMu = p /\ \A q \in Pump \ {p} : job[q].next \notin {"header", "payload"}
  BY DEF Writers
<1>5. \A q \in Pump : job'[q].next \notin {"header", "payload"}
  BY <1>1, <1>2, <1>4
<1>6. Writers'
  <2>1. \A q \in Pump : Busy(q)' => Busy(q) /\ job'[q] = job[q]
    BY <1>1, <1>2 DEF Busy
  <2>2. "read" \in Pump /\ "write" \in Pump
    BY DEF Pump
  <2>3. \A q \in Pump : job'[q].next \in {"header", "payload"} <=> writeMu' = q
    BY <1>5 DEF Pump, Nobody
  <2>. QED BY <1>5, <2>1, <2>2, <2>3 DEF Writers
<1>. QED BY <1>2, <1>3, <1>5, <1>6

(* The reading of a frame that has all been written                        *)
LEMMA FrameEnds ==
  ASSUME FrameIInv, NEW p \in Pump, job[p].next \in {"header", "payload"}, ~failed,
         Unlock(p), wire' \in Seq(Piece), pings' = pings, failed' = failed,
         ReadFrom(wire)'[1].stopped = "incomplete", Start' = Len(wire') + 1,
         Pongs' = IF job[p].opcode = PongFrame THEN Append(Pongs, job[p].length) ELSE Pongs
  PROVE  FrameIInv'
<1>1. PICK j : j \in {Idle, Ended} /\ (job[p].opcode # CloseFrame => j = Idle) /\ job' = [job EXCEPT ![p] = j]
  BY DEF Unlock
<1>2. FrameTypes /\ Writers /\ failed \in BOOLEAN /\ writeMu' = Nobody /\ Answered /\ "read" \in Pump
  BY DEF FrameIInv, FrameTypes, Unlock, Pump
<1>3. /\ FrameTypes' /\ Writers' /\ job'[p] = j
      /\ \A q \in Pump : job'[q].next \notin {"header", "payload"}
      /\ \A q \in Pump \ {p} : job'[q] = job[q]
  BY <1>1, <1>2, Released
<1>4. Whole'
  BY <1>3 DEF Whole
<1>5. Busy(p)
  BY DEF Busy
<1>6. CASE p = "read"
  <2>1. job[p].opcode = PongFrame /\ PongFrame # CloseFrame
    BY <1>2, <1>5, <1>6 DEF Writers, PongFrame, CloseFrame
  <2>2. pings' = Pongs'
    BY <1>2, <1>5, <1>6, <2>1 DEF Answered
  <2>3. job'["read"].next = "idle" /\ ~Busy("read")'
    BY <1>1, <1>3, <1>6, <2>1, Jobs DEF Busy
  <2>. QED BY <1>3, <1>4, <2>2, <2>3 DEF FrameIInv, Answered
<1>7. CASE p = "write"
  <2>1. job[p].opcode # PongFrame /\ "read" \in Pump \ {p}
    BY <1>2, <1>5, <1>7 DEF Writers, Pump
  <2>2. Pongs' = Pongs /\ job'["read"] = job["read"]
    BY <1>3, <2>1
  <2>3. Busy("read")' <=> Busy("read")
    BY <2>2 DEF Busy
  <2>4. Answered'
    BY <1>2, <2>2, <2>3 DEF Answered
  <2>. QED BY <1>3, <1>4, <2>4 DEF FrameIInv
<1>. QED BY <1>6, <1>7 DEF Pump

LEMMA WriteHeaderStep ==
  ASSUME FrameIInv, NEW p \in Pump, WriteHeader(p)
  PROVE  FrameIInv'
<1>1. PICK opcode, length : opcode = job[p].opcode /\ length = job[p].length
  OBVIOUS
<1>2. /\ job[p].next = "header" /\ wire' = wire \o Header(opcode, length, 0)
      /\ pings' = pings /\ failed' = failed
      /\ length > 0 => job' = [job EXCEPT ![p].next = "payload"] /\ writeMu' = writeMu
      /\ ~(length > 0) => Unlock(p)
  BY <1>1 DEF WriteHeader
<1>3. /\ wire \in Seq(Piece) /\ job \in [Pump -> Job] /\ job[p] \in Job
      /\ FrameTypes /\ Writers /\ failed \in BOOLEAN
  BY DEF FrameIInv, FrameTypes
<1>4. opcode \in Opcode /\ length \in Nat /\ length <= NoLimit
  <2>1. length \in 0..NoLimit /\ Busy(p)
    BY <1>1, <1>2, <1>3 DEF Job, Busy
  <2>. QED BY <1>1, <1>3, <2>1, Limit DEF Writers
<1>5. wire' \in Seq(Piece)
  <2>1. Header(opcode, length, 0) \in Seq(Piece)
    BY <1>4, HeaderSays DEF Says
  <2>. QED BY <1>2, <1>3, <2>1, ConcatProperties
<1>6. writeMu = p /\ \A q \in Pump \ {p} : job[q].next \notin {"header", "payload"}
  BY <1>2, <1>3 DEF Writers
<1>7. ASSUME ~failed
      PROVE  /\ Whole /\ Answered /\ ReadFrom(wire)'[1].stopped = "incomplete"
             /\ length > 0 => Pongs' = Pongs /\ Says(Unread', opcode, length, 0)
             /\ ~(length > 0) =>
                  /\ Pongs' = IF opcode = PongFrame THEN Append(Pongs, length) ELSE Pongs
                  /\ Start' = Len(wire') + 1
  <2>1. Whole /\ Answered
    BY <1>7 DEF FrameIInv
  <2>2. ReadFrom(wire)[1].stopped = "incomplete" /\ ReadFrom(wire)[1].at = Len(wire) + 1
    BY <1>2, <1>6, <2>1 DEF Whole, Start
  <2>3. PICK v : v = wire' /\ v = wire \o Header(opcode, length, 0)
    BY <1>2
  <2>4. /\ ReadFrom(v)[1].stopped = "incomplete"
        /\ length > 0 => /\ ReadFrom(v)[1].pongs = ReadFrom(wire)[1].pongs
                         /\ Says(SubSeq(v, ReadFrom(v)[1].at, Len(v)), opcode, length, 0)
        /\ length = 0 => /\ ReadFrom(v)[1].pongs =
                              IF opcode = PongFrame THEN Append(ReadFrom(wire)[1].pongs, length)
                              ELSE ReadFrom(wire)[1].pongs
                         /\ ReadFrom(v)[1].at = Len(v) + 1
    <3>1. /\ wire \in Seq(Piece) /\ v = wire \o Header(opcode, length, 0)
          /\ ReadFrom(wire)[1].stopped = "incomplete" /\ ReadFrom(wire)[1].at = Len(wire) + 1
          /\ opcode \in Opcode /\ length \in Nat /\ length <= NoLimit
      BY <1>3, <1>4, <2>2, <2>3, Zenon
    <3>2. HeaderReads(wire, v, opcode, length)
      BY <3>1, HeaderWritten
    <3>. QED BY <3>2, Zenon DEF HeaderReads
  <2>5. ~(length > 0) => length = 0
    BY <1>4
  <2>6. /\ Pongs = ReadFrom(wire)[1].pongs /\ Pongs' = ReadFrom(v)[1].pongs
        /\ Start' = ReadFrom(v)[1].at /\ Unread' = SubSeq(v, ReadFrom(v)[1].at, Len(v))
        /\ ReadFrom(wire)' = ReadFrom(v)
    BY <2>3 DEF Pongs, Start, Unread
  <2>. QED BY <2>1, <2>3, <2>4, <2>5, <2>6, Zenon
<1>8. CASE length > 0
  <2>1. PICK j : j = [job[p] EXCEPT !.next = "payload"]
    OBVIOUS
  <2>2. j \in Job /\ j.next = "payload" /\ j.opcode = opcode /\ j.length = length
    BY <1>1, <1>3, <2>1, Jobs
  <2>3. job' = [job EXCEPT ![p] = j] /\ writeMu' = p
    BY <1>2, <1>3, <1>6, <1>8, <2>1
  <2>4. job' \in [Pump -> Job] /\ job'[p] = j /\ \A q \in Pump \ {p} : job'[q] = job[q]
    BY <1>3, <2>2, <2>3, NewJob
  <2>5. FrameTypes'
    BY <1>2, <1>3, <1>5, <2>3, <2>4 DEF FrameTypes
  <2>6. Writers'
    <3>1. \A q \in Pump : job'[q].next \in {"header", "payload"} <=> writeMu' = q
      BY <1>6, <2>2, <2>3, <2>4
    <3>2. \A q \in Pump : (Busy(q)' <=> Busy(q)) /\ job'[q].opcode = job[q].opcode
      BY <1>1, <1>2, <2>2, <2>4 DEF Busy
    <3>3. \A q \in Pump : job'[q].next = "payload" => job'[q].length > 0
      BY <1>6, <1>8, <2>2, <2>4
    <3>4. "read" \in Pump /\ "write" \in Pump
      BY DEF Pump
    <3>. QED BY <1>3, <3>1, <3>2, <3>3, <3>4 DEF Writers
  <2>7. ASSUME ~failed'
        PROVE  Whole' /\ Answered'
    <3>1. /\ Answered /\ ReadFrom(wire)'[1].stopped = "incomplete"
          /\ Pongs' = Pongs /\ Says(Unread', opcode, length, 0)
      BY <1>2, <1>7, <1>8, <2>7
    <3>2. Whole'
      <4>1. \A q \in Pump : job'[q].next = "payload" => q = p
        BY <1>6, <2>4
      <4>. QED BY <2>2, <2>4, <3>1, <4>1 DEF Whole
    <3>3. /\ "read" \in Pump /\ (Busy("read")' <=> Busy("read"))
          /\ job'["read"].length = job["read"].length
          /\ job'["read"].next \in {"idle", "ended"} => job'["read"].next = job["read"].next
      BY <1>1, <1>2, <2>2, <2>4 DEF Busy, Pump
    <3>. QED BY <1>2, <3>1, <3>2, <3>3 DEF Answered
  <2>. QED BY <2>5, <2>6, <2>7 DEF FrameIInv
<1>9. CASE ~(length > 0) /\ ~failed
  BY <1>1, <1>2, <1>5, <1>7, <1>9, FrameEnds
<1>10. CASE ~(length > 0) /\ failed
  <2>1. PICK j \in {Idle, Ended} : job' = [job EXCEPT ![p] = j]
    BY <1>2, <1>10 DEF Unlock
  <2>2. writeMu' = Nobody /\ job[p].next \in {"header", "payload"} /\ failed' \in BOOLEAN
    BY <1>2, <1>3, <1>10 DEF Unlock
  <2>3. FrameTypes' /\ Writers'
    BY <1>2, <1>3, <1>5, <2>1, <2>2, Released
  <2>. QED BY <1>2, <1>10, <2>3 DEF FrameIInv
<1>. QED BY <1>8, <1>9, <1>10

LEMMA WritePayloadStep ==
  ASSUME FrameIInv, NEW p \in Pump, WritePayload(p)
  PROVE  FrameIInv'
<1>1. PICK opcode, length : opcode = job[p].opcode /\ length = job[p].length
  OBVIOUS
<1>2. /\ job[p].next = "payload" /\ wire' = wire \o Bulk(Data, length)
      /\ pings' = pings /\ failed' = failed /\ Unlock(p)
  BY <1>1 DEF WritePayload
<1>3. /\ wire \in Seq(Piece) /\ job \in [Pump -> Job] /\ job[p] \in Job
      /\ FrameTypes /\ Writers /\ failed \in BOOLEAN
  BY DEF FrameIInv, FrameTypes
<1>4. opcode \in Opcode /\ length \in Nat /\ length <= NoLimit /\ length > 0
  <2>1. length \in 0..NoLimit /\ Busy(p)
    BY <1>1, <1>2, <1>3 DEF Job, Busy
  <2>. QED BY <1>1, <1>2, <1>3, <2>1, Limit DEF Writers
<1>5. wire' \in Seq(Piece)
  <2>1. Bulk(Data, length) \in Seq(Piece)
    <3>1. [value |-> Data, count |-> length] \in Piece
      BY <1>4 DEF Piece, Data
    <3>2. Bulk(Data, length) = << [value |-> Data, count |-> length] >>
      BY <1>4 DEF Bulk
    <3>. QED BY <3>1, <3>2
  <2>. QED BY <1>2, <1>3, <2>1, ConcatProperties
<1>6. CASE ~failed
  <2>1. Whole
    BY <1>6 DEF FrameIInv
  <2>2. Says(SubSeq(wire, ReadFrom(wire)[1].at, Len(wire)), opcode, length, 0)
    BY <1>1, <1>2, <2>1 DEF Whole, Unread, Start
  <2>3. PICK v : v = wire' /\ v = wire \o Bulk(Data, length)
    BY <1>2
  <2>4. /\ ReadFrom(v)[1].stopped = "incomplete"
        /\ ReadFrom(v)[1].pongs =
             IF opcode = PongFrame THEN Append(ReadFrom(wire)[1].pongs, length)
             ELSE ReadFrom(wire)[1].pongs
        /\ ReadFrom(v)[1].at = Len(v) + 1
    <3>1. /\ wire \in Seq(Piece) /\ v = wire \o Bulk(Data, length)
          /\ opcode \in Opcode /\ length \in Nat /\ 0 < length /\ length <= NoLimit
      BY <1>3, <1>4, <2>3
    <3>2. PayloadReads(wire, v, opcode, length)
      BY <2>2, <3>1, PayloadWritten
    <3>. QED BY <3>2, Zenon DEF PayloadReads
  <2>5. /\ Pongs = ReadFrom(wire)[1].pongs /\ Pongs' = ReadFrom(v)[1].pongs
        /\ Start' = ReadFrom(v)[1].at /\ ReadFrom(wire)' = ReadFrom(v)
    BY <2>3 DEF Pongs, Start
  <2>6. /\ ReadFrom(wire)'[1].stopped = "incomplete" /\ Start' = Len(wire') + 1
        /\ Pongs' = IF job[p].opcode = PongFrame THEN Append(Pongs, job[p].length) ELSE Pongs
    BY <1>1, <2>3, <2>4, <2>5, Zenon
  <2>. QED BY <1>2, <1>5, <1>6, <2>6, FrameEnds
<1>7. CASE failed
  <2>1. PICK j \in {Idle, Ended} : job' = [job EXCEPT ![p] = j]
    BY <1>2 DEF Unlock
  <2>2. writeMu' = Nobody /\ job[p].next \in {"header", "payload"} /\ failed' \in BOOLEAN
    BY <1>2, <1>3 DEF Unlock
  <2>3. FrameTypes' /\ Writers'
    BY <1>2, <1>3, <1>5, <2>1, <2>2, Released
  <2>. QED BY <1>2, <1>7, <2>3 DEF FrameIInv
<1>. QED BY <1>6, <1>7

(* A write that fails: from then on the peer may have anything.            *)
LEMMA WriteFailsStep ==
  ASSUME FrameIInv, NEW p \in Pump, WriteFails(p)
  PROVE  FrameIInv'
<1>1. /\ wire \in Seq(Piece) /\ job \in [Pump -> Job] /\ job[p] \in Job /\ FrameTypes /\ Writers
  BY DEF FrameIInv, FrameTypes
<1>2. /\ job[p].next \in {"header", "payload"} /\ writeMu' = Nobody /\ failed' = TRUE
      /\ pings' = pings /\ job' = [job EXCEPT ![p] = Ended]
      /\ wire' \in {wire, wire \o Bytes(<<128 + job[p].opcode>>), wire \o Bulk(Data, job[p].length \div 2)}
  BY DEF WriteFails
<1>3. job[p].opcode \in Nat /\ job[p].length \in Nat
  <2>1. job[p].opcode \in {0} \union Opcode /\ job[p].length \in 0..NoLimit
    BY <1>1 DEF Job
  <2>2. job[p].opcode \in Nat
    BY <2>1 DEF Opcode, TextFrame, CloseFrame, PingFrame, PongFrame
  <2>. QED BY <2>1, <2>2, Limit
<1>4. Bytes(<<128 + job[p].opcode>>) \in Seq(Piece)
  <2>1. <<128 + job[p].opcode>> \in Seq(Nat)
    BY <1>3
  <2>. QED BY <2>1, BytesAre
<1>5. Bulk(Data, job[p].length \div 2) \in Seq(Piece)
  <2>1. job[p].length \div 2 \in Nat
    BY <1>3
  <2>2. [value |-> Data, count |-> job[p].length \div 2] \in Piece
    BY <2>1 DEF Piece, Data
  <2>. QED BY <2>2 DEF Bulk
<1>6. wire' \in Seq(Piece)
  <2>1. \A x \in Seq(Piece) : wire \o x \in Seq(Piece)
    BY <1>1, ConcatProperties
  <2>. QED BY <1>1, <1>2, <1>4, <1>5, <2>1, Zenon
<1>7. FrameTypes' /\ Writers'
  BY <1>1, <1>2, <1>6, Released
<1>. QED BY <1>2, <1>7 DEF FrameIInv

(* Nothing of the invariant changes when the hub closes.                   *)
LEMMA CloseStep ==
  ASSUME FrameIInv, CloseSend \/ CloseConn \/ UNCHANGED frameVars
  PROVE  FrameIInv'
<1>1. wire' = wire /\ pings' = pings /\ job' = job /\ writeMu' = writeMu /\ failed' = failed
  BY DEF CloseSend, CloseConn, frameVars
<1>2. FrameTypes' /\ Writers'
  BY <1>1 DEF FrameIInv, FrameTypes, Writers, Busy
<1>3. ASSUME ~failed'
      PROVE  Whole' /\ Answered'
  <2>1. Start' = Start /\ Unread' = Unread /\ Pongs' = Pongs /\ ReadFrom(wire)' = ReadFrom(wire)
    BY <1>1 DEF Start, Unread, Pongs
  <2>. QED BY <1>1, <1>3, <2>1 DEF FrameIInv, Whole, Answered, Busy
<1>. QED BY <1>2, <1>3 DEF FrameIInv

(* Every step of the pumps, the peer and the hub                           *)
LEMMA FrameStep == FrameIInv /\ [FrameNext]_frameVars => FrameIInv'
<1>. SUFFICES ASSUME FrameIInv, [FrameNext]_frameVars
              PROVE  FrameIInv'
  OBVIOUS
<1>1. CASE PumpPing \/ PumpClosed \/ \E length \in Length : PumpMessage(length)
  BY <1>1, ChooseStep
<1>2. CASE \E length \in Length, opcode \in {TextFrame, PingFrame, CloseFrame} : Receive(opcode, length)
  BY <1>2, ReceiveStep
<1>3. CASE ReceiveNothing
  BY <1>3, ReceiveNothingStep
<1>4. CASE CloseSend \/ CloseConn \/ UNCHANGED frameVars
  BY <1>4, CloseStep
<1>5. CASE \E p \in Pump : Lock(p)
  BY <1>5, LockStep
<1>6. CASE \E p \in Pump : WriteHeader(p)
  BY <1>6, WriteHeaderStep
<1>7. CASE \E p \in Pump : WritePayload(p)
  BY <1>7, WritePayloadStep
<1>8. CASE \E p \in Pump : WriteFails(p)
  BY <1>8, WriteFailsStep
<1>. QED BY <1>1, <1>2, <1>3, <1>4, <1>5, <1>6, <1>7, <1>8 DEF FrameNext

(* While no write has failed, the peer's reading is what FramesWhole says. *)
LEMMA FramesFrom == FrameIInv => FramesWhole
<1>. SUFFICES ASSUME FrameIInv, ~failed
              PROVE  FramesWhole
  BY DEF FramesWhole
<1>1. PICK read : read = ReadFrom(wire)[1]
  OBVIOUS
<1>2. /\ Whole /\ Answered /\ Writers /\ pings \in Seq(Nat) /\ job \in [Pump -> Job] /\ "read" \in Pump
      /\ Pongs = read.pongs /\ Start = read.at
  BY <1>1 DEF FrameIInv, FrameTypes, Pump, Pongs, Start
<1>3. read.pongs \in Seq(Int)
  <2>1. wire \in Seq(Piece) /\ 1 \in 1..Len(wire) + 1
    BY DEF FrameIInv, FrameTypes
  <2>. QED BY <1>1, <2>1, ReadingTypes DEF Reading
<1>4. read.stopped = "incomplete"
  BY <1>1, <1>2 DEF Whole
<1>5. writeMu = Nobody => read.at = Len(wire) + 1
  <2>1. writeMu = Nobody => \A p \in Pump : job[p].next # "payload"
    BY <1>2 DEF Writers, Pump, Nobody
  <2>. QED BY <1>2, <2>1 DEF Whole
<1>6. /\ \/ pings = read.pongs
         \/ \E length \in Nat : pings = Append(read.pongs, length)
              /\ (length > maxWSMessageSize \/ job["read"].next \notin {"idle", "ended"})
  <2>1. job["read"].next \in {"idle", "ended"} \/ Busy("read")
    BY <1>2 DEF Job, Busy
  <2>2. job["read"] \in Job
    BY <1>2
  <2>3. job["read"].length \in Nat
    BY <2>2, Limit DEF Job
  <2>. QED BY <1>2, <2>1, <2>3 DEF Answered, Busy
<1>7. \A i \in DOMAIN read.pongs : i <= Len(pings) /\ read.pongs[i] = pings[i]
  <2>1. PICK s : s = read.pongs
    OBVIOUS
  <2>2. s \in Seq(Int) /\ (pings = s \/ \E length \in Nat : pings = Append(s, length))
    BY <1>3, <1>6, <2>1
  <2>3. \A i \in DOMAIN s : i <= Len(pings) /\ s[i] = pings[i]
    BY <2>2
  <2>. QED BY <2>1, <2>3, Zenon
<1>8. \A i \in DOMAIN pings : pings[i] > maxWSMessageSize \/ i <= Len(read.pongs)
                                \/ (i = Len(pings) /\ job["read"].next \notin {"idle", "ended"})
  BY <1>2, <1>3, <1>6
<1>. QED BY <1>1, <1>4, <1>5, <1>7, <1>8, Zenon DEF FramesWhole

(* For payloads of any lengths and any limit: until a write fails, what    *)
(* the peer has received reads as the frames of writeFrame, each of them   *)
(* whole but for the one being written, and its pings come back in order.  *)
THEOREM Framing == FrameSpec => []FramesWhole
<1>1. FrameInit => FrameIInv
  BY FrameStart
<1>2. FrameIInv /\ [FrameNext]_frameVars => FrameIInv'
  BY FrameStep
<1>3. FrameIInv => FramesWhole
  BY FramesFrom
<1>. QED BY <1>1, <1>2, <1>3, PTL DEF FrameSpec

===============================================================================
