-------------------------------- MODULE WSFrame --------------------------------
(***************************************************************************)
(* The frames of one WebSocket (core/server/ws.go): the write pump and the *)
(* read pump both write to the connection, each frame in two writes, under *)
(* writeMu; the hub closes the client at any moment, and a write can fail  *)
(* half-way.  What either pump wants to write is chosen here (Hub says     *)
(* which messages there are), and the peer sends pings of its own.         *)
(*                                                                         *)
(* The wire is a sequence of pieces [value, count]: one byte of a header,  *)
(* or count bytes of data, whose values stand for the data.                *)
(***************************************************************************)
EXTENDS Integers, Sequences

CONSTANTS
  Length,       \* the lengths of the payloads that are sent either way
  maxWSMessageSize,
  MaxWire       \* bound: a pump begins nothing once so many pieces are sent

NoLimit == 2147483647   \* the length that a browser reads

ASSUME WSFrameAssumption ==
  /\ Length \subseteq 0..NoLimit
  /\ maxWSMessageSize \in Nat /\ MaxWire \in Nat

Pump == {"read", "write"}

VARIABLES
  wire,        \* what the peer has received
  pings,       \* the lengths of the pings the peer has sent
  job,         \* the frame each pump is writing, and its next step
  writeMu,     \* the pump inside writeFrame, or Nobody
  closed,      \* c.closed, which closes c.send as well
  connOpen,
  failed       \* a write returned an error

frameVars == <<wire, pings, job, writeMu, closed, connOpen, failed>>

Nobody == "nobody"
Idle == [next |-> "idle", opcode |-> 0, length |-> 0]
Ended == [next |-> "ended", opcode |-> 0, length |-> 0]

TextFrame == 1
CloseFrame == 8
PingFrame == 9
PongFrame == 10

Data == -1     \* bytes of a payload
Masked == -2   \* the same under a client's key
Key == -3

-------------------------------------------------------------------------------
(* The format *)

Bytes(values) == [i \in DOMAIN values |-> [value |-> values[i], count |-> 1]]

Bulk(value, length) == IF length = 0 THEN <<>> ELSE << [value |-> value, count |-> length] >>

(* The first part of writeWSFrame, with a client's mask bit; a length has  *)
(* at most four bytes that are not zero.                                   *)
Header(opcode, length, mask) ==
  LET high == length \div 65536
      low == length % 65536
  IN  IF length <= 125 THEN Bytes(<<128 + opcode, mask + length>>)
      ELSE IF length <= 65535
        THEN Bytes(<<128 + opcode, mask + 126, low \div 256, low % 256>>)
      ELSE Bytes(<<128 + opcode, mask + 127, 0, 0, 0, 0,
                   high \div 256, high % 256, low \div 256, low % 256>>)

(* What a client sends: RFC 6455 has it mask its frames. *)
ClientFrame(opcode, length) ==
  Header(opcode, length, 128) \o Bulk(Key, 4) \o Bulk(Masked, length)

Incomplete == [status |-> "incomplete", opcode |-> 0, length |-> 0, used |-> 0]
Refused == [status |-> "refused", opcode |-> 0, length |-> 0, used |-> 0]
Garbage == [status |-> "garbage", opcode |-> 0, length |-> 0, used |-> 0]

(* The pieces of a header, where there are that many: the number in the    *)
(* two bytes that begin at a, the bytes after the second that hold the     *)
(* length, the length, and the place of the payload                        *)
Uint16(r, a) == 256 * r[a].value + r[a + 1].value

isMasked(r) == r[2].value >= 128

lenBytes(r) == CASE r[2].value % 128 = 126 -> 2 [] r[2].value % 128 = 127 -> 8 [] OTHER -> 0

payloadLen(r) ==
  CASE lenBytes(r) = 2 -> Uint16(r, 3)
    [] lenBytes(r) = 8 -> 65536 * Uint16(r, 7) + Uint16(r, 9)
    [] OTHER -> r[2].value % 128

body(r) == 3 + lenBytes(r) + (IF isMasked(r) THEN 1 ELSE 0)

Frame(r, used) ==
  [status |-> "frame", opcode |-> r[1].value % 16, length |-> payloadLen(r), used |-> used]

(* io.ReadFull waits for all of it: a frame of which a part is missing is  *)
(* incomplete.  Data where a header should be, or pieces that are not the  *)
(* key and the payload, are garbage.  A length with one of its four high   *)
(* bytes set is beyond every limit.                                        *)
readWSFrame(r, maxLen) ==
  LET Has(n) == Len(r) >= n
  IN  IF ~Has(2) THEN Incomplete
      ELSE IF r[1].value < 0 \/ r[2].value < 0 THEN Garbage
      ELSE IF ~Has(2 + lenBytes(r)) THEN Incomplete
      ELSE IF \E i \in 3..2 + lenBytes(r) : r[i].value < 0 THEN Garbage
      ELSE IF lenBytes(r) = 8 /\ \E i \in 3..6 : r[i].value # 0 THEN Refused
      ELSE IF payloadLen(r) > maxLen THEN Refused
      ELSE IF ~Has(body(r) - 1) THEN Incomplete
      ELSE IF isMasked(r) /\ r[body(r) - 1].value # Key THEN Garbage
      ELSE IF payloadLen(r) = 0 THEN Frame(r, body(r) - 1)
      ELSE IF ~Has(body(r)) THEN Incomplete
      ELSE IF /\ r[body(r)].value = (IF isMasked(r) THEN Masked ELSE Data)
              /\ r[body(r)].count = payloadLen(r)
        THEN Frame(r, body(r))
      ELSE IF ~Has(body(r) + 1) /\ r[body(r)].count < payloadLen(r) THEN Incomplete
      ELSE Garbage

-------------------------------------------------------------------------------
(* The pumps *)

FrameInit ==
  /\ wire = <<>> /\ pings = <<>>
  /\ job = [p \in Pump |-> Idle]
  /\ writeMu = Nobody /\ closed = FALSE /\ connOpen = TRUE /\ failed = FALSE

Wants(p, opcode, length) ==
  job' = [job EXCEPT ![p] = [next |-> "lock", opcode |-> opcode, length |-> length]]

(* writePump: a message of the hub, or the ticker's "landrop-ping" *)
PumpMessage(length) ==
  /\ job["write"] = Idle /\ ~closed /\ length > 0
  /\ Wants("write", TextFrame, length)
  /\ UNCHANGED <<wire, pings, writeMu, closed, connOpen, failed>>

PumpPing ==
  /\ job["write"] = Idle
  /\ Wants("write", PingFrame, 12)
  /\ UNCHANGED <<wire, pings, writeMu, closed, connOpen, failed>>

(* writePump: c.send is closed. *)
PumpClosed ==
  /\ job["write"] = Idle /\ closed
  /\ Wants("write", CloseFrame, 0)
  /\ UNCHANGED <<wire, pings, writeMu, closed, connOpen, failed>>

(* readPump reads a frame of the peer.  A ping is answered; a text goes to *)
(* the hub; a close frame, or a frame that is refused, ends the pump.      *)
Receive(opcode, length) ==
  LET frame == readWSFrame(ClientFrame(opcode, length), maxWSMessageSize)
  IN  /\ job["read"] = Idle /\ connOpen
      /\ pings' = IF opcode = PingFrame THEN Append(pings, length) ELSE pings
      /\ CASE frame.status = "frame" /\ frame.opcode = PingFrame ->
                Wants("read", PongFrame, frame.length)
           [] frame.status = "frame" /\ frame.opcode = TextFrame -> UNCHANGED job
           [] OTHER -> job' = [job EXCEPT !["read"] = Ended]
      /\ UNCHANGED <<wire, writeMu, closed, connOpen, failed>>

(* The read fails: the connection is closed, or silent for too long. *)
ReceiveNothing ==
  /\ job["read"] = Idle
  /\ job' = [job EXCEPT !["read"] = Ended]
  /\ UNCHANGED <<wire, pings, writeMu, closed, connOpen, failed>>

(* writeFrame *)
Lock_Never(p) ==
  /\ job[p].next = "lock"
  /\ job' = [job EXCEPT ![p].next = "header"]
  /\ UNCHANGED <<wire, pings, writeMu, closed, connOpen, failed>>

Lock(p) ==
  /\ job[p].next = "lock" /\ writeMu = Nobody
  /\ job' = [job EXCEPT ![p].next = "header"]
  /\ writeMu' = p
  /\ UNCHANGED <<wire, pings, closed, connOpen, failed>>

(* writeFrame returns.  The write pump ends after a close frame. *)
Unlock(p) ==
  /\ job' = [job EXCEPT ![p] = IF job[p].opcode = CloseFrame THEN Ended ELSE Idle]
  /\ writeMu' = Nobody

WriteHeader(p) ==
  /\ job[p].next = "header" /\ connOpen
  /\ wire' = wire \o Header(job[p].opcode, job[p].length, 0)
  /\ IF job[p].length > 0
       THEN job' = [job EXCEPT ![p].next = "payload"] /\ UNCHANGED writeMu
       ELSE Unlock(p)
  /\ UNCHANGED <<pings, closed, connOpen, failed>>

WritePayload(p) ==
  /\ job[p].next = "payload" /\ connOpen
  /\ wire' = wire \o Bulk(Data, job[p].length)
  /\ Unlock(p)
  /\ UNCHANGED <<pings, closed, connOpen, failed>>

(* A write returns an error: the connection is closed, or the deadline has *)
(* passed with nothing or a part of it sent (the middle stands for every   *)
(* part).  The pump ends.                                                  *)
WriteFails(p) ==
  /\ job[p].next \in {"header", "payload"}
  /\ wire' \in {wire} \union
       (IF ~connOpen THEN {}
        ELSE IF job[p].next = "header" THEN {wire \o Bytes(<<128 + job[p].opcode>>)}
        ELSE {wire \o Bulk(Data, job[p].length \div 2)})
  /\ job' = [job EXCEPT ![p] = Ended]
  /\ writeMu' = Nobody
  /\ failed' = TRUE
  /\ UNCHANGED <<pings, closed, connOpen>>

(* c.Close, by the hub: at a pump's end, a full queue or the shutdown.  It *)
(* closes c.send first, then the connection.                               *)
CloseSend ==
  /\ ~closed /\ closed' = TRUE
  /\ UNCHANGED <<wire, pings, job, writeMu, connOpen, failed>>

CloseConn ==
  /\ closed /\ connOpen /\ connOpen' = FALSE
  /\ UNCHANGED <<wire, pings, job, writeMu, closed, failed>>

FrameNext ==
  \/ /\ Len(wire) < MaxWire
     /\ \/ PumpPing \/ PumpClosed
        \/ \E length \in Length :
             PumpMessage(length) \/ \E opcode \in {TextFrame, PingFrame, CloseFrame} : Receive(opcode, length)
  \/ ReceiveNothing \/ CloseSend \/ CloseConn
  \/ \E p \in Pump : Lock(p) \/ WriteHeader(p) \/ WritePayload(p) \/ WriteFails(p)

FrameSpec == FrameInit /\ [][FrameNext]_frameVars

-------------------------------------------------------------------------------
(* What a peer that has received w makes of it from its i-th piece on: the *)
(* frame it begins with, and the lengths of the pongs among all of them,   *)
(* what stopped the peer, and where.                                       *)
FrameAt(w, i) == readWSFrame(SubSeq(w, i, Len(w)), NoLimit)

Preceded(reading, frame) ==
  [reading EXCEPT !.pongs = IF frame.opcode = PongFrame THEN <<frame.length>> \o @ ELSE @]

ReadFrom(w) ==
  LET from[i \in 1..Len(w) + 1] ==
        IF FrameAt(w, i).status # "frame"
          THEN [pongs |-> <<>>, stopped |-> FrameAt(w, i).status, at |-> i]
          ELSE Preceded(from[i + FrameAt(w, i).used], FrameAt(w, i))
  IN  from

(* Until a write has failed, the peer reads whole frames only, all that    *)
(* were written, and its pings come back in their order with what was in   *)
(* them, unless a ping was more than the server reads; a frame of which a  *)
(* part is missing is one that a pump is writing (ws.go 131-140).          *)
FramesWhole ==
  ~failed =>
    LET read == ReadFrom(wire)[1]
    IN  /\ read.stopped = "incomplete"
        /\ \A i \in DOMAIN read.pongs : i <= Len(pings) /\ read.pongs[i] = pings[i]
        /\ \A i \in DOMAIN pings :
             pings[i] > maxWSMessageSize \/ i <= Len(read.pongs)
               \/ (i = Len(pings) /\ job["read"].next \notin {"idle", "ended"})
        /\ writeMu = Nobody => read.at = Len(wire) + 1

===============================================================================
