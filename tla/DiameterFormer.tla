---------------------------- MODULE DiameterFormer ----------------------------
(***************************************************************************)
(* The client's receive thread cuts the byte stream of its connection into *)
(* Diameter messages.  recv returns what has arrived, which may be part of *)
(* a message or several of them; CDiameterFormer keeps what is left over   *)
(* in a buffer and hands out whole messages, from the buffer or, when that *)
(* is empty, straight from the received data.                              *)
(*                                                                         *)
(* A byte is its position in the stream, so that a message is whole when   *)
(* its positions follow each other from the start of a message.  The       *)
(* former outlives the connection: after a break the stream goes on with   *)
(* the first message of the next connection.                               *)
(***************************************************************************)
EXTENDS Integers, Sequences

CONSTANTS
  LENGTH_CHUNK_SIZE,    (* bytes that tell a message's length (4)           *)
  BufferSize,           (* m_DataSize (64 KB)                               *)
  ReceiveSize,          (* m_rcvBufferSize: the most that recv returns      *)
  StreamEnd,            (* bound: bytes of the stream                       *)
  Starts,               (* where messages start, and the end of the stream  *)
  WordAt,               (* position -> the length read from there           *)
  Garbage,              (* the length read where two streams meet           *)
  Unknown,              (* INVALID_MSG_LENGTH                               *)
  CleanBreak            (* connections break between messages only          *)

(* The peer's messages are well formed and fit the buffer. *)
ASSUME FormerAssumption ==
  /\ LENGTH_CHUNK_SIZE \in Nat \ {0}
  /\ BufferSize \in Nat
  /\ LENGTH_CHUNK_SIZE <= BufferSize
  /\ ReceiveSize \in Nat \ {0}
  /\ StreamEnd \in Nat
  /\ Starts \subseteq 0 .. StreamEnd
  /\ {0, StreamEnd} \subseteq Starts
  /\ WordAt \in [0 .. StreamEnd -> Nat]
  /\ \A p \in Starts \ {StreamEnd} :
       /\ WordAt[p] \in LENGTH_CHUNK_SIZE .. BufferSize
       /\ p + WordAt[p] \in Starts
       /\ \A q \in Starts : q <= p \/ p + WordAt[p] <= q
  /\ Garbage \in Nat
  /\ Unknown \notin Nat
  /\ CleanBreak \in BOOLEAN

VARIABLES
  data,                 (* m_Data up to m_pPointer                          *)
  newDataBegin,         (* m_pNewDataBegin, as a position in the stream     *)
  newDataEnd,           (* m_pNewDataEnd                                    *)
  msgLen,               (* m_MsgLen                                         *)
  pc,                   (* in recv or in ReceiveData                        *)
  pack,                 (* the message handed out last                      *)
  expected              (* history: the first byte not handed out           *)

formerVars == <<data, newDataBegin, newDataEnd, msgLen, pc, pack, expected>>

(* The n bytes from p on. *)
Bytes(p, n) == [i \in 1 .. n |-> p + i - 1]

FormerTypeOK ==
  /\ data \in Seq(Nat)
  /\ Len(data) <= BufferSize
  /\ newDataEnd \in 0 .. StreamEnd
  /\ newDataBegin \in 0 .. newDataEnd
  /\ msgLen \in Nat \cup {Unknown}
  /\ pc \in {"recv", "former"}
  /\ pack \in Seq(Nat)
  /\ expected \in Nat

FormerInit ==
  /\ data = <<>>
  /\ newDataBegin = 0
  /\ newDataEnd = 0
  /\ msgLen = Unknown
  /\ pc = "recv"
  /\ pack = <<>>
  /\ expected = 0

-----------------------------------------------------------------------------
(* TakeMsg: what is known before a message can be handed out.  A state of it is
   the buffer, the first byte not in it and the length of the message.       *)

Word(bytes) ==
  IF SubSeq(bytes, 1, LENGTH_CHUNK_SIZE) = Bytes(bytes[1], LENGTH_CHUNK_SIZE)
  THEN WordAt[bytes[1]]
  ELSE Garbage

Buffered(d, b, l) == [data |-> d, begin |-> b, len |-> l]

(* The length is in the buffer and the received data together. *)
Measurable ==
  msgLen # Unknown
    \/ Len(data) + newDataEnd - newDataBegin >= LENGTH_CHUNK_SIZE

Measured_Rereads ==   \* faulty: m_pNewDataBegin stays after the copy
  IF msgLen # Unknown
  THEN Buffered(data, newDataBegin, msgLen)
  ELSE IF data = <<>>
  THEN Buffered(data, newDataBegin,
                Word(Bytes(newDataBegin, LENGTH_CHUNK_SIZE)))
  ELSE LET missing == LENGTH_CHUNK_SIZE - Len(data)
           chunk == data \o Bytes(newDataBegin, missing)
       IN  Buffered(chunk, newDataBegin, Word(chunk))

(* A length split between the two is put together in the buffer. *)
Measured ==
  IF msgLen # Unknown
  THEN Buffered(data, newDataBegin, msgLen)
  ELSE IF Len(data) >= LENGTH_CHUNK_SIZE
  THEN Buffered(data, newDataBegin, Word(data))
  ELSE IF data = <<>>
  THEN Buffered(data, newDataBegin,
                Word(Bytes(newDataBegin, LENGTH_CHUNK_SIZE)))
  ELSE LET missing == LENGTH_CHUNK_SIZE - Len(data)
           chunk == data \o Bytes(newDataBegin, missing)
       IN  Buffered(chunk, newDataBegin + missing, Word(chunk))

(* All of the message has arrived, and what is buffered can be completed. *)
Complete_Strict(m) ==   \* faulty: wants a byte more
  /\ Len(m.data) + newDataEnd - m.begin > m.len
  /\ m.data = <<>> \/ m.len <= BufferSize

Complete(m) ==
  /\ Len(m.data) + newDataEnd - m.begin >= m.len
  /\ m.data = <<>> \/ m.len <= BufferSize

(* The rest goes to the buffer, all or nothing. *)
Keep(d, b) ==
  IF newDataEnd - b <= BufferSize - Len(d)
  THEN /\ data' = d \o Bytes(b, newDataEnd - b)
       /\ newDataBegin' = newDataEnd
  ELSE /\ data' = d
       /\ newDataBegin' = b

-----------------------------------------------------------------------------
(* CClientTransport::svc *)

Receive(n) ==
  /\ pc = "recv"
  /\ newDataEnd + n <= StreamEnd
  /\ newDataBegin' = newDataEnd
  /\ newDataEnd' = newDataEnd + n
  /\ pc' = "former"
  /\ UNCHANGED <<data, msgLen, pack, expected>>

(* ReceiveData returns a message: OnReceive, and the next call. *)
ReceiveMessage ==
  LET missing == Measured.len - Len(Measured.data)
  IN  /\ pc = "former"
      /\ Measurable
      /\ Complete(Measured)
      /\ pack' = Measured.data \o Bytes(Measured.begin, missing)
      /\ expected' = Measured.begin + missing
      /\ newDataBegin' = Measured.begin + missing
      /\ data' = <<>>
      /\ msgLen' = Unknown
      /\ UNCHANGED <<newDataEnd, pc>>

(* ReceiveData returns NULL. *)
ReceiveRest ==
  /\ pc = "former"
  /\ \/ /\ ~Measurable
        /\ Keep(data, newDataBegin)
        /\ UNCHANGED msgLen
     \/ /\ Measurable
        /\ ~Complete(Measured)
        /\ Keep(Measured.data, Measured.begin)
        /\ msgLen' = Measured.len
  /\ pc' = "recv"
  /\ UNCHANGED <<newDataEnd, pack, expected>>

(* The connection breaks and the next one is made. *)
Reconnect(p) ==
  /\ pc = "recv"
  /\ CleanBreak => data = <<>>
  /\ p >= newDataEnd
  /\ newDataBegin' = p
  /\ newDataEnd' = p
  /\ expected' = p
  /\ UNCHANGED <<data, msgLen, pc, pack>>

FormerNext ==
  \/ \E n \in 1 .. ReceiveSize : Receive(n)
  \/ ReceiveMessage
  \/ ReceiveRest
  \/ \E p \in Starts : Reconnect(p)

FormerSpec == FormerInit /\ [][FormerNext]_formerVars

-----------------------------------------------------------------------------
(* What ReceiveData hands out is the next message of the stream, whole, nothing
   left out or repeated, however recv cuts the stream (DiameterFormer.cpp:29). *)
HandsOutNext ==
  [][ReceiveMessage =>
       /\ expected \in Starts \ {StreamEnd}
       /\ pack' = Bytes(expected, WordAt[expected])
       /\ expected' = expected + WordAt[expected]]_formerVars

(* A thread that goes back to recv has handed out every whole message and has
   all of the rest in its buffer: no message waits for the bytes of the next. *)
NothingWithheld ==
  pc = "recv" =>
    /\ newDataBegin = newDataEnd
    /\ data = Bytes(expected, newDataEnd - expected)
    /\ \A p \in Starts : p <= newDataEnd => p <= expected
===============================================================================
