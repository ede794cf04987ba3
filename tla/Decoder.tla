------------------------------ MODULE Decoder -------------------------------
(***************************************************************************)
(* Frames on a byte stream: the encoders, a TCP connection that delivers   *)
(* their bytes in pieces of any size, and the two decoders that put the    *)
(* frames together again in a buffer of fixed size: FrameDecoder, read by  *)
(* a gateway session, and FeedDecoder, read by the visualizer's MdClient.  *)
(*                                                                         *)
(* Sizes, type codes and the length prefix are the code's.  The payload is *)
(* not: each of its bytes is the number of the message in Catalogue, which *)
(* stands for the values of the fields.  What the session does with a      *)
(* message is in module Gateway; here it may stop reading after one.       *)
(***************************************************************************)
EXTENDS Integers, Sequences, FiniteSetsExt, SequencesExt

CONSTANTS
    Catalogue,    \* the messages, a sequence; length is what their frames say
    Streams,      \* what a peer sends: a set of sequences of messages for each reader
    Readers,      \* a subset of {"session", "feed"}
    Instruments,  \* InstrumentSet of the gateway
    MinPrice,
    MaxPrice,
    MaxConnects   \* bound on the connections of a client

ASSUME DecoderAssumption ==
    /\ Readers \subseteq {"session", "feed"}
    /\ MaxConnects \in Nat
    /\ Len(Catalogue) \in 1 .. 100

VARIABLES
    reader,
    stream,    \* the messages of this connection
    wire,      \* their bytes that have not been read yet
    buf,       \* buf_, up to len_
    terminal,  \* terminal_
    pc,        \* "read", "decode", or "suspended" (readSuspended_)
    backlog,   \* history: how often the session has stopped since the buffer was drained
    closed,    \* "no", or why the reader closed the connection
    delivered, \* history: the messages handed to the reader
    connects

vars == <<reader, stream, wire, buf, terminal, pc, backlog, closed, delivered, connects>>
-----------------------------------------------------------------------------
(* The protocol. *)

kFrameHeaderSize == 4
kMsgTypeSize == 1
kMaxFrame == 64
kCapacity == 256

OrderEntry == <<"Login", "NewOrder", "Cancel", "CancelReplace", "Heartbeat", "LoginAck",
                "LoginReject", "ExecReport", "Reject">>
MarketData == <<"L2Delta", "L3Order", "L3Fill", "TradeTick", "SnapshotStart", "SnapshotEnd">>

\* The codes of the message types, from 1.
MessageType == OrderEntry \o MarketData
isKnownMessageType(raw) == raw \in DOMAIN MessageType

PayloadSize == <<48, 39, 20, 36, 8, 9, 2, 49, 17, 34, 54, 52, 53, 20, 16>>
expectedPayloadSize(raw) == PayloadSize[raw]

\* putU32() and getU32(): least significant byte first.
putU32(v) == <<v % 256, (v \div 256) % 256, (v \div 65536) % 256, (v \div 16777216) % 256>>
getU32(src) == src[1] + 256 * src[2] + 65536 * src[3] + 16777216 * src[4]

\* An encoder: the header and the fields, of a size that the type decides.  (A catalogue may
\* have messages of another length, or of an unknown type, which no encoder here writes.)
Code(m) == Max({0} \cup {c \in DOMAIN MessageType : MessageType[c] = m.type})
Encode(m) ==
    LET fields == Min({v \in DOMAIN Catalogue : Catalogue[v] = m})
    IN  putU32(m.length) \o <<Code(m)>> \o [i \in 1 .. m.length - kMsgTypeSize |-> fields]

Encoded(ms) == FlattenSeq([i \in DOMAIN ms |-> Encode(ms[i])])

Bytes == 0 .. 255

\* A length that putU32() can write.
FitsU32(v) == v \div 16777216 \in Bytes

\* Peers send messages of the catalogue, whose lengths fit into the prefix.
ASSUME StreamsAssumption ==
    /\ Catalogue \in Seq(ToSet(Catalogue))
    /\ \A m \in ToSet(Catalogue) : m.length \in Nat /\ FitsU32(m.length)
    /\ \A r \in Readers : Streams[r] \subseteq Seq(ToSet(Catalogue))

\* The getters: the fields of the message whose bytes these are.
Decode(raw, payload) ==
    LET ofType == {v \in DOMAIN Catalogue : Catalogue[v].type = MessageType[raw]}
        these == {v \in ofType : \A i \in DOMAIN payload : payload[i] = v}
    IN  IF these # {} THEN Catalogue[Min(these)] ELSE [type |-> "garbled"]
-----------------------------------------------------------------------------
(* The decoders. *)

\* The types each one takes; of the others it says that they are unknown.
Accepts == [session |-> ToSet(OrderEntry), feed |-> ToSet(MarketData)]

InRange(price) == price >= MinPrice /\ price <= MaxPrice

\* Step 6, the ranges of the fields, which only FrameDecoder looks at.
FieldsValid(m) ==
    CASE m.type = "NewOrder" ->
            /\ m.side \in 0 .. 1 /\ m.orderType \in 0 .. 1 /\ m.timeInForce \in 0 .. 2
            /\ m.instrument \in Instruments
            /\ m.quantity > 0
            /\ ~(m.orderType = 1 /\ m.timeInForce = 2)
            /\ InRange(m.price) \/ (m.orderType = 1 /\ m.price = 0)
      [] m.type = "Cancel" -> m.instrument \in Instruments
      [] m.type = "CancelReplace" ->
            m.instrument \in Instruments /\ m.quantity > 0 /\ InRange(m.price)
      [] OTHER -> TRUE

\* Steps 1 to 3: the length, checked before it is used, and the rest of the frame.
HasLength == Len(buf) >= kFrameHeaderSize
Length == getU32(buf)
LengthValid == Length >= 1 /\ Length <= kMaxFrame
Total == kFrameHeaderSize + Length
\* Wrong: one byte more.
HasFrameLate == Len(buf) > Total
HasFrame == Len(buf) >= Total

\* Steps 4 to 6.
RawType == buf[kFrameHeaderSize + 1]
Message == Decode(RawType, SubSeq(buf, kFrameHeaderSize + kMsgTypeSize + 1, Total))
FrameValid ==
    /\ isKnownMessageType(RawType)
    /\ Length = kMsgTypeSize + expectedPayloadSize(RawType)
    /\ MessageType[RawType] \in Accepts[reader]
    /\ reader = "session" => FieldsValid(Message)

\* Wrong: the length prefix is not counted.
ConsumedPayload(n) == SubSeq(buf, n - kFrameHeaderSize + 1, Len(buf))

\* consume(): what is behind the frame moves to the front.
Consumed(n) == SubSeq(buf, n + 1, Len(buf))

\* feed() refuses what does not fit.
RoomFor(n) == Len(buf) + n <= kCapacity
-----------------------------------------------------------------------------
(* The readers. *)

\* Wrong: one byte more.
ReadChunkLarger == [session |-> 129, feed |-> 4096]

\* The sizes of readBuf_.
ReadChunk == [session |-> 128, feed |-> 4096]

Init ==
    /\ reader \in Readers
    /\ stream \in Streams[reader]
    /\ wire = Encoded(stream)
    /\ buf = <<>> /\ terminal = FALSE
    /\ pc = "read" /\ backlog = 0 /\ closed = "no" /\ delivered = <<>> /\ connects = 1

Close(why) == closed' = why

\* onRead() up to feed(): n bytes have come, which the decoder takes or has no room for.
Read(n) ==
    /\ closed = "no" /\ pc = "read"
    /\ wire' = SubSeq(wire, n + 1, Len(wire))
    /\ IF ~terminal /\ RoomFor(n)
       THEN buf' = buf \o SubSeq(wire, 1, n) /\ pc' = "decode" /\ UNCHANGED closed
       ELSE Close("overflow") /\ UNCHANGED <<buf, pc>>
    /\ UNCHANGED <<reader, stream, terminal, backlog, delivered, connects>>

\* next() wants more: read on.
Incomplete ==
    /\ closed = "no" /\ pc = "decode" /\ ~terminal
    /\ HasLength => LengthValid /\ ~HasFrame
    /\ pc' = "read" /\ backlog' = 0
    /\ UNCHANGED <<reader, stream, wire, buf, terminal, closed, delivered, connects>>

\* A bad frame is the end of the connection: nothing is skipped to find the next one.
Invalid ==
    /\ closed = "no" /\ pc = "decode"
    /\ terminal \/ (HasLength /\ (LengthValid => HasFrame /\ ~FrameValid))
    /\ terminal' = TRUE /\ Close("invalid")
    /\ UNCHANGED <<reader, stream, wire, buf, pc, backlog, delivered, connects>>

\* A message.  After a command a session may find the ring full: it stops with what is left in
\* the buffer, and reads no more until it is resumed.
Suspends ==
    reader = "session" /\ Message.type \in {"NewOrder", "Cancel", "CancelReplace"}

Ok ==
    /\ closed = "no" /\ pc = "decode" /\ ~terminal
    /\ HasLength /\ LengthValid /\ HasFrame /\ FrameValid
    /\ delivered' = Append(delivered, Message)
    /\ buf' = Consumed(Total)
    /\ \/ pc' = "decode" /\ UNCHANGED backlog
       \/ Suspends /\ pc' = "suspended" /\ backlog' = backlog + 1
    /\ UNCHANGED <<reader, stream, wire, terminal, closed, connects>>

\* resumeReading() starts with a read, not with what is left.
Resume ==
    /\ closed = "no" /\ pc = "suspended"
    /\ pc' = "read"
    /\ UNCHANGED <<reader, stream, wire, buf, terminal, backlog, closed, delivered, connects>>

\* The connection is lost while the reader waits for it.
Lost ==
    /\ closed = "no" /\ pc = "read"
    /\ Close("lost")
    /\ UNCHANGED <<reader, stream, wire, buf, terminal, pc, backlog, delivered, connects>>

\* MdClient connects again, with a new decoder; the server starts over.
Connect ==
    /\ closed # "no" /\ reader = "feed" /\ connects < MaxConnects
    /\ connects' = connects + 1
    /\ stream' \in Streams[reader] /\ wire' = Encoded(stream')
    /\ buf' = <<>> /\ terminal' = FALSE
    /\ pc' = "read" /\ closed' = "no" /\ delivered' = <<>>
    /\ UNCHANGED <<reader, backlog>>

Decoding == Incomplete \/ Invalid \/ Ok
Reading == \E n \in 1 .. Min({ReadChunk[reader], Len(wire)}) : Read(n)

Next == Reading \/ Decoding \/ Resume \/ Lost \/ Connect

\* Weak fairness of the reader: its thread runs, the peer's bytes arrive and a full ring drains.
\* One of Reading, Decoding and Resume can be taken as long as it is Busy, and a step of an open
\* connection that does not lose it is one of them; with the two written out TLC need not look
\* for the number of bytes read.
Busy == closed = "no" /\ (pc = "read" => wire # <<>>)
ReaderStep == closed = "no" /\ closed' # "lost"
Fairness == []<>~Busy \/ []<><<ReaderStep>>_vars

Spec == Init /\ [][Next]_vars /\ Fairness
-----------------------------------------------------------------------------
(* Properties. *)

\* What a reader should be given of a stream: the messages before the first one that it has no
\* use for.
WellFormed(m) ==
    /\ m.type \in Accepts[reader]
    /\ m.length = kMsgTypeSize + expectedPayloadSize(Code(m))
    /\ reader = "session" => FieldsValid(m)
Due == {k \in 0 .. Len(stream) : \A i \in 1 .. k : WellFormed(stream[i])}
Messages == SubSeq(stream, 1, Max(Due))

\* However the bytes are cut into pieces, wherever a session stops and whatever a lost connection
\* left behind, the reader is handed the messages of this connection, each once and in order; and
\* it closes the connection for a bad frame only when there is one, after all those before it.
StreamIntact ==
    /\ IsPrefix(delivered, Messages)
    /\ closed = "invalid" => delivered = Messages /\ Messages # stream

\* The decoder always has room for what is read: "in valid protocol use this cannot happen"
\* (decoder.hpp).  It does not hold; OverflowExplained says when it does.
NeverOverflows == closed # "overflow"

\* A session, which reads small pieces (session.hpp, kReadChunk), runs out of room only if a full
\* ring stopped it twice before it had drained its buffer: whatever the stream, the buffer takes
\* what one stop left behind and a whole read.  A feed client, which reads large ones, runs out of
\* room only on a stream that is longer than the buffer.
OverflowExplained ==
    closed = "overflow" =>
        IF reader = "session" THEN backlog >= 2 ELSE Len(Encoded(stream)) > kCapacity

\* Every message that arrives on a connection that stays open is handed over, but for what a
\* session stopped by a full ring left in its buffer when no more bytes came.
EverythingDelivered ==
    closed = "no" ~> \/ closed # "no" \/ delivered = Messages
                     \/ backlog > 0 /\ pc = "read" /\ wire = <<>>
=============================================================================
