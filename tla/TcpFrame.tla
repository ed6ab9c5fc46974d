------------------------------ MODULE TcpFrame ------------------------------
(***************************************************************************)
(* dns-protocol/tcp_frame.rs: the two-byte length prefix of DNS over TCP   *)
(* and TLS, and the streaming decoder that both listeners feed.  Bytes are *)
(* digits of base Base, 256 in the program, so that a prefix of two of     *)
(* them ranges over Base * Base lengths.                                   *)
(***************************************************************************)
EXTENDS Integers, Sequences

CONSTANT Base

ASSUME BaseAssumption == Base \in Nat /\ Base > 1

Byte == 0 .. Base - 1

DEFAULT_MAX_TCP_FRAME == Base * Base - 1


\* message.len() as u16 drops what two bytes cannot hold.
encode_tcp_frame(message) ==
    LET len == Len(message) % (Base * Base)
    IN  <<len \div Base, len % Base>> \o message

\* u16::from_be_bytes of the two bytes that follow position p.
LengthAt(data, p) == Base * data[p + 1] + data[p + 2]
-----------------------------------------------------------------------------
(* The streaming decoder. *)

\* buf with the bytes up to read_pos consumed.
TcpFrameDecoder == [buf : Seq(Byte), read_pos : Nat]

new == [buf |-> <<>>, read_pos |-> 0]

feed(d, data) == [d EXCEPT !.buf = @ \o data]

buffered(d) == Len(d.buf) - d.read_pos

\* The length that the next frame announces, once its prefix is there.
Announced(d) == LengthAt(d.buf, d.read_pos)

\* try_decode returns Some.  A length above the limit is its only error, and
\* no prefix announces more than the default limit.
HasFrame(d) == buffered(d) >= 2 /\ buffered(d) >= 2 + Announced(d)

FrameBytes(d) == SubSeq(d.buf, d.read_pos + 3, d.read_pos + 2 + Announced(d))

\* Slip: the buffer is never compacted.
Advance_keeps(d) == [d EXCEPT !.read_pos = @ + 2 + Announced(d)]

\* Slip: the bytes move to the front and read_pos stays.
Advance_noRewind(d) ==
    LET p == d.read_pos + 2 + Announced(d)
    IN  IF p >= Len(d.buf) \div 2
        THEN [d EXCEPT !.buf = SubSeq(@, p + 1, Len(@)), !.read_pos = p]
        ELSE [d EXCEPT !.read_pos = p]

\* Slip: the compaction clears the buffer, and with it the frames behind.
Advance_clears(d) ==
    LET p == d.read_pos + 2 + Announced(d)
    IN  IF p >= Len(d.buf) \div 2 THEN new ELSE [d EXCEPT !.read_pos = p]

\* The frame is consumed, and the buffer compacted when at least half of it is.
Advance(d) ==
    LET p == d.read_pos + 2 + Announced(d)
    IN  IF p >= Len(d.buf) \div 2
        THEN [d EXCEPT !.buf = SubSeq(@, p + 1, Len(@)), !.read_pos = 0]
        ELSE [d EXCEPT !.read_pos = p]
-----------------------------------------------------------------------------
(* The decoder of a whole buffer. *)

\* One frame at the front of data, or BufferUnderflow.
decode_tcp_frame(data) ==
    IF Len(data) < 2 \/ Len(data) < 2 + LengthAt(data, 0)
    THEN [ok |-> FALSE]
    ELSE [ok |-> TRUE, message |-> SubSeq(data, 3, 2 + LengthAt(data, 0)),
          consumed |-> 2 + LengthAt(data, 0)]

\* All of them.  A frame that is cut short fails the whole call; a single byte
\* that is left over does not.
decode_tcp_frames(data) ==
    LET From[o \in 0 .. Len(data)] ==
            IF Len(data) - o < 2
            THEN [ok |-> TRUE, messages |-> <<>>, consumed |-> o]
            ELSE LET frame == decode_tcp_frame(SubSeq(data, o + 1, Len(data)))
                     rest == From[o + frame.consumed]
                 IN  IF ~frame.ok \/ ~rest.ok THEN [ok |-> FALSE]
                     ELSE [rest EXCEPT !.messages = <<frame.message>> \o @]
    IN  From[0]
=============================================================================
