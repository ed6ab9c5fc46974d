----------------------------- MODULE Connection -----------------------------
(***************************************************************************)
(* One accepted connection: handle_tcp_connection and                      *)
(* handle_tls_connection of border-dns-runtime/server.rs, which read a     *)
(* stream of framed queries in pieces of any size and answer them one      *)
(* after the other, and handle_connection of blackhole.rs, which drains a  *)
(* request and says 202.  Every read has a timer, so has every write of a  *)
(* DNS answer; the TLS handshake and the write of the 202 have none.       *)
(***************************************************************************)
EXTENDS TcpFrame, SequencesExt

CONSTANTS
    ReadSize,       \* the size of the read buffer
    MaxStream,      \* bound: the bytes that a client sends
    Exchanges,      \* pairs: the length of a query, and what handle_dns_query may return for it
    MaxHeader       \* max_header_bytes of the blackhole

ASSUME ConnectionAssumption ==
    /\ ReadSize \in Nat \ {0} /\ MaxStream \in Nat /\ MaxHeader \in Nat
    /\ Exchanges \subseteq Nat \X Seq(Byte)

VARIABLES
    pc,           \* where its task is
    decoder,      \* the local of the two DNS handlers
    total_read,   \* the local of the blackhole
    complete,     \* history: one of its reads held the end of the headers
    received,     \* history: the bytes read
    asked,        \* history: the messages handed to handle_dns_query
    answers,      \* history: what it returned
    output,       \* the bytes that the peer's socket took
    broken        \* a write has failed, and so will the later ones

blackhole == <<total_read, complete>>
history == <<received, asked, answers>>
vars == <<pc, decoder, blackhole, history, output, broken>>

Responses == {e[2] : e \in Exchanges}

Steps == {"handshake", "read", "decode", "handle", "write", "drain", "reply", "closed"}

TypeOK ==
    /\ pc \in Steps
    /\ decoder \in TcpFrameDecoder
    /\ decoder.read_pos <= Len(decoder.buf)
    /\ total_read \in 0 .. MaxHeader + ReadSize
    /\ complete \in BOOLEAN
    /\ received \in Seq(Byte)
    /\ asked \in Seq(Seq(Byte))
    /\ answers \in Seq(Responses)
    /\ output \in Seq(Byte)
    /\ broken \in BOOLEAN

\* A TCP, a TLS or a blackhole connection.
Init ==
    /\ pc \in {"read", "handshake", "drain"}
    /\ decoder = new
    /\ total_read = 0 /\ complete = FALSE
    /\ received = <<>> /\ asked = <<>> /\ answers = <<>>
    /\ output = <<>>
    /\ broken = FALSE

\* A task that returns drops its stream.
Close(from) ==
    /\ pc = from
    /\ pc' = "closed"
    /\ UNCHANGED <<decoder, blackhole, history, broken>>

Pieces == UNION {[1 .. n -> Byte] : n \in 1 .. ReadSize}
-----------------------------------------------------------------------------
\* The handshake succeeds, or fails; a client may also leave it unfinished.
AcceptTls ==
    /\ pc = "handshake"
    /\ pc' = "read"
    /\ UNCHANGED <<decoder, blackhole, history, output, broken>>

HandshakeFails ==
    /\ Close("handshake")
    /\ UNCHANGED output

\* A read returns one byte or more and feeds the decoder.
Read ==
    /\ pc = "read"
    /\ \E data \in Pieces :
          /\ Len(received) + Len(data) <= MaxStream
          /\ received' = received \o data
          /\ decoder' = feed(decoder, data)
    /\ pc' = "decode"
    /\ UNCHANGED <<blackhole, asked, answers, output, broken>>

\* End of file, an error, or the timer.
ReadEnds ==
    /\ Close("read")
    /\ UNCHANGED output

\* Slip: a frame that is not there yet does not break the loop.
Decode_spins ==
    /\ pc = "decode"
    /\ HasFrame(decoder)
    /\ asked' = Append(asked, FrameBytes(decoder))
    /\ decoder' = Advance(decoder)
    /\ pc' = "handle"
    /\ UNCHANGED <<blackhole, received, answers, output, broken>>

Decode ==
    /\ pc = "decode"
    /\ IF HasFrame(decoder)
       THEN /\ asked' = Append(asked, FrameBytes(decoder))
            /\ decoder' = Advance(decoder)
            /\ pc' = "handle"
       ELSE pc' = "read" /\ UNCHANGED <<asked, decoder>>
    /\ UNCHANGED <<blackhole, received, answers, output, broken>>

\* handle_dns_query returns, if it does: an exchange with an upstream over TCP
\* or TLS that has connected is under no timer (see Resolver).
Handle ==
    /\ pc = "handle"
    /\ \E e \in Exchanges : e[1] = Len(Last(asked)) /\ answers' = Append(answers, e[2])
    /\ pc' = "write"
    /\ UNCHANGED <<decoder, blackhole, received, asked, output, broken>>

Frame == encode_tcp_frame(Last(answers))

\* The peer takes the first n bytes of the frame.
Take(n) == output' = output \o SubSeq(Frame, 1, n)

WriteAll ==
    /\ pc = "write" /\ ~broken
    /\ Take(Len(Frame))
    /\ pc' = "decode"
    /\ UNCHANGED <<decoder, blackhole, history, broken>>

\* Slip: the timer does not end the connection either.
WriteTimeout_continues ==
    /\ pc = "write" /\ ~broken
    /\ \E n \in 0 .. Len(Frame) - 1 : Take(n)
    /\ pc' = "decode"
    /\ UNCHANGED <<decoder, blackhole, history, broken>>

\* Err of the timer: part of the frame may be out, and the task returns.
WriteTimeout ==
    /\ Close("write") /\ ~broken
    /\ \E n \in 0 .. Len(Frame) - 1 : Take(n)

\* Ok(Err(_)) of write_all is not the Err that the code looks for: the task
\* goes on with the next frame.
WriteFails ==
    /\ pc = "write"
    /\ \E n \in 0 .. Len(Frame) - 1 : (broken => n = 0) /\ Take(n)
    /\ broken' = TRUE
    /\ pc' = "decode"
    /\ UNCHANGED <<decoder, blackhole, history>>
-----------------------------------------------------------------------------
\* The end of the headers is a double CRLF, of four bytes, and the blackhole
\* looks for it in windows of two.
DoubleCrlf == 4
Window == 2

\* One read, which may hold the end of the headers ...
Drain ==
    /\ pc = "drain"
    /\ \E n \in 1 .. ReadSize, ends \in BOOLEAN :
          /\ ends => n >= DoubleCrlf
          /\ total_read' = total_read + n
          /\ complete' = (complete \/ ends)
          /\ pc' = IF total_read' > MaxHeader \/ (ends /\ Window = DoubleCrlf)
                   THEN "reply" ELSE "drain"
    /\ UNCHANGED <<decoder, history, output, broken>>

\* ... and the end of file, an error or the timer.
DrainEnds ==
    /\ pc = "drain"
    /\ pc' = "reply"
    /\ UNCHANGED <<decoder, blackhole, history, output, broken>>

Reply202 ==
    /\ Close("reply")
    /\ UNCHANGED output

Next ==
    \/ AcceptTls \/ HandshakeFails
    \/ Read \/ ReadEnds \/ Decode \/ Handle
    \/ WriteAll \/ WriteTimeout \/ WriteFails
    \/ Drain \/ DrainEnds \/ Reply202

\* The timers fire and the CPU is shared.  Nothing is said of the client: it may
\* send nothing, and never finish its handshake.  Nor is anything said of the
\* handler, which may wait for an upstream that never answers.
Fairness ==
    /\ WF_vars(ReadEnds)
    /\ WF_vars(Decode)
    /\ WF_vars(WriteAll \/ WriteTimeout \/ WriteFails)
    /\ WF_vars(DrainEnds)
    /\ WF_vars(Reply202)

Spec == Init /\ [][Next]_vars /\ Fairness
-----------------------------------------------------------------------------
\* The longest prefix of what was read that consists of whole frames, as the
\* decoder of a whole buffer finds it.
WholeFrames ==
    LET Ends == {n \in 0 .. Len(received) :
                    LET all == decode_tcp_frames(SubSeq(received, 1, n))
                    IN  all.ok /\ all.consumed = n}
    IN  SubSeq(received, 1, Max(Ends))

\* However the stream was cut into reads, the streaming decoder of
\* tcp_frame.rs hands over the messages that decode_tcp_frames finds in the
\* whole of it, in their order, and keeps exactly the bytes after them.
StreamingMatchesBulk ==
    LET whole == decode_tcp_frames(WholeFrames)
    IN  /\ IsPrefix(asked, whole.messages)
        /\ pc = "read" => /\ asked = whole.messages
                          /\ buffered(decoder) = Len(received) - whole.consumed

AnswerFrames(n) == FlattenSeq([i \in 1 .. n |-> encode_tcp_frame(answers[i])])

\* What a connection wrote is the frames of the answers to its queries as
\* encode_tcp_frame makes them, in the order in which they were asked, and never
\* part of one followed by another: pipelined queries on one connection are
\* answered one by one, and a write that was cut short is the last.
AnswersInOrder ==
    /\ Len(answers) \in {Len(asked), Len(asked) - 1}
    /\ IsPrefix(output, AnswerFrames(Len(answers)))
    /\ pc = "read" /\ ~broken => output = AnswerFrames(Len(asked))

\* The client can make the server hold at most two frames and a read: what is
\* unconsumed is shorter than a frame, and what is consumed is shorter still.
BufferBounded == Len(decoder.buf) <= 2 * DEFAULT_MAX_TCP_FRAME + ReadSize

\* A connection whose client has gone quiet ends, once its handshake is over,
\* unless handle_dns_query never returns: every other wait of the two handlers of
\* server.rs and of the blackhole is under a timer.  (MaxStream makes every client
\* go quiet.)
QuietConnectionEnds == [](pc # "handshake" => <>(pc = "closed" \/ [](pc = "handle")))


-----------------------------------------------------------------------------
(* What comments of the source say and the code does not keep *)

\* The blackhole goes on to its 202 once a read held the end of the headers, as
\* the comment at its check says.  (The windows have two bytes, so the client
\* waits until the timer of the next read.)
HeadersEndTheDrain == complete => pc # "drain"
=============================================================================
