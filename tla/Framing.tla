------------------------------- MODULE Framing -------------------------------
(***************************************************************************)
(* One direction of a connection (src/src/transport/unix_mesh.rs): the id  *)
(* of the dialling node and then its messages, each framed by its length,  *)
(* written and read piece by piece over a stream that may end anywhere.    *)
(*                                                                         *)
(* The length is a little-endian two's complement number of Width digits   *)
(* to the base Base (in the code 4 digits to the base 256, an i32).  A     *)
(* message is a run of one digit: enough to tell where it was cut.         *)
(***************************************************************************)
EXTENDS Integers, Sequences, SequencesExt

CONSTANTS
    Base, Width,
    HandshakeLimit,  \* MAX_HANDSHAKE_LENGTH
    WriterLimit,     \* max_frame_length of the writing node
    ReaderLimits,    \* max_frame_length of reading nodes
    MaxLength,       \* bound on the length of a message
    MaxMessages      \* bound on the messages, the id included

VARIABLES
    left,    \* what write_all has still to write of the frame at hand
    stream,  \* what is written and not read
    open,    \* the writing end is not shut down
    sent,    \* the messages framed so far (history)
    whole,   \* how many of them are wholly written (history)
    part,    \* what the reader has of the length or payload that it reads
    length,  \* the length read, or 0 while the reader reads it
    got,     \* the messages read
    reader,  \* "reading", or how the reader ended
    accepts  \* max_frame_length of the reading node, which stays

writerVars == <<left, sent, whole, accepts>>
readerVars == <<part, length, got, reader, accepts>>
vars == <<writerVars, readerVars, stream, open>>

Digit == 0..Base-1
Power[n \in 0..Width] == IF n = 0 THEN 1 ELSE Base * Power[n - 1]  \* Base^n
IntMax == Power[Width] \div 2 - 1
IntMin == -IntMax - 1
Message == {[i \in 1..n |-> d] : n \in 1..MaxLength, d \in Digit}

\* How much may be read where got messages were read: reading the id is over
\* before the socket is handed to the loop that reads the messages.
Limit(k) == IF k = 0 THEN HandshakeLimit ELSE accepts

TypeOK ==
    /\ left \in Seq(Digit) /\ stream \in Seq(Digit) /\ part \in Seq(Digit)
    /\ open \in BOOLEAN /\ (~open => left = <<>>)
    /\ sent \in Seq(Message) /\ got \in Seq(Seq(Digit))
    /\ whole \in {Len(sent), Len(sent) - 1}
    /\ length \in 0..IntMax
    /\ Len(part) < IF length = 0 THEN Width ELSE length
    /\ reader \in {"reading", "invalid", "eof", "timeout"}
    /\ accepts \in ReaderLimits

Init ==
    /\ left = <<>> /\ stream = <<>> /\ open = TRUE
    /\ sent = <<>> /\ whole = 0
    /\ part = <<>> /\ length = 0 /\ got = <<>> /\ reader = "reading"
    /\ accepts \in ReaderLimits

-----------------------------------------------------------------------------
\* (n as i32).to_le_bytes() and i32::from_le_bytes
Digits(n) == [i \in 1..Width |-> ((n % Power[Width]) \div Power[i-1]) % Base]

Number(digits) == CHOOSE n \in IntMin..IntMax : Digits(n) = digits

AllFit(m, limit) == Len(m) <= limit  \* a slip: i32::MAX is forgotten

Fits(m, limit) == Len(m) <= limit /\ Len(m) <= IntMax

\* A message that does not fit is refused: the caller gets FrameTooLarge.
Frame(m) ==
    /\ open /\ left = <<>> /\ Len(sent) < MaxMessages
    /\ Fits(m, IF sent = <<>> THEN HandshakeLimit ELSE WriterLimit)
    /\ left' = Digits(Len(m)) \o m
    /\ sent' = Append(sent, m)
    /\ UNCHANGED <<whole, stream, open, readerVars>>

Write(n) ==
    /\ n \in 1..Len(left)
    /\ stream' = stream \o SubSeq(left, 1, n)
    /\ left' = SubSeq(left, n + 1, Len(left))
    /\ whole' = IF n = Len(left) THEN Len(sent) ELSE whole
    /\ UNCHANGED <<sent, open, readerVars>>

\* A write that fails or times out, a shutdown, the end of the process.
Close ==
    /\ open
    /\ open' = FALSE /\ left' = <<>>
    /\ UNCHANGED <<sent, whole, stream, readerVars>>

-----------------------------------------------------------------------------
\* read_exact has got all it wants: the length, or the payload.
LengthRead(n) ==
    /\ part' = <<>> /\ UNCHANGED got
    /\ IF n < 0 \/ n > Limit(Len(got))
       THEN reader' = "invalid" /\ UNCHANGED length
       ELSE length' = n /\ UNCHANGED reader

PayloadRead(payload) ==
    /\ part' = <<>> /\ length' = 0
    /\ got' = Append(got, payload)
    /\ UNCHANGED reader

Wanted == (IF length = 0 THEN Width ELSE length) - Len(part)

Read(n) ==
    /\ reader = "reading"
    /\ n \in 1..Len(stream) /\ n <= Wanted
    /\ stream' = SubSeq(stream, n + 1, Len(stream))
    /\ LET now == part \o SubSeq(stream, 1, n)
       IN  IF n < Wanted THEN part' = now /\ UNCHANGED <<length, got, reader>>
           ELSE IF length = 0 THEN LengthRead(Number(now))
           ELSE PayloadRead(now)
    /\ UNCHANGED <<writerVars, open>>

EofAtOnce ==  \* a slip: what is buffered is given up when the writer is gone
    /\ reader = "reading" /\ ~open
    /\ reader' = "eof"
    /\ UNCHANGED <<writerVars, stream, open, part, length, got>>

Eof ==
    /\ reader = "reading" /\ ~open /\ stream = <<>>
    /\ reader' = "eof"
    /\ UNCHANGED <<writerVars, stream, open, part, length, got>>

\* HANDSHAKE_TIMEOUT; later reads have none.
Timeout ==
    /\ reader = "reading" /\ got = <<>> /\ stream = <<>>
    /\ reader' = "timeout"
    /\ UNCHANGED <<writerVars, stream, open, part, length, got>>

ReaderStep == (\E n \in 1..MaxLength + Width : Read(n)) \/ Eof

Next ==
    \/ \E m \in Message : Frame(m)
    \/ \E n \in 1..MaxLength + Width : Write(n)
    \/ Close \/ Timeout \/ ReaderStep

Spec == Init /\ [][Next]_vars

\* The reader's thread goes on as long as there is something to read.
FairSpec == Spec /\ WF_vars(ReaderStep)

-----------------------------------------------------------------------------
\* However the stream is cut into pieces and wherever it ends: what is read are
\* the first of the messages sent, unchanged and in order, and nothing else.
ReadsWhatWasSent == IsPrefix(got, sent)

\* A length is found invalid only where a message is longer than the reader
\* accepts: never a length that became negative, nor a payload taken for one.
InvalidForCause ==
    reader = "invalid" =>
        /\ Len(got) < Len(sent)
        /\ Len(sent[Len(got) + 1]) > Limit(Len(got))

\* What was wholly written is read, whatever is torn after it, unless the id
\* came too late or a message is longer than the reader accepts.
WholeIsRead ==
    \A k \in 1..MaxMessages :
        whole >= k ~> Len(got) >= k \/ reader \in {"invalid", "timeout"}
=============================================================================
