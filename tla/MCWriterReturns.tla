-------------------------- MODULE MCWriterReturns --------------------------
(***************************************************************************)
(* A broadcast over two connections, or a broadcast and a unicast over one *)
(* after the other has ended, or what a reader makes of a stream.  subject *)
(* says which; the machine that does not move stays as it began.           *)
(***************************************************************************)
EXTENDS PeerWriter

CONSTANTS
    p1, p2, s1, s2,
    Base, Width, HandshakeLimit, WriterLimit, ReaderLimits, MaxLength, MaxMessages

ASSUME FramingAssumption ==
    /\ Base \in Nat \ {0, 1} /\ Width \in Nat \ {0}
    /\ {HandshakeLimit, WriterLimit, MaxLength, MaxMessages} \subseteq Nat
    /\ ReaderLimits \subseteq Nat

VARIABLES subject, left, stream, open, sent, whole, part, length, got, reader, accepts

F == INSTANCE Framing

frameVars == <<left, stream, open, sent, whole, part, length, got, reader, accepts>>

Sending == subject \in {"broadcast", "senders"}

\* The writer of p2 has ended and has left the table.
OneLeft ==
    /\ cancelled = FALSE
    /\ peer = [p \in Peer |-> IF p = p1 THEN "listed" ELSE "shut"]
    /\ thread = [p \in Peer |-> IF p = p1 THEN "loop" ELSE "gone"]
    /\ queue = [p \in Peer |-> <<>>] /\ accepted = [p \in Peer |-> <<>>]
    /\ wire = [p \in Peer |-> <<>>] /\ torn = {}
    /\ pc = [s \in Sender |-> "idle"] /\ result = [s \in Sender |-> "none"]
    /\ todo = [s \in Sender |-> {}] /\ holds = [s \in Sender |-> {}]
    /\ pending = [s \in Sender |-> <<>>]
    /\ ack = [s \in Sender |-> [p \in Peer |-> "none"]]

MCInit ==
    /\ F!Init
    /\ \/ subject = "senders" /\ OneLeft
       \/ subject \in {"broadcast", "frames"} /\ Init
    /\ Sending => accepts = WriterLimit

MCNext ==
    \/ /\ Sending /\ Next
       /\ subject = "broadcast" => pc'[s1] = "idle"
       /\ UNCHANGED <<subject, frameVars>>
    \/ subject = "frames" /\ F!Next /\ UNCHANGED <<subject, vars>>

MCSpec ==
    /\ MCInit /\ [][MCNext]_<<subject, vars, frameVars>>
    /\ \A p \in Peer : /\ WF_vars(Sending /\ WriterStep(p))
                       /\ WF_vars(Sending /\ Shutdown(p))
    /\ WF_vars(Sending /\ StopDrain)
    /\ \A s \in Sender : WF_vars(Sending /\ SenderStep(s))
    /\ WF_frameVars(subject = "frames" /\ F!ReaderStep)

\* What is read are the messages sent, however the stream is cut, and a length is
\* found invalid only where a message is longer than the reader accepts.
FramesInv == F!TypeOK /\ F!ReadsWhatWasSent /\ F!InvalidForCause

\* What was wholly written is read.
WholeIsRead == F!WholeIsRead
=============================================================================
