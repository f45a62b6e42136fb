----------------------------- MODULE PeerWriter -----------------------------
(***************************************************************************)
(* Sending over the connections of one UnixDomainMeshConnexon              *)
(* (src/src/transport/unix_mesh.rs): the queue of a peer, the thread that  *)
(* writes what is in it to the socket, and the senders, each of which      *)
(* enqueues one frame, to one peer or to all, and waits for the            *)
(* acknowledgements.  A peer stands for one generation of a connection.    *)
(*                                                                         *)
(* The thread that takes a peer from the table shuts it down before it     *)
(* goes on; here it may go on first, which only adds interleavings.        *)
(***************************************************************************)
EXTENDS Naturals, Sequences

CONSTANTS
    Peer,           \* connections, installed when the behaviour begins
    Sender,         \* calls of send(), one message each
    Broadcaster     \* those whose message has no receiver

ASSUME BroadcasterAssumption == Broadcaster \subseteq Sender

VARIABLES
    cancelled,  \* the cancellation token of the run of the transport
    peer,       \* peer[p]: listed in the table, or how far its shutdown is
    thread,     \* thread[p]: the control point of the writer thread
    queue,      \* queue[p]: the requests in the channel, by their senders
    wire,       \* wire[p]: the frames that are on the socket as a whole
    torn,       \* the peers with, perhaps, a part of a frame after them
    pc,         \* pc[s]: the control point of a sender
    todo,       \* todo[s]: the peers it has not enqueued to yet
    holds,      \* holds[s]: the peers whose channel it holds a clone of
    pending,    \* pending[s]: the peers it has enqueued to and not awaited
    ack,        \* ack[s][p]: the acknowledgement of its request to p
    result,     \* result[s]: what send() has returned
    accepted    \* accepted[p]: every request p's channel ever took (history)

vars == <<cancelled, peer, thread, queue, wire, torn, pc, todo, holds, pending,
          ack, result, accepted>>
peerVars == <<cancelled, peer>>
writerVars == <<thread, wire, torn>>
senderVars == <<pc, todo, holds, pending, result>>

\* Of one request: refused by enqueue, acknowledged by the writer, or lost with
\* the channel.
Answers == {"none", "queued", "refused", "ok", "error", "lost"}

TypeOK ==
    /\ cancelled \in BOOLEAN
    /\ peer \in [Peer -> {"listed", "removed", "taken", "shut"}]
    /\ thread \in [Peer -> {"loop", "receive", "write", "failed",
                            "drain", "return", "gone"}]
    /\ queue \in [Peer -> Seq(Sender)]
    /\ wire \in [Peer -> Seq(Sender)]
    /\ torn \in SUBSET Peer
    /\ pc \in [Sender -> {"idle", "lookup", "enqueue", "done", "dropped"}]
    /\ todo \in [Sender -> SUBSET Peer]
    /\ holds \in [Sender -> SUBSET Peer]
    /\ pending \in [Sender -> Seq(Peer)]
    /\ ack \in [Sender -> [Peer -> Answers]]
    /\ result \in [Sender -> {"none", "ok", "error"}]
    /\ accepted \in [Peer -> Seq(Sender)]

Init ==
    /\ cancelled = FALSE
    /\ peer = [p \in Peer |-> "listed"]
    /\ thread = [p \in Peer |-> "loop"]
    /\ queue = [p \in Peer |-> <<>>]
    /\ wire = [p \in Peer |-> <<>>]
    /\ torn = {}
    /\ pc = [s \in Sender |-> "idle"]
    /\ todo = [s \in Sender |-> {}]
    /\ holds = [s \in Sender |-> {}]
    /\ pending = [s \in Sender |-> <<>>]
    /\ ack = [s \in Sender |-> [p \in Peer |-> "none"]]
    /\ result = [s \in Sender |-> "none"]
    /\ accepted = [p \in Peer |-> <<>>]

Acknowledge(s, p, a) == ack' = [ack EXCEPT ![s][p] = a]

Move(p, t) == thread' = [thread EXCEPT ![p] = t]

\* What disconnect_peer leaves in the table.
Removed(p) == IF peer[p] = "listed" THEN [peer EXCEPT ![p] = "removed"] ELSE peer

\* Every sending half of the channel is gone.
Disconnected(p) ==
    peer[p] \in {"taken", "shut"} /\ \A s \in Sender : p \notin holds[s]

-----------------------------------------------------------------------------
(***************************************************************************)
(* The connection: the table loses it, and it is shut down, first the      *)
(* channel's sender and then the socket.                                   *)
(***************************************************************************)
\* The reader thread's disconnect, or a newer connection of the same node.
Remove(p) ==
    /\ peer' = Removed(p)
    /\ UNCHANGED <<cancelled, writerVars, queue, senderVars, ack, accepted>>

Shutdown(p) ==
    /\ \/ peer[p] = "removed" /\ peer' = [peer EXCEPT ![p] = "taken"]
       \/ peer[p] = "taken" /\ peer' = [peer EXCEPT ![p] = "shut"]
    /\ UNCHANGED <<cancelled, writerVars, queue, senderVars, ack, accepted>>

StopCancel ==
    /\ cancelled' = TRUE
    /\ UNCHANGED <<peer, writerVars, queue, senderVars, ack, accepted>>

StopDrain ==
    /\ cancelled
    /\ peer' = [p \in Peer |-> IF peer[p] = "listed" THEN "removed" ELSE peer[p]]
    /\ UNCHANGED <<cancelled, writerVars, queue, senderVars, ack, accepted>>

-----------------------------------------------------------------------------
(***************************************************************************)
(* writer_loop.  A request stays at the head of the queue while it is      *)
(* written: nobody else takes from the queue.                              *)
(***************************************************************************)
Check(p) ==
    /\ thread[p] = "loop"
    /\ Move(p, IF cancelled THEN "drain" ELSE "receive")
    /\ UNCHANGED <<peerVars, queue, wire, torn, senderVars, ack, accepted>>

\* A request, 25 ms without one, or a channel without senders.
Receive(p) ==
    /\ thread[p] = "receive"
    /\ Move(p, IF queue[p] # <<>> THEN "write"
               ELSE IF Disconnected(p) THEN "drain" ELSE "loop")
    /\ UNCHANGED <<peerVars, queue, wire, torn, senderVars, ack, accepted>>

WriteSucceeds(p) ==
    /\ thread[p] = "write" /\ peer[p] # "shut"
    /\ wire' = [wire EXCEPT ![p] = Append(@, Head(queue[p]))]
    /\ Acknowledge(Head(queue[p]), p, "ok")
    /\ queue' = [queue EXCEPT ![p] = Tail(@)]
    /\ Move(p, "loop")
    /\ UNCHANGED <<peerVars, torn, senderVars, accepted>>

\* A broken or shut connection, or the write timeout.
WriteFailsTo(p, t) ==
    /\ thread[p] = "write"
    /\ torn' = torn \union {p}
    /\ Acknowledge(Head(queue[p]), p, "error")
    /\ queue' = [queue EXCEPT ![p] = Tail(@)]
    /\ Move(p, t)
    /\ UNCHANGED <<peerVars, wire, senderVars, accepted>>

WriteFailsOn(p) == WriteFailsTo(p, "loop")  \* a slip: no break

WriteFailsQuietly(p) == WriteFailsTo(p, "drain")  \* a slip: no disconnect

WriteFails(p) == WriteFailsTo(p, "failed")

\* disconnect_peer, and out of the loop.
WriterDisconnects(p) ==
    /\ thread[p] = "failed"
    /\ peer' = Removed(p)
    /\ Move(p, "drain")
    /\ UNCHANGED <<cancelled, wire, torn, queue, senderVars, ack, accepted>>

DrainOk(p) ==  \* a slip: the requests that are left are acknowledged as written
    /\ thread[p] = "drain"
    /\ IF queue[p] = <<>> THEN Move(p, "return") /\ UNCHANGED <<queue, ack>>
       ELSE /\ Acknowledge(Head(queue[p]), p, "ok")
            /\ queue' = [queue EXCEPT ![p] = Tail(@)]
            /\ UNCHANGED thread
    /\ UNCHANGED <<peerVars, wire, torn, senderVars, accepted>>

\* try_iter, which ends when it finds the channel empty.
Drain(p) ==
    /\ thread[p] = "drain"
    /\ IF queue[p] = <<>> THEN Move(p, "return") /\ UNCHANGED <<queue, ack>>
       ELSE /\ Acknowledge(Head(queue[p]), p, "error")
            /\ queue' = [queue EXCEPT ![p] = Tail(@)]
            /\ UNCHANGED thread
    /\ UNCHANGED <<peerVars, wire, torn, senderVars, accepted>>

KeepQueue(p) ==  \* a slip: the requests that came too late are kept
    /\ thread[p] = "return"
    /\ Move(p, "gone")
    /\ UNCHANGED <<peerVars, queue, wire, torn, senderVars, ack, accepted>>

\* The receiving half is dropped, and with it what was enqueued after the drain.
WriterReturns(p) ==
    /\ thread[p] = "return"
    /\ Move(p, "gone")
    /\ queue' = [queue EXCEPT ![p] = <<>>]
    /\ ack' = [s \in Sender |->
                  IF \E i \in DOMAIN queue[p] : queue[p][i] = s
                  THEN [ack[s] EXCEPT ![p] = "lost"] ELSE ack[s]]
    /\ UNCHANGED <<peerVars, wire, torn, senderVars, accepted>>

-----------------------------------------------------------------------------
(***************************************************************************)
(* send_framed.                                                            *)
(***************************************************************************)
Goto(s, label) == pc' = [pc EXCEPT ![s] = label]

Return(s, r) == Goto(s, "done") /\ result' = [result EXCEPT ![s] = r]

\* ensure_started.
Begin(s) ==
    /\ pc[s] = "idle"
    /\ IF cancelled THEN Return(s, "error")
       ELSE Goto(s, "lookup") /\ UNCHANGED result
    /\ UNCHANGED <<peerVars, writerVars, queue, todo, holds, pending, ack, accepted>>

\* The peers in the table, all or the receiver, which may be none.
Lookup(s) ==
    /\ pc[s] = "lookup"
    /\ LET listed == {p \in Peer : peer[p] = "listed"} IN
        \/ /\ s \in Broadcaster
           /\ todo' = [todo EXCEPT ![s] = listed]
           /\ Goto(s, "enqueue") /\ UNCHANGED result
        \/ /\ s \notin Broadcaster
           /\ \E p \in listed : todo' = [todo EXCEPT ![s] = {p}]
           /\ Goto(s, "enqueue") /\ UNCHANGED result
        \/ /\ s \notin Broadcaster
           /\ Return(s, "error") /\ UNCHANGED todo
    /\ UNCHANGED <<peerVars, writerVars, queue, holds, pending, ack, accepted>>

Enqueued(s, p, a) ==
    /\ Acknowledge(s, p, a)
    /\ todo' = [todo EXCEPT ![s] = @ \ {p}]
    /\ pending' = [pending EXCEPT ![s] = Append(@, p)]

\* The channel is cloned under the lock of the peer's writer.
Clone(s, p) ==
    /\ pc[s] = "enqueue" /\ holds[s] = {} /\ p \in todo[s]
    /\ IF peer[p] \in {"taken", "shut"}
       THEN Enqueued(s, p, "refused") /\ UNCHANGED holds
       ELSE /\ holds' = [holds EXCEPT ![s] = {p}]
            /\ UNCHANGED <<ack, todo, pending>>
    /\ UNCHANGED <<peerVars, writerVars, queue, pc, result, accepted>>

\* The lock is released; the request goes into the channel, and the clone away.
Enqueue(s, p) ==
    /\ pc[s] = "enqueue" /\ p \in holds[s]
    /\ holds' = [holds EXCEPT ![s] = {}]
    /\ IF thread[p] = "gone"
       THEN Enqueued(s, p, "refused") /\ UNCHANGED <<queue, accepted>>
       ELSE /\ Enqueued(s, p, "queued")
            /\ queue' = [queue EXCEPT ![p] = Append(@, s)]
            /\ accepted' = [accepted EXCEPT ![p] = Append(@, s)]
    /\ UNCHANGED <<peerVars, writerVars, pc, result>>

\* Everything is enqueued: the future waits for the next acknowledgement.
Waiting(s) == pc[s] = "enqueue" /\ todo[s] = {}

\* A unicast disconnects when its write failed, and not when it was refused:
\* then the peer has been removed by others, or the transport is stopping.
AwaitUnicast(s) ==
    /\ Waiting(s) /\ s \notin Broadcaster
    /\ LET p == Head(pending[s]) IN
        /\ ack[s][p] # "queued"
        /\ Return(s, IF ack[s][p] = "ok" THEN "ok" ELSE "error")
        /\ peer' = IF ack[s][p] \in {"error", "lost"} THEN Removed(p) ELSE peer
    /\ UNCHANGED <<cancelled, writerVars, queue, todo, holds, pending, ack, accepted>>

SkipLost(s) ==  \* a slip: a dropped acknowledgement is passed over
    /\ Waiting(s) /\ s \in Broadcaster /\ pending[s] # <<>>
    /\ LET p == Head(pending[s]) IN
        /\ ack[s][p] # "queued"
        /\ pending' = [pending EXCEPT ![s] = Tail(@)]
        /\ peer' = IF ack[s][p] \in {"refused", "error"} THEN Removed(p) ELSE peer
    /\ UNCHANGED <<cancelled, writerVars, queue, todo, holds, pc, ack,
                   result, accepted>>

\* A broadcast takes its acknowledgements in the order of its peers and
\* disconnects those that failed, but returns at the first one dropped.
AwaitBroadcast(s) ==
    /\ Waiting(s) /\ s \in Broadcaster /\ pending[s] # <<>>
    /\ LET p == Head(pending[s]) IN
        \/ /\ ack[s][p] \in {"ok", "refused", "error"}
           /\ pending' = [pending EXCEPT ![s] = Tail(@)]
           /\ peer' = IF ack[s][p] = "ok" THEN peer ELSE Removed(p)
           /\ UNCHANGED <<pc, result>>
        \/ /\ ack[s][p] = "lost"
           /\ Return(s, "error") /\ UNCHANGED <<pending, peer>>
    /\ UNCHANGED <<cancelled, writerVars, queue, todo, holds, ack, accepted>>

FinishBroadcast(s) ==
    /\ Waiting(s) /\ s \in Broadcaster /\ pending[s] = <<>>
    /\ Return(s, "ok")
    /\ UNCHANGED <<peerVars, writerVars, queue, todo, holds, pending, ack, accepted>>

\* The future of send() is dropped where it waits.
DropFuture(s) ==
    /\ Waiting(s) /\ pending[s] # <<>> /\ ack[s][Head(pending[s])] = "queued"
    /\ Goto(s, "dropped")
    /\ UNCHANGED <<peerVars, writerVars, queue, todo, holds, pending, ack, result,
                   accepted>>

-----------------------------------------------------------------------------
WriterStep(p) ==
    \/ Check(p) \/ Receive(p) \/ WriteSucceeds(p) \/ WriteFails(p)
    \/ WriterDisconnects(p) \/ Drain(p) \/ WriterReturns(p)

SenderStep(s) ==
    \/ \E p \in Peer : Clone(s, p) \/ Enqueue(s, p)
    \/ Lookup(s) \/ AwaitUnicast(s) \/ AwaitBroadcast(s) \/ FinishBroadcast(s)

Next ==
    \/ \E p \in Peer : Remove(p) \/ Shutdown(p) \/ WriterStep(p)
    \/ StopCancel \/ StopDrain
    \/ \E s \in Sender : Begin(s) \/ SenderStep(s) \/ DropFuture(s)

Spec == Init /\ [][Next]_vars

\* The threads and tasks at work go on; nothing is assumed of breaks, of stop()
\* before it cancels, and of new sends.
Fairness ==
    /\ \A p \in Peer : WF_vars(WriterStep(p)) /\ WF_vars(Shutdown(p))
    /\ WF_vars(StopDrain)
    /\ \A s \in Sender : WF_vars(SenderStep(s))

FairSpec == Spec /\ Fairness

-----------------------------------------------------------------------------
(***************************************************************************)
(* Properties.                                                             *)
(***************************************************************************)

Carried(s, p) == \E i \in DOMAIN wire[p] : wire[p][i] = s

Failed(s, p) == ack[s][p] \in {"refused", "error", "lost"}

\* An acknowledgement tells the truth, whichever of the write, the drain and the
\* end of the channel gave it: after Ok the whole frame is on the socket, and
\* after an error it is not and never will be.
AnswersTruthful ==
    \A s \in Sender, p \in Peer :
        /\ ack[s][p] = "ok" => Carried(s, p)
        /\ Failed(s, p) => ~Carried(s, p)

\* A connection carries a prefix of what its channel took: nothing is left out,
\* doubled or overtaken, however many senders meet, and however it ends.
CarriesPrefix ==
    \A p \in Peer :
        /\ Len(wire[p]) <= Len(accepted[p])
        /\ \A i \in DOMAIN wire[p] : wire[p][i] = accepted[p][i]

\* A frame that was cut off by a failed write is the last thing on its socket:
\* the other end never reads a length in the middle of a frame.
TornIsLast == [][\A p \in torn : wire'[p] = wire[p]]_vars

\* While the transport runs, no peer whose writer has given up is in the table.
ListedIsWritten ==
    \A p \in Peer :
        peer[p] = "listed" /\ ~cancelled =>
            thread[p] \in {"loop", "receive", "write", "failed"}

\* When a broadcast returns Ok, every peer that was in the table when it looked
\* has the whole frame or has left the table.
BroadcastReaches ==
    \A s \in Broadcaster : result[s] = "ok" =>
        \A p \in Peer : ack[s][p] # "none" => Carried(s, p) \/ peer[p] # "listed"

\* A peer that a frame could not be sent to leaves the table, although a
\* broadcast may return before it has looked at that peer, a unicast that is
\* refused does not disconnect, and the future of either may be dropped.
FailedPeersLeave ==
    \A s \in Sender, p \in Peer : Failed(s, p) ~> peer[p] # "listed"

\* Every send returns, unless its future is dropped: each request is
\* acknowledged, or its acknowledgement is dropped with the channel.
SendsReturn ==
    \A s \in Sender : pc[s] # "idle" ~> pc[s] \in {"done", "dropped"}
=============================================================================
