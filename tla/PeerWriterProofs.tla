-------------------------- MODULE PeerWriterProofs --------------------------
(***************************************************************************)
(* Theorems about PeerWriter, for any peers and senders, and about         *)
(* Framing, for any base, width and limits.                                *)
(***************************************************************************)
EXTENDS MCWriterReturns, WellFoundedInduction, SequenceTheorems, TLAPS

USE BroadcasterAssumption

(***************************************************************************)
(* Type correctness.                                                       *)
(***************************************************************************)
LEMMA InitType == Init => TypeOK
<1>1. <<>> \in Seq(Sender) /\ <<>> \in Seq(Peer)
  BY EmptySeq
<1> SUFFICES ASSUME Init PROVE TypeOK
  OBVIOUS
<1>2. queue \in [Peer -> Seq(Sender)] /\ wire \in [Peer -> Seq(Sender)]
  BY <1>1 DEF Init
<1>3. pending \in [Sender -> Seq(Peer)] /\ accepted \in [Peer -> Seq(Sender)]
  BY <1>1 DEF Init
<1>4. ack \in [Sender -> [Peer -> Answers]]
  BY DEF Init, Answers
<1> QED
  BY <1>2, <1>3, <1>4 DEF Init, TypeOK

\* A writer that has a request in its hands has taken it from the queue.
WritesRequest == \A p \in Peer : thread[p] = "write" => queue[p] # <<>>

\* A sender that waits has put something into pending, unless it had no peers.
LEMMA TakenRequest ==
    ASSUME TypeOK, NEW p \in Peer, queue[p] # <<>>
    PROVE  /\ Head(queue[p]) \in Sender
           /\ Tail(queue[p]) \in Seq(Sender)
           /\ Len(queue[p]) \in Nat \ {0}
           /\ Head(queue[p]) = queue[p][1]
           /\ Len(Tail(queue[p])) = Len(queue[p]) - 1
           /\ \A i \in 1..Len(Tail(queue[p])) : Tail(queue[p])[i] = queue[p][i + 1]
<1>1. queue[p] \in Seq(Sender)
  BY DEF TypeOK
<1> QED
  BY <1>1, HeadTailProperties, EmptySeq

\* Disconnecting leaves the table typed.
LEMMA RemovedType ==
    ASSUME TypeOK
    PROVE  \A q : Removed(q) \in [Peer -> {"listed", "removed", "taken", "shut"}]
BY DEF Removed, TypeOK

\* An acknowledgement is typed.
LEMMA AcknowledgeType ==
    ASSUME TypeOK, NEW s \in Sender, NEW p \in Peer, NEW a \in Answers,
           Acknowledge(s, p, a)
    PROVE  ack' \in [Sender -> [Peer -> Answers]]
BY DEF Acknowledge, TypeOK

\* The variables that Enqueued changes stay well typed.
LEMMA EnqueuedType ==
    ASSUME TypeOK, NEW s \in Sender, NEW p \in Peer, NEW a \in Answers,
           Enqueued(s, p, a)
    PROVE  /\ ack' \in [Sender -> [Peer -> Answers]]
           /\ todo' \in [Sender -> SUBSET Peer]
           /\ pending' \in [Sender -> Seq(Peer)]
<1>1. ack' \in [Sender -> [Peer -> Answers]]
  BY AcknowledgeType DEF Enqueued
<1>2. todo' \in [Sender -> SUBSET Peer]
  BY DEF Enqueued, TypeOK
<1>3. pending' \in [Sender -> Seq(Peer)]
  <2>1. pending \in [Sender -> Seq(Peer)] /\ Append(pending[s], p) \in Seq(Peer)
    BY DEF TypeOK
  <2> QED
    BY <2>1 DEF Enqueued
<1> QED
  BY <1>1, <1>2, <1>3

LEMMA StepType == TypeOK /\ WritesRequest /\ [Next]_vars => TypeOK'
<1> SUFFICES ASSUME TypeOK, WritesRequest, [Next]_vars
             PROVE  TypeOK'
  OBVIOUS
<1> USE DEF TypeOK, peerVars, writerVars, senderVars
<1>1. CASE UNCHANGED vars
  BY <1>1 DEF vars
<1>2. ASSUME NEW p \in Peer, Remove(p) \/ Shutdown(p) \/ Check(p) \/ Receive(p)
                             \/ WriterDisconnects(p)
      PROVE  TypeOK'
  <2>1. CASE Remove(p) \/ Shutdown(p)
    BY <2>1 DEF Remove, Shutdown, Removed
  <2>2. CASE Check(p) \/ Receive(p)
    BY <2>2 DEF Check, Receive, Move
  <2>3. CASE WriterDisconnects(p)
    BY <2>3 DEF WriterDisconnects, Removed, Move
  <2> QED
    BY <1>2, <2>1, <2>2, <2>3
<1>3. CASE StopCancel \/ StopDrain
  BY <1>3 DEF StopCancel, StopDrain
<1>4. ASSUME NEW p \in Peer, WriteSucceeds(p)
      PROVE  TypeOK'
  <2>1. queue[p] # <<>>
    BY <1>4 DEF WriteSucceeds, WritesRequest
  <2>2. Head(queue[p]) \in Sender /\ Tail(queue[p]) \in Seq(Sender)
    BY <2>1, TakenRequest
  <2> QED
    BY <1>4, <2>2 DEF WriteSucceeds, Acknowledge, Move, Answers
<1>5. ASSUME NEW p \in Peer, WriteFails(p)
      PROVE  TypeOK'
  <2>1. queue[p] # <<>>
    BY <1>5 DEF WriteFails, WriteFailsTo, WritesRequest
  <2>2. Head(queue[p]) \in Sender /\ Tail(queue[p]) \in Seq(Sender)
    BY <2>1, TakenRequest
  <2> QED
    BY <1>5, <2>2 DEF WriteFails, WriteFailsTo, Acknowledge, Move, Answers
<1>6. ASSUME NEW p \in Peer, Drain(p)
      PROVE  TypeOK'
  <2>1. CASE queue[p] = <<>>
    BY <1>6, <2>1 DEF Drain, Move
  <2>2. CASE queue[p] # <<>>
    <3>1. Head(queue[p]) \in Sender /\ Tail(queue[p]) \in Seq(Sender)
      BY <2>2, TakenRequest
    <3>2. ack' \in [Sender -> [Peer -> Answers]]
      <4>1. Acknowledge(Head(queue[p]), p, "error") /\ "error" \in Answers
        BY <1>6, <2>2 DEF Drain, Answers
      <4> QED
        BY <3>1, <4>1, AcknowledgeType
    <3>3. queue' \in [Peer -> Seq(Sender)]
      BY <1>6, <2>2, <3>1 DEF Drain
    <3>4. /\ UNCHANGED <<thread, peerVars, wire, torn, senderVars, accepted>>
      BY <1>6, <2>2 DEF Drain
    <3> QED
      BY <3>2, <3>3, <3>4
  <2> QED
    BY <2>1, <2>2
<1>7. ASSUME NEW p \in Peer, WriterReturns(p)
      PROVE  TypeOK'
  <2>1. ack' \in [Sender -> [Peer -> Answers]]
    BY <1>7 DEF WriterReturns, Answers
  <2> QED
    BY <1>7, <2>1 DEF WriterReturns, Move
<1>8. ASSUME NEW s \in Sender, Begin(s) \/ DropFuture(s)
      PROVE  TypeOK'
  <2>1. CASE Begin(s)
    <3>1. pc' = [pc EXCEPT ![s] = "done"] \/ pc' = [pc EXCEPT ![s] = "lookup"]
      BY <2>1 DEF Begin, Goto, Return
    <3>2. result' = result \/ result' = [result EXCEPT ![s] = "error"]
      BY <2>1 DEF Begin, Return
    <3>3. pc' \in [Sender -> {"idle", "lookup", "enqueue", "done", "dropped"}]
      BY <3>1
    <3>4. result' \in [Sender -> {"none", "ok", "error"}]
      BY <3>2
    <3>5. UNCHANGED <<peerVars, writerVars, queue, todo, holds, pending, ack, accepted>>
      BY <2>1 DEF Begin
    <3> QED
      BY <3>3, <3>4, <3>5
  <2>2. CASE DropFuture(s)
    BY <2>2 DEF DropFuture, Goto
  <2> QED
    BY <1>8, <2>1, <2>2
<1>9. ASSUME NEW s \in Sender, Lookup(s)
      PROVE  TypeOK'
  <2>1. pc' \in [Sender -> {"idle", "lookup", "enqueue", "done", "dropped"}]
    <3>1. Goto(s, "enqueue") \/ Goto(s, "done")
      BY <1>9 DEF Lookup, Return
    <3> QED
      BY <3>1 DEF Goto
  <2>2. todo' \in [Sender -> SUBSET Peer]
    <3>1. \/ todo' = todo
          \/ \E q \in SUBSET Peer : todo' = [todo EXCEPT ![s] = q]
      <4>1. ASSUME NEW p \in Peer
            PROVE  {p} \in SUBSET Peer
        OBVIOUS
      <4>2. {p \in Peer : peer[p] = "listed"} \in SUBSET Peer
        OBVIOUS
      <4> QED
        BY <1>9, <4>1, <4>2, Zenon DEF Lookup
    <3> QED
      BY <3>1
  <2>3. result' \in [Sender -> {"none", "ok", "error"}]
    <3>1. result' = result \/ result' = [result EXCEPT ![s] = "error"]
      BY <1>9 DEF Lookup, Return
    <3> QED
      BY <3>1
  <2> QED
    BY <1>9, <2>1, <2>2, <2>3 DEF Lookup
<1>10. ASSUME NEW s \in Sender, NEW p \in Peer, Clone(s, p)
       PROVE  TypeOK'
  <2>1. CASE Enqueued(s, p, "refused") /\ UNCHANGED holds
    <3>1. "refused" \in Answers
      BY DEF Answers
    <3> QED
      BY <1>10, <2>1, <3>1, EnqueuedType DEF Clone
  <2>2. CASE holds' = [holds EXCEPT ![s] = {p}] /\ UNCHANGED <<ack, todo, pending>>
    BY <1>10, <2>2 DEF Clone
  <2> QED
    BY <1>10, <2>1, <2>2 DEF Clone
<1>11. ASSUME NEW s \in Sender, NEW p \in Peer, Enqueue(s, p)
       PROVE  TypeOK'
  <2>1. \E a \in Answers : Enqueued(s, p, a)
    BY <1>11 DEF Enqueue, Answers
  <2>2. /\ ack' \in [Sender -> [Peer -> Answers]]
        /\ todo' \in [Sender -> SUBSET Peer]
        /\ pending' \in [Sender -> Seq(Peer)]
    BY <2>1, EnqueuedType
  <2>3. holds' \in [Sender -> SUBSET Peer]
    BY <1>11 DEF Enqueue
  <2>4. queue' \in [Peer -> Seq(Sender)] /\ accepted' \in [Peer -> Seq(Sender)]
    <3>1. Append(queue[p], s) \in Seq(Sender) /\ Append(accepted[p], s) \in Seq(Sender)
      OBVIOUS
    <3> QED
      BY <1>11, <3>1 DEF Enqueue
  <2> QED
    BY <1>11, <2>2, <2>3, <2>4 DEF Enqueue
<1>12. ASSUME NEW s \in Sender, AwaitUnicast(s) \/ AwaitBroadcast(s) \/ FinishBroadcast(s)
       PROVE  TypeOK'
  <2>1. peer' \in [Peer -> {"listed", "removed", "taken", "shut"}]
    <3>1. peer' = peer \/ \E q : peer' = Removed(q)
      BY <1>12 DEF AwaitUnicast, AwaitBroadcast, FinishBroadcast
    <3> QED
      BY <3>1, RemovedType
  <2>2. pc' \in [Sender -> {"idle", "lookup", "enqueue", "done", "dropped"}]
    BY <1>12 DEF AwaitUnicast, AwaitBroadcast, FinishBroadcast, Return, Goto
  <2>3. result' \in [Sender -> {"none", "ok", "error"}]
    BY <1>12 DEF AwaitUnicast, AwaitBroadcast, FinishBroadcast, Return
  <2>4. pending' \in [Sender -> Seq(Peer)]
    <3>1. pending[s] # <<>> => Tail(pending[s]) \in Seq(Peer)
      BY HeadTailProperties
    <3> QED
      BY <1>12, <3>1 DEF AwaitUnicast, AwaitBroadcast, FinishBroadcast
  <2> QED
    BY <1>12, <2>1, <2>2, <2>3, <2>4 DEF AwaitUnicast, AwaitBroadcast, FinishBroadcast
<1> QED
  BY <1>1, <1>2, <1>3, <1>4, <1>5, <1>6, <1>7, <1>8, <1>9, <1>10, <1>11, <1>12
     DEF Next, WriterStep, SenderStep

(***************************************************************************)
(* The invariant behind AnswersTruthful: a request is in at most one place. *)
(* Before it is enqueued it has no answer; while it is in a queue it is     *)
(* there once and its answer is awaited; it is on the socket exactly when   *)
(* its answer is Ok.                                                        *)
(***************************************************************************)
NotYetSent ==
    \A s \in Sender :
        /\ pc[s] \in {"idle", "lookup"} =>
              todo[s] = {} /\ \A p \in Peer : ack[s][p] = "none"
        /\ holds[s] \subseteq todo[s]
        /\ \A p \in todo[s] : ack[s][p] = "none"

QueuedOnce ==
    \A p \in Peer : \A i \in 1..Len(queue[p]) :
        /\ ack[queue[p][i]][p] = "queued"
        /\ \A j \in 1..Len(queue[p]) : queue[p][i] = queue[p][j] => i = j

CarriedIsOk ==
    \A s \in Sender, p \in Peer :
        (\E i \in 1..Len(wire[p]) : wire[p][i] = s) <=> ack[s][p] = "ok"

RequestInv ==
    TypeOK /\ WritesRequest /\ NotYetSent /\ QueuedOnce /\ CarriedIsOk

\* The elements of a queue are senders.
LEMMA QueueElements ==
    ASSUME TypeOK, NEW p \in Peer
    PROVE  /\ Len(queue[p]) \in Nat
           /\ \A i \in 1..Len(queue[p]) : queue[p][i] \in Sender
<1>1. queue[p] \in Seq(Sender)
  BY DEF TypeOK
<1> QED
  BY <1>1

\* The writer takes its request from the queue and answers it, with Ok when it
\* has put it on the wire.
TakeAndAnswer(p, a) ==
    /\ queue[p] # <<>>
    /\ queue' = [queue EXCEPT ![p] = Tail(queue[p])]
    /\ Acknowledge(Head(queue[p]), p, a)
    /\ \/ a = "ok" /\ wire' = [wire EXCEPT ![p] = Append(wire[p], Head(queue[p]))]
       \/ a = "error" /\ wire' = wire

LEMMA TakeKeepsQueues ==
    ASSUME TypeOK, QueuedOnce, NEW p \in Peer, NEW a, TakeAndAnswer(p, a)
    PROVE  QueuedOnce'
<1> DEFINE r == Head(queue[p])
           rest == Tail(queue[p])
<1>1. /\ r \in Sender /\ rest \in Seq(Sender) /\ r = queue[p][1]
      /\ Len(queue[p]) \in Nat \ {0} /\ Len(rest) = Len(queue[p]) - 1
      /\ \A i \in 1..Len(rest) : rest[i] = queue[p][i + 1]
  BY TakenRequest DEF TakeAndAnswer
<1>2. queue' = [queue EXCEPT ![p] = rest] /\ ack' = [ack EXCEPT ![r][p] = a]
  BY DEF TakeAndAnswer, Acknowledge
<1> HIDE DEF r, rest
<1>3. /\ queue'[p] = rest
      /\ \A q \in Peer : q # p => queue'[q] = queue[q]
      /\ \A s \in Sender, q \in Peer : s # r \/ q # p => ack'[s][q] = ack[s][q]
  BY <1>1, <1>2 DEF TypeOK
<1>4. ASSUME NEW q \in Peer, NEW i \in 1..Len(queue'[q])
      PROVE  /\ ack'[queue'[q][i]][q] = "queued"
             /\ \A j \in 1..Len(queue'[q]) : queue'[q][i] = queue'[q][j] => i = j
  <2>1. CASE q # p
    <3>1. queue'[q] = queue[q] /\ queue[q][i] \in Sender
      BY <1>3, <1>4, <2>1, QueueElements
    <3>2. ack'[queue[q][i]][q] = ack[queue[q][i]][q]
      BY <1>3, <2>1, <3>1
    <3> QED
      BY <1>4, <3>1, <3>2 DEF QueuedOnce
  <2>2. CASE q = p
    <3>1. i \in 1..Len(rest) /\ i + 1 \in 1..Len(queue[p]) /\ 1 \in 1..Len(queue[p])
      BY <1>1, <1>3, <1>4, <2>2
    <3>2. rest[i] = queue[p][i + 1] /\ rest[i] \in Sender
      BY <1>1, <3>1
    <3>3. rest[i] # r
      <4>1. queue[p][i + 1] = queue[p][1] => i + 1 = 1
        BY <3>1 DEF QueuedOnce
      <4>2. i + 1 # 1
        BY <3>1
      <4> QED
        BY <1>1, <3>2, <4>1, <4>2
    <3>4. ack'[rest[i]][p] = "queued"
      BY <1>3, <3>1, <3>2, <3>3 DEF QueuedOnce
    <3>5. ASSUME NEW j \in 1..Len(rest), rest[i] = rest[j]
          PROVE  i = j
      <4>1. j + 1 \in 1..Len(queue[p]) /\ rest[j] = queue[p][j + 1]
        BY <1>1
      <4>2. i + 1 = j + 1
        BY <3>1, <3>2, <3>5, <4>1 DEF QueuedOnce
      <4> QED
        BY <3>1, <4>2
    <3> QED
      BY <1>3, <2>2, <3>4, <3>5
  <2> QED
    BY <2>1, <2>2
<1> QED
  BY <1>4 DEF QueuedOnce

LEMMA TakeKeepsWire ==
    ASSUME TypeOK, QueuedOnce, CarriedIsOk, NEW p \in Peer, NEW a,
           TakeAndAnswer(p, a)
    PROVE  CarriedIsOk'
<1> DEFINE r == Head(queue[p])
<1>1. /\ r \in Sender /\ r = queue[p][1] /\ Len(queue[p]) \in Nat \ {0}
  BY TakenRequest DEF TakeAndAnswer
<1>2. ack' = [ack EXCEPT ![r][p] = a]
  BY DEF TakeAndAnswer, Acknowledge
<1>3. \/ a = "ok" /\ wire' = [wire EXCEPT ![p] = Append(wire[p], r)]
      \/ a = "error" /\ wire' = wire
  BY DEF TakeAndAnswer
<1>4. ack[r][p] = "queued"
  <2>1. 1 \in 1..Len(queue[p])
    BY <1>1
  <2> QED
    BY <1>1, <2>1 DEF QueuedOnce
<1> HIDE DEF r
<1>5. /\ ack'[r][p] = a
      /\ \A s \in Sender, q \in Peer : s # r \/ q # p => ack'[s][q] = ack[s][q]
  BY <1>1, <1>2 DEF TypeOK
<1>6. ASSUME NEW s \in Sender, NEW q \in Peer
      PROVE  (\E i \in 1..Len(wire'[q]) : wire'[q][i] = s) <=> ack'[s][q] = "ok"
  <2>1. CASE wire'[q] = wire[q] /\ (s # r \/ q # p)
    BY <1>5, <2>1 DEF CarriedIsOk
  <2>2. CASE wire'[q] = wire[q] /\ s = r /\ q = p
    <3>1. a = "error"
      <4>1. wire[p] \in Seq(Sender) /\ wire \in [Peer -> Seq(Sender)]
        BY DEF TypeOK
      <4>2. Len(Append(wire[p], r)) # Len(wire[p])
        BY <1>1, <4>1
      <4> QED
        BY <1>3, <2>2, <4>1, <4>2
    <3>2. ~\E i \in 1..Len(wire[q]) : wire[q][i] = s
      BY <1>4, <2>2 DEF CarriedIsOk
    <3> QED
      BY <1>5, <2>2, <3>1, <3>2
  <2>3. CASE wire'[q] # wire[q]
    <3>1. a = "ok" /\ q = p /\ wire'[p] = Append(wire[p], r)
      BY <1>3, <2>3 DEF TypeOK
    <3> DEFINE w == wire[p]
    <3>2. w \in Seq(Sender)
      BY DEF TypeOK
    <3> HIDE DEF w
    <3>3. /\ Len(Append(w, r)) = Len(w) + 1 /\ Len(w) \in Nat
          /\ Append(w, r)[Len(w) + 1] = r
          /\ \A i \in 1..Len(w) : Append(w, r)[i] = w[i]
      BY <1>1, <3>2
    <3>4. (\E i \in 1..Len(Append(w, r)) : Append(w, r)[i] = s)
             <=> s = r \/ \E i \in 1..Len(w) : w[i] = s
      BY <3>3
    <3>5. (\E i \in 1..Len(w) : w[i] = s) <=> ack[s][p] = "ok"
      BY DEF CarriedIsOk, w
    <3>6. wire'[q] = Append(w, r)
      BY <3>1 DEF w
    <3> QED
      BY <1>5, <3>1, <3>4, <3>5, <3>6
  <2> QED
    BY <2>1, <2>2, <2>3
<1> QED
  BY <1>6 DEF CarriedIsOk

\* What is answered was in a queue, so nothing that is still to be sent.
LEMMA TakeKeepsUnsent ==
    ASSUME TypeOK, QueuedOnce, NotYetSent, NEW p \in Peer, NEW a,
           TakeAndAnswer(p, a), UNCHANGED <<pc, todo, holds>>
    PROVE  NotYetSent'
<1> DEFINE r == Head(queue[p])
<1>1. r \in Sender /\ r = queue[p][1] /\ 1 \in 1..Len(queue[p])
  BY TakenRequest DEF TakeAndAnswer
<1>2. ack' = [ack EXCEPT ![r][p] = a] /\ ack[r][p] = "queued"
  BY <1>1 DEF TakeAndAnswer, Acknowledge, QueuedOnce
<1> HIDE DEF r
<1>3. \A s \in Sender, q \in Peer : ack[s][q] = "none" => ack'[s][q] = "none"
  BY <1>1, <1>2 DEF TypeOK
<1>4. \A s \in Sender : todo[s] \subseteq Peer
  BY DEF TypeOK
<1> QED
  BY <1>3, <1>4 DEF NotYetSent

\* A request is refused, or put at the end of a queue, where it has not been.
LEMMA EnqueueKeeps ==
    ASSUME RequestInv, NEW s \in Sender, NEW p \in todo[s],
           NEW a \in {"refused", "queued"}, Enqueued(s, p, a),
           queue' = IF a = "queued" THEN [queue EXCEPT ![p] = Append(@, s)] ELSE queue,
           pc[s] = "enqueue", UNCHANGED <<pc, wire>>,
           holds' = [holds EXCEPT ![s] = {}]
    PROVE  NotYetSent' /\ QueuedOnce' /\ CarriedIsOk'
<1> USE DEF RequestInv
<1>1. /\ p \in Peer /\ ack[s][p] = "none"
      /\ ack' = [ack EXCEPT ![s][p] = a]
      /\ todo' = [todo EXCEPT ![s] = @ \ {p}]
  BY DEF Enqueued, Acknowledge, NotYetSent, TypeOK
<1>2. /\ ack'[s][p] = a
      /\ \A t \in Sender, q \in Peer : t # s \/ q # p => ack'[t][q] = ack[t][q]
  BY <1>1 DEF TypeOK
<1>3. NotYetSent'
  <2>1. ASSUME NEW t \in Sender
        PROVE  /\ pc'[t] \in {"idle", "lookup"} =>
                     todo'[t] = {} /\ \A q \in Peer : ack'[t][q] = "none"
               /\ holds'[t] \subseteq todo'[t]
               /\ \A q \in todo'[t] : ack'[t][q] = "none"
    <3>1. CASE t = s
      <4>1. todo'[s] = todo[s] \ {p} /\ holds'[s] = {} /\ pc'[s] = "enqueue"
        BY <1>1 DEF TypeOK
      <4>2. todo[s] \subseteq Peer /\ \A q \in todo[s] : ack[s][q] = "none"
        BY DEF TypeOK, NotYetSent
      <4> QED
        BY <1>2, <3>1, <4>1, <4>2
    <3>2. CASE t # s
      <4>1. todo'[t] = todo[t] /\ holds'[t] = holds[t] /\ pc'[t] = pc[t]
        BY <1>1, <3>2 DEF TypeOK
      <4>2. todo[t] \subseteq Peer /\ \A q \in Peer : ack'[t][q] = ack[t][q]
        BY <1>2, <3>2 DEF TypeOK
      <4> QED
        BY <4>1, <4>2 DEF NotYetSent
    <3> QED
      BY <3>1, <3>2
  <2> QED
    BY <2>1 DEF NotYetSent
<1>4. CarriedIsOk'
  <2>1. \A t \in Sender, q \in Peer : ack'[t][q] = "ok" <=> ack[t][q] = "ok"
    BY <1>1, <1>2
  <2> QED
    BY <2>1 DEF CarriedIsOk
<1>5. ASSUME NEW q \in Peer, NEW i \in 1..Len(queue[q])
      PROVE  /\ queue[q][i] \in Sender /\ ack'[queue[q][i]][q] = "queued"
             /\ queue[q][i] # s \/ q # p
  <2>1. queue[q][i] \in Sender /\ ack[queue[q][i]][q] = "queued"
    BY QueueElements DEF QueuedOnce
  <2>2. queue[q][i] # s \/ q # p
    BY <1>1, <2>1
  <2> QED
    BY <1>2, <2>1, <2>2
<1>6. QueuedOnce'
  <2>1. CASE a = "refused"
    BY <1>5, <2>1 DEF QueuedOnce
  <2>2. CASE a = "queued"
    <3> DEFINE w == queue[p]
    <3>1. /\ queue'[p] = Append(w, s) /\ w \in Seq(Sender)
          /\ \A q \in Peer : q # p => queue'[q] = queue[q]
      BY <1>1, <2>2 DEF TypeOK
    <3>2. \A i \in 1..Len(w) : w[i] # s /\ ack'[w[i]][p] = "queued"
      BY <1>1, <1>5
    <3>3. \A i, j \in 1..Len(w) : w[i] = w[j] => i = j
      BY <1>1 DEF QueuedOnce
    <3> HIDE DEF w
    <3>4. /\ Len(Append(w, s)) = Len(w) + 1 /\ Len(w) \in Nat
          /\ Append(w, s)[Len(w) + 1] = s
          /\ \A i \in 1..Len(w) : Append(w, s)[i] = w[i]
      BY <3>1
    <3>5. ASSUME NEW i \in 1..Len(Append(w, s))
          PROVE  /\ ack'[Append(w, s)[i]][p] = "queued"
                 /\ \A j \in 1..Len(Append(w, s)) :
                       Append(w, s)[i] = Append(w, s)[j] => i = j
      <4>1. i = Len(w) + 1 \/ i \in 1..Len(w)
        BY <3>4
      <4>2. ack'[Append(w, s)[i]][p] = "queued"
        BY <1>2, <2>2, <3>2, <3>4, <4>1
      <4>3. ASSUME NEW j \in 1..Len(Append(w, s)), Append(w, s)[i] = Append(w, s)[j]
            PROVE  i = j
        <5>1. j = Len(w) + 1 \/ j \in 1..Len(w)
          BY <3>4
        <5> QED
          BY <3>2, <3>3, <3>4, <4>1, <4>3, <5>1
      <4> QED
        BY <4>2, <4>3
    <3>6. ASSUME NEW q \in Peer, NEW i \in 1..Len(queue'[q])
          PROVE  /\ ack'[queue'[q][i]][q] = "queued"
                 /\ \A j \in 1..Len(queue'[q]) : queue'[q][i] = queue'[q][j] => i = j
      <4>1. CASE q = p
        BY <3>1, <3>5, <3>6, <4>1
      <4>2. CASE q # p
        <5>1. queue'[q] = queue[q] /\ i \in 1..Len(queue[q])
          BY <3>1, <3>6, <4>2
        <5>2. ack'[queue[q][i]][q] = "queued"
          BY <1>5, <5>1
        <5>3. \A j \in 1..Len(queue[q]) : queue[q][i] = queue[q][j] => i = j
          BY <5>1 DEF QueuedOnce
        <5> QED
          BY <5>1, <5>2, <5>3
      <4> QED
        BY <4>1, <4>2
    <3> QED
      BY <3>6 DEF QueuedOnce
  <2> QED
    BY <2>1, <2>2
<1> QED
  BY <1>3, <1>4, <1>6

\* A step that moves no request, and no sender back to its beginning.
LEMMA RestKeeps ==
    ASSUME RequestInv, UNCHANGED <<queue, wire, ack>>,
           \A s \in Sender :
              /\ pc'[s] \in {"idle", "lookup"} =>
                    pc[s] \in {"idle", "lookup"} /\ todo'[s] = {}
              /\ holds'[s] \subseteq todo'[s]
              /\ \/ todo'[s] = todo[s]
                 \/ pc[s] \in {"idle", "lookup"} /\ todo'[s] \subseteq Peer
    PROVE  NotYetSent' /\ QueuedOnce' /\ CarriedIsOk'
<1> USE DEF RequestInv
<1>1. QueuedOnce' /\ CarriedIsOk'
  BY DEF QueuedOnce, CarriedIsOk
<1>2. NotYetSent'
  BY DEF NotYetSent
<1> QED
  BY <1>1, <1>2

LEMMA InitRequest == Init => RequestInv
<1> SUFFICES ASSUME Init PROVE RequestInv
  OBVIOUS
<1>1. TypeOK
  BY InitType
<1>2. WritesRequest /\ NotYetSent
  BY DEF Init, WritesRequest, NotYetSent
<1>3. QueuedOnce /\ CarriedIsOk
  BY DEF Init, QueuedOnce, CarriedIsOk
<1> QED
  BY <1>1, <1>2, <1>3 DEF RequestInv

LEMMA StepWrites == RequestInv /\ [Next]_vars => WritesRequest'
<1> SUFFICES ASSUME RequestInv, [Next]_vars PROVE WritesRequest'
  OBVIOUS
<1> USE DEF RequestInv, TypeOK, WritesRequest, peerVars, writerVars, senderVars
<1>1. CASE UNCHANGED <<thread, queue>>
  BY <1>1
<1>2. ASSUME NEW p \in Peer, WriterStep(p)
      PROVE  WritesRequest'
  <2>1. CASE Check(p) \/ Receive(p) \/ WriterDisconnects(p)
    BY <2>1 DEF Check, Receive, WriterDisconnects, Move
  <2>2. CASE WriteSucceeds(p) \/ WriteFails(p) \/ Drain(p) \/ WriterReturns(p)
    <3>1. thread'[p] # "write"
      BY <2>2 DEF WriteSucceeds, WriteFails, WriteFailsTo, Drain, WriterReturns, Move
    <3>2. \A q \in Peer : q # p => thread'[q] = thread[q] /\ queue'[q] = queue[q]
      BY <2>2 DEF WriteSucceeds, WriteFails, WriteFailsTo, Drain, WriterReturns, Move
    <3> QED
      BY <3>1, <3>2
  <2> QED
    BY <1>2, <2>1, <2>2 DEF WriterStep
<1>3. ASSUME NEW s \in Sender, NEW p \in Peer, Enqueue(s, p)
      PROVE  WritesRequest'
  <2>1. UNCHANGED thread
    BY <1>3 DEF Enqueue
  <2>2. Append(queue[p], s) # <<>>
    <3>1. queue[p] \in Seq(Sender)
      OBVIOUS
    <3>2. Len(Append(queue[p], s)) # 0
      BY <3>1
    <3> QED
      BY <3>2, EmptySeq
  <2>3. \A q \in Peer : queue'[q] \in {queue[q], Append(queue[p], s)}
    BY <1>3 DEF Enqueue
  <2> QED
    BY <2>1, <2>2, <2>3
<1> QED
  BY <1>1, <1>2, <1>3
     DEF Next, SenderStep, Remove, Shutdown, StopCancel, StopDrain, Begin, Lookup,
         DropFuture, Clone, AwaitUnicast, AwaitBroadcast, FinishBroadcast, vars

\* A step of the writer that answers one request.
LEMMA WriterTakes ==
    ASSUME RequestInv, NEW p \in Peer,
           WriteSucceeds(p) \/ WriteFails(p) \/ (Drain(p) /\ queue[p] # <<>>)
    PROVE  /\ \E a \in {"ok", "error"} : TakeAndAnswer(p, a)
           /\ UNCHANGED <<pc, todo, holds>>
<1>1. queue[p] # <<>>
  BY DEF WriteSucceeds, WriteFails, WriteFailsTo, RequestInv, WritesRequest
<1>2. CASE WriteSucceeds(p)
  BY <1>1, <1>2 DEF WriteSucceeds, TakeAndAnswer, senderVars
<1>3. CASE WriteFails(p)
  BY <1>1, <1>3 DEF WriteFails, WriteFailsTo, TakeAndAnswer, senderVars
<1>4. CASE Drain(p) /\ queue[p] # <<>>
  BY <1>4 DEF Drain, TakeAndAnswer, senderVars
<1> QED
  BY <1>2, <1>3, <1>4

\* The end of the channel answers what is left in it.
LEMMA ReturnKeeps ==
    ASSUME RequestInv, NEW p \in Peer, WriterReturns(p)
    PROVE  NotYetSent' /\ QueuedOnce' /\ CarriedIsOk'
<1> USE DEF RequestInv
<1>1. /\ queue' = [queue EXCEPT ![p] = <<>>]
      /\ UNCHANGED <<wire, pc, todo, holds>>
  BY DEF WriterReturns, senderVars
<1>2. queue'[p] = <<>> /\ \A q \in Peer : q # p => queue'[q] = queue[q]
  BY <1>1 DEF TypeOK
<1>3. ASSUME NEW s \in Sender, NEW q \in Peer
      PROVE  \/ ack'[s][q] = ack[s][q]
             \/ q = p /\ ack[s][q] = "queued" /\ ack'[s][q] = "lost"
  <2>1. CASE \E i \in DOMAIN queue[p] : queue[p][i] = s
    <3>1. ack[s][p] = "queued"
      <4>1. DOMAIN queue[p] = 1..Len(queue[p])
        BY DEF TypeOK
      <4> QED
        BY <2>1, <4>1 DEF QueuedOnce
    <3>2. ack'[s] = [ack[s] EXCEPT ![p] = "lost"]
      BY <2>1 DEF WriterReturns
    <3> QED
      BY <3>1, <3>2 DEF TypeOK
  <2>2. CASE ~\E i \in DOMAIN queue[p] : queue[p][i] = s
    BY <2>2 DEF WriterReturns
  <2> QED
    BY <2>1, <2>2
<1>4. NotYetSent'
  <2>1. \A s \in Sender : todo[s] \subseteq Peer
    BY DEF TypeOK
  <2> QED
    BY <1>1, <1>3, <2>1 DEF NotYetSent
<1>5. CarriedIsOk'
  BY <1>1, <1>3 DEF CarriedIsOk
<1>6. QueuedOnce'
  <2>1. ASSUME NEW q \in Peer, NEW i \in 1..Len(queue'[q])
        PROVE  /\ ack'[queue'[q][i]][q] = "queued"
               /\ \A j \in 1..Len(queue'[q]) : queue'[q][i] = queue'[q][j] => i = j
    <3>1. CASE q = p
      BY <1>2, <2>1, <3>1
    <3>2. CASE q # p
      <4>1. queue'[q] = queue[q] /\ queue[q][i] \in Sender
        BY <1>2, <2>1, <3>2, QueueElements
      <4> QED
        BY <1>3, <2>1, <3>2, <4>1 DEF QueuedOnce
    <3> QED
      BY <3>1, <3>2
  <2> QED
    BY <2>1 DEF QueuedOnce
<1> QED
  BY <1>4, <1>5, <1>6

LEMMA StepRequest == RequestInv /\ [Next]_vars => RequestInv'
<1> SUFFICES ASSUME RequestInv, [Next]_vars PROVE RequestInv'
  OBVIOUS
<1>1. TypeOK' /\ WritesRequest'
  BY StepType, StepWrites DEF RequestInv
<1> DEFINE Kept == NotYetSent' /\ QueuedOnce' /\ CarriedIsOk'
<1>2. \A s \in Sender : holds[s] \subseteq todo[s] /\ todo[s] \subseteq Peer
  BY DEF RequestInv, NotYetSent, TypeOK
<1>3. \A s \in Sender : pc[s] \in {"idle", "lookup"} => todo[s] = {} /\ holds[s] = {}
  BY DEF RequestInv, NotYetSent
<1>4. ASSUME UNCHANGED <<queue, wire, ack, pc, todo, holds>>
      PROVE  Kept
  <2>1. \A s \in Sender :
          /\ pc'[s] \in {"idle", "lookup"} =>
                pc[s] \in {"idle", "lookup"} /\ todo'[s] = {}
          /\ holds'[s] \subseteq todo'[s]
          /\ todo'[s] = todo[s]
    BY <1>2, <1>3, <1>4
  <2> QED
    BY <1>4, <2>1, RestKeeps
<1>5. ASSUME NEW p \in Peer, Remove(p) \/ Shutdown(p) \/ Check(p) \/ Receive(p)
                             \/ WriterDisconnects(p) \/ (Drain(p) /\ queue[p] = <<>>)
      PROVE  Kept
  BY <1>4, <1>5 DEF Remove, Shutdown, Check, Receive, WriterDisconnects, Drain,
                    writerVars, senderVars
<1>6. ASSUME StopCancel \/ StopDrain
      PROVE  Kept
  BY <1>4, <1>6 DEF StopCancel, StopDrain, writerVars, senderVars
<1>7. ASSUME NEW p \in Peer,
             WriteSucceeds(p) \/ WriteFails(p) \/ (Drain(p) /\ queue[p] # <<>>)
      PROVE  Kept
  BY <1>7, WriterTakes, TakeKeepsQueues, TakeKeepsWire, TakeKeepsUnsent DEF RequestInv
<1>8. ASSUME NEW p \in Peer, WriterReturns(p)
      PROVE  Kept
  BY <1>8, ReturnKeeps
<1>9. ASSUME NEW s \in Sender, Begin(s) \/ DropFuture(s) \/ AwaitUnicast(s)
                               \/ AwaitBroadcast(s) \/ FinishBroadcast(s)
      PROVE  Kept
  <2>1. UNCHANGED <<queue, wire, ack, todo, holds>>
    BY <1>9 DEF Begin, DropFuture, AwaitUnicast, AwaitBroadcast, FinishBroadcast,
                writerVars
  <2>2. \/ pc' = pc
        \/ \E l \in {"lookup", "done", "dropped"} :
              pc' = [pc EXCEPT ![s] = l] /\ (l = "lookup" => pc[s] = "idle")
    BY <1>9 DEF Begin, DropFuture, AwaitUnicast, AwaitBroadcast, FinishBroadcast,
                Goto, Return
  <2>3. \A t \in Sender : pc'[t] \in {"idle", "lookup"} => pc[t] \in {"idle", "lookup"}
    BY <2>2 DEF RequestInv, TypeOK
  <2> QED
    BY <1>2, <1>3, <2>1, <2>3, RestKeeps
<1>10. ASSUME NEW s \in Sender, Lookup(s)
       PROVE  Kept
  <2>1. UNCHANGED <<queue, wire, ack, holds>> /\ pc[s] = "lookup"
    BY <1>10 DEF Lookup, writerVars
  <2>2. \E l \in {"enqueue", "done"} : pc' = [pc EXCEPT ![s] = l]
    BY <1>10 DEF Lookup, Goto, Return
  <2>3. todo' \in [Sender -> SUBSET Peer]
    BY <1>1 DEF TypeOK
  <2>4. \A t \in Sender : t # s => todo'[t] = todo[t]
    BY <1>10 DEF Lookup, RequestInv, TypeOK
  <2>5. ASSUME NEW t \in Sender
        PROVE  /\ pc'[t] \in {"idle", "lookup"} =>
                     pc[t] \in {"idle", "lookup"} /\ todo'[t] = {}
               /\ holds'[t] \subseteq todo'[t]
               /\ \/ todo'[t] = todo[t]
                  \/ pc[t] \in {"idle", "lookup"} /\ todo'[t] \subseteq Peer
    <3>1. CASE t = s
      BY <1>3, <2>1, <2>2, <2>3, <3>1 DEF RequestInv, TypeOK
    <3>2. CASE t # s
      BY <1>2, <1>3, <2>1, <2>2, <2>4, <3>2 DEF RequestInv, TypeOK
    <3> QED
      BY <3>1, <3>2
  <2> QED
    BY <2>1, <2>5, RestKeeps
<1>11. ASSUME NEW s \in Sender, NEW p \in Peer, Clone(s, p)
       PROVE  Kept
  <2>1. CASE Enqueued(s, p, "refused") /\ UNCHANGED holds
    <3>1. /\ p \in todo[s] /\ pc[s] = "enqueue" /\ holds[s] = {}
          /\ UNCHANGED <<pc, wire, queue>>
      BY <1>11 DEF Clone, writerVars
    <3>2. holds' = [holds EXCEPT ![s] = {}]
      BY <2>1, <3>1 DEF RequestInv, TypeOK
    <3> QED
      BY <2>1, <3>1, <3>2, EnqueueKeeps
  <2>2. CASE holds' = [holds EXCEPT ![s] = {p}] /\ UNCHANGED <<ack, todo, pending>>
    <3>1. p \in todo[s] /\ UNCHANGED <<pc, wire, queue>>
      BY <1>11 DEF Clone, writerVars
    <3>2. \A t \in Sender : holds'[t] \subseteq todo[t]
      BY <1>2, <2>2, <3>1 DEF RequestInv, TypeOK
    <3> QED
      BY <1>3, <2>2, <3>1, <3>2, RestKeeps
  <2> QED
    BY <1>11, <2>1, <2>2 DEF Clone
<1>12. ASSUME NEW s \in Sender, NEW p \in Peer, Enqueue(s, p)
       PROVE  Kept
  <2>1. /\ p \in todo[s] /\ pc[s] = "enqueue" /\ UNCHANGED <<pc, wire>>
        /\ holds' = [holds EXCEPT ![s] = {}]
    BY <1>2, <1>12 DEF Enqueue, writerVars
  <2>2. CASE Enqueued(s, p, "refused") /\ queue' = queue
    BY <2>1, <2>2, EnqueueKeeps
  <2>3. CASE Enqueued(s, p, "queued") /\ queue' = [queue EXCEPT ![p] = Append(@, s)]
    BY <2>1, <2>3, EnqueueKeeps
  <2> QED
    BY <1>12, <2>2, <2>3 DEF Enqueue
<1>13. Kept
  <2>1. CASE UNCHANGED vars
    BY <1>4, <2>1 DEF vars
  <2> QED
    BY <2>1, <1>5, <1>6, <1>7, <1>8, <1>9, <1>10, <1>11, <1>12
       DEF Next, WriterStep, SenderStep
<1> QED
  BY <1>1, <1>13 DEF RequestInv

\* TypeOK and AnswersTruthful hold in every state.
THEOREM TypeCorrect == Spec => []TypeOK
<1>1. RequestInv => TypeOK
  BY DEF RequestInv
<1> QED
  BY <1>1, InitRequest, StepRequest, PTL DEF Spec

\* However a send ends, its sender is told the truth about the frame: Ok if the
\* whole frame is on the socket, an error only if it never will be.
THEOREM AnswersAlwaysTruthful == Spec => []AnswersTruthful
<1>1. RequestInv => AnswersTruthful
  <2> SUFFICES ASSUME RequestInv, NEW s \in Sender, NEW p \in Peer
               PROVE  /\ ack[s][p] = "ok" => Carried(s, p)
                      /\ Failed(s, p) => ~Carried(s, p)
    BY DEF AnswersTruthful
  <2>1. DOMAIN wire[p] = 1..Len(wire[p])
    BY DEF RequestInv, TypeOK
  <2>2. Carried(s, p) <=> ack[s][p] = "ok"
    BY <2>1 DEF RequestInv, CarriedIsOk, Carried
  <2> QED
    BY <2>2 DEF Failed
<1> QED
  BY <1>1, InitRequest, StepRequest, PTL DEF Spec

(***************************************************************************)
(* The table and the writer threads.                                       *)
(***************************************************************************)

\* A peer never comes back to the table, nor is a cancellation undone.
LEMMA NeverListedAgain ==
    ASSUME TypeOK, [Next]_vars
    PROVE  /\ cancelled => cancelled'
           /\ \A p \in Peer : peer'[p] = "listed" => peer[p] = "listed"
<1> USE DEF TypeOK
<1>1. CASE UNCHANGED <<cancelled, peer>>
  BY <1>1
<1>2. CASE cancelled' = cancelled /\ \E p : peer' = Removed(p)
  BY <1>2 DEF Removed
<1>3. CASE \E p \in Peer : Shutdown(p)
  BY <1>3 DEF Shutdown
<1>4. CASE StopCancel \/ StopDrain
  BY <1>4 DEF StopCancel, StopDrain
<1>5. ASSUME NEW p \in Peer, Remove(p) \/ WriterStep(p)
      PROVE  cancelled' = cancelled /\ (peer' = peer \/ \E q : peer' = Removed(q))
  BY <1>5 DEF Remove, WriterStep, Check, Receive, WriteSucceeds, WriteFails,
              WriteFailsTo, WriterDisconnects, Drain, WriterReturns, peerVars
<1>6. ASSUME NEW s \in Sender, AwaitUnicast(s) \/ AwaitBroadcast(s)
      PROVE  cancelled' = cancelled /\ (peer' = peer \/ \E q : peer' = Removed(q))
  BY <1>6 DEF AwaitUnicast, AwaitBroadcast
<1>7. ASSUME NEW s \in Sender, Begin(s) \/ DropFuture(s) \/ Lookup(s) \/ FinishBroadcast(s)
                               \/ \E p \in Peer : Clone(s, p) \/ Enqueue(s, p)
      PROVE  UNCHANGED <<cancelled, peer>>
  BY <1>7 DEF Begin, DropFuture, Lookup, FinishBroadcast, Clone, Enqueue, peerVars
<1> QED
  BY <1>1, <1>2, <1>3, <1>4, <1>5, <1>6, <1>7 DEF Next, SenderStep, vars

\* Only the writer moves its thread, and a torn connection is left by its writer.
TornIsLeft ==
    \A p \in torn : thread[p] \in {"failed", "drain", "return", "gone"}

LEMMA ThreadMoves ==
    ASSUME [Next]_vars
    PROVE  UNCHANGED writerVars \/ \E p \in Peer : WriterStep(p)
BY DEF Next, SenderStep, Remove, Shutdown, StopCancel, StopDrain, Begin, DropFuture,
       Lookup, AwaitUnicast, AwaitBroadcast, FinishBroadcast, Clone, Enqueue, vars,
       writerVars

LEMMA StepListed ==
    ASSUME TypeOK, ListedIsWritten, [Next]_vars
    PROVE  ListedIsWritten'
<1> USE DEF TypeOK, ListedIsWritten
<1>1. CASE UNCHANGED writerVars
  BY <1>1, NeverListedAgain DEF writerVars
<1>2. ASSUME NEW p \in Peer, WriterStep(p)
      PROVE  ListedIsWritten'
  <2>1. \A q \in Peer : q # p => thread'[q] = thread[q]
    BY <1>2 DEF WriterStep, Check, Receive, WriteSucceeds, WriteFails, WriteFailsTo,
                WriterDisconnects, Drain, WriterReturns, Move
  <2>2. peer'[p] = "listed" /\ ~cancelled' =>
           thread'[p] \in {"loop", "receive", "write", "failed"}
    <3>1. CASE Check(p)
      BY <3>1 DEF Check, Move, peerVars
    <3>2. CASE Receive(p)
      BY <3>2 DEF Receive, Move, Disconnected, peerVars
    <3>3. CASE WriteSucceeds(p) \/ WriteFails(p)
      BY <3>3 DEF WriteSucceeds, WriteFails, WriteFailsTo, Move, peerVars
    <3>4. CASE WriterDisconnects(p)
      BY <3>4 DEF WriterDisconnects, Removed
    <3>5. CASE Drain(p) \/ WriterReturns(p)
      BY <3>5, NeverListedAgain DEF Drain, WriterReturns
    <3> QED
      BY <1>2, <3>1, <3>2, <3>3, <3>4, <3>5 DEF WriterStep
  <2> QED
    BY <2>1, <2>2, NeverListedAgain
<1> QED
  BY <1>1, <1>2, ThreadMoves

\* A peer in the table of a running transport has a writer that still serves it:
\* this is why a broadcast may return early without leaving a dead peer behind.
THEOREM ListedAlwaysWritten == Spec => []ListedIsWritten
<1>1. Init => ListedIsWritten
  BY DEF Init, ListedIsWritten
<1> QED
  BY <1>1, TypeCorrect, StepListed, PTL DEF Spec

LEMMA StepTorn ==
    ASSUME TypeOK, TornIsLeft, [Next]_vars
    PROVE  TornIsLeft' /\ \A p \in torn : wire'[p] = wire[p]
<1> USE DEF TypeOK, TornIsLeft
<1>1. CASE UNCHANGED writerVars
  BY <1>1 DEF writerVars
<1>2. ASSUME NEW p \in Peer, WriterStep(p)
      PROVE  TornIsLeft' /\ \A q \in torn : wire'[q] = wire[q]
  <2>1. CASE Check(p) \/ Receive(p) \/ WriterDisconnects(p)
    BY <2>1 DEF Check, Receive, WriterDisconnects, Move
  <2>2. CASE WriteSucceeds(p)
    BY <2>2 DEF WriteSucceeds, Move
  <2>3. CASE WriteFails(p)
    BY <2>3 DEF WriteFails, WriteFailsTo, Move
  <2>4. CASE Drain(p) \/ WriterReturns(p)
    <3>1. UNCHANGED <<torn, wire>>
      BY <2>4 DEF Drain, WriterReturns
    <3>2. \/ thread' = thread
          \/ \E t \in {"return", "gone"} : thread' = [thread EXCEPT ![p] = t]
      BY <2>4 DEF Drain, WriterReturns, Move
    <3> QED
      BY <3>1, <3>2
  <2> QED
    BY <1>2, <2>1, <2>2, <2>3, <2>4 DEF WriterStep
<1> QED
  BY <1>1, <1>2, ThreadMoves

\* After a frame that was cut off nothing more is written: the receiver cannot
\* take the middle of a frame for a length.
THEOREM TornAlwaysLast == Spec => TornIsLast
<1>1. Init => TornIsLeft
  BY DEF Init, TornIsLeft
<1>2. TypeOK /\ TornIsLeft /\ [Next]_vars => [\A p \in torn : wire'[p] = wire[p]]_vars
  BY StepTorn
<1>3. TypeOK /\ TornIsLeft /\ [Next]_vars => TornIsLeft'
  BY StepTorn
<1> QED
  BY <1>1, <1>2, <1>3, TypeCorrect, PTL DEF Spec, TornIsLast

(***************************************************************************)
(* The order on the wire.                                                  *)
(***************************************************************************)

\* While the writer serves its queue, what the channel took is what is on the
\* wire followed by what is in the queue.
Serves(p) == thread[p] \in {"loop", "receive", "write"}

OrderOf(p) ==
    /\ Len(wire[p]) <= Len(accepted[p])
    /\ \A i \in 1..Len(wire[p]) : wire[p][i] = accepted[p][i]
    /\ Serves(p) =>
          /\ Len(accepted[p]) = Len(wire[p]) + Len(queue[p])
          /\ \A i \in 1..Len(queue[p]) : queue[p][i] = accepted[p][Len(wire[p]) + i]

OrderInv == \A p \in Peer : OrderOf(p)

LEMMA InitOrder == Init => OrderInv
<1> SUFFICES ASSUME Init, NEW p \in Peer
             PROVE  OrderOf(p)
  BY DEF OrderInv
<1>1. wire[p] = <<>> /\ queue[p] = <<>> /\ accepted[p] = <<>>
  BY DEF Init
<1>2. Len(<<>>) = 0
  BY EmptySeq
<1> QED
  BY <1>1, <1>2 DEF OrderOf

LEMMA AppendElements ==
    ASSUME NEW S, NEW q \in Seq(S), NEW e \in S
    PROVE  /\ Append(q, e) \in Seq(S)
           /\ Len(Append(q, e)) = Len(q) + 1 /\ Len(q) \in Nat
           /\ Append(q, e)[Len(q) + 1] = e
           /\ \A i \in 1..Len(q) : Append(q, e)[i] = q[i]
OBVIOUS

\* The frame at the head of the queue is the next one on the wire.
LEMMA WriteKeepsOrder ==
    ASSUME RequestInv, NEW p \in Peer, OrderOf(p), WriteSucceeds(p)
    PROVE  OrderOf(p)'
<1> DEFINE r == Head(queue[p])
           rest == Tail(queue[p])
           w == wire[p]
           q == queue[p]
           a == accepted[p]
<1>1. q # <<>> /\ thread[p] = "write"
  BY DEF WriteSucceeds, RequestInv, WritesRequest
<1>2. /\ r \in Sender /\ r = q[1] /\ Len(q) \in Nat \ {0} /\ Len(rest) = Len(q) - 1
      /\ \A i \in 1..Len(rest) : rest[i] = q[i + 1]
  BY <1>1, TakenRequest DEF RequestInv
<1>3. w \in Seq(Sender) /\ Len(a) \in Nat
  BY DEF RequestInv, TypeOK
<1>4. wire'[p] = Append(w, r) /\ queue'[p] = rest /\ accepted'[p] = a
  BY DEF WriteSucceeds, RequestInv, TypeOK
<1>5. /\ Len(a) = Len(w) + Len(q)
      /\ \A i \in 1..Len(w) : w[i] = a[i]
      /\ \A i \in 1..Len(q) : q[i] = a[Len(w) + i]
  BY <1>1 DEF OrderOf, Serves
<1> HIDE DEF r, rest, w, q, a
<1>6. /\ Len(Append(w, r)) = Len(w) + 1 /\ Len(w) \in Nat
      /\ Append(w, r)[Len(w) + 1] = r
      /\ \A i \in 1..Len(w) : Append(w, r)[i] = w[i]
  BY <1>2, <1>3, AppendElements
<1>7. \A i \in 1..Len(Append(w, r)) : Append(w, r)[i] = a[i]
  <2>1. r = a[Len(w) + 1]
    BY <1>2, <1>5
  <2> QED
    BY <1>5, <1>6, <2>1
<1>8. \A i \in 1..Len(rest) : rest[i] = a[Len(w) + 1 + i]
  <2> TAKE i \in 1..Len(rest)
  <2>1. i + 1 \in 1..Len(q) /\ rest[i] = q[i + 1]
    BY <1>2
  <2>2. q[i + 1] = a[Len(w) + (i + 1)]
    BY <1>5, <2>1
  <2>3. Len(w) + (i + 1) = Len(w) + 1 + i
    BY <1>6
  <2> QED
    BY <2>1, <2>2, <2>3
<1>9. Len(a) = Len(Append(w, r)) + Len(rest) /\ Len(Append(w, r)) <= Len(a)
  BY <1>2, <1>3, <1>5, <1>6
<1>10. \A i \in 1..Len(rest) : rest[i] = a[Len(Append(w, r)) + i]
  BY <1>6, <1>8
<1> QED
  BY <1>4, <1>7, <1>9, <1>10 DEF OrderOf

\* What is put into the channel comes last in both.
LEMMA EnqueueKeepsOrder ==
    ASSUME RequestInv, NEW s \in Sender, NEW p \in Peer, OrderOf(p), Enqueue(s, p)
    PROVE  OrderOf(p)'
<1> DEFINE w == wire[p]
           q == queue[p]
           a == accepted[p]
<1>1. w \in Seq(Sender) /\ q \in Seq(Sender) /\ a \in Seq(Sender)
  BY DEF RequestInv, TypeOK
<1>2. wire'[p] = w /\ thread'[p] = thread[p]
  BY DEF Enqueue, writerVars
<1>3. CASE queue'[p] = q /\ accepted'[p] = a
  BY <1>2, <1>3 DEF OrderOf, Serves
<1>4. CASE queue'[p] = Append(q, s) /\ accepted'[p] = Append(a, s)
  <2> HIDE DEF w, q, a
  <2>1. /\ Len(Append(q, s)) = Len(q) + 1 /\ Len(q) \in Nat
        /\ Append(q, s)[Len(q) + 1] = s
        /\ \A i \in 1..Len(q) : Append(q, s)[i] = q[i]
    BY <1>1, AppendElements
  <2>2. /\ Len(Append(a, s)) = Len(a) + 1 /\ Len(a) \in Nat
        /\ Append(a, s)[Len(a) + 1] = s
        /\ \A i \in 1..Len(a) : Append(a, s)[i] = a[i]
    BY <1>1, AppendElements
  <2>3. Len(w) \in Nat
    BY <1>1
  <2>4. /\ Len(w) <= Len(a)
        /\ \A i \in 1..Len(w) : w[i] = a[i]
        /\ Serves(p) =>
              /\ Len(a) = Len(w) + Len(q)
              /\ \A i \in 1..Len(q) : q[i] = a[Len(w) + i]
    BY DEF OrderOf, w, q, a
  <2>5. ASSUME Serves(p)
        PROVE  /\ Len(Append(a, s)) = Len(w) + Len(Append(q, s))
               /\ \A i \in 1..Len(Append(q, s)) : Append(q, s)[i] = Append(a, s)[Len(w) + i]
    <3>0. Len(a) = Len(w) + Len(q) /\ Len(q) \in Nat /\ Len(w) \in Nat
      BY <2>1, <2>3, <2>4, <2>5
    <3>1. Len(Append(a, s)) = Len(w) + Len(Append(q, s))
      BY <2>1, <2>2, <3>0
    <3>2. ASSUME NEW i \in 1..Len(Append(q, s))
          PROVE  Append(q, s)[i] = Append(a, s)[Len(w) + i]
      <4>1. CASE i = Len(q) + 1
        <5>1. Len(w) + i = Len(a) + 1
          BY <3>0, <4>1
        <5>2. Append(q, s)[i] = s
          BY <2>1, <4>1
        <5>3. Append(a, s)[Len(w) + i] = s
          BY <2>2, <5>1
        <5> QED
          BY <5>2, <5>3
      <4>2. CASE i \in 1..Len(q)
        <5>1. Len(w) + i \in 1..Len(a)
          BY <3>0, <4>2
        <5>2. Append(a, s)[Len(w) + i] = a[Len(w) + i]
          BY <2>2, <5>1
        <5>3. Append(q, s)[i] = q[i]
          BY <2>1, <4>2
        <5>4. q[i] = a[Len(w) + i]
          BY <2>4, <2>5, <4>2
        <5> QED
          BY <5>2, <5>3, <5>4
      <4>3. i = Len(q) + 1 \/ i \in 1..Len(q)
        BY <2>1
      <4> QED
        BY <4>1, <4>2, <4>3
    <3> QED
      BY <3>1, <3>2
  <2>6. /\ Len(w) <= Len(Append(a, s))
        /\ \A i \in 1..Len(w) : w[i] = Append(a, s)[i]
    BY <2>2, <2>3, <2>4
  <2>7. wire'[p] = w /\ queue'[p] = Append(q, s) /\ accepted'[p] = Append(a, s)
    BY <1>2, <1>4
  <2>8. Serves(p)' <=> Serves(p)
    BY <1>2 DEF Serves
  <2> QED
    BY <2>5, <2>6, <2>7, <2>8 DEF OrderOf
<1> QED
  <2>1. (queue'[p] = q /\ accepted'[p] = a)
           \/ (queue'[p] = Append(q, s) /\ accepted'[p] = Append(a, s))
    BY DEF Enqueue, RequestInv, TypeOK
  <2> QED
    BY <1>3, <1>4, <2>1

\* The steps that do not concern p's queue and wire, and those of a writer that
\* serves no more.
LEMMA QuietOrder ==
    ASSUME NEW p \in Peer, OrderOf(p), UNCHANGED <<wire[p], accepted[p]>>,
           Serves(p)' => Serves(p) /\ queue'[p] = queue[p]
    PROVE  OrderOf(p)'
BY DEF OrderOf, Serves

LEMMA StepOrder == RequestInv /\ OrderInv /\ [Next]_vars => OrderInv'
<1> SUFFICES ASSUME RequestInv, OrderInv, [Next]_vars, NEW p \in Peer
             PROVE  OrderOf(p)'
  BY DEF OrderInv
<1>1. OrderOf(p)
  BY DEF OrderInv
<1>2. ASSUME UNCHANGED <<thread, queue, wire, accepted>>
      PROVE  OrderOf(p)'
  BY <1>1, <1>2, QuietOrder DEF Serves
<1>3. ASSUME NEW r \in Peer, WriterStep(r)
      PROVE  OrderOf(p)'
  <2>1. CASE r # p
    <3>1. UNCHANGED <<thread[p], queue[p], wire[p], accepted[p]>>
      BY <1>3, <2>1 DEF WriterStep, Check, Receive, WriteSucceeds, WriteFails,
         WriteFailsTo, WriterDisconnects, Drain, WriterReturns, Move, RequestInv, TypeOK
    <3> QED
      BY <1>1, <3>1, QuietOrder DEF Serves
  <2>2. CASE r = p /\ WriteSucceeds(p)
    BY <1>1, <2>2, WriteKeepsOrder
  <2>3. CASE r = p /\ (Check(p) \/ Receive(p))
    <3>1. UNCHANGED <<queue, wire, accepted>> /\ Serves(p)
      BY <2>3 DEF Check, Receive, Serves
    <3> QED
      BY <1>1, <3>1, QuietOrder
  <2>4. CASE r = p /\ (WriteFails(p) \/ WriterDisconnects(p) \/ Drain(p) \/ WriterReturns(p))
    <3>1. UNCHANGED <<wire, accepted>>
      BY <2>4 DEF WriteFails, WriteFailsTo, WriterDisconnects, Drain, WriterReturns
    <3>2. thread'[p] \notin {"loop", "receive", "write"}
      BY <2>4 DEF WriteFails, WriteFailsTo, WriterDisconnects, Drain, WriterReturns,
                  Move, RequestInv, TypeOK
    <3> QED
      BY <1>1, <3>1, <3>2, QuietOrder DEF Serves
  <2> QED
    BY <1>3, <2>1, <2>2, <2>3, <2>4 DEF WriterStep
<1>4. ASSUME NEW s \in Sender, NEW r \in Peer, Enqueue(s, r)
      PROVE  OrderOf(p)'
  <2>1. CASE r = p
    BY <1>1, <1>4, <2>1, EnqueueKeepsOrder
  <2>2. CASE r # p
    <3>1. UNCHANGED <<thread[p], queue[p], wire[p], accepted[p]>>
      BY <1>4, <2>2 DEF Enqueue, writerVars, RequestInv, TypeOK
    <3> QED
      BY <1>1, <3>1, QuietOrder DEF Serves
  <2> QED
    BY <2>1, <2>2
<1>5. ASSUME NEW s \in Sender,
             \/ Begin(s) \/ DropFuture(s) \/ Lookup(s) \/ AwaitUnicast(s)
             \/ AwaitBroadcast(s) \/ FinishBroadcast(s) \/ \E r \in Peer : Clone(s, r)
      PROVE  OrderOf(p)'
  BY <1>2, <1>5 DEF Begin, DropFuture, Lookup, AwaitUnicast, AwaitBroadcast,
                    FinishBroadcast, Clone, writerVars
<1>6. ASSUME StopCancel \/ StopDrain \/ \E r \in Peer : Remove(r) \/ Shutdown(r)
      PROVE  OrderOf(p)'
  BY <1>2, <1>6 DEF StopCancel, StopDrain, Remove, Shutdown, writerVars
<1> QED
  BY <1>2, <1>3, <1>4, <1>5, <1>6 DEF Next, SenderStep, vars

\* What a connection carries is a prefix of what its channel took.
THEOREM AlwaysCarriesPrefix == Spec => []CarriesPrefix
<1>1. TypeOK /\ OrderInv => CarriesPrefix
  <2> SUFFICES ASSUME TypeOK, OrderInv, NEW p \in Peer
               PROVE  /\ Len(wire[p]) <= Len(accepted[p])
                      /\ \A i \in DOMAIN wire[p] : wire[p][i] = accepted[p][i]
    BY DEF CarriesPrefix
  <2>1. DOMAIN wire[p] = 1..Len(wire[p])
    BY DEF TypeOK
  <2> QED
    BY <2>1 DEF OrderInv, OrderOf
<1> QED
  BY <1>1, InitRequest, StepRequest, InitOrder, StepOrder, PTL DEF Spec, RequestInv

(***************************************************************************)
(* Broadcasts.  What a broadcast has enqueued, it still waits for, unless  *)
(* the frame is on the socket or the peer has left the table.              *)
(***************************************************************************)
Awaits(s, p) == \E i \in 1..Len(pending[s]) : pending[s][i] = p

AwaitedInv ==
    \A s \in Broadcaster, p \in Peer :
        ack[s][p] \notin {"none", "ok"} /\ peer[p] = "listed" => Awaits(s, p)

OkIsLast ==
    \A s \in Broadcaster : result[s] = "ok" => pc[s] = "done" /\ pending[s] = <<>>

\* An acknowledgement that is known, Ok above all, does not change any more.
LEMMA AckMoves ==
    ASSUME RequestInv, [Next]_vars, NEW s \in Sender, NEW p \in Peer
    PROVE  \/ ack'[s][p] = ack[s][p]
           \/ ack[s][p] = "queued"
           \/ Enqueued(s, p, "refused") \/ Enqueued(s, p, "queued")
<1> USE DEF RequestInv, TypeOK
<1>1. CASE ack' = ack
  BY <1>1
<1>2. ASSUME NEW q \in Peer, WriteSucceeds(q) \/ WriteFails(q) \/ (Drain(q) /\ queue[q] # <<>>)
      PROVE  ack'[s][p] = ack[s][p] \/ ack[s][p] = "queued"
  <2>1. PICK a : TakeAndAnswer(q, a)
    BY <1>2, WriterTakes
  <2>2. /\ queue[q] # <<>> /\ ack' = [ack EXCEPT ![Head(queue[q])][q] = a]
    BY <2>1 DEF TakeAndAnswer, Acknowledge
  <2>3. /\ Head(queue[q]) = queue[q][1] /\ 1 \in 1..Len(queue[q])
        /\ Head(queue[q]) \in Sender
    BY <2>2, TakenRequest
  <2>4. ack[Head(queue[q])][q] = "queued"
    BY <2>3 DEF QueuedOnce
  <2> QED
    BY <2>2, <2>3, <2>4
<1>3. ASSUME NEW q \in Peer, WriterReturns(q)
      PROVE  ack'[s][p] = ack[s][p] \/ ack[s][p] = "queued"
  <2>1. DOMAIN queue[q] = 1..Len(queue[q])
    OBVIOUS
  <2>2. CASE q = p /\ \E i \in 1..Len(queue[q]) : queue[q][i] = s
    BY <2>2 DEF QueuedOnce
  <2>3. CASE ~(q = p /\ \E i \in 1..Len(queue[q]) : queue[q][i] = s)
    BY <1>3, <2>1, <2>3 DEF WriterReturns
  <2> QED
    BY <2>2, <2>3
<1>4. ASSUME NEW r \in Sender, NEW q \in Peer, Clone(r, q) \/ Enqueue(r, q)
      PROVE  \/ ack'[s][p] = ack[s][p]
             \/ Enqueued(s, p, "refused") \/ Enqueued(s, p, "queued")
  <2>1. CASE ack' = ack
    BY <2>1
  <2>2. CASE Enqueued(r, q, "refused") \/ Enqueued(r, q, "queued")
    <3>1. \E a : ack' = [ack EXCEPT ![r][q] = a]
      BY <2>2 DEF Enqueued, Acknowledge
    <3>2. r # s \/ q # p => ack'[s][p] = ack[s][p]
      BY <3>1
    <3> QED
      BY <2>2, <3>2
  <2> QED
    BY <1>4, <2>1, <2>2 DEF Clone, Enqueue
<1>5. ack' = ack \/ \E q \in Peer :
         \/ WriteSucceeds(q) \/ WriteFails(q) \/ (Drain(q) /\ queue[q] # <<>>)
         \/ WriterReturns(q) \/ \E r \in Sender : Clone(r, q) \/ Enqueue(r, q)
  BY DEF Next, vars, WriterStep, SenderStep, Remove, Shutdown, StopCancel, StopDrain,
     Check, Receive, WriterDisconnects, Drain, Begin, Lookup, AwaitUnicast,
     AwaitBroadcast, FinishBroadcast, DropFuture
<1> QED
  BY <1>1, <1>2, <1>3, <1>4, <1>5

\* A broadcast gives up waiting for a peer only when it has the frame or is not in
\* the table any more.
LEMMA AwaitMoves ==
    ASSUME RequestInv, [Next]_vars, NEW s \in Broadcaster, NEW p \in Peer
    PROVE  Awaits(s, p) => Awaits(s, p)' \/ ack[s][p] = "ok" \/ peer'[p] # "listed"
<1> SUFFICES ASSUME NEW i \in 1..Len(pending[s]), pending[s][i] = p
             PROVE  Awaits(s, p)' \/ ack[s][p] = "ok" \/ peer'[p] # "listed"
  BY DEF Awaits
<1>0. s \in Sender /\ pending[s] \in Seq(Peer) /\ pending \in [Sender -> Seq(Peer)]
  BY DEF RequestInv, TypeOK
<1>1. CASE pending'[s] = pending[s]
  BY <1>1 DEF Awaits
<1>2. ASSUME NEW q \in Peer, pending'[s] = Append(pending[s], q)
      PROVE  Awaits(s, p)'
  <2>1. /\ Len(pending'[s]) = Len(pending[s]) + 1 /\ Len(pending[s]) \in Nat
        /\ pending'[s][i] = pending[s][i]
    BY <1>0, <1>2, AppendElements
  <2> QED
    BY <2>1 DEF Awaits
<1>3. CASE AwaitBroadcast(s) /\ pending' # pending
  <2> DEFINE first == Head(pending[s])
  <2>1. /\ pending[s] # <<>> /\ pending'[s] = Tail(pending[s])
        /\ ack[s][first] = "ok" \/ peer' = Removed(first)
    BY <1>0, <1>3 DEF AwaitBroadcast
  <2>2. /\ first = pending[s][1] /\ Len(Tail(pending[s])) = Len(pending[s]) - 1
        /\ \A j \in 1..Len(Tail(pending[s])) : Tail(pending[s])[j] = pending[s][j + 1]
        /\ Len(pending[s]) \in Nat
    BY <1>0, <2>1, HeadTailProperties
  <2>3. CASE i = 1
    <3>1. first = p
      BY <2>2, <2>3
    <3> QED
      BY <2>1, <3>1 DEF Removed, RequestInv, TypeOK
  <2>4. CASE i # 1
    <3>1. i - 1 \in 1..Len(Tail(pending[s])) /\ Tail(pending[s])[i - 1] = pending[s][i]
      BY <2>2, <2>4
    <3> QED
      BY <2>1, <3>1 DEF Awaits
  <2> QED
    BY <2>3, <2>4
<1>4. \/ pending'[s] = pending[s] \/ \E q \in Peer : pending'[s] = Append(pending[s], q)
      \/ AwaitBroadcast(s) /\ pending' # pending
  <2>1. CASE pending' = pending
    BY <2>1
  <2>2. ASSUME NEW r \in Sender, NEW q \in Peer,
               Enqueued(r, q, "refused") \/ Enqueued(r, q, "queued")
        PROVE  pending'[s] = pending[s] \/ pending'[s] = Append(pending[s], q)
    BY <1>0, <2>2 DEF Enqueued
  <2>3. ASSUME NEW r \in Sender, AwaitBroadcast(r), r # s
        PROVE  pending'[s] = pending[s]
    BY <1>0, <2>3 DEF AwaitBroadcast
  <2>4. \/ pending' = pending \/ \E r \in Sender : AwaitBroadcast(r)
        \/ \E r \in Sender, q \in Peer :
              Enqueued(r, q, "refused") \/ Enqueued(r, q, "queued")
    BY DEF Next, vars, senderVars, WriterStep, SenderStep, Remove, Shutdown, StopCancel,
       StopDrain, Check, Receive, WriteSucceeds, WriteFails, WriteFailsTo,
       WriterDisconnects, Drain, WriterReturns, Begin, Lookup, Clone, Enqueue,
       AwaitUnicast, FinishBroadcast, DropFuture
  <2> QED
    BY <2>1, <2>2, <2>3, <2>4
<1> QED
  BY <1>1, <1>2, <1>3, <1>4

LEMMA StepAwaited ==
    RequestInv /\ AwaitedInv /\ [Next]_vars => AwaitedInv'
<1> SUFFICES ASSUME RequestInv, AwaitedInv, [Next]_vars,
                    NEW s \in Broadcaster, NEW p \in Peer,
                    ack'[s][p] \notin {"none", "ok"}, peer'[p] = "listed"
             PROVE  Awaits(s, p)'
  BY DEF AwaitedInv
<1>0. s \in Sender /\ peer[p] = "listed"
  BY NeverListedAgain DEF RequestInv
<1>1. CASE ack[s][p] \notin {"none", "ok"}
  BY <1>0, <1>1, AwaitMoves DEF AwaitedInv
<1>2. CASE Enqueued(s, p, "refused") \/ Enqueued(s, p, "queued")
  <2>1. pending'[s] = Append(pending[s], p) /\ pending[s] \in Seq(Peer)
    BY <1>0, <1>2 DEF Enqueued, RequestInv, TypeOK
  <2>2. /\ Len(pending'[s]) = Len(pending[s]) + 1 /\ Len(pending[s]) \in Nat
        /\ pending'[s][Len(pending[s]) + 1] = p
    BY <2>1, AppendElements
  <2> QED
    BY <2>2 DEF Awaits
<1> QED
  BY <1>0, <1>1, <1>2, AckMoves

LEMMA StepOkIsLast == TypeOK /\ OkIsLast /\ [Next]_vars => OkIsLast'
<1> SUFFICES ASSUME TypeOK, OkIsLast, [Next]_vars, NEW s \in Broadcaster, result'[s] = "ok"
             PROVE  pc'[s] = "done" /\ pending'[s] = <<>>
  BY DEF OkIsLast
<1> USE DEF TypeOK
<1>1. CASE result[s] = "ok"
  <2>1. pc[s] = "done" /\ pending[s] = <<>>
    BY <1>1 DEF OkIsLast
  <2>2. \A r \in Sender, q \in Peer, a \in Answers :
            Enqueued(r, q, a) /\ r # s => pending'[s] = <<>>
    BY <2>1 DEF Enqueued
  <2>3. ASSUME NEW r \in Sender, NEW q \in Peer, Clone(r, q) \/ Enqueue(r, q)
        PROVE  pc'[s] = "done" /\ pending'[s] = <<>>
    BY <2>1, <2>2, <2>3 DEF Clone, Enqueue, Answers
  <2>4. ASSUME NEW r \in Sender,
               \/ Begin(r) \/ Lookup(r) \/ AwaitUnicast(r) \/ AwaitBroadcast(r)
               \/ FinishBroadcast(r) \/ DropFuture(r)
        PROVE  pc'[s] = "done" /\ pending'[s] = <<>>
    BY <2>1, <2>4 DEF Begin, Lookup, AwaitUnicast, AwaitBroadcast, FinishBroadcast,
       DropFuture, Waiting, Return, Goto
  <2>5. CASE UNCHANGED <<pc, pending>>
    BY <2>1, <2>5
  <2> QED
    BY <2>3, <2>4, <2>5 DEF Next, vars, senderVars, WriterStep, SenderStep, Remove,
       Shutdown, StopCancel, StopDrain, Check, Receive, WriteSucceeds, WriteFails,
       WriteFailsTo, WriterDisconnects, Drain, WriterReturns
<1>2. CASE result[s] # "ok"
  <2>1. ASSUME NEW r \in Sender, FinishBroadcast(r)
        PROVE  pc'[s] = "done" /\ pending'[s] = <<>>
    BY <1>2, <2>1 DEF FinishBroadcast, Return, Goto
  <2>2. ASSUME NEW r \in Sender,
               \/ Begin(r) \/ Lookup(r) \/ AwaitUnicast(r) \/ AwaitBroadcast(r)
               \/ DropFuture(r)
        PROVE  FALSE
    BY <1>2, <2>2 DEF Begin, Lookup, AwaitUnicast, AwaitBroadcast, DropFuture, Waiting,
       Return, Goto
  <2>3. result' # result
    BY <1>2
  <2> QED
    BY <2>1, <2>2, <2>3 DEF Next, vars, senderVars, WriterStep, SenderStep, Remove,
       Shutdown, StopCancel, StopDrain, Check, Receive, WriteSucceeds, WriteFails,
       WriteFailsTo, WriterDisconnects, Drain, WriterReturns, Clone, Enqueue
<1> QED
  BY <1>1, <1>2

\* A broadcast that returned Ok has reached every peer that was in the table and
\* has not left it, whatever failed while it waited.
THEOREM BroadcastAlwaysReaches == Spec => []BroadcastReaches
<1>1. Init => AwaitedInv /\ OkIsLast
  BY DEF Init, AwaitedInv, OkIsLast
<1>2. RequestInv /\ AwaitedInv /\ OkIsLast => BroadcastReaches
  <2> SUFFICES ASSUME RequestInv, AwaitedInv, OkIsLast, NEW s \in Broadcaster,
                      result[s] = "ok", NEW p \in Peer, ack[s][p] # "none",
                      peer[p] = "listed"
               PROVE  Carried(s, p)
    BY DEF BroadcastReaches
  <2>1. ~Awaits(s, p)
    BY EmptySeq DEF OkIsLast, Awaits
  <2>2. ack[s][p] = "ok" /\ DOMAIN wire[p] = 1..Len(wire[p])
    BY <2>1 DEF AwaitedInv, RequestInv, TypeOK
  <2> QED
    BY <2>2 DEF RequestInv, CarriedIsOk, Carried
<1>3. RequestInv => TypeOK
  BY DEF RequestInv
<1> QED
  BY <1>1, <1>2, <1>3, InitRequest, StepRequest, StepAwaited, StepOkIsLast, PTL DEF Spec

(***************************************************************************)
(* Numbers and their digits (Framing).                                     *)
(***************************************************************************)

\* Induction over the natural numbers, with a set for the statement.
LEMMA Inductive ==
    ASSUME NEW T, 0 \in T, \A n \in Nat : n \in T => n + 1 \in T
    PROVE  Nat \subseteq T
<1> DEFINE R == {ss \in Nat \X Nat : ss[1] < ss[2]}
<1>1. IsWellFoundedOn(R, Nat)
  BY NatLessThanWellFounded DEF OpToRel
<1> SUFFICES ASSUME Nat \ T # {} PROVE FALSE
  OBVIOUS
<1>2. \E x \in Nat \ T : \A y \in Nat \ T : ~ (<<y, x>> \in R)
  <2> HIDE DEF R
  <2> QED
    BY <1>1, WFMin
<1>3. PICK x \in Nat \ T : \A y \in Nat \ T : ~ (<<y, x>> \in R)
  BY <1>2
<1>4. x - 1 \in Nat /\ x - 1 \notin T
  OBVIOUS
<1>5. <<x - 1, x>> \in R
  BY <1>4
<1> QED
  BY <1>3, <1>4, <1>5

LEMMA PowerDefined ==
    F!Power = [n \in 0..Width |-> IF n = 0 THEN 1 ELSE Base * F!Power[n - 1]]
<1> DEFINE Fits(n, f) == f = [i \in 0..n |-> IF i = 0 THEN 1 ELSE Base * f[i - 1]]
           T == {n \in Nat : \E f : Fits(n, f)}
<1>1. 0 \in T
  <2>1. Fits(0, [i \in 0..0 |-> 1])
    OBVIOUS
  <2> QED
    BY <2>1
<1>2. ASSUME NEW n \in Nat, n \in T PROVE n + 1 \in T
  <2>1. PICK f : Fits(n, f)
    BY <1>2
  <2> DEFINE g == [i \in 0..n+1 |-> IF i = n + 1 THEN Base * f[n] ELSE f[i]]
  <2>2. Fits(n + 1, g)
    <3>1. \A i \in 0..n+1 : g[i] = IF i = 0 THEN 1 ELSE Base * g[i - 1]
      BY <2>1
    <3> QED
      BY <3>1
  <2>3. \E h : Fits(n + 1, h)
    <3> HIDE DEF Fits, g
    <3> QED
      BY <2>2
  <2> QED
    BY <2>3
<1>3. Width \in T
  BY <1>1, <1>2, Inductive, FramingAssumption
<1>4. \E f : Fits(Width, f)
  BY <1>3
<1> QED
  BY <1>4 DEF F!Power

LEMMA PowerFacts ==
    /\ F!Power[0] = 1
    /\ \A n \in 0..Width : F!Power[n] \in Nat \ {0}
    /\ \A n \in 0..Width-1 : F!Power[n + 1] = Base * F!Power[n]
<1> USE FramingAssumption
<1>1. \A n \in 0..Width : F!Power[n] = IF n = 0 THEN 1 ELSE Base * F!Power[n - 1]
  BY PowerDefined
<1> HIDE DEF F!Power
<1>2. F!Power[0] = 1
  BY <1>1
<1>3. \A n \in 0..Width-1 : F!Power[n + 1] = Base * F!Power[n]
  BY <1>1
<1> DEFINE T == {n \in Nat : n \in 0..Width => F!Power[n] \in Nat \ {0}}
<1>4. 0 \in T
  BY <1>2
<1>5. ASSUME NEW n \in Nat, n \in T PROVE n + 1 \in T
  <2> SUFFICES ASSUME n + 1 \in 0..Width PROVE F!Power[n + 1] \in Nat \ {0}
    OBVIOUS
  <2>1. n \in 0..Width-1 /\ F!Power[n] \in Nat \ {0}
    BY <1>5
  <2>2. F!Power[n + 1] = Base * F!Power[n]
    BY <1>3, <2>1
  <2> DEFINE p == F!Power[n]
  <2>3. p \in Nat \ {0} /\ F!Power[n + 1] = Base * p
    BY <2>1, <2>2
  <2> HIDE DEF p
  <2>4. Base * p \in Nat \ {0}
    BY <2>3
  <2> QED
    BY <2>3, <2>4
<1>6. \A n \in 0..Width : F!Power[n] \in Nat \ {0}
  <2>1. Nat \subseteq T
    <3> HIDE DEF T
    <3> QED
      BY <1>4, <1>5, Inductive
  <2> QED
    BY <2>1
<1> QED
  BY <1>2, <1>3, <1>6

\* Half of all numbers of Width digits are not negative.
LEMMA Maximum ==
    /\ F!IntMax \in Nat /\ F!IntMin \in Int
    /\ F!Power[Width] > 2 * F!IntMax + 1 /\ F!Power[Width] \in Nat \ {0}
<1>1. Width - 1 \in 0..Width-1 /\ Width - 1 \in 0..Width /\ Width \in 0..Width
  BY FramingAssumption
<1> DEFINE p == F!Power[Width - 1]
           q == F!Power[Width]
<1>2. p \in Nat \ {0} /\ q = Base * p
  <2>1. (Width - 1) + 1 = Width
    BY FramingAssumption
  <2> QED
    BY <1>1, <2>1, PowerFacts
<1>3. F!IntMax = q \div 2 - 1 /\ F!IntMin = -F!IntMax - 1
  BY DEF F!IntMax, F!IntMin
<1> HIDE DEF p, q
<1>4. q \in Nat /\ q >= 2
  BY <1>2, FramingAssumption
<1>5. q \div 2 \in Nat /\ q \div 2 >= 1 /\ 2 * (q \div 2) <= q
  BY <1>4
<1> QED
  BY <1>3, <1>4, <1>5 DEF q

\* The remainder is the one number in reach.
LEMMA Remainder ==
    ASSUME NEW m \in Nat \ {0}, NEW s \in Int, NEW t \in 0..m-1
    PROVE  (m * s + t) % m = t
<1> DEFINE a == m * s + t
           u == a % m
           v == a \div m
<1>1. a \in Int /\ u \in 0..m-1 /\ v \in Int /\ a = m * v + u
  OBVIOUS
<1>2. m * (v - s) = t - u
  BY <1>1
<1>3. v = s
  <2>1. CASE v > s
    <3>1. m * (v - s) >= m
      BY <1>1, <2>1
    <3> QED
      BY <1>1, <1>2, <3>1
  <2>2. CASE v < s
    <3>1. m * (v - s) <= -m
      BY <1>1, <2>2
    <3> QED
      BY <1>1, <1>2, <3>1
  <2> QED
    BY <1>1, <2>1, <2>2
<1> QED
  BY <1>1, <1>2, <1>3

\* A number's rest by a power is that by the power before and one digit.
LEMMA OneMoreDigit ==
    ASSUME NEW a \in Nat, NEW p \in Nat \ {0}, NEW m \in Nat \ {0}
    PROVE  a % (m * p) = (a % p) + p * ((a \div p) % m)
<1> DEFINE r == a % p
           q == a \div p
           d == q % m
           s == q \div m
<1>1. r \in 0..p-1 /\ q \in Int /\ a = p * q + r
  OBVIOUS
<1>2. d \in 0..m-1 /\ s \in Int /\ q = m * s + d
  BY <1>1
<1> HIDE DEF r, q, d, s
<1>3. a = (m * p) * s + (p * d + r)
  BY <1>1, <1>2
<1>4. m * p \in Nat \ {0}
  OBVIOUS
<1>5. p * d + r \in 0..(m * p)-1
  <2>1. p * d \in Nat /\ p * d <= p * (m - 1)
    BY <1>2
  <2> QED
    BY <1>1, <2>1
<1>6. ((m * p) * s + (p * d + r)) % (m * p) = p * d + r
  BY <1>2, <1>4, <1>5, Remainder
<1> QED
  BY <1>1, <1>2, <1>3, <1>6 DEF r, q, d

LEMMA DigitsTyped ==
    ASSUME NEW n \in Int
    PROVE  /\ F!Digits(n) \in Seq(F!Digit) /\ Len(F!Digits(n)) = Width
           /\ DOMAIN F!Digits(n) = 1..Width
           /\ \A i \in 0..Width-1 :
                 F!Digits(n)[i + 1] = ((n % F!Power[Width]) \div F!Power[i]) % Base
<1> USE FramingAssumption
<1>1. \A i \in 1..Width : ((n % F!Power[Width]) \div F!Power[i - 1]) % Base \in F!Digit
  <2> TAKE i \in 1..Width
  <2> DEFINE p == F!Power[Width]
             q == F!Power[i - 1]
             x == (n % p) \div q
  <2>1. p \in Nat \ {0} /\ q \in Nat \ {0}
    BY PowerFacts
  <2> HIDE DEF p, q
  <2>2. x \in Int
    BY <2>1
  <2> HIDE DEF x
  <2>3. x % Base \in 0..Base-1
    BY <2>2
  <2> QED
    BY <2>3 DEF F!Digit, x, p, q
<1>2. F!Digits(n) = [i \in 1..Width |-> ((n % F!Power[Width]) \div F!Power[i - 1]) % Base]
  BY DEF F!Digits
<1>3. F!Digits(n) \in [1..Width -> F!Digit]
  BY <1>1, <1>2
<1>4. F!Digits(n) \in Seq(F!Digit) /\ Len(F!Digits(n)) = Width
  BY <1>3
<1>5. \A i \in 0..Width-1 : i + 1 \in 1..Width /\ (i + 1) - 1 = i
  OBVIOUS
<1>6. ASSUME NEW i \in 0..Width-1
      PROVE  F!Digits(n)[i + 1] = ((n % F!Power[Width]) \div F!Power[i]) % Base
  BY <1>2, <1>5
<1> QED
  BY <1>3, <1>4, <1>6

\* Two numbers below Base^Width that have the same digits are the same.
LEMMA SameDigits ==
    ASSUME NEW a \in Nat, NEW b \in Nat,
           a < F!Power[Width], b < F!Power[Width],
           \A i \in 0..Width-1 : (a \div F!Power[i]) % Base = (b \div F!Power[i]) % Base
    PROVE  a = b
<1> DEFINE T == {n \in Nat : n \in 0..Width => a % F!Power[n] = b % F!Power[n]}
<1>1. 0 \in T
  BY PowerFacts
<1>2. ASSUME NEW n \in Nat, n \in T PROVE n + 1 \in T
  <2> SUFFICES ASSUME n + 1 \in 0..Width PROVE a % F!Power[n + 1] = b % F!Power[n + 1]
    OBVIOUS
  <2> DEFINE p == F!Power[n]
  <2>1. n \in 0..Width-1 /\ n \in 0..Width
    BY FramingAssumption
  <2>2. p \in Nat \ {0} /\ F!Power[n + 1] = Base * p
    BY <2>1, PowerFacts
  <2>3. a % p = b % p /\ (a \div p) % Base = (b \div p) % Base
    BY <1>2, <2>1
  <2>4. p \in Nat \ {0} /\ Base \in Nat \ {0}
    BY <2>2, FramingAssumption
  <2> HIDE DEF p
  <2>5. /\ a % (Base * p) = (a % p) + p * ((a \div p) % Base)
        /\ b % (Base * p) = (b % p) + p * ((b \div p) % Base)
    <3> HIDE FramingAssumption
    <3> QED
      BY <2>4, OneMoreDigit
  <2> QED
    BY <2>2, <2>3, <2>5
<1>3. Width \in T
  <2> HIDE DEF T
  <2> QED
    BY <1>1, <1>2, Inductive, FramingAssumption
<1>4. a % F!Power[Width] = b % F!Power[Width]
  BY <1>3
<1> DEFINE q == F!Power[Width]
<1>5. q \in Nat \ {0} /\ a < q /\ b < q /\ a % q = b % q
  BY <1>4, Maximum
<1> HIDE DEF q
<1>6. a % q = a /\ b % q = b
  BY <1>5
<1> QED
  BY <1>5, <1>6

\* What from_le_bytes makes of a length that to_le_bytes wrote: the length.
LEMMA NumberOfDigits ==
    ASSUME NEW n \in 0..F!IntMax
    PROVE  F!Number(F!Digits(n)) = n
<1> DEFINE x == F!Number(F!Digits(n))
           q == F!Power[Width]
<1>1. /\ F!IntMax \in Nat /\ F!IntMin \in Int /\ F!IntMin = -F!IntMax - 1
      /\ q > 2 * F!IntMax + 1 /\ q \in Nat \ {0}
  BY Maximum DEF F!IntMin
<1>2. n \in F!IntMin..F!IntMax
  BY <1>1
<1>3. x \in F!IntMin..F!IntMax /\ F!Digits(x) = F!Digits(n)
  BY <1>2 DEF F!Number
<1> HIDE DEF x, q
<1>4. x \in Int /\ n \in Int /\ n \in Nat
  BY <1>1, <1>2, <1>3
<1>5. \A i \in 0..Width-1 :
          ((x % q) \div F!Power[i]) % Base = ((n % q) \div F!Power[i]) % Base
  BY <1>3, <1>4, DigitsTyped DEF q
<1>6. x % q \in Nat /\ x % q < q /\ n % q \in Nat /\ n % q < q
  BY <1>1, <1>4
<1>7. x % q = n % q
  BY <1>5, <1>6, SameDigits DEF q
<1>8. n % q = n
  BY <1>1, <1>4
<1>9. x = n
  <2>1. CASE x >= 0
    <3>1. x % q = x
      BY <1>1, <1>3, <1>4, <2>1
    <3> QED
      BY <1>7, <1>8, <3>1
  <2>2. CASE x < 0
    <3>1. x + q \in 0..q-1 /\ x = q * (-1) + (x + q)
      BY <1>1, <1>3, <1>4, <2>2
    <3>2. x % q = x + q
      BY <1>1, <3>1, Remainder
    <3>3. x + q > F!IntMax
      BY <1>1, <1>3, <1>4
    <3> QED
      BY <1>1, <1>4, <1>7, <1>8, <3>2, <3>3
  <2> QED
    BY <1>4, <2>1, <2>2
<1> QED
  BY <1>9 DEF x

(***************************************************************************)
(* Frames (Framing).                                                       *)
(***************************************************************************)

Framed(m) == F!Digits(Len(m)) \o m

\* What stands before part of the frame at hand.
Known == IF length = 0 THEN <<>> ELSE F!Digits(length)

\* tail[k] is the frames of messages from the k-th on.
Tails(messages, tail) ==
    /\ tail \in [1..Len(messages)+1 -> Seq(F!Digit)]
    /\ tail[Len(messages) + 1] = <<>>
    /\ \A k \in 1..Len(messages) : tail[k] = Framed(messages[k]) \o tail[k + 1]

\* rest is what was cut off.
Follows(tail, rest) ==
    /\ rest \in Seq(F!Digit)
    /\ open => rest = <<>>
    /\ tail[Len(got) + 1] = Known \o (part \o (stream \o (left \o rest)))

SentInv ==
    /\ \A k \in 1..Len(sent) : Len(sent[k]) <= F!IntMax
    /\ open => (left = <<>> <=> whole = Len(sent))

GotInv ==
    /\ Len(got) <= Len(sent)
    /\ \A k \in 1..Len(got) : got[k] = sent[k]
    /\ F!InvalidForCause

StreamInv == reader = "reading" =>
    /\ length # 0 => Len(got) < Len(sent) /\ length = Len(sent[Len(got) + 1])
    /\ \E tail, rest : Tails(sent, tail) /\ Follows(tail, rest)

FrameInv == F!TypeOK /\ SentInv /\ GotInv /\ StreamInv

LEMMA CatTyped ==
    /\ \A a, b \in Seq(F!Digit) : a \o b \in Seq(F!Digit) /\ Len(a \o b) = Len(a) + Len(b)
    /\ <<>> \in Seq(F!Digit) /\ Len(<<>>) = 0
<1>1. \A a, b \in Seq(F!Digit) : a \o b \in Seq(F!Digit) /\ Len(a \o b) = Len(a) + Len(b)
  BY ConcatProperties
<1> QED
  BY <1>1

LEMMA CatAssoc == \A a, b, c \in Seq(F!Digit) : (a \o b) \o c = a \o (b \o c)
BY ConcatAssociative

LEMMA CatEmpty == \A a \in Seq(F!Digit) : a \o <<>> = a /\ <<>> \o a = a
BY ConcatEmptySeq

\* Two cuts of one sequence at the same place.
LEMMA SameCut ==
    ASSUME NEW a \in Seq(F!Digit), NEW b \in Seq(F!Digit),
           NEW c \in Seq(F!Digit), NEW d \in Seq(F!Digit),
           a \o b = c \o d, Len(a) = Len(c)
    PROVE  a = c /\ b = d
<1>1. a = c
  <2>1. \A i \in 1..Len(a) : a[i] = c[i]
    <3> TAKE i \in 1..Len(a)
    <3>1. i \in 1..Len(a) + Len(b) /\ i <= Len(a)
      OBVIOUS
    <3>2. i \in 1..Len(c) + Len(d) /\ i <= Len(c)
      OBVIOUS
    <3>3. (a \o b)[i] = a[i]
      BY <3>1, ConcatProperties
    <3>4. (c \o d)[i] = c[i]
      BY <3>2, ConcatProperties
    <3> QED
      BY <3>3, <3>4
  <2>2. a \in [1..Len(a) -> F!Digit] /\ c \in [1..Len(a) -> F!Digit]
    OBVIOUS
  <2> QED
    BY <2>1, <2>2
<1>2. b = d
  <2>1. a \o b = a \o d
    BY <1>1
  <2> QED
    BY <2>1, ConcatSimplifications
<1> QED
  BY <1>1, <1>2

LEMMA Cut ==
    ASSUME NEW s \in Seq(F!Digit), NEW n \in 1..Len(s)
    PROVE  /\ SubSeq(s, 1, n) \in Seq(F!Digit) /\ Len(SubSeq(s, 1, n)) = n
           /\ SubSeq(s, n + 1, Len(s)) \in Seq(F!Digit)
           /\ Len(SubSeq(s, n + 1, Len(s))) = Len(s) - n
           /\ SubSeq(s, 1, n) \o SubSeq(s, n + 1, Len(s)) = s
<1>1. /\ SubSeq(s, 1, n) \in Seq(F!Digit) /\ Len(SubSeq(s, 1, n)) = n
      /\ SubSeq(s, n + 1, Len(s)) \in Seq(F!Digit)
      /\ Len(SubSeq(s, n + 1, Len(s))) = Len(s) - n
  OBVIOUS
<1>2. SubSeq(s, 1, n) \o SubSeq(s, n + 1, Len(s)) = SubSeq(s, 1, Len(s))
  BY ConcatAdjacentSubSeq
<1>3. SubSeq(s, 1, Len(s)) = s
  BY SubSeqFull
<1> QED
  BY <1>1, <1>2, <1>3

LEMMA FramedTyped ==
    ASSUME NEW m \in Seq(F!Digit)
    PROVE  /\ F!Digits(Len(m)) \in Seq(F!Digit) /\ Len(F!Digits(Len(m))) = Width
           /\ Framed(m) \in Seq(F!Digit) /\ Len(Framed(m)) = Width + Len(m)
<1> DEFINE d == F!Digits(Len(m))
<1>1. d \in Seq(F!Digit) /\ Len(d) = Width
  <2>1. Len(m) \in Int
    OBVIOUS
  <2> QED
    BY <2>1, DigitsTyped
<1>2. d \o m \in Seq(F!Digit) /\ Len(d \o m) = Len(d) + Len(m)
  <2> HIDE DEF d
  <2> QED
    BY <1>1, CatTyped
<1> QED
  BY <1>1, <1>2 DEF Framed

LEMMA MessageFacts ==
    ASSUME NEW m \in F!Message
    PROVE  m \in Seq(F!Digit) /\ Len(m) \in 1..MaxLength
<1>1. PICK n \in 1..MaxLength, d \in F!Digit : m = [i \in 1..n |-> d]
  BY DEF F!Message
<1>2. n \in Nat
  BY FramingAssumption
<1> QED
  BY <1>1, <1>2

\* One more message.
LEMMA LongerTails ==
    ASSUME NEW s \in Seq(F!Message), NEW m \in F!Message, NEW tail, Tails(s, tail)
    PROVE  \E t : /\ Tails(Append(s, m), t)
                  /\ \A k \in 1..Len(s)+1 : t[k] = tail[k] \o Framed(m)
<1> DEFINE n == Len(s)
           f == Framed(m)
           longer == Append(s, m)
           t == [k \in 1..n+2 |-> IF k = n + 2 THEN <<>> ELSE tail[k] \o f]
<1>1. /\ n \in Nat /\ Len(longer) = n + 1 /\ longer[n + 1] = m
      /\ \A k \in 1..n : longer[k] = s[k] /\ s[k] \in F!Message
  OBVIOUS
<1>2. f \in Seq(F!Digit) /\ \A k \in 1..n : Framed(s[k]) \in Seq(F!Digit)
  BY <1>1, MessageFacts, FramedTyped
<1>3. /\ \A k \in 1..n+1 : tail[k] \in Seq(F!Digit)
      /\ tail[n + 1] = <<>>
      /\ \A k \in 1..n : tail[k] = Framed(s[k]) \o tail[k + 1]
  BY DEF Tails
<1>4. (\A k \in 1..n+1 : t[k] = tail[k] \o f) /\ t[n + 2] = <<>>
  <2> HIDE DEF f
  <2> QED
    BY <1>1
<1>5. t \in [1..n+2 -> Seq(F!Digit)]
  <2>1. \A k \in 1..n+1 : tail[k] \o f \in Seq(F!Digit)
    <3> HIDE DEF f
    <3> QED
      BY <1>2, <1>3, CatTyped
  <2> HIDE DEF f
  <2> QED
    BY <1>1, <2>1, CatTyped
<1> HIDE DEF t, f, longer
<1>6. t[n + 1] = f \o t[n + 2]
  <2>1. n + 1 \in 1..n+1 /\ tail[n + 1] = <<>>
    BY <1>1, <1>3
  <2>2. t[n + 1] = <<>> \o f
    BY <1>4, <2>1
  <2>3. <<>> \o f = f \o <<>>
    BY <1>2, CatEmpty
  <2> QED
    BY <1>4, <2>2, <2>3
<1>7. ASSUME NEW k \in 1..n PROVE t[k] = Framed(s[k]) \o t[k + 1]
  <2>1. k \in 1..n+1 /\ k + 1 \in 1..n+1
    BY <1>1
  <2>2. t[k] = (Framed(s[k]) \o tail[k + 1]) \o f
    BY <1>3, <1>4, <2>1
  <2>3. (Framed(s[k]) \o tail[k + 1]) \o f = Framed(s[k]) \o (tail[k + 1] \o f)
    <3>1. Framed(s[k]) \in Seq(F!Digit) /\ tail[k + 1] \in Seq(F!Digit)
      BY <1>2, <1>3, <2>1
    <3> QED
      BY <1>2, <3>1, CatAssoc
  <2> QED
    BY <1>4, <2>1, <2>2, <2>3
<1>8. Tails(longer, t)
  <2>1. \A k \in 1..n+1 : t[k] = Framed(longer[k]) \o t[k + 1]
    <3> TAKE k \in 1..n+1
    <3>1. CASE k = n + 1
      <4>1. k + 1 = n + 2
        BY <1>1, <3>1
      <4> QED
        BY <1>1, <1>6, <3>1, <4>1 DEF f
    <3>2. CASE k # n + 1
      <4>1. k \in 1..n
        BY <1>1, <3>2
      <4> QED
        BY <1>1, <1>7, <4>1
    <3> QED
      BY <3>1, <3>2
  <2>2. (n + 1) + 1 = n + 2
    BY <1>1
  <2> HIDE DEF n
  <2> QED
    BY <1>1, <1>4, <1>5, <2>1, <2>2 DEF Tails
<1> QED
  BY <1>4, <1>8 DEF f, longer

\* What the reader reads leaves what is to come as it was.
LEMMA WantedIsMore ==
    ASSUME F!TypeOK
    PROVE  /\ F!Wanted \in Nat \ {0}
           /\ F!Wanted = (IF length = 0 THEN Width ELSE length) - Len(part)
<1>1. F!IntMax \in Nat
  BY Maximum
<1> QED
  BY <1>1, FramingAssumption DEF F!Wanted, F!TypeOK

LEMMA KnownTyped ==
    ASSUME F!TypeOK
    PROVE  Known \in Seq(F!Digit) /\ Len(Known) = IF length = 0 THEN 0 ELSE Width
<1>1. length \in Int
  BY Maximum DEF F!TypeOK
<1> QED
  BY <1>1, DigitsTyped, CatTyped DEF Known

-----------------------------------------------------------------------------
LEMMA FrameInvInit == F!Init => FrameInv
<1> SUFFICES ASSUME F!Init PROVE FrameInv
  OBVIOUS
<1>1. F!IntMax \in Nat
  BY Maximum
<1>2. F!TypeOK /\ SentInv /\ GotInv
  BY <1>1, FramingAssumption DEF F!Init, F!TypeOK, SentInv, GotInv, F!InvalidForCause
<1>3. StreamInv
  <2> DEFINE t == [k \in 1..1 |-> <<>>]
  <2>1. Tails(sent, t)
    BY DEF F!Init, Tails
  <2>2. Follows(t, <<>>)
    BY DEF F!Init, Follows, Known
  <2> HIDE DEF t
  <2>3. length = 0
    BY DEF F!Init
  <2> QED
    BY <2>1, <2>2, <2>3 DEF StreamInv
<1> QED
  BY <1>2, <1>3 DEF FrameInv

LEMMA FrameStep ==
    ASSUME FrameInv, NEW m \in F!Message, F!Frame(m)
    PROVE  FrameInv'
<1> USE DEF F!writerVars, F!readerVars
<1> DEFINE n == Len(sent)
           limit == IF sent = <<>> THEN HandshakeLimit ELSE WriterLimit
<1>1. /\ m \in Seq(F!Digit) /\ Len(m) \in Nat \ {0} /\ Len(m) \in Int
      /\ F!Digits(Len(m)) \in Seq(F!Digit) /\ Len(F!Digits(Len(m))) = Width
  BY MessageFacts, FramedTyped, FramingAssumption
<1>2. /\ open /\ left = <<>> /\ left' = Framed(m) /\ sent' = Append(sent, m)
      /\ UNCHANGED <<whole, stream, open, part, length, got, reader, accepts>>
      /\ Len(m) <= F!IntMax
  BY DEF F!Frame, Framed, F!Fits
<1>3. left' \in Seq(F!Digit) /\ Len(left') = Width + Len(m) /\ left' # <<>>
  <2>1. left' \in Seq(F!Digit) /\ Len(left') = Width + Len(m)
    BY <1>1, <1>2, FramedTyped
  <2>2. Len(left') # 0
    BY <1>1, <2>1, FramingAssumption
  <2> QED
    BY <2>1, <2>2
<1>4. /\ sent \in Seq(F!Message) /\ n \in Nat /\ sent' \in Seq(F!Message)
      /\ Len(sent') = n + 1
      /\ \A k \in 1..n : sent'[k] = sent[k]
      /\ sent'[n + 1] = m
  BY <1>2 DEF FrameInv, F!TypeOK
<1>5. whole = n
  BY <1>2 DEF FrameInv, SentInv
<1>6. F!TypeOK'
  BY <1>2, <1>3, <1>4, <1>5 DEF FrameInv, F!TypeOK
<1>7. SentInv'
  BY <1>2, <1>3, <1>4, <1>5 DEF FrameInv, SentInv
<1>8. /\ Len(got) \in Nat /\ Len(got) <= n /\ got' = got
      /\ \A k \in 1..Len(got) : got[k] = sent[k]
  BY <1>2 DEF FrameInv, GotInv, F!TypeOK
<1>9. GotInv'
  <2>1. F!InvalidForCause'
    <3> SUFFICES ASSUME reader' = "invalid"
                 PROVE  Len(got') < Len(sent') /\ Len(sent'[Len(got') + 1]) > F!Limit(Len(got))'
      BY DEF F!InvalidForCause
    <3>1. Len(got) < n /\ Len(sent[Len(got) + 1]) > F!Limit(Len(got))
      BY <1>2 DEF FrameInv, GotInv, F!InvalidForCause
    <3>2. F!Limit(Len(got))' = F!Limit(Len(got))
      BY <1>2 DEF F!Limit
    <3> QED
      BY <1>4, <1>8, <3>1, <3>2
  <2> QED
    BY <1>4, <1>8, <2>1 DEF GotInv
<1>10. StreamInv'
  <2> SUFFICES ASSUME reader' = "reading"
               PROVE  /\ length' # 0 => Len(got') < Len(sent') /\ length' = Len(sent'[Len(got') + 1])
                      /\ \E tail, rest : Tails(sent, tail)' /\ Follows(tail, rest)'
    BY DEF StreamInv
  <2>1. length' # 0 => Len(got') < Len(sent') /\ length' = Len(sent'[Len(got') + 1])
    BY <1>2, <1>4, <1>8 DEF FrameInv, StreamInv
  <2>2. PICK tail, rest : Tails(sent, tail) /\ Follows(tail, rest)
    BY <1>2 DEF FrameInv, StreamInv
  <2> DEFINE f == Framed(m)
  <2>3. PICK t : Tails(sent', t) /\ \A k \in 1..n+1 : t[k] = tail[k] \o f
    <3>1. \E t : /\ Tails(Append(sent, m), t)
                 /\ \A k \in 1..Len(sent)+1 : t[k] = tail[k] \o Framed(m)
      BY <1>4, <2>2, LongerTails
    <3> QED
      BY <1>2, <3>1
  <2>4. Follows(t, <<>>)'
    <3>1. /\ Known \in Seq(F!Digit) /\ part \in Seq(F!Digit) /\ stream \in Seq(F!Digit)
          /\ part \o stream \in Seq(F!Digit) /\ f \in Seq(F!Digit) /\ f = left'
      BY <1>2, <1>3, KnownTyped, CatTyped DEF FrameInv, F!TypeOK
    <3>2. Known' = Known
      BY <1>2 DEF Known
    <3>3. tail[Len(got) + 1] = Known \o (part \o (stream \o (<<>> \o <<>>)))
      BY <1>2, <2>2 DEF Follows
    <3>4. t[Len(got) + 1] = tail[Len(got) + 1] \o f
      BY <1>4, <1>8, <2>3
    <3> HIDE DEF f
    <3>5. stream \o (<<>> \o <<>>) = stream /\ f \o <<>> = f
      BY <3>1, CatTyped, CatEmpty
    <3>6. (Known \o (part \o stream)) \o f = Known \o ((part \o stream) \o f)
      <4> DEFINE known == Known
                 u == part \o stream
      <4>1. known \in Seq(F!Digit) /\ u \in Seq(F!Digit)
        BY <3>1
      <4> HIDE DEF known, u
      <4>2. (known \o u) \o f = known \o (u \o f)
        BY <3>1, <4>1, CatAssoc
      <4> QED
        BY <4>2 DEF known, u
    <3>7. (part \o stream) \o f = part \o (stream \o f)
      BY <3>1, CatAssoc
    <3>8. t[Len(got) + 1] = Known \o (part \o (stream \o (f \o <<>>)))
      BY <3>3, <3>4, <3>5, <3>6, <3>7
    <3>9. Known' \o (part' \o (stream' \o (left' \o <<>>))) = Known \o (part \o (stream \o (f \o <<>>)))
      BY <1>2, <3>1, <3>2
    <3> QED
      BY <1>2, <3>8, <3>9, CatTyped DEF Follows
  <2> QED
    BY <2>1, <2>3, <2>4
<1> QED
  BY <1>6, <1>7, <1>9, <1>10 DEF FrameInv

\* What a step has to do with what is to come if it sends no message.
LEMMA SameSent ==
    ASSUME FrameInv, UNCHANGED <<sent, got, length, accepts>>,
           reader' \in {reader, "eof", "timeout"},
           F!TypeOK', open' => (left' = <<>> <=> whole' = Len(sent')),
           \A tail, rest : reader' = "reading" /\ Follows(tail, rest)
                               => \E more : Follows(tail, more)'
    PROVE  FrameInv'
<1>1. SentInv'
  BY DEF FrameInv, SentInv
<1>2. GotInv'
  BY DEF FrameInv, GotInv, F!InvalidForCause, F!Limit
<1>3. StreamInv'
  <2> SUFFICES ASSUME reader' = "reading"
               PROVE  /\ length' # 0 => Len(got') < Len(sent') /\ length' = Len(sent'[Len(got') + 1])
                      /\ \E tail, rest : Tails(sent, tail)' /\ Follows(tail, rest)'
    BY DEF StreamInv
  <2>1. reader = "reading"
    OBVIOUS
  <2>2. PICK tail, rest : Tails(sent, tail) /\ Follows(tail, rest)
    BY <2>1 DEF FrameInv, StreamInv
  <2>3. PICK more : Follows(tail, more)'
    BY <2>2
  <2>4. Tails(sent, tail)'
    BY <2>2 DEF Tails
  <2> QED
    BY <2>1, <2>3, <2>4 DEF FrameInv, StreamInv
<1> QED
  BY <1>1, <1>2, <1>3 DEF FrameInv

LEMMA WriteStep ==
    ASSUME FrameInv, NEW n, F!Write(n)
    PROVE  FrameInv'
<1> USE DEF F!writerVars, F!readerVars
<1> DEFINE out == SubSeq(left, 1, n)
           in == SubSeq(left, n + 1, Len(left))
<1>1. /\ n \in 1..Len(left) /\ stream' = stream \o out /\ left' = in
      /\ whole' = IF n = Len(left) THEN Len(sent) ELSE whole
      /\ UNCHANGED <<sent, open, part, length, got, reader, accepts>>
  BY DEF F!Write
<1>2. left \in Seq(F!Digit) /\ stream \in Seq(F!Digit) /\ part \in Seq(F!Digit)
  BY DEF FrameInv, F!TypeOK
<1>3. /\ out \in Seq(F!Digit) /\ in \in Seq(F!Digit)
      /\ Len(in) = Len(left) - n /\ out \o in = left
  BY <1>1, <1>2, Cut
<1> HIDE DEF out, in
<1>4. /\ Len(left) \in Nat /\ left # <<>> /\ (in = <<>> <=> n = Len(left)) /\ open
      /\ whole # Len(sent) /\ whole = Len(sent) - 1
  BY <1>1, <1>2, <1>3 DEF FrameInv, F!TypeOK, SentInv
<1>5. stream \o out \in Seq(F!Digit)
  BY <1>2, <1>3, CatTyped
<1>6. F!TypeOK'
  BY <1>1, <1>3, <1>4, <1>5 DEF FrameInv, F!TypeOK
<1>7. left' = <<>> <=> whole' = Len(sent')
  BY <1>1, <1>4
<1>8. ASSUME NEW tail, NEW rest, Follows(tail, rest)
      PROVE  Follows(tail, rest)'
  <2>1. rest \in Seq(F!Digit)
    BY <1>8 DEF Follows
  <2>2. in \o rest \in Seq(F!Digit)
    BY <1>3, <2>1, CatTyped
  <2>3. (stream \o out) \o (in \o rest) = stream \o (out \o (in \o rest))
    BY <1>2, <1>3, <2>2, CatAssoc
  <2>4. out \o (in \o rest) = left \o rest
    BY <1>3, <2>1, CatAssoc
  <2>5. stream' \o (left' \o rest) = stream \o (left \o rest)
    BY <1>1, <2>3, <2>4
  <2>6. Known' = Known
    BY <1>1 DEF Known
  <2> QED
    BY <1>1, <1>8, <2>5, <2>6 DEF Follows
<1> QED
  BY <1>1, <1>6, <1>7, <1>8, SameSent

LEMMA CloseStep ==
    ASSUME FrameInv, F!Close
    PROVE  FrameInv'
<1> USE DEF F!writerVars, F!readerVars
<1>1. /\ open' = FALSE /\ left' = <<>>
      /\ UNCHANGED <<sent, whole, stream, part, length, got, reader, accepts>>
  BY DEF F!Close
<1>2. F!TypeOK'
  <2>1. left' \in Seq(F!Digit) /\ open' \in BOOLEAN
    BY <1>1, CatTyped
  <2>2. /\ F!TypeOK
        /\ UNCHANGED <<sent, whole, stream, part, length, got, reader, accepts>>
    BY <1>1 DEF FrameInv
  <2> QED
    BY <1>1, <2>1, <2>2 DEF F!TypeOK
<1>3. ASSUME NEW tail, NEW rest, Follows(tail, rest)
      PROVE  \E more : Follows(tail, more)'
  <2>1. PICK more : more = left \o rest
    OBVIOUS
  <2>2. more \in Seq(F!Digit)
    BY <1>3, <2>1, CatTyped DEF FrameInv, F!TypeOK, Follows
  <2>3. <<>> \o more = more
    BY <2>2, CatEmpty
  <2>4. Known' = Known
    BY <1>1 DEF Known
  <2>5. Follows(tail, more)'
    BY <1>1, <1>3, <2>1, <2>2, <2>3, <2>4 DEF Follows
  <2> QED
    BY <2>5
<1> QED
  BY <1>1, <1>2, <1>3, SameSent

LEMMA EofStep ==
    ASSUME FrameInv, F!Eof \/ F!Timeout
    PROVE  FrameInv'
<1> USE DEF F!writerVars, F!readerVars
<1>1. /\ UNCHANGED <<left, sent, whole, accepts, stream, open, part, length, got>>
      /\ reader' \in {"eof", "timeout"}
  BY DEF F!Eof, F!Timeout
<1>2. F!TypeOK'
  BY <1>1 DEF FrameInv, F!TypeOK
<1>3. open' => (left' = <<>> <=> whole' = Len(sent'))
  BY <1>1 DEF FrameInv, SentInv
<1>4. reader' # "reading"
  BY <1>1
<1> QED
  BY <1>1, <1>2, <1>3, <1>4, SameSent

LEMMA ReadStep ==
    ASSUME FrameInv, NEW n, F!Read(n)
    PROVE  FrameInv'
<1> USE DEF F!writerVars, F!readerVars
<1> DEFINE in == SubSeq(stream, 1, n)
           later == SubSeq(stream, n + 1, Len(stream))
           now == part \o in
           all == Len(sent)
           had == Len(got)
<1>1. /\ reader = "reading" /\ n \in 1..Len(stream) /\ n <= F!Wanted
      /\ stream' = later /\ UNCHANGED <<left, sent, whole, accepts, open>>
      /\ IF n < F!Wanted THEN part' = now /\ UNCHANGED <<length, got, reader>>
         ELSE IF length = 0 THEN F!LengthRead(F!Number(now))
         ELSE F!PayloadRead(now)
  BY DEF F!Read
<1>2. left \in Seq(F!Digit) /\ stream \in Seq(F!Digit) /\ part \in Seq(F!Digit)
  BY DEF FrameInv, F!TypeOK
<1>3. /\ in \in Seq(F!Digit) /\ later \in Seq(F!Digit) /\ in \o later = stream
      /\ Len(in) = n
  BY <1>1, <1>2, Cut
<1>4. now \in Seq(F!Digit) /\ Len(now) = Len(part) + n
  BY <1>2, <1>3, CatTyped
<1>5. Len(part) \in Nat /\ n \in Nat
  BY <1>1, <1>2
<1>6. F!Wanted = (IF length = 0 THEN Width ELSE length) - Len(part)
  BY WantedIsMore DEF FrameInv
<1>7. /\ length \in 0..F!IntMax /\ F!IntMax \in Nat /\ Width \in Nat \ {0}
  BY Maximum, FramingAssumption DEF FrameInv, F!TypeOK
<1>8. ASSUME NEW rest \in Seq(F!Digit)
      PROVE  /\ later \o (left \o rest) \in Seq(F!Digit)
             /\ part \o (stream \o (left \o rest)) = now \o (later \o (left \o rest))
  <2>1. left \o rest \in Seq(F!Digit) /\ later \o (left \o rest) \in Seq(F!Digit)
    BY <1>2, <1>3, CatTyped
  <2>2. stream \o (left \o rest) = in \o (later \o (left \o rest))
    <3>1. (in \o later) \o (left \o rest) = in \o (later \o (left \o rest))
      BY <1>3, <2>1, CatAssoc
    <3> QED
      BY <1>3, <3>1
  <2>3. part \o (in \o (later \o (left \o rest))) = now \o (later \o (left \o rest))
    BY <1>2, <1>3, <2>1, CatAssoc
  <2> QED
    BY <2>1, <2>2, <2>3
<1> HIDE DEF in, later, now
<1>9. SentInv'
  BY <1>1 DEF FrameInv, SentInv
<1>10. /\ sent \in Seq(F!Message) /\ all \in Nat /\ had \in Nat /\ had <= all
       /\ got \in Seq(Seq(F!Digit)) /\ \A k \in 1..had : got[k] = sent[k]
  BY DEF FrameInv, F!TypeOK, GotInv
<1>11. PICK tail, rest : Tails(sent, tail) /\ Follows(tail, rest)
  BY <1>1 DEF FrameInv, StreamInv
<1>12. /\ rest \in Seq(F!Digit) /\ (open => rest = <<>>)
       /\ tail[had + 1] = Known \o (now \o (later \o (left \o rest)))
  BY <1>8, <1>11 DEF Follows
<1>13. Tails(sent, tail)'
  BY <1>1, <1>11 DEF Tails
<1>14. CASE n < F!Wanted
  <2>1. part' = now /\ UNCHANGED <<length, got, reader>>
    BY <1>1, <1>14
  <2>2. F!TypeOK'
    BY <1>1, <1>3, <1>4, <1>5, <1>6, <1>7, <1>14, <2>1 DEF FrameInv, F!TypeOK
  <2>3. open' => (left' = <<>> <=> whole' = Len(sent'))
    BY <1>1 DEF FrameInv, SentInv
  <2>4. ASSUME NEW t, NEW r, Follows(t, r) PROVE Follows(t, r)'
    <3>1. r \in Seq(F!Digit)
      BY <2>4 DEF Follows
    <3>2. part \o (stream \o (left \o r)) = now \o (later \o (left \o r))
      BY <1>8, <3>1
    <3>3. Known' = Known
      BY <2>1 DEF Known
    <3> QED
      BY <1>1, <2>1, <2>4, <3>2, <3>3 DEF Follows
  <2> QED
    BY <1>1, <2>1, <2>2, <2>3, <2>4, SameSent
<1>15. ASSUME ~ (n < F!Wanted), length # 0 \/ had < all
       PROVE  /\ had < all
              /\ sent[had + 1] \in Seq(F!Digit) /\ Len(sent[had + 1]) \in 1..F!IntMax
              /\ tail[had + 2] \in Seq(F!Digit)
              /\ F!Digits(Len(sent[had + 1])) \in Seq(F!Digit)
              /\ Len(F!Digits(Len(sent[had + 1]))) = Width
              /\ tail[had + 1] = F!Digits(Len(sent[had + 1])) \o (sent[had + 1] \o tail[had + 2])
  <2>1. had < all
    BY <1>1, <1>15 DEF FrameInv, StreamInv
  <2>2. had + 1 \in 1..all /\ had + 2 \in 1..all+1 /\ (had + 1) + 1 = had + 2
    BY <1>10, <2>1
  <2>3. sent[had + 1] \in F!Message
    BY <1>10, <2>2
  <2>4. /\ sent[had + 1] \in Seq(F!Digit) /\ Len(sent[had + 1]) \in Nat \ {0}
        /\ F!Digits(Len(sent[had + 1])) \in Seq(F!Digit)
        /\ Len(F!Digits(Len(sent[had + 1]))) = Width
    <3> DEFINE m == sent[had + 1]
    <3>1. m \in Seq(F!Digit) /\ Len(m) \in 1..MaxLength
      <4> HIDE DEF m
      <4> QED
        BY <2>3, MessageFacts DEF m
    <3> HIDE DEF m
    <3>2. F!Digits(Len(m)) \in Seq(F!Digit) /\ Len(F!Digits(Len(m))) = Width
      BY <3>1, FramedTyped
    <3>3. Len(m) \in Nat \ {0}
      BY <3>1, FramingAssumption
    <3> QED
      BY <3>1, <3>2, <3>3 DEF m
  <2>5. Len(sent[had + 1]) <= F!IntMax
    BY <2>2 DEF FrameInv, SentInv
  <2>6. tail[had + 2] \in Seq(F!Digit)
    BY <1>11, <2>2 DEF Tails
  <2>7. tail[had + 1] = (F!Digits(Len(sent[had + 1])) \o sent[had + 1]) \o tail[had + 2]
    BY <1>11, <2>2 DEF Tails, Framed
  <2>8. tail[had + 1] = F!Digits(Len(sent[had + 1])) \o (sent[had + 1] \o tail[had + 2])
    BY <2>4, <2>6, <2>7, CatAssoc
  <2> QED
    BY <1>7, <2>1, <2>4, <2>5, <2>6, <2>8
<1> DEFINE m == sent[had + 1]
           size == Len(m)
           follow == later \o (left \o rest)
<1>16. follow \in Seq(F!Digit)
  BY <1>8, <1>12
<1>17. CASE ~ (n < F!Wanted) /\ length = 0
  <2>1. Len(now) = Width /\ F!LengthRead(F!Number(now)) /\ Known = <<>>
    BY <1>1, <1>4, <1>5, <1>6, <1>7, <1>17 DEF Known
  <2>2. tail[had + 1] = now \o follow /\ Len(tail[had + 1]) # 0
    <3>1. now \o follow \in Seq(F!Digit) /\ Len(now \o follow) = Len(now) + Len(follow)
      BY <1>4, <1>16, CatTyped
    <3>2. <<>> \o (now \o follow) = now \o follow
      BY <3>1, CatEmpty
    <3>3. Len(follow) \in Nat
      BY <1>16
    <3> HIDE DEF follow
    <3> QED
      BY <1>7, <1>12, <2>1, <3>1, <3>2, <3>3 DEF follow
  <2>3. had < all
    <3> SUFFICES ASSUME had = all PROVE FALSE
      BY <1>10
    <3> QED
      BY <1>11, <2>2, CatTyped DEF Tails
  <2>4. /\ m \in Seq(F!Digit) /\ size \in 1..F!IntMax /\ tail[had + 2] \in Seq(F!Digit)
        /\ F!Digits(size) \in Seq(F!Digit) /\ Len(F!Digits(size)) = Width
        /\ tail[had + 1] = F!Digits(size) \o (m \o tail[had + 2])
    BY <1>15, <1>17, <2>3
  <2>5. now = F!Digits(size) /\ follow = m \o tail[had + 2]
    <3>1. m \o tail[had + 2] \in Seq(F!Digit)
      BY <2>4, CatTyped
    <3> DEFINE d == F!Digits(size)
               v == m \o tail[had + 2]
    <3>2. /\ d \in Seq(F!Digit) /\ v \in Seq(F!Digit) /\ now \in Seq(F!Digit)
          /\ now \o follow = d \o v /\ Len(now) = Len(d)
      BY <1>4, <2>1, <2>2, <2>4, <3>1
    <3> HIDE DEF follow, d, v
    <3>3. now = d /\ follow = v
      BY <1>16, <3>2, SameCut
    <3> QED
      BY <3>3 DEF d, v
  <2>6. F!Number(now) = size
    <3>1. size \in 0..F!IntMax
      BY <1>7, <2>4
    <3> QED
      BY <2>5, <3>1, NumberOfDigits
  <2>7. part' = <<>> /\ UNCHANGED got
    BY <2>1 DEF F!LengthRead
  <2>8. CASE size > F!Limit(had)
    <3>1. reader' = "invalid" /\ UNCHANGED length
      BY <2>1, <2>6, <2>8 DEF F!LengthRead
    <3>2. F!TypeOK'
      BY <1>1, <1>3, <1>7, <1>17, <2>7, <3>1, CatTyped DEF FrameInv, F!TypeOK
    <3>3. GotInv'
      <4>1. F!Limit(Len(got))' = F!Limit(Len(got))
        BY <1>1, <2>7 DEF F!Limit
      <4> QED
        BY <1>1, <1>10, <2>3, <2>7, <2>8, <4>1 DEF GotInv, F!InvalidForCause
    <3>4. StreamInv'
      BY <3>1 DEF StreamInv
    <3> QED
      BY <1>9, <3>2, <3>3, <3>4 DEF FrameInv
  <2>9. CASE ~ (size > F!Limit(had))
    <3>1. length' = size /\ UNCHANGED reader
      BY <1>7, <2>1, <2>4, <2>6, <2>9 DEF F!LengthRead
    <3>2. F!TypeOK'
      BY <1>1, <1>3, <1>7, <1>17, <2>4, <2>7, <3>1, CatTyped DEF FrameInv, F!TypeOK
    <3>3. GotInv'
      BY <1>1, <1>10, <2>7, <3>1 DEF GotInv, F!InvalidForCause
    <3>4. Follows(tail, rest)'
      <4>1. Known' = now
        BY <1>7, <2>4, <2>5, <3>1 DEF Known
      <4>2. <<>> \o follow = follow
        BY <1>16, CatEmpty
      <4> QED
        BY <1>1, <1>12, <2>2, <2>7, <4>1, <4>2 DEF Follows
    <3>5. StreamInv'
      BY <1>1, <1>13, <2>3, <2>7, <3>1, <3>4 DEF StreamInv
    <3> QED
      BY <1>9, <3>2, <3>3, <3>5 DEF FrameInv
  <2> QED
    BY <2>8, <2>9
<1>18. CASE ~ (n < F!Wanted) /\ length # 0
  <2>1. Len(now) = length /\ F!PayloadRead(now) /\ Known = F!Digits(length)
    BY <1>1, <1>4, <1>5, <1>6, <1>7, <1>18 DEF Known
  <2>2. /\ m \in Seq(F!Digit) /\ size \in 1..F!IntMax /\ tail[had + 2] \in Seq(F!Digit)
        /\ F!Digits(size) \in Seq(F!Digit) /\ Len(F!Digits(size)) = Width
        /\ tail[had + 1] = F!Digits(size) \o (m \o tail[had + 2])
        /\ had < all /\ length = size
    BY <1>1, <1>15, <1>18 DEF FrameInv, StreamInv
  <2>3. now = m /\ follow = tail[had + 2]
    <3>1. m \o tail[had + 2] \in Seq(F!Digit) /\ now \o follow \in Seq(F!Digit)
      BY <1>4, <1>16, <2>2, CatTyped
    <3>2. F!Digits(size) \o (now \o follow) = F!Digits(size) \o (m \o tail[had + 2])
      BY <1>12, <2>1, <2>2
    <3> HIDE DEF follow, m
    <3>3. now \o follow = m \o tail[had + 2]
      BY <2>2, <3>1, <3>2, SameCut
    <3> DEFINE v == tail[had + 2]
    <3>4. /\ m \in Seq(F!Digit) /\ v \in Seq(F!Digit) /\ now \in Seq(F!Digit)
          /\ now \o follow = m \o v /\ Len(now) = Len(m)
      BY <1>4, <2>1, <2>2, <3>3
    <3> HIDE DEF v
    <3>5. now = m /\ follow = v
      BY <1>16, <3>4, SameCut
    <3> QED
      BY <3>5 DEF v
  <2>4. /\ part' = <<>> /\ length' = 0 /\ got' = Append(got, m)
        /\ reader' = reader
    BY <2>1, <2>3 DEF F!PayloadRead
  <2>5. /\ got' \in Seq(Seq(F!Digit)) /\ Len(got') = had + 1
        /\ \A k \in 1..had : got'[k] = got[k]
        /\ got'[had + 1] = m
    BY <1>10, <2>2, <2>4
  <2>6. F!TypeOK'
    BY <1>1, <1>3, <1>7, <2>4, <2>5, CatTyped DEF FrameInv, F!TypeOK
  <2>7. GotInv'
    <3>1. \A k \in 1..had+1 : got'[k] = sent[k]
      BY <1>10, <2>5
    <3> QED
      BY <1>1, <1>10, <2>2, <2>4, <2>5, <3>1 DEF GotInv, F!InvalidForCause
  <2>8. Follows(tail, rest)'
    <3>1. Known' = <<>>
      BY <2>4 DEF Known
    <3>2. <<>> \o (<<>> \o follow) = follow
      BY <1>16, CatEmpty
    <3>3. (had + 1) + 1 = had + 2
      BY <1>10
    <3> QED
      BY <1>1, <1>12, <2>3, <2>4, <2>5, <3>1, <3>2, <3>3 DEF Follows
  <2>9. StreamInv'
    BY <1>13, <2>4, <2>8 DEF StreamInv
  <2> QED
    BY <1>9, <2>6, <2>7, <2>9 DEF FrameInv
<1> QED
  BY <1>14, <1>17, <1>18

LEMMA FramesKept ==
    ASSUME FrameInv, [F!Next]_F!vars
    PROVE  FrameInv'
<1>1. ASSUME NEW m \in F!Message, F!Frame(m) PROVE FrameInv'
  BY <1>1, FrameStep
<1>2. ASSUME NEW n, F!Write(n) PROVE FrameInv'
  BY <1>2, WriteStep
<1>3. ASSUME NEW n, F!Read(n) PROVE FrameInv'
  BY <1>3, ReadStep
<1>4. CASE F!Close
  BY <1>4, CloseStep
<1>5. CASE F!Eof \/ F!Timeout
  BY <1>5, EofStep
<1>6. CASE UNCHANGED F!vars
  <2>1. UNCHANGED <<left, stream, open, sent, whole, part, length, got, reader, accepts>>
    BY <1>6 DEF F!vars, F!writerVars, F!readerVars
  <2>2. F!TypeOK'
    BY <2>1 DEF FrameInv, F!TypeOK
  <2>3. open' => (left' = <<>> <=> whole' = Len(sent'))
    BY <2>1 DEF FrameInv, SentInv
  <2>4. ASSUME NEW tail, NEW rest, Follows(tail, rest)
        PROVE  Follows(tail, rest)'
    BY <2>1, <2>4 DEF Follows, Known
  <2> QED
    BY <2>1, <2>2, <2>3, <2>4, SameSent
<1> QED
  BY <1>1, <1>2, <1>3, <1>4, <1>5, <1>6 DEF F!Next, F!ReaderStep

\* What was read is what was sent, as the model says it.
LEMMA ReadIsPrefix ==
    ASSUME F!TypeOK, GotInv
    PROVE  F!ReadsWhatWasSent
<1>1. /\ got \in Seq(Seq(F!Digit)) /\ sent \in Seq(F!Message) /\ Len(got) \in Nat
      /\ Len(got) <= Len(sent) /\ \A k \in 1..Len(got) : got[k] = sent[k]
  BY DEF F!TypeOK, GotInv
<1>2. SubSeq(got, 1, Len(got)) = SubSeq(sent, 1, Len(got))
  <2>1. SubSeq(got, 1, Len(got)) = [k \in 1..Len(got) |-> got[k]]
    BY <1>1
  <2>2. SubSeq(sent, 1, Len(got)) = [k \in 1..Len(got) |-> sent[k]]
    BY <1>1
  <2> QED
    BY <1>1, <2>1, <2>2
<1> QED
  BY <1>1, <1>2 DEF F!ReadsWhatWasSent, F!IsPrefix

\* Whatever the pieces in which the stream is written and read and wherever it
\* ends, for every base and width of the length, every set of limits and any
\* messages: what is read are the first of the messages sent, and a length is
\* refused only if the message is longer than the reader accepts.
THEOREM FramesAlwaysInv == F!Spec => []FramesInv
<1>1. F!Init => FrameInv
  BY FrameInvInit
<1>2. FrameInv /\ [F!Next]_F!vars => FrameInv'
  BY FramesKept
<1>3. FrameInv => FramesInv
  BY ReadIsPrefix DEF FrameInv, GotInv, FramesInv
<1> QED
  BY <1>1, <1>2, <1>3, PTL DEF F!Spec
=============================================================================
