--------------------------- MODULE NodeCallsProofs ---------------------------
(***************************************************************************)
(* Proofs about NodeCalls, for every set of calls and every capacity of    *)
(* the event channel: its invariants, and that it implements CallContract. *)
(***************************************************************************)
EXTENDS NodeCalls, TLAPS

(***************************************************************************)
(* Type correctness.                                                       *)
(***************************************************************************)

\* A publication keeps the event channel a sequence of messages that fits
\* its capacity.
LEMMA PublishType ==
    ASSUME NEW m \in Message, Publish(m),
           events \in Seq(Message), Len(events) <= Capacity
    PROVE  events' \in Seq(Message) /\ Len(events') <= Capacity
BY CapacityAssumption DEF Publish

\* Dropping senders or a receiver leaves every channel in a channel state.
LEMMA ChanTypes ==
    ASSUME chan \in [Call -> ChanStates]
    PROVE  /\ \A S : DropSenders(S) => chan' \in [Call -> ChanStates]
           /\ \A c \in Call : DropReceiver(c) => chan' \in [Call -> ChanStates]
BY DEF DropSenders, DropReceiver, Deliver, ChanStates

\* The steps of a call, its writer, its resolver and its handler keep the
\* types.
LEMMA CallStepType ==
    ASSUME TypeOK, NEW c \in Call, CallStep(c) \/ Write(c) \/ Resolve(c) \/ Handler(c)
    PROVE  TypeOK'
<1> USE DEF TypeOK, PcSteps, Outcomes, QuerySteps
<1>m. [kind |-> "query", call |-> c] \in Message /\ [kind |-> "reply", call |-> c] \in Message
  BY DEF Message
<1>1. CASE CallBegin(c)
  BY <1>1 DEF CallBegin, Goto, Return, lifeVars
<1>2. CASE CallLookup(c)
  BY <1>2 DEF CallLookup, Goto, Return, lifeVars
<1>3. CASE CallInsert(c)
  BY <1>3 DEF CallInsert, Goto, lifeVars, ChanStates
<1>4. CASE CallSend(c)
  BY <1>4 DEF CallSend, Goto, lifeVars
<1>5. CASE CallLoopback(c)
  BY <1>5, <1>m, PublishType DEF CallLoopback, Goto, lifeVars
<1>6. CASE CallEnqueue(c)
  BY <1>6 DEF CallEnqueue, Goto, lifeVars
<1>7. CASE CallUnsend(c)
  <2>1. chan' \in [Call -> ChanStates]
    BY <1>7, ChanTypes DEF CallUnsend
  <2> QED
    BY <1>7, <2>1 DEF CallUnsend, DropSenders, Goto, Return, lifeVars
<1>8. CASE CallReply(c) \/ CallTimeout(c) \/ CallCancelled(c) \/ CallDropped(c)
  <2>1. chan' \in [Call -> ChanStates]
    BY <1>8, ChanTypes DEF CallReply, CallTimeout, CallCancelled, CallDropped
  <2> QED
    BY <1>8, <2>1 DEF CallReply, CallTimeout, CallCancelled, CallDropped,
                      Goto, Return, lifeVars
<1>9. CASE CallFinish(c)
  <2>1. chan' \in [Call -> ChanStates]
    BY <1>9, ChanTypes DEF CallFinish
  <2> QED
    BY <1>9, <2>1 DEF CallFinish, DropSenders, Goto, lifeVars
<1>10. CASE Write(c)
  BY <1>10 DEF Write, Goto, lifeVars
<1>11. CASE Resolve(c)
  BY <1>11 DEF Resolve, Deliver, ChanStates, lifeVars, callVars
<1>12. CASE HandlerRuns(c)
  BY <1>12 DEF HandlerRuns, lifeVars, callVars
<1>13. CASE HandlerDeclines(c) \/ HandlerAnswers(c)
  <2>1. events' \in Seq(Message) /\ Len(events') <= Capacity
    BY <1>13, <1>m, PublishType DEF HandlerDeclines, HandlerAnswers, Reply, ReplyReaches
  <2> QED
    BY <1>13, <2>1 DEF HandlerDeclines, HandlerAnswers, lifeVars, callVars
<1> QED
  BY <1>1, <1>2, <1>3, <1>4, <1>5, <1>6, <1>7, <1>8, <1>9, <1>10, <1>11, <1>12,
     <1>13 DEF CallStep, Handler

\* So do the steps of the lifecycle and of the dispatch loop.
LEMMA NodeStepType ==
    ASSUME TypeOK, Lifecycle \/ Dispatch \/ DispatchExit \/ PresenterChanges
    PROVE  TypeOK'
<1> USE DEF TypeOK, LifeSteps
<1>e. <<>> \in Seq(Message) /\ Len(<<>>) <= Capacity
  BY CapacityAssumption
<1>1. CASE StartSubscribe \/ StartTasks \/ StartBeacon
  BY <1>1 DEF StartSubscribe, StartTasks, StartBeacon, callVars
<1>2. CASE StartTransport
  BY <1>2, <1>e DEF StartTransport, callVars
<1>3. CASE StopBegin \/ StopUnstarted \/ StopTransport \/ StopJoin
  BY <1>3 DEF StopBegin, StopUnstarted, StopTransport, StopJoin, callVars
<1>4. CASE StopClear
  <2>1. chan' \in [Call -> ChanStates]
    BY <1>4, ChanTypes DEF StopClear
  <2> QED
    BY <1>4, <2>1 DEF StopClear, DropSenders, callVars
<1>5. CASE Dispatch
  <2>1. Head(events) \in Message /\ Tail(events) \in Seq(Message)
          /\ Len(Tail(events)) <= Capacity
    BY <1>5, CapacityAssumption DEF Dispatch
  <2>2. Head(events).call \in Call
    BY <2>1 DEF Message
  <2> QED
    BY <1>5, <2>1, <2>2 DEF Dispatch, QuerySteps, ChanStates, lifeVars, callVars
<1>6. CASE DispatchExit
  BY <1>6, <1>e DEF DispatchExit, lifeVars, callVars
<1>7. CASE PresenterChanges
  BY <1>7 DEF PresenterChanges, lifeVars, callVars
<1> QED
  BY <1>1, <1>2, <1>3, <1>4, <1>5, <1>6, <1>7 DEF Lifecycle

\* Every variable keeps its type, and the event channel never holds more
\* than its capacity.
THEOREM TypeCorrect == Spec => []TypeOK
<1>1. Init => TypeOK
  <2> SUFFICES ASSUME Init PROVE TypeOK
    OBVIOUS
  <2>1. events \in Seq(Message) /\ Len(events) <= Capacity
    BY CapacityAssumption DEF Init
  <2>2. /\ pc \in [Call -> PcSteps] /\ outcome \in [Call -> Outcomes]
        /\ chan \in [Call -> ChanStates] /\ query \in [Call -> QuerySteps]
    BY DEF Init, PcSteps, Outcomes, ChanStates, QuerySteps
  <2> QED
    BY <2>1, <2>2 DEF Init, TypeOK, LifeSteps
<1>2. TypeOK /\ [Next]_vars => TypeOK'
  <2> SUFFICES ASSUME TypeOK, [Next]_vars PROVE TypeOK'
    OBVIOUS
  <2>1. CASE UNCHANGED vars
    BY <2>1 DEF vars, TypeOK
  <2>2. CASE Next
    BY <2>2, CallStepType, NodeStepType DEF Next
  <2> QED
    BY <2>1, <2>2
<1> QED
  BY <1>1, <1>2, PTL DEF Spec

(***************************************************************************)
(* The map of pending replies and its senders.                             *)
(***************************************************************************)

\* A step of a call, its writer, its resolver or its handler keeps every
\* entry of pending with an open channel and with a call that needs it.
LEMMA CallStepOwned ==
    ASSUME TypeOK, PendingOwned,
           NEW c \in Call, CallStep(c) \/ Write(c) \/ Resolve(c) \/ Handler(c)
    PROVE  PendingOwned'
<1> USE DEF TypeOK, PendingOwned
<1>1. CASE CallBegin(c)
  BY <1>1 DEF CallBegin, Goto, Return
<1>2. CASE CallLookup(c)
  BY <1>2 DEF CallLookup, Goto, Return
<1>3. CASE CallInsert(c)
  BY <1>3 DEF CallInsert, Goto
<1>4. CASE CallSend(c)
  BY <1>4 DEF CallSend, Goto
<1>5. CASE CallLoopback(c)
  BY <1>5 DEF CallLoopback, Goto
<1>6. CASE CallEnqueue(c)
  BY <1>6 DEF CallEnqueue, Goto
<1>7. CASE CallUnsend(c)
  BY <1>7 DEF CallUnsend, DropSenders, Deliver, Goto, Return
<1>8. CASE CallReply(c) \/ CallTimeout(c) \/ CallCancelled(c) \/ CallDropped(c)
  BY <1>8 DEF CallReply, CallTimeout, CallCancelled, CallDropped, DropReceiver,
              Goto, Return
<1>9. CASE CallFinish(c)
  BY <1>9 DEF CallFinish, DropSenders, Deliver, Goto
<1>10. CASE Write(c)
  BY <1>10 DEF Write, Goto
<1>11. CASE Resolve(c)
  BY <1>11 DEF Resolve, Deliver, callVars
<1>12. CASE Handler(c)
  BY <1>12 DEF Handler, HandlerRuns, HandlerDeclines, HandlerAnswers, callVars
<1> QED
  BY <1>1, <1>2, <1>3, <1>4, <1>5, <1>6, <1>7, <1>8, <1>9, <1>10, <1>11, <1>12
     DEF CallStep

\* So does every step of the lifecycle and of the dispatch loop.
LEMMA NodeStepOwned ==
    ASSUME TypeOK, PendingOwned,
           Lifecycle \/ Dispatch \/ DispatchExit \/ PresenterChanges
    PROVE  PendingOwned'
<1> USE DEF TypeOK, PendingOwned
<1>1. CASE Lifecycle /\ ~StopClear
  BY <1>1 DEF Lifecycle, StartSubscribe, StartTransport, StartTasks, StartBeacon,
              StopBegin, StopUnstarted, StopTransport, StopJoin, callVars
<1>2. CASE StopClear
  BY <1>2 DEF StopClear, DropSenders, Deliver, callVars
<1>3. CASE Dispatch
  BY <1>3 DEF Dispatch, callVars
<1>4. CASE DispatchExit \/ PresenterChanges
  BY <1>4 DEF DispatchExit, PresenterChanges, callVars
<1> QED
  BY <1>1, <1>2, <1>3, <1>4

\* No entry of pending outlives a call that returned, and every open channel
\* has its sender there.  The property is inductive given the types.
THEOREM PendingAlwaysOwned == Spec => []PendingOwned
<1>1. Init => PendingOwned
  BY DEF Init, PendingOwned
<1>2. TypeOK /\ PendingOwned /\ [Next]_vars => PendingOwned'
  <2> SUFFICES ASSUME TypeOK, PendingOwned, [Next]_vars PROVE PendingOwned'
    OBVIOUS
  <2>1. CASE UNCHANGED vars
    BY <2>1 DEF vars, PendingOwned
  <2>2. CASE Next
    BY <2>2, CallStepOwned, NodeStepOwned DEF Next
  <2> QED
    BY <2>1, <2>2
<1> QED
  BY <1>1, <1>2, TypeCorrect, PTL DEF Spec

(***************************************************************************)
(* What a stop leaves behind.                                              *)
(***************************************************************************)

\* The transport and the dispatch loop as the lifecycle leaves them between
\* its steps.
LifeCoupled ==
    /\ started => transport = "up" /\ dispatch = "on" /\ life \in {"idle", "beaconing"}
    /\ life = "beaconing" => started
    /\ life \in {"idle", "clearing", "halting"} /\ ~started => dispatch = "off"
    /\ life \in {"idle", "starting"} /\ ~started /\ ~leaky => transport = "down"
    /\ life \in {"idle", "starting"} => transport # "closing"
    /\ life = "clearing" => transport = "down"
    /\ life = "spawning" => transport = "up"
    /\ life \in {"failing", "halting"} => leaky
    /\ life \in {"starting", "spawning"} => dispatch = "subscribed"

\* A sender taken out of pending is resolved before the dispatch loop ends.
ResolverRuns == Resolving => dispatch = "on"

\* While the node is down after a stop: see StopReleases.
Released ==
    /\ pending \subseteq {c \in Call : pc[c] \in {"send", "unsend"}}
    /\ ~presented

DownReleased ==
    /\ life \in {"idle", "starting"} /\ ~started /\ ~leaky => Released
    /\ life = "clearing" => ~presented

ReleaseInv == LifeCoupled /\ ResolverRuns /\ DownReleased

\* The steps of the lifecycle keep it: only StopJoin and StopClear make the
\* node released, and it stays so until a transport starts.
LEMMA LifecycleReleases ==
    ASSUME TypeOK, ReleaseInv, Lifecycle
    PROVE  ReleaseInv'
<1> USE DEF ReleaseInv, LifeCoupled, ResolverRuns, DownReleased, Released, TypeOK,
            LifeSteps
<1>1. CASE StartSubscribe
  BY <1>1 DEF StartSubscribe, Resolving, callVars
<1>2. CASE StartTransport
  BY <1>2 DEF StartTransport, Resolving, callVars
<1>3. CASE StartTasks
  BY <1>3 DEF StartTasks, Resolving, callVars
<1>4. CASE StartBeacon
  BY <1>4 DEF StartBeacon, Resolving, callVars
<1>5. CASE StopBegin \/ StopUnstarted
  BY <1>5 DEF StopBegin, StopUnstarted, Resolving, callVars
<1>6. CASE StopTransport
  BY <1>6 DEF StopTransport, Cancelled, Resolving, callVars
<1>7. CASE StopJoin
  BY <1>7 DEF StopJoin, Cancelled, Resolving, callVars
<1>8. CASE StopClear
  <2>1. ~Resolving
    BY <1>8 DEF StopClear
  <2>2. ~Resolving' /\ pending' = {}
    BY <1>8, <2>1 DEF StopClear, DropSenders, Deliver, Resolving
  <2> QED
    BY <1>8, <2>2 DEF StopClear, callVars
<1> QED
  BY <1>1, <1>2, <1>3, <1>4, <1>5, <1>6, <1>7, <1>8 DEF Lifecycle

\* So do the dispatch loop, which ends only when no sender is half resolved,
\* and the changes of the presenter table.
LEMMA DispatchReleases ==
    ASSUME TypeOK, ReleaseInv, Dispatch \/ DispatchExit \/ PresenterChanges
    PROVE  ReleaseInv'
<1> USE DEF ReleaseInv, LifeCoupled, ResolverRuns, DownReleased, Released, TypeOK,
            LifeSteps
<1>1. CASE Dispatch
  BY <1>1 DEF Dispatch, Resolving, lifeVars, callVars
<1>2. CASE DispatchExit
  BY <1>2 DEF DispatchExit, Cancelled, Resolving, lifeVars, callVars
<1>3. CASE PresenterChanges
  BY <1>3 DEF PresenterChanges, Resolving, lifeVars, callVars
<1> QED
  BY <1>1, <1>2, <1>3

\* While the node is down a call can only insert its entry, fail at
\* ensure_started and remove it; no step of a call takes a sender.
LEMMA CallStepReleases ==
    ASSUME TypeOK, ReleaseInv,
           NEW c \in Call, CallStep(c) \/ Write(c) \/ Resolve(c) \/ Handler(c)
    PROVE  ReleaseInv'
<1>1. UNCHANGED <<lifeVars, dispatch, presented>>
  BY DEF CallStep, CallBegin, CallLookup, CallInsert, CallSend, CallLoopback,
         CallEnqueue, CallUnsend, CallReply, CallTimeout, CallCancelled, CallFinish,
         CallDropped, Write, Resolve, Handler, HandlerRuns, HandlerDeclines,
         HandlerAnswers
<1>2. LifeCoupled'
  BY <1>1 DEF ReleaseInv, LifeCoupled, lifeVars
<1>3. Resolving' => Resolving
  BY DEF TypeOK, Resolving, CallStep, CallBegin, CallLookup, CallInsert, CallSend,
         CallLoopback, CallEnqueue, CallUnsend, CallReply, CallTimeout,
         CallCancelled, CallFinish, CallDropped, Write, Resolve, Handler, HandlerRuns,
         HandlerDeclines, HandlerAnswers, DropSenders, DropReceiver, Deliver, callVars
<1>4. ASSUME life \in {"idle", "starting"}, ~started, ~leaky, Released
      PROVE  Released'
  <2>1. transport = "down"
    BY <1>4 DEF ReleaseInv, LifeCoupled, TypeOK
  <2>2. CASE CallInsert(c)
    BY <1>1, <1>4, <2>2 DEF CallInsert, Goto, Released, TypeOK
  <2>3. CASE CallSend(c)
    BY <1>1, <1>4, <2>1, <2>3 DEF CallSend, Goto, Released, TypeOK
  <2>4. CASE CallUnsend(c) \/ CallFinish(c)
    BY <1>1, <1>4, <2>4 DEF CallUnsend, CallFinish, DropSenders, Goto, Return,
                            Released, TypeOK
  <2>5. CASE CallBegin(c) \/ CallLookup(c) \/ CallLoopback(c) \/ CallEnqueue(c)
    BY <1>1, <1>4, <2>5 DEF CallBegin, CallLookup, CallLoopback, CallEnqueue, Goto,
                            Return, Released, TypeOK
  <2>6. CASE CallReply(c) \/ CallTimeout(c) \/ CallCancelled(c) \/ CallDropped(c)
    BY <1>1, <1>4, <2>6 DEF CallReply, CallTimeout, CallCancelled, CallDropped, Goto,
                            Return, Released, TypeOK
  <2>7. CASE Write(c)
    BY <1>1, <1>4, <2>7 DEF Write, Goto, Released, TypeOK
  <2>8. CASE Resolve(c) \/ Handler(c)
    BY <1>1, <1>4, <2>8 DEF Resolve, Handler, HandlerRuns, HandlerDeclines,
                            HandlerAnswers, Released, callVars
  <2> QED
    BY <2>2, <2>3, <2>4, <2>5, <2>6, <2>7, <2>8 DEF CallStep
<1> QED
  BY <1>1, <1>2, <1>3, <1>4 DEF ReleaseInv, ResolverRuns, DownReleased, lifeVars

\* A stop that is complete leaves no caller waiting, no reply being resolved
\* and no presenter, until the node is started again; a start that fails with
\* the transport down does not change that, one that leaves it up may.
THEOREM StopAlwaysReleases == Spec => []StopReleases
<1>1. Init => ReleaseInv
  BY DEF Init, ReleaseInv, LifeCoupled, ResolverRuns, DownReleased, Released, Resolving
<1>2. TypeOK /\ ReleaseInv /\ [Next]_vars => ReleaseInv'
  <2> SUFFICES ASSUME TypeOK, ReleaseInv, [Next]_vars PROVE ReleaseInv'
    OBVIOUS
  <2>1. CASE UNCHANGED vars
    BY <2>1 DEF vars, ReleaseInv, LifeCoupled, ResolverRuns, DownReleased, Released,
                Resolving
  <2>2. CASE Next
    BY <2>2, LifecycleReleases, DispatchReleases, CallStepReleases DEF Next
  <2> QED
    BY <2>1, <2>2
<1>3. ReleaseInv => StopReleases
  BY DEF ReleaseInv, LifeCoupled, ResolverRuns, DownReleased, Released, StopReleases
<1> QED
  BY <1>1, <1>2, <1>3, TypeCorrect, PTL DEF Spec

-----------------------------------------------------------------------------
(***************************************************************************)
(* NodeCalls implements CallContract.  First the invariant: what the       *)
(* query, the messages on the event channel, the oneshot channel and the   *)
(* outcome of a call tell of each other.                                   *)
(***************************************************************************)
Unsent == {"idle", "lookup", "insert", "send", "route", "unsend"}

Answered == {"succeeded", "failed", "declined"}

\* What the caller has been told, or is about to be told, is what the handler
\* did; a call that failed locally never left the node.
Truthful(c) ==
    /\ pc[c] \in Unsent => query[c] = "none"
    /\ outcome[c] # "none" <=> pc[c] \in {"finish", "done"}
    /\ outcome[c] = "local" => query[c] = "none"
    /\ outcome[c] = "ok" \/ chan[c] = "ok" => query[c] = "succeeded"
    /\ outcome[c] = "remote" \/ chan[c] = "remote" =>
          query[c] \in {"failed", "declined"}
    /\ chan[c] = "taken" => query[c] \in Answered

\* A looped query is on the channel at most once and not yet handed on, so
\* that its handler cannot run twice; a reply follows its answer.
EventsTruthful ==
    /\ \A i \in 1..Len(events) :
        IF events[i].kind = "query" THEN query[events[i].call] = "looped"
        ELSE query[events[i].call] \in Answered
    /\ \A i, j \in 1..Len(events) :
        i # j /\ events[i].kind = "query" /\ events[j].kind = "query" =>
            events[i].call # events[j].call

ContractInv == EventsTruthful /\ \A c \in Call : Truthful(c)

(***************************************************************************)
(* The event channel.                                                      *)
(***************************************************************************)

\* What the event channel holds are queries and replies of calls.
LEMMA MessagesTyped ==
    ASSUME events \in Seq(Message)
    PROVE  \A i \in 1..Len(events) : events[i].kind \in {"query", "reply"}
                                      /\ events[i].call \in Call
<1> TAKE i \in 1..Len(events)
<1>1. events[i] \in Message
  OBVIOUS
<1> QED
  BY <1>1 DEF Message

\* After a publication every message but the published one was there before,
\* in the same order.
LEMMA PublishShifts ==
    ASSUME NEW m \in Message, Publish(m), events \in Seq(Message)
    PROVE  \E d \in {0, 1} : \A i \in 1..Len(events') :
              \/ i = Len(events') /\ events'[i] = m
              \/ i + d \in 1..Len(events) /\ events'[i] = events[i + d]
<1>1. CASE dispatch = "off"
  BY <1>1 DEF Publish
<1>2. CASE dispatch # "off" /\ Len(events) < Capacity
  BY <1>2 DEF Publish
<1>3. CASE dispatch # "off" /\ ~(Len(events) < Capacity)
  <2>1. events # <<>> /\ Len(events) > 0
    BY <1>3, CapacityAssumption
  <2>2. events' = Append(Tail(events), m)
    BY <1>3 DEF Publish
  <2>3. Tail(events) \in Seq(Message) /\ Len(Tail(events)) = Len(events) - 1
    BY <2>1
  <2>4. \A i \in 1..Len(Tail(events)) : Tail(events)[i] = events[i + 1]
    BY <2>1
  <2>5. \A i \in 1..Len(events') :
              \/ i = Len(events') /\ events'[i] = m
              \/ i + 1 \in 1..Len(events) /\ events'[i] = events[i + 1]
    <3> DEFINE t == Tail(events)
    <3>1. t \in Seq(Message) /\ events' = Append(t, m) /\ Len(t) = Len(events) - 1
      BY <2>2, <2>3
    <3>2. \A i \in 1..Len(t) : t[i] = events[i + 1]
      BY <2>4
    <3> HIDE DEF t
    <3>3. /\ Len(Append(t, m)) = Len(t) + 1
          /\ Append(t, m)[Len(t) + 1] = m
          /\ \A i \in 1..Len(t) : Append(t, m)[i] = t[i]
      BY <3>1
    <3>4. Len(events) \in Nat /\ Len(t) \in Nat
      BY <3>1
    <3> QED
      BY <3>1, <3>2, <3>3, <3>4
  <2> QED
    BY <2>5
<1> QED
  BY <1>1, <1>2, <1>3

\* A step that leaves the channel alone, or publishes a reply or the query of
\* a call that was not sent before, keeps the channel truthful.
LEMMA PublicationTruthful ==
    ASSUME TypeOK, EventsTruthful, NEW m \in Message, Publish(m),
           IF m.kind = "query" THEN query[m.call] = "none" /\ query'[m.call] = "looped"
                               ELSE query'[m.call] \in Answered,
           \A c \in Call : query[c] \in Answered \union {"looped"} => query'[c] = query[c]
    PROVE  EventsTruthful'
<1>1. events \in Seq(Message) /\ query \in [Call -> QuerySteps]
  BY DEF TypeOK
<1>2. PICK d \in {0, 1} : \A i \in 1..Len(events') :
              \/ i = Len(events') /\ events'[i] = m
              \/ i + d \in 1..Len(events) /\ events'[i] = events[i + d]
  BY <1>1, PublishShifts
<1>3. \A i \in 1..Len(events) : events[i].call \in Call
  BY <1>1, MessagesTyped
<1>4. Len(events') \in Nat
  <2>1. events' \in Seq(Message)
    BY PublishType DEF TypeOK
  <2> QED
    BY <2>1
<1>5. ASSUME NEW i \in 1..Len(events')
      PROVE  IF events'[i].kind = "query" THEN query'[events'[i].call] = "looped"
             ELSE query'[events'[i].call] \in Answered
  <2>1. CASE events'[i] = m
    BY <2>1
  <2>2. CASE i + d \in 1..Len(events) /\ events'[i] = events[i + d]
    BY <1>3, <2>2 DEF EventsTruthful
  <2> QED
    BY <1>2, <2>1, <2>2
<1>6. ASSUME NEW i \in 1..Len(events'), NEW j \in 1..Len(events'), i # j,
             events'[i].kind = "query", events'[j].kind = "query",
             events'[i].call = events'[j].call
      PROVE  FALSE
  <2>1. CASE i = Len(events') /\ events'[i] = m
    <3>1. j + d \in 1..Len(events) /\ events'[j] = events[j + d]
      BY <1>2, <1>6, <2>1
    <3>2. query[m.call] = "looped"
      BY <1>6, <2>1, <3>1 DEF EventsTruthful
    <3> QED
      BY <1>6, <2>1, <3>2
  <2>2. CASE j = Len(events') /\ events'[j] = m
    <3>1. i + d \in 1..Len(events) /\ events'[i] = events[i + d]
      BY <1>2, <1>6, <2>2
    <3>2. query[m.call] = "looped"
      BY <1>6, <2>2, <3>1 DEF EventsTruthful
    <3> QED
      BY <1>6, <2>2, <3>2
  <2>3. CASE /\ i + d \in 1..Len(events) /\ events'[i] = events[i + d]
             /\ j + d \in 1..Len(events) /\ events'[j] = events[j + d]
    <3>1. i + d # j + d
      BY <1>4, <1>6
    <3> QED
      BY <1>6, <2>3, <3>1 DEF EventsTruthful
  <2> QED
    BY <1>2, <2>1, <2>2, <2>3
<1> QED
  BY <1>5, <1>6 DEF EventsTruthful

\* The channel stays truthful when it is left alone or emptied.
LEMMA QuietTruthful ==
    ASSUME TypeOK, EventsTruthful, events' = events \/ events' = <<>>,
           \A c \in Call : query[c] \in Answered \union {"looped"} => query'[c] = query[c]
    PROVE  EventsTruthful'
<1>1. CASE events' = <<>>
  BY <1>1 DEF EventsTruthful
<1>2. CASE events' = events
  <2>1. \A i \in 1..Len(events) : events[i].call \in Call
    BY MessagesTyped DEF TypeOK
  <2> QED
    BY <1>2, <2>1 DEF EventsTruthful
<1> QED
  BY <1>1, <1>2

(***************************************************************************)
(* The invariant is kept.                                                  *)
(***************************************************************************)

\* What dropping senders does to the channel of a call.
LEMMA DropSendersTruthful ==
    ASSUME TypeOK, NEW S, DropSenders(S), NEW c \in Call
    PROVE  chan'[c] = chan[c] \/ chan'[c] \in {"closed", "none"}
BY DEF TypeOK, DropSenders, Deliver

\* The steps of the lifecycle and of the presenter table.
LEMMA NodeStepTruthful ==
    ASSUME TypeOK, ContractInv, Lifecycle \/ DispatchExit \/ PresenterChanges
    PROVE  ContractInv'
<1>1. UNCHANGED <<pc, outcome, query>> /\ (events' = events \/ events' = <<>>)
  BY DEF Lifecycle, StartSubscribe, StartTransport, StartTasks, StartBeacon, StopBegin,
         StopUnstarted, StopTransport, StopJoin, StopClear, DispatchExit, PresenterChanges, callVars
<1>2. \A c \in Call : chan'[c] = chan[c] \/ chan'[c] \in {"closed", "none"}
  BY DropSendersTruthful
     DEF Lifecycle, StartSubscribe, StartTransport, StartTasks, StartBeacon, StopBegin,
         StopUnstarted, StopTransport, StopJoin, StopClear, DispatchExit, PresenterChanges
<1>3. EventsTruthful'
  BY <1>1, QuietTruthful DEF ContractInv
<1> QED
  BY <1>1, <1>2, <1>3 DEF ContractInv, Truthful

\* The dispatch loop hands on a looped query, of which no second copy is
\* left, and takes out the sender of a call that was answered.
LEMMA DispatchTruthful ==
    ASSUME TypeOK, ContractInv, Dispatch
    PROVE  ContractInv'
<1> DEFINE m == Head(events)
           t == Tail(events)
<1>1. events \in Seq(Message) /\ events # <<>> /\ events' = t
  BY DEF TypeOK, Dispatch
<1>2. /\ t \in Seq(Message) /\ Len(t) = Len(events) - 1 /\ Len(events) \in Nat \ {0}
      /\ m = events[1] /\ 1 \in 1..Len(events)
      /\ \A i \in 1..Len(t) : t[i] = events[i + 1] /\ i + 1 \in 1..Len(events)
  BY <1>1
<1>3. m.call \in Call /\ m.kind \in {"query", "reply"}
  BY <1>1, <1>2, MessagesTyped
<1>4. \A i \in 1..Len(t) : t[i].call \in Call
  BY <1>1, <1>2, MessagesTyped
<1>5. IF m.kind = "query" THEN query[m.call] = "looped" ELSE query[m.call] \in Answered
  BY <1>2 DEF ContractInv, EventsTruthful
<1>6. UNCHANGED <<pc, outcome>>
  BY DEF Dispatch, callVars
<1>7. \A i, j \in 1..Len(t) :
        i # j /\ t[i].kind = "query" /\ t[j].kind = "query" => t[i].call # t[j].call
  <2> SUFFICES ASSUME NEW i \in 1..Len(t), NEW j \in 1..Len(t), i # j,
                      t[i].kind = "query", t[j].kind = "query"
               PROVE  t[i].call # t[j].call
    OBVIOUS
  <2>1. i + 1 # j + 1
    BY <1>2
  <2> QED
    BY <1>2, <2>1 DEF ContractInv, EventsTruthful
<1>8. CASE m.kind = "query"
  <2>1. query' = [query EXCEPT ![m.call] = "arrived"] /\ chan' = chan
    BY <1>8 DEF Dispatch
  <2>2. \A i \in 1..Len(t) : t[i].kind = "query" => t[i].call # m.call
    <3> SUFFICES ASSUME NEW i \in 1..Len(t), t[i].kind = "query" PROVE t[i].call # m.call
      OBVIOUS
    <3>1. i + 1 # 1
      BY <1>2
    <3> QED
      BY <1>2, <1>8, <3>1 DEF ContractInv, EventsTruthful
  <2>3. \A i \in 1..Len(t) :
          IF t[i].kind = "query" THEN query[t[i].call] = "looped"
          ELSE query[t[i].call] \in Answered
    BY <1>2 DEF ContractInv, EventsTruthful
  <2>4. \A i \in 1..Len(t) :
          IF t[i].kind = "query" THEN query'[t[i].call] = "looped"
          ELSE query'[t[i].call] \in Answered
    BY <1>3, <1>4, <1>5, <1>8, <2>1, <2>2, <2>3 DEF TypeOK, Answered
  <2>5. EventsTruthful'
    BY <1>1, <1>7, <2>4 DEF EventsTruthful
  <2>6. \A c \in Call : Truthful(c)'
    BY <1>3, <1>5, <1>6, <1>8, <2>1 DEF ContractInv, Truthful, TypeOK, Answered
  <2> QED
    BY <2>5, <2>6 DEF ContractInv
<1>9. CASE m.kind = "reply"
  <2>1. query' = query /\ (chan' = chan \/ chan' = [chan EXCEPT ![m.call] = "taken"])
    BY <1>9 DEF Dispatch
  <2>2. EventsTruthful'
    BY <1>1, <1>2, <1>7, <2>1 DEF ContractInv, EventsTruthful
  <2>3. \A c \in Call : Truthful(c)'
    BY <1>3, <1>5, <1>6, <1>9, <2>1 DEF ContractInv, Truthful, TypeOK
  <2> QED
    BY <2>2, <2>3 DEF ContractInv
<1> QED
  BY <1>3, <1>8, <1>9

\* The steps of a call, its writer, its resolver and its handler.
LEMMA CallStepTruthful ==
    ASSUME TypeOK, ContractInv,
           NEW c \in Call, CallStep(c) \/ Write(c) \/ Resolve(c) \/ Handler(c)
    PROVE  ContractInv'
<1> USE DEF TypeOK, ContractInv, Truthful, Unsent, Answered
<1>q. [kind |-> "query", call |-> c] \in Message /\ [kind |-> "reply", call |-> c] \in Message
  BY DEF Message
<1>1. CASE CallBegin(c) \/ CallLookup(c) \/ CallInsert(c) \/ CallSend(c)
  <2>1. EventsTruthful'
    BY <1>1, QuietTruthful DEF CallBegin, CallLookup, CallInsert, CallSend
  <2> QED
    BY <1>1, <2>1 DEF CallBegin, CallLookup, CallInsert, CallSend, Goto, Return
<1>2. CASE CallLoopback(c)
  <2>1. EventsTruthful'
    BY <1>2, <1>q, PublicationTruthful DEF CallLoopback
  <2> QED
    BY <1>2, <2>1 DEF CallLoopback, Goto
<1>3. CASE CallEnqueue(c)
  <2>1. EventsTruthful'
    BY <1>3, QuietTruthful DEF CallEnqueue
  <2> QED
    BY <1>3, <2>1 DEF CallEnqueue, Goto
<1>4. CASE CallUnsend(c) \/ CallFinish(c)
  <2>1. EventsTruthful'
    BY <1>4, QuietTruthful DEF CallUnsend, CallFinish
  <2>2. \A d \in Call : chan'[d] = chan[d] \/ chan'[d] \in {"closed", "none"}
    BY <1>4, DropSendersTruthful DEF CallUnsend, CallFinish
  <2> QED
    BY <1>4, <2>1, <2>2 DEF CallUnsend, CallFinish, Goto, Return
<1>5. CASE CallReply(c) \/ CallTimeout(c) \/ CallCancelled(c) \/ CallDropped(c)
  <2>1. EventsTruthful'
    BY <1>5, QuietTruthful DEF CallReply, CallTimeout, CallCancelled, CallDropped
  <2> QED
    BY <1>5, <2>1 DEF CallReply, CallTimeout, CallCancelled, CallDropped, Goto, Return,
                      DropReceiver
<1>6. CASE Write(c)
  <2>1. EventsTruthful'
    BY <1>6, QuietTruthful DEF Write
  <2> QED
    BY <1>6, <2>1 DEF Write, Goto
<1>7. CASE Resolve(c)
  <2>1. EventsTruthful'
    BY <1>7, QuietTruthful DEF Resolve
  <2> QED
    BY <1>7, <2>1 DEF Resolve, Deliver, callVars
<1>8. CASE HandlerRuns(c)
  <2>1. EventsTruthful'
    BY <1>8, QuietTruthful DEF HandlerRuns
  <2> QED
    BY <1>8, <2>1 DEF HandlerRuns, callVars
<1>9. CASE HandlerDeclines(c) \/ HandlerAnswers(c)
  <2>1. query'[c] \in Answered /\ \A d \in Call \ {c} : query'[d] = query[d]
    BY <1>9 DEF HandlerDeclines, HandlerAnswers
  <2>2. EventsTruthful'
    BY <1>9, <1>q, <2>1, QuietTruthful, PublicationTruthful
       DEF HandlerDeclines, HandlerAnswers, Reply, ReplyReaches
  <2> QED
    BY <1>9, <2>1, <2>2 DEF HandlerDeclines, HandlerAnswers, callVars
<1> QED
  BY <1>1, <1>2, <1>3, <1>4, <1>5, <1>6, <1>7, <1>8, <1>9 DEF CallStep, Handler

\* What a caller is told, and what is on its way to it, is what the handler
\* of the call did.
THEOREM AlwaysTruthful == Spec => []ContractInv
<1>1. Init => ContractInv
  BY DEF Init, ContractInv, EventsTruthful, Truthful, Unsent
<1>2. TypeOK /\ ContractInv /\ [Next]_vars => ContractInv'
  <2> SUFFICES ASSUME TypeOK, ContractInv, [Next]_vars PROVE ContractInv'
    OBVIOUS
  <2>1. CASE UNCHANGED vars
    BY <2>1 DEF vars, ContractInv, EventsTruthful, Truthful
  <2>2. CASE Next
    BY <2>2, NodeStepTruthful, DispatchTruthful, CallStepTruthful DEF Next
  <2> QED
    BY <2>1, <2>2
<1> QED
  BY <1>1, <1>2, TypeCorrect, PTL DEF Spec

(***************************************************************************)
(* The refinement.                                                         *)
(***************************************************************************)

\* A step that changes the query, the program counter and the outcome of at
\* most one call changes the effect and the verdict of at most that call.
LEMMA OneCallAtATime ==
    ASSUME TypeOK, NEW c \in Call,
           \A d \in Call \ {c} : /\ query'[d] = query[d] /\ pc'[d] = pc[d]
                                  /\ outcome'[d] = outcome[d]
    PROVE  /\ Effect' = [Effect EXCEPT ![c] = Effect'[c]]
           /\ Verdict' = [Verdict EXCEPT ![c] = Verdict'[c]]
<1>1. \A d \in Call \ {c} : Effect'[d] = Effect[d]
  BY DEF Effect
<1>2. \A d \in Call \ {c} : Verdict'[d] = Verdict[d]
  BY DEF Verdict
<1>3. Effect' = [d \in Call |-> Effect'[d]] /\ Effect = [d \in Call |-> Effect[d]]
  BY DEF Effect
<1>4. Verdict' = [d \in Call |-> Verdict'[d]] /\ Verdict = [d \in Call |-> Verdict[d]]
  BY DEF Verdict
<1> QED
  BY <1>1, <1>2, <1>3, <1>4

\* What a step may make of the effect and the verdict of a call.
MayStep(c) ==
    \/ Effect'[c] = Effect[c] /\ Verdict'[c] = Verdict[c]
    \/ /\ Effect'[c] = Effect[c]
       /\ Verdict[c] = "none" /\ Verdict'[c] = "running"
    \/ /\ Verdict'[c] = Verdict[c] /\ Verdict[c] \in {"running", "unknown"}
       /\ Effect[c] = "none" /\ Effect'[c] = "executing"
    \/ /\ Verdict'[c] = Verdict[c]
       /\ Effect[c] = "executing" /\ Effect'[c] \in {"succeeded", "failed"}
    \/ /\ Effect'[c] = Effect[c]
       /\ \/ Verdict[c] = "running"
          \/ Verdict[c] = "none" /\ Verdict'[c] = "local"
       /\ \/ Verdict'[c] = "ok" /\ Effect[c] = "succeeded"
          \/ Verdict'[c] = "remote" /\ Effect[c] \in {"none", "failed"}
          \/ Verdict'[c] = "local" /\ Effect[c] = "none"
          \/ Verdict'[c] = "unknown"

\* Putting back the value that is there changes nothing.
LEMMA ExceptSame ==
    ASSUME NEW S, NEW T, NEW f \in [S -> T], NEW c \in S
    PROVE  [f EXCEPT ![c] = f[c]] = f
OBVIOUS

\* If one call does what MayStep allows, the contract takes a step or stutters.
LEMMA AbstractStep ==
    ASSUME TypeOK, NEW c \in Call,
           \A d \in Call \ {c} : /\ query'[d] = query[d] /\ pc'[d] = pc[d]
                                  /\ outcome'[d] = outcome[d],
           MayStep(c)
    PROVE  [Contract!Next]_(Contract!vars)
<1>1. /\ Effect' = [Effect EXCEPT ![c] = Effect'[c]]
      /\ Verdict' = [Verdict EXCEPT ![c] = Verdict'[c]]
  BY OneCallAtATime
<1>2. /\ Effect \in [Call -> {"none", "executing", "succeeded", "failed"}]
      /\ Verdict \in [Call -> {"none", "running", "local", "ok", "remote", "unknown"}]
  BY DEF TypeOK, Effect, Verdict, Outcomes
<1>e. Effect'[c] = Effect[c] => Effect' = Effect
  <2>1. [Effect EXCEPT ![c] = Effect[c]] = Effect
    BY <1>2, ExceptSame
  <2> QED
    BY <1>1, <2>1
<1>v. Verdict'[c] = Verdict[c] => Verdict' = Verdict
  <2>1. [Verdict EXCEPT ![c] = Verdict[c]] = Verdict
    BY <1>2, ExceptSame
  <2> QED
    BY <1>1, <2>1
<1>3. CASE Effect'[c] = Effect[c] /\ Verdict'[c] = Verdict[c]
  BY <1>3, <1>e, <1>v DEF Contract!vars
<1>4. CASE /\ Effect'[c] = Effect[c]
           /\ Verdict[c] = "none" /\ Verdict'[c] = "running"
  <2>1. Effect' = Effect
    BY <1>4, <1>e
  <2> QED
    BY <1>1, <1>4, <2>1 DEF Contract!Next, Contract!Invoke
<1>5. CASE /\ Verdict'[c] = Verdict[c] /\ Verdict[c] \in {"running", "unknown"}
           /\ Effect[c] = "none" /\ Effect'[c] = "executing"
  <2>1. Verdict' = Verdict
    BY <1>5, <1>v
  <2> QED
    BY <1>1, <1>5, <2>1 DEF Contract!Next, Contract!Execute
<1>6. CASE /\ Verdict'[c] = Verdict[c]
           /\ Effect[c] = "executing" /\ Effect'[c] \in {"succeeded", "failed"}
  <2>1. Verdict' = Verdict
    BY <1>6, <1>v
  <2> QED
    BY <1>1, <1>6, <2>1 DEF Contract!Next, Contract!Complete
<1>7. CASE /\ Effect'[c] = Effect[c]
           /\ \/ Verdict[c] = "running"
              \/ Verdict[c] = "none" /\ Verdict'[c] = "local"
           /\ \/ Verdict'[c] = "ok" /\ Effect[c] = "succeeded"
              \/ Verdict'[c] = "remote" /\ Effect[c] \in {"none", "failed"}
              \/ Verdict'[c] = "local" /\ Effect[c] = "none"
              \/ Verdict'[c] = "unknown"
  <2>1. Effect' = Effect
    BY <1>7, <1>e
  <2>2. /\ Verdict'[c] \in {"ok", "remote", "local", "unknown"}
        /\ Effect[c] \in Contract!Warrants(Verdict'[c])
    BY <1>2, <1>7 DEF Contract!Warrants
  <2>3. Contract!Conclude(c, Verdict'[c])
    BY <1>1, <1>7, <2>1, <2>2 DEF Contract!Conclude
  <2> QED
    BY <2>2, <2>3 DEF Contract!Next
<1> QED
  BY <1>3, <1>4, <1>5, <1>6, <1>7 DEF MayStep

\* A step that changes no query, program counter or outcome is a stutter.
LEMMA HiddenStep ==
    ASSUME UNCHANGED <<query, pc, outcome>>
    PROVE  UNCHANGED Contract!vars
BY DEF Contract!vars, Effect, Verdict

\* Every step of a call, its writer, its resolver and its handler is a step
\* of the contract or a stutter.
LEMMA CallStepImplements ==
    ASSUME TypeOK, ContractInv,
           NEW c \in Call, CallStep(c) \/ Write(c) \/ Resolve(c) \/ Handler(c)
    PROVE  [Contract!Next]_(Contract!vars)
<1> USE DEF TypeOK, Effect, Verdict
<1>t. Truthful(c)
  BY DEF ContractInv
<1>f. \A d \in Call \ {c} : /\ query'[d] = query[d] /\ pc'[d] = pc[d]
                            /\ outcome'[d] = outcome[d]
  BY DEF CallStep, CallBegin, CallLookup, CallInsert, CallSend, CallLoopback,
         CallEnqueue, CallUnsend, CallReply, CallTimeout, CallCancelled, CallFinish,
         CallDropped, Write, Resolve, Handler, HandlerRuns, HandlerDeclines,
         HandlerAnswers, Goto, Return, callVars
<1>1. CASE CallBegin(c) \/ CallLookup(c)
  <2>1. MayStep(c)
    BY <1>1, <1>t DEF CallBegin, CallLookup, Goto, Return, Truthful, Unsent, MayStep
  <2> QED
    BY <1>f, <2>1, AbstractStep
<1>2. CASE CallInsert(c) \/ CallSend(c) \/ CallLoopback(c) \/ CallEnqueue(c)
  <2>1. MayStep(c)
    BY <1>2, <1>t DEF CallInsert, CallSend, CallLoopback, CallEnqueue, Goto, Truthful,
                      Unsent, MayStep
  <2> QED
    BY <1>f, <2>1, AbstractStep
<1>3. CASE CallUnsend(c) \/ CallTimeout(c) \/ CallCancelled(c)
  <2>1. MayStep(c)
    BY <1>3, <1>t DEF CallUnsend, CallTimeout, CallCancelled, Goto, Return, Truthful,
                      Unsent, QuerySteps, MayStep
  <2> QED
    BY <1>f, <2>1, AbstractStep
<1>4. CASE CallReply(c)
  <2>1. MayStep(c)
    BY <1>4, <1>t DEF CallReply, Goto, Return, Truthful, Unsent, MayStep
  <2> QED
    BY <1>f, <2>1, AbstractStep
<1>5. CASE CallFinish(c) \/ CallDropped(c)
  <2>1. MayStep(c)
    BY <1>5, <1>t DEF CallFinish, CallDropped, Goto, Truthful, Unsent, MayStep
  <2> QED
    BY <1>f, <2>1, AbstractStep
<1>6. CASE Write(c)
  <2>1. MayStep(c)
    BY <1>6, <1>t DEF Write, Goto, Truthful, Unsent, MayStep
  <2> QED
    BY <1>f, <2>1, AbstractStep
<1>7. CASE Resolve(c)
  BY <1>7, HiddenStep DEF Resolve, callVars
<1>8. CASE Handler(c)
  <2>1. MayStep(c)
    BY <1>8, <1>t DEF Handler, HandlerRuns, HandlerDeclines, HandlerAnswers, Truthful,
                      Unsent, Outcomes, MayStep, callVars
  <2> QED
    BY <1>f, <2>1, AbstractStep
<1> QED
  BY <1>1, <1>2, <1>3, <1>4, <1>5, <1>6, <1>7, <1>8 DEF CallStep

\* The dispatch loop moves messages on, which the contract does not see.
LEMMA DispatchImplements ==
    ASSUME TypeOK, ContractInv, Dispatch
    PROVE  UNCHANGED Contract!vars
<1>1. UNCHANGED <<pc, outcome>>
  BY DEF Dispatch, callVars
<1>2. CASE query' = query
  BY <1>1, <1>2, HiddenStep
<1>3. CASE query' # query
  <2> DEFINE m == Head(events)
  <2>1. events \in Seq(Message) /\ m = events[1] /\ 1 \in 1..Len(events)
    BY DEF TypeOK, Dispatch
  <2>2. m.kind = "query" /\ query' = [query EXCEPT ![m.call] = "arrived"]
    BY <1>3 DEF Dispatch
  <2>3. m.call \in Call /\ query[m.call] = "looped"
    BY <2>1, <2>2, MessagesTyped DEF ContractInv, EventsTruthful
  <2> QED
    BY <1>1, <2>2, <2>3 DEF TypeOK, Contract!vars, Effect, Verdict
<1> QED
  BY <1>2, <1>3

\* The call path implements the at-most-once contract: whatever the order of
\* replies, timeouts, cancellations, lost messages, stops and restarts, no
\* handler runs twice and no caller is told what did not happen.
THEOREM CallsImplementContract == Spec => ImplementsContract
<1>1. Init => Contract!Init
  BY DEF Init, Contract!Init, Effect, Verdict
<1>2. TypeOK /\ ContractInv /\ [Next]_vars => [Contract!Next]_(Contract!vars)
  <2> SUFFICES ASSUME TypeOK, ContractInv, [Next]_vars
               PROVE  [Contract!Next]_(Contract!vars)
    OBVIOUS
  <2>1. CASE UNCHANGED vars
    BY <2>1, HiddenStep DEF vars
  <2>2. CASE Lifecycle \/ DispatchExit \/ PresenterChanges
    BY <2>2, HiddenStep
       DEF Lifecycle, StartSubscribe, StartTransport, StartTasks, StartBeacon, StopBegin,
           StopUnstarted, StopTransport, StopJoin, StopClear, DispatchExit, PresenterChanges, callVars
  <2>3. CASE Dispatch
    BY <2>3, DispatchImplements
  <2>4. CASE \E c \in Call : CallStep(c) \/ Write(c) \/ Resolve(c) \/ Handler(c)
    BY <2>4, CallStepImplements
  <2> QED
    BY <2>1, <2>2, <2>3, <2>4 DEF Next
<1> QED
  BY <1>1, <1>2, TypeCorrect, AlwaysTruthful, PTL DEF Spec, ImplementsContract, Contract!Spec
=============================================================================
