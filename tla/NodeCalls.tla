------------------------------ MODULE NodeCalls ------------------------------
(***************************************************************************)
(* The outgoing calls of one node (GlycoComplex, src/src/node.rs) across   *)
(* its lifecycle: call_raw_with_options and the map of pending replies,    *)
(* the dispatch loop that resolves them, start() and stop(), and as much   *)
(* of the transport and of the answering node as a call can observe.       *)
(*                                                                         *)
(* A call is identified with its query id (Uuid::new_v4, never reused).    *)
(* One step is what the code does between two points where another task   *)
(* or thread can run: an await, or the release of a lock.                  *)
(***************************************************************************)
EXTENDS Naturals, Sequences

CONSTANTS
    Call,       \* the calls this node issues
    Local,      \* the calls addressed to the node's own id
    Timed,      \* the calls whose CallOptions.timeout is Some(_)
    Capacity    \* slots of the connexon's event channel (1024 in the code)

ASSUME CallAssumption == Local \subseteq Call /\ Timed \subseteq Call

ASSUME CapacityAssumption == Capacity \in Nat \ {0}

VARIABLES
    started,    \* NodeInner.started
    life,       \* where the holder of the lifecycle mutex stands
    transport,  \* the connexon: down, up, or inside stop_blocking
    dispatch,   \* the event receiver: off, subscribed, or on (dispatch_loop)
    presented,  \* whether presenters holds the method the calls ask for
    leaky,      \* history: since the last complete stop() a start() failed after
                \* it had brought the transport up
    pc,         \* pc[c]: the next step of the call's future
    outcome,    \* outcome[c]: the kind of result call_raw_with_options returns
    pending,    \* the keys of NodeInner.pending
    chan,       \* chan[c]: the oneshot channel of the call
    query,      \* query[c]: how far the query has travelled
    events      \* the broadcast channel, as the dispatch loop sees it

lifeVars == <<started, life, transport, leaky>>
callVars == <<pc, outcome>>
vars == <<started, life, transport, dispatch, presented, leaky,
          pc, outcome, pending, chan, query, events>>

LifeSteps == {"idle", "starting", "spawning", "beaconing", "failing",
              "stopping", "clearing", "halting"}
PcSteps == {"idle", "lookup", "insert", "send", "route", "sending", "await",
            "finish", "unsend", "done", "abandoned"}
Outcomes == {"none", "local", "ok", "remote", "unknown"}
ChanStates == {"none", "open", "taken", "ok", "remote", "closed"}
QuerySteps == {"none", "queued", "looped", "arrived", "running",
               "succeeded", "failed", "declined"}
Message == [kind : {"query", "reply"}, call : Call]

TypeOK ==
    /\ started \in BOOLEAN
    /\ life \in LifeSteps
    /\ transport \in {"down", "up", "closing"}
    /\ dispatch \in {"off", "subscribed", "on"}
    /\ presented \in BOOLEAN
    /\ leaky \in BOOLEAN
    /\ pc \in [Call -> PcSteps]
    /\ outcome \in [Call -> Outcomes]
    /\ pending \in SUBSET Call
    /\ chan \in [Call -> ChanStates]
    /\ query \in [Call -> QuerySteps]
    /\ events \in Seq(Message) /\ Len(events) <= Capacity

Init ==
    /\ started = FALSE
    /\ life = "idle"
    /\ transport = "down"
    /\ dispatch = "off"
    /\ presented = FALSE
    /\ leaky = FALSE
    /\ pc = [c \in Call |-> "idle"]
    /\ outcome = [c \in Call |-> "none"]
    /\ pending = {}
    /\ chan = [c \in Call |-> "none"]
    /\ query = [c \in Call |-> "none"]
    /\ events = <<>>

(***************************************************************************)
(* A tokio broadcast channel never blocks its sender: when it is full the  *)
(* oldest message is overwritten, and the receiver learns only that it     *)
(* lagged.  Without a receiver a message is dropped.                       *)
(***************************************************************************)
Publish(m) ==
    events' = IF dispatch = "off" THEN events
              ELSE IF Len(events) < Capacity THEN Append(events, m)
              ELSE Append(Tail(events), m)

\* The call's future still holds the receiver of its channel.
Listening(c) == pc[c] \in {"send", "route", "sending", "await"}

\* What becomes of the channel when its sender resolves to v or is dropped.
Deliver(c, v) == IF Listening(c) THEN v ELSE "none"

\* Removing a sender from the map drops it, which closes its channel.
DropSenders(S) ==
    /\ pending' = pending \ S
    /\ chan' = [c \in Call |-> IF c \in S \intersect pending
                                THEN Deliver(c, "closed") ELSE chan[c]]

\* The future drops its receiver, and with it what the channel delivered.
DropReceiver(c) ==
    chan' = [chan EXCEPT ![c] = IF @ \in {"open", "taken"} THEN @ ELSE "none"]

\* The dispatch loop has taken a sender out of pending and not yet used it.
Resolving == \E c \in Call : chan[c] = "taken"

\* The token handed to the node's tasks has been cancelled.
Cancelled == life \in {"failing", "stopping"}

-----------------------------------------------------------------------------
(***************************************************************************)
(* start() and stop().  The lifecycle mutex serialises them, so one         *)
(* variable, life, tells which of their steps comes next.                  *)
(***************************************************************************)

\* The receiver is created before the transport starts, so that no message
\* of the new session is missed.
StartSubscribe ==
    /\ life = "idle" /\ ~started
    /\ life' = "starting"
    /\ dispatch' = "subscribed"
    /\ UNCHANGED <<started, transport, presented, leaky, callVars, pending,
                   chan, query, events>>

\* start_blocking fails before it has set its token, or at the spawn of a
\* thread, when the token stays and ensure_started goes on to pass.  With a
\* token there it returns Ok at once.  A failure drops the receiver.
StartTransport ==
    /\ life = "starting"
    /\ \/ /\ transport' = "up" /\ life' = "spawning"
          /\ UNCHANGED <<dispatch, events, leaky>>
       \/ /\ transport = "down" /\ life' = "idle"
          /\ dispatch' = "off" /\ events' = <<>>
          /\ \/ UNCHANGED <<transport, leaky>>
             \/ transport' = "up" /\ leaky' = TRUE
    /\ UNCHANGED <<started, presented, callVars, pending, chan, query>>

StartTasks ==
    /\ life = "spawning"
    /\ dispatch' = "on"
    /\ started' = TRUE
    /\ life' = "beaconing"
    /\ UNCHANGED <<transport, presented, leaky, callVars, pending, chan,
                   query, events>>

\* send_full_beacon succeeds, or start() undoes itself: unlike stop(), the
\* failed start clears neither presenters nor pending.
StartBeacon ==
    /\ life = "beaconing"
    /\ \/ life' = "idle" /\ UNCHANGED <<started, leaky>>
       \/ life' = "failing" /\ started' = FALSE /\ leaky' = TRUE
    /\ UNCHANGED <<transport, dispatch, presented, callVars, pending, chan,
                   query, events>>

StopBegin ==
    /\ life = "idle" /\ started
    /\ started' = FALSE
    /\ life' = "stopping"
    /\ UNCHANGED <<transport, dispatch, presented, leaky, callVars, pending,
                   chan, query, events>>

\* stop() of a node that is not started stops a transport that a failed start()
\* left up, and clears nothing.
StopUnstarted ==
    /\ life = "idle" /\ ~started /\ transport # "down"
    /\ life' = "halting"
    /\ UNCHANGED <<started, transport, dispatch, presented, leaky, callVars,
                   pending, chan, query, events>>

\* connexon.stop() first makes ensure_started fail, later joins its threads.
StopTransport ==
    /\ Cancelled \/ life = "halting"
    /\ \/ transport = "up" /\ transport' = "closing"
       \/ transport = "closing" /\ transport' = "down"
    /\ UNCHANGED <<started, life, dispatch, presented, leaky, callVars,
                   pending, chan, query, events>>

\* The tasks have been awaited; stop() goes on to clear the presenters.
StopJoin ==
    /\ transport = "down" /\ dispatch = "off"
    /\ \/ life \in {"failing", "halting"} /\ life' = "idle" /\ UNCHANGED presented
       \/ life = "stopping" /\ life' = "clearing" /\ presented' = FALSE
    /\ UNCHANGED <<started, transport, dispatch, leaky, callVars, pending,
                   chan, query, events>>

StopForgetsPending ==  \* a slip: the map of pending replies is left as it is
    /\ life = "clearing"
    /\ life' = "idle"
    /\ leaky' = FALSE
    /\ UNCHANGED <<started, transport, dispatch, presented, callVars, pending,
                   chan, query, events>>

StopClear ==
    /\ life = "clearing"
    /\ DropSenders(pending)
    /\ life' = "idle"
    /\ leaky' = FALSE
    /\ UNCHANGED <<started, transport, dispatch, presented, callVars, query,
                   events>>

-----------------------------------------------------------------------------
(***************************************************************************)
(* The dispatch loop and the presenter table.                              *)
(***************************************************************************)

\* A loopback query is handed to a task of its own; a reply takes the sender
\* out of pending, and is ignored when there is none.
Dispatch ==
    /\ dispatch = "on" /\ ~Resolving /\ events # <<>>
    /\ events' = Tail(events)
    /\ LET m == Head(events) IN
       \/ /\ m.kind = "query"
          /\ query' = [query EXCEPT ![m.call] = "arrived"]
          /\ UNCHANGED <<pending, chan>>
       \/ /\ m.kind = "reply" /\ m.call \in pending
          /\ pending' = pending \ {m.call}
          /\ chan' = [chan EXCEPT ![m.call] = "taken"]
          /\ UNCHANGED query
       \/ /\ m.kind = "reply" /\ m.call \notin pending
          /\ UNCHANGED <<pending, chan, query>>
    /\ UNCHANGED <<lifeVars, dispatch, presented, callVars>>

ResolveIgnoresError(c) ==  \* a slip: a reply is taken for a success
    /\ chan[c] = "taken"
    /\ chan' = [chan EXCEPT ![c] = Deliver(c, "ok")]
    /\ UNCHANGED <<lifeVars, dispatch, presented, callVars, pending, query,
                   events>>

\* The second half of process_reply, after the lock on pending is released.
Resolve(c) ==
    /\ chan[c] = "taken"
    /\ chan' = [chan EXCEPT ![c] =
                  Deliver(c, IF query[c] = "succeeded" THEN "ok" ELSE "remote")]
    /\ UNCHANGED <<lifeVars, dispatch, presented, callVars, pending, query,
                   events>>

DispatchExit ==
    /\ dispatch = "on" /\ ~Resolving /\ Cancelled
    /\ dispatch' = "off"
    /\ events' = <<>>
    /\ UNCHANGED <<lifeVars, presented, callVars, pending, chan, query>>

\* A beacon with or without the method arrives, or the cleanup loop expires
\* the presenter, while the tasks run.
PresenterChanges ==
    /\ dispatch = "on" /\ ~Resolving
    /\ presented' = ~presented
    /\ UNCHANGED <<lifeVars, dispatch, callVars, pending, chan, query,
                   events>>

-----------------------------------------------------------------------------
(***************************************************************************)
(* call_raw_with_options, step by step.                                    *)
(***************************************************************************)

Goto(c, step) == pc' = [pc EXCEPT ![c] = step]

Return(c, step, result) ==
    Goto(c, step) /\ outcome' = [outcome EXCEPT ![c] = result]

CallBegin(c) ==
    /\ pc[c] = "idle"
    /\ \/ started /\ Goto(c, "lookup") /\ UNCHANGED outcome
       \/ ~started /\ Return(c, "done", "local")
    /\ UNCHANGED <<lifeVars, dispatch, presented, pending, chan, query,
                   events>>

\* find_remote_method and validate_json: unknown node or field, a field that
\* is not a method, and an invalid payload all end the call here.
CallLookup(c) ==
    /\ pc[c] = "lookup"
    /\ \/ presented /\ Goto(c, "insert") /\ UNCHANGED outcome
       \/ Return(c, "done", "local")
    /\ UNCHANGED <<lifeVars, dispatch, presented, pending, chan, query,
                   events>>

CallInsert(c) ==
    /\ pc[c] = "insert"
    /\ pending' = pending \union {c}
    /\ chan' = [chan EXCEPT ![c] = "open"]
    /\ Goto(c, "send")
    /\ UNCHANGED <<lifeVars, dispatch, presented, outcome, query, events>>

\* ensure_started, the first thing send does.
CallSend(c) ==
    /\ pc[c] = "send"
    /\ Goto(c, IF transport = "up" THEN "route" ELSE "unsend")
    /\ UNCHANGED <<lifeVars, dispatch, presented, outcome, pending, chan,
                   query, events>>

\* To itself the node publishes the query on its own event channel.
CallLoopback(c) ==
    /\ pc[c] = "route" /\ c \in Local
    /\ Publish([kind |-> "query", call |-> c])
    /\ query' = [query EXCEPT ![c] = "looped"]
    /\ Goto(c, "await")
    /\ UNCHANGED <<lifeVars, dispatch, presented, outcome, pending, chan>>

\* To a peer it queues the frame with the peer's writer thread, unless the
\* peer is not connected or its writer has gone.
CallEnqueue(c) ==
    /\ pc[c] = "route" /\ c \notin Local
    /\ \/ /\ transport # "down"
          /\ query' = [query EXCEPT ![c] = "queued"]
          /\ Goto(c, "sending")
       \/ UNCHANGED query /\ Goto(c, "unsend")
    /\ UNCHANGED <<lifeVars, dispatch, presented, outcome, pending, chan,
                   events>>

WriteForgetsRequest(c) ==  \* a slip: what is left in the queue gets no answer
    /\ query[c] = "queued"
    /\ \/ /\ transport # "down"
          /\ query' = [query EXCEPT ![c] = "arrived"]
          /\ Goto(c, IF pc[c] = "sending" THEN "await" ELSE pc[c])
       \/ query' = [query EXCEPT ![c] = "none"] /\ UNCHANGED pc
    /\ UNCHANGED <<lifeVars, dispatch, presented, outcome, pending, chan,
                   events>>

\* The writer thread writes the frame or answers with an error; the future
\* that waits for the answer may have been dropped in the meantime.
Write(c) ==
    /\ query[c] = "queued"
    /\ \/ /\ transport # "down"
          /\ query' = [query EXCEPT ![c] = "arrived"]
          /\ Goto(c, IF pc[c] = "sending" THEN "await" ELSE pc[c])
       \/ /\ query' = [query EXCEPT ![c] = "none"]
          /\ Goto(c, IF pc[c] = "sending" THEN "unsend" ELSE pc[c])
    /\ UNCHANGED <<lifeVars, dispatch, presented, outcome, pending, chan,
                   events>>

CallUnsend(c) ==
    /\ pc[c] = "unsend"
    /\ DropSenders({c})
    /\ Return(c, "done", "local")
    /\ UNCHANGED <<lifeVars, dispatch, presented, query, events>>

\* The branches of select!, which picks any that is ready.
CallReply(c) ==
    /\ pc[c] = "await" /\ chan[c] \in {"ok", "remote", "closed"}
    /\ Return(c, "finish", IF chan[c] = "closed" THEN "unknown" ELSE chan[c])
    /\ DropReceiver(c)
    /\ UNCHANGED <<lifeVars, dispatch, presented, pending, query, events>>

CallTimeout(c) ==
    /\ pc[c] = "await" /\ c \in Timed
    /\ Return(c, "finish", "unknown")
    /\ DropReceiver(c)
    /\ UNCHANGED <<lifeVars, dispatch, presented, pending, query, events>>

CallCancelled(c) ==
    /\ pc[c] = "await"
    /\ Return(c, "finish", "unknown")
    /\ DropReceiver(c)
    /\ UNCHANGED <<lifeVars, dispatch, presented, pending, query, events>>

FinishKeepsEntry(c) ==  \* a slip: no removal after the select
    /\ pc[c] = "finish"
    /\ Goto(c, "done")
    /\ UNCHANGED <<lifeVars, dispatch, presented, outcome, pending, chan,
                   query, events>>

CallFinish(c) ==
    /\ pc[c] = "finish"
    /\ DropSenders({c})
    /\ Goto(c, "done")
    /\ UNCHANGED <<lifeVars, dispatch, presented, outcome, query, events>>

\* The caller drops the future at one of its await points: nothing of what
\* follows in call_raw_with_options runs, the removal from pending included.
CallDropped(c) ==
    /\ pc[c] \in {"sending", "await"}
    /\ Goto(c, "abandoned")
    /\ DropReceiver(c)
    /\ UNCHANGED <<lifeVars, dispatch, presented, outcome, pending, query,
                   events>>

-----------------------------------------------------------------------------
(***************************************************************************)
(* The answering node (handle_query), and the way of its reply back to     *)
(* this node's event channel, on which it can be lost.                     *)
(***************************************************************************)

\* A peer's reply is read while the reader threads run; the node's own may be
\* published at any time, by a handler that passed ensure_started before.
ReplyReaches(c) ==
    /\ transport # "down" \/ c \in Local
    /\ Publish([kind |-> "reply", call |-> c])

Reply(c) == ReplyReaches(c) \/ UNCHANGED events

HandlerRuns(c) ==
    /\ query[c] = "arrived"
    /\ query' = [query EXCEPT ![c] = "running"]
    /\ UNCHANGED <<lifeVars, dispatch, presented, callVars, pending, chan,
                   events>>

\* No permit is left, or the field is not registered (any more).
HandlerDeclines(c) ==
    /\ query[c] = "arrived"
    /\ query' = [query EXCEPT ![c] = "declined"]
    /\ Reply(c)
    /\ UNCHANGED <<lifeVars, dispatch, presented, callVars, pending, chan>>

HandlerAnswers(c) ==
    /\ query[c] = "running"
    /\ \E result \in {"succeeded", "failed"} :
          query' = [query EXCEPT ![c] = result]
    /\ Reply(c)
    /\ UNCHANGED <<lifeVars, dispatch, presented, callVars, pending, chan>>

-----------------------------------------------------------------------------
Lifecycle ==
    \/ StartSubscribe \/ StartTransport \/ StartTasks \/ StartBeacon
    \/ StopBegin \/ StopUnstarted \/ StopTransport \/ StopJoin \/ StopClear

CallStep(c) ==
    \/ CallBegin(c) \/ CallLookup(c) \/ CallInsert(c) \/ CallSend(c)
    \/ CallLoopback(c) \/ CallEnqueue(c) \/ CallUnsend(c) \/ CallReply(c)
    \/ CallTimeout(c) \/ CallCancelled(c) \/ CallFinish(c) \/ CallDropped(c)

Handler(c) == HandlerRuns(c) \/ HandlerDeclines(c) \/ HandlerAnswers(c)

Next ==
    \/ Lifecycle
    \/ Dispatch \/ DispatchExit \/ PresenterChanges
    \/ \E c \in Call : CallStep(c) \/ Write(c) \/ Resolve(c) \/ Handler(c)

Spec == Init /\ [][Next]_vars

(***************************************************************************)
(* Fairness: the tasks and threads the code spawns keep running, a timer   *)
(* fires, the writer thread answers every request (its write times out).   *)
(* Nothing is assumed of the user (start, stop, cancel, drop), of the      *)
(* answering node, or of the delivery of its reply.                        *)
(***************************************************************************)
CallProgress(c) ==
    \/ CallLookup(c) \/ CallInsert(c) \/ CallSend(c) \/ CallLoopback(c)
    \/ CallEnqueue(c) \/ CallUnsend(c) \/ CallReply(c) \/ CallFinish(c)

LifecycleProgress ==
    \/ StartTransport \/ StartTasks \/ StartBeacon
    \/ StopTransport \/ StopJoin \/ StopClear

Fairness ==
    /\ WF_vars(LifecycleProgress) /\ WF_vars(Dispatch) /\ WF_vars(DispatchExit)
    /\ \A c \in Call : /\ WF_vars(CallProgress(c)) /\ WF_vars(CallTimeout(c))
                       /\ WF_vars(Write(c)) /\ WF_vars(Resolve(c))

FairSpec == Spec /\ Fairness

-----------------------------------------------------------------------------
(***************************************************************************)
(* Properties.                                                             *)
(***************************************************************************)

\* The sender of a call whose channel is still open is in the pending map and
\* nowhere else, and an entry of the map belongs to a call between its insert
\* and its removal, or to one whose future was dropped: no entry outlives a
\* call that returned, and no caller waits on a sender that nobody can find,
\* whatever the order of reply, timeout, send failure and stop.
PendingOwned ==
    /\ \A c \in Call : chan[c] = "open" <=> c \in pending
    /\ \A c \in pending : pc[c] \notin {"idle", "lookup", "insert", "done"}

\* Once a stop() is complete and the node not started again, nobody waits for
\* a reply that cannot come, the entries of dropped futures are gone, and no
\* presenter is left: pending holds at most calls that have not passed
\* ensure_started, and ensure_started will fail them.  It does not hold again
\* once a start() has failed with the transport up: such a start clears neither
\* map, and one whose thread could not be spawned leaves ensure_started passing,
\* so that a call which read started before the stop() may yet wait.
StopReleases ==
    life = "idle" /\ ~started /\ ~leaky =>
        /\ pending \subseteq {c \in Call : pc[c] \in {"send", "unsend"}}
        /\ ~Resolving
        /\ ~presented

\* A call with a timeout returns, however its reply, the writer, the dispatch
\* loop and a concurrent stop or restart interleave.
TimedCallsReturn ==
    \A c \in Timed : pc[c] = "lookup" ~> pc[c] \in {"done", "abandoned"}

\* A stop() releases every call that is past ensure_started, also one with no
\* timeout whose reply was lost, even if the node is started again at once.
StopFreesWaiters ==
    \A c \in Call : life = "stopping" /\ pc[c] \in {"route", "sending", "await"}
                     ~> pc[c] \in {"done", "abandoned"}

(***************************************************************************)
(* What the outcome of a call says about the execution of its handler.     *)
(***************************************************************************)
Effect ==
    [c \in Call |-> IF query[c] = "running" THEN "executing"
                    ELSE IF query[c] \in {"succeeded", "failed"} THEN query[c]
                    ELSE "none"]

Verdict ==
    [c \in Call |->
        IF outcome[c] # "none" THEN outcome[c]
        ELSE IF pc[c] = "abandoned" THEN "unknown"
        ELSE IF pc[c] = "idle" THEN "none" ELSE "running"]

Contract == INSTANCE CallContract WITH effect <- Effect, verdict <- Verdict

\* The call path implements the at-most-once contract of CallContract.
ImplementsContract == Contract!Spec
=============================================================================
