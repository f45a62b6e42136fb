------------------------------- MODULE Events -------------------------------
(***************************************************************************)
(* Events at the node that handles them (src/src/node.rs), of one field of *)
(* one node: they enter the broadcast channel of the connexon, and each    *)
(* dispatch loop looks the handler up and spawns a task that runs it.  A   *)
(* task is neither ordered with others nor awaited by stop().              *)
(***************************************************************************)
EXTENDS Integers, Sequences, FiniteSets

CONSTANTS
    Handler,      \* what on_event_raw, on_event and on_event_sync register
    Capacity,     \* slots of the broadcast channel
    MaxEvents,    \* bound on the events
    MaxSessions,  \* bound on the starts
    None

VARIABLES
    sent,      \* how many events entered the channel
    running,   \* the transport runs
    session,   \* the starts so far
    stopping,  \* a stop() waits for the loops
    dropped,   \* the future of a stop() was dropped (history)
    cursor,    \* cursor[s]: the event that the loop of session s reads next
    loop,      \* loop[s]: "none", "runs", "cancelled" or "ended"
    table,     \* the handler in event_handlers, or None
    removed,   \* removed[h]: how many events were sent when h was last taken out (history)
    task,      \* the spawned tasks, each <<event, handler, session>>
    ran        \* the tasks whose handler was started (history)

channelVars == <<sent, running>>
nodeVars == <<session, stopping, loop, dropped>>
tableVars == <<table, removed>>
vars == <<channelVars, nodeVars, tableVars, cursor, task, ran>>

Session == 1..MaxSessions
Event == 1..MaxEvents
Task == Event \X Handler \X Session

TypeOK ==
    /\ sent \in 0..MaxEvents /\ running \in BOOLEAN
    /\ session \in 0..MaxSessions /\ stopping \in BOOLEAN /\ dropped \in BOOLEAN
    /\ cursor \in [Session -> 1..MaxEvents + 1]
    /\ loop \in [Session -> {"none", "runs", "cancelled", "ended"}]
    /\ table \in Handler \union {None}
    /\ removed \in [Handler -> {None} \union 0..MaxEvents]
    /\ task \in SUBSET Task /\ ran \in SUBSET Task
    /\ Cardinality({s \in Session : loop[s] = "runs"}) <= 1

Init ==
    /\ sent = 0 /\ running = FALSE
    /\ session = 0 /\ stopping = FALSE /\ dropped = FALSE
    /\ cursor = [s \in Session |-> 1]
    /\ loop = [s \in Session |-> "none"]
    /\ table = None /\ removed = [h \in Handler |-> None]
    /\ task = {} /\ ran = {}

-----------------------------------------------------------------------------
\* A peer's reader, or emit_raw of the node itself, puts an event in.
Send ==
    /\ running /\ sent < MaxEvents
    /\ sent' = sent + 1
    /\ UNCHANGED <<running, nodeVars, tableVars, cursor, task, ran>>

\* A handler registered again replaces the one before.
OnEvent(h) ==
    /\ table # h
    /\ table' = h
    /\ removed' = [g \in Handler |-> IF g = h THEN None
                                     ELSE IF g = table THEN sent ELSE removed[g]]
    /\ UNCHANGED <<channelVars, nodeVars, cursor, task, ran>>

RemoveEventHandler ==
    /\ table # None
    /\ table' = None
    /\ removed' = [removed EXCEPT ![table] = sent]
    /\ UNCHANGED <<channelVars, nodeVars, cursor, task, ran>>

-----------------------------------------------------------------------------
\* start() subscribes before the transport runs.
Start ==
    /\ ~stopping /\ ~running /\ session < MaxSessions
    /\ session' = session + 1
    /\ cursor' = [cursor EXCEPT ![session + 1] = sent + 1]
    /\ loop' = [loop EXCEPT ![session + 1] = "runs"]
    /\ running' = TRUE
    /\ UNCHANGED <<sent, stopping, dropped, tableVars, task, ran>>

\* The token is cancelled, then the transport stopped.
StopBegin ==
    /\ running
    /\ loop' = [loop EXCEPT ![session] = "cancelled"]
    /\ running' = FALSE /\ stopping' = TRUE
    /\ UNCHANGED <<sent, session, dropped, tableVars, cursor, task, ran>>

StopUnjoined ==  \* a slip: the handles are dropped
    /\ stopping
    /\ stopping' = FALSE
    /\ UNCHANGED <<channelVars, session, loop, dropped, tableVars, cursor, task, ran>>

StopJoin ==
    /\ stopping /\ loop[session] = "ended"
    /\ stopping' = FALSE
    /\ UNCHANGED <<channelVars, session, loop, dropped, tableVars, cursor, task, ran>>

StopDropped ==
    /\ stopping /\ stopping' = FALSE
    /\ dropped' = TRUE
    /\ UNCHANGED <<channelVars, session, loop, tableVars, cursor, task, ran>>

-----------------------------------------------------------------------------
\* select! takes a ready event also when the token is cancelled.
Dispatch(s) ==
    /\ loop[s] \in {"runs", "cancelled"}
    /\ cursor[s] <= sent /\ sent - cursor[s] < Capacity
    /\ cursor' = [cursor EXCEPT ![s] = @ + 1]
    /\ task' = task \union (IF table = None THEN {} ELSE {<<cursor[s], table, s>>})
    /\ UNCHANGED <<channelVars, nodeVars, tableVars, ran>>

LagSkips(s) ==  \* a slip: a receiver that lagged subscribes anew
    /\ loop[s] \in {"runs", "cancelled"}
    /\ sent - cursor[s] >= Capacity
    /\ cursor' = [cursor EXCEPT ![s] = sent + 1]
    /\ UNCHANGED <<channelVars, nodeVars, tableVars, task, ran>>

\* RecvError::Lagged: the oldest events left in the channel come next.
Lag(s) ==
    /\ loop[s] \in {"runs", "cancelled"}
    /\ sent - cursor[s] >= Capacity
    /\ cursor' = [cursor EXCEPT ![s] = sent - Capacity + 1]
    /\ UNCHANGED <<channelVars, nodeVars, tableVars, task, ran>>

LoopEnds(s) ==
    /\ loop[s] = "cancelled"
    /\ loop' = [loop EXCEPT ![s] = "ended"]
    /\ UNCHANGED <<channelVars, session, stopping, dropped, tableVars, cursor, task, ran>>

Run(t) ==
    /\ t \in task
    /\ task' = task \ {t}
    /\ ran' = ran \union {t}
    /\ UNCHANGED <<channelVars, nodeVars, tableVars, cursor>>

LoopStep(s) == Dispatch(s) \/ Lag(s)

Next ==
    \/ Send \/ RemoveEventHandler \/ \E h \in Handler : OnEvent(h)
    \/ Start \/ StopBegin \/ StopJoin \/ StopDropped
    \/ \E s \in Session : LoopStep(s) \/ LoopEnds(s)
    \/ \E t \in Task : Run(t)

Spec == Init /\ [][Next]_vars

\* The loops and tasks go on as long as they can.
FairSpec ==
    /\ Spec
    /\ \A s \in Session : WF_vars(LoopStep(s)) /\ WF_vars(LoopEnds(s))
    /\ \A t \in Task : WF_vars(Run(t))

-----------------------------------------------------------------------------
\* No event is handled twice, neither by two handlers nor by the loops of two
\* sessions, although start() subscribes before the transport runs: stop() has
\* waited for the old loop, as long as no future of a stop() was dropped.
HandledOnce ==
    ~dropped => \A s, t \in ran \union task : s[1] = t[1] => s = t

\* A handler that is taken out or replaced handles no event that is sent later,
\* whatever tasks it is still to be run by.
RemovedIsQuiet ==
    \A t \in ran \union task : removed[t[2]] # None => t[1] <= removed[t[2]]

\* An event that waits in the channel while a handler is there is handled, unless
\* the loop falls behind by the capacity of the channel, the handler is taken out
\* or the node stopped first.
WaitingIsHandled ==
    \A e \in Event :
        running /\ cursor[session] <= e /\ e <= sent /\ table # None
            ~> \/ \E t \in ran : t[1] = e
               \/ ~running \/ table = None \/ sent - e >= Capacity
=============================================================================
