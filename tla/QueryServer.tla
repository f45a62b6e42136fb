----------------------------- MODULE QueryServer -----------------------------
(***************************************************************************)
(* The answering side of a GlycoComplex (src/src/node.rs): the dispatch    *)
(* loop spawns a task a query, and handle_query takes one of MaxHandlers   *)
(* permits, or refuses, looks for the method, runs its handler and sends   *)
(* the reply.  The tasks are awaited by nobody: they outlive a stop() and  *)
(* take permits from the node's next session.                              *)
(*                                                                         *)
(* Queries come from clients, which may have several under way.  A query   *)
(* or a reply may be lost on its way.                                      *)
(***************************************************************************)
EXTENDS Integers, FiniteSets

CONSTANTS
    Query,       \* the queries made, each once
    Client,      \* who makes them
    Owner,       \* Owner[q]: the client of q
    MaxHandlers  \* max_concurrent_handlers, at least 1 by the builder

ASSUME OwnerAssumption == Owner \in [Query -> Client]

ASSUME FiniteAssumption == IsFiniteSet(Query) /\ IsFiniteSet(Client)

ASSUME MaxAssumption == MaxHandlers \in Nat \ {0}

VARIABLES
    life,       \* the node is down, up, stopping or failing to start
    registered, \* the method the queries ask for is registered
    at,         \* at[q]: where q or its task is
    reply,      \* reply[q]: the reply to q that the node made
    permits,    \* the permits handler_semaphore has left
    cancelled,  \* the queries whose context is cancelled
    patient     \* no client has asked while a query of its was under way (history)

vars == <<life, registered, at, reply, permits, cancelled, patient>>

\* The points of handle_query at which its task holds a permit.
Holds == {"found", "running"}

Places == {"new", "sent", "spawned", "found", "running", "replying", "over"}

Replies == {"none", "busy", "unknown", "answer"}

TypeOK ==
    /\ life \in {"down", "up", "stopping"}
    /\ registered \in BOOLEAN
    /\ at \in [Query -> Places]
    /\ reply \in [Query -> Replies]
    /\ permits \in 0..MaxHandlers
    /\ cancelled \in SUBSET Query
    /\ patient \in BOOLEAN

Init ==
    /\ life = "down"
    /\ registered \in BOOLEAN
    /\ at = [q \in Query |-> "new"]
    /\ reply = [q \in Query |-> "none"]
    /\ permits = MaxHandlers
    /\ cancelled = {}
    /\ patient = TRUE

Holding == {q \in Query : at[q] \in Holds}

-----------------------------------------------------------------------------
Go(q, place) == at' = [at EXCEPT ![q] = place]

Answer(q, r) == Go(q, "replying") /\ reply' = [reply EXCEPT ![q] = r]

Start ==
    /\ life = "down" /\ life' = "up"
    /\ UNCHANGED <<registered, at, reply, permits, cancelled, patient>>

\* The tasks of this session: the contexts of their queries are children of the
\* session's token.
Tasks == {q \in Query : at[q] \in {"spawned", "found", "running"}}

\* stop(), and start() when its first beacon fails.
StopBegin ==
    /\ life = "up" /\ life' = "stopping"
    /\ cancelled' = cancelled \union Tasks
    /\ UNCHANGED <<registered, at, reply, permits, patient>>

\* The dispatch loop is awaited, the tasks of queries are not.
StopEnds ==
    /\ life = "stopping" /\ life' = "down"
    /\ UNCHANGED <<registered, at, reply, permits, cancelled, patient>>

\* insert_method and remove_field.
RegistryChanges ==
    /\ registered' = ~registered
    /\ UNCHANGED <<life, at, reply, permits, cancelled, patient>>

Ask(q) ==
    /\ at[q] = "new"
    /\ Go(q, "sent")
    /\ patient' = (patient /\ \A other \in Query \ {q} :
                       Owner[other] = Owner[q] => at[other] \in {"new", "over"})
    /\ UNCHANGED <<life, registered, reply, permits, cancelled>>

\* A query is lost in the transport, in a full event channel or with a stop.
Lose(q) ==
    /\ at[q] = "sent"
    /\ Go(q, "over")
    /\ UNCHANGED <<life, registered, reply, permits, cancelled, patient>>

DispatchUncancelled(q) ==  \* a slip: the context has a token of its own
    /\ life # "down" /\ at[q] = "sent"
    /\ Go(q, "spawned")
    /\ UNCHANGED <<life, registered, reply, permits, cancelled, patient>>

\* While both are there, the dispatch loop may take a message rather than end.
Dispatch(q) ==
    /\ life # "down" /\ at[q] = "sent"
    /\ Go(q, "spawned")
    /\ cancelled' = IF life = "stopping" THEN cancelled \union {q} ELSE cancelled
    /\ UNCHANGED <<life, registered, reply, permits, patient>>

\* try_acquire_owned
Acquire(q) ==
    /\ at[q] = "spawned" /\ permits > 0
    /\ Go(q, "found")
    /\ permits' = permits - 1
    /\ UNCHANGED <<life, registered, reply, cancelled, patient>>

RefuseLast(q) ==  \* a slip: the last permit is never given out
    /\ at[q] = "spawned" /\ permits <= 1
    /\ Answer(q, "busy")
    /\ UNCHANGED <<life, registered, permits, cancelled, patient>>

Refuse(q) ==
    /\ at[q] = "spawned" /\ permits = 0
    /\ Answer(q, "busy")
    /\ UNCHANGED <<life, registered, permits, cancelled, patient>>

FindHandler(q) ==
    /\ at[q] = "found" /\ registered
    /\ Go(q, "running")
    /\ UNCHANGED <<life, registered, reply, permits, cancelled, patient>>

\* Without a handler the permit goes back before the reply is sent.
FindNone(q) ==
    /\ at[q] = "found" /\ ~registered
    /\ Answer(q, "unknown")
    /\ permits' = permits + 1
    /\ UNCHANGED <<life, registered, cancelled, patient>>

\* The handler's result or error; the permit goes back before the reply is sent.
HandlerReturns(q) ==
    /\ at[q] = "running"
    /\ Answer(q, "answer")
    /\ permits' = permits + 1
    /\ UNCHANGED <<life, registered, cancelled, patient>>

PanicKeepsPermit(q) ==  \* a slip: only a handler that returns gives it back
    /\ at[q] = "running"
    /\ Go(q, "over")
    /\ UNCHANGED <<life, registered, reply, permits, cancelled, patient>>

\* A panic unwinds the task, which drops the permit; nobody replies.
HandlerPanics(q) ==
    /\ at[q] = "running"
    /\ Go(q, "over")
    /\ permits' = permits + 1
    /\ UNCHANGED <<life, registered, reply, cancelled, patient>>

\* The reply goes to the client that asked, or is lost.
SendReply(q) ==
    /\ at[q] = "replying"
    /\ Go(q, "over")
    /\ UNCHANGED <<life, registered, reply, permits, cancelled, patient>>

Next ==
    \/ Start \/ StopBegin \/ StopEnds \/ RegistryChanges
    \/ \E q \in Query :
        \/ Ask(q) \/ Lose(q) \/ Dispatch(q) \/ Acquire(q) \/ Refuse(q)
        \/ FindHandler(q) \/ FindNone(q) \/ HandlerReturns(q) \/ HandlerPanics(q)
        \/ SendReply(q)

Spec == Init /\ [][Next]_vars

\* The node's tasks go on; a handler that is cancelled ends, one way or another.
FairSpec ==
    /\ Spec
    /\ \A q \in Query :
        /\ WF_vars(Acquire(q) \/ Refuse(q) \/ FindHandler(q) \/ FindNone(q) \/ SendReply(q))
        /\ WF_vars(q \in cancelled /\ (HandlerReturns(q) \/ HandlerPanics(q)))

-----------------------------------------------------------------------------
\* The permits out are those of the tasks between acquisition and the end of
\* their handlers, over all sessions and however handlers end.
PermitsConserved == permits + Cardinality(Holding) = MaxHandlers

\* A handler that outlives its session finds its context cancelled, also when
\* its query was dispatched while stop() had begun.
OutlivingIsCancelled ==
    life = "down" => Tasks \subseteq cancelled

\* Clients that have waited for their replies and are no more than the permits are
\* never told "server is busy": the permit is back before the reply is out.
FewAreServed ==
    patient /\ Cardinality(Client) <= MaxHandlers =>
        \A q \in Query : reply[q] # "busy"

\* Handlers that heed their cancellation give back every permit of a session
\* that was stopped, so that the next one is not refused for ever.
StoppedGiveBack ==
    \A q \in Query :
        life = "stopping" /\ q \in Tasks ~> q \notin Tasks
=============================================================================
