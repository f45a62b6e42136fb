----------------------------- MODULE PeerEvents -----------------------------
(***************************************************************************)
(* PeerConnected and PeerDisconnected (src/src/transport/unix_mesh.rs) of  *)
(* one peer's id.  A connection is installed step by step while its own    *)
(* threads, or senders, may already disconnect it; both change the table   *)
(* under its lock and publish afterwards, and stop_blocking empties it and *)
(* publishes nothing.  The events name the peer, not its connection.       *)
(***************************************************************************)
EXTENDS Integers, Sequences, FiniteSets

CONSTANTS
    Connection,  \* connections of the peer's id, each with a generation of its own
    None

VARIABLES
    running,   \* the transport is up, or its stop_blocking has not ended
    table,     \* the connection listed under the id, or None
    at,        \* at[c]: how far install_peer is with c
    leaving,   \* those taken out, whose PeerDisconnected is on its way
    drained,   \* those taken out by stop_blocking (history)
    events     \* what has been published (history)

vars == <<running, table, at, leaving, drained, events>>

Stages == {"new", "refused", "inserted", "writer", "reader", "done", "failed"}

TypeOK ==
    /\ running \in {"up", "stopping", "down"}
    /\ table \in Connection \union {None}
    /\ table # None => at[table] \notin {"new", "refused"} /\ table \notin leaving
    /\ at \in [Connection -> Stages]
    /\ leaving \in SUBSET Connection /\ drained \in SUBSET Connection
    /\ events \in Seq({"connected", "disconnected"} \X Connection)

Init ==
    /\ running = "up"
    /\ table = None
    /\ at = [c \in Connection |-> "new"]
    /\ leaving = {} /\ drained = {}
    /\ events = <<>>

Go(c, stage) == at' = [at EXCEPT ![c] = stage]

Publish(kind, c) == events' = Append(events, <<kind, c>>)

-----------------------------------------------------------------------------
(***************************************************************************)
(* install_peer, which does not look whether the transport still runs.     *)
(***************************************************************************)
Insert(c) ==
    /\ running # "down" /\ at[c] = "new"
    /\ IF table = None THEN table' = c /\ Go(c, "inserted")
       ELSE Go(c, "refused") /\ UNCHANGED table
    /\ UNCHANGED <<running, leaving, drained, events>>

Spawn(c) ==
    /\ \/ at[c] = "inserted" /\ Go(c, "writer")
       \/ at[c] = "writer" /\ Go(c, "reader")
    /\ UNCHANGED <<running, table, leaving, drained, events>>

\* The connection stays in the table, without a reader or without both threads.
SpawnFails(c) ==
    /\ at[c] \in {"inserted", "writer"}
    /\ Go(c, "failed")
    /\ UNCHANGED <<running, table, leaving, drained, events>>

PublishConnected(c) ==
    /\ at[c] = "reader"
    /\ Go(c, "done")
    /\ Publish("connected", c)
    /\ UNCHANGED <<running, table, leaving, drained>>

-----------------------------------------------------------------------------
\* Its writer or reader, or a sender that its channel refused, calls
\* disconnect_peer for c.
MayLeave(c) == at[c] \in {"writer", "reader", "done", "failed"}

DisconnectQuietly(c) ==  \* a slip: a failed connection is only removed
    /\ MayLeave(c) /\ table = c
    /\ table' = None
    /\ UNCHANGED <<running, at, leaving, drained, events>>

Disconnect(c) ==
    /\ MayLeave(c) /\ table = c
    /\ table' = None
    /\ leaving' = leaving \union {c}
    /\ UNCHANGED <<running, at, drained, events>>

PublishDisconnected(c) ==
    /\ c \in leaving
    /\ leaving' = leaving \ {c}
    /\ Publish("disconnected", c)
    /\ UNCHANGED <<running, table, at, drained>>

StopDrain ==
    /\ running = "up" /\ running' = "stopping"
    /\ table' = None
    /\ drained' = drained \union ({table} \ {None})
    /\ UNCHANGED <<at, leaving, events>>

Installing == {c \in Connection : at[c] \in {"inserted", "writer", "reader"}}

\* The threads that install and those they started are joined.  What was
\* installed after the drain is still in the table.
StopJoin ==
    /\ running = "stopping" /\ Installing = {}
    /\ running' = "down"
    /\ UNCHANGED <<table, at, leaving, drained, events>>

Start ==
    /\ running = "down" /\ running' = "up"
    /\ UNCHANGED <<table, at, leaving, drained, events>>

Next ==
    \/ StopDrain \/ StopJoin \/ Start
    \/ \E c \in Connection :
        \/ Insert(c) \/ Spawn(c) \/ SpawnFails(c) \/ PublishConnected(c)
        \/ Disconnect(c) \/ PublishDisconnected(c)

Spec == Init /\ [][Next]_vars

-----------------------------------------------------------------------------
Published(kind, c) == \E i \in DOMAIN events : events[i] = <<kind, c>>

Count(kind) == Cardinality({i \in DOMAIN events : events[i][1] = kind})

Quiet == Installing = {} /\ leaving = {}

\* A subscriber that counts is right when nothing is on its way, although the
\* events name no connection and come from several threads: there is one more
\* PeerConnected than PeerDisconnected for a peer in the table and as many for
\* one that is not, but for those that stop_blocking took out in silence, if
\* every thread could be spawned.
CountIsRight ==
    Quiet /\ (\A c \in Connection : at[c] # "failed") =>
        Count("connected") - Count("disconnected") - Cardinality(drained)
            = IF table = None THEN 0 ELSE 1

\* A subscriber that believes the last event is wrong only where two of them
\* crossed: where the connection was lost before it was published, or an earlier
\* one was published as lost after this one had been as connected; or where
\* stop_blocking said nothing, or a thread could not be spawned.
WrongOnlyIfCrossed ==
    Quiet /\ events # <<>> =>
        LET kind == events[Len(events)][1]
            c == events[Len(events)][2]
        IN  IF kind = "connected"
            THEN table = c \/ c \in drained \/ Published("disconnected", c)
                 \/ (table # None /\ at[table] = "failed")
            ELSE \/ table = None
                 \/ table # c /\ (Published("connected", table) \/ at[table] = "failed")
=============================================================================
