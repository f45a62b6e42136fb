----------------------------- MODULE SocketPath -----------------------------
(***************************************************************************)
(* The socket file of one node id (src/src/transport/unix_mesh.rs): its    *)
(* path is computed from the id, so every connexon built with that id, in  *)
(* this process or in another, probes, binds and removes the same file.    *)
(* A step is one system call.                                              *)
(***************************************************************************)
CONSTANTS
    Connexon,   \* the connexons built with the node id
    NoFile,     \* nothing is at the path
    Careful     \* the users of the id take turns (see Quiet)

ASSUME NoFileAssumption == NoFile \notin Connexon

ASSUME CarefulAssumption == Careful \in BOOLEAN

VARIABLES
    pc,         \* pc[c]: the next step of the connexon's start, stop or drop
    file,       \* the connexon that bound the file at the path
    open        \* the connexons whose listener accepts connections

vars == <<pc, file, open>>

TypeOK ==
    /\ pc \in [Connexon -> {"down", "probe", "remove", "bind", "listen",
                            "running", "closing", "gone"}]
    /\ file \in Connexon \union {NoFile}
    /\ open \in SUBSET {c \in Connexon : pc[c] \in {"running", "closing", "gone"}}

Init ==
    /\ pc = [c \in Connexon |-> "down"]
    /\ file = NoFile
    /\ open = {}

Goto(c, step) == pc' = [pc EXCEPT ![c] = step]

\* If the users of the id take turns, none begins while another is in one of
\* the states busy.
Quiet(c, busy) ==
    Careful => \A d \in Connexon \ {c} : pc[d] \notin busy

Midway == {"probe", "remove", "bind", "listen", "closing"}

\* start_blocking and remove_stale_socket.
StartCheck(c) ==
    /\ pc[c] = "down" /\ Quiet(c, Midway)
    /\ Goto(c, IF file = NoFile THEN "bind" ELSE "probe")
    /\ UNCHANGED <<file, open>>

RemoveUnprobed(c) ==  \* a slip: any file is taken for a stale one
    /\ pc[c] = "probe"
    /\ Goto(c, "remove")
    /\ UNCHANGED <<file, open>>

RefuseUnprobed(c) ==  \* a slip: any file is taken for that of a running node
    /\ pc[c] = "probe"
    /\ Goto(c, "down")
    /\ UNCHANGED <<file, open>>

\* Whoever accepts the connection runs under this id: NodeAlreadyRunning.
Probe(c) ==
    /\ pc[c] = "probe"
    /\ Goto(c, IF file \in open THEN "down" ELSE "remove")
    /\ UNCHANGED <<file, open>>

\* If the file has gone in the meantime the start fails.
RemoveStale(c) ==
    /\ pc[c] = "remove"
    /\ Goto(c, IF file = NoFile THEN "down" ELSE "bind")
    /\ file' = NoFile
    /\ UNCHANGED open

Bind(c) ==
    /\ pc[c] = "bind"
    /\ Goto(c, IF file = NoFile THEN "listen" ELSE "down")
    /\ file' = IF file = NoFile THEN c ELSE file
    /\ UNCHANGED open

Listen(c) ==
    /\ pc[c] = "listen"
    /\ open' = open \union {c}
    /\ Goto(c, "running")
    /\ UNCHANGED file

Stop(c) ==
    /\ pc[c] = "running" /\ Quiet(c, Midway)
    /\ Goto(c, "closing")
    /\ UNCHANGED <<file, open>>

\* The accept thread sees the cancelled token and drops the listener.
CloseListener(c) ==
    /\ c \in open /\ pc[c] \in {"closing", "gone"}
    /\ open' = open \ {c}
    /\ UNCHANGED <<pc, file>>

\* stop_blocking has joined the threads and removes what is at the path.
StopRemove(c) ==
    /\ pc[c] = "closing" /\ c \notin open
    /\ file' = NoFile
    /\ Goto(c, "down")
    /\ UNCHANGED open

\* cancel_without_joining removes what is at the path, started or not.
Drop(c) ==
    /\ pc[c] \in {"down", "running"} /\ Quiet(c, Midway \union {"running"})
    /\ file' = NoFile
    /\ Goto(c, "gone")
    /\ UNCHANGED open

\* The process exits or is killed; the file stays.
Exit(c) ==
    /\ pc[c] # "gone"
    /\ open' = open \ {c}
    /\ Goto(c, "gone")
    /\ UNCHANGED file

Next ==
    \E c \in Connexon :
        \/ StartCheck(c) \/ Probe(c) \/ RemoveStale(c) \/ Bind(c) \/ Listen(c)
        \/ Stop(c) \/ CloseListener(c) \/ StopRemove(c) \/ Drop(c) \/ Exit(c)

Spec == Init /\ [][Next]_vars

-----------------------------------------------------------------------------

\* From a start to the stop the file at the path is the one the started
\* connexon bound, so that peers find it.  It holds only for users who take
\* turns: a stop or a stale-socket removal may hit the file of a start that
\* overlaps it, and a drop the file of any other connexon with the id.
StartedIsReachable ==
    \A c \in Connexon : pc[c] = "running" => file = c

\* For users who take turns a start fails only because another connexon
\* runs: what a crash left at the path, in whatever step, never blocks it.
RefusedOnlyIfRunning ==
    [][\A c \in Connexon :
        pc[c] \in {"probe", "remove", "bind"} /\ pc'[c] = "down" =>
            \E d \in Connexon \ {c} : pc[d] = "running"]_vars
=============================================================================
