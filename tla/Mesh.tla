-------------------------------- MODULE Mesh --------------------------------
(***************************************************************************)
(* The connection management of UnixDomainMeshConnexon                     *)
(* (src/src/transport/unix_mesh.rs): discovery and dialling, accept and     *)
(* handshake, the peer table with its generations, the reader and writer   *)
(* thread of every connection, disconnect, and start, stop and exit of the *)
(* nodes.  Payloads are left out: a message is something a reader may find *)
(* on a connection whose other end has a writer.                           *)
(*                                                                         *)
(* A link is one stream socket pair.  It is also the generation of the     *)
(* table entry it is installed under: a link is used again only when no    *)
(* thread and no table refers to it any more, as a generation is never     *)
(* given out twice.                                                        *)
(***************************************************************************)
EXTENDS Naturals

CONSTANTS
    Node,       \* the node ids: numbers, < being dotnet_ordinal_cmp
    Slot,       \* numbers the links one pair of nodes can have at a time
    NoLink,     \* the peer is not in the table
    Stops,      \* the nodes whose users call stop(); any node may exit
    Faults      \* whether spawning a thread may fail, a handshake time out

ASSUME NodeAssumption == Node \subseteq Nat /\ Slot \subseteq Nat

ASSUME StopsAssumption == Stops \subseteq Node

ASSUME FaultsAssumption == Faults \in BOOLEAN

Link == {k \in [from : Node, to : Node, slot : Slot] : k.from # k.to}

ASSUME NoLinkAssumption == NoLink \notin Link

VARIABLES
    run,        \* run[n]: down, up, or in stop_blocking: cancelled, drained
    listening,  \* the nodes whose accept thread has its listener
    peers,      \* peers[n][m]: the link n's peer table holds for m
    stage,      \* stage[k][n]: the end of link k at node n
    hello,      \* the links with the dialler's node id in the socket's buffer
    reader,     \* reader[k][n]: the reader thread of that end
    writer,     \* writer[k][n]: whether the writer thread of that end runs
    closing     \* ends taken from the table and not yet shut down

vars == <<run, listening, peers, stage, hello, reader, writer, closing>>
nodeVars == <<run, listening>>
threadVars == <<reader, writer>>

Ends(k) == {k.from, k.to}
Other(k, n) == IF n = k.from THEN k.to ELSE k.from

\* A link that was never dialled is closed at both ends.
Stages == {"dialled", "greeted", "backlog", "handshake", "live", "closed"}

TypeOK ==
    /\ run \in [Node -> {"down", "up", "cancelled", "drained"}]
    /\ listening \in SUBSET Node
    /\ peers \in [Node -> [Node -> Link \union {NoLink}]]
    /\ stage \in [Link -> [Node -> Stages]]
    /\ hello \in SUBSET Link
    /\ reader \in [Link -> [Node -> {"off", "new", "on"}]]
    /\ writer \in [Link -> [Node -> BOOLEAN]]
    /\ closing \in SUBSET (Link \X Node)
    /\ \A n, m \in Node :
        peers[n][m] # NoLink => n # m /\ Ends(peers[n][m]) = {n, m}

Init ==
    /\ run = [n \in Node |-> "down"]
    /\ listening = {}
    /\ peers = [n \in Node |-> [m \in Node |-> NoLink]]
    /\ stage = [k \in Link |-> [n \in Node |-> "closed"]]
    /\ hello = {}
    /\ reader = [k \in Link |-> [n \in Node |-> "off"]]
    /\ writer = [k \in Link |-> [n \in Node |-> FALSE]]
    /\ closing = {}

\* The table of n holds the link k.
Listed(n, k) == peers[n][Other(k, n)] = k

\* Neither end has been shut down: reads block and writes succeed.
Open(k) == \A n \in Ends(k) : stage[k][n] # "closed"

Free(k) ==
    \A n \in Ends(k) :
        stage[k][n] = "closed" /\ reader[k][n] = "off" /\ ~writer[k][n]

Idle(n) == run[n] \in {"cancelled", "drained"}

SetStage(k, n, s) == stage' = [stage EXCEPT ![k][n] = s]

DisconnectAny(n, k) ==  \* a slip: the generation is not compared
    /\ peers' = [peers EXCEPT ![n][Other(k, n)] = NoLink]
    /\ closing' = IF peers[n][Other(k, n)] = NoLink THEN closing
                  ELSE closing \union {<<peers[n][Other(k, n)], n>>}

\* disconnect_peer up to the release of the table's lock: the entry goes
\* only if it is still of the caller's generation.
Disconnect(n, k) ==
    IF Listed(n, k)
    THEN /\ peers' = [peers EXCEPT ![n][Other(k, n)] = NoLink]
         /\ closing' = closing \union {<<k, n>>}
    ELSE UNCHANGED <<peers, closing>>

-----------------------------------------------------------------------------
(***************************************************************************)
(* A node's life.                                                          *)
(***************************************************************************)
Start(n) ==
    /\ run[n] = "down"
    /\ run' = [run EXCEPT ![n] = "up"]
    /\ listening' = listening \union {n}
    /\ UNCHANGED <<peers, stage, hello, threadVars, closing>>

StopCancel(n) ==
    /\ run[n] = "up" /\ n \in Stops
    /\ run' = [run EXCEPT ![n] = "cancelled"]
    /\ UNCHANGED <<listening, peers, stage, hello, threadVars, closing>>

DrainOnly(n) ==  \* a slip: the drained connections are not shut down
    /\ run[n] = "cancelled"
    /\ run' = [run EXCEPT ![n] = "drained"]
    /\ peers' = [peers EXCEPT ![n] = [m \in Node |-> NoLink]]
    /\ UNCHANGED <<listening, stage, hello, threadVars, closing>>

StopDrain(n) ==
    /\ run[n] = "cancelled"
    /\ run' = [run EXCEPT ![n] = "drained"]
    /\ closing' = closing \union {e \in Link \X {n} :
                                    n \in Ends(e[1]) /\ Listed(n, e[1])}
    /\ peers' = [peers EXCEPT ![n] = [m \in Node |-> NoLink]]
    /\ UNCHANGED <<listening, stage, hello, threadVars>>

\* Every thread of the node has been joined.
StopJoin(n) ==
    /\ run[n] = "drained" /\ n \notin listening
    /\ \A k \in Link :
        /\ stage[k][n] \notin {"dialled", "greeted", "handshake"}
        /\ reader[k][n] = "off" /\ ~writer[k][n]
        /\ <<k, n>> \notin closing
    /\ run' = [run EXCEPT ![n] = "down"]
    /\ UNCHANGED <<listening, peers, stage, hello, threadVars, closing>>

\* The process exits or is killed, and its sockets are closed.
Exit(n) ==
    /\ run' = [run EXCEPT ![n] = "down"]
    /\ listening' = listening \ {n}
    /\ peers' = [peers EXCEPT ![n] = [m \in Node |-> NoLink]]
    /\ stage' = [k \in Link |-> [stage[k] EXCEPT ![n] = "closed"]]
    /\ reader' = [k \in Link |-> [reader[k] EXCEPT ![n] = "off"]]
    /\ writer' = [k \in Link |-> [writer[k] EXCEPT ![n] = FALSE]]
    /\ closing' = {e \in closing : e[2] # n}
    /\ hello' = {k \in hello : n # k.to}

-----------------------------------------------------------------------------
(***************************************************************************)
(* Discovery and accept.                                                   *)
(***************************************************************************)

\* The discovery thread, which handles one peer at a time, connects to the
\* listener of a peer with a greater id that its table does not hold.
Dial(k) ==
    LET n == k.from  m == k.to IN
    /\ run[n] = "up" /\ n < m /\ peers[n][m] = NoLink
    /\ \A j \in Link : stage[j][n] \notin {"dialled", "greeted"}
    /\ m \in listening
    /\ Free(k)
    /\ \A i \in Slot : Free([k EXCEPT !.slot = i]) => k.slot <= i
    /\ stage' = [stage EXCEPT ![k] = [@ EXCEPT ![n] = "dialled",
                                               ![m] = "backlog"]]
    /\ UNCHANGED <<nodeVars, peers, hello, threadVars, closing>>

\* The dialler writes its id; the write fails if the other end is closed.
Greet(k) ==
    /\ stage[k][k.from] = "dialled"
    /\ \/ /\ Open(k)
          /\ SetStage(k, k.from, "greeted") /\ hello' = hello \union {k}
       \/ ~Open(k) /\ SetStage(k, k.from, "closed") /\ UNCHANGED hello
    /\ UNCHANGED <<nodeVars, peers, threadVars, closing>>

Accept(k) ==
    /\ stage[k][k.to] = "backlog" /\ k.to \in listening
    /\ SetStage(k, k.to, "handshake")
    /\ UNCHANGED <<nodeVars, peers, hello, threadVars, closing>>

\* No id arrives: end of stream, or (a fault) the read times out.
HandshakeFails(k) ==
    /\ stage[k][k.to] = "handshake" /\ k \notin hello
    /\ Faults \/ ~Open(k)
    /\ SetStage(k, k.to, "closed")
    /\ UNCHANGED <<nodeVars, peers, hello, threadVars, closing>>

\* Closing the listener resets the connections nobody has accepted.
AcceptExit(n) ==
    /\ n \in listening /\ Idle(n)
    /\ listening' = listening \ {n}
    /\ stage' = [k \in Link |-> IF stage[k][n] = "backlog"
                               THEN [stage[k] EXCEPT ![n] = "closed"]
                               ELSE stage[k]]
    /\ hello' = {k \in hello : stage[k][n] # "backlog"}
    /\ UNCHANGED <<run, peers, threadVars, closing>>

\* install_peer, on the discovery or on a handshake thread.  Nothing here
\* looks at the cancellation token.  If a thread cannot be spawned the entry
\* stays in the table.
Install(n, k) ==
    /\ \/ n = k.from /\ stage[k][n] = "greeted"
       \/ n = k.to /\ stage[k][n] = "handshake" /\ k \in hello
    /\ \/ /\ peers[n][Other(k, n)] # NoLink
          /\ SetStage(k, n, "closed")
          /\ UNCHANGED <<peers, threadVars>>
       \/ /\ peers[n][Other(k, n)] = NoLink
          /\ peers' = [peers EXCEPT ![n][Other(k, n)] = k]
          /\ SetStage(k, n, "live")
          /\ \/ /\ writer' = [writer EXCEPT ![k][n] = TRUE]
                /\ \/ reader' = [reader EXCEPT ![k][n] = "new"]
                   \/ Faults /\ UNCHANGED reader
             \/ Faults /\ UNCHANGED threadVars
    /\ hello' = IF n = k.to THEN hello \ {k} ELSE hello
    /\ UNCHANGED <<nodeVars, closing>>

-----------------------------------------------------------------------------
(***************************************************************************)
(* The threads of an installed connection.                                 *)
(***************************************************************************)

\* The reader looks at the token before its first read and between reads.
ReaderEnter(n, k) ==
    /\ reader[k][n] = "new"
    /\ reader' = [reader EXCEPT ![k][n] = IF Idle(n) THEN "off" ELSE "on"]
    /\ UNCHANGED <<nodeVars, peers, stage, hello, writer, closing>>

ReaderQuits(n, k) ==
    /\ reader[k][n] = "on" /\ Idle(n) /\ writer[k][Other(k, n)]
    /\ reader' = [reader EXCEPT ![k][n] = "off"]
    /\ UNCHANGED <<nodeVars, peers, stage, hello, writer, closing>>

ReaderLeaves(n, k) ==  \* a slip: the peer is not disconnected
    /\ reader[k][n] = "on" /\ ~Open(k)
    /\ reader' = [reader EXCEPT ![k][n] = "off"]
    /\ UNCHANGED <<nodeVars, peers, stage, hello, writer, closing>>

ReaderFails(n, k) ==
    /\ reader[k][n] = "on" /\ ~Open(k)
    /\ reader' = [reader EXCEPT ![k][n] = "off"]
    /\ Disconnect(n, k)
    /\ UNCHANGED <<nodeVars, stage, hello, writer>>

\* The other end is closed, or installed without a reader, so that writes
\* fill the socket's buffer and time out.
WriterFails(n, k) ==
    LET m == Other(k, n) IN
    /\ writer[k][n]
    /\ ~Open(k) \/ (stage[k][m] = "live" /\ reader[k][m] = "off")
    /\ writer' = [writer EXCEPT ![k][n] = FALSE]
    /\ Disconnect(n, k)
    /\ UNCHANGED <<nodeVars, stage, hello, reader>>

QuitsWhenClosed(n, k) ==  \* a slip: the token is not looked at
    /\ writer[k][n] /\ stage[k][n] = "closed"
    /\ writer' = [writer EXCEPT ![k][n] = FALSE]
    /\ UNCHANGED <<nodeVars, peers, stage, hello, reader, closing>>

\* Its requests' sender has been dropped, or it sees the cancelled token.
WriterQuits(n, k) ==
    /\ writer[k][n] /\ (stage[k][n] = "closed" \/ Idle(n))
    /\ writer' = [writer EXCEPT ![k][n] = FALSE]
    /\ UNCHANGED <<nodeVars, peers, stage, hello, reader, closing>>

\* Peer::shutdown, after the entry has left the table.
Shutdown(n, k) ==
    /\ <<k, n>> \in closing
    /\ closing' = closing \ {<<k, n>>}
    /\ SetStage(k, n, "closed")
    /\ UNCHANGED <<nodeVars, peers, hello, threadVars>>

SendFailsQuietly(n, k) ==  \* a slip: a peer that cannot be sent to is passed over
    /\ Listed(n, k) /\ ~writer[k][n]
    /\ UNCHANGED vars

\* A broadcast, and a send whose acknowledgement was dropped, disconnects a
\* peer whose writer thread takes no more requests.
SendFails(n, k) ==
    /\ Listed(n, k) /\ ~writer[k][n]
    /\ Disconnect(n, k)
    /\ UNCHANGED <<nodeVars, stage, hello, threadVars>>

-----------------------------------------------------------------------------
Lifecycle(n) ==
    Start(n) \/ StopCancel(n) \/ StopDrain(n) \/ StopJoin(n) \/ Exit(n)
             \/ AcceptExit(n)

Connect(k) == Dial(k) \/ Greet(k) \/ Accept(k) \/ HandshakeFails(k)

EndStep(n, k) ==
    \/ Install(n, k) \/ Shutdown(n, k) \/ SendFails(n, k)
    \/ ReaderEnter(n, k) \/ ReaderQuits(n, k) \/ ReaderFails(n, k)
    \/ WriterFails(n, k) \/ WriterQuits(n, k)

Next ==
    \/ \E n \in Node : Lifecycle(n)
    \/ \E k \in Link : Connect(k) \/ \E n \in Ends(k) : EndStep(n, k)

Spec == Init /\ [][Next]_vars

(***************************************************************************)
(* Fairness: at each end of a connection the thread at work goes on, the   *)
(* discovery loop scans again and again, every node broadcasts             *)
(* (beacon_loop), and a stop goes on.  Nothing is assumed of start, the    *)
(* call of stop, and exit, and no write needs to time out.                 *)
(***************************************************************************)
EndProgress(n, k) ==
    \/ n = k.from /\ Greet(k)
    \/ n = k.to /\ (Accept(k) \/ HandshakeFails(k))
    \/ Install(n, k) \/ Shutdown(n, k)
    \/ run[n] = "up" /\ SendFails(n, k)
    \/ ReaderEnter(n, k) \/ ReaderFails(n, k) \/ WriterQuits(n, k)

NodeProgress(n) == StopDrain(n) \/ AcceptExit(n) \/ StopJoin(n)

Fairness ==
    /\ \A n \in Node : /\ WF_vars(NodeProgress(n))
                       /\ WF_vars(\E k \in Link : k.from = n /\ Dial(k))
    /\ \A k \in Link : \A n \in Ends(k) : WF_vars(EndProgress(n, k))

FairSpec == Spec /\ Fairness

-----------------------------------------------------------------------------
(***************************************************************************)
(* Properties.                                                             *)
(***************************************************************************)

\* An end that has been installed and not shut down is either in its node's
\* table or about to be shut down by the thread that took it out, and the
\* table holds no other: no connection that can still carry messages is lost
\* from the table, and none that is closed blocks a new one.
TableMatchesEnds ==
    \A k \in Link : \A n \in Ends(k) :
        stage[k][n] = "live" <=> (Listed(n, k) \/ <<k, n>> \in closing)

\* On a running node a peer that can be written to is also heard, if threads
\* can be spawned: the two threads of an entry stop only together with it.
ListedIsHeard ==
    \A k \in Link : \A n \in Ends(k) :
        run[n] = "up" /\ Listed(n, k) /\ writer[k][n] => reader[k][n] # "off"

Healthy(n, k) ==
    /\ Open(k) /\ Listed(n, k) /\ writer[k][n]
    /\ \A m \in Ends(k) : run[m] = "up" /\ reader[k][m] # "off"

\* A healthy connection stays in the table unless its node stops: neither a
\* late thread of an earlier generation, nor a second connection of the same
\* peer, nor a broadcast takes it out.
HealthyKept ==
    [][\A k \in Link : \A n \in Ends(k) :
        Healthy(n, k) /\ run'[n] = "up" => Listed(n, k)']_vars

\* stop_blocking ends: every thread it joins sees the token or its socket
\* shut down, also a thread installed while the stop was under way.
StopTerminates ==
    \A n \in Node : run[n] = "cancelled" ~> run[n] = "down"

\* On a running node an entry whose writer thread could not be spawned, or has
\* ended, does not keep its peer from connecting again: it leaves the table.  An
\* entry that only lacks its reader may stay, since what is written to it arrives.
WriterlessLeaves ==
    LET Writerless(n, m) ==
            run[n] = "up" /\ peers[n][m] # NoLink /\ ~writer[peers[n][m]][n]
    IN  \A n, m \in Node : n # m => (Writerless(n, m) ~> ~Writerless(n, m))

Linked(n, m) ==
    \E k \in Link :
        /\ Ends(k) = {n, m} /\ Listed(n, k) /\ Listed(m, k)
        /\ \A e \in Ends(k) : reader[k][e] = "on" /\ writer[k][e]

\* Two nodes that stay up end up connected to each other by one link, whatever
\* stops, exits and restarts came before, with what they left in the tables.
MeshConverges ==
    \A n, m \in Node :
        n < m => (<>[](run[n] = "up" /\ run[m] = "up") => <>[]Linked(n, m))
=============================================================================
