---------------------------- MODULE MCMeshFaults ----------------------------
(***************************************************************************)
(* The mesh with spawn failures and late handshakes, or the events of one  *)
(* peer's connections.                                                     *)
(***************************************************************************)
EXTENDS MCMesh

CONSTANTS Connection, None

ASSUME ConnectionAssumption == None \notin Connection

VARIABLES running, table, at, leaving, drained, events

E == INSTANCE PeerEvents

eventVars == <<running, table, at, leaving, drained, events>>

MCInit ==
    /\ MeshInit /\ E!Init
    /\ subject = "mesh" \/ (subject = "events" /\ stopped = Node)

MCNext ==
    \/ subject = "mesh" /\ MeshNext /\ UNCHANGED <<subject, eventVars>>
    \/ subject = "events" /\ E!Next /\ UNCHANGED <<subject, meshVars>>

MCSpec ==
    MCInit /\ [][MCNext]_<<subject, meshVars, eventVars>> /\ MeshFairness

\* A subscriber that counts the events of one peer is right, and one that believes
\* the last of them is wrong only where two crossed.
PeerEventsInv == E!TypeOK /\ E!CountIsRight /\ E!WrongOnlyIfCrossed
=============================================================================
