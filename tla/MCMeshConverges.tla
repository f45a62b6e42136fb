-------------------------- MODULE MCMeshConverges --------------------------
(***************************************************************************)
(* The mesh whose threads can be spawned, or the dial rule over ids of "a",*)
(* U+E000 (after the surrogates) and U+10000 (two surrogates), among the   *)
(* stems "", ".", ".." and "a/", which are no ids.                         *)
(***************************************************************************)
EXTENDS MCMesh, Sequences

CONSTANT MaxNodes

VARIABLES node, file, dialled

Stems ==
    {<<>>, <<46>>, <<46, 46>>, <<97, 47>>}
    \union {<<97>>, <<97, 97>>, <<57344>>, <<65536>>, <<97, 57344>>, <<97, 65536>>}

I == INSTANCE NodeIds WITH Stem <- Stems, Unsafe <- {47}, Dot <- 46

idVars == <<node, file, dialled>>

MCInit ==
    /\ MeshInit /\ I!Init
    /\ \/ subject = "mesh" /\ file = {}
       \/ subject = "ids" /\ stopped = Node

MCNext ==
    \/ subject = "mesh" /\ MeshNext /\ UNCHANGED <<subject, idVars>>
    \/ subject = "ids" /\ I!Next /\ UNCHANGED <<subject, meshVars>>

MCSpec ==
    /\ MCInit /\ [][MCNext]_<<subject, meshVars, idVars>>
    /\ MeshFairness
    /\ \A id \in Stems : WF_idVars(subject = "ids" /\ I!ScanAndConnect(id))

\* In the end one of any two nodes has dialled the other, and only one.
EachPairMeets == I!EachPairMeets
=============================================================================
