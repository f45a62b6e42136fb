-------------------------------- MODULE MCMesh --------------------------------
(***************************************************************************)
(* Mesh with two nodes of which one is stopped and started again, at two   *)
(* links, or both are, at one link.  Either node may exit at any time.     *)
(*                                                                         *)
(* The modules that extend this one check a second machine in the same     *)
(* run: subject says which of the two moves, the other stays as it began.  *)
(***************************************************************************)
EXTENDS Mesh

VARIABLES
    subject,  \* the machine that moves
    stopped   \* the nodes that are stopped

meshVars == <<vars, stopped>>

Slots == IF stopped = Node THEN {1} ELSE Slot

MeshInit == Init /\ stopped \in SUBSET Stops \ {{}}

MeshNext ==
    /\ Next
    /\ \A n \in Node \ stopped : run'[n] # "cancelled"
    /\ \A k \in Link : k.slot \notin Slots => stage'[k] = stage[k]
    /\ UNCHANGED stopped

\* Fairness of Mesh, of which a dial is only taken at the links in use.
MeshFairness ==
    /\ \A n \in Node :
        /\ WF_vars(subject = "mesh" /\ NodeProgress(n))
        /\ WF_vars(subject = "mesh"
                    /\ \E k \in Link : k.from = n /\ k.slot \in Slots /\ Dial(k))
    /\ \A k \in Link : \A n \in Ends(k) :
        WF_vars(subject = "mesh" /\ EndProgress(n, k))
=============================================================================
