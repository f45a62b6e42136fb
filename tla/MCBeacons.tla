----------------------------- MODULE MCBeacons -----------------------------
(***************************************************************************)
(* Beacons of two threads to one peer, or of one thread to two peers.      *)
(***************************************************************************)
EXTENDS Beacons

CONSTANTS t, u, p, q

\* Of one id, the method and the event together do not fit in a frame.
MCTooLong == {b \in Announced : \A k \in Kind : b[k] # {}}

VARIABLES threads, peers  \* those that do something

MCInit ==
    /\ Init
    /\ \/ threads = {t, u} /\ peers = {p}
       \/ threads = {t} /\ peers = {p, q}

MCNext ==
    /\ Next
    /\ \A w \in Thread \ threads : op'[w] = Idle
    /\ connected' \subseteq peers
    /\ UNCHANGED <<threads, peers>>

MCSpec == MCInit /\ [][MCNext]_<<vars, threads, peers>> /\ WF_vars(LoopStep)
=============================================================================
