---------------------------- MODULE MCNodeCalls ----------------------------
(***************************************************************************)
(* Instances of NodeCalls for TLC.  The calls are model values; c1 is a    *)
(* loopback call without a timeout, c2 goes to a peer and has one.         *)
(***************************************************************************)
EXTENDS NodeCalls

CONSTANTS c1, c2

MCLocal == {c1} \intersect Call
MCTimed == {c2} \intersect Call
=============================================================================
