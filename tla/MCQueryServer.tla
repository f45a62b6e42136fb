-------------------------- MODULE MCQueryServer --------------------------
(***************************************************************************)
(* What a node's dispatch loop hands out: two queries of client a and one  *)
(* of client b for two permits, or three events for one handler, or two    *)
(* events for two.  subject says which; the machine that does not move     *)
(* stays as it began.                                                      *)
(***************************************************************************)
EXTENDS QueryServer, Sequences, TLC

CONSTANTS
    a, b, q1, q2, q3, g,
    Handler, Capacity, MaxEvents, MaxSessions, None

ASSUME EventsAssumption ==
    /\ Capacity \in Nat \ {0} /\ MaxEvents \in Nat /\ MaxSessions \in Nat
    /\ None \notin Handler

VARIABLES
    subject,
    sent, running, session, stopping, dropped, cursor, loop, table, removed, task, ran

E == INSTANCE Events

MCOwner == (q1 :> a) @@ (q2 :> a) @@ (q3 :> b)

eventVars ==
    <<sent, running, session, stopping, dropped, cursor, loop, table, removed, task, ran>>

MCInit ==
    /\ Init /\ E!Init
    /\ subject = "queries" \/ (subject \in {"one", "two"} /\ ~registered)

MCNext ==
    \/ subject = "queries" /\ Next /\ UNCHANGED <<subject, eventVars>>
    \/ /\ subject # "queries" /\ E!Next
       /\ subject = "one" => table' # g
       /\ subject = "two" => sent' < MaxEvents
       /\ UNCHANGED <<subject, vars>>

MCSpec ==
    /\ MCInit /\ [][MCNext]_<<subject, vars, eventVars>>
    /\ \A q \in Query :
        /\ WF_vars(/\ subject = "queries"
                   /\ \/ Acquire(q) \/ Refuse(q) \/ FindHandler(q) \/ FindNone(q)
                      \/ SendReply(q))
        /\ WF_vars(/\ subject = "queries" /\ q \in cancelled
                   /\ HandlerReturns(q) \/ HandlerPanics(q))
    /\ \A s \in E!Session :
        /\ WF_eventVars(subject # "queries" /\ E!LoopStep(s))
        /\ WF_eventVars(subject # "queries" /\ E!LoopEnds(s))
    /\ \A t \in E!Task : WF_eventVars(subject # "queries" /\ E!Run(t))

\* No event is handled twice, nor by a handler that was taken out before.
EventsInv == E!TypeOK /\ E!HandledOnce /\ E!RemovedIsQuiet

\* An event that waits in the channel is handled.
WaitingIsHandled == E!WaitingIsHandled
=============================================================================
