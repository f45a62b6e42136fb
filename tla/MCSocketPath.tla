--------------------------- MODULE MCSocketPath ---------------------------
(***************************************************************************)
(* Three connexons that share a path, or the starts and stops of one node  *)
(* whose futures are all awaited to their end: subject says which of the   *)
(* two machines moves, the other stays as it began.                        *)
(***************************************************************************)
EXTENDS SocketPath

CONSTANTS User, MaxJobs, MaxSessions, None

VARIABLES
    subject,
    lock, call, waits, started, active, loops, tasks, nodeOff, job, runtime, threads,
    tracked, off, bound, calm

L == INSTANCE Lifecycle WITH file <- bound, Drops <- FALSE, SpawnFails <- TRUE

lifecycleVars ==
    <<lock, call, waits, started, active, loops, tasks, nodeOff, job, runtime, threads,
      tracked, off, bound, calm>>

MCInit == Init /\ L!Init /\ subject \in {"path", "lifecycle"}

MCNext ==
    \/ subject = "path" /\ Next /\ UNCHANGED <<subject, lifecycleVars>>
    \/ subject = "lifecycle" /\ L!Next /\ UNCHANGED <<subject, vars>>

MCSpec ==
    /\ MCInit /\ [][MCNext]_<<subject, vars, lifecycleVars>>
    /\ \A j \in L!Job : WF_lifecycleVars(subject = "lifecycle" /\ L!JobStep(j))
    /\ \A t \in L!Thread : WF_lifecycleVars(subject = "lifecycle" /\ L!ThreadEnds(t))
    /\ \A n \in L!Session, l \in L!AllLoops :
        WF_lifecycleVars(subject = "lifecycle" /\ L!LoopEnds(n, l))
    /\ \A u \in User : WF_lifecycleVars(subject = "lifecycle" /\ L!CallGoesOn(u))

\* Every start() and stop() ends if no future is dropped, also when threads cannot
\* be spawned.
CallsEnd == L!CallsEnd
=============================================================================
