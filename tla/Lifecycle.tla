------------------------------ MODULE Lifecycle ------------------------------
(***************************************************************************)
(* start() and stop() of a GlycoComplex (src/src/node.rs) over those of    *)
(* its connexon (src/src/transport/unix_mesh.rs).  The calls of a node     *)
(* take turns by its lifecycle mutex; but the connexon does its part in    *)
(* blocking jobs that run on when the future that waits for them is        *)
(* dropped, and the mutex is released then.                                *)
(*                                                                         *)
(* Of the transport there are the token, the accept and discovery threads  *)
(* and the socket file; of the node the token and its three loops.  What   *)
(* they do is modelled elsewhere (Mesh, SocketPath, NodeCalls, Beacons).   *)
(***************************************************************************)
EXTENDS Integers

CONSTANTS
    User,         \* who calls start() and stop()
    MaxJobs,      \* bound on the blocking jobs
    MaxSessions,  \* bound on the starts of the transport and of the node
    Drops,        \* futures may be dropped
    SpawnFails,   \* threads may fail to spawn
    None

ASSUME LifecycleAssumption ==
    MaxJobs \in Nat /\ MaxSessions \in Nat /\ None \notin User

VARIABLES
    lock,       \* who holds the lifecycle mutex, or None
    call,       \* call[u]: where u's start() or stop() is
    waits,      \* waits[u]: the job it waits for
    started,    \* GlycoComplex's started
    active,     \* the node's token in active_cancellation, or 0
    loops,      \* loops[n]: the loops that run under the node's token n
    tasks,      \* the tokens of the loops in lifecycle.tasks
    nodeOff,    \* the node's tokens that are cancelled
    job,        \* job[j]: where blocking job j is, and of which session it is
    runtime,    \* the transport's token in runtime, or 0
    threads,    \* the threads that run, each <<kind, token>>
    tracked,    \* the thread handles in Inner's list
    off,        \* the transport's tokens that are cancelled
    file,       \* the token whose listener is bound at the socket path, or 0
    calm        \* nothing went wrong since a stop() that ran alone (history)

nodeVars == <<started, active, loops, tasks, nodeOff>>
transportVars == <<runtime, threads, tracked, off, file>>
vars == <<lock, call, waits, job, calm, nodeVars, transportVars>>

Job == 1..MaxJobs
Session == 1..MaxSessions
AllLoops == {"dispatch", "cleanup", "beacon"}
Thread == {"accept", "discovery"} \X Session

Unused == [at |-> "unused"]
Ended == {"ok", "error"}

Jobs ==
    {Unused} \union [at : {"start", "stop"} \union Ended]
    \union [at : {"spawn_accept", "track_accept", "spawn_discovery", "track_discovery",
                  "cancel", "join", "remove"}, of : Session]
    \union [at : {"joining"}, of : Session, handles : SUBSET Thread]

TypeOK ==
    /\ lock \in User \union {None}
    /\ call \in [User -> {"idle", "starting", "beacon", "failing", "fail_join",
                          "stopping", "stop_join", "stopping_only"}]
    /\ \A u \in User : call[u] # "idle" <=> lock = u
    /\ waits \in [User -> 0..MaxJobs]
    /\ started \in BOOLEAN /\ active \in 0..MaxSessions
    /\ loops \in [Session -> SUBSET AllLoops]
    /\ tasks \in SUBSET Session /\ nodeOff \in SUBSET Session
    /\ job \in [Job -> Jobs]
    /\ runtime \in 0..MaxSessions /\ file \in 0..MaxSessions
    /\ threads \in SUBSET Thread /\ tracked \in SUBSET Thread
    /\ off \in SUBSET Session
    /\ calm \in BOOLEAN

Init ==
    /\ lock = None
    /\ call = [u \in User |-> "idle"]
    /\ waits = [u \in User |-> 0]
    /\ started = FALSE /\ active = 0
    /\ loops = [n \in Session |-> {}]
    /\ tasks = {} /\ nodeOff = {}
    /\ job = [j \in Job |-> Unused]
    /\ runtime = 0 /\ file = 0
    /\ threads = {} /\ tracked = {} /\ off = {}
    /\ calm = TRUE

-----------------------------------------------------------------------------
(***************************************************************************)
(* Blocking jobs.                                                          *)
(***************************************************************************)
Step(j, next) == job' = [job EXCEPT ![j] = next]

Finish(j, result) == Step(j, [at |-> result])

\* Tokens are numbered in the order in which they are made.
UsedTokens == off \union {runtime, file} \union {t[2] : t \in threads \union tracked}
                  \union {job[j].of : j \in {i \in Job : "of" \in DOMAIN job[i]}}

Fresh(used) ==
    {s \in Session : \A t \in used : t < s}

\* The listener at the path lives: it is its accept thread's, or on its way there.
Listens ==
    \/ <<"accept", file>> \in threads
    \/ \E j \in Job : job[j] = [at |-> "spawn_accept", of |-> file]

\* start_blocking holds the lock of runtime until the token is in place.
JobStart(j) ==
    /\ job[j].at = "start"
    /\ \/ /\ runtime # 0
          /\ Finish(j, "ok") /\ UNCHANGED <<runtime, file>>
       \/ \* NodeAlreadyRunning: the probe reaches an earlier session's listener.
          /\ runtime = 0 /\ Listens
          /\ Finish(j, "error") /\ UNCHANGED <<runtime, file>>
       \/ /\ runtime = 0 /\ ~Listens
          /\ \E s \in Fresh(UsedTokens) :
                /\ \A t \in Fresh(UsedTokens) : s <= t
                /\ runtime' = s /\ file' = s
                /\ Step(j, [at |-> "spawn_accept", of |-> s])
    /\ UNCHANGED <<lock, call, waits, calm, nodeVars, threads, tracked, off>>

AfterStep(at) == CASE at = "spawn_accept" -> "track_accept"
               [] at = "track_accept" -> "spawn_discovery"
               [] at = "spawn_discovery" -> "track_discovery"

KindOf(at) == IF at \in {"spawn_accept", "track_accept"} THEN "accept" ELSE "discovery"

JobSpawn(j) ==
    /\ job[j].at \in {"spawn_accept", "spawn_discovery"}
    /\ threads' = threads \union {<<KindOf(job[j].at), job[j].of>>}
    /\ Step(j, [job[j] EXCEPT !.at = AfterStep(job[j].at)])
    /\ UNCHANGED <<lock, call, waits, calm, nodeVars, runtime, tracked, off, file>>

\* The token stays in runtime, so that the next start takes it for a running one.
JobSpawnFails(j) ==
    /\ SpawnFails
    /\ job[j].at \in {"spawn_accept", "spawn_discovery"}
    /\ Finish(j, "error")
    /\ calm' = FALSE
    /\ UNCHANGED <<lock, call, waits, nodeVars, transportVars>>

JobTrack(j) ==
    /\ job[j].at \in {"track_accept", "track_discovery"}
    /\ tracked' = tracked \union {<<KindOf(job[j].at), job[j].of>>}
    /\ IF job[j].at = "track_discovery"
       THEN Finish(j, "ok")
       ELSE Step(j, [job[j] EXCEPT !.at = "spawn_discovery"])
    /\ UNCHANGED <<lock, call, waits, calm, nodeVars, runtime, threads, off, file>>

\* stop_blocking takes the token ...
JobTake(j) ==
    /\ job[j].at = "stop"
    /\ IF runtime = 0 THEN Finish(j, "ok") ELSE Step(j, [at |-> "cancel", of |-> runtime])
    /\ runtime' = 0
    /\ UNCHANGED <<lock, call, waits, calm, nodeVars, threads, tracked, off, file>>

CancelNothing(j) ==  \* a slip: the token is taken and not cancelled
    /\ job[j].at = "cancel"
    /\ Step(j, [job[j] EXCEPT !.at = "join"])
    /\ UNCHANGED <<lock, call, waits, calm, nodeVars, transportVars>>

\* ... cancels it ...
JobCancel(j) ==
    /\ job[j].at = "cancel"
    /\ off' = off \union {job[j].of}
    /\ Step(j, [job[j] EXCEPT !.at = "join"])
    /\ UNCHANGED <<lock, call, waits, calm, nodeVars, runtime, threads, tracked, file>>

\* ... joins all threads in the list, of whatever session, until it is empty ...
JobJoin(j) ==
    /\ job[j].at = "join"
    /\ IF tracked = {}
       THEN Step(j, [job[j] EXCEPT !.at = "remove"])
       ELSE Step(j, [at |-> "joining", of |-> job[j].of, handles |-> tracked])
    /\ tracked' = {}
    /\ UNCHANGED <<lock, call, waits, calm, nodeVars, runtime, threads, off, file>>

JobJoined(j) ==
    /\ job[j].at = "joining" /\ job[j].handles \intersect threads = {}
    /\ Step(j, [at |-> "join", of |-> job[j].of])
    /\ UNCHANGED <<lock, call, waits, calm, nodeVars, transportVars>>

\* ... and removes the file.
JobRemove(j) ==
    /\ job[j].at = "remove"
    /\ file' = 0
    /\ Finish(j, "ok")
    /\ UNCHANGED <<lock, call, waits, calm, nodeVars, runtime, threads, tracked, off>>

\* accept_loop and discovery_loop end when their token is cancelled.
ThreadEnds(t) ==
    /\ t \in threads /\ t[2] \in off
    /\ threads' = threads \ {t}
    /\ UNCHANGED <<lock, call, waits, calm, nodeVars, job, runtime, tracked, off, file>>

-----------------------------------------------------------------------------
(***************************************************************************)
(* The node's calls.                                                       *)
(***************************************************************************)
At(u, place) == call' = [call EXCEPT ![u] = place]

\* Spawn a blocking job and wait for it.
Spawn(u, what) ==
    \E j \in Job :
        /\ job[j] = Unused /\ \A i \in 1..j-1 : job[i] # Unused
        /\ Step(j, [at |-> what])
        /\ waits' = [waits EXCEPT ![u] = j]

Result(u) == job[waits[u]].at

Return(u) ==
    /\ At(u, "idle") /\ lock' = None
    /\ waits' = [waits EXCEPT ![u] = 0]

\* A start() that finds the node started returns at once and changes nothing.
\* (The bound leaves it a job to stop the transport with, should it fail.)
Start(u) ==
    /\ lock = None /\ ~started /\ job[MaxJobs - 1] = Unused
    /\ lock' = u /\ At(u, "starting") /\ Spawn(u, "start")
    /\ UNCHANGED <<calm, nodeVars, transportVars>>

StartRefused(u) ==
    /\ call[u] = "starting" /\ Result(u) = "error"
    /\ Return(u)
    /\ UNCHANGED <<job, calm, nodeVars, transportVars>>

StartLoops(u) ==
    /\ call[u] = "starting" /\ Result(u) = "ok"
    /\ \E n \in Session :
        /\ loops[n] = {} /\ n \notin nodeOff \union {active}
        /\ \A m \in 1..n-1 : m \in nodeOff \union {active}
        /\ active' = n
        /\ loops' = [loops EXCEPT ![n] = {"dispatch", "cleanup"}]
    /\ started' = TRUE
    /\ At(u, "beacon")
    /\ UNCHANGED <<lock, waits, job, calm, tasks, nodeOff, transportVars>>

BeaconSent(u) ==
    /\ call[u] = "beacon" /\ runtime # 0
    /\ loops' = [loops EXCEPT ![active] = @ \union {"beacon"}]
    /\ tasks' = {active}
    /\ Return(u)
    /\ UNCHANGED <<job, calm, started, active, nodeOff, transportVars>>

BeaconFailsStarted(u) ==  \* a slip: started is left as it is
    /\ call[u] = "beacon"
    /\ nodeOff' = nodeOff \union {active}
    /\ At(u, "failing") /\ Spawn(u, "stop")
    /\ UNCHANGED <<lock, calm, started, active, loops, tasks, transportVars>>

BeaconFails(u) ==
    /\ call[u] = "beacon"
    /\ started' = FALSE
    /\ nodeOff' = nodeOff \union {active}
    /\ At(u, "failing") /\ Spawn(u, "stop")
    /\ UNCHANGED <<lock, calm, active, loops, tasks, transportVars>>

FailStopped(u) ==
    /\ call[u] = "failing" /\ Result(u) \in Ended
    /\ At(u, "fail_join")
    /\ UNCHANGED <<lock, waits, job, calm, nodeVars, transportVars>>

FailJoined(u) ==
    /\ call[u] = "fail_join" /\ loops[active] = {}
    /\ active' = 0
    /\ Return(u)
    /\ UNCHANGED <<job, calm, started, loops, tasks, nodeOff, transportVars>>

\* A stop() is calm from here on if nothing of earlier calls is left running.
Alone == \A j \in Job : job[j].at \in Ended \union {"unused"}

StopIdle(u) ==
    /\ lock = None /\ ~started
    /\ lock' = u /\ At(u, "stopping_only") /\ Spawn(u, "stop")
    /\ calm' = (calm \/ Alone)
    /\ UNCHANGED <<nodeVars, transportVars>>

StopStarted(u) ==
    /\ lock = None /\ started
    /\ lock' = u /\ At(u, "stopping") /\ Spawn(u, "stop")
    /\ started' = FALSE /\ active' = 0
    /\ nodeOff' = nodeOff \union ({active} \ {0})
    /\ calm' = (calm \/ Alone)
    /\ UNCHANGED <<loops, tasks, transportVars>>

StopIdleReturns(u) ==
    /\ call[u] = "stopping_only" /\ Result(u) \in Ended
    /\ Return(u)
    /\ UNCHANGED <<job, calm, nodeVars, transportVars>>

StopStopped(u) ==
    /\ call[u] = "stopping" /\ Result(u) \in Ended
    /\ At(u, "stop_join")
    /\ UNCHANGED <<lock, waits, job, calm, nodeVars, transportVars>>

StopJoined(u) ==
    /\ call[u] = "stop_join" /\ \A n \in tasks : loops[n] = {}
    /\ tasks' = {}
    /\ Return(u)
    /\ UNCHANGED <<job, calm, started, active, loops, nodeOff, transportVars>>

\* The future is dropped at an await.  Its job runs on; a half-drained list of
\* tasks is emptied.
DropFuture(u) ==
    /\ Drops /\ call[u] # "idle"
    /\ Return(u)
    /\ tasks' = IF call[u] = "stop_join" THEN {} ELSE tasks
    /\ calm' = FALSE
    /\ UNCHANGED <<job, started, active, loops, nodeOff, transportVars>>

LoopEnds(n, l) ==
    /\ l \in loops[n] /\ n \in nodeOff
    /\ loops' = [loops EXCEPT ![n] = @ \ {l}]
    /\ UNCHANGED <<lock, call, waits, job, calm, started, active, tasks, nodeOff,
                   transportVars>>

-----------------------------------------------------------------------------
JobStep(j) ==
    \/ JobStart(j) \/ JobSpawn(j) \/ JobSpawnFails(j) \/ JobTrack(j)
    \/ JobTake(j) \/ JobCancel(j) \/ JobJoin(j) \/ JobJoined(j) \/ JobRemove(j)

CallGoesOn(u) ==
    \/ StartRefused(u) \/ StartLoops(u) \/ BeaconSent(u) \/ BeaconFails(u)
    \/ FailStopped(u) \/ FailJoined(u)
    \/ StopIdleReturns(u) \/ StopStopped(u) \/ StopJoined(u)

Next ==
    \/ \E j \in Job : JobStep(j)
    \/ \E t \in Thread : ThreadEnds(t)
    \/ \E n \in Session, l \in AllLoops : LoopEnds(n, l)
    \/ \E u \in User :
        CallGoesOn(u) \/ Start(u) \/ StopIdle(u) \/ StopStarted(u) \/ DropFuture(u)

Spec == Init /\ [][Next]_vars

\* Threads, loops, jobs and futures that can go on do so.
FairSpec ==
    /\ Spec
    /\ \A j \in Job : WF_vars(JobStep(j))
    /\ \A t \in Thread : WF_vars(ThreadEnds(t))
    /\ \A n \in Session, l \in AllLoops : WF_vars(LoopEnds(n, l))
    /\ \A u \in User : WF_vars(CallGoesOn(u))

-----------------------------------------------------------------------------
\* Everything runs: the file at the path is the listener's, both threads of the
\* transport and all loops of the node are there and none is cancelled.
Complete ==
    /\ runtime # 0 /\ file = runtime /\ runtime \notin off
    /\ {<<"accept", runtime>>, <<"discovery", runtime>>} \subseteq threads
    /\ active # 0 /\ loops[active] = AllLoops /\ active \notin nodeOff

\* Nothing runs but what is cancelled and about to end, and the path is free.
Silent ==
    /\ runtime = 0 /\ file = 0
    /\ \A t \in threads : t[2] \in off
    /\ \A n \in Session : loops[n] # {} => n \in nodeOff

\* What started says of the node is so between calls, unless a future was
\* dropped or a thread could not be spawned: and after that from the next stop()
\* on that begins when the jobs left behind have ended and runs to its end.
StartedIsComplete ==
    calm /\ lock = None => IF started THEN Complete ELSE Silent

\* Whatever was dropped or failed, a loop or a thread that nobody can stop any
\* more is cancelled: no second accept or beacon loop is ever left running.
OrphansCancelled ==
    /\ \A t \in threads :
        t[2] \in off \/ t[2] = runtime \/ \E j \in Job : job[j] = [at |-> "cancel", of |-> t[2]]
    /\ \A n \in Session : loops[n] # {} => n \in nodeOff \/ n = active

\* Every call ends: none waits for a job that joins threads which nobody cancels.
\* So it is if no future is dropped, also when threads cannot be spawned.  After
\* the drop of a start() its job may start a session whose threads the job of a
\* stop() under way joins, and that nobody can stop while that stop() waits.
CallsEnd ==
    \A u \in User : call[u] # "idle" ~> call[u] = "idle"
=============================================================================
