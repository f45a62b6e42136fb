-------------------------- MODULE LifecycleProofs --------------------------
(***************************************************************************)
(* Proofs about starts and stops (Lifecycle), typed calls (TypedCalls) and *)
(* typed events (TypedEvents), which MCLifecycle puts together.            *)
(***************************************************************************)
EXTENDS MCLifecycle, TLAPS

(***************************************************************************)
(* The shape of jobs.                                                      *)
(***************************************************************************)
Making == {"spawn_accept", "track_accept", "spawn_discovery", "track_discovery"}
Stopping == {"cancel", "join", "joining", "remove"}
Waiting == {"starting", "failing", "stopping", "stopping_only"}
Steps == Making \union {"cancel", "join", "remove"}

LEMMA MadeJobs ==
    /\ Unused \in Jobs
    /\ \A at \in {"start", "stop", "ok", "error"} : [at |-> at] \in Jobs
    /\ \A at \in Steps, s \in Session : [at |-> at, of |-> s] \in Jobs
    /\ \A s \in Session, h \in SUBSET Thread :
          [at |-> "joining", of |-> s, handles |-> h] \in Jobs
<1>1. \A at \in {"start", "stop", "ok", "error"} : [at |-> at] \in Jobs
  BY DEF Jobs, Ended
<1>2. \A at \in Steps, s \in Session : [at |-> at, of |-> s] \in Jobs
  <2>1. [at : {"spawn_accept", "track_accept", "spawn_discovery", "track_discovery",
               "cancel", "join", "remove"}, of : Session] \subseteq Jobs
    BY Zenon DEF Jobs
  <2> QED
    BY <2>1 DEF Steps, Making
<1>3. \A s \in Session, h \in SUBSET Thread :
          [at |-> "joining", of |-> s, handles |-> h] \in Jobs
  <2>1. [at : {"joining"}, of : Session, handles : SUBSET Thread] \subseteq Jobs
    BY Zenon DEF Jobs
  <2> QED
    BY <2>1
<1> QED
  BY <1>1, <1>2, <1>3 DEF Jobs

LEMMA JobFields ==
    ASSUME NEW r \in Jobs
    PROVE  /\ r.at \in Steps => r.of \in Session /\ r = [at |-> r.at, of |-> r.of]
           /\ r.at = "joining" => r.of \in Session /\ r.handles \subseteq Thread
           /\ r.at \in {"unused", "start", "stop", "ok", "error", "joining"} \union Steps
<1>1. CASE r = Unused
  BY <1>1 DEF Unused, Steps, Making
<1>2. CASE r \in [at : {"start", "stop"} \union Ended]
  BY <1>2 DEF Ended, Steps, Making
<1>3. CASE r \in [at : {"spawn_accept", "track_accept", "spawn_discovery",
                       "track_discovery", "cancel", "join", "remove"}, of : Session]
  BY <1>3 DEF Steps, Making
<1>4. CASE r \in [at : {"joining"}, of : Session, handles : SUBSET Thread]
  BY <1>4 DEF Steps, Making
<1> QED
  BY <1>1, <1>2, <1>3, <1>4 DEF Jobs

LEMMA Stepped ==
    ASSUME TypeOK, NEW j \in Job, NEW r \in Jobs, Step(j, r)
    PROVE  /\ job' \in [Job -> Jobs]
           /\ job'[j] = r
           /\ \A i \in Job : i # j => job'[i] = job[i]
BY DEF TypeOK, Step

\* The parts of TypeOK that the job steps and those of the calls disturb.
Places == {"idle", "starting", "beacon", "failing", "fail_join", "stopping", "stop_join",
           "stopping_only"}

TransportTyped ==
    /\ runtime \in 0..MaxSessions /\ file \in 0..MaxSessions
    /\ threads \in SUBSET Thread /\ tracked \in SUBSET Thread
    /\ off \in SUBSET Session

NodeVarsTyped ==
    /\ started \in BOOLEAN /\ active \in 0..MaxSessions
    /\ loops \in [Session -> SUBSET AllLoops]
    /\ tasks \in SUBSET Session /\ nodeOff \in SUBSET Session

BeaconHasLoops == \A u \in User : call[u] = "beacon" => active \in Session

(***************************************************************************)
(* Types.                                                                  *)
(***************************************************************************)
LEMMA Moved ==
    ASSUME TypeOK, NEW j \in Job
    PROVE  /\ \A at \in {"ok", "error"} :
                 Finish(j, at) => job' \in [Job -> Jobs] /\ job'[j] = [at |-> at]
           /\ \A at \in Steps, s \in Session :
                 Step(j, [at |-> at, of |-> s]) =>
                     job' \in [Job -> Jobs] /\ job'[j] = [at |-> at, of |-> s]
           /\ \A at \in Steps : job[j].at \in Steps =>
                 [job[j] EXCEPT !.at = at] = [at |-> at, of |-> job[j].of]
<1>1. \A at \in {"ok", "error"} :
          Finish(j, at) => job' \in [Job -> Jobs] /\ job'[j] = [at |-> at]
  BY MadeJobs, Stepped DEF Finish
<1>2. \A at \in Steps, s \in Session :
          Step(j, [at |-> at, of |-> s]) =>
              job' \in [Job -> Jobs] /\ job'[j] = [at |-> at, of |-> s]
  BY MadeJobs, Stepped
<1>3. ASSUME job[j].at \in Steps
      PROVE  \A at \in Steps : [job[j] EXCEPT !.at = at] = [at |-> at, of |-> job[j].of]
  <2>1. job[j] \in Jobs
    BY DEF TypeOK
  <2>2. job[j] = [at |-> job[j].at, of |-> job[j].of]
    BY <1>3, <2>1, JobFields
  <2> QED
    BY <2>2
<1> QED
  BY <1>1, <1>2, <1>3

\* Where a job's step takes it.
LEMMA JobMoves ==
    ASSUME TypeOK, NEW j \in Job, JobStep(j)
    PROVE  /\ job' \in [Job -> Jobs]
           /\ \A i \in Job : i # j => job'[i] = job[i]
           /\ JobStart(j) =>
                 \/ job'[j] \in {[at |-> "ok"], [at |-> "error"]}
                 \/ /\ runtime' \in Session /\ file' = runtime'
                    /\ job'[j] = [at |-> "spawn_accept", of |-> runtime']
           /\ JobSpawn(j) => job'[j] = [at |-> AfterStep(job[j].at), of |-> job[j].of]
           /\ JobSpawnFails(j) => job'[j] = [at |-> "error"]
           /\ JobTrack(j) => job'[j] = IF job[j].at = "track_discovery" THEN [at |-> "ok"]
                                       ELSE [at |-> "spawn_discovery", of |-> job[j].of]
           /\ JobTake(j) => job'[j] = IF runtime = 0 THEN [at |-> "ok"]
                                      ELSE [at |-> "cancel", of |-> runtime]
           /\ JobCancel(j) \/ JobJoined(j) => job'[j] = [at |-> "join", of |-> job[j].of]
           /\ JobJoin(j) =>
                 job'[j] = IF tracked = {} THEN [at |-> "remove", of |-> job[j].of]
                           ELSE [at |-> "joining", of |-> job[j].of, handles |-> tracked]
           /\ JobRemove(j) => job'[j] = [at |-> "ok"]
           /\ job[j].at \in Steps \union {"joining"} => job[j].of \in Session
<1>0. /\ job[j].at \in Steps \union {"joining"} => job[j].of \in Session
      /\ runtime # 0 => runtime \in Session
      /\ tracked \in SUBSET Thread
  <2>1. job[j] \in Jobs
    BY DEF TypeOK
  <2> QED
    BY <2>1, JobFields, LifecycleAssumption DEF TypeOK, Session
<1>1. ASSUME JobStart(j)
      PROVE  /\ job' \in [Job -> Jobs]
             /\ \/ job'[j] \in {[at |-> "ok"], [at |-> "error"]}
                \/ /\ runtime' \in Session /\ file' = runtime'
                   /\ job'[j] = [at |-> "spawn_accept", of |-> runtime']
  <2>1. \/ Finish(j, "ok") \/ Finish(j, "error")
        \/ \E s \in Session : /\ runtime' = s /\ file' = s
                              /\ Step(j, [at |-> "spawn_accept", of |-> s])
    BY <1>1, Zenon DEF JobStart, Fresh
  <2>2. "spawn_accept" \in Steps
    BY DEF Steps, Making
  <2>3. CASE Finish(j, "ok") \/ Finish(j, "error")
    BY <2>3, Moved
  <2>4. ASSUME NEW s \in Session, runtime' = s, file' = s,
               Step(j, [at |-> "spawn_accept", of |-> s])
        PROVE  /\ job' \in [Job -> Jobs] /\ runtime' \in Session /\ file' = runtime'
               /\ job'[j] = [at |-> "spawn_accept", of |-> runtime']
    BY <2>2, <2>4, Moved
  <2> QED
    BY <2>1, <2>3, <2>4
<1>2. ASSUME JobSpawn(j)
      PROVE  /\ job' \in [Job -> Jobs]
             /\ job'[j] = [at |-> AfterStep(job[j].at), of |-> job[j].of]
  <2>1. job[j].at \in Steps /\ AfterStep(job[j].at) \in Steps
    BY <1>2 DEF JobSpawn, AfterStep, Steps, Making
  <2>2. Step(j, [job[j] EXCEPT !.at = AfterStep(job[j].at)])
    BY <1>2 DEF JobSpawn
  <2> HIDE DEF AfterStep
  <2> QED
    BY <1>0, <2>1, <2>2, Moved
<1>3. ASSUME JobSpawnFails(j)
      PROVE  job' \in [Job -> Jobs] /\ job'[j] = [at |-> "error"]
  BY <1>3, Moved DEF JobSpawnFails
<1>4. ASSUME JobTrack(j)
      PROVE  /\ job' \in [Job -> Jobs]
             /\ job'[j] = IF job[j].at = "track_discovery" THEN [at |-> "ok"]
                          ELSE [at |-> "spawn_discovery", of |-> job[j].of]
  <2>1. job[j].at \in Steps /\ "spawn_discovery" \in Steps
    BY <1>4 DEF JobTrack, Steps, Making
  <2> QED
    BY <1>0, <1>4, <2>1, Moved DEF JobTrack
<1>5. ASSUME JobTake(j)
      PROVE  /\ job' \in [Job -> Jobs]
             /\ job'[j] = IF runtime = 0 THEN [at |-> "ok"]
                          ELSE [at |-> "cancel", of |-> runtime]
  BY <1>0, <1>5, Moved DEF JobTake, Steps
<1>6. ASSUME JobCancel(j)
      PROVE  job' \in [Job -> Jobs] /\ job'[j] = [at |-> "join", of |-> job[j].of]
  BY <1>0, <1>6, Moved DEF JobCancel, Steps
<1>7. ASSUME JobJoin(j)
      PROVE  /\ job' \in [Job -> Jobs]
             /\ job'[j] = IF tracked = {} THEN [at |-> "remove", of |-> job[j].of]
                          ELSE [at |-> "joining", of |-> job[j].of, handles |-> tracked]
  <2>1. job[j].at \in Steps /\ "remove" \in Steps
    BY <1>7 DEF JobJoin, Steps
  <2>2. CASE tracked = {}
    BY <1>0, <1>7, <2>1, <2>2, Moved DEF JobJoin
  <2>3. CASE tracked # {}
    <3>1. Step(j, [at |-> "joining", of |-> job[j].of, handles |-> tracked])
      BY <1>7, <2>3 DEF JobJoin
    <3>2. [at |-> "joining", of |-> job[j].of, handles |-> tracked] \in Jobs
      BY <1>0, <2>1, MadeJobs
    <3> QED
      BY <2>3, <3>1, <3>2, Stepped
  <2> QED
    BY <2>2, <2>3
<1>8. ASSUME JobJoined(j)
      PROVE  job' \in [Job -> Jobs] /\ job'[j] = [at |-> "join", of |-> job[j].of]
  BY <1>0, <1>8, Moved DEF JobJoined, Steps
<1>9. ASSUME JobRemove(j)
      PROVE  job' \in [Job -> Jobs] /\ job'[j] = [at |-> "ok"]
  BY <1>9, Moved DEF JobRemove
<1>10. \A i \in Job : i # j => job'[i] = job[i]
  BY Zenon DEF TypeOK, JobStep, JobStart, JobSpawn, JobSpawnFails, JobTrack, JobTake,
     JobCancel, JobJoin, JobJoined, JobRemove, Step, Finish
<1>11. job' \in [Job -> Jobs]
  BY <1>1, <1>2, <1>3, <1>4, <1>5, <1>6, <1>7, <1>8, <1>9, Zenon DEF JobStep
<1> QED
  BY <1>0, <1>1, <1>2, <1>3, <1>4, <1>5, <1>6, <1>7, <1>8, <1>9, <1>10, <1>11, Zenon

LEMMA JobTyped ==
    ASSUME TypeOK, NEW j \in Job, JobStep(j)
    PROVE  job' \in [Job -> Jobs] /\ calm' \in BOOLEAN /\ TransportTyped'
<1> USE DEF TypeOK, TransportTyped
<1>0. job' \in [Job -> Jobs]
      /\ (job[j].at \in Steps \union {"joining"} => job[j].of \in Session)
  BY JobMoves
<1>1. CASE JobStart(j)
  <2>1. \/ UNCHANGED <<runtime, file>>
        \/ \E s \in Session : runtime' = s /\ file' = s
    BY <1>1, Zenon DEF JobStart, Fresh
  <2>2. UNCHANGED <<threads, tracked, off, calm>>
    BY <1>1 DEF JobStart
  <2> QED
    BY <1>0, <2>1, <2>2 DEF Session
<1>2. CASE JobSpawn(j)
  BY <1>0, <1>2 DEF JobSpawn, Thread, KindOf, Steps, Making
<1>3. CASE JobTrack(j)
  BY <1>0, <1>3 DEF JobTrack, Thread, KindOf, Steps, Making
<1>4. CASE JobCancel(j)
  BY <1>0, <1>4 DEF JobCancel, Steps
<1>5. CASE JobTake(j) \/ JobRemove(j)
  BY <1>0, <1>5, LifecycleAssumption DEF JobTake, JobRemove
<1>6. CASE JobJoin(j)
  BY <1>0, <1>6 DEF JobJoin
<1>7. CASE JobSpawnFails(j) \/ JobJoined(j)
  BY <1>0, <1>7 DEF JobSpawnFails, JobJoined, transportVars
<1> QED
  BY <1>1, <1>2, <1>3, <1>4, <1>5, <1>6, <1>7 DEF JobStep

\* A call of a node is of the user that holds the mutex.
UserStep(u) ==
    CallGoesOn(u) \/ Start(u) \/ StopIdle(u) \/ StopStarted(u) \/ DropFuture(u)

LEMMA Spawned ==
    ASSUME TypeOK, NEW u \in User, NEW what \in {"start", "stop"}, Spawn(u, what)
    PROVE  \E j \in Job :
              /\ job[j] = Unused /\ job' \in [Job -> Jobs]
              /\ job'[j] = [at |-> what] /\ \A i \in Job : i # j => job'[i] = job[i]
              /\ waits' = [waits EXCEPT ![u] = j] /\ waits'[u] = j
<1>1. PICK j \in Job : /\ job[j] = Unused /\ Step(j, [at |-> what])
                       /\ waits' = [waits EXCEPT ![u] = j]
  BY DEF Spawn
<1>2. [at |-> what] \in Jobs
  BY MadeJobs
<1> QED
  BY <1>1, <1>2, Stepped DEF TypeOK

LEMMA CallTyped ==
    ASSUME TypeOK, NEW u \in User, UserStep(u)
    PROVE  /\ lock' \in User \union {None}
           /\ call' \in [User -> Places]
           /\ \A v \in User : call'[v] # "idle" <=> lock' = v
           /\ waits' \in [User -> 0..MaxJobs]
           /\ job' \in [Job -> Jobs]
           /\ calm' \in BOOLEAN
<1> USE DEF TypeOK
<1>1. CASE /\ Return(u) /\ call[u] # "idle" /\ UNCHANGED job
           /\ calm' = calm \/ calm' = FALSE
  <2>1. lock = u /\ lock' = None
    BY <1>1 DEF Return
  <2>2. call' = [call EXCEPT ![u] = "idle"] /\ waits' = [waits EXCEPT ![u] = 0]
    BY <1>1 DEF Return, At
  <2>3. call' \in [User -> Places]
    BY <2>2 DEF Places
  <2>4. waits' \in [User -> 0..MaxJobs]
    BY <2>2, LifecycleAssumption
  <2>5. \A v \in User : call'[v] # "idle" <=> lock' = v
    BY <2>1, <2>2, LifecycleAssumption
  <2> QED
    BY <1>1, <2>1, <2>3, <2>4, <2>5
<1>2. ASSUME NEW place \in Places \ {"idle"}, At(u, place), lock' = u,
             lock = u \/ lock = None, waits' \in [User -> 0..MaxJobs],
             job' \in [Job -> Jobs], calm' \in BOOLEAN
      PROVE  /\ call' \in [User -> Places]
             /\ \A v \in User : call'[v] # "idle" <=> lock' = v
  <2>1. call' \in [User -> Places]
    BY <1>2 DEF At, Places
  <2>2. call'[u] # "idle" /\ \A v \in User : v # u => call'[v] = call[v]
    BY <1>2 DEF At
  <2>3. \A v \in User : v # u => call[v] = "idle"
    BY <1>2, LifecycleAssumption
  <2> QED
    BY <1>2, <2>1, <2>2, <2>3
<1>3. ASSUME NEW what \in {"start", "stop"}, Spawn(u, what)
      PROVE  waits' \in [User -> 0..MaxJobs] /\ job' \in [Job -> Jobs]
  BY <1>3, Spawned, LifecycleAssumption DEF Job
<1>4. CASE StartRefused(u) \/ StopIdleReturns(u) \/ FailJoined(u) \/ BeaconSent(u)
           \/ StopJoined(u) \/ DropFuture(u)
  <2>1. /\ Return(u) /\ call[u] # "idle" /\ UNCHANGED job
        /\ calm' = calm \/ calm' = FALSE
    BY <1>4 DEF StartRefused, StopIdleReturns, FailJoined, BeaconSent, StopJoined, DropFuture
  <2> QED
    BY <1>1, <2>1
<1>5. CASE StartLoops(u) \/ FailStopped(u) \/ StopStopped(u)
  <2>1. /\ UNCHANGED <<lock, waits, job, calm>> /\ lock = u
        /\ \E place \in Places \ {"idle"} : At(u, place)
    BY <1>5 DEF StartLoops, FailStopped, StopStopped, Places
  <2> QED
    BY <1>2, <2>1
<1>6. CASE Start(u) \/ StopIdle(u) \/ StopStarted(u) \/ BeaconFails(u)
  <2>1. /\ \E what \in {"start", "stop"} : Spawn(u, what)
        /\ \E place \in Places \ {"idle"} : At(u, place)
        /\ lock' = u /\ lock \in {u, None} /\ calm' \in BOOLEAN
    BY <1>6, Zenon DEF Start, StopIdle, StopStarted, BeaconFails, Places, Alone
  <2> QED
    BY <1>2, <1>3, <2>1
<1> QED
  BY <1>4, <1>5, <1>6 DEF UserStep, CallGoesOn

LEMMA NodeTyped ==
    ASSUME TypeOK, NEW u \in User, UserStep(u), BeaconHasLoops
    PROVE  NodeVarsTyped'
<1> USE LifecycleAssumption DEF TypeOK, NodeVarsTyped, Session
<1>0. 0 \in 0..MaxSessions /\ {} \in SUBSET Session
  OBVIOUS
<1>1. CASE StartRefused(u) \/ StopIdleReturns(u) \/ FailStopped(u) \/ StopStopped(u)
           \/ Start(u) \/ StopIdle(u)
  BY <1>1 DEF StartRefused, StopIdleReturns, FailStopped, StopStopped, Start, StopIdle, nodeVars
<1>2. CASE StartLoops(u)
  BY <1>2 DEF StartLoops, AllLoops
<1>3. CASE BeaconSent(u)
  BY <1>3 DEF BeaconSent, AllLoops, BeaconHasLoops
<1>4. CASE BeaconFails(u)
  BY <1>4 DEF BeaconFails, BeaconHasLoops
<1>5. CASE StopStarted(u)
  <2>1. started' = FALSE /\ active' = 0 /\ UNCHANGED <<loops, tasks>>
        /\ nodeOff' = nodeOff \union ({active} \ {0})
    BY <1>5 DEF StopStarted
  <2>2. active # 0 => active \in 1..MaxSessions
    OBVIOUS
  <2>3. \A n \in nodeOff' : n \in 1..MaxSessions
    BY <2>1, <2>2
  <2>4. nodeOff' \in SUBSET Session
    BY <2>3 DEF Session
  <2> QED
    BY <1>0, <2>1, <2>4, Zenon
<1>6. CASE FailJoined(u) \/ StopJoined(u)
  <2>1. /\ active' \in {active, 0} /\ tasks' \in {tasks, {}}
        /\ UNCHANGED <<started, loops, nodeOff>>
    BY <1>6, Zenon DEF FailJoined, StopJoined
  <2> QED
    BY <1>0, <2>1, Zenon
<1>7. CASE DropFuture(u)
  BY <1>7 DEF DropFuture
<1> QED
  BY <1>1, <1>2, <1>3, <1>4, <1>5, <1>6, <1>7 DEF UserStep, CallGoesOn

LEMMA JobKeeps ==
    ASSUME NEW j \in Job, JobStep(j)
    PROVE  UNCHANGED <<lock, call, waits, nodeVars>>
BY DEF JobStep, JobStart, JobSpawn, JobSpawnFails, JobTrack, JobTake, JobCancel, JobJoin,
   JobJoined, JobRemove

LEMMA UserKeeps ==
    ASSUME NEW u \in User, UserStep(u)
    PROVE  UNCHANGED transportVars
BY DEF UserStep, CallGoesOn, StartRefused, StartLoops, BeaconSent, BeaconFails, FailStopped,
   FailJoined, StopIdleReturns, StopStopped, StopJoined, Start, StopIdle, StopStarted,
   DropFuture

LEMMA TypeStep == TypeOK /\ BeaconHasLoops /\ [Next]_vars => TypeOK'
<1> SUFFICES ASSUME TypeOK, BeaconHasLoops, [Next]_vars PROVE TypeOK'
  OBVIOUS
<1>2. ASSUME NEW j \in Job, JobStep(j)
      PROVE  TypeOK'
  BY <1>2, JobKeeps, JobTyped DEF TypeOK, TransportTyped, nodeVars
<1>3. ASSUME NEW t \in Thread, ThreadEnds(t)
      PROVE  TypeOK'
  BY <1>3 DEF TypeOK, ThreadEnds, nodeVars
<1>4. ASSUME NEW n \in Session, NEW l \in AllLoops, LoopEnds(n, l)
      PROVE  TypeOK'
  BY <1>4 DEF TypeOK, LoopEnds, transportVars
<1>5. ASSUME NEW u \in User, UserStep(u)
      PROVE  TypeOK'
  BY <1>5, UserKeeps, CallTyped, NodeTyped, Zenon
     DEF TypeOK, NodeVarsTyped, transportVars, Places
<1>6. CASE UNCHANGED vars
  BY <1>6 DEF TypeOK, vars, nodeVars, transportVars
<1> QED
  BY <1>2, <1>3, <1>4, <1>5, <1>6 DEF Next, UserStep

(***************************************************************************)
(* Who can still cancel a session: whatever was dropped or failed, it is   *)
(* cancelled, in runtime, or in the hands of a job about to cancel it.     *)
(***************************************************************************)
Held == {s \in Session : \/ s \in off \/ s = runtime
                         \/ \E j \in Job : job[j] = [at |-> "cancel", of |-> s]}

ThreadsHeld ==
    /\ \A t \in threads : t[2] \in Held
    /\ \A j \in Job : job[j].at \in Making => job[j].of \in Held

FileHeld ==
    file # 0 => file = runtime \/ \E j \in Job : job[j].at \in Stopping

LoopsHeld ==
    /\ \A n \in Session : loops[n] # {} => n \in nodeOff \/ n = active
    /\ ~started => active = 0 \/ active \in nodeOff
    /\ \A u \in User :
        /\ call[u] \in Waiting => waits[u] \in Job
        /\ call[u] = "beacon" => started /\ active \in Session
        /\ call[u] \notin {"idle", "beacon"} => ~started

HeldInv == ThreadsHeld /\ FileHeld /\ LoopsHeld

\* A user's step only puts a new job where none was.
LEMMA UserJobs ==
    ASSUME TypeOK, NEW u \in User, UserStep(u), NEW i \in Job
    PROVE  job'[i] = job[i] \/ (job[i] = Unused /\ job'[i].at \in {"start", "stop"})
<1>1. UNCHANGED job \/ \E what \in {"start", "stop"} : Spawn(u, what)
  BY Zenon DEF UserStep, CallGoesOn, StartRefused, StartLoops, BeaconSent, BeaconFails,
     FailStopped, FailJoined, StopIdleReturns, StopStopped, StopJoined, Start, StopIdle,
     StopStarted, DropFuture
<1> QED
  BY <1>1, Spawned

LEMMA HeldStays == TypeOK /\ [Next]_vars => Held \subseteq Held'
<1> SUFFICES ASSUME TypeOK, [Next]_vars, NEW s \in Session, s \in Held
             PROVE  s \in Held'
  BY DEF Held
<1> USE DEF Held
<1>1. CASE /\ UNCHANGED <<runtime, off>>
           /\ \A i \in Job : job[i].at = "cancel" => job'[i] = job[i]
  BY <1>1
<1>2. ASSUME NEW j \in Job, JobStep(j)
      PROVE  s \in Held'
  <2>0. job[j] \in Jobs /\ s # 0
    BY LifecycleAssumption DEF TypeOK, Session
  <2>1. \A i \in Job : i # j => job'[i] = job[i]
    BY <1>2, JobMoves
  <2>2. CASE JobStart(j)
    <3>1. runtime' = runtime \/ runtime = 0
      BY <2>2 DEF JobStart
    <3>2. off' = off /\ job[j].at = "start"
      BY <2>2 DEF JobStart
    <3> QED
      BY <2>0, <2>1, <3>1, <3>2
  <2>3. CASE JobTake(j)
    <3>1. off' = off /\ job[j].at = "stop"
      BY <2>3 DEF JobTake
    <3>2. CASE s = runtime
      BY <1>2, <2>0, <2>3, <3>2, JobMoves
    <3> QED
      BY <2>1, <3>1, <3>2
  <2>4. CASE JobCancel(j)
    BY <2>1, <2>4 DEF JobCancel
  <2>5. CASE JobSpawn(j) \/ JobSpawnFails(j) \/ JobTrack(j) \/ JobJoin(j) \/ JobJoined(j)
             \/ JobRemove(j)
    <3>1. UNCHANGED <<runtime, off>> /\ job[j].at # "cancel"
      BY <2>5 DEF JobSpawn, JobSpawnFails, JobTrack, JobJoin, JobJoined, JobRemove,
         transportVars
    <3> QED
      BY <1>1, <2>1, <3>1
  <2> QED
    BY <1>2, <2>2, <2>3, <2>4, <2>5 DEF JobStep
<1>3. ASSUME NEW u \in User, UserStep(u)
      PROVE  s \in Held'
  <2>1. \A i \in Job : job[i].at = "cancel" => job'[i] = job[i]
    BY <1>3, UserJobs DEF Unused
  <2> QED
    BY <1>1, <1>3, <2>1, UserKeeps DEF transportVars
<1>4. CASE \/ UNCHANGED vars \/ \E t \in Thread : ThreadEnds(t)
           \/ \E n \in Session, l \in AllLoops : LoopEnds(n, l)
  BY <1>1, <1>4 DEF vars, transportVars, ThreadEnds, LoopEnds
<1> QED
  BY <1>2, <1>3, <1>4 DEF Next, UserStep

\* A new thread, and a job that makes one, is of the session that is put in runtime.
LEMMA ThreadsStep ==
    ASSUME TypeOK, ThreadsHeld, [Next]_vars
    PROVE  ThreadsHeld'
<1> USE DEF ThreadsHeld
<1>0. /\ \A t \in threads : t[2] \in Session
      /\ \A i \in Job : job[i].at \in Making => job[i].of \in Session
      /\ \A i \in Job : job[i] \in Jobs
  BY JobFields DEF TypeOK, Thread, Steps
<1>1. CASE /\ \A t \in threads' : t \in threads
           /\ \A i \in Job : job'[i].at \in Making => job'[i] = job[i]
  BY <1>0, <1>1, HeldStays
<1>2. ASSUME NEW j \in Job, JobStep(j)
      PROVE  ThreadsHeld'
  <2>1. \A i \in Job : i # j => job'[i] = job[i]
    BY <1>2, JobMoves
  <2>2. job[j].at \in Making => job[j].of \in Held'
    BY HeldStays
  <2>3. ASSUME \A t \in threads' : t \in threads \/ t[2] \in Held',
               job'[j].at \in Making => job'[j].of \in Held'
        PROVE  ThreadsHeld'
    <3>1. \A i \in Job : job'[i].at \in Making => job'[i].of \in Held'
      BY <1>0, <2>1, <2>3, HeldStays
    <3> QED
      BY <1>0, <2>3, <3>1, HeldStays DEF Held
  <2>4. CASE JobStart(j)
    <3>1. threads' = threads
      BY <2>4 DEF JobStart
    <3>2. \/ job'[j] \in {[at |-> "ok"], [at |-> "error"]}
          \/ runtime' \in Session /\ job'[j] = [at |-> "spawn_accept", of |-> runtime']
      BY <1>2, <2>4, JobMoves
    <3>3. job'[j].at \in Making => job'[j].of \in Held'
      BY <3>2 DEF Making, Held
    <3> QED
      BY <2>3, <3>1, <3>3
  <2>5. CASE JobSpawn(j)
    <3>1. job[j].at \in Making /\ threads' = threads \union {<<KindOf(job[j].at), job[j].of>>}
      BY <2>5 DEF JobSpawn, Making
    <3>2. job'[j] = [at |-> AfterStep(job[j].at), of |-> job[j].of]
      BY <1>2, <2>5, JobMoves
    <3>3. job'[j].of = job[j].of
      BY <3>2
    <3> QED
      BY <2>2, <2>3, <3>1, <3>3
  <2>6. CASE JobTrack(j)
    <3>1. job[j].at \in Making /\ threads' = threads
      BY <2>6 DEF JobTrack, Making
    <3>2. job'[j] = IF job[j].at = "track_discovery" THEN [at |-> "ok"]
                    ELSE [at |-> "spawn_discovery", of |-> job[j].of]
      BY <1>2, <2>6, JobMoves
    <3>3. job'[j].at \in Making => job'[j].of = job[j].of
      BY <3>2 DEF Making
    <3> QED
      BY <2>2, <2>3, <3>1, <3>3
  <2>7. CASE \/ JobSpawnFails(j) \/ JobTake(j) \/ JobCancel(j) \/ JobJoin(j) \/ JobJoined(j)
             \/ JobRemove(j)
    <3>1. threads' = threads
      BY <2>7 DEF JobSpawnFails, JobTake, JobCancel, JobJoin, JobJoined, JobRemove,
         transportVars
    <3>2. job'[j] \in {[at |-> "error"], [at |-> "ok"], [at |-> "cancel", of |-> runtime],
                       [at |-> "join", of |-> job[j].of],
                       [at |-> "remove", of |-> job[j].of],
                       [at |-> "joining", of |-> job[j].of, handles |-> tracked]}
      <4>1. CASE JobSpawnFails(j) \/ JobTake(j) \/ JobRemove(j)
        BY <1>2, <4>1, JobMoves
      <4>2. CASE JobCancel(j) \/ JobJoin(j) \/ JobJoined(j)
        BY <1>2, <4>2, JobMoves
      <4> QED
        BY <2>7, <4>1, <4>2
    <3>3. job'[j].at \notin Making
      BY <3>2 DEF Making
    <3> QED
      BY <2>3, <3>1, <3>3
  <2> QED
    BY <1>2, <2>4, <2>5, <2>6, <2>7 DEF JobStep
<1>3. ASSUME NEW u \in User, UserStep(u)
      PROVE  ThreadsHeld'
  <2>1. \A i \in Job : job'[i].at \in Making => job'[i] = job[i]
    BY <1>3, UserJobs DEF Making
  <2> QED
    BY <1>1, <1>3, <2>1, UserKeeps DEF transportVars
<1>4. CASE \/ UNCHANGED vars \/ \E t \in Thread : ThreadEnds(t)
           \/ \E n \in Session, l \in AllLoops : LoopEnds(n, l)
  BY <1>1, <1>4 DEF vars, transportVars, ThreadEnds, LoopEnds
<1> QED
  BY <1>2, <1>3, <1>4 DEF Next, UserStep

\* The file at the path is of the session in runtime, or a job is about to remove it.
LEMMA FileStep ==
    ASSUME TypeOK, FileHeld, [Next]_vars
    PROVE  FileHeld'
<1> USE DEF FileHeld
<1>1. CASE /\ UNCHANGED <<file, runtime>>
           /\ \A i \in Job : job[i].at \in Stopping => job'[i] = job[i]
  BY <1>1
<1>2. ASSUME NEW j \in Job, JobStep(j)
      PROVE  FileHeld'
  <2>1. \A i \in Job : i # j => job'[i] = job[i]
    BY <1>2, JobMoves
  <2>2. CASE JobStart(j)
    <3>1. \/ UNCHANGED <<runtime, file>>
          \/ file' = runtime'
      BY <2>2, Zenon DEF JobStart
    <3>2. job[j].at \notin Stopping
      BY <2>2 DEF JobStart, Stopping
    <3> QED
      BY <1>1, <2>1, <3>1, <3>2
  <2>3. CASE JobTake(j)
    <3>1. job[j].at \notin Stopping /\ file' = file
      BY <2>3 DEF JobTake, Stopping
    <3>2. CASE runtime = 0
      <4>1. runtime' = runtime
        BY <2>3, <3>2 DEF JobTake
      <4> QED
        BY <1>1, <2>1, <3>1, <4>1
    <3>3. CASE runtime # 0
      <4>1. job'[j] = [at |-> "cancel", of |-> runtime]
        BY <1>2, <2>3, <3>3, JobMoves
      <4> QED
        BY <4>1 DEF Stopping
    <3> QED
      BY <3>2, <3>3
  <2>4. CASE JobCancel(j) \/ JobJoin(j) \/ JobJoined(j)
    <3>1. job'[j] \in {[at |-> "join", of |-> job[j].of],
                       [at |-> "remove", of |-> job[j].of],
                       [at |-> "joining", of |-> job[j].of, handles |-> tracked]}
      BY <1>2, <2>4, JobMoves
    <3> QED
      BY <3>1 DEF Stopping
  <2>5. CASE JobRemove(j)
    BY <2>5 DEF JobRemove
  <2>6. CASE JobSpawn(j) \/ JobSpawnFails(j) \/ JobTrack(j)
    <3>1. UNCHANGED <<file, runtime>> /\ job[j].at \notin Stopping
      BY <2>6 DEF JobSpawn, JobSpawnFails, JobTrack, transportVars, Stopping
    <3> QED
      BY <1>1, <2>1, <3>1
  <2> QED
    BY <1>2, <2>2, <2>3, <2>4, <2>5, <2>6 DEF JobStep
<1>3. ASSUME NEW u \in User, UserStep(u)
      PROVE  FileHeld'
  <2>1. \A i \in Job : job[i].at \in Stopping => job'[i] = job[i]
    BY <1>3, UserJobs DEF Unused, Stopping
  <2> QED
    BY <1>1, <1>3, <2>1, UserKeeps DEF transportVars
<1>4. CASE \/ UNCHANGED vars \/ \E t \in Thread : ThreadEnds(t)
           \/ \E n \in Session, l \in AllLoops : LoopEnds(n, l)
  BY <1>1, <1>4 DEF vars, transportVars, ThreadEnds, LoopEnds
<1> QED
  BY <1>2, <1>3, <1>4 DEF Next, UserStep

LEMMA LoopsStep ==
    ASSUME TypeOK, LoopsHeld, [Next]_vars
    PROVE  LoopsHeld'
<1> USE DEF LoopsHeld
<1>1. CASE UNCHANGED <<lock, call, waits, nodeVars>>
  BY <1>1 DEF nodeVars
<1>2. ASSUME NEW n \in Session, NEW l \in AllLoops, LoopEnds(n, l)
      PROVE  LoopsHeld'
  BY <1>2 DEF LoopEnds, TypeOK
<1>3. ASSUME NEW u \in User, UserStep(u)
      PROVE  LoopsHeld'
  <2>1. ASSUME NEW place \in Places, call' = [call EXCEPT ![u] = place],
               call'[u] \in Waiting => waits'[u] \in Job,
               \A v \in User : v # u => waits'[v] = waits[v],
               call'[u] = "beacon" => started' /\ active' \in Session,
               call'[u] \notin {"idle", "beacon"} => ~started',
               \A n \in Session : loops'[n] # {} => n \in nodeOff' \/ n = active',
               ~started' => active' = 0 \/ active' \in nodeOff',
               \A v \in User : v # u => call[v] = "idle"
        PROVE  LoopsHeld'
    BY <2>1 DEF TypeOK, Waiting
  <2>2. \A v \in User : v # u => call[v] = "idle"
    BY <1>3, LifecycleAssumption DEF TypeOK, UserStep, CallGoesOn, StartRefused, StartLoops,
       BeaconSent, BeaconFails, FailStopped, FailJoined, StopIdleReturns, StopStopped,
       StopJoined, Start, StopIdle, StopStarted, DropFuture
  <2>3. ASSUME NEW what \in {"start", "stop"}, Spawn(u, what)
        PROVE  waits'[u] \in Job /\ \A v \in User : v # u => waits'[v] = waits[v]
    BY <2>3, Spawned DEF TypeOK
  <2>4. ASSUME Return(u)
        PROVE  call' = [call EXCEPT ![u] = "idle"] /\ "idle" \in Places /\ call'[u] = "idle"
               /\ \A v \in User : v # u => waits'[v] = waits[v]
    BY <2>4 DEF Return, At, TypeOK, Places
  <2>5. CASE StartRefused(u) \/ StopIdleReturns(u) \/ DropFuture(u) \/ StopJoined(u)
    <3>1. Return(u) /\ UNCHANGED <<started, active, loops, nodeOff>>
      BY <2>5 DEF StartRefused, StopIdleReturns, DropFuture, StopJoined, nodeVars
    <3> QED
      BY <2>1, <2>2, <2>4, <3>1 DEF Waiting
  <2>6. CASE FailJoined(u)
    <3>1. Return(u) /\ active' = 0 /\ loops[active] = {} /\ UNCHANGED <<started, loops, nodeOff>>
      BY <2>6 DEF FailJoined
    <3> QED
      BY <2>1, <2>2, <2>4, <3>1 DEF Waiting
  <2>7. CASE BeaconSent(u)
    <3>1. /\ Return(u) /\ call[u] = "beacon" /\ UNCHANGED <<started, active, nodeOff>>
          /\ loops' = [loops EXCEPT ![active] = @ \union {"beacon"}]
      BY <2>7 DEF BeaconSent
    <3>2. \A n \in Session : loops'[n] # {} => n \in nodeOff' \/ n = active'
      BY <3>1 DEF TypeOK
    <3> QED
      BY <2>1, <2>2, <2>4, <3>1, <3>2 DEF Waiting
  <2>8. CASE StartLoops(u)
    <3>1. /\ call[u] = "starting" /\ At(u, "beacon") /\ started' = TRUE
          /\ UNCHANGED <<waits, nodeOff>>
      BY <2>8 DEF StartLoops
    <3>2. /\ active' \in Session
          /\ loops' = [loops EXCEPT ![active'] = {"dispatch", "cleanup"}]
      BY <2>8, Zenon DEF StartLoops
    <3>3. ~started
      BY <3>1
    <3>4. \A n \in Session : loops'[n] # {} => n \in nodeOff' \/ n = active'
      BY <3>1, <3>2, <3>3, LifecycleAssumption DEF TypeOK, Session
    <3> QED
      BY <2>1, <2>2, <3>1, <3>2, <3>4 DEF Waiting, At, Places, TypeOK
  <2>9. CASE FailStopped(u) \/ StopStopped(u)
    <3>1. /\ \E place \in {"fail_join", "stop_join"} : At(u, place)
          /\ call[u] \in {"failing", "stopping"} /\ UNCHANGED <<waits, nodeVars>>
      BY <2>9 DEF FailStopped, StopStopped
    <3> QED
      BY <2>1, <2>2, <3>1 DEF Waiting, At, Places, TypeOK, nodeVars
  <2>10. CASE Start(u)
    <3>1. /\ At(u, "starting") /\ Spawn(u, "start") /\ ~started /\ UNCHANGED nodeVars
      BY <2>10 DEF Start
    <3> QED
      BY <2>1, <2>2, <2>3, <3>1 DEF Waiting, At, Places, TypeOK, nodeVars
  <2>11. CASE StopIdle(u)
    <3>1. /\ At(u, "stopping_only") /\ Spawn(u, "stop") /\ ~started /\ UNCHANGED nodeVars
      BY <2>11 DEF StopIdle
    <3> QED
      BY <2>1, <2>2, <2>3, <3>1 DEF Waiting, At, Places, TypeOK, nodeVars
  <2>12. CASE StopStarted(u)
    <3>1. /\ At(u, "stopping") /\ Spawn(u, "stop") /\ started' = FALSE /\ active' = 0
          /\ nodeOff' = nodeOff \union ({active} \ {0}) /\ loops' = loops
      BY <2>12 DEF StopStarted
    <3>2. \A n \in Session : n = active => n \in nodeOff'
      BY <3>1, LifecycleAssumption DEF Session
    <3> QED
      BY <2>1, <2>2, <2>3, <3>1, <3>2 DEF Waiting, At, Places, TypeOK
  <2>13. CASE BeaconFails(u)
    <3>1. /\ At(u, "failing") /\ Spawn(u, "stop") /\ started' = FALSE
          /\ nodeOff' = nodeOff \union {active} /\ UNCHANGED <<active, loops>>
      BY <2>13 DEF BeaconFails
    <3> QED
      BY <2>1, <2>2, <2>3, <3>1 DEF Waiting, At, Places, TypeOK
  <2> QED
    BY <1>3, <2>5, <2>6, <2>7, <2>8, <2>9, <2>10, <2>11, <2>12, <2>13 DEF UserStep, CallGoesOn
<1>4. CASE UNCHANGED vars \/ \E t \in Thread : ThreadEnds(t)
  BY <1>1, <1>4 DEF vars, nodeVars, ThreadEnds
<1> QED
  BY <1>1, <1>2, <1>3, <1>4, JobKeeps DEF Next, UserStep

(***************************************************************************)
(* A calm node: one job at most is under way, that which the holder of the *)
(* mutex waits for, and how far it came says what there is.                *)
(***************************************************************************)
Over(j) == job[j].at \in Ended \union {"unused"}

Down == runtime = 0 /\ file = 0

Up == runtime \in Session /\ file = runtime /\ runtime \notin off

Has(kind) == <<kind, runtime>> \in threads

StartingFits(j) ==
    /\ job[j].at \in {"start", "ok"} \union Making
    /\ IF job[j].at = "start" THEN Down ELSE Up
    /\ job[j].at \in Making => job[j].of = runtime
    /\ job[j].at \notin {"start", "spawn_accept"} => Has("accept")
    /\ job[j].at \in {"track_discovery", "ok"} => Has("discovery")

StoppingFits(j) ==
    /\ job[j].at \in {"stop", "ok"} \union Stopping
    /\ job[j].at \in Stopping => runtime = 0
    /\ job[j].at = "ok" => Down

BeaconFits ==
    /\ Up /\ Has("accept") /\ Has("discovery")
    /\ active \notin nodeOff /\ loops[active] = {"dispatch", "cleanup"}

CallFits(u) ==
    /\ call[u] = "starting" => StartingFits(waits[u])
    /\ call[u] = "beacon" => BeaconFits
    /\ call[u] \in {"failing", "stopping", "stopping_only"} => StoppingFits(waits[u])
    /\ call[u] \in {"fail_join", "stop_join"} => Down

CalmInv ==
    calm => /\ \A j \in Job :
                Over(j) \/ \E u \in User : call[u] \in Waiting /\ waits[u] = j
            /\ \A u \in User : CallFits(u)
            /\ lock = None => IF started THEN Complete ELSE Down

\* Nobody but the holder of the mutex has a call under way.
LEMMA OneCall ==
    ASSUME TypeOK, NEW u \in User, call[u] # "idle"
    PROVE  lock = u /\ \A v \in User : v # u => call[v] = "idle"
BY LifecycleAssumption DEF TypeOK

LEMMA StartingStep ==
    ASSUME TypeOK, NEW j \in Job, JobStep(j), ~JobSpawnFails(j), StartingFits(j)
    PROVE  StartingFits(j)'
<1> USE DEF StartingFits, Up, Down, Has
<1>1. CASE JobStart(j)
  <2>1. runtime = 0 /\ file = 0 /\ UNCHANGED <<threads, off>>
    BY <1>1 DEF JobStart, Making
  <2>2. ~Listens
    <3>1. <<"accept", file>> \notin threads
      BY <2>1, LifecycleAssumption DEF TypeOK, Thread, Session
    <3>2. \A i \in Job : job[i] # [at |-> "spawn_accept", of |-> file]
      <4>1. SUFFICES ASSUME NEW i \in Job, job[i] = [at |-> "spawn_accept", of |-> 0]
                     PROVE  FALSE
        BY <2>1
      <4>2. job[i] \in Jobs /\ job[i].at \in Steps /\ job[i].of = 0
        BY <4>1 DEF TypeOK, Steps, Making
      <4> QED
        BY <4>2, JobFields, LifecycleAssumption DEF Session
    <3> QED
      BY <3>1, <3>2 DEF Listens
  <2>3. PICK s \in Fresh(UsedTokens) :
            /\ runtime' = s /\ file' = s
            /\ Step(j, [at |-> "spawn_accept", of |-> s])
    BY <1>1, <2>1, <2>2, Zenon DEF JobStart
  <2>4. s \in Session /\ s \notin off
    BY <2>3, LifecycleAssumption DEF Fresh, UsedTokens, Session
  <2>5. job'[j] = [at |-> "spawn_accept", of |-> s]
    <3>1. "spawn_accept" \in Steps
      BY DEF Steps, Making
    <3> QED
      BY <2>3, <2>4, <3>1, Moved
  <2> QED
    BY <2>1, <2>3, <2>4, <2>5 DEF Making
<1>2. CASE JobSpawn(j)
  <2>1. job'[j] = [at |-> AfterStep(job[j].at), of |-> job[j].of]
    BY <1>2, JobMoves
  <2>2. /\ job[j].at \in {"spawn_accept", "spawn_discovery"}
        /\ threads' = threads \union {<<KindOf(job[j].at), job[j].of>>}
        /\ UNCHANGED <<runtime, file, off>>
    BY <1>2 DEF JobSpawn
  <2>3. CASE job[j].at = "spawn_accept"
    BY <2>1, <2>2, <2>3 DEF Making, AfterStep, KindOf
  <2>4. CASE job[j].at = "spawn_discovery"
    BY <2>1, <2>2, <2>4 DEF Making, AfterStep, KindOf
  <2> QED
    BY <2>2, <2>3, <2>4
<1>3. CASE JobTrack(j)
  <2>1. /\ job'[j] = IF job[j].at = "track_discovery" THEN [at |-> "ok"]
                     ELSE [at |-> "spawn_discovery", of |-> job[j].of]
        /\ job[j].at \in {"track_accept", "track_discovery"}
    BY <1>3, JobMoves DEF JobTrack
  <2>2. UNCHANGED <<runtime, file, off, threads>>
    BY <1>3 DEF JobTrack
  <2> QED
    BY <2>1, <2>2 DEF Making
<1>4. CASE JobTake(j) \/ JobCancel(j) \/ JobJoin(j) \/ JobJoined(j) \/ JobRemove(j)
  BY <1>4 DEF JobTake, JobCancel, JobJoin, JobJoined, JobRemove, Making
<1> QED
  BY <1>1, <1>2, <1>3, <1>4 DEF JobStep

LEMMA StoppingStep ==
    ASSUME TypeOK, NEW j \in Job, JobStep(j), StoppingFits(j),
           job[j].at = "stop" /\ runtime = 0 => file = 0
    PROVE  StoppingFits(j)'
<1> USE DEF StoppingFits, Down
<1>1. CASE JobTake(j)
  <2>1. /\ job'[j] = IF runtime = 0 THEN [at |-> "ok"] ELSE [at |-> "cancel", of |-> runtime]
        /\ job[j].at = "stop"
    BY <1>1, JobMoves DEF JobTake
  <2>2. runtime' = 0 /\ file' = file
    BY <1>1 DEF JobTake
  <2> QED
    BY <2>1, <2>2 DEF Stopping
<1>2. CASE JobCancel(j) \/ JobJoin(j) \/ JobJoined(j)
  <2>1. job'[j] \in {[at |-> "join", of |-> job[j].of],
                     [at |-> "remove", of |-> job[j].of],
                     [at |-> "joining", of |-> job[j].of, handles |-> tracked]}
    BY <1>2, JobMoves
  <2>2. runtime' = runtime /\ job[j].at \in Stopping
    BY <1>2 DEF JobCancel, JobJoin, JobJoined, transportVars, Stopping
  <2> QED
    BY <2>1, <2>2 DEF Stopping
<1>3. CASE JobRemove(j)
  <2>1. job'[j] = [at |-> "ok"]
    BY <1>3, JobMoves
  <2>2. runtime' = runtime /\ file' = 0 /\ job[j].at \in Stopping
    BY <1>3 DEF JobRemove, Stopping
  <2> QED
    BY <2>1, <2>2 DEF Stopping
<1>4. CASE JobStart(j) \/ JobSpawn(j) \/ JobSpawnFails(j) \/ JobTrack(j)
  BY <1>4 DEF JobStart, JobSpawn, JobSpawnFails, JobTrack, Stopping
<1> QED
  BY <1>1, <1>2, <1>3, <1>4 DEF JobStep

LEMMA CalmJobs ==
    ASSUME TypeOK, HeldInv, CalmInv, calm', NEW j \in Job, JobStep(j)
    PROVE  CalmInv'
<1>1. calm /\ ~JobSpawnFails(j) /\ UNCHANGED <<lock, call, waits, nodeVars>>
  <2>1. calm /\ ~JobSpawnFails(j)
    BY DEF JobStep, JobStart, JobSpawn, JobSpawnFails, JobTrack, JobTake, JobCancel, JobJoin,
       JobJoined, JobRemove
  <2> QED
    BY <2>1, JobKeeps
<1>2. ~Over(j)
  BY DEF Over, Ended, JobStep, JobStart, JobSpawn, JobSpawnFails, JobTrack, JobTake,
     JobCancel, JobJoin, JobJoined, JobRemove
<1>3. PICK u \in User : call[u] \in Waiting /\ waits[u] = j
  BY <1>1, <1>2 DEF CalmInv
<1>4. lock = u /\ \A v \in User : v # u => call[v] = "idle"
  BY <1>3, OneCall DEF Waiting
<1>5. \A i \in Job : i # j => job'[i] = job[i] /\ Over(i)
  <2>1. \A v \in User : call[v] \in Waiting => v = u
    BY <1>4 DEF Waiting
  <2>2. \A i \in Job : i # j => Over(i)
    BY <1>1, <1>3, <2>1 DEF CalmInv
  <2> QED
    BY <2>2, JobMoves
<1>6. \A i \in Job : Over(i)' \/ \E v \in User : call'[v] \in Waiting /\ waits'[v] = i
  BY <1>1, <1>3, <1>5 DEF Over
<1>7. ASSUME call[u] = "starting"
      PROVE  CallFits(u)'
  <2>1. StartingFits(j)
    BY <1>1, <1>3, <1>7 DEF CalmInv, CallFits
  <2>2. StartingFits(j)'
    BY <1>1, <2>1, StartingStep
  <2> QED
    BY <1>1, <1>3, <1>7, <2>2 DEF CallFits
<1>8. ASSUME call[u] \in {"failing", "stopping", "stopping_only"}
      PROVE  CallFits(u)'
  <2>1. StoppingFits(j)
    BY <1>1, <1>3, <1>8 DEF CalmInv, CallFits
  <2>2. ASSUME job[j].at = "stop", runtime = 0
        PROVE  file = 0
    <3>1. \A i \in Job : job[i].at \notin Stopping
      BY <1>5, <2>2 DEF Over, Ended, Stopping
    <3> QED
      BY <2>2, <3>1 DEF HeldInv, FileHeld
  <2>3. StoppingFits(j)'
    BY <2>1, <2>2, StoppingStep
  <2> QED
    BY <1>1, <1>3, <1>8, <2>3 DEF CallFits
<1>9. \A v \in User : v # u => CallFits(v)'
  BY <1>1, <1>4 DEF CallFits
<1>10. lock' # None
  BY <1>1, <1>4, LifecycleAssumption
<1> QED
  BY <1>3, <1>6, <1>7, <1>8, <1>9, <1>10 DEF CalmInv, Waiting

LEMMA CalmEnds ==
    ASSUME TypeOK, HeldInv, CalmInv,
           \/ \E t \in Thread : ThreadEnds(t)
           \/ \E n \in Session, l \in AllLoops : LoopEnds(n, l)
    PROVE  CalmInv'
<1>1. /\ UNCHANGED <<lock, call, waits, job, calm, started, active, nodeOff, runtime, off, file>>
      /\ Up => \A kind \in {"accept", "discovery"} : Has(kind) => Has(kind)'
      /\ active \in Session /\ active \notin nodeOff => loops'[active] = loops[active]
  <2>1. CASE \E t \in Thread : ThreadEnds(t)
    BY <2>1 DEF ThreadEnds, Up, Has, nodeVars
  <2>2. ASSUME NEW n \in Session, NEW l \in AllLoops, LoopEnds(n, l)
        PROVE  /\ UNCHANGED <<lock, call, waits, job, calm, started, active, nodeOff>>
               /\ UNCHANGED <<runtime, off, file, threads>>
               /\ active \in Session /\ active \notin nodeOff =>
                      loops'[active] = loops[active]
    BY <2>2 DEF LoopEnds, TypeOK, transportVars
  <2> QED
    BY <2>1, <2>2 DEF Has
<1>2. Up' = Up /\ Down' = Down
  BY <1>1 DEF Up, Down
<1>3. ASSUME NEW j, StartingFits(j)
      PROVE  StartingFits(j)'
  BY <1>1, <1>2, <1>3 DEF StartingFits
<1>4. ASSUME NEW u \in User, CallFits(u)
      PROVE  CallFits(u)'
  <2>1. call[u] = "starting" => StartingFits(waits[u])'
    BY <1>1, <1>3, <1>4 DEF CallFits, StartingFits
  <2>2. call[u] \in {"failing", "stopping", "stopping_only"} => StoppingFits(waits[u])'
    BY <1>1, <1>2, <1>4 DEF CallFits, StoppingFits
  <2>3. call[u] = "beacon" => BeaconFits'
    BY <1>1, <1>2, <1>4 DEF CallFits, BeaconFits, HeldInv, LoopsHeld
  <2> QED
    BY <1>1, <1>2, <1>4, <2>1, <2>2, <2>3 DEF CallFits
<1>5. Complete => Complete'
  BY <1>1, LifecycleAssumption DEF Complete, Up, Has, TypeOK, Session
<1>6. \A i \in Job : Over(i)' = Over(i)
  BY <1>1 DEF Over
<1> QED
  BY <1>1, <1>2, <1>4, <1>5, <1>6 DEF CalmInv

LEMMA CalmUser ==
    ASSUME TypeOK, HeldInv, CalmInv, calm', NEW u \in User, UserStep(u)
    PROVE  CalmInv'
<1>0. /\ UNCHANGED <<runtime, threads, off, file>> /\ u # None
      /\ \A v \in User : v # u => call[v] = "idle"
  BY UserKeeps, LifecycleAssumption DEF transportVars, TypeOK, UserStep, CallGoesOn,
     StartRefused, StartLoops, BeaconSent, BeaconFails, FailStopped, FailJoined,
     StopIdleReturns, StopStopped, StopJoined, Start, StopIdle, StopStarted, DropFuture
  \* What the user's call has come to is all that is to be shown.
<1>1. ASSUME NEW place \in Places, call' = [call EXCEPT ![u] = place],
             \A i \in Job : Over(i)' \/ (place \in Waiting /\ i = waits'[u]),
             place # "idle" => lock' = u /\ CallFits(u)',
             place = "idle" => IF started' THEN Complete' ELSE Down'
      PROVE  CalmInv'
  <2>1. call'[u] = place /\ \A v \in User : v # u => call'[v] = "idle"
    BY <1>0, <1>1 DEF TypeOK
  <2>2. \A v \in User : CallFits(v)'
    <3>1. ASSUME NEW v \in User, call'[v] = "idle"
          PROVE  CallFits(v)'
      BY <3>1 DEF CallFits
    <3> QED
      BY <1>1, <2>1, <3>1
  <2> QED
    BY <1>0, <1>1, <2>1, <2>2 DEF CalmInv
<1>2. ASSUME call[u] \in Places \ (Waiting \union {"idle"}), calm
      PROVE  \A i \in Job : Over(i)
  BY <1>0, <1>2 DEF CalmInv, Waiting
<1>3. ASSUME call[u] \in Waiting, calm
      PROVE  CallFits(u) /\ \A i \in Job : i # waits[u] => Over(i)
  BY <1>0, <1>3 DEF CalmInv, Waiting
<1>4. ASSUME NEW what \in {"start", "stop"}, Spawn(u, what), \A i \in Job : Over(i)
      PROVE  /\ waits'[u] \in Job /\ job'[waits'[u]] = [at |-> what]
             /\ \A i \in Job : Over(i)' \/ i = waits'[u]
  BY <1>4, Spawned DEF Over
<1>5. ASSUME Return(u)
      PROVE  "idle" \in Places /\ call' = [call EXCEPT ![u] = "idle"]
  BY <1>5 DEF Return, At, Places
<1>6. ASSUME UNCHANGED job
      PROVE  \A i \in Job : Over(i)' = Over(i)
  BY <1>6 DEF Over
<1>7. CASE StartRefused(u)
  <2>1. call[u] = "starting" /\ job[waits[u]].at = "error" /\ calm
    BY <1>7 DEF StartRefused, Result
  <2> QED
    BY <1>3, <2>1 DEF CallFits, StartingFits, Waiting, Making
<1>8. CASE StopIdleReturns(u)
  <2>1. /\ call[u] = "stopping_only" /\ job[waits[u]].at \in Ended
        /\ Return(u) /\ UNCHANGED <<job, calm, started>>
    BY <1>8 DEF StopIdleReturns, Result, nodeVars
  <2>2. Down /\ \A i \in Job : Over(i)
    BY <1>3, <2>1 DEF CallFits, StoppingFits, Waiting, Ended, Over, Stopping
  <2>3. ~started'
    BY <2>1 DEF HeldInv, LoopsHeld
  <2> QED
    BY <1>0, <1>1, <1>5, <1>6, <2>1, <2>2, <2>3 DEF Down
<1>9. CASE FailJoined(u) \/ StopJoined(u)
  <2>1. /\ call[u] \in {"fail_join", "stop_join"}
        /\ Return(u) /\ UNCHANGED <<job, calm, started>>
    BY <1>9 DEF FailJoined, StopJoined
  <2>2. Down /\ ~started'
    BY <2>1 DEF CalmInv, CallFits, HeldInv, LoopsHeld
  <2>3. \A i \in Job : Over(i)
    BY <1>2, <2>1 DEF Waiting, Places
  <2> QED
    BY <1>0, <1>1, <1>5, <1>6, <2>1, <2>2, <2>3 DEF Down
<1>10. CASE BeaconSent(u)
  <2>1. /\ call[u] = "beacon" /\ Return(u) /\ UNCHANGED <<job, calm, started, active, nodeOff>>
        /\ loops' = [loops EXCEPT ![active] = @ \union {"beacon"}]
    BY <1>10 DEF BeaconSent
  <2>2. started /\ active \in Session /\ BeaconFits
    BY <2>1 DEF CalmInv, CallFits, HeldInv, LoopsHeld
  <2>3. \A i \in Job : Over(i)
    BY <1>2, <2>1 DEF Waiting, Places
  <2>4. loops'[active'] = AllLoops
    BY <2>1, <2>2 DEF BeaconFits, TypeOK, AllLoops
  <2>5. active # 0 /\ runtime # 0
    BY <2>2, LifecycleAssumption DEF BeaconFits, Up, Session
  <2>6. Complete'
    BY <1>0, <2>1, <2>2, <2>4, <2>5 DEF Complete, BeaconFits, Up, Has
  <2> QED
    BY <1>1, <1>5, <1>6, <2>1, <2>2, <2>3, <2>6
<1>11. CASE DropFuture(u)
  BY <1>11 DEF DropFuture
<1>12. CASE StartLoops(u)
  <2>1. /\ call[u] = "starting" /\ job[waits[u]].at = "ok" /\ At(u, "beacon")
        /\ UNCHANGED <<lock, job, calm, nodeOff>>
    BY <1>12 DEF StartLoops, Result
  <2>2. /\ active' \in Session /\ active' \notin nodeOff
        /\ loops' = [loops EXCEPT ![active'] = {"dispatch", "cleanup"}]
    BY <1>12, Zenon DEF StartLoops
  <2>3. Up /\ Has("accept") /\ Has("discovery") /\ \A i \in Job : Over(i)
    BY <1>3, <2>1 DEF CallFits, StartingFits, Waiting, Over, Ended
  <2>4. BeaconFits'
    BY <1>0, <2>1, <2>2, <2>3 DEF BeaconFits, Up, Has, TypeOK
  <2>5. lock' = u /\ call'[u] = "beacon"
    BY <2>1 DEF At, TypeOK
  <2>6. CallFits(u)'
    BY <2>4, <2>5 DEF CallFits
  <2> QED
    BY <1>1, <1>6, <2>1, <2>3, <2>5, <2>6 DEF At, Places
<1>13. CASE FailStopped(u) \/ StopStopped(u)
  <2>1. PICK place \in {"fail_join", "stop_join"} : At(u, place)
    BY <1>13 DEF FailStopped, StopStopped
  <2>2. /\ call[u] \in {"failing", "stopping"} /\ job[waits[u]].at \in Ended
        /\ UNCHANGED <<lock, job, calm>>
    BY <1>13 DEF FailStopped, StopStopped, Result
  <2>3. Down /\ \A i \in Job : Over(i)
    BY <1>3, <2>2 DEF CallFits, StoppingFits, Waiting, Ended, Over, Stopping
  <2>4. lock' = u /\ call'[u] = place
    BY <2>1, <2>2 DEF At, TypeOK
  <2>5. CallFits(u)'
    BY <1>0, <2>3, <2>4 DEF CallFits, Down
  <2> QED
    BY <1>1, <1>6, <2>1, <2>2, <2>3, <2>4, <2>5 DEF At, Places
<1>14. CASE Start(u)
  <2>1. /\ At(u, "starting") /\ Spawn(u, "start") /\ lock' = u /\ calm
        /\ lock = None /\ ~started
    BY <1>14 DEF Start
  <2>2. Down /\ \A i \in Job : Over(i)
    <3>1. \A v \in User : call[v] \notin Waiting
      BY <2>1, LifecycleAssumption DEF TypeOK, Waiting
    <3> QED
      BY <2>1, <3>1 DEF CalmInv
  <2>3. /\ job'[waits'[u]].at = "start"
        /\ \A i \in Job : Over(i)' \/ i = waits'[u]
    BY <1>4, <2>1, <2>2
  <2>4. call'[u] = "starting"
    BY <2>1 DEF At, TypeOK
  <2>5. CallFits(u)'
    BY <1>0, <2>2, <2>3, <2>4 DEF CallFits, StartingFits, Down, Making
  <2> QED
    BY <1>1, <2>1, <2>3, <2>5 DEF At, Places, Waiting
<1>15. CASE StopIdle(u) \/ StopStarted(u) \/ BeaconFails(u)
  <2>1. PICK place \in {"stopping_only", "stopping", "failing"} : At(u, place)
    BY <1>15 DEF StopIdle, StopStarted, BeaconFails
  <2>2. Spawn(u, "stop") /\ lock' = u
    BY <1>15 DEF StopIdle, StopStarted, BeaconFails, TypeOK
  <2>3. \A i \in Job : Over(i)
    <3>1. CASE BeaconFails(u)
      BY <1>2, <3>1 DEF BeaconFails, Waiting, Places
    <3>2. CASE StopIdle(u) \/ StopStarted(u)
      <4>1. lock = None /\ (calm \/ Alone)
        BY <3>2 DEF StopIdle, StopStarted
      <4>2. \A v \in User : call[v] \notin Waiting
        BY <4>1, LifecycleAssumption DEF TypeOK, Waiting
      <4> QED
        BY <4>1, <4>2 DEF CalmInv, Alone, Over
    <3> QED
      BY <1>15, <3>1, <3>2
  <2>4. /\ job'[waits'[u]].at = "stop"
        /\ \A i \in Job : Over(i)' \/ i = waits'[u]
    BY <1>4, <2>2, <2>3
  <2>5. call'[u] = place
    BY <2>1 DEF At, TypeOK
  <2>6. CallFits(u)'
    BY <2>4, <2>5 DEF CallFits, StoppingFits, Stopping
  <2> QED
    BY <1>1, <2>1, <2>2, <2>4, <2>6 DEF At, Places, Waiting
<1> QED
  BY <1>7, <1>8, <1>9, <1>10, <1>11, <1>12, <1>13, <1>14, <1>15 DEF UserStep, CallGoesOn

LEMMA CalmStep ==
    ASSUME TypeOK, HeldInv, CalmInv, [Next]_vars
    PROVE  CalmInv'
<1>1. CASE ~calm'
  BY <1>1 DEF CalmInv
<1>2. CASE UNCHANGED vars
  <2>1. /\ UNCHANGED <<lock, call, waits, job, calm, started, active, loops, nodeOff>>
        /\ UNCHANGED <<runtime, threads, off, file>>
    BY <1>2 DEF vars, nodeVars, transportVars
  <2> QED
    BY <2>1 DEF CalmInv, Over, CallFits, StartingFits, StoppingFits, BeaconFits, Up, Down,
       Has, Complete
<1> QED
  BY <1>1, <1>2, CalmJobs, CalmEnds, CalmUser DEF Next, UserStep

\* Between calls started tells what runs, unless something went wrong since the last
\* stop() that ran alone; and whatever was dropped or failed, no loop and no thread is
\* left running that nobody can stop.
THEOREM LifecycleAlwaysInv == Spec => []LifecycleInv
<1> DEFINE Inv == TypeOK /\ HeldInv /\ CalmInv
<1>1. Init => Inv
  <2> SUFFICES ASSUME Init PROVE Inv
    OBVIOUS
  <2>1. Unused \in Jobs /\ 0 \in 0..MaxSessions /\ 0 \in 0..MaxJobs
    BY MadeJobs, LifecycleAssumption
  <2>2. TypeOK
    BY <2>1, LifecycleAssumption DEF Init, TypeOK, Job, Session
  <2>3. HeldInv
    BY DEF Init, HeldInv, ThreadsHeld, FileHeld, LoopsHeld, Unused, Making, Waiting
  <2>4. CalmInv
    BY LifecycleAssumption DEF Init, CalmInv, Over, CallFits, Down, Unused
  <2> QED
    BY <2>2, <2>3, <2>4
<1>2. Inv /\ [Next]_vars => Inv'
  <2> SUFFICES ASSUME Inv, [Next]_vars PROVE Inv'
    OBVIOUS
  <2>1. BeaconHasLoops
    BY DEF HeldInv, LoopsHeld, BeaconHasLoops
  <2> QED
    BY <2>1, TypeStep, ThreadsStep, FileStep, LoopsStep, CalmStep DEF HeldInv
<1>3. Inv => LifecycleInv
  <2> SUFFICES ASSUME Inv PROVE StartedIsComplete /\ OrphansCancelled
    BY DEF LifecycleInv
  <2>1. OrphansCancelled
    BY DEF OrphansCancelled, HeldInv, ThreadsHeld, LoopsHeld, Held
  <2>2. ASSUME calm, lock = None, ~started
        PROVE  Silent
    <3>1. Down /\ \A j \in Job : Over(j)
      <4>1. \A v \in User : call[v] \notin Waiting
        BY <2>2, LifecycleAssumption DEF TypeOK, Waiting
      <4> QED
        BY <2>2, <4>1 DEF CalmInv
    <3>2. \A j \in Job, s \in Session : job[j] # [at |-> "cancel", of |-> s]
      BY <3>1 DEF Over, Ended
    <3>3. \A t \in threads : t[2] \in off
      <4>1. \A s \in Held : s \in off
        BY <3>1, <3>2, LifecycleAssumption DEF Held, Down, Session
      <4> QED
        BY <4>1 DEF HeldInv, ThreadsHeld
    <3>4. \A n \in Session : loops[n] # {} => n \in nodeOff
      BY <2>2, LifecycleAssumption DEF HeldInv, LoopsHeld, Session
    <3> QED
      BY <3>1, <3>3, <3>4 DEF Silent, Down
  <2>3. StartedIsComplete
    BY <2>2 DEF StartedIsComplete, CalmInv
  <2> QED
    BY <2>1, <2>3
<1> QED
  BY <1>1, <1>2, <1>3, PTL DEF Spec

(***************************************************************************)
(* Typed calls: the shapes of methods and calls.                           *)
(***************************************************************************)
CallRecord ==
    [at : {"checked", "running", "refused", "answered", "dead", "done"},
     ask : C!Asks, field : C!Field \union {None}, by : C!Methods \union {None},
     answer : C!Payload \union {"none", "error"},
     result : {"none"} \union C!Payload \union C!Failure]

CallShapes ==
    /\ method \in C!Methods \union {None}
    /\ known \in C!Field \union {None}
    /\ asked = C!Idle \/ asked \in CallRecord

\* What the stages of a call say of it.
Staged ==
    asked # C!Idle =>
        /\ asked.at = "done" <=> asked.result # "none"
        /\ asked.at = "checked" => asked.answer = "none"
        /\ asked.at \in {"running", "answered", "dead"} => asked.by # None
        /\ asked.at = "running" => asked.answer = "none"
        /\ asked.at = "answered" => asked.answer \in asked.by.gives \union {"error"}
        /\ asked.at = "dead" => asked.answer = "none" /\ ~asked.by.sync
        /\ asked.at = "refused" =>
              \/ asked.answer = "error"
              \/ /\ asked.answer = "none" /\ asked.by # None
                 /\ C!Arriving \notin asked.by.takes

Describes(field, m) == m # None /\ field.schema = m.schema /\ field.derived = m.derived

Validated ==
    /\ asked.field # None
    /\ asked.field.schema = NoSchema \/ asked.ask.payload \notin Json
       \/ asked.ask.payload \in asked.field.schema

\* A description is right until the field is registered anew.
DescribedInv ==
    /\ known # None /\ known.current => Describes(known, method)
    /\ asked # C!Idle =>
        /\ asked.at = "checked" /\ asked.field.current => Describes(asked.field, method)
        /\ asked.at # "checked" /\ asked.by # None /\ asked.field.current =>
              Describes(asked.field, asked.by)
        /\ asked.at # "done" \/ asked.result = "Invalid" => Validated
        /\ asked.at = "done" /\ asked.result = "Invalid" =>
              asked.by # None /\ C!Arriving \notin asked.by.takes

\* What a function or an action with an argument may answer with.
Written == {{Absent}} \union {t.writes : t \in CallType}

LEMMA TypesTyped ==
    /\ \A t \in CallType : /\ t.writes \in SUBSET Json /\ t.reads \in SUBSET Json
                           /\ t.accepts \in SUBSET Json
    /\ \A r \in Written : r \in SUBSET C!Payload
BY TypesAssumption DEF Written, C!Payload

\* The shapes of a method, as its registration made it.
LEMMA MethodShapes ==
    ASSUME NEW m \in C!Methods
    PROVE  \/ \E gv \in Given \union {NoSchema}, s \in BOOLEAN : m = C!Raw(gv, s)
           \/ \E q \in CallType, r \in Written, gv \in Given \union {NoSchema}, s \in BOOLEAN :
                  m = C!Function(q, r, gv, s)
           \/ \E r \in Written, s \in BOOLEAN : m = C!Query(r, s)
BY DEF C!Methods, C!ActionWith, C!Action, Written

LEMMA MethodsTyped == C!Methods \subseteq C!Method
<1> SUFFICES ASSUME NEW m \in C!Methods PROVE m \in C!Method
  OBVIOUS
<1>1. ASSUME NEW gv \in Given \union {NoSchema}, NEW s \in BOOLEAN, m = C!Raw(gv, s)
      PROVE  m \in C!Method
  BY <1>1 DEF C!Raw, C!Method, C!Schema
<1>2. ASSUME NEW q \in CallType, NEW r \in Written,
             NEW gv \in Given \union {NoSchema}, NEW s \in BOOLEAN, m = C!Function(q, r, gv, s)
      PROVE  m \in C!Method
  <2>1. /\ C!Reads(q) \in SUBSET C!Payload /\ C!GivenOr(gv, q) \in C!Schema
        /\ r \in SUBSET C!Payload /\ (gv = NoSchema) \in BOOLEAN
    BY TypesTyped DEF C!Reads, C!GivenOr, C!Schema
  <2> QED
    BY <1>2, <2>1 DEF C!Function, C!Method
<1>3. ASSUME NEW r \in Written, NEW s \in BOOLEAN, m = C!Query(r, s)
      PROVE  m \in C!Method
  BY <1>3, TypesTyped DEF C!Query, C!Method, C!Schema
<1> QED
  BY <1>1, <1>2, <1>3, MethodShapes

LEMMA AsksTyped ==
    /\ C!Asks \subseteq C!Asked
    /\ \A ask \in C!Asks : Absent \in ask.wants
<1> SUFFICES ASSUME NEW ask \in C!Asks PROVE ask \in C!Asked /\ Absent \in ask.wants
  OBVIOUS
<1> USE TypesAssumption DEF C!Asked, C!Payload
<1>1. ASSUME NEW t \in CallType, NEW r \in C!Route, NEW q \in C!Payload,
             ask = [api |-> "call", wants |-> t.reads \union {Absent}, route |-> r, payload |-> q]
      PROVE  ask \in C!Asked /\ Absent \in ask.wants
  <2>1. t.reads \union {Absent} \in SUBSET C!Payload
    BY TypesTyped DEF C!Payload
  <2> QED
    BY <1>1, <2>1
<1>2. ASSUME NEW api \in {"do_action", "call_raw"}, NEW r \in C!Route, NEW q \in C!Payload,
             ask = [api |-> api, wants |-> C!Payload, route |-> r, payload |-> q]
      PROVE  ask \in C!Asked /\ Absent \in ask.wants
  BY <1>2
<1> QED
  BY <1>1, <1>2 DEF C!Asks

\* What the schema of a type accepts and the type does not read.
Misread(m, q) ==
    \E t \in CallType : /\ m.schema = t.accepts /\ m.takes = C!Reads(t)
                        /\ q \in t.accepts \ t.reads

\* A payload that fits the schema that was derived from a method's type, or that need
\* not fit one, is read by the method, whichever way it goes, or is one of those that
\* the schema accepts beyond the type.
LEMMA DerivedFits ==
    ASSUME NEW m \in C!Methods, m.derived, NEW q \in Json,
           m.schema = NoSchema \/ q \in m.schema
    PROVE  (q \in m.takes /\ (q = Null => Absent \in m.takes)) \/ Misread(m, q)
<1> USE TypesAssumption DEF C!Payload
<1>1. ASSUME NEW gv \in Given \union {NoSchema}, NEW s \in BOOLEAN, m = C!Raw(gv, s)
      PROVE  FALSE
  BY <1>1 DEF C!Raw
<1>2. ASSUME NEW t \in CallType, NEW r \in Written,
             NEW gv \in Given \union {NoSchema}, NEW s \in BOOLEAN, m = C!Function(t, r, gv, s)
      PROVE  (q \in m.takes /\ (q = Null => Absent \in m.takes)) \/ Misread(m, q)
  <2>1. m.schema = t.accepts /\ m.takes = C!Reads(t)
    BY <1>2 DEF C!Function, C!GivenOr
  <2>2. q \in t.accepts /\ q # Absent
    BY <2>1
  <2>3. CASE q \in t.reads
    BY <2>1, <2>2, <2>3 DEF C!Reads
  <2>4. CASE q \notin t.reads
    BY <2>1, <2>2, <2>4 DEF Misread
  <2> QED
    BY <2>3, <2>4
<1>3. ASSUME NEW r \in Written, NEW s \in BOOLEAN, m = C!Query(r, s)
      PROVE  q \in m.takes /\ (q = Null => Absent \in m.takes)
  BY <1>3 DEF C!Query
<1> QED
  BY <1>1, <1>2, <1>3, MethodShapes

LEMMA CallsTyped == CallShapes /\ Staged => C!TypeOK
<1> SUFFICES ASSUME CallShapes, Staged PROVE C!TypeOK
  OBVIOUS
<1>1. method \in C!Method \union {None} /\ known \in C!Field \union {None}
  BY MethodsTyped DEF CallShapes
<1>2. ASSUME asked \in CallRecord, asked # C!Idle
      PROVE  /\ asked.ask \in C!Asked
             /\ asked.field \in C!Field \union {None} /\ asked.by \in C!Method \union {None}
             /\ asked.answer \in C!Payload \union {"none", "error"}
             /\ asked.at \in {"checked", "running", "refused", "answered", "dead", "done"}
             /\ asked.result \in {"none"} \union C!Payload \union C!Failure
             /\ asked.at = "done" <=> asked.result # "none"
  BY <1>2, MethodsTyped, AsksTyped DEF CallRecord, Staged
<1>3. ASSUME asked \in CallRecord, asked # C!Idle, asked.at = "answered"
      PROVE  asked.answer # "none"
  <2>1. asked.by \in C!Method /\ asked.answer \in asked.by.gives \union {"error"}
    BY <1>3, MethodsTyped DEF CallRecord, Staged
  <2>2. asked.by.gives \subseteq C!Payload
    BY <2>1 DEF C!Method
  <2> QED
    BY <2>1, <2>2, TypesAssumption DEF C!Payload
<1> QED
  BY <1>1, <1>2, <1>3, Zenon DEF CallShapes, C!TypeOK

\* A registration or a removal of the field, and a beacon that reaches the caller.
LEMMA ChangeKeeps ==
    ASSUME CallShapes, Staged, DescribedInv, C!OutcomeIsTold, C!Change,
           method' \in C!Methods \union {None}
    PROVE  CallShapes' /\ Staged' /\ DescribedInv' /\ C!OutcomeIsTold'
<1>1. /\ known' \in C!Field \union {None}
      /\ known' # None => ~known'.current
  BY DEF CallShapes, C!Change, C!Outdated, C!Field
<1>2. CASE asked = C!Idle
  <2>1. asked' = C!Idle
    BY <1>2 DEF C!Change, C!Idle
  <2>2. asked'.at = "idle"
    BY <2>1 DEF C!Idle
  <2> QED
    BY <1>1, <2>1, <2>2 DEF CallShapes, Staged, DescribedInv, C!OutcomeIsTold
<1>3. CASE asked # C!Idle /\ asked.at # "checked"
  <2>1. asked' = asked
    BY <1>3 DEF C!Change
  <2> QED
    BY <1>1, <1>3, <2>1 DEF CallShapes, Staged, DescribedInv, C!OutcomeIsTold, Validated,
       C!Arriving, C!Carried
<1>4. CASE asked # C!Idle /\ asked.at = "checked"
  <2>1. asked' = [asked EXCEPT !.field = C!Outdated(asked.field)]
    BY <1>4 DEF C!Change
  <2>2. asked \in CallRecord /\ asked.field # None /\ asked.field \in C!Field
    BY <1>4 DEF CallShapes, DescribedInv, Validated, CallRecord
  <2>3. C!Outdated(asked.field) = [asked.field EXCEPT !.current = FALSE]
    BY <2>2 DEF C!Outdated
  <2>4. [asked.field EXCEPT !.current = FALSE] \in C!Field
    BY <2>2 DEF C!Field
  <2>5. asked' \in CallRecord
    BY <2>1, <2>2, <2>3, <2>4 DEF CallRecord
  <2>6. /\ asked'.at = asked.at /\ asked'.ask = asked.ask /\ asked'.by = asked.by
        /\ asked'.answer = asked.answer /\ asked'.result = asked.result
        /\ asked'.field = [asked.field EXCEPT !.current = FALSE]
    BY <2>1, <2>2, <2>3 DEF CallRecord
  <2>7. /\ ~asked'.field.current /\ asked'.field.schema = asked.field.schema
        /\ asked'.field # None
    BY <2>2, <2>4, <2>6, TypesAssumption DEF C!Field
  <2> QED
    BY <1>1, <1>4, <2>5, <2>6, <2>7 DEF CallShapes, Staged, DescribedInv, C!OutcomeIsTold,
       Validated, C!Arriving, C!Carried
<1> QED
  BY <1>2, <1>3, <1>4

LEMMA LearnKeeps ==
    ASSUME CallShapes, Staged, DescribedInv, C!OutcomeIsTold, C!Learn
    PROVE  CallShapes' /\ Staged' /\ DescribedInv' /\ C!OutcomeIsTold'
<1>1. method' = method /\ asked' = asked
  BY DEF C!Learn
<1>2. /\ known' \in C!Field \union {None}
      /\ known' # None => Describes(known', method)
  <2>1. CASE method = None
    BY <2>1 DEF C!Learn
  <2>2. CASE method # None
    <3>1. method \in C!Method
      BY <2>2, MethodsTyped DEF CallShapes
    <3> QED
      BY <2>2, <3>1 DEF C!Learn, C!Method, C!Field, Describes
  <2> QED
    BY <2>1, <2>2
<1> QED
  BY <1>1, <1>2 DEF CallShapes, Staged, DescribedInv, C!OutcomeIsTold, Validated, C!Arriving,
     C!Carried, Describes

LEMMA BeginKeeps ==
    ASSUME CallShapes, Staged, DescribedInv, C!OutcomeIsTold, C!Begin
    PROVE  CallShapes' /\ Staged' /\ DescribedInv' /\ C!OutcomeIsTold'
<1>1. PICK ask \in C!Asks :
          LET refused == known # None /\ known.schema # NoSchema
                         /\ ask.payload \in Json \ known.schema
          IN  asked' = [at |-> IF known = None \/ refused THEN "done" ELSE "checked",
                        ask |-> ask, field |-> known, by |-> None, answer |-> "none",
                        result |-> IF known = None THEN "FieldNotFound"
                                   ELSE IF refused THEN "Validation" ELSE "none"]
  BY Zenon DEF C!Begin
<1>2. UNCHANGED <<method, known>>
  BY DEF C!Begin
<1>3. asked' \in CallRecord /\ asked'.at \in {"done", "checked"}
  BY <1>1 DEF CallRecord, CallShapes, C!Failure
<1>4. /\ asked'.by = None /\ asked'.answer = "none" /\ asked'.field = known
      /\ asked'.result \in {"FieldNotFound", "Validation", "none"}
      /\ asked'.at = "done" <=> asked'.result # "none"
  BY <1>1
<1>5. asked'.at = "checked" => Validated'
  BY <1>1 DEF Validated
<1>6. Staged'
  BY <1>3, <1>4 DEF Staged
<1>7. DescribedInv'
  <2>1. known' # None /\ known'.current => Describes(known', method')
    BY <1>2 DEF DescribedInv, Describes
  <2>2. asked'.at = "checked" /\ asked'.field.current => Describes(asked'.field, method')
    BY <1>2, <1>4, <1>5, <2>1 DEF Validated, Describes
  <2>3. asked'.at = "done" => asked'.result # "Invalid"
    BY <1>4
  <2> QED
    BY <1>3, <1>4, <1>5, <2>1, <2>2, <2>3 DEF DescribedInv
<1>8. C!OutcomeIsTold'
  BY <1>4, TypesAssumption DEF C!OutcomeIsTold, C!Payload, C!Failure
<1> QED
  BY <1>2, <1>3, <1>6, <1>7, <1>8 DEF CallShapes

LEMMA ServeKeeps ==
    ASSUME CallShapes, Staged, DescribedInv, C!OutcomeIsTold, C!Serve
    PROVE  CallShapes' /\ Staged' /\ DescribedInv' /\ C!OutcomeIsTold'
<1>1. /\ UNCHANGED <<method, known>> /\ asked.at = "checked" /\ asked # C!Idle
      /\ asked \in CallRecord /\ asked.answer = "none"
  BY DEF C!Serve, CallShapes, Staged, C!Idle
<1>2. /\ asked' \in CallRecord /\ asked'.ask = asked.ask /\ asked'.field = asked.field
      /\ asked'.result = asked.result /\ asked'.at \in {"running", "refused"}
      /\ \/ method = None /\ asked'.at = "refused" /\ asked'.answer = "error"
            /\ asked'.by = asked.by
         \/ /\ method # None /\ asked'.by = method /\ asked'.answer = "none"
            /\ asked'.at = "refused" => C!Arriving \notin method.takes
  <2>1. CASE method = None
    <3>1. asked' = [asked EXCEPT !.at = "refused", !.answer = "error"]
      BY <2>1 DEF C!Serve
    <3> QED
      BY <1>1, <2>1, <3>1 DEF CallRecord
  <2>2. CASE method # None
    <3>1. asked' = [asked EXCEPT !.by = method,
                                 !.at = IF C!Arriving \in method.takes
                                        THEN "running" ELSE "refused"]
      BY <2>2 DEF C!Serve
    <3>2. method \in C!Methods
      BY <2>2 DEF CallShapes
    <3> QED
      BY <1>1, <2>2, <3>1, <3>2 DEF CallRecord
  <2> QED
    BY <2>1, <2>2
<1>3. C!Arriving' = C!Arriving
  BY <1>2 DEF C!Arriving, C!Carried
<1>4. Staged'
  BY <1>1, <1>2, <1>3 DEF Staged
<1>5. DescribedInv'
  BY <1>1, <1>2, <1>3 DEF DescribedInv, Describes, Validated
<1>6. C!OutcomeIsTold'
  BY <1>2 DEF C!OutcomeIsTold
<1> QED
  BY <1>1, <1>2, <1>4, <1>5, <1>6 DEF CallShapes

\* The rest of a call: what is asked, and what its caller knew, stays as it is.
LEMMA AnswerKeeps ==
    ASSUME CallShapes, Staged, DescribedInv, C!OutcomeIsTold, C!Answer \/ C!Panic
    PROVE  CallShapes' /\ Staged' /\ DescribedInv' /\ C!OutcomeIsTold'
<1>1. /\ UNCHANGED <<method, known>> /\ asked.at = "running" /\ asked # C!Idle
      /\ asked \in CallRecord /\ asked.answer = "none" /\ asked.by # None
      /\ asked.by \in C!Method
  <2>1. UNCHANGED <<method, known>> /\ asked.at = "running"
    BY Zenon DEF C!Answer, C!Panic
  <2>2. asked # C!Idle
    BY <2>1 DEF C!Idle
  <2> QED
    BY <2>1, <2>2, MethodsTyped DEF CallShapes, Staged, CallRecord
<1>2. /\ asked' \in CallRecord /\ asked'.ask = asked.ask /\ asked'.field = asked.field
      /\ asked'.result = asked.result /\ asked'.by = asked.by
      /\ \/ asked'.at = "answered" /\ asked'.answer \in asked.by.gives \union {"error"}
         \/ asked'.at = "dead" /\ asked'.answer = "none" /\ ~asked.by.sync
  <2>1. CASE C!Answer
    <3>1. PICK ans \in asked.by.gives \union {"error"} :
              asked' = [asked EXCEPT !.at = "answered", !.answer = ans]
      BY <2>1 DEF C!Answer
    <3>2. ans \in C!Payload \union {"none", "error"}
      BY <1>1 DEF C!Method
    <3> QED
      BY <1>1, <3>1, <3>2 DEF CallRecord
  <2>2. CASE C!Panic
    BY <1>1, <2>2 DEF C!Panic, CallRecord
  <2> QED
    BY <2>1, <2>2
<1>3. Staged'
  BY <1>1, <1>2 DEF Staged
<1>4. DescribedInv'
  BY <1>1, <1>2 DEF DescribedInv, Describes, Validated
<1>5. C!OutcomeIsTold'
  BY <1>2 DEF C!OutcomeIsTold
<1> QED
  BY <1>1, <1>2, <1>3, <1>4, <1>5 DEF CallShapes

LEMMA ReturnKeeps ==
    ASSUME CallShapes, Staged, DescribedInv, C!OutcomeIsTold, C!ReplyArrives \/ C!GiveUp
    PROVE  CallShapes' /\ Staged' /\ DescribedInv' /\ C!OutcomeIsTold'
<1>1. /\ UNCHANGED <<method, known>> /\ asked.at \in {"refused", "answered", "dead"}
      /\ asked # C!Idle /\ asked \in CallRecord
  BY DEF C!ReplyArrives, C!GiveUp, CallShapes, C!Idle
<1>2. /\ asked.by # None => asked.by \in C!Method
      /\ asked.at = "answered" => asked.by # None /\ asked.answer \in asked.by.gives \union {"error"}
      /\ asked.by # None => asked.by.gives \subseteq C!Payload
      /\ Absent \in asked.ask.wants
  BY <1>1, MethodsTyped, AsksTyped DEF CallRecord, Staged, C!Method
<1>3. PICK result \in C!Payload \union C!Failure :
          /\ C!Return(result)
          /\ \/ asked.answer = "error" /\ result = "Remote"
             \/ asked.at = "refused" /\ asked.answer # "error" /\ result = "Invalid"
             \/ /\ asked.at = "answered" /\ asked.answer # "error"
                /\ \/ asked.ask.api = "do_action" /\ result = Absent
                   \/ /\ result = C!Carried(asked.answer) /\ result \in C!Payload
                      /\ result \in asked.ask.wants
                   \/ /\ C!Carried(asked.answer) \notin asked.ask.wants
                      /\ result = "TypedJson"
             \/ asked.at = "dead" /\ result = "Timeout"
  <2>1. {Absent, C!Carried(asked.answer)} \subseteq C!Payload \/ asked.at # "answered"
        \/ asked.answer = "error"
    BY <1>2 DEF C!Carried, C!Payload
  <2>2. CASE C!ReplyArrives
    BY <2>1, <2>2, Zenon DEF C!ReplyArrives, C!Failure
  <2>3. CASE C!GiveUp
    BY <2>3 DEF C!GiveUp, C!Failure
  <2> QED
    BY <2>2, <2>3
<1>4. /\ asked' \in CallRecord /\ asked'.ask = asked.ask /\ asked'.field = asked.field
      /\ asked'.by = asked.by /\ asked'.answer = asked.answer
      /\ asked'.at = "done" /\ asked'.result = result
  BY <1>1, <1>3 DEF C!Return, CallRecord
<1>5. /\ result # "none" /\ (result \in C!Payload => result \notin C!Failure)
      /\ Absent \in C!Payload
      /\ {"Remote", "Invalid", "TypedJson", "Timeout"} \subseteq C!Failure
  BY TypesAssumption DEF C!Payload, C!Failure
<1>6. C!Arriving' = C!Arriving
  BY <1>4 DEF C!Arriving, C!Carried
<1>7. Staged'
  BY <1>4, <1>5 DEF Staged
<1>8. DescribedInv'
  <2>1. result = "Invalid" => asked.at = "refused" /\ asked.answer # "error"
    BY <1>3, <1>5
  <2> QED
    BY <1>1, <1>4, <1>6, <2>1 DEF DescribedInv, Describes, Validated, Staged
<1>9. C!OutcomeIsTold'
  <2>1. result \in C!Payload =>
            /\ asked.by # None /\ asked.answer \in asked.by.gives
            /\ asked.ask.api = "do_action" \/ C!AsNull(result) = C!AsNull(asked.answer)
    BY <1>2, <1>3, <1>5 DEF C!Failure, C!AsNull, C!Carried
  <2>2. asked.answer = "error" => result = "Remote"
    BY <1>1, <1>3 DEF Staged
  <2>3. result = "TypedJson" => asked.answer \in asked.by.gives \ asked.ask.wants
    <3>1. SUFFICES ASSUME result = "TypedJson"
                   PROVE  asked.answer \in asked.by.gives \ asked.ask.wants
      OBVIOUS
    <3>2. asked.at = "answered" /\ asked.answer # "error"
          /\ C!Carried(asked.answer) \notin asked.ask.wants
      BY <1>3, <1>5, <3>1
    <3> QED
      BY <1>2, <3>2 DEF C!Carried
  <2>4. result = "Timeout" => ~asked.by.sync
    <3>1. result = "Timeout" => asked.at = "dead"
      BY <1>3, <1>5
    <3> QED
      BY <1>1, <3>1 DEF Staged
  <2> QED
    BY <1>4, <2>1, <2>2, <2>3, <2>4 DEF C!OutcomeIsTold, C!AsNull
<1> QED
  BY <1>1, <1>4, <1>7, <1>8, <1>9 DEF CallShapes

\* What a typed call returns is what became of it where it was served; and what passed
\* the caller's validation fits the method, as long as that was not registered anew and
\* the schema of its type accepts no more than the type reads.
THEOREM TypedCallsAlwaysInv == C!Spec => []TypedCallsInv
<1> DEFINE Inv == CallShapes /\ Staged /\ DescribedInv /\ C!OutcomeIsTold
<1>1. C!Init => Inv
  <2> SUFFICES ASSUME C!Init PROVE Inv
    OBVIOUS
  <2>1. asked.at = "idle" /\ known = None
    BY DEF C!Init, C!Idle
  <2> QED
    BY <2>1 DEF C!Init, CallShapes, Staged, DescribedInv, C!OutcomeIsTold
<1>2. Inv /\ [C!Next]_(C!vars) => Inv'
  <2> SUFFICES ASSUME Inv, [C!Next]_(C!vars) PROVE Inv'
    OBVIOUS
  <2>1. CASE C!Register \/ C!Remove
    BY <2>1, ChangeKeeps DEF C!Register, C!Remove
  <2>2. CASE UNCHANGED C!vars
    BY <2>2 DEF C!vars, CallShapes, Staged, DescribedInv, C!OutcomeIsTold, Describes,
       Validated, C!Arriving, C!Carried
  <2> QED
    BY <2>1, <2>2, LearnKeeps, BeginKeeps, ServeKeeps, AnswerKeeps, ReturnKeeps DEF C!Next
<1>3. Inv => TypedCallsInv
  <2> SUFFICES ASSUME Inv PROVE C!CheckedRequestsFit
    BY CallsTyped DEF TypedCallsInv
  <2>1. SUFFICES ASSUME asked.at = "done", asked.result = "Invalid", asked.field.current,
                        asked.field.derived, asked.ask.payload # Absent
                 PROVE  /\ asked.field.schema = asked.by.schema
                        /\ Misread(asked.by, asked.ask.payload)
    BY DEF C!CheckedRequestsFit, Misread
  <2>2. asked # C!Idle /\ asked \in CallRecord
    BY <2>1 DEF CallShapes, C!Idle
  <2>3. /\ Describes(asked.field, asked.by) /\ Validated
        /\ asked.by # None /\ C!Arriving \notin asked.by.takes
    BY <2>1, <2>2 DEF DescribedInv
  <2>4. asked.by \in C!Methods /\ asked.ask.payload \in Json
    BY <2>1, <2>2, <2>3, AsksTyped DEF CallRecord, C!Asked, C!Payload
  <2>5. \/ /\ asked.ask.payload \in asked.by.takes
           /\ asked.ask.payload = Null => Absent \in asked.by.takes
        \/ Misread(asked.by, asked.ask.payload)
    BY <2>1, <2>3, <2>4, DerivedFits DEF Describes, Validated
  <2> QED
    BY <2>3, <2>5 DEF C!Arriving, C!Carried, Describes
<1> QED
  BY <1>1, <1>2, <1>3, PTL DEF C!Spec

(***************************************************************************)
(* Typed events: what was checked is what is registered until that         *)
(* changes, and an outcome is what its handler makes of the event at hand. *)
(***************************************************************************)
EventRecord ==
    [of : {e \in E!Emission : e.api = "emit" => e.arg \in EventWrites[e.type]},
     at : {"checked", "failed", "sent"}, current : BOOLEAN]

\* What a handler that reads `by' gets at n.
Gets(n, by) ==
    LET arg == E!Carried(n, event.of.arg)
    IN  IF by = "raw" THEN arg ELSE E!Read(by, arg)

EmissionsInv ==
    /\ registered \in EventType \union {Signal, None}
    /\ emitting \in BOOLEAN
    /\ event = E!Idle \/ event \in EventRecord
    /\ handler \in [E!Receiver -> EventType \union {"raw", None}]
    /\ outcome \in [E!Receiver -> E!Outcome \union {None}]
    /\ \A n \in E!Receiver : outcome[n] # None =>
            event \in EventRecord /\ event.at = "sent"
            /\ outcome[n].got = Gets(n, outcome[n].by)

LEMMA EmissionFields ==
    ASSUME NEW e \in E!Emission
    PROVE  /\ e.arg \in E!Payload
           /\ e.api = "emit" => e.type \in EventType /\ e.arg \in Json
           /\ e.api # "emit" => e.type \in {Signal, None}
<1>1. CASE e \in [api : {"emit"}, type : EventType, arg : Json]
  BY <1>1 DEF E!Payload
<1>2. CASE e \in [api : {"emit_signal"}, type : {Signal}, arg : {Absent}]
  BY <1>2 DEF E!Payload
<1>3. CASE e \in [api : {"emit_raw"}, type : {None}, arg : E!Payload]
  BY <1>3
<1> QED
  BY <1>1, <1>2, <1>3 DEF E!Emission

LEMMA HandlingFits ==
    ASSUME EmissionsInv, event \in EventRecord, NEW n \in E!Receiver, handler[n] # None
    PROVE  /\ E!Handling(n) \in E!Outcome
           /\ E!Handling(n).got = Gets(n, E!Handling(n).by)
<1>1. handler[n] \in EventType \union {"raw"}
  BY DEF EmissionsInv
<1>2. event.of.arg \in E!Payload
  BY EmissionFields DEF EventRecord
<1>3. E!Carried(n, event.of.arg) \in E!Payload
  BY <1>2 DEF E!Carried, E!Payload
<1>4. \A t, q : q \in E!Payload => E!Read(t, q) \in E!Payload \union {"refused"}
  BY TypesAssumption DEF E!Read, E!Payload
<1>5. Gets(n, handler[n]) \in E!Payload \union {"refused"}
  BY <1>3, <1>4 DEF Gets
<1>6. E!Handling(n) = [by |-> handler[n], got |-> Gets(n, handler[n])]
  BY DEF E!Handling, Gets
<1> QED
  BY <1>1, <1>5, <1>6 DEF E!Outcome

\* Null and nothing are read alike, so that it does not matter where.
LEMMA ReadAlike ==
    ASSUME NEW t, NEW n, NEW m, NEW q
    PROVE  E!Read(t, E!Carried(n, q)) = E!Read(t, E!Carried(m, q))
BY DEF E!Read, E!Carried

LEMMA EmissionsStep ==
    ASSUME EmissionsInv, E!SentAsRegistered, [E!Next]_(E!vars)
    PROVE  EmissionsInv' /\ E!SentAsRegistered'
<1> USE DEF EmissionsInv
<1>0. event # E!Idle <=> event \in EventRecord
  BY DEF EventRecord, E!Idle
<1>1. CASE E!Change /\ registered' \in EventType \union {Signal, None}
  <2>1. CASE event.at = "checked"
    <3>1. event \in EventRecord
      BY <2>1 DEF E!Idle
    <3>2. event' = [event EXCEPT !.current = FALSE]
      BY <1>1, <2>1 DEF E!Change
    <3>3. event' \in EventRecord /\ ~event'.current
      BY <3>1, <3>2 DEF EventRecord
    <3>4. \A n \in E!Receiver : outcome[n] = None
      BY <2>1
    <3> QED
      BY <1>1, <3>3, <3>4 DEF E!Change, E!SentAsRegistered
  <2>2. CASE event.at # "checked"
    <3>1. event' = event
      BY <1>1, <2>2 DEF E!Change
    <3> QED
      BY <1>1, <2>2, <3>1 DEF E!Change, E!SentAsRegistered, Gets, E!Carried
  <2> QED
    BY <2>1, <2>2
<1>2. CASE UNCHANGED <<registered, event, outcome>> /\ emitting' \in BOOLEAN
           /\ handler' \in [E!Receiver -> EventType \union {"raw", None}]
  BY <1>2 DEF E!SentAsRegistered, Gets, E!Carried
<1>3. ASSUME NEW e \in E!Emission, E!Emit(e)
      PROVE  EmissionsInv' /\ E!SentAsRegistered'
  <2>1. /\ event' = [of |-> e, at |-> IF E!Check(e) THEN "checked" ELSE "failed", current |-> TRUE]
        /\ outcome' = [n \in E!Receiver |-> None]
        /\ UNCHANGED <<registered, emitting, handler>>
        /\ e.api = "emit" => e.arg \in EventWrites[e.type]
    BY <1>3 DEF E!Emit
  <2>2. event' \in EventRecord
    BY <2>1 DEF EventRecord
  <2>3. E!SentAsRegistered'
    BY <2>1 DEF E!SentAsRegistered, E!Check
  <2> QED
    BY <2>1, <2>2, <2>3
<1>4. CASE E!EmitRaw
  <2>1. /\ event.at = "checked" /\ UNCHANGED <<registered, emitting, handler, outcome>>
        /\ event' = [event EXCEPT !.at = IF emitting THEN "sent" ELSE "failed"]
    BY <1>4 DEF E!EmitRaw
  <2>2. event \in EventRecord
    BY <2>1 DEF E!Idle
  <2>3. event' \in EventRecord /\ event'.at \in {"sent", "failed"}
    BY <2>1, <2>2 DEF EventRecord
  <2>4. \A n \in E!Receiver : outcome[n] = None
    BY <2>1
  <2> QED
    BY <2>1, <2>3, <2>4 DEF E!SentAsRegistered
<1>5. ASSUME NEW n \in E!Receiver, E!Handle(n)
      PROVE  EmissionsInv' /\ E!SentAsRegistered'
  <2>1. /\ event.at = "sent" /\ handler[n] # None
        /\ outcome' = [outcome EXCEPT ![n] = E!Handling(n)]
        /\ UNCHANGED <<registered, emitting, event, handler>>
    BY <1>5 DEF E!Handle
  <2>2. event \in EventRecord
    BY <2>1 DEF E!Idle
  <2>3. /\ outcome'[n] \in E!Outcome /\ outcome'[n].got = Gets(n, outcome'[n].by)
        /\ \A m \in E!Receiver : m # n => outcome'[m] = outcome[m]
    BY <2>1, <2>2, HandlingFits
  <2>4. outcome' \in [E!Receiver -> E!Outcome \union {None}]
    BY <2>1, <2>3
  <2>5. ASSUME NEW m \in E!Receiver, outcome'[m] # None
        PROVE  outcome'[m].got = Gets(m, outcome[m].by)'
    BY <2>1, <2>3, <2>5 DEF Gets, E!Carried
  <2> QED
    BY <2>1, <2>2, <2>4, <2>5 DEF E!SentAsRegistered
<1>6. CASE UNCHANGED E!vars
  BY <1>2, <1>6 DEF E!vars
<1>7. ASSUME NEW t \in EventType \union {Signal}, E!RegisterEvent(t)
      PROVE  EmissionsInv' /\ E!SentAsRegistered'
  BY <1>1, <1>7 DEF E!RegisterEvent
<1>8. CASE E!RemoveField
  BY <1>1, <1>8 DEF E!RemoveField
<1>9. CASE E!StartOrStop
  BY <1>2, <1>9 DEF E!StartOrStop
<1>10. ASSUME NEW n \in E!Receiver, NEW reads \in EventType \union {"raw", None}, E!OnEvent(n, reads)
       PROVE  EmissionsInv' /\ E!SentAsRegistered'
  BY <1>2, <1>10 DEF E!OnEvent
<1> QED
  BY <1>3, <1>4, <1>5, <1>6, <1>7, <1>8, <1>9, <1>10 DEF E!Next

\* Handlers of one type make the same of an event at both ends, those of the type that
\* was emitted get what was emitted, and what is sent is of the type registered.
THEOREM TypedEventsAlwaysInv == E!Spec => []TypedEventsInv
<1> DEFINE Inv == EmissionsInv /\ E!SentAsRegistered
<1>1. E!Init => Inv
  <2> SUFFICES ASSUME E!Init PROVE Inv
    OBVIOUS
  <2>1. event.at = "idle" /\ \A n \in E!Receiver : outcome[n] = None
    BY DEF E!Init, E!Idle
  <2> QED
    BY <2>1 DEF E!Init, EmissionsInv, E!SentAsRegistered
<1>2. Inv /\ [E!Next]_(E!vars) => Inv'
  BY EmissionsStep
<1>3. Inv => TypedEventsInv
  <2> SUFFICES ASSUME Inv PROVE TypedEventsInv
    OBVIOUS
  <2>1. E!TypeOK
    BY DEF E!TypeOK, EmissionsInv, EventRecord
  <2>2. ASSUME NEW n \in E!Receiver, NEW m \in E!Receiver,
               outcome[n] # None, outcome[n].by \in EventType
        PROVE  /\ outcome[n].by = event.of.type /\ event.of.arg \in EventReads[event.of.type] =>
                      outcome[n].got = event.of.arg
               /\ outcome[m] # None /\ outcome[m].by = outcome[n].by =>
                      outcome[m].got = outcome[n].got
    <3> DEFINE t == outcome[n].by
    <3>1. event \in EventRecord /\ t # "raw" /\ t \notin {Signal, None}
      BY <2>2, TypesAssumption DEF EmissionsInv
    <3>2. outcome[n].got = E!Read(t, E!Carried(n, event.of.arg))
      BY <2>2, <3>1 DEF EmissionsInv, Gets
    <3>3. outcome[m] # None /\ outcome[m].by = t =>
              outcome[m].got = E!Read(t, E!Carried(m, event.of.arg))
      BY <3>1 DEF EmissionsInv, Gets
    <3>4. ASSUME t = event.of.type, event.of.arg \in EventReads[event.of.type]
          PROVE  outcome[n].got = event.of.arg
      <4>1. /\ event.of \in E!Emission
            /\ event.of.api = "emit" => event.of.arg \in EventWrites[event.of.type]
        BY <3>1 DEF EventRecord
      <4>2. event.of.arg \in Json /\ event.of.arg \in EventWrites[t]
        BY <3>1, <3>4, <4>1, EmissionFields
      <4>3. event.of.arg # Absent
        BY <4>2, TypesAssumption
      <4> DEFINE c == E!Carried(n, event.of.arg)
      <4>4. (IF c = Absent THEN Null ELSE c) = event.of.arg
        BY <4>3 DEF E!Carried
      <4>5. outcome[n].got = E!Read(t, c)
        BY <3>2
      <4>6. event.of.arg \in EventReads[t]
        BY <3>4
      <4> HIDE DEF c
      <4> QED
        BY <4>4, <4>5, <4>6 DEF E!Read
    <3> QED
      BY <3>2, <3>3, <3>4, ReadAlike
  <2> QED
    BY <2>1, <2>2 DEF TypedEventsInv, E!HandlersAgree
<1> QED
  BY <1>1, <1>2, <1>3, PTL DEF E!Spec
=============================================================================
