--------------------------- MODULE DispatchProofs ---------------------------
(***************************************************************************)
(* Theorems about what a node's dispatch loops hand out: QueryServer, for  *)
(* any queries, clients and permits, and Events, which MCQueryServer       *)
(* instantiates as E, for any handlers, sessions and capacity.             *)
(***************************************************************************)
EXTENDS MCQueryServer, FiniteSetTheorems, TLAPS

USE OwnerAssumption, FiniteAssumption, MaxAssumption, EventsAssumption

Shapes ==
    /\ life \in {"down", "up", "stopping"}
    /\ registered \in BOOLEAN
    /\ at \in [Query -> Places]
    /\ reply \in [Query -> Replies]
    /\ cancelled \in SUBSET Query
    /\ patient \in BOOLEAN

\* The permits are never counted below zero or above MaxHandlers, because those
\* that are out are held by somebody.
PermitInv == Shapes /\ permits \in Int /\ permits >= 0 /\ PermitsConserved

LEMMA HoldingFinite == IsFiniteSet(Holding) /\ Cardinality(Holding) \in Nat
<1>1. Holding \in SUBSET Query
  BY DEF Holding
<1> QED
  BY <1>1, FS_Subset, FS_CardinalityType

LEMMA InvIsTyped == PermitInv => TypeOK
BY HoldingFinite DEF PermitInv, Shapes, TypeOK, PermitsConserved

\* The steps by what they do to the permits and their holders.
Keeping(q) ==
    \/ Ask(q) \/ Lose(q) \/ Dispatch(q) \/ Refuse(q) \/ FindHandler(q) \/ SendReply(q)

Releasing(q) == FindNone(q) \/ HandlerReturns(q) \/ HandlerPanics(q)

NodeStep == Start \/ StopBegin \/ StopEnds \/ RegistryChanges

LEMMA StepShapes == Shapes /\ [Next]_vars => Shapes'
<1> SUFFICES ASSUME Shapes, [Next]_vars PROVE Shapes'
  OBVIOUS
<1> USE DEF Shapes, Places, Replies, Go, Answer
<1>1. CASE NodeStep \/ UNCHANGED vars
  BY <1>1 DEF NodeStep, Start, StopBegin, StopEnds, RegistryChanges, Tasks, vars
<1>2. ASSUME NEW q \in Query, Ask(q) \/ Lose(q) \/ Dispatch(q) \/ Acquire(q)
      PROVE  Shapes'
  BY <1>2 DEF Ask, Lose, Dispatch, Acquire
<1>3. ASSUME NEW q \in Query, Refuse(q) \/ FindHandler(q) \/ SendReply(q)
      PROVE  Shapes'
  BY <1>3 DEF Refuse, FindHandler, SendReply
<1>4. ASSUME NEW q \in Query, Releasing(q)
      PROVE  Shapes'
  BY <1>4 DEF Releasing, FindNone, HandlerReturns, HandlerPanics
<1> QED
  BY <1>1, <1>2, <1>3, <1>4 DEF Next, NodeStep, Releasing

LEMMA StepPermits == PermitInv /\ [Next]_vars => PermitInv'
<1> SUFFICES ASSUME PermitInv, [Next]_vars
             PROVE  permits' \in Int /\ permits' >= 0 /\ PermitsConserved'
  BY StepShapes DEF PermitInv
<1>0. Shapes /\ Shapes'
  BY StepShapes DEF PermitInv
<1>1. CASE permits' = permits /\ Holding' = Holding
  BY <1>1 DEF PermitInv, PermitsConserved
<1>2. CASE NodeStep \/ UNCHANGED vars
  BY <1>1, <1>2 DEF NodeStep, Start, StopBegin, StopEnds, RegistryChanges, vars, Holding
<1>3. ASSUME NEW q \in Query, Keeping(q)
      PROVE  permits' = permits /\ Holding' = Holding
  BY <1>0, <1>3 DEF Keeping, Ask, Lose, Dispatch, Refuse, FindHandler, SendReply, Go, Answer,
     Holding, Holds, Shapes
<1>4. ASSUME NEW q \in Query, Acquire(q)
      PROVE  permits' \in Int /\ permits' >= 0 /\ PermitsConserved'
  <2>1. Holding' = Holding \union {q} /\ q \notin Holding
    BY <1>0, <1>4 DEF Acquire, Go, Holding, Holds, Shapes
  <2>2. Cardinality(Holding') = Cardinality(Holding) + 1
    BY <2>1, HoldingFinite, FS_AddElement
  <2> QED
    BY <1>4, <2>2, HoldingFinite DEF Acquire, PermitInv, PermitsConserved
<1>5. ASSUME NEW q \in Query, Releasing(q)
      PROVE  permits' \in Int /\ permits' >= 0 /\ PermitsConserved'
  <2>1. Holding' = Holding \ {q} /\ q \in Holding
    BY <1>0, <1>5 DEF Releasing, FindNone, HandlerReturns, HandlerPanics, Go, Answer,
       Holding, Holds, Shapes
  <2>2. Cardinality(Holding') = Cardinality(Holding) - 1
    BY <2>1, HoldingFinite, FS_RemoveElement
  <2>3. permits' = permits + 1
    BY <1>5 DEF Releasing, FindNone, HandlerReturns, HandlerPanics
  <2> QED
    BY <2>2, <2>3, HoldingFinite DEF PermitInv, PermitsConserved
<1> QED
  BY <1>1, <1>2, <1>3, <1>4, <1>5 DEF Next, NodeStep, Keeping, Releasing

LEMMA PermitsAlways == Spec => []PermitInv
<1>1. Init => PermitInv
  <2> SUFFICES ASSUME Init PROVE PermitInv
    OBVIOUS
  <2>1. Holding = {}
    BY DEF Init, Holding, Holds
  <2> QED
    BY <2>1, FS_EmptySet DEF Init, PermitInv, Shapes, PermitsConserved, Places, Replies
<1> QED
  BY <1>1, StepPermits, PTL DEF Spec

\* The types; no permit is given out that is not there, or given back twice.
THEOREM TypeCorrect == Spec => []TypeOK
<1> QED
  BY PermitsAlways, InvIsTyped, PTL

\* The permits out are exactly those of the running tasks.
THEOREM AlwaysConserved == Spec => []PermitsConserved
<1>1. PermitInv => PermitsConserved
  BY DEF PermitInv
<1> QED
  BY <1>1, PermitsAlways, PTL

(***************************************************************************)
(* Cancellation.                                                           *)
(***************************************************************************)
\* Once stop() has begun the tasks are cancelled, those dispatched since too.
TasksCancelled == Shapes /\ (life # "up" => Tasks \subseteq cancelled)

LEMMA StepCancelled == TasksCancelled /\ [Next]_vars => TasksCancelled'
<1> SUFFICES ASSUME TasksCancelled, [Next]_vars
             PROVE  (life # "up" => Tasks \subseteq cancelled)'
  BY StepShapes DEF TasksCancelled
<1> USE DEF TasksCancelled, Tasks, Shapes, Go, Answer
<1>1. CASE NodeStep \/ UNCHANGED vars
  BY <1>1 DEF NodeStep, Start, StopBegin, StopEnds, RegistryChanges, vars
<1>2. ASSUME NEW q \in Query, Keeping(q)
      PROVE  (life # "up" => Tasks \subseteq cancelled)'
  BY <1>2 DEF Keeping, Ask, Lose, Dispatch, Refuse, FindHandler, SendReply
<1>3. ASSUME NEW q \in Query, Acquire(q) \/ Releasing(q)
      PROVE  (life # "up" => Tasks \subseteq cancelled)'
  BY <1>3 DEF Acquire, Releasing, FindNone, HandlerReturns, HandlerPanics
<1> QED
  BY <1>1, <1>2, <1>3 DEF Next, NodeStep, Keeping, Releasing

\* A handler that outlives its session has been told.
THEOREM OutlivingAlwaysCancelled == Spec => []OutlivingIsCancelled
<1>1. Init => TasksCancelled
  BY DEF Init, TasksCancelled, Shapes, Tasks, Places, Replies
<1>2. TasksCancelled => OutlivingIsCancelled
  BY DEF TasksCancelled, OutlivingIsCancelled
<1> QED
  BY <1>1, <1>2, StepCancelled, PTL DEF Spec

(***************************************************************************)
(* Few patient clients.  Each has one query under way, so that if one were *)
(* refused the holders of all permits are queries of other clients: there  *)
(* would be more clients than permits.                                     *)
(***************************************************************************)
UnderWay(q) == at[q] \notin {"new", "over"}

OneEach ==
    \A q, r \in Query : UnderWay(q) /\ UnderWay(r) /\ Owner[q] = Owner[r] => q = r

Few == patient /\ Cardinality(Client) <= MaxHandlers

PatientOneEach == patient => OneEach

FewInv == PermitInv /\ PatientOneEach /\ FewAreServed

\* A step of a query under way, or of the node, leaves the clients' patience.
LEMMA StepOneEach == Shapes /\ PatientOneEach /\ [Next]_vars => PatientOneEach'
<1> SUFFICES ASSUME Shapes, PatientOneEach, [Next]_vars, patient' PROVE OneEach'
  BY DEF PatientOneEach
<1> USE DEF OneEach, UnderWay, Shapes, Go, Answer
<1>1. CASE NodeStep \/ UNCHANGED vars
  BY <1>1 DEF PatientOneEach, NodeStep, Start, StopBegin, StopEnds, RegistryChanges, vars
<1>2. ASSUME NEW q \in Query, Ask(q)
      PROVE  OneEach'
  <2>1. patient /\ OneEach
    BY <1>2 DEF Ask, PatientOneEach
  <2>2. \A other \in Query \ {q} : Owner[other] = Owner[q] => at[other] \in {"new", "over"}
    BY <1>2 DEF Ask
  <2> QED
    BY <1>2, <2>1, <2>2 DEF Ask
<1>3. ASSUME NEW q \in Query, OneEach, at[q] \notin {"new", "over"},
             \A r \in Query : r # q => at'[r] = at[r]
      PROVE  OneEach'
  BY <1>3
<1>4. ASSUME NEW q \in Query, Keeping(q) \/ Acquire(q) \/ Releasing(q), ~Ask(q)
      PROVE  OneEach'
  <2>1. at[q] \notin {"new", "over"} /\ \A r \in Query : r # q => at'[r] = at[r]
    BY <1>4 DEF Keeping, Lose, Dispatch, Refuse, FindHandler, SendReply, Acquire,
       Releasing, FindNone, HandlerReturns, HandlerPanics
  <2>2. patient' = patient
    BY <1>4 DEF Keeping, Lose, Dispatch, Refuse, FindHandler, SendReply, Acquire,
       Releasing, FindNone, HandlerReturns, HandlerPanics
  <2> QED
    BY <1>3, <2>1, <2>2 DEF PatientOneEach
<1> QED
  BY <1>1, <1>2, <1>4 DEF Next, NodeStep, Keeping, Releasing

LEMMA NoRefusal ==
    ASSUME Few, PermitInv, OneEach, NEW q \in Query, Refuse(q)
    PROVE  FALSE
<1> DEFINE under == Holding \union {q}
           owner == [r \in under |-> Owner[r]]
<1>1. q \notin Holding /\ permits = 0 /\ Holding \subseteq Query
  BY DEF Refuse, Holding, Holds
<1>2. IsFiniteSet(under) /\ Cardinality(under) = MaxHandlers + 1
  BY <1>1, HoldingFinite, FS_AddElement DEF PermitInv, PermitsConserved
<1>3. Cardinality(Client) < Cardinality(under)
  BY <1>2, FS_CardinalityType DEF Few
<1>4. owner \in [under -> Client]
  BY <1>1
<1>5. PICK r, s \in under : r # s /\ owner[r] = owner[s]
  <2> HIDE DEF owner, under
  <2> QED
    BY <1>2, <1>3, <1>4, FS_PigeonHole
<1>6. UnderWay(r) /\ UnderWay(s) /\ r \in Query /\ s \in Query
  BY <1>1 DEF UnderWay, Refuse, Holding, Holds
<1> QED
  BY <1>5, <1>6 DEF OneEach

\* As long as no more clients than permits wait for their replies, nobody is refused.
THEOREM FewAlwaysServed == Spec => []FewAreServed
<1>1. Init => FewInv
  <2> SUFFICES ASSUME Init PROVE FewInv
    OBVIOUS
  <2>1. Holding = {}
    BY DEF Init, Holding, Holds
  <2>2. PermitInv
    BY <2>1, FS_EmptySet DEF Init, PermitInv, Shapes, PermitsConserved, Places, Replies
  <2> QED
    BY <2>2 DEF Init, FewInv, PatientOneEach, OneEach, UnderWay, FewAreServed
<1>2. FewInv /\ [Next]_vars => FewInv'
  <2> SUFFICES ASSUME FewInv, [Next]_vars, Few' PROVE \A q \in Query : reply'[q] # "busy"
    BY StepPermits, StepOneEach DEF FewInv, PermitInv, FewAreServed, Few
  <2>0. patient
    BY DEF FewInv, PermitInv, Shapes, Few, Next, vars, Start, StopBegin, StopEnds,
       RegistryChanges, Ask, Lose, Dispatch, Acquire, Refuse, FindHandler, FindNone,
       HandlerReturns, HandlerPanics, SendReply
  <2>1. \A q \in Query : ~Refuse(q)
    BY <2>0, NoRefusal DEF FewInv, Few, PatientOneEach
  <2>2. \A q \in Query : reply'[q] = "busy" => reply[q] = "busy"
    BY <2>1 DEF Next, vars, Start, StopBegin, StopEnds, RegistryChanges, Ask, Lose,
       Dispatch, Acquire, FindHandler, FindNone, HandlerReturns, HandlerPanics, SendReply,
       Answer, FewInv, PermitInv, Shapes
  <2> QED
    BY <2>0, <2>2 DEF FewInv, FewAreServed, Few
<1>3. FewInv => FewAreServed
  BY DEF FewInv
<1> QED
  BY <1>1, <1>2, <1>3, PTL DEF Spec

-----------------------------------------------------------------------------
(***************************************************************************)
(* Events: types.  Only the loop of the present session runs uncancelled.  *)
(***************************************************************************)
EventShapes ==
    /\ sent \in 0..MaxEvents /\ running \in BOOLEAN
    /\ session \in 0..MaxSessions /\ stopping \in BOOLEAN /\ dropped \in BOOLEAN
    /\ cursor \in [E!Session -> 1..MaxEvents + 1]
    /\ loop \in [E!Session -> {"none", "runs", "cancelled", "ended"}]
    /\ table \in Handler \union {None}
    /\ removed \in [Handler -> {None} \union 0..MaxEvents]
    /\ task \in SUBSET E!Task /\ ran \in SUBSET E!Task

OneRuns == \A s \in E!Session : loop[s] = "runs" => s = session /\ running

\* Those steps that only the dispatch loops and their tasks do not make.
UserStep ==
    \/ E!Send \/ E!RemoveEventHandler \/ \E h \in Handler : E!OnEvent(h)
    \/ E!Start \/ E!StopBegin \/ E!StopJoin \/ E!StopDropped

USE DEF E!Session, E!Event, E!channelVars, E!nodeVars, E!tableVars

LEMMA StepEventShapes == EventShapes /\ [E!Next]_(E!vars) => EventShapes'
<1> SUFFICES ASSUME EventShapes, [E!Next]_(E!vars) PROVE EventShapes'
  OBVIOUS
<1> USE DEF EventShapes
<1>1. CASE UNCHANGED E!vars
  BY <1>1 DEF E!vars
<1>2. CASE E!Send \/ E!Start \/ E!StopBegin \/ E!StopJoin \/ E!StopDropped
  <2>1. CASE E!Send
    <3>1. sent' \in 0..MaxEvents
      BY <2>1 DEF E!Send
    <3> QED
      BY <2>1, <3>1, Zenon DEF E!Send
  <2>4. CASE E!StopJoin \/ E!StopDropped
    BY <2>4 DEF E!StopJoin, E!StopDropped
  <2>3. CASE E!StopBegin
    BY <2>3 DEF E!StopBegin
  <2>2. CASE E!Start
    <3>1. session + 1 \in E!Session /\ sent + 1 \in 1..MaxEvents + 1
      BY <2>2 DEF E!Start
    <3> QED
      BY <2>2, <3>1 DEF E!Start
  <2> QED
    BY <1>2, <2>1, <2>2, <2>3, <2>4
<1>3. CASE E!RemoveEventHandler \/ \E h \in Handler : E!OnEvent(h)
  BY <1>3 DEF E!RemoveEventHandler, E!OnEvent
<1>4. ASSUME NEW s \in E!Session, E!Dispatch(s)
      PROVE  EventShapes'
  <2>1. cursor[s] \in 1..MaxEvents + 1 /\ cursor[s] <= sent
    BY <1>4 DEF E!Dispatch
  <2>2. cursor[s] \in 1..MaxEvents /\ cursor[s] + 1 \in 1..MaxEvents + 1
    BY <2>1
  <2>3. table # None => <<cursor[s], table, s>> \in E!Task
    BY <2>2 DEF E!Task
  <2> QED
    BY <1>4, <2>2, <2>3 DEF E!Dispatch
<1>5. ASSUME NEW s \in E!Session, E!Lag(s)
      PROVE  EventShapes'
  <2>1. cursor[s] \in 1..MaxEvents + 1 /\ sent - cursor[s] >= Capacity
    BY <1>5 DEF E!Lag
  <2>2. sent - Capacity + 1 \in 1..MaxEvents + 1
    BY <2>1
  <2> QED
    BY <1>5, <2>2 DEF E!Lag
<1>6. ASSUME NEW s \in E!Session, E!LoopEnds(s)
      PROVE  EventShapes'
  BY <1>6 DEF E!LoopEnds
<1>7. ASSUME NEW t \in E!Task, E!Run(t)
      PROVE  EventShapes'
  BY <1>7 DEF E!Run
<1> QED
  BY <1>1, <1>2, <1>3, <1>4, <1>5, <1>6, <1>7 DEF E!Next, E!LoopStep

LEMMA StepOneRuns == EventShapes /\ OneRuns /\ [E!Next]_(E!vars) => OneRuns'
<1> SUFFICES ASSUME EventShapes, OneRuns, [E!Next]_(E!vars) PROVE OneRuns'
  OBVIOUS
<1> USE DEF EventShapes, OneRuns
<1>1. CASE UNCHANGED <<loop, session, running>>
  BY <1>1
<1>2. CASE E!Start \/ E!StopBegin
  BY <1>2 DEF E!Start, E!StopBegin
<1>3. ASSUME NEW s \in E!Session, E!LoopEnds(s)
      PROVE  OneRuns'
  BY <1>3 DEF E!LoopEnds
<1> QED
  BY <1>1, <1>2, <1>3 DEF E!Next, E!vars, E!Send, E!RemoveEventHandler, E!OnEvent,
     E!StopJoin, E!StopDropped, E!LoopStep, E!Dispatch, E!Lag, E!Run

\* The instance's Cardinality is that of FiniteSets.
LEMMA SameCardinality == \A S : E!Cardinality(S) = Cardinality(S)
BY DEF E!Cardinality, Cardinality

LEMMA EventsTyped == EventShapes /\ OneRuns => E!TypeOK
<1> SUFFICES ASSUME EventShapes, OneRuns PROVE E!TypeOK
  OBVIOUS
<1>1. {s \in E!Session : loop[s] = "runs"} \in SUBSET {session}
  BY DEF OneRuns
<1>2. IsFiniteSet({session}) /\ Cardinality({session}) = 1
  BY FS_Singleton
<1>3. E!Cardinality({s \in E!Session : loop[s] = "runs"}) <= 1
  BY <1>1, <1>2, FS_Subset, SameCardinality
<1> HIDE DEF E!Session
<1> QED
  BY <1>3, Zenon DEF EventShapes, E!TypeOK

(***************************************************************************)
(* A handler that was taken out.                                           *)
(***************************************************************************)
Handed == ran \union task

\* The handler in the table has not been taken out since it was put there, and
\* what was handed out had been sent.
QuietInv ==
    /\ table # None => removed[table] = None
    /\ \A t \in Handed : t[1] <= sent
    /\ E!RemovedIsQuiet

\* What a step hands out is the event at the cursor of a loop that is not over.
LEMMA StepHanded ==
    ASSUME EventShapes, [E!Next]_(E!vars)
    PROVE  \/ Handed' = Handed
           \/ \E s \in E!Session :
                 /\ E!Dispatch(s) /\ table # None
                 /\ Handed' = Handed \union {<<cursor[s], table, s>>}
<1>1. CASE UNCHANGED <<ran, task>>
  BY <1>1 DEF Handed
<1>2. ASSUME NEW t \in E!Task, E!Run(t)
      PROVE  Handed' = Handed
  BY <1>2 DEF E!Run, Handed
<1>3. ASSUME NEW s \in E!Session, E!Dispatch(s), table # None
      PROVE  Handed' = Handed \union {<<cursor[s], table, s>>}
  BY <1>3 DEF E!Dispatch, Handed
<1>4. ASSUME NEW s \in E!Session, E!Dispatch(s), table = None
      PROVE  Handed' = Handed
  BY <1>4 DEF E!Dispatch, Handed
<1> QED
  BY <1>1, <1>2, <1>3, <1>4 DEF E!Next, E!vars, E!Send, E!RemoveEventHandler, E!OnEvent,
     E!Start, E!StopBegin, E!StopJoin, E!StopDropped, E!LoopStep, E!Lag, E!LoopEnds

LEMMA HandedTyped ==
    ASSUME EventShapes
    PROVE  \A t \in Handed : /\ t \in E!Task
                             /\ t[1] \in Nat /\ t[2] \in Handler /\ t[3] \in E!Session
                             /\ t = <<t[1], t[2], t[3]>>
BY DEF EventShapes, Handed, E!Task

LEMMA StepQuiet == EventShapes /\ QuietInv /\ [E!Next]_(E!vars) => QuietInv'
<1> SUFFICES ASSUME EventShapes, QuietInv, [E!Next]_(E!vars) PROVE QuietInv'
  OBVIOUS
<1> USE DEF QuietInv, E!RemovedIsQuiet
<1>0. /\ sent \in Nat /\ sent' \in Nat /\ sent <= sent'
      /\ \A t \in Handed : t[1] \in Nat /\ t[2] \in Handler
  <2>1. EventShapes'
    BY StepEventShapes
  <2>2. sent' = sent \/ sent' = sent + 1
    BY DEF E!Next, E!vars, E!Send, E!RemoveEventHandler, E!OnEvent, E!Start, E!StopBegin,
       E!StopJoin, E!StopDropped, E!LoopStep, E!Dispatch, E!Lag, E!LoopEnds, E!Run
  <2> QED
    BY <2>1, <2>2, HandedTyped DEF EventShapes
<1>1. CASE Handed' = Handed /\ UNCHANGED <<table, removed>>
  BY <1>0, <1>1 DEF Handed
<1>2. ASSUME NEW h \in Handler, E!OnEvent(h)
      PROVE  QuietInv'
  <2>1. Handed' = Handed /\ sent' = sent /\ table' = h
    BY <1>2 DEF E!OnEvent, Handed
  <2>2. \A k \in Handler : removed'[k] = IF k = h THEN None
                                         ELSE IF k = table THEN sent ELSE removed[k]
    BY <1>2 DEF E!OnEvent
  <2> QED
    BY <1>0, <2>1, <2>2 DEF Handed
<1>3. CASE E!RemoveEventHandler
  <2>1. Handed' = Handed /\ sent' = sent /\ table' = None
    BY <1>3 DEF E!RemoveEventHandler, Handed
  <2>2. \A k \in Handler : removed'[k] = IF k = table THEN sent ELSE removed[k]
    BY <1>3 DEF E!RemoveEventHandler, EventShapes
  <2> QED
    BY <1>0, <2>1, <2>2 DEF Handed
<1>4. ASSUME NEW s \in E!Session, E!Dispatch(s), table # None,
             Handed' = Handed \union {<<cursor[s], table, s>>}
      PROVE  QuietInv'
  BY <1>0, <1>4 DEF E!Dispatch, Handed
<1>5. UNCHANGED <<table, removed>> \/ E!RemoveEventHandler \/ \E h \in Handler : E!OnEvent(h)
  BY DEF E!Next, E!vars, E!Send, E!Start, E!StopBegin, E!StopJoin, E!StopDropped,
     E!LoopStep, E!Dispatch, E!Lag, E!LoopEnds, E!Run
<1> QED
  BY <1>1, <1>2, <1>3, <1>4, <1>5, StepHanded

(***************************************************************************)
(* No event twice.  As long as no stop() was dropped, a loop that is not   *)
(* over is that of the present session, and all that was handed out lies   *)
(* before its cursor.                                                      *)
(***************************************************************************)
OneLoop ==
    ~dropped => \A s \in E!Session :
        loop[s] \in {"runs", "cancelled"} => s = session /\ (running \/ stopping)

BehindCursor ==
    ~dropped => \A t \in Handed : session \in E!Session /\ t[1] < cursor[session]

OnceInv == OneLoop /\ BehindCursor /\ E!HandledOnce

LEMMA StepOneLoop ==
    EventShapes /\ OneLoop /\ [E!Next]_(E!vars) => OneLoop'
<1> SUFFICES ASSUME EventShapes, OneLoop, [E!Next]_(E!vars) PROVE OneLoop'
  OBVIOUS
<1> USE DEF EventShapes, OneLoop
<1>1. CASE UNCHANGED <<loop, session, running, stopping, dropped>>
  BY <1>1
<1>2. CASE E!Start \/ E!StopBegin
  BY <1>2 DEF E!Start, E!StopBegin
<1>3. CASE E!StopJoin \/ E!StopDropped
  BY <1>3 DEF E!StopJoin, E!StopDropped
<1>4. ASSUME NEW s \in E!Session, E!LoopEnds(s)
      PROVE  OneLoop'
  BY <1>4 DEF E!LoopEnds
<1> QED
  BY <1>1, <1>2, <1>3, <1>4 DEF E!Next, E!vars, E!Send, E!RemoveEventHandler, E!OnEvent,
     E!LoopStep, E!Dispatch, E!Lag, E!Run

LEMMA StepOnce ==
    EventShapes /\ QuietInv /\ OnceInv /\ [E!Next]_(E!vars) => OnceInv'
<1> SUFFICES ASSUME EventShapes, QuietInv, OnceInv, [E!Next]_(E!vars), ~dropped'
             PROVE  /\ \A t \in Handed' : session' \in E!Session /\ t[1] < cursor'[session']
                    /\ \A t, u \in Handed' : t[1] = u[1] => t = u
  BY StepOneLoop DEF OnceInv, BehindCursor, E!HandledOnce, Handed
<1>0. /\ ~dropped
      /\ \A t \in Handed : session \in E!Session /\ t[1] < cursor[session]
      /\ \A t, u \in Handed : t[1] = u[1] => t = u
      /\ \A t \in Handed : t[1] \in Nat /\ t[1] <= sent
  <2>1. ~dropped
    BY DEF E!Next, E!vars, E!Send, E!RemoveEventHandler, E!OnEvent, E!Start, E!StopBegin,
       E!StopJoin, E!StopDropped, E!LoopStep, E!Dispatch, E!Lag, E!LoopEnds, E!Run
  <2> QED
    BY <2>1, HandedTyped DEF OnceInv, BehindCursor, E!HandledOnce, QuietInv, Handed
<1> USE DEF EventShapes
<1>1. CASE Handed' = Handed /\ UNCHANGED <<cursor, session>>
  BY <1>0, <1>1
<1>2. CASE E!Start
  <2>1. Handed' = Handed /\ session' = session + 1 /\ cursor'[session + 1] = sent + 1
        /\ session + 1 \in E!Session
    BY <1>2 DEF E!Start, Handed
  <2> QED
    BY <1>0, <2>1
<1>3. ASSUME NEW s \in E!Session, E!Dispatch(s)
      PROVE  s = session /\ session' = session /\ cursor'[session] = cursor[session] + 1
  BY <1>0, <1>3 DEF E!Dispatch, OnceInv, OneLoop
<1>4. ASSUME NEW s \in E!Session, E!Lag(s)
      PROVE  /\ Handed' = Handed /\ session' = session /\ s = session
             /\ cursor'[session] \in Nat /\ cursor'[session] > cursor[session]
  BY <1>0, <1>4 DEF E!Lag, Handed, OnceInv, OneLoop
<1>5. ASSUME NEW s \in E!Session, E!Dispatch(s), Handed' = Handed
      PROVE  /\ \A t \in Handed' : session' \in E!Session /\ t[1] < cursor'[session']
             /\ \A t, u \in Handed' : t[1] = u[1] => t = u
  BY <1>0, <1>3, <1>5
<1>6. ASSUME NEW s \in E!Session, E!Dispatch(s),
             Handed' = Handed \union {<<cursor[s], table, s>>}
      PROVE  /\ \A t \in Handed' : session' \in E!Session /\ t[1] < cursor'[session']
             /\ \A t, u \in Handed' : t[1] = u[1] => t = u
  <2> DEFINE new == <<cursor[s], table, s>>
  <2>1. s = session /\ session' = session /\ cursor'[session] = cursor[session] + 1
    BY <1>3, <1>6
  <2>2. new[1] = cursor[session] /\ cursor[session] \in Nat
    BY <2>1
  <2>3. \A t \in Handed : t[1] # new[1] /\ t[1] < cursor[session]
    BY <1>0, <2>2
  <2>4. \A t \in Handed' : t \in Handed \/ t = new
    BY <1>6
  <2> HIDE DEF new
  <2>5. ASSUME NEW t \in Handed'
        PROVE  session' \in E!Session /\ t[1] < cursor'[session']
    BY <1>0, <2>1, <2>2, <2>3, <2>4
  <2>6. ASSUME NEW t \in Handed', NEW u \in Handed', t[1] = u[1]
        PROVE  t = u
    BY <1>0, <2>3, <2>4, <2>6
  <2> QED
    BY <2>5, <2>6
<1>7. ASSUME NEW s \in E!Session, E!Lag(s)
      PROVE  /\ \A t \in Handed' : session' \in E!Session /\ t[1] < cursor'[session']
             /\ \A t, u \in Handed' : t[1] = u[1] => t = u
  BY <1>0, <1>4, <1>7
<1>8. \/ UNCHANGED <<cursor, session>> \/ E!Start
      \/ \E s \in E!Session : E!Lag(s) \/ E!Dispatch(s)
  BY DEF E!Next, E!vars, E!Send, E!RemoveEventHandler, E!OnEvent, E!StopBegin, E!StopJoin,
     E!StopDropped, E!LoopStep, E!LoopEnds, E!Run
<1> QED
  BY <1>1, <1>2, <1>5, <1>6, <1>7, <1>8, StepHanded

\* No event is handled twice as long as every stop() was awaited, and a handler
\* that was taken out handles nothing sent later, however late its tasks run.
THEOREM EventsAlwaysInv == E!Spec => []EventsInv
<1> DEFINE Inv == EventShapes /\ OneRuns /\ QuietInv /\ OnceInv
<1>1. E!Init => Inv
  <2> SUFFICES ASSUME E!Init PROVE Inv
    OBVIOUS
  <2>1. Handed = {}
    BY DEF E!Init, Handed
  <2>2. cursor \in [E!Session -> 1..MaxEvents + 1]
    BY DEF E!Init
  <2>3. loop \in [E!Session -> {"none", "runs", "cancelled", "ended"}]
    BY DEF E!Init
  <2>4. removed \in [Handler -> {None} \union 0..MaxEvents]
    BY DEF E!Init
  <2>5. sent \in 0..MaxEvents /\ session \in 0..MaxSessions
    BY EventsAssumption DEF E!Init
  <2>6. /\ running \in BOOLEAN /\ stopping \in BOOLEAN /\ dropped \in BOOLEAN
        /\ table \in Handler \union {None}
        /\ task \in SUBSET E!Task /\ ran \in SUBSET E!Task
    BY DEF E!Init
  <2>7. EventShapes
    BY <2>2, <2>3, <2>4, <2>5, <2>6, Zenon DEF EventShapes
  <2> QED
    BY <2>1, <2>7 DEF E!Init, OneRuns, QuietInv, OnceInv, OneLoop, BehindCursor, Handed,
       E!RemovedIsQuiet, E!HandledOnce
<1>2. Inv /\ [E!Next]_(E!vars) => Inv'
  BY StepEventShapes, StepOneRuns, StepQuiet, StepOnce
<1>3. Inv => EventsInv
  BY EventsTyped DEF EventsInv, QuietInv, OnceInv
<1> QED
  BY <1>1, <1>2, <1>3, PTL DEF E!Spec
=============================================================================
