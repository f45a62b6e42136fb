---------------------------- MODULE BeaconsProofs ----------------------------
(***************************************************************************)
(* Theorems about Beacons, for any threads, fields and peers.              *)
(***************************************************************************)
EXTENDS Beacons, TLAPS

USE NoneAssumption, TicksAssumption, TooLongAssumption

(***************************************************************************)
(* What the control points of a thread carry.                              *)
(***************************************************************************)
LEMMA OpTypes ==
    ASSUME TypeOK, NEW t \in Thread
    PROVE  /\ op[t].at \in {"own", "insert"} =>
                  /\ op[t].kind \in Kind /\ op[t].field \in Field
                  /\ op[t] \in [at : {"own", "insert"}, kind : Kind, field : Field]
           /\ op[t].at \in {"remove_method", "remove_event"} => op[t].field \in Field
           /\ op[t].at = "remove_event" => op[t].found \in BOOLEAN
           /\ op[t].at \in {"idle", "own", "insert", "remove_method", "remove_event",
                            "mark"}
<1>1. op[t] \in Midway \union {Idle}
  BY DEF TypeOK
<1>2. CASE op[t] \in [at : {"own", "insert"}, kind : Kind, field : Field]
  BY <1>2
<1>3. CASE op[t] \in [at : {"remove_method"}, field : Field]
  BY <1>3
<1>4. CASE op[t] \in [at : {"remove_event"}, field : Field, found : BOOLEAN]
  BY <1>4
<1>5. CASE op[t] = [at |-> "mark"] \/ op[t] = Idle
  BY <1>5 DEF Idle
<1> QED
  BY <1>1, <1>2, <1>3, <1>4, <1>5 DEF Midway

\* From the second check on the thread only moves on to the insertion.
LEMMA CheckedOp ==
    ASSUME TypeOK, NEW t \in Thread, op[t].at = "own"
    PROVE  LET next == [op[t] EXCEPT !.at = "insert"] IN
           /\ next \in Midway
           /\ next.at = "insert" /\ next.kind = op[t].kind /\ next.field = op[t].field
<1>1. op[t] \in [at : {"own", "insert"}, kind : Kind, field : Field]
  BY OpTypes
<1> QED
  BY <1>1 DEF Midway

LEMMA PutFacts ==
    ASSUME TypeOK, NEW k \in Kind, NEW f \in Field, NEW x \in Thread \union {None},
           Put(k, f, x)
    PROVE  /\ registry' \in [Kind -> [Field -> Thread \union {None}]]
           /\ \A k2 \in Kind, f2 \in Field :
                  registry'[k2][f2] = IF k2 = k /\ f2 = f THEN x ELSE registry[k2][f2]
BY DEF Put, TypeOK

\* A registration notes who else was registering the id; a removal forgets it.
LEMMA PutRivals ==
    ASSUME TypeOK, NEW k \in Kind, NEW f \in Field, NEW x \in Thread \union {None},
           Put(k, f, x)
    PROVE  /\ rivals' \in [Kind -> [Field -> SUBSET Thread]]
           /\ \A k2 \in Kind, f2 \in Field :
                  ~(k2 = k /\ f2 = f) => rivals'[k2][f2] = rivals[k2][f2]
           /\ x # None => \A u \in Thread \ {x} : Registering(u, f) => u \in rivals'[k][f]
<1> DEFINE new == IF x = None THEN {} ELSE {u \in Thread \ {x} : Registering(u, f)}
<1>1. /\ new \in SUBSET Thread
      /\ x # None => \A u \in Thread \ {x} : Registering(u, f) => u \in new
  OBVIOUS
<1>2. rivals' = [rivals EXCEPT ![k][f] = new]
  BY DEF Put
<1>3. rivals \in [Kind -> [Field -> SUBSET Thread]]
  BY DEF TypeOK
<1> HIDE DEF new
<1> QED
  BY <1>1, <1>2, <1>3

LEMMA DoFacts ==
    ASSUME TypeOK, NEW t \in Thread, NEW step \in Midway \union {Idle}, Do(t, step)
    PROVE  /\ op' \in [Thread -> Midway \union {Idle}]
           /\ op'[t] = step
           /\ \A u \in Thread : u # t => op'[u] = op[u]
BY DEF Do, TypeOK

\* Each of a thread's steps, as what it does to its control and the registry.
Checking(t) ==
    /\ UNCHANGED fieldVars /\ unseen' = unseen
    /\ \/ /\ op[t] = Idle
          /\ op'[t].at = "own" /\ op'[t].kind \in Kind /\ op'[t].field \in Field
          /\ registry[Other(op'[t].kind)][op'[t].field] = None
       \/ /\ op[t].at = "own" /\ op'[t].at = "insert"
          /\ op'[t].kind = op[t].kind /\ op'[t].field = op[t].field
          /\ registry[op[t].kind][op[t].field] = None
       \/ op[t].at \in {"idle", "own"} /\ op'[t].at \in {"idle", "mark", "remove_method"}

Inserting(t) ==
    /\ op[t].at = "insert" /\ op'[t].at = "mark" /\ Writable(op[t].kind)
    /\ Put(op[t].kind, op[t].field, t)
    /\ unseen' = unseen

Removing(t) ==
    \E k \in Kind :
        /\ op[t].at \in {"remove_method", "remove_event"} /\ Writable(k)
        /\ Put(k, op[t].field, None)
        /\ unseen' = unseen
        /\ registry[k][op[t].field] # None \/ (op[t].at = "remove_event" /\ op[t].found) =>
               op'[t].at = "mark" \/ (op'[t].at = "remove_event" /\ op'[t].found)
        /\ op'[t].at \in {"idle", "mark", "remove_event"}

LEMMA ThreadSteps ==
    ASSUME TypeOK, NEW t \in Thread, ThreadStep(t)
    PROVE  /\ op' \in [Thread -> Midway \union {Idle}]
           /\ \A u \in Thread : u # t => op'[u] = op[u]
           /\ UNCHANGED loopVars
           /\ \/ Checking(t) /\ missed' = missed
              \/ Inserting(t) /\ missed' = missed
              \/ Removing(t) /\ missed' = missed
              \/ Mark(t) /\ op'[t].at = "idle"
<1>1. ASSUME NEW k \in Kind, NEW f \in Field, CheckOther(t, k, f)
      PROVE  /\ op' \in [Thread -> Midway \union {Idle}]
             /\ \A u \in Thread : u # t => op'[u] = op[u]
             /\ Checking(t)
  <2>1. [at |-> "own", kind |-> k, field |-> f] \in Midway
    BY DEF Midway
  <2>2. /\ op' \in [Thread -> Midway \union {Idle}]
        /\ op'[t] = [at |-> "own", kind |-> k, field |-> f]
        /\ \A u \in Thread : u # t => op'[u] = op[u]
    BY <1>1, <2>1, DoFacts DEF CheckOther
  <2> QED
    BY <1>1, <2>2 DEF CheckOther, Checking
<1>2. ASSUME CheckOwn(t)
      PROVE  /\ op' \in [Thread -> Midway \union {Idle}]
             /\ \A u \in Thread : u # t => op'[u] = op[u]
             /\ Checking(t)
  <2>1. CASE registry[op[t].kind][op[t].field] = None
    <3>1. [op[t] EXCEPT !.at = "insert"] \in Midway \union {Idle}
      BY <1>2, CheckedOp DEF CheckOwn
    <3>2. /\ op' \in [Thread -> Midway \union {Idle}]
          /\ op'[t] = [op[t] EXCEPT !.at = "insert"]
          /\ \A u \in Thread : u # t => op'[u] = op[u]
      BY <1>2, <2>1, <3>1, DoFacts DEF CheckOwn
    <3> QED
      BY <1>2, <2>1, <3>2, CheckedOp DEF CheckOwn, Checking
  <2>2. CASE registry[op[t].kind][op[t].field] # None
    BY <1>2, <2>2, DoFacts DEF CheckOwn, Checking, Idle
  <2> QED
    BY <2>1, <2>2
<1>3. ASSUME NEW f \in Field, RemoveBegin(t, f)
      PROVE  /\ op' \in [Thread -> Midway \union {Idle}]
             /\ \A u \in Thread : u # t => op'[u] = op[u]
             /\ Checking(t)
  <2>1. [at |-> "remove_method", field |-> f] \in Midway
    BY DEF Midway
  <2> QED
    BY <1>3, <2>1, DoFacts DEF RemoveBegin, Checking, Idle
<1>4. ASSUME Refresh(t)
      PROVE  /\ op' \in [Thread -> Midway \union {Idle}]
             /\ \A u \in Thread : u # t => op'[u] = op[u]
             /\ Checking(t)
  <2>1. [at |-> "mark"] \in Midway
    BY DEF Midway
  <2> QED
    BY <1>4, <2>1, DoFacts DEF Refresh, Checking, Idle
<1>5. ASSUME Insert(t)
      PROVE  /\ op' \in [Thread -> Midway \union {Idle}]
             /\ \A u \in Thread : u # t => op'[u] = op[u]
             /\ Inserting(t)
  <2>1. [at |-> "mark"] \in Midway
    BY DEF Midway
  <2> QED
    BY <1>5, <2>1, DoFacts DEF Insert, Inserting
<1>6. ASSUME RemoveMethod(t)
      PROVE  /\ op' \in [Thread -> Midway \union {Idle}]
             /\ \A u \in Thread : u # t => op'[u] = op[u]
             /\ Removing(t)
  <2> DEFINE there == registry["method"][op[t].field] # None
             next == [at |-> "remove_event", field |-> op[t].field, found |-> there]
  <2>0. there \in BOOLEAN
    OBVIOUS
  <2>1. next \in Midway
    BY <1>6, <2>0, OpTypes DEF RemoveMethod, Midway
  <2>2. op' \in [Thread -> Midway \union {Idle}] /\ op'[t] = next
        /\ \A u \in Thread : u # t => op'[u] = op[u]
    BY <1>6, <2>1, DoFacts DEF RemoveMethod
  <2>3. op'[t].at = "remove_event" /\ op'[t].found = there
    <3> HIDE DEF there
    <3> QED
      BY <2>2
  <2> QED
    BY <1>6, <2>2, <2>3 DEF RemoveMethod, Removing, Kind
<1>7. ASSUME RemoveEvent(t)
      PROVE  /\ op' \in [Thread -> Midway \union {Idle}]
             /\ \A u \in Thread : u # t => op'[u] = op[u]
             /\ Removing(t)
  <2> DEFINE next == IF op[t].found \/ registry["event"][op[t].field] # None
                     THEN [at |-> "mark"] ELSE Idle
  <2>1. next \in Midway \union {Idle}
    BY DEF Midway
  <2>2. op' \in [Thread -> Midway \union {Idle}] /\ op'[t] = next
        /\ \A u \in Thread : u # t => op'[u] = op[u]
    BY <1>7, <2>1, DoFacts DEF RemoveEvent
  <2>3. op'[t].at \in {"idle", "mark"}
        /\ (op[t].found \/ registry["event"][op[t].field] # None => op'[t].at = "mark")
    BY <2>2 DEF Idle
  <2> QED
    BY <1>7, <2>2, <2>3 DEF RemoveEvent, Removing, Kind, Writable
<1>8. ASSUME Mark(t)
      PROVE  /\ op' \in [Thread -> Midway \union {Idle}]
             /\ \A u \in Thread : u # t => op'[u] = op[u]
             /\ op'[t].at = "idle"
  BY <1>8, DoFacts DEF Mark, Idle
<1>9. UNCHANGED loopVars
  BY DEF ThreadStep, CheckOther, CheckOwn, Insert, RemoveBegin, RemoveMethod,
         RemoveEvent, Refresh, Mark
<1>10. ~Mark(t) => missed' = missed
  BY DEF ThreadStep, CheckOther, CheckOwn, Insert, RemoveBegin, RemoveMethod,
         RemoveEvent, Refresh
<1> QED
  BY <1>1, <1>2, <1>3, <1>4, <1>5, <1>6, <1>7, <1>8, <1>9, <1>10 DEF ThreadStep

\* What is removed, inserted or left of the registry.
LEMMA RegistrySteps ==
    ASSUME TypeOK, NEW t \in Thread, Checking(t) \/ Inserting(t) \/ Removing(t) \/ Mark(t)
    PROVE  /\ registry' \in [Kind -> [Field -> Thread \union {None}]]
           /\ rivals' \in [Kind -> [Field -> SUBSET Thread]]
<1>1. CASE Checking(t) \/ Mark(t)
  BY <1>1 DEF Checking, Mark, TypeOK, fieldVars
<1>2. CASE Inserting(t)
  BY <1>2, OpTypes, PutFacts, PutRivals DEF Inserting
<1>3. CASE Removing(t)
  <2>1. PICK k \in Kind : op[t].at \in {"remove_method", "remove_event"}
                          /\ Put(k, op[t].field, None)
    BY <1>3 DEF Removing
  <2> QED
    BY <2>1, OpTypes, PutFacts, PutRivals
<1> QED
  BY <1>1, <1>2, <1>3

(***************************************************************************)
(* Type correctness.                                                       *)
(***************************************************************************)
LoopNext ==
    LoopStep \/ Start \/ StartFails \/ StopBegin \/ StopEnds
             \/ \E p \in Peer : Connect(p) \/ Disconnect(p)

LEMMA LoopLeaves ==
    ASSUME LoopNext
    PROVE  UNCHANGED <<registry, rivals, op>>
BY DEF fieldVars, LoopNext, LoopStep, BuildMethods, BuildEvents, Refused, Subscribe, SeeChange, Tick, Send,
       Beat, Start, StartFails, StopBegin, StopEnds, Connect, Disconnect

LEMMA RegisteredType ==
    Registered \in Announced /\ Registered["method"] \in SUBSET Field
                             /\ Registered["event"] \in SUBSET Field
BY DEF Registered, Announced, Kind

LEMMA LoopType == TypeOK /\ LoopNext => TypeOK'
<1> SUFFICES ASSUME TypeOK, LoopNext PROVE TypeOK'
  OBVIOUS
<1> USE DEF TypeOK
<1>0. UNCHANGED <<registry, rivals, op>>
  BY LoopLeaves
<1>1. CASE BuildMethods \/ BuildEvents
  <2>1. beacon' \in Announced
    BY <1>1, RegisteredType DEF BuildMethods, BuildEvents, Announced, Kind
  <2> QED
    BY <1>0, <1>1, <2>1 DEF BuildMethods, BuildEvents
<1>2. ASSUME NEW gone \in SUBSET Peer, Send(gone) \/ Beat(gone)
      PROVE  TypeOK'
  <2>1. heard' \in [Peer -> Announced \union {None}]
    BY <1>2 DEF Send, Beat
  <2>2. connected' \in SUBSET Peer
    BY <1>2 DEF Send, Beat
  <2> QED
    BY <1>0, <1>2, <2>1, <2>2 DEF Send, Beat
<1>6. CASE Refused
  BY <1>0, <1>6 DEF Refused
<1>3. CASE Subscribe \/ SeeChange \/ Tick
  <2>1. ticks' \in 0..FullTicks-1
    BY <1>3 DEF Subscribe, SeeChange, Tick
  <2> QED
    BY <1>0, <1>3, <2>1 DEF Subscribe, SeeChange, Tick
<1>4. CASE Start \/ StartFails \/ StopBegin \/ StopEnds
  BY <1>0, <1>4 DEF Start, StartFails, StopBegin, StopEnds
<1>5. ASSUME NEW p \in Peer, Connect(p) \/ Disconnect(p)
      PROVE  TypeOK'
  BY <1>0, <1>5 DEF Connect, Disconnect
<1> QED
  BY <1>1, <1>2, <1>3, <1>4, <1>5, <1>6 DEF LoopNext, LoopStep

LEMMA StepType == TypeOK /\ [Next]_vars => TypeOK'
<1> SUFFICES ASSUME TypeOK, [Next]_vars PROVE TypeOK'
  OBVIOUS
<1>1. CASE UNCHANGED vars
  BY <1>1 DEF vars, TypeOK
<1>2. ASSUME NEW t \in Thread, ThreadStep(t)
      PROVE  TypeOK'
  <2>1. /\ op' \in [Thread -> Midway \union {Idle}] /\ UNCHANGED loopVars
        /\ registry' \in [Kind -> [Field -> Thread \union {None}]]
        /\ rivals' \in [Kind -> [Field -> SUBSET Thread]]
    BY <1>2, ThreadSteps, RegistrySteps
  <2>2. unseen' \in BOOLEAN /\ missed' \in BOOLEAN
    BY <1>2, ThreadSteps DEF TypeOK, Checking, Inserting, Removing, Mark
  <2> QED
    BY <2>1, <2>2 DEF TypeOK, loopVars
<1>3. CASE LoopNext
  BY <1>3, LoopType
<1> QED
  BY <1>1, <1>2, <1>3 DEF Next, LoopNext

LEMMA InitType == Init => TypeOK
<1> SUFFICES ASSUME Init PROVE TypeOK
  OBVIOUS
<1>1. beacon \in Announced
  BY DEF Init, Announced
<1>2. /\ registry \in [Kind -> [Field -> Thread \union {None}]]
      /\ rivals \in [Kind -> [Field -> SUBSET Thread]]
  BY DEF Init
<1>3. op \in [Thread -> Midway \union {Idle}] /\ heard \in [Peer -> Announced \union {None}]
  BY DEF Init
<1>4. ticks \in 0..FullTicks-1
  BY DEF Init
<1>5. /\ unseen \in BOOLEAN /\ missed \in BOOLEAN /\ connected \in SUBSET Peer
      /\ life \in {"down", "starting", "up", "stopping"}
      /\ loop \in {"off", "build", "copy", "send", "subscribe", "wait", "beat"}
  BY DEF Init
<1> QED
  BY <1>1, <1>2, <1>3, <1>4, <1>5 DEF TypeOK

\* The types.
THEOREM TypeCorrect == Spec => []TypeOK
<1> QED
  BY InitType, StepType, PTL DEF Spec

(***************************************************************************)
(* Registrations that do not overlap exclude each other.  A thread that     *)
(* found an id free, and is still registering it when somebody else has it, *)
(* was doing so when that other registration was inserted.                 *)
(***************************************************************************)
LateIsRival ==
    \A t \in Thread : op[t].at \in {"own", "insert"} =>
        LET k == op[t].kind
            f == op[t].field
        IN /\ registry[Other(k)][f] # None => t \in rivals[Other(k)][f]
           /\ op[t].at = "insert" /\ registry[k][f] # None => t \in rivals[k][f]

OverlapInv == TypeOK /\ LateIsRival

LEMMA OtherKind ==
    /\ \A k \in Kind : Other(k) \in Kind /\ Other(k) # k /\ Other(Other(k)) = k
    /\ \A k, m \in Kind : k = m \/ k = Other(m)
BY DEF Kind, Other

LEMMA CheckingOverlap ==
    ASSUME OverlapInv, NEW t \in Thread, ThreadStep(t), Checking(t)
    PROVE  LateIsRival'
<1>1. /\ TypeOK /\ registry' = registry /\ rivals' = rivals
      /\ \A u \in Thread : u # t => op'[u] = op[u]
  BY ThreadSteps DEF OverlapInv, Checking, fieldVars
<1>3. CASE op'[t].at = "own" /\ registry[Other(op'[t].kind)][op'[t].field] = None
  BY <1>1, <1>3 DEF OverlapInv, LateIsRival
<1>4. CASE op[t].at = "own" /\ op'[t].at = "insert"
           /\ op'[t].kind = op[t].kind /\ op'[t].field = op[t].field
           /\ registry[op[t].kind][op[t].field] = None
  BY <1>1, <1>4 DEF OverlapInv, LateIsRival
<1>5. CASE op'[t].at \in {"idle", "mark", "remove_method"}
  BY <1>1, <1>5 DEF OverlapInv, LateIsRival
<1> QED
  BY <1>3, <1>4, <1>5 DEF Checking

LEMMA InsertingOverlap ==
    ASSUME OverlapInv, NEW t \in Thread, ThreadStep(t), Inserting(t)
    PROVE  LateIsRival'
<1> DEFINE k == op[t].kind
           f == op[t].field
<1>1. /\ TypeOK /\ op[t].at = "insert" /\ op'[t].at = "mark" /\ Put(k, f, t)
      /\ \A u \in Thread : u # t => op'[u] = op[u]
  BY ThreadSteps DEF OverlapInv, Inserting
<1>2. k \in Kind /\ f \in Field /\ t # None
  BY <1>1, OpTypes
<1>3. \A k2 \in Kind, f2 \in Field :
          /\ registry'[k2][f2] = IF k2 = k /\ f2 = f THEN t ELSE registry[k2][f2]
          /\ ~(k2 = k /\ f2 = f) => rivals'[k2][f2] = rivals[k2][f2]
  BY <1>1, <1>2, PutFacts, PutRivals
<1>r. \A u \in Thread \ {t} : Registering(u, f) => u \in rivals'[k][f]
  BY <1>1, <1>2, PutRivals
<1>5. LateIsRival'
  <2> SUFFICES ASSUME NEW u \in Thread, op'[u].at \in {"own", "insert"}
               PROVE  LET m == op'[u].kind
                          g == op'[u].field
                      IN /\ registry'[Other(m)][g] # None => u \in rivals'[Other(m)][g]
                         /\ op'[u].at = "insert" /\ registry'[m][g] # None =>
                                u \in rivals'[m][g]
    BY DEF LateIsRival
  <2> DEFINE m == op[u].kind
             g == op[u].field
  <2>1. u # t /\ op'[u] = op[u]
    BY <1>1
  <2>2. m \in Kind /\ g \in Field /\ Other(m) \in Kind /\ Registering(u, g)
    BY <1>1, <2>1, OpTypes, OtherKind DEF Registering
  <2>3. /\ registry[Other(m)][g] # None => u \in rivals[Other(m)][g]
        /\ op[u].at = "insert" /\ registry[m][g] # None => u \in rivals[m][g]
    BY <2>1 DEF OverlapInv, LateIsRival
  <2>4. \A k2 \in Kind : k2 = k /\ g = f => u \in rivals'[k2][g]
    BY <1>r, <2>1, <2>2
  <2> HIDE DEF k, f, m, g
  <2>5. \A k2 \in Kind : (registry[k2][g] # None => u \in rivals[k2][g]) =>
                              (registry'[k2][g] # None => u \in rivals'[k2][g])
    BY <1>3, <2>2, <2>4
  <2>6. /\ registry'[Other(m)][g] # None => u \in rivals'[Other(m)][g]
        /\ op[u].at = "insert" /\ registry'[m][g] # None => u \in rivals'[m][g]
    BY <2>2, <2>3, <2>5
  <2> QED
    BY <2>1, <2>6 DEF m, g
<1> QED
  BY <1>5

LEMMA RemovingOverlap ==
    ASSUME OverlapInv, NEW t \in Thread, ThreadStep(t), Removing(t)
    PROVE  LateIsRival'
<1>1. /\ TypeOK /\ op'[t].at \in {"idle", "mark", "remove_event"}
      /\ \A u \in Thread : u # t => op'[u] = op[u]
  BY ThreadSteps DEF OverlapInv, Removing
<1>2. \A k2 \in Kind, f2 \in Field :
          \/ registry'[k2][f2] = None
          \/ registry'[k2][f2] = registry[k2][f2] /\ rivals'[k2][f2] = rivals[k2][f2]
  <2>1. PICK k \in Kind : op[t].at \in {"remove_method", "remove_event"}
                          /\ Put(k, op[t].field, None)
    BY DEF Removing
  <2>2. op[t].field \in Field
    BY <1>1, <2>1, OpTypes
  <2> QED
    BY <1>1, <2>1, <2>2, PutFacts, PutRivals
<1>3. LateIsRival'
  <2> SUFFICES ASSUME NEW u \in Thread, op'[u].at \in {"own", "insert"}
               PROVE  LET m == op'[u].kind
                          g == op'[u].field
                      IN /\ registry'[Other(m)][g] # None => u \in rivals'[Other(m)][g]
                         /\ op'[u].at = "insert" /\ registry'[m][g] # None =>
                                u \in rivals'[m][g]
    BY DEF LateIsRival
  <2>1. op'[u] = op[u]
    BY <1>1
  <2>2. op[u].kind \in Kind /\ op[u].field \in Field /\ Other(op[u].kind) \in Kind
    BY <1>1, <2>1, OpTypes, OtherKind
  <2> QED
    BY <1>2, <2>1, <2>2 DEF OverlapInv, LateIsRival
<1> QED
  BY <1>3

LEMMA StepOverlap == OverlapInv /\ [Next]_vars => OverlapInv'
<1> SUFFICES ASSUME OverlapInv, [Next]_vars
             PROVE  LateIsRival'
  BY StepType DEF OverlapInv
<1>1. CASE UNCHANGED <<registry, rivals, op>>
  BY <1>1 DEF OverlapInv, LateIsRival
<1>2. ASSUME NEW t \in Thread, ThreadStep(t)
      PROVE  LateIsRival'
  <2>1. CASE Mark(t)
    <3>1. op'[t].at = "idle" /\ registry' = registry /\ rivals' = rivals
          /\ \A u \in Thread : u # t => op'[u] = op[u]
      BY <1>2, <2>1, ThreadSteps, DoFacts DEF OverlapInv, Mark, Idle, fieldVars
    <3> QED
      BY <3>1 DEF OverlapInv, LateIsRival
  <2> QED
    BY <1>2, <2>1, ThreadSteps, CheckingOverlap, InsertingOverlap, RemovingOverlap
       DEF OverlapInv
<1>3. CASE LoopNext \/ UNCHANGED vars
  BY <1>1, <1>3, LoopLeaves DEF vars
<1> QED
  BY <1>2, <1>3 DEF Next, LoopNext

LEMMA OverlapAlways == Spec => []OverlapInv
<1>1. Init => OverlapInv
  <2> SUFFICES ASSUME Init PROVE OverlapInv
    OBVIOUS
  <2>1. \A t \in Thread : op[t].at = "idle"
    BY DEF Init, Idle
  <2> QED
    BY <2>1, InitType DEF OverlapInv, LateIsRival
<1> QED
  BY <1>1, StepOverlap, PTL DEF Spec

\* Whatever the threads do, an id that is taken is registered again only by a thread
\* that overlapped the first one.
THEOREM TakenIdsAlwaysRefused == Spec => TakenIdsRefused
<1>1. OverlapInv /\ [Next]_vars =>
          [\A k, m \in Kind, f \in Field :
              registry'[k][f] \notin {registry[k][f], None} /\ registry[m][f] # None =>
                  registry'[k][f] \in rivals[m][f]]_fieldVars
  <2> SUFFICES ASSUME OverlapInv, [Next]_vars,
                      NEW k \in Kind, NEW n \in Kind, NEW f \in Field,
                      registry'[k][f] \notin {registry[k][f], None}, registry[n][f] # None
               PROVE  registry'[k][f] \in rivals[n][f]
    OBVIOUS
  <2>0. TypeOK
    BY DEF OverlapInv
  <2>1. PICK t \in Thread : ThreadStep(t)
    BY LoopLeaves DEF Next, LoopNext, vars
  <2>2. ~Checking(t) /\ ~Mark(t)
    BY DEF Checking, Mark, fieldVars
  <2>3. ~Removing(t)
    <3> SUFFICES ASSUME NEW m \in Kind, op[t].at \in {"remove_method", "remove_event"},
                        Put(m, op[t].field, None)
                 PROVE  FALSE
      BY DEF Removing
    <3>1. op[t].field \in Field
      BY <2>0, OpTypes
    <3>2. registry'[k][f] = IF k = m /\ f = op[t].field THEN None ELSE registry[k][f]
      BY <2>0, <3>1, PutFacts
    <3> QED
      BY <3>2
  <2>4. Inserting(t)
    BY <2>0, <2>1, <2>2, <2>3, ThreadSteps
  <2>5. op[t].at = "insert" /\ op[t].kind = k /\ op[t].field = f /\ registry'[k][f] = t
    <3>1. /\ op[t].at = "insert" /\ Put(op[t].kind, op[t].field, t)
          /\ op[t].kind \in Kind /\ op[t].field \in Field
      BY <2>0, <2>4, OpTypes DEF Inserting
    <3>2. registry'[k][f] = IF k = op[t].kind /\ f = op[t].field THEN t ELSE registry[k][f]
      BY <2>0, <3>1, PutFacts
    <3> QED
      BY <3>1, <3>2
  <2>6. n = k \/ n = Other(k)
    BY OtherKind
  <2> QED
    BY <2>5, <2>6 DEF OverlapInv, LateIsRival
<1> QED
  BY <1>1, OverlapAlways, PTL DEF Spec, TakenIdsRefused

(***************************************************************************)
(* What is announced.  A beacon that differs from the registry is excused  *)
(* by a thread that has not marked its change yet, by a revision the loop  *)
(* has not seen, or by one marked before it subscribed.                    *)
(***************************************************************************)
SaysMethods == \A f \in Field : f \in beacon["method"] <=> registry["method"][f] # None

SaysEvents == \A f \in Field : f \in beacon["event"] <=> registry["event"][f] # None

LoopShape ==
    /\ life = "down" <=> loop = "off"
    /\ loop = "subscribe" => life = "starting"
    /\ loop \in {"wait", "beat"} => life \in {"up", "stopping"}

Covered ==
    loop \in {"send", "subscribe", "wait", "beat"} =>
        \/ SaysMethods /\ SaysEvents
        \/ missed \/ (unseen /\ life # "starting") \/ Unmarked

AnnounceInv == TypeOK /\ LoopShape /\ (loop = "copy" => SaysMethods) /\ Covered

LEMMA SaysAll ==
    ASSUME TypeOK, SaysMethods, SaysEvents
    PROVE  beacon = Registered
<1>1. beacon \in [Kind -> SUBSET Field] /\ Registered \in [Kind -> SUBSET Field]
  BY RegisteredType DEF TypeOK, Announced
<1>2. beacon["method"] = Registered["method"]
  BY <1>1 DEF SaysMethods, Registered, Kind
<1>3. beacon["event"] = Registered["event"]
  BY <1>1 DEF SaysEvents, Registered, Kind
<1> QED
  BY <1>1, <1>2, <1>3 DEF Kind

LEMMA MethodsRegistered ==
    ASSUME TypeOK, SaysMethods
    PROVE  beacon["method"] = Registered["method"]
BY DEF TypeOK, Announced, SaysMethods, Registered, Kind

\* What a thread does to the registry it marks, or will mark; and it leaves the
\* methods alone while they are being read.
LEMMA ThreadCovers ==
    ASSUME AnnounceInv, NEW t \in Thread, ThreadStep(t)
    PROVE  AnnounceInv'
<1>1. /\ TypeOK /\ TypeOK' /\ UNCHANGED loopVars
      /\ op' \in [Thread -> Midway \union {Idle}]
      /\ \A u \in Thread : u # t => op'[u] = op[u]
  BY StepType, ThreadSteps DEF AnnounceInv, Next
<1>2. LoopShape'
  BY <1>1 DEF AnnounceInv, LoopShape, loopVars
<1>3. CASE Checking(t) /\ missed' = missed
  <2>1. op[t].at \in {"idle", "own"}
    BY <1>3 DEF Checking, Idle
  <2>2. Unmarked => Unmarked'
    BY <1>1, <2>1 DEF Unmarked
  <2> QED
    BY <1>1, <1>2, <1>3, <2>2
       DEF AnnounceInv, Covered, SaysMethods, SaysEvents, Checking, loopVars, fieldVars
<1>4. CASE Inserting(t) /\ missed' = missed
  <2>1. Unmarked'
    BY <1>4 DEF Unmarked, Inserting
  <2>2. loop = "copy" => SaysMethods'
    <3> SUFFICES ASSUME loop = "copy" PROVE SaysMethods'
      OBVIOUS
    <3>1. op[t].kind \in Kind /\ op[t].field \in Field /\ op[t].kind # "method"
      BY <1>1, <1>4, OpTypes DEF Inserting, Writable
    <3>2. \A f \in Field : registry'["method"][f] = registry["method"][f]
      BY <1>1, <1>4, <3>1, PutFacts DEF Inserting, Kind
    <3> QED
      BY <1>1, <3>2 DEF AnnounceInv, SaysMethods, loopVars
  <2> QED
    BY <1>1, <1>2, <2>1, <2>2 DEF AnnounceInv, Covered, loopVars
<1>5. CASE Removing(t) /\ missed' = missed
  <2>1. PICK k \in Kind :
            /\ op[t].at \in {"remove_method", "remove_event"} /\ Writable(k)
            /\ Put(k, op[t].field, None)
            /\ registry[k][op[t].field] # None
               \/ (op[t].at = "remove_event" /\ op[t].found) =>
                   op'[t].at = "mark" \/ (op'[t].at = "remove_event" /\ op'[t].found)
    BY <1>5 DEF Removing
  <2>2. op[t].field \in Field
    BY <1>1, <2>1, OpTypes
  <2>3. \A k2 \in Kind, f2 \in Field :
            registry'[k2][f2] = IF k2 = k /\ f2 = op[t].field THEN None
                                ELSE registry[k2][f2]
    BY <1>1, <2>1, <2>2, PutFacts
  <2>4. loop = "copy" => SaysMethods'
    BY <1>1, <2>1, <2>3 DEF AnnounceInv, SaysMethods, loopVars, Writable, Kind
  <2>5. Unmarked => Unmarked'
    BY <1>1, <2>1 DEF Unmarked
  <2>6. CASE registry[k][op[t].field] # None
    <3>1. Unmarked'
      BY <2>1, <2>6 DEF Unmarked
    <3> QED
      BY <1>1, <1>2, <2>4, <3>1 DEF AnnounceInv, Covered, loopVars
  <2>7. CASE registry[k][op[t].field] = None
    <3>1. \A k2 \in Kind, f2 \in Field : registry'[k2][f2] = registry[k2][f2]
      BY <2>3, <2>7
    <3>2. (SaysMethods => SaysMethods') /\ (SaysEvents => SaysEvents')
      BY <1>1, <3>1 DEF SaysMethods, SaysEvents, loopVars, Kind
    <3>3. unseen' = unseen
      BY <1>5 DEF Removing
    <3> QED
      BY <1>1, <1>2, <1>5, <2>4, <2>5, <3>2, <3>3 DEF AnnounceInv, Covered, loopVars
  <2> QED
    BY <2>6, <2>7
<1>6. CASE Mark(t)
  <2>1. /\ registry' = registry
        /\ unseen' = (unseen \/ Subscribed) /\ missed' = (missed \/ life = "starting")
    BY <1>6 DEF Mark, fieldVars
  <2>2. (SaysMethods => SaysMethods') /\ (SaysEvents => SaysEvents')
    BY <1>1, <2>1 DEF SaysMethods, SaysEvents, loopVars
  <2>3. loop # "off" => missed' \/ (unseen' /\ life' # "starting")
    BY <1>1, <2>1 DEF AnnounceInv, LoopShape, Subscribed, TypeOK, loopVars
  <2> QED
    BY <1>1, <1>2, <2>2, <2>3 DEF AnnounceInv, Covered, loopVars
<1> QED
  BY <1>1, <1>3, <1>4, <1>5, <1>6, ThreadSteps

LEMMA LoopCovers ==
    ASSUME AnnounceInv, LoopNext
    PROVE  AnnounceInv'
<1>1. TypeOK /\ TypeOK' /\ UNCHANGED <<registry, rivals, op>>
  BY LoopType, LoopLeaves DEF AnnounceInv
<1>2. Unmarked => Unmarked'
  BY <1>1 DEF Unmarked
<1>3. CASE BuildMethods
  BY <1>1, <1>3 DEF BuildMethods, AnnounceInv, LoopShape, Covered, SaysMethods,
                    Registered, Kind, TypeOK, Announced
<1>4. CASE BuildEvents
  <2>1. SaysMethods' /\ SaysEvents'
    BY <1>1, <1>4 DEF BuildEvents, AnnounceInv, SaysMethods, SaysEvents, Registered, Kind,
                      TypeOK, Announced
  <2> QED
    BY <1>1, <1>4, <2>1 DEF BuildEvents, AnnounceInv, LoopShape, Covered
<1>5. CASE beacon' = beacon /\ LoopShape' /\ (loop' # "copy") /\ missed' = missed
           /\ loop \in {"send", "subscribe", "wait", "beat"}
           /\ (unseen /\ life # "starting" => unseen' /\ life' # "starting")
  BY <1>1, <1>2, <1>5 DEF AnnounceInv, Covered, SaysMethods, SaysEvents
<1>6. CASE beacon' = beacon /\ LoopShape' /\ loop' \in {"off", "build"}
  BY <1>1, <1>6 DEF AnnounceInv, Covered
<1>7. CASE UNCHANGED <<beacon, loop, life, missed, unseen>>
  BY <1>1, <1>2, <1>7 DEF AnnounceInv, LoopShape, Covered, SaysMethods, SaysEvents
<1>8. ASSUME NEW gone \in SUBSET Peer, Send(gone) \/ Beat(gone)
      PROVE  AnnounceInv'
  BY <1>1, <1>5, <1>8 DEF Send, Beat, AnnounceInv, LoopShape, TypeOK
<1>14. CASE Refused
  BY <1>1, <1>5, <1>14 DEF Refused, AnnounceInv, LoopShape, TypeOK
<1>9. CASE Subscribe
  BY <1>1, <1>5, <1>9 DEF Subscribe, AnnounceInv, LoopShape
<1>10. CASE SeeChange \/ Tick
  BY <1>1, <1>5, <1>6, <1>10 DEF SeeChange, Tick, AnnounceInv, LoopShape
<1>11. CASE Start \/ StartFails \/ StopEnds
  BY <1>6, <1>11 DEF Start, StartFails, StopEnds, LoopShape, AnnounceInv
<1>12. CASE StopBegin
  <2>1. beacon' = beacon /\ loop' = loop /\ missed' = missed /\ unseen' = unseen
        /\ life = "up" /\ life' = "stopping" /\ LoopShape'
    BY <1>12 DEF StopBegin, AnnounceInv, LoopShape
  <2> QED
    BY <1>1, <1>2, <2>1 DEF AnnounceInv, Covered, SaysMethods, SaysEvents
<1>13. ASSUME NEW p \in Peer, Connect(p) \/ Disconnect(p)
       PROVE  AnnounceInv'
  BY <1>7, <1>13 DEF Connect, Disconnect
<1> QED
  BY <1>3, <1>4, <1>8, <1>9, <1>10, <1>11, <1>12, <1>13, <1>14
     DEF LoopNext, LoopStep

LEMMA AnnounceAlways == Spec => []AnnounceInv
<1>1. Init => AnnounceInv
  BY InitType DEF Init, AnnounceInv, LoopShape, Covered
<1>2. AnnounceInv /\ [Next]_vars => AnnounceInv'
  <2> SUFFICES ASSUME AnnounceInv, [Next]_vars PROVE AnnounceInv'
    OBVIOUS
  <2>1. CASE UNCHANGED vars
    BY <2>1 DEF vars, AnnounceInv, TypeOK, LoopShape, Covered, SaysMethods, SaysEvents,
                Unmarked
  <2> QED
    BY <2>1, ThreadCovers, LoopCovers DEF Next, LoopNext
<1> QED
  BY <1>1, <1>2, PTL DEF Spec

\* A beacon is complete as of its last revision, whatever threads did meanwhile.
THEOREM NothingEverForgotten == Spec => []NothingForgotten
<1>1. AnnounceInv => NothingForgotten
  BY SaysAll DEF AnnounceInv, Covered, NothingForgotten
<1> QED
  BY <1>1, AnnounceAlways, PTL

\* A beacon is the registry of one instant.
THEOREM AlwaysSnapshots == Spec => BeaconsAreSnapshots
<1>1. AnnounceInv /\ [Next]_vars => [loop = "copy" => beacon' = Registered]_loop
  <2> SUFFICES ASSUME AnnounceInv, [Next]_vars, loop' # loop, loop = "copy"
               PROVE  beacon' = Registered
    OBVIOUS
  <2>1. BuildEvents
    <3>1. ~UNCHANGED loopVars
      BY DEF loopVars
    <3>2. \A t \in Thread : ~ThreadStep(t)
      BY <3>1, ThreadSteps DEF AnnounceInv
    <3> QED
      BY <3>2 DEF Next, vars, LoopStep, BuildMethods, Refused, Subscribe, SeeChange, Tick, Send, Beat,
             Start, StartFails, StopBegin, StopEnds, Connect, Disconnect, AnnounceInv,
             LoopShape
  <2>2. beacon \in [Kind -> SUBSET Field] /\ Registered \in [Kind -> SUBSET Field]
    BY RegisteredType DEF AnnounceInv, TypeOK, Announced
  <2>3. beacon["method"] = Registered["method"]
    BY MethodsRegistered DEF AnnounceInv
  <2>4. beacon' = [beacon EXCEPT !["event"] = Registered["event"]]
    BY <2>1 DEF BuildEvents
  <2> QED
    BY <2>2, <2>3, <2>4 DEF Kind
<1> QED
  BY <1>1, AnnounceAlways, PTL DEF Spec, BeaconsAreSnapshots
=============================================================================
