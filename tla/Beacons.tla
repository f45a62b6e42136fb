------------------------------- MODULE Beacons -------------------------------
(***************************************************************************)
(* The field registry of a GlycoComplex and the loop that announces it     *)
(* (src/src/node.rs).  Any threads register, remove and refresh fields;    *)
(* start() and then the beacon loop build beacons of both maps and         *)
(* broadcast them, when a revision tells of a change and every FullTicks   *)
(* heartbeats.                                                             *)
(*                                                                         *)
(* A field is its id, and a registration the thread that made it.  The     *)
(* vendor and the schemas are left out: set_vendor marks a change like     *)
(* refresh_beacon.  A peer that is connected when a broadcast is made      *)
(* hears it or is disconnected (PeerWriter).                               *)
(***************************************************************************)
EXTENDS Integers

CONSTANTS
    Thread,     \* the threads that use the node
    Field,      \* field ids
    Peer,       \* the other nodes
    FullTicks,  \* full_beacon_ticks
    TooLong,    \* the beacons that do not fit in max_frame_length
    None

ASSUME TicksAssumption == FullTicks \in Nat \ {0}

ASSUME NoneAssumption == None \notin Thread

VARIABLES
    registry,   \* registry[k][f]: who registered f in methods or emitted_events
    rivals,     \* rivals[k][f]: the threads that were registering f when that
                \* registration was inserted (history)
    op,         \* op[t]: what thread t is doing
    unseen,     \* the revision differs from the one the loop has seen
    life,       \* the node is down, starting, up or stopping
    loop,       \* control of start's announcement and of the beacon loop
    ticks,      \* ticks_since_full
    beacon,     \* the last beacon that was begun: the ids of each kind
    connected,  \* the peers a broadcast reaches
    heard,      \* heard[p]: the last beacon p heard on this connection, or None
    missed      \* a change was marked while nobody was subscribed (history)

vars == <<registry, rivals, op, unseen, life, loop, ticks, beacon, connected, heard, missed>>
fieldVars == <<registry, rivals>>
loopVars == <<life, loop, ticks, beacon, connected, heard>>

Kind == {"method", "event"}

Other(k) == IF k = "method" THEN "event" ELSE "method"

Idle == [at |-> "idle"]

Midway ==
    [at : {"own", "insert"}, kind : Kind, field : Field]
    \union [at : {"remove_method"}, field : Field]
    \union [at : {"remove_event"}, field : Field, found : BOOLEAN]
    \union {[at |-> "mark"]}

Announced == [Kind -> SUBSET Field]

ASSUME TooLongAssumption == TooLong \subseteq Announced

TypeOK ==
    /\ registry \in [Kind -> [Field -> Thread \union {None}]]
    /\ rivals \in [Kind -> [Field -> SUBSET Thread]]
    /\ op \in [Thread -> Midway \union {Idle}]
    /\ unseen \in BOOLEAN
    /\ life \in {"down", "starting", "up", "stopping"}
    /\ loop \in {"off", "build", "copy", "send", "subscribe", "wait", "beat"}
    /\ ticks \in 0..FullTicks-1
    /\ beacon \in Announced
    /\ connected \in SUBSET Peer
    /\ heard \in [Peer -> Announced \union {None}]
    /\ missed \in BOOLEAN

Init ==
    /\ registry = [k \in Kind |-> [f \in Field |-> None]]
    /\ rivals = [k \in Kind |-> [f \in Field |-> {}]]
    /\ op = [t \in Thread |-> Idle]
    /\ unseen = FALSE
    /\ life = "down"
    /\ loop = "off"
    /\ ticks = 0
    /\ beacon = [k \in Kind |-> {}]
    /\ connected = {}
    /\ heard = [p \in Peer |-> None]
    /\ missed = FALSE

Registered == [k \in Kind |-> {f \in Field : registry[k][f] # None}]

-----------------------------------------------------------------------------
(***************************************************************************)
(* Registering and removing fields.                                        *)
(***************************************************************************)
Do(t, step) == op' = [op EXCEPT ![t] = step]

Registering(t, f) == op[t].at \in {"own", "insert"} /\ op[t].field = f

\* The maps are read by build_beacon, which holds the first while it waits for
\* the second: nobody writes to methods meanwhile.
Writable(k) == ~(k = "method" /\ loop = "copy")

Put(k, f, x) ==
    /\ registry' = [registry EXCEPT ![k][f] = x]
    /\ rivals' = [rivals EXCEPT ![k][f] =
                     IF x = None THEN {} ELSE {u \in Thread \ {x} : Registering(u, f)}]

CheckOwnFirst(t, k, f) ==  \* a slip: the map of the other kind is not looked into
    /\ op[t] = Idle
    /\ Do(t, [at |-> "own", kind |-> k, field |-> f])
    /\ UNCHANGED <<fieldVars, unseen, missed, loopVars>>

\* insert_method looks into emitted_events first, insert_event into methods; the
\* lock of each is released before the next step.
CheckOther(t, k, f) ==
    /\ op[t] = Idle
    /\ registry[Other(k)][f] = None
    /\ Do(t, [at |-> "own", kind |-> k, field |-> f])
    /\ UNCHANGED <<fieldVars, unseen, missed, loopVars>>

\* A duplicate is refused, here as in the first check, where nothing happens.
CheckOwn(t) ==
    /\ op[t].at = "own"
    /\ Do(t, IF registry[op[t].kind][op[t].field] = None
             THEN [op[t] EXCEPT !.at = "insert"] ELSE Idle)
    /\ UNCHANGED <<fieldVars, unseen, missed, loopVars>>

InsertUnlocked(t) ==  \* a slip: the map is changed under the reader's hands
    /\ op[t].at = "insert"
    /\ Put(op[t].kind, op[t].field, t)
    /\ Do(t, [at |-> "mark"])
    /\ UNCHANGED <<unseen, missed, loopVars>>

Insert(t) ==
    /\ op[t].at = "insert" /\ Writable(op[t].kind)
    /\ Put(op[t].kind, op[t].field, t)
    /\ Do(t, [at |-> "mark"])
    /\ UNCHANGED <<unseen, missed, loopVars>>

RemoveBegin(t, f) ==
    /\ op[t] = Idle
    /\ Do(t, [at |-> "remove_method", field |-> f])
    /\ UNCHANGED <<fieldVars, unseen, missed, loopVars>>

RemoveMethod(t) ==
    /\ op[t].at = "remove_method" /\ Writable("method")
    /\ Put("method", op[t].field, None)
    /\ Do(t, [at |-> "remove_event", field |-> op[t].field,
              found |-> registry["method"][op[t].field] # None])
    /\ UNCHANGED <<unseen, missed, loopVars>>

RemoveEvent(t) ==
    /\ op[t].at = "remove_event"
    /\ Put("event", op[t].field, None)
    /\ Do(t, IF op[t].found \/ registry["event"][op[t].field] # None
             THEN [at |-> "mark"] ELSE Idle)
    /\ UNCHANGED <<unseen, missed, loopVars>>

\* refresh_beacon and set_vendor.
Refresh(t) ==
    /\ op[t] = Idle
    /\ Do(t, [at |-> "mark"])
    /\ UNCHANGED <<fieldVars, unseen, missed, loopVars>>

Subscribed == life \in {"up", "stopping"} /\ loop # "off"

MarkWaiting(t) ==  \* a slip: only a loop that waits is told of the change
    /\ op[t].at = "mark"
    /\ unseen' = (unseen \/ loop = "wait")
    /\ missed' = (missed \/ life = "starting")
    /\ Do(t, Idle)
    /\ UNCHANGED <<fieldVars, loopVars>>

\* mark_beacon_changed
Mark(t) ==
    /\ op[t].at = "mark"
    /\ unseen' = (unseen \/ Subscribed)
    /\ missed' = (missed \/ life = "starting")
    /\ Do(t, Idle)
    /\ UNCHANGED <<fieldVars, loopVars>>

ThreadStep(t) ==
    \/ \E k \in Kind, f \in Field : CheckOther(t, k, f)
    \/ CheckOwn(t) \/ Insert(t)
    \/ \E f \in Field : RemoveBegin(t, f)
    \/ RemoveMethod(t) \/ RemoveEvent(t) \/ Refresh(t) \/ Mark(t)

-----------------------------------------------------------------------------
(***************************************************************************)
(* Announcing them.                                                        *)
(***************************************************************************)
Start ==
    /\ life = "down"
    /\ life' = "starting" /\ loop' = "build"
    /\ UNCHANGED <<fieldVars, op, unseen, ticks, beacon, connected, heard, missed>>

\* build_beacon takes the lock of methods ...
BuildMethods ==
    /\ loop = "build"
    /\ beacon' = [beacon EXCEPT !["method"] = Registered["method"]]
    /\ loop' = "copy" /\ missed' = FALSE
    /\ UNCHANGED <<fieldVars, op, unseen, life, ticks, connected, heard>>

\* ... and then that of emitted_events.
BuildEvents ==
    /\ loop = "copy"
    /\ beacon' = [beacon EXCEPT !["event"] = Registered["event"]]
    /\ loop' = "send"
    /\ UNCHANGED <<fieldVars, op, unseen, life, ticks, connected, heard, missed>>

\* Those of the peers that are not gone hear the beacon.
Send(gone) ==
    /\ loop = "send" /\ gone \subseteq connected /\ beacon \notin TooLong
    /\ connected' = connected \ gone
    /\ heard' = [p \in Peer |-> IF p \in connected \ gone THEN beacon ELSE heard[p]]
    /\ loop' = IF life = "starting" THEN "subscribe" ELSE "wait"
    /\ UNCHANGED <<fieldVars, op, unseen, life, ticks, beacon, missed>>

\* frame_message refuses a beacon that is too long: nobody hears it, and nobody
\* is disconnected.
Refused ==
    /\ loop = "send" /\ life # "starting" /\ beacon \in TooLong
    /\ loop' = "wait"
    /\ UNCHANGED <<fieldVars, op, unseen, life, ticks, beacon, connected, heard, missed>>

\* A peer whose writer stopped fails the broadcast, and the first one start();
\* so does a first beacon that is too long.
StartFails ==
    /\ life = "starting" /\ loop = "send"
    /\ connected # {} \/ beacon \in TooLong
    /\ life' = "down" /\ loop' = "off" /\ connected' = {} /\ missed' = FALSE
    /\ UNCHANGED <<fieldVars, op, unseen, ticks, beacon, heard>>

Subscribe ==
    /\ loop = "subscribe"
    /\ life' = "up" /\ loop' = "wait" /\ unseen' = FALSE /\ ticks' = 0
    /\ UNCHANGED <<fieldVars, op, beacon, connected, heard, missed>>

SeeChange ==
    /\ loop = "wait" /\ unseen
    /\ unseen' = FALSE /\ ticks' = 0 /\ loop' = "build"
    /\ UNCHANGED <<fieldVars, op, life, beacon, connected, heard, missed>>

TickBeats ==  \* a slip: every tick is a heartbeat
    /\ loop = "wait" /\ loop' = "beat"
    /\ UNCHANGED <<fieldVars, op, unseen, life, ticks, beacon, connected, heard, missed>>

Tick ==
    /\ loop = "wait"
    /\ IF ticks + 1 >= FullTicks
       THEN ticks' = 0 /\ loop' = "build"
       ELSE ticks' = ticks + 1 /\ loop' = "beat"
    /\ UNCHANGED <<fieldVars, op, unseen, life, beacon, connected, heard, missed>>

Beat(gone) ==
    /\ loop = "beat" /\ gone \subseteq connected
    /\ connected' = connected \ gone
    /\ loop' = "wait"
    /\ UNCHANGED <<fieldVars, op, unseen, life, ticks, beacon, heard, missed>>

StopBegin ==
    /\ life = "up"
    /\ life' = "stopping" /\ connected' = {}
    /\ UNCHANGED <<fieldVars, op, unseen, loop, ticks, beacon, heard, missed>>

StopEnds ==
    /\ life = "stopping" /\ loop = "wait"
    /\ life' = "down" /\ loop' = "off" /\ missed' = FALSE
    /\ UNCHANGED <<fieldVars, op, unseen, ticks, beacon, connected, heard>>

\* A peer that has just connected knows nothing of this node.
Connect(p) ==
    /\ life \in {"starting", "up"} /\ p \notin connected
    /\ connected' = connected \union {p}
    /\ heard' = [heard EXCEPT ![p] = None]
    /\ UNCHANGED <<fieldVars, op, unseen, life, loop, ticks, beacon, missed>>

Disconnect(p) ==
    /\ p \in connected
    /\ connected' = connected \ {p}
    /\ UNCHANGED <<fieldVars, op, unseen, life, loop, ticks, beacon, heard, missed>>

LoopStep ==
    \/ BuildMethods \/ BuildEvents \/ Refused \/ Subscribe \/ SeeChange \/ Tick
    \/ \E gone \in SUBSET Peer : Send(gone) \/ Beat(gone)

Next ==
    \/ \E t \in Thread : ThreadStep(t)
    \/ LoopStep
    \/ Start \/ StartFails \/ StopBegin \/ StopEnds
    \/ \E p \in Peer : Connect(p) \/ Disconnect(p)

Spec == Init /\ [][Next]_vars

\* The beacon loop goes on; when a change and a tick are both there, tokio
\* takes either.
FairSpec == Spec /\ WF_vars(LoopStep)

-----------------------------------------------------------------------------
\* A thread that registers an id which has become a field, a method or an event,
\* since it began is one that the other thread overlapped: it was registering the
\* id when that field was inserted.  Only so is a handler replaced, or an id both
\* a method and an event; every other duplicate is refused, however removals and
\* further threads come between the two checks and the insertion.
TakenIdsRefused ==
    [][\A k, m \in Kind, f \in Field :
        registry'[k][f] \notin {registry[k][f], None} /\ registry[m][f] # None =>
            registry'[k][f] \in rivals[m][f]]_fieldVars

\* A finished beacon is the registry of one instant, although it is read from
\* two maps that other threads change.
BeaconsAreSnapshots ==
    [][loop = "copy" => beacon' = Registered]_loop

Unmarked == \E t \in Thread : op[t].at = "mark" \/ (op[t].at = "remove_event" /\ op[t].found)

\* No change is forgotten: when the loop waits, has seen every revision, and no
\* thread is between its change and its mark, the last beacon says it all.  Only
\* what is marked between start()'s own beacon and the subscription is missed,
\* until the next beacon.
NothingForgotten ==
    life = "up" /\ loop = "wait" /\ ~unseen /\ ~missed /\ ~Unmarked =>
        beacon = Registered

\* A peer that stays connected learns the fields this node has, those it missed
\* included, whether it came before or after they were registered; only a beacon
\* that is too long for a frame it never hears.
FieldsBecomeKnown ==
    \A p \in Peer, fields \in Announced \ TooLong :
        (life = "up" /\ p \in connected /\ Registered = fields) ~>
            \/ heard[p] = fields
            \/ life # "up" \/ p \notin connected \/ Registered # fields
=============================================================================
