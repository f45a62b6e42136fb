----------------------------- MODULE Presenters -----------------------------
(***************************************************************************)
(* The presenter table of a GlycoComplex (src/src/node.rs) and the events  *)
(* it publishes.  The dispatch loop enters what beacons say and the        *)
(* cleanup loop removes what has not been heard of for presenter_expiry;   *)
(* both change the table under its lock and publish afterwards, so that    *)
(* their events may cross.  A subscriber keeps a view: it applies          *)
(* Discovered, Changed and Expired in the order of the channel, which it   *)
(* reads fast enough to miss none.                                         *)
(*                                                                         *)
(* A beacon is its presenter's id and its signature.  Time is left out: a  *)
(* record may become stale at any moment, except between its insertion and *)
(* the publication of it, which no await separates.                        *)
(***************************************************************************)
EXTENDS Integers

CONSTANTS
    Id,         \* node ids
    Self,       \* the id of this node, whose own beacons it hears too
    Signature,
    None

ASSUME SelfAssumption == Self \in Id

ASSUME NoneAssumption == None \notin Signature

VARIABLES
    life,       \* the node is down, starting, up, failing to start or stopping
    loopback,   \* loopback_presenter
    table,      \* table[g]: the signature in g's record, or None
    stale,      \* the records whose last_seen lies presenter_expiry back
    hand,       \* the event the dispatch loop is about to publish
    dropped,    \* the beacons the cleanup loop is about to publish as expired
    view,       \* view[g]: what the subscriber believes
    told,       \* told[g]: the signature last published for g (history)
    net,        \* net[g]: Discovered minus Expired since the last stop (history)
    forgotten,  \* in the view when stop() cleared the table (history)
    crossed     \* last published as Expired while in the table (history)

vars == <<life, loopback, table, stale, hand, dropped, view, told, net, forgotten,
          crossed>>
published == <<view, told, net, forgotten, crossed>>

Others == Id \ {Self}

NoEvent == [kind |-> "none"]

Beacons == [id : Id, sig : Signature]

Events ==
    [kind : {"discovered"}, id : Id, sig : Signature]
    \union [kind : {"changed"}, id : Id, previous : Signature, sig : Signature]

TypeOK ==
    /\ life \in {"down", "starting", "up", "failing", "stopping"}
    /\ loopback \in BOOLEAN
    /\ table \in [Id -> Signature \union {None}]
    /\ stale \in SUBSET Id
    /\ hand \in Events \union {NoEvent}
    /\ dropped \in SUBSET Beacons
    /\ view \in [Id -> Signature \union {None}]
    /\ told \in [Id -> Signature \union {None}]
    /\ net \in [Others -> Int]
    /\ forgotten \in SUBSET Id
    /\ crossed \in SUBSET Id

Init ==
    /\ life = "down"
    /\ loopback \in BOOLEAN
    /\ table = [g \in Id |-> None]
    /\ stale = {}
    /\ hand = NoEvent
    /\ dropped = {}
    /\ view = [g \in Id |-> None]
    /\ told = [g \in Id |-> None]
    /\ net = [g \in Others |-> 0]
    /\ forgotten = {}
    /\ crossed = {}

-----------------------------------------------------------------------------
(***************************************************************************)
(* The node's life, as far as the two loops see it.                        *)
(***************************************************************************)
Start ==
    /\ life = "down" /\ life' = "starting"
    /\ UNCHANGED <<loopback, table, stale, hand, dropped, published>>

StartEnds ==
    /\ life = "starting" /\ life' \in {"up", "failing"}
    /\ UNCHANGED <<loopback, table, stale, hand, dropped, published>>

StopBegin ==
    /\ life = "up" /\ life' = "stopping"
    /\ UNCHANGED <<loopback, table, stale, hand, dropped, published>>

\* A loop ends between two events or ticks: it has nothing left to publish.
LoopsEnded == hand = NoEvent /\ dropped = {}

\* A start that failed leaves the table as it is.
FailEnds ==
    /\ life = "failing" /\ LoopsEnded
    /\ life' = "down"
    /\ UNCHANGED <<loopback, table, stale, hand, dropped, published>>

\* stop() clears the table and tells nobody.
StopEnds ==
    /\ life = "stopping" /\ LoopsEnded
    /\ life' = "down"
    /\ table' = [g \in Id |-> None]
    /\ stale' = {}
    /\ net' = [g \in Others |-> 0]
    /\ forgotten' = forgotten \union {g \in Id : view[g] # None}
    /\ crossed' = {}
    /\ UNCHANGED <<loopback, hand, dropped, view, told>>

SetLoopback ==
    /\ loopback' \in BOOLEAN
    /\ UNCHANGED <<life, table, stale, hand, dropped, published>>

-----------------------------------------------------------------------------
(***************************************************************************)
(* The dispatch loop.                                                      *)
(***************************************************************************)
LoopsRun == life # "down"

Discovered(g, s) == [kind |-> "discovered", id |-> g, sig |-> s]

Changed(g, s) == [kind |-> "changed", id |-> g, previous |-> table[g], sig |-> s]

EventOfFirst(g, s) ==  \* a slip: the record is compared after it was replaced
    IF table[g] = None /\ (g # Self \/ loopback) THEN Discovered(g, s) ELSE NoEvent

EventOf(g, s) ==
    IF table[g] = None
    THEN IF g = Self /\ ~loopback THEN NoEvent
         ELSE Discovered(g, s)
    ELSE IF table[g] # s THEN Changed(g, s) ELSE NoEvent

\* process_beacon up to the release of the lock.
ProcessBeacon(g, s) ==
    /\ LoopsRun /\ hand = NoEvent
    /\ table' = [table EXCEPT ![g] = s]
    /\ stale' = stale \ {g}
    /\ hand' = EventOf(g, s)
    /\ UNCHANGED <<life, loopback, dropped, published>>

ProcessHeartbeat(g) ==
    /\ LoopsRun /\ hand = NoEvent
    /\ table[g] # None
    /\ stale' = stale \ {g}
    /\ UNCHANGED <<life, loopback, table, hand, dropped, published>>

\* The rest of process_beacon.
Publish ==
    /\ hand # NoEvent
    /\ view' = [view EXCEPT ![hand.id] = hand.sig]
    /\ told' = [told EXCEPT ![hand.id] = hand.sig]
    /\ net' = [g \in Others |->
                  net[g] + (IF g = hand.id /\ hand.kind = "discovered" THEN 1 ELSE 0)]
    /\ forgotten' = forgotten \ {hand.id}
    /\ crossed' = crossed \ {hand.id}
    /\ hand' = NoEvent
    /\ UNCHANGED <<life, loopback, table, stale, dropped>>

-----------------------------------------------------------------------------
(***************************************************************************)
(* The cleanup loop.                                                       *)
(***************************************************************************)
Age(g) ==
    /\ table[g] # None /\ ~(hand # NoEvent /\ hand.id = g)
    /\ stale' = stale \union {g}
    /\ UNCHANGED <<life, loopback, table, hand, dropped, published>>

Expired == {g \in Id : table[g] # None /\ g \in stale}

TickQuietly ==  \* a slip: what is removed is not published
    /\ LoopsRun /\ dropped = {} /\ Expired # {}
    /\ table' = [g \in Id |-> IF g \in Expired THEN None ELSE table[g]]
    /\ stale' = stale \ Expired
    /\ UNCHANGED <<life, loopback, hand, dropped, published>>

TickOnlyPublish ==  \* a slip: what is expired is published and not removed
    /\ LoopsRun /\ dropped = {} /\ Expired # {}
    /\ dropped' = {[id |-> g, sig |-> table[g]] : g \in Expired}
    /\ UNCHANGED <<life, loopback, table, stale, hand, published>>

\* A tick up to the release of the lock.
Tick ==
    /\ LoopsRun /\ dropped = {} /\ Expired # {}
    /\ dropped' = {[id |-> g, sig |-> table[g]] : g \in Expired}
    /\ table' = [g \in Id |-> IF g \in Expired THEN None ELSE table[g]]
    /\ stale' = stale \ Expired
    /\ UNCHANGED <<life, loopback, hand, published>>

\* The code goes through them in the order of their ids.
PublishExpired(b) ==
    /\ b \in dropped
    /\ dropped' = dropped \ {b}
    /\ view' = [view EXCEPT ![b.id] = None]
    /\ net' = [g \in Others |-> net[g] - (IF g = b.id THEN 1 ELSE 0)]
    /\ forgotten' = forgotten \ {b.id}
    /\ crossed' = IF table[b.id] = None THEN crossed ELSE crossed \union {b.id}
    /\ UNCHANGED <<life, loopback, table, stale, hand, told>>

-----------------------------------------------------------------------------
Next ==
    \/ Start \/ StartEnds \/ StopBegin \/ FailEnds \/ StopEnds \/ SetLoopback
    \/ \E g \in Id : ProcessHeartbeat(g) \/ Age(g)
    \/ \E g \in Id, s \in Signature : ProcessBeacon(g, s)
    \/ Publish \/ Tick
    \/ \E b \in Beacons : PublishExpired(b)

Spec == Init /\ [][Next]_vars

\* The two loops go on; nothing is assumed of beacons, heartbeats and the user.
Fairness ==
    /\ WF_vars(Publish) /\ WF_vars(Tick)
    /\ WF_vars(\E b \in Beacons : PublishExpired(b))

FairSpec == Spec /\ Fairness

-----------------------------------------------------------------------------
(***************************************************************************)
(* Properties.  This node itself is left out of them: its discovery is     *)
(* published or not according to loopback, its changes always.             *)
(***************************************************************************)
InHand(g) == hand # NoEvent /\ hand.id = g

Dropping(g) == \E b \in dropped : b.id = g

\* The events add up: published and about to be published, there is one more
\* Discovered than Expired for a node in the table and as many for one that is
\* not, although the two loops change the table and publish side by side.
EventsAddUp ==
    \A g \in Others :
        net[g] + (IF InHand(g) /\ hand.kind = "discovered" THEN 1 ELSE 0)
               - (IF Dropping(g) THEN 1 ELSE 0)
            = (IF table[g] # None THEN 1 ELSE 0)

\* What a Changed event calls the previous beacon is what was last published.
ChangesChain ==
    \A g \in Others :
        InHand(g) /\ hand.kind = "changed" => hand.previous = told[g]

\* The subscriber believes in no node that has left the table, unless its
\* Expired event is on its way or stop() cleared the table behind its back.
NoGhosts ==
    \A g \in Others :
        view[g] # None => table[g] # None \/ Dropping(g) \/ g \in forgotten

\* When nothing is on its way, the view of a node in the table is right, unless
\* the Expired event of an earlier record overtook the Discovered event of this
\* one: then the subscriber believes the node absent until its beacon changes.
WrongOnlyIfCrossed ==
    \A g \in Others :
        table[g] # None /\ ~InHand(g) /\ ~Dropping(g) =>
            view[g] = table[g] \/ (view[g] = None /\ g \in crossed)

\* What is published fits the table: its discoveries and expiries, and what it
\* says of the beacon before.
EventsFit == EventsAddUp /\ ChangesChain

\* What the subscriber makes of it is right, for nodes that have left the table
\* and for those that are in it, but for the exceptions that these two name.
ViewIsRight == NoGhosts /\ WrongOnlyIfCrossed

\* A node that falls silent leaves the subscriber's view, while this one runs.
SilentNodesLeave ==
    \A g \in Others :
        view[g] # None /\ (table[g] = None \/ g \in stale) ~>
            \/ view[g] = None
            \/ table[g] # None /\ g \notin stale
            \/ g \in forgotten \/ ~LoopsRun
=============================================================================
