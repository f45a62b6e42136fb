-------------------------- MODULE PresentersProofs --------------------------
(***************************************************************************)
(* Theorems about Presenters, for any nodes and signatures, and about      *)
(* Presence, for any intervals and bounds.                                 *)
(***************************************************************************)
EXTENDS MCPresenters, Sequences, TLAPS

USE NoneAssumption

(***************************************************************************)
(* What a beacon gives rise to.                                            *)
(***************************************************************************)
LEMMA EventTypes ==
    ASSUME TypeOK, NEW g \in Id, NEW s \in Signature
    PROVE  EventOf(g, s) \in Events \union {NoEvent}
<1>1. CASE table[g] = None
  BY <1>1 DEF EventOf, Events, Discovered, NoEvent
<1>2. CASE table[g] # None
  <2>1. table[g] \in Signature
    BY <1>2 DEF TypeOK
  <2>2. Changed(g, s) \in Events
    BY <2>1 DEF Changed, Events
  <2> QED
    BY <1>2, <2>2 DEF EventOf
<1> QED
  BY <1>1, <1>2

\* Another node's first beacon is a discovery, a different one a change, and
\* one that says nothing new leads to no event.
LEMMA EventFacts ==
    ASSUME TypeOK, NEW g \in Others, NEW s \in Signature
    PROVE  /\ table[g] = None =>
                  /\ EventOf(g, s) # NoEvent
                  /\ EventOf(g, s).kind = "discovered"
           /\ table[g] # None /\ table[g] # s =>
                  /\ EventOf(g, s) # NoEvent
                  /\ EventOf(g, s).kind = "changed"
                  /\ EventOf(g, s).previous = table[g]
           /\ table[g] = s => EventOf(g, s) = NoEvent
BY DEF EventOf, Discovered, Changed, NoEvent, Others

\* An event is about the node and the signature of the beacon it was made of.
LEMMA EventIsAbout ==
    ASSUME NEW g \in Id, NEW s \in Signature, EventOf(g, s) # NoEvent
    PROVE  EventOf(g, s).id = g /\ EventOf(g, s).sig = s
BY DEF EventOf, Discovered, Changed

LEMMA HandTypes ==
    ASSUME TypeOK, hand # NoEvent
    PROVE  hand.id \in Id /\ hand.sig \in Signature
BY DEF TypeOK, Events

(***************************************************************************)
(* Type correctness.                                                       *)
(***************************************************************************)
LEMMA InitType == Init => TypeOK
BY DEF Init, TypeOK

LEMMA StepType == TypeOK /\ [Next]_vars => TypeOK'
<1> SUFFICES ASSUME TypeOK, [Next]_vars PROVE TypeOK'
  OBVIOUS
<1> USE DEF TypeOK, published
<1>1. CASE UNCHANGED vars
  BY <1>1 DEF vars
<1>2. CASE Start \/ StartEnds \/ StopBegin \/ FailEnds \/ SetLoopback
  BY <1>2 DEF Start, StartEnds, StopBegin, FailEnds, SetLoopback
<1>3. CASE StopEnds
  BY <1>3 DEF StopEnds
<1>4. ASSUME NEW g \in Id, ProcessHeartbeat(g) \/ Age(g)
      PROVE  TypeOK'
  BY <1>4 DEF ProcessHeartbeat, Age
<1>5. ASSUME NEW g \in Id, NEW s \in Signature, ProcessBeacon(g, s)
      PROVE  TypeOK'
  <2>1. hand' \in Events \union {NoEvent}
    BY <1>5, EventTypes DEF ProcessBeacon
  <2>2. table' \in [Id -> Signature \union {None}]
    BY <1>5 DEF ProcessBeacon
  <2> QED
    BY <1>5, <2>1, <2>2 DEF ProcessBeacon
<1>6. CASE Publish
  <2>1. hand.id \in Id /\ hand.sig \in Signature
    BY <1>6, HandTypes DEF Publish
  <2>2. net' \in [Others -> Int]
    BY <1>6 DEF Publish
  <2> QED
    BY <1>6, <2>1, <2>2 DEF Publish
<1>7. CASE Tick
  <2>1. \A g \in Expired : g \in Id /\ table[g] \in Signature
    BY DEF Expired
  <2>2. dropped' \in SUBSET Beacons
    BY <1>7, <2>1 DEF Tick, Beacons
  <2>3. table' \in [Id -> Signature \union {None}]
    BY <1>7 DEF Tick
  <2> QED
    BY <1>7, <2>2, <2>3 DEF Tick
<1>8. ASSUME NEW d \in Beacons, PublishExpired(d)
      PROVE  TypeOK'
  <2>1. d.id \in Id
    BY DEF Beacons
  <2>2. net' \in [Others -> Int]
    BY <1>8 DEF PublishExpired
  <2> QED
    BY <1>8, <2>1, <2>2 DEF PublishExpired
<1> QED
  BY <1>1, <1>2, <1>3, <1>4, <1>5, <1>6, <1>7, <1>8 DEF Next

\* The types.
THEOREM TypeCorrect == Spec => []TypeOK
<1> QED
  BY InitType, StepType, PTL DEF Spec

(***************************************************************************)
(* The inductive invariant.  The dispatch loop publishes what it has just  *)
(* entered into the table; the cleanup loop publishes one removal a node;  *)
(* and a node whose event has been published was told as it is listed.     *)
(***************************************************************************)
HandIsListed ==
    hand # NoEvent => table[hand.id] = hand.sig /\ hand.id \notin stale

OneEach == \A d, c \in dropped : d.id = c.id => d = c

ListedIsTold ==
    \A g \in Others : table[g] # None /\ ~InHand(g) => told[g] = table[g]

LoopInv == TypeOK /\ HandIsListed /\ OneEach

TableInv == LoopInv /\ ListedIsTold /\ EventsAddUp /\ ChangesChain /\ NoGhosts
                    /\ WrongOnlyIfCrossed

LEMMA StepLoop == LoopInv /\ [Next]_vars => LoopInv'
<1> SUFFICES ASSUME LoopInv, [Next]_vars PROVE HandIsListed' /\ OneEach'
  BY StepType DEF LoopInv
<1>0. TypeOK
  BY DEF LoopInv
<1> USE DEF LoopInv, HandIsListed, OneEach
<1>1. CASE UNCHANGED vars
  BY <1>1 DEF vars
<1>2. CASE Start \/ StartEnds \/ StopBegin \/ FailEnds \/ SetLoopback
  BY <1>2 DEF Start, StartEnds, StopBegin, FailEnds, SetLoopback
<1>3. CASE StopEnds
  BY <1>3 DEF StopEnds, LoopsEnded
<1>4. ASSUME NEW g \in Id, ProcessHeartbeat(g) \/ Age(g)
      PROVE  HandIsListed' /\ OneEach'
  BY <1>4 DEF ProcessHeartbeat, Age
<1>5. ASSUME NEW g \in Id, NEW s \in Signature, ProcessBeacon(g, s)
      PROVE  HandIsListed' /\ OneEach'
  <2>1. hand' = EventOf(g, s) /\ table'[g] = s /\ g \notin stale'
    BY <1>5, <1>0 DEF ProcessBeacon, TypeOK
  <2> QED
    BY <1>5, <2>1, EventIsAbout DEF ProcessBeacon
<1>6. CASE Publish
  BY <1>6 DEF Publish
<1>7. CASE Tick
  <2>1. hand' # NoEvent => hand'.id \in Id /\ hand'.id \notin Expired
    BY <1>7, <1>0, HandTypes DEF Tick, Expired
  <2>2. HandIsListed'
    BY <1>7, <2>1 DEF Tick
  <2>3. OneEach'
    BY <1>7 DEF Tick
  <2> QED
    BY <2>2, <2>3
<1>8. ASSUME NEW d \in Beacons, PublishExpired(d)
      PROVE  HandIsListed' /\ OneEach'
  BY <1>8 DEF PublishExpired
<1> QED
  BY <1>1, <1>2, <1>3, <1>4, <1>5, <1>6, <1>7, <1>8 DEF Next

(***************************************************************************)
(* One lemma for each action that touches what the properties are about.   *)
(***************************************************************************)
Promises == ListedIsTold /\ EventsAddUp /\ ChangesChain /\ NoGhosts
                         /\ WrongOnlyIfCrossed

LEMMA QuietStep ==
    ASSUME Promises, UNCHANGED <<table, hand, dropped, published>>
    PROVE  Promises'
<1>1. \A g \in Others : (InHand(g)' <=> InHand(g)) /\ (Dropping(g)' <=> Dropping(g))
  BY DEF InHand, Dropping
<1>2. ListedIsTold' /\ ChangesChain'
  BY <1>1 DEF Promises, published, ListedIsTold, ChangesChain
<1>3. EventsAddUp'
  BY <1>1 DEF Promises, published, EventsAddUp
<1>4. NoGhosts' /\ WrongOnlyIfCrossed'
  BY <1>1 DEF Promises, published, NoGhosts, WrongOnlyIfCrossed
<1> QED
  BY <1>2, <1>3, <1>4 DEF Promises

LEMMA StopStep ==
    ASSUME TypeOK, Promises, StopEnds
    PROVE  Promises'
<1>1. \A g \in Others : g \in Id /\ ~InHand(g)' /\ ~Dropping(g)'
  BY DEF StopEnds, LoopsEnded, InHand, Dropping, Others
<1>2. \A g \in Others : table'[g] = None /\ net'[g] = 0
                        /\ (view'[g] # None => g \in forgotten')
  BY <1>1 DEF StopEnds
<1> QED
  BY <1>1, <1>2 DEF Promises, ListedIsTold, EventsAddUp, ChangesChain, NoGhosts,
                    WrongOnlyIfCrossed

LEMMA BeaconStep ==
    ASSUME LoopInv, Promises, NEW g \in Id, NEW s \in Signature, ProcessBeacon(g, s)
    PROVE  Promises'
<1>1. TypeOK /\ hand = NoEvent /\ hand' = EventOf(g, s)
  BY DEF LoopInv, ProcessBeacon
<1>2. \A h \in Others : h \in Id /\ ~InHand(h) /\ (Dropping(h)' <=> Dropping(h))
  BY <1>1 DEF InHand, Dropping, Others, ProcessBeacon
<1>3. \A h \in Others : h # g => ~InHand(h)' /\ table'[h] = table[h]
  BY <1>1, <1>2, EventIsAbout DEF InHand, ProcessBeacon, TypeOK
<1>4. g \in Others => table'[g] = s /\ table'[g] # None
  BY <1>1 DEF ProcessBeacon, TypeOK
<1>5. g \in Others =>
          /\ table[g] = None => InHand(g)' /\ hand'.kind = "discovered"
          /\ table[g] # None /\ table[g] # s =>
                 InHand(g)' /\ hand'.kind = "changed" /\ hand'.previous = table[g]
          /\ table[g] = s => ~InHand(g)'
  BY <1>1, <1>4, EventFacts, EventIsAbout DEF InHand
<1>6. UNCHANGED <<view, told, net, forgotten, crossed>>
  BY DEF ProcessBeacon, published
<1>7. ListedIsTold'
  BY <1>2, <1>3, <1>4, <1>5, <1>6 DEF Promises, ListedIsTold
<1>8. EventsAddUp'
  <2> SUFFICES ASSUME NEW h \in Others
               PROVE  net[h] + (IF InHand(h)' /\ hand'.kind = "discovered" THEN 1 ELSE 0)
                             - (IF Dropping(h)' THEN 1 ELSE 0)
                          = (IF table'[h] # None THEN 1 ELSE 0)
    BY <1>6 DEF EventsAddUp
  <2>1. net[h] - (IF Dropping(h) THEN 1 ELSE 0) = (IF table[h] # None THEN 1 ELSE 0)
    BY <1>1, <1>2 DEF Promises, EventsAddUp, TypeOK
  <2>2. net[h] \in Int
    BY <1>1 DEF TypeOK
  <2>3. CASE h # g
    BY <1>2, <1>3, <2>1, <2>2, <2>3
  <2>4. CASE h = g
    BY <1>2, <1>4, <1>5, <2>1, <2>2, <2>4
  <2> QED
    BY <2>3, <2>4
<1>9. ChangesChain'
  BY <1>2, <1>3, <1>4, <1>5, <1>6 DEF Promises, ListedIsTold, ChangesChain
<1>10. NoGhosts' /\ WrongOnlyIfCrossed'
  BY <1>2, <1>3, <1>4, <1>5, <1>6 DEF Promises, NoGhosts, WrongOnlyIfCrossed
<1> QED
  BY <1>7, <1>8, <1>9, <1>10 DEF Promises

LEMMA PublishStep ==
    ASSUME LoopInv, Promises, Publish
    PROVE  Promises'
<1>1. /\ TypeOK /\ hand # NoEvent /\ hand' = NoEvent
      /\ table[hand.id] = hand.sig
      /\ hand.id \in Id /\ hand.sig \in Signature
  BY HandTypes DEF LoopInv, HandIsListed, Publish
<1>2. \A h \in Others : h \in Id /\ ~InHand(h)' /\ (Dropping(h)' <=> Dropping(h))
                        /\ (InHand(h) <=> h = hand.id)
  BY <1>1 DEF InHand, Dropping, Others, Publish
<1>3. \A h \in Others :
          IF h = hand.id
          THEN view'[h] = table[h] /\ told'[h] = table[h] /\ table[h] # None
          ELSE /\ view'[h] = view[h] /\ told'[h] = told[h]
               /\ h \in forgotten' <=> h \in forgotten
               /\ h \in crossed' <=> h \in crossed
  BY <1>1, <1>2 DEF Publish, TypeOK
<1>4. table' = table
  BY DEF Publish
<1>5. EventsAddUp'
  <2>0. \A h \in Others : net'[h] \in Int
    BY <1>1 DEF Publish, TypeOK
  <2> SUFFICES ASSUME NEW h \in Others
               PROVE  net'[h] - (IF Dropping(h) THEN 1 ELSE 0)
                          = (IF table[h] # None THEN 1 ELSE 0)
    BY <1>2, <1>4, <2>0 DEF EventsAddUp
  <2>1. net'[h] = net[h] + (IF InHand(h) /\ hand.kind = "discovered" THEN 1 ELSE 0)
    BY <1>2 DEF Publish
  <2> QED
    BY <2>1, <1>1 DEF Promises, EventsAddUp, TypeOK
<1>6. ListedIsTold' /\ ChangesChain'
  BY <1>2, <1>3, <1>4 DEF Promises, ListedIsTold, ChangesChain
<1>7. NoGhosts' /\ WrongOnlyIfCrossed'
  BY <1>2, <1>3, <1>4 DEF Promises, NoGhosts, WrongOnlyIfCrossed
<1> QED
  BY <1>5, <1>6, <1>7 DEF Promises

LEMMA TickStep ==
    ASSUME LoopInv, Promises, Tick
    PROVE  Promises'
<1>1. TypeOK /\ dropped = {} /\ UNCHANGED <<hand, view, told, net, forgotten, crossed>>
  BY DEF LoopInv, Tick, published
<1>2. \A h \in Others : h \in Id /\ ~Dropping(h) /\ (InHand(h)' <=> InHand(h))
  BY <1>1 DEF InHand, Dropping, Others
<1>3. \A h \in Others : h \in Expired => table[h] # None /\ ~InHand(h)
  BY DEF Expired, InHand, LoopInv, HandIsListed
<1>4. \A h \in Others :
          IF h \in Expired
          THEN table'[h] = None /\ Dropping(h)'
          ELSE table'[h] = table[h] /\ ~Dropping(h)'
  <2>1. dropped' = {[id |-> g, sig |-> table[g]] : g \in Expired}
    BY DEF Tick
  <2>2. \A h \in Others : Dropping(h)' <=> h \in Expired
    <3> SUFFICES ASSUME NEW h \in Others PROVE Dropping(h)' <=> h \in Expired
      OBVIOUS
    <3>1. Dropping(h)' => h \in Expired
      BY <2>1 DEF Dropping
    <3>2. ASSUME h \in Expired PROVE Dropping(h)'
      <4>1. [id |-> h, sig |-> table[h]] \in dropped'
        BY <2>1, <3>2
      <4> QED
        BY <4>1 DEF Dropping
    <3> QED
      BY <3>1, <3>2
  <2> QED
    BY <1>1, <1>2, <2>2 DEF Tick, TypeOK
<1>5. EventsAddUp'
  BY <1>1, <1>2, <1>3, <1>4 DEF Promises, EventsAddUp, TypeOK
<1>6. ListedIsTold' /\ ChangesChain'
  BY <1>1, <1>2, <1>3, <1>4 DEF Promises, ListedIsTold, ChangesChain
<1>7. NoGhosts' /\ WrongOnlyIfCrossed'
  BY <1>1, <1>2, <1>3, <1>4 DEF Promises, NoGhosts, WrongOnlyIfCrossed
<1> QED
  BY <1>5, <1>6, <1>7 DEF Promises

LEMMA ExpiredStep ==
    ASSUME LoopInv, Promises, NEW d \in Beacons, PublishExpired(d)
    PROVE  Promises'
<1>1. TypeOK /\ d \in dropped /\ UNCHANGED <<hand, table, told>>
  BY DEF LoopInv, PublishExpired
<1>2. \A h \in Others : h \in Id /\ (InHand(h)' <=> InHand(h))
  BY <1>1 DEF InHand, Others
<1>3. \A h \in Others :
          IF h = d.id
          THEN Dropping(h) /\ ~Dropping(h)'
          ELSE Dropping(h)' <=> Dropping(h)
  BY <1>1 DEF LoopInv, OneEach, Dropping, PublishExpired
<1>4. \A h \in Others :
          IF h = d.id
          THEN view'[h] = None /\ (table[h] # None => h \in crossed')
          ELSE /\ view'[h] = view[h]
               /\ h \in forgotten' <=> h \in forgotten
               /\ h \in crossed' <=> h \in crossed
  BY <1>1, <1>2 DEF PublishExpired, TypeOK
<1>5. \A h \in Others : net'[h] = net[h] - (IF h = d.id THEN 1 ELSE 0)
  BY DEF PublishExpired
<1>6. EventsAddUp'
  <2> SUFFICES ASSUME NEW h \in Others
               PROVE  net'[h] + (IF InHand(h) /\ hand.kind = "discovered" THEN 1 ELSE 0)
                              - (IF Dropping(h)' THEN 1 ELSE 0)
                          = (IF table[h] # None THEN 1 ELSE 0)
    BY <1>1, <1>2 DEF EventsAddUp
  <2>1. net[h] \in Int
    BY <1>1 DEF TypeOK
  <2>2. net[h] + (IF InHand(h) /\ hand.kind = "discovered" THEN 1 ELSE 0)
               - (IF Dropping(h) THEN 1 ELSE 0)
            = (IF table[h] # None THEN 1 ELSE 0)
    BY DEF Promises, EventsAddUp
  <2>3. CASE h # d.id
    BY <1>3, <1>5, <2>1, <2>2, <2>3
  <2>4. CASE h = d.id
    BY <1>3, <1>5, <2>1, <2>2, <2>4
  <2> QED
    BY <2>3, <2>4
<1>7. ListedIsTold' /\ ChangesChain'
  BY <1>1, <1>2 DEF Promises, ListedIsTold, ChangesChain
<1>8. NoGhosts' /\ WrongOnlyIfCrossed'
  BY <1>1, <1>2, <1>3, <1>4 DEF Promises, NoGhosts, WrongOnlyIfCrossed
<1> QED
  BY <1>6, <1>7, <1>8 DEF Promises

(***************************************************************************)
(* The theorems.                                                           *)
(***************************************************************************)
LEMMA InitTable == Init => TableInv
<1> SUFFICES ASSUME Init PROVE TableInv
  OBVIOUS
<1>1. \A g \in Others : g \in Id /\ ~InHand(g) /\ ~Dropping(g)
  BY DEF Init, InHand, Dropping, Others
<1>2. LoopInv
  BY InitType DEF Init, LoopInv, HandIsListed, OneEach
<1> QED
  BY <1>1, <1>2 DEF Init, TableInv, ListedIsTold, EventsAddUp, ChangesChain, NoGhosts,
                    WrongOnlyIfCrossed

LEMMA StepTable == TableInv /\ [Next]_vars => TableInv'
<1> SUFFICES ASSUME TableInv, [Next]_vars PROVE Promises'
  BY StepLoop DEF TableInv, Promises
<1>0. LoopInv /\ TypeOK /\ Promises
  BY DEF TableInv, Promises, LoopInv
<1>1. CASE UNCHANGED vars
  BY <1>0, <1>1, QuietStep DEF vars, published
<1>2. CASE Start \/ StartEnds \/ StopBegin \/ FailEnds \/ SetLoopback
  BY <1>0, <1>2, QuietStep DEF Start, StartEnds, StopBegin, FailEnds, SetLoopback
<1>3. CASE StopEnds
  BY <1>0, <1>3, StopStep
<1>4. ASSUME NEW g \in Id, ProcessHeartbeat(g) \/ Age(g)
      PROVE  Promises'
  BY <1>0, <1>4, QuietStep DEF ProcessHeartbeat, Age
<1>5. ASSUME NEW g \in Id, NEW s \in Signature, ProcessBeacon(g, s)
      PROVE  Promises'
  BY <1>0, <1>5, BeaconStep
<1>6. CASE Publish
  BY <1>0, <1>6, PublishStep
<1>7. CASE Tick
  BY <1>0, <1>7, TickStep
<1>8. ASSUME NEW d \in Beacons, PublishExpired(d)
      PROVE  Promises'
  BY <1>0, <1>8, ExpiredStep
<1> QED
  BY <1>1, <1>2, <1>3, <1>4, <1>5, <1>6, <1>7, <1>8 DEF Next

LEMMA TableAlways == Spec => []TableInv
<1> QED
  BY InitTable, StepTable, PTL DEF Spec

\* Discovered and Expired of a node alternate but for the one on its way, and a
\* Changed event's previous beacon is the one last published.
THEOREM EventsAlwaysFit == Spec => []EventsFit
<1>1. TableInv => EventsFit
  BY DEF TableInv, EventsFit
<1> QED
  BY <1>1, TableAlways, PTL

\* A subscriber believes only in nodes that are listed, expiring or forgotten,
\* and crossed events are all that can make the view of a listed node wrong.
THEOREM ViewAlwaysRight == Spec => []ViewIsRight
<1>1. TableInv => ViewIsRight
  BY DEF TableInv, ViewIsRight
<1> QED
  BY <1>1, TableAlways, PTL

(***************************************************************************)
(* The timers of two nodes (Presence).  The beacon loop sends its next     *)
(* message within Until, and never more than a Gap after the last, so what *)
(* has passed since another moment is counted in the messages sent since.  *)
(***************************************************************************)
Until ==
    IF beatDue \/ busy > Interval - beat THEN busy ELSE Interval - beat

\* The record of a node that is present is as old as the messages that came to
\* nothing since the one that refreshed it.
SilenceInv ==
    present =>
        /\ \A i \in DOMAIN underway : age <= (lost + i) * P!Gap + underway[i].age
        /\ age + Until <= (lost + Len(underway) + 1) * P!Gap

\* A node is away for no longer than since a full beacon that is on the way was
\* due, or no longer than since the last full beacon.
AwayInv ==
    \/ \E i \in DOMAIN underway :
          underway[i].full /\ away <= FullTicks * P!Gap + underway[i].age
    \/ away + Until <= (ticks + 1) * P!Gap

TimeInv == P!TypeOK /\ SilenceInv /\ AwayInv

Message == [full : BOOLEAN, age : 0..MaxDelay]

LEMMA Multiples ==
    ASSUME NEW m \in Nat, NEW n \in Nat, NEW g \in Nat
    PROVE  /\ m * g \in Nat
           /\ (m + 1) * g = m * g + g
           /\ m <= n => m * g <= n * g
<1>1. m * g \in Nat /\ (m + 1) * g = m * g + g
  OBVIOUS
<1>2. ASSUME m <= n PROVE m * g <= n * g
  <2>1. n * g = m * g + (n - m) * g /\ (n - m) * g >= 0
    BY <1>2
  <2> QED
    BY <1>1, <2>1
<1> QED
  BY <1>1, <1>2

LEMMA GapFacts ==
    ASSUME stuck \in BOOLEAN
    PROVE  /\ P!Gap \in Nat /\ Interval <= P!Gap
           /\ stuck => WriteTimeout <= P!Gap
BY PresenceAssumption DEF P!Gap

\* A timer's next step.
LEMMA NextBeat ==
    ASSUME NEW n \in Nat \ {0}, NEW t \in 0..n-1
    PROVE  /\ (t + 1) % n \in 0..n-1
           /\ (t + 1) % n = IF t + 1 = n THEN 0 ELSE t + 1
OBVIOUS

\* What a queue of messages is after one was sent, or one arrived or was lost.
LEMMA Sending ==
    ASSUME NEW q \in Seq(Message), NEW m \in Message
    PROVE  /\ Append(q, m) \in Seq(Message) /\ Len(Append(q, m)) = Len(q) + 1
           /\ \A i \in DOMAIN Append(q, m) :
                  Append(q, m)[i] = IF i = Len(q) + 1 THEN m ELSE q[i]
OBVIOUS

LEMMA Arriving ==
    ASSUME NEW q \in Seq(Message), q # <<>>
    PROVE  /\ Tail(q) \in Seq(Message) /\ Len(Tail(q)) = Len(q) - 1
           /\ Head(q) = q[1] /\ q[1] \in Message /\ Len(q) >= 1
           /\ \A i \in DOMAIN Tail(q) : Tail(q)[i] = q[i + 1]
OBVIOUS

LEMMA OneOlder ==
    ASSUME NEW m \in Message, m.age < MaxDelay
    PROVE  /\ [m EXCEPT !.age = @ + 1] \in Message
           /\ [m EXCEPT !.age = @ + 1].full = m.full
           /\ [m EXCEPT !.age = @ + 1].age = m.age + 1
BY PresenceAssumption DEF Message

TimeTypes ==
    /\ stuck \in BOOLEAN
    /\ beat \in 0..Interval-1 /\ beatDue \in BOOLEAN
    /\ ticks \in 0..FullTicks-1
    /\ busy \in 0..WriteTimeout /\ (busy > 0 => stuck)
    /\ underway \in Seq(Message) /\ Len(underway) <= MaxInFlight
    /\ lost \in 0..MaxLost
    /\ present \in BOOLEAN /\ age \in 0..Expiry
    /\ sweep \in 0..Cleanup-1 /\ sweepDue \in BOOLEAN
    /\ away \in 0..P!Longest+1 /\ (present => away = 0)

LEMMA TypesAreTyped == P!TypeOK <=> TimeTypes
BY DEF P!TypeOK, TimeTypes, Message

LEMMA TimeConstants ==
    /\ Interval \in Nat \ {0} /\ FullTicks \in Nat \ {0} /\ Cleanup \in Nat \ {0}
    /\ Expiry \in Nat /\ WriteTimeout \in Nat /\ MaxDelay \in Nat
    /\ MaxInFlight \in Nat /\ MaxLost \in Nat
BY PresenceAssumption

LEMMA MessageAge ==
    ASSUME NEW m \in Message
    PROVE  m.age \in Nat /\ m.age <= MaxDelay
BY TimeConstants DEF Message

LEMMA Ages ==
    ASSUME TimeTypes
    PROVE  \A i \in DOMAIN underway : underway[i].age \in Nat /\ underway[i].age <= MaxDelay
<1>1. \A i \in DOMAIN underway : underway[i] \in Message
  BY DEF TimeTypes
<1> QED
  BY <1>1, MessageAge

LEMMA UntilFacts ==
    ASSUME TimeTypes
    PROVE  Until \in 0..P!Gap /\ Until >= busy
<1>1. Interval - beat \in 0..P!Gap
  BY GapFacts, TimeConstants DEF TimeTypes
<1>2. busy \in 0..P!Gap
  BY GapFacts, TimeConstants DEF TimeTypes
<1>3. Until = busy \/ (Until = Interval - beat /\ ~(busy > Interval - beat))
  BY DEF Until
<1> QED
  BY <1>1, <1>2, <1>3, GapFacts DEF TimeTypes

\* The end of a broadcast lies before the next message, and so does the timer.
LEMMA NextUntil ==
    ASSUME TimeTypes, busy' \in IF stuck THEN 0..WriteTimeout ELSE {0},
           beatDue' \in BOOLEAN, UNCHANGED <<stuck, beat>>
    PROVE  Until' \in 0..P!Gap
<1>1. Interval - beat' \in 0..P!Gap
  BY GapFacts, TimeConstants DEF TimeTypes
<1>2. busy' \in 0..P!Gap
  BY GapFacts, TimeConstants DEF TimeTypes
<1>3. Until' = busy' \/ Until' = Interval - beat'
  BY DEF Until
<1> QED
  BY <1>1, <1>2, <1>3

\* A step of time brings every moment one unit nearer.
LEMMA Elapses ==
    ASSUME TimeTypes, P!Elapse
    PROVE  /\ Until' = Until - 1
           /\ DOMAIN underway' = DOMAIN underway /\ Len(underway') = Len(underway)
           /\ underway' \in Seq(Message)
           /\ \A i \in DOMAIN underway :
                  /\ underway'[i].full = underway[i].full
                  /\ underway'[i].age = underway[i].age + 1
           /\ beat' \in 0..Interval-1 /\ beatDue' \in BOOLEAN
           /\ busy' \in 0..WriteTimeout /\ (busy' > 0 => stuck)
           /\ UNCHANGED <<stuck, ticks, lost, present>>
<1>1. Interval \in Nat \ {0} /\ WriteTimeout \in Nat /\ MaxDelay \in Nat
  BY TimeConstants
<1>2. /\ beat' \in 0..Interval-1
      /\ beat' = IF beat + 1 = Interval THEN 0 ELSE beat + 1
  BY <1>1, NextBeat DEF TimeTypes, P!Elapse
<1>3. /\ beatDue' = (beatDue \/ beat' = 0)
      /\ busy' = IF busy = 0 THEN 0 ELSE busy - 1
      /\ ~(beatDue /\ busy = 0)
      /\ UNCHANGED <<stuck, ticks, lost, present>>
  BY DEF P!Elapse
<1>4. Until' = Until - 1
  <2> DEFINE due == beatDue'
             far == Interval - beat
  <2>1. /\ Until = IF beatDue \/ busy > far THEN busy ELSE far
        /\ Until' = IF due \/ busy' > Interval - beat' THEN busy' ELSE Interval - beat'
        /\ far \in 1..Interval
    BY <1>1 DEF TimeTypes, Until
  <2>2. CASE beatDue
    BY <1>1, <1>3, <2>1, <2>2 DEF TimeTypes
  <2>3. CASE ~beatDue /\ beat' = 0
    <3>1. due
      BY <1>3, <2>3, Zenon
    <3>2. far = 1
      BY <1>1, <1>2, <2>3 DEF TimeTypes
    <3> HIDE DEF due, far
    <3> QED
      BY <1>1, <1>3, <2>1, <2>3, <3>1, <3>2 DEF TimeTypes
  <2>4. CASE ~beatDue /\ beat' # 0
    BY <1>1, <1>2, <1>3, <2>1, <2>4 DEF TimeTypes
  <2> QED
    BY <2>2, <2>3, <2>4
<1>5. /\ beatDue' \in BOOLEAN
      /\ busy' \in 0..WriteTimeout /\ (busy' > 0 => stuck)
  BY <1>1, <1>2, <1>3 DEF TimeTypes
<1>6. /\ underway' = [i \in DOMAIN underway |-> [underway[i] EXCEPT !.age = @ + 1]]
      /\ \A i \in DOMAIN underway : underway[i].age < MaxDelay
  BY DEF P!Elapse
<1>7. underway \in Seq(Message)
  BY DEF TimeTypes
<1>8. \A i \in DOMAIN underway :
          /\ underway[i] \in Message /\ underway[i].age < MaxDelay
          /\ underway'[i] = [underway[i] EXCEPT !.age = @ + 1]
  BY <1>6, <1>7
<1>9. \A i \in DOMAIN underway :
          /\ underway'[i] \in Message
          /\ underway'[i].full = underway[i].full
          /\ underway'[i].age = underway[i].age + 1
  BY <1>8, OneOlder
<1>10. /\ DOMAIN underway' = DOMAIN underway /\ Len(underway') = Len(underway)
       /\ underway' \in Seq(Message)
  <2>1. DOMAIN underway = 1..Len(underway) /\ Len(underway) \in Nat
    BY <1>7
  <2>2. underway' \in [1..Len(underway) -> Message]
    BY <1>6, <1>9, <2>1
  <2> QED
    BY <2>1, <2>2
<1> QED
  BY <1>2, <1>3, <1>4, <1>5, <1>9, <1>10

\* A tick sends the full beacon or counts on.
LEMMA TickFacts ==
    ASSUME TimeTypes, P!Tick
    PROVE  /\ beatDue' = FALSE
           /\ \/ P!Broadcast(TRUE) /\ ticks' = 0
              \/ P!Broadcast(FALSE) /\ ticks' = ticks + 1 /\ ticks + 1 < FullTicks
<1>1. beatDue' = FALSE
  BY DEF P!Tick
<1>2. CASE ticks + 1 >= FullTicks
  <2>1. ticks' = 0
    BY <1>2 DEF P!Tick
  <2>2. P!Broadcast(TRUE)
    BY <1>2 DEF P!Tick, P!Broadcast
  <2> QED
    BY <1>1, <2>1, <2>2
<1>3. CASE ~(ticks + 1 >= FullTicks)
  <2>1. (ticks + 1 >= FullTicks) = FALSE /\ ticks + 1 < FullTicks
    BY <1>3, TimeConstants DEF TimeTypes
  <2>2. ticks' = ticks + 1
    BY <1>3 DEF P!Tick
  <2>3. P!Broadcast(FALSE)
    BY <2>1, Zenon DEF P!Tick
  <2> QED
    BY <1>1, <2>1, <2>2, <2>3
<1> QED
  BY <1>2, <1>3

LEMMA TimeStepType == TimeTypes /\ [P!Next]_(P!vars) => TimeTypes'
<1> SUFFICES ASSUME TimeTypes, [P!Next]_(P!vars) PROVE TimeTypes'
  OBVIOUS
<1> USE TimeConstants
<1>0. stuck' = stuck /\ P!Longest' = P!Longest /\ P!Longest \in Nat
  <2>1. stuck' = stuck
    BY DEF P!Next, P!vars, P!emitter, P!Tick, P!SeeChange, P!Broadcast, P!Receive, P!Lose,
           P!CleanUp, P!Elapse
  <2>2. P!Gap \in Nat
    BY GapFacts DEF TimeTypes
  <2>3. FullTicks * P!Gap \in Nat
    BY <2>2, Multiples
  <2> QED
    BY <2>1, <2>3 DEF P!Longest, P!Gap
<1>1. ASSUME NEW full \in BOOLEAN, P!Broadcast(full), beatDue' \in BOOLEAN,
             ticks' \in 0..FullTicks-1
      PROVE  TimeTypes'
  <2>1. [full |-> full, age |-> 0] \in Message
    BY DEF Message
  <2>2. underway' \in Seq(Message) /\ Len(underway') <= MaxInFlight
    BY <1>1, <2>1, Sending DEF TimeTypes, P!Broadcast
  <2> QED
    BY <1>0, <1>1, <2>2 DEF TimeTypes, P!Broadcast, P!observer
<1>2. CASE P!Tick
  <2>1. /\ beatDue' = FALSE
        /\ \/ P!Broadcast(TRUE) /\ ticks' = 0
           \/ P!Broadcast(FALSE) /\ ticks' = ticks + 1 /\ ticks + 1 < FullTicks
    BY <1>2, TickFacts
  <2>2. ticks' = 0 \/ (ticks' = ticks + 1 /\ ticks + 1 < FullTicks)
    BY <2>1, Zenon
  <2>3. ticks' \in 0..FullTicks-1
    BY <2>2 DEF TimeTypes
  <2> QED
    BY <1>1, <2>1, <2>3
<1>3. CASE P!SeeChange
  <2>1. P!Broadcast(TRUE) /\ beatDue' = beatDue /\ ticks' = 0
    BY <1>3, Zenon DEF P!SeeChange
  <2>2. beatDue' \in BOOLEAN /\ ticks' \in 0..FullTicks-1
    BY <2>1 DEF TimeTypes
  <2> QED
    BY <1>1, <2>1, <2>2
<1>4. CASE P!Receive
  <2>1. underway' \in Seq(Message) /\ Len(underway') <= MaxInFlight
        /\ Head(underway) \in Message
    BY <1>4, Arriving DEF TimeTypes, P!Receive
  <2>2. present' \in BOOLEAN /\ (present' => away' = 0 /\ age' = 0)
        /\ (~present' => ~present /\ away' = away /\ age' = age)
    BY <1>4, Zenon DEF P!Receive
  <2> QED
    BY <1>0, <1>4, <2>1, <2>2 DEF TimeTypes, P!Receive, P!emitter
<1>5. CASE P!Lose
  <2>1. underway' \in Seq(Message) /\ Len(underway') <= MaxInFlight
    BY <1>5, Arriving DEF TimeTypes, P!Lose
  <2> QED
    BY <1>0, <1>5, <2>1 DEF TimeTypes, P!Lose, P!emitter, P!observer
<1>6. CASE P!CleanUp
  <2>1. present' \in BOOLEAN /\ (present' => present)
    BY <1>6, Zenon DEF P!CleanUp
  <2>2. /\ sweepDue' = FALSE
        /\ UNCHANGED <<stuck, beat, beatDue, ticks, busy, underway, lost, age, sweep, away>>
    BY <1>6 DEF P!CleanUp, P!emitter
  <2>3. present' => away' = 0
    BY <2>1, <2>2 DEF TimeTypes
  <2>4. sweepDue' \in BOOLEAN
    BY <2>2
  <2> QED
    BY <1>0, <2>1, <2>2, <2>3, <2>4 DEF TimeTypes
<1>7. CASE P!Elapse
  <2>1. sweep' \in 0..Cleanup-1
    BY <1>7, NextBeat DEF TimeTypes, P!Elapse
  <2>2. sweepDue' \in BOOLEAN
    BY <1>7, Zenon DEF P!Elapse
  <2>3. age' = IF age < Expiry THEN age + 1 ELSE age
    BY <1>7 DEF P!Elapse
  <2>4. \/ away' = away
        \/ away' = away + 1 /\ ~present /\ ~(away > P!Longest)
    BY <1>7 DEF P!Elapse
  <2>5. age' \in 0..Expiry
    BY <2>3 DEF TimeTypes
  <2>6. away' \in 0..P!Longest+1 /\ (present => away' = 0)
    BY <1>0, <2>4 DEF TimeTypes
  <2> QED
    BY <1>0, <1>7, <2>1, <2>2, <2>5, <2>6, Elapses DEF TimeTypes
<1>8. CASE UNCHANGED P!vars
  BY <1>0, <1>8 DEF P!vars, P!emitter, P!observer, TimeTypes
<1> QED
  BY <1>2, <1>3, <1>4, <1>5, <1>6, <1>7, <1>8 DEF P!Next

\* The beacon loop sends before more than a Gap has gone by.
LEMMA SendStep ==
    ASSUME TimeTypes, SilenceInv, AwayInv, NEW full \in BOOLEAN, P!Broadcast(full),
           beatDue' \in BOOLEAN,
           \/ full /\ ticks' = 0
           \/ ~full /\ ticks' = ticks + 1 /\ ticks + 1 < FullTicks
    PROVE  SilenceInv' /\ AwayInv'
<1> DEFINE n == Len(underway)
           m == [full |-> full, age |-> 0]
<1>1. /\ underway' = Append(underway, m)
      /\ UNCHANGED <<stuck, beat, lost, present, age, away>>
      /\ busy' \in IF stuck THEN 0..WriteTimeout ELSE {0}
  BY DEF P!Broadcast, P!observer
<1>2. m \in Message /\ m.full = full /\ m.age = 0
  BY PresenceAssumption DEF Message
<1>3. n \in Nat /\ underway \in Seq(Message) /\ DOMAIN underway = 1..n
  BY DEF TimeTypes
<1>4. /\ Len(underway') = n + 1 /\ DOMAIN underway' = 1..n+1
      /\ \A i \in 1..n : underway'[i] = underway[i]
      /\ underway'[n + 1] = m
  BY <1>1, <1>2, <1>3, Sending
<1> HIDE DEF n, m
<1>5. P!Gap' = P!Gap /\ P!Gap \in Nat
  BY <1>1, GapFacts DEF P!Gap, TimeTypes
<1>6. Until \in 0..P!Gap /\ Until' \in 0..P!Gap
  BY <1>1, UntilFacts, NextUntil
<1>7. SilenceInv'
  <2> SUFFICES ASSUME present
               PROVE  /\ \A i \in 1..n+1 : age <= (lost + i) * P!Gap + underway'[i].age
                      /\ age + Until' <= (lost + (n + 1) + 1) * P!Gap
    BY <1>1, <1>4, <1>5 DEF SilenceInv
  <2>1. /\ \A i \in 1..n : age <= (lost + i) * P!Gap + underway[i].age
        /\ age + Until <= (lost + n + 1) * P!Gap
    BY <1>3 DEF SilenceInv, n
  <2>2. /\ (lost + n + 1) * P!Gap \in Nat
        /\ (lost + (n + 1) + 1) * P!Gap = (lost + n + 1) * P!Gap + P!Gap
        /\ lost + (n + 1) = lost + n + 1
    <3>1. lost + n + 1 \in Nat /\ (lost + (n + 1) + 1) = (lost + n + 1) + 1
          /\ lost + (n + 1) = lost + n + 1
      BY <1>3 DEF TimeTypes
    <3> QED
      BY <3>1, <1>5, Multiples
  <2>3. age \in Nat
    BY TimeConstants DEF TimeTypes
  <2>4. age <= (lost + (n + 1)) * P!Gap + underway'[n + 1].age
    BY <1>2, <1>4, <1>6, <2>1, <2>2, <2>3
  <2>5. age + Until' <= (lost + (n + 1) + 1) * P!Gap
    BY <1>5, <1>6, <2>1, <2>2, <2>3
  <2>6. \A i \in 1..n+1 : i \in 1..n \/ i = n + 1
    BY <1>3
  <2> QED
    BY <1>4, <2>1, <2>4, <2>5, <2>6
<1>8. AwayInv'
  <2>1. /\ (ticks + 1) * P!Gap \in Nat
        /\ (ticks + 1 + 1) * P!Gap = (ticks + 1) * P!Gap + P!Gap
        /\ (ticks + 1) * P!Gap <= FullTicks * P!Gap
        /\ away \in Nat /\ ticks \in Nat
    <3>1. ticks \in Nat /\ ticks + 1 \in Nat /\ ticks + 1 <= FullTicks /\ FullTicks \in Nat
      BY TimeConstants DEF TimeTypes
    <3>2. FullTicks * P!Gap \in Nat
      BY <1>5, <3>1, Multiples
    <3>3. away \in Nat
      BY <3>2, TimeConstants DEF TimeTypes, P!Longest
    <3> QED
      BY <1>5, <3>1, <3>3, Multiples
  <2>2. CASE \E i \in DOMAIN underway :
                underway[i].full /\ away <= FullTicks * P!Gap + underway[i].age
    <3>1. PICK i \in 1..n : underway[i].full /\ away <= FullTicks * P!Gap + underway[i].age
      BY <1>3, <2>2
    <3>2. i \in 1..n+1 /\ underway'[i] = underway[i]
      BY <1>3, <1>4
    <3> QED
      BY <1>1, <1>4, <1>5, <3>1, <3>2 DEF AwayInv
  <2>3. CASE away + Until <= (ticks + 1) * P!Gap /\ full
    <3>1. away <= FullTicks * P!Gap + underway'[n + 1].age
      BY <1>2, <1>4, <1>5, <1>6, <2>1, <2>3, TimeConstants
    <3>2. n + 1 \in DOMAIN underway'
      BY <1>3, <1>4
    <3>3. underway'[n + 1].full
      BY <1>2, <1>4, <2>3, Zenon
    <3> QED
      BY <1>1, <1>5, <3>1, <3>2, <3>3 DEF AwayInv
  <2>4. CASE away + Until <= (ticks + 1) * P!Gap /\ ~full
    <3>1. away + Until' <= (ticks' + 1) * P!Gap
      BY <1>5, <1>6, <2>1, <2>4
    <3> QED
      BY <1>1, <1>5, <3>1 DEF AwayInv
  <2> QED
    BY <2>2, <2>3, <2>4 DEF AwayInv
<1> QED
  BY <1>7, <1>8

\* A message that arrives or is lost makes place for the next.
LEMMA ReceiveStep ==
    ASSUME TimeTypes, SilenceInv, AwayInv, P!Receive \/ P!Lose
    PROVE  SilenceInv' /\ AwayInv'
<1> DEFINE n == Len(underway)
<1>1. /\ underway # <<>> /\ underway' = Tail(underway)
      /\ UNCHANGED <<stuck, beat, beatDue, ticks, busy>>
  BY DEF P!Receive, P!Lose, P!emitter
<1>2. \/ /\ lost' = 0 /\ present' /\ away' = 0 /\ age' = 0
      \/ /\ ~present' /\ ~Head(underway).full /\ away' = away
      \/ /\ lost' = lost + 1 /\ present' = present /\ age' = age
         /\ away' = IF Head(underway).full THEN 0 ELSE away
  <2>1. CASE P!Receive
    BY <2>1, Zenon DEF P!Receive
  <2>2. CASE P!Lose
    BY <2>2, Zenon DEF P!Lose, P!observer
  <2> QED
    BY <2>1, <2>2
<1>3. /\ n \in Nat /\ n >= 1 /\ underway \in Seq(Message) /\ DOMAIN underway = 1..n
      /\ Head(underway) = underway[1]
      /\ underway' \in Seq(Message) /\ Len(underway') = n - 1 /\ DOMAIN underway' = 1..n-1
      /\ \A i \in 1..n-1 : underway'[i] = underway[i + 1]
  BY <1>1, Arriving DEF TimeTypes
<1> HIDE DEF n
<1>4. P!Gap' = P!Gap /\ P!Gap \in Nat
  BY <1>1, GapFacts DEF P!Gap, TimeTypes
<1>5. Until' = Until /\ Until \in 0..P!Gap
  BY <1>1, UntilFacts DEF Until
<1>6. \A i \in 1..n-1 : underway'[i].age \in Nat
  <2>1. \A i \in 1..n-1 : underway'[i] \in Message
    BY <1>3
  <2> QED
    BY <2>1, MessageAge
<1>7. SilenceInv'
  <2>1. CASE lost' = 0 /\ age' = 0
    <3>1. \A i \in 1..n-1 : i * P!Gap \in Nat /\ lost' + i = i
      BY <1>3, <1>4, <2>1, Multiples
    <3>2. P!Gap <= n * P!Gap
      BY <1>3, <1>4, Multiples
    <3>3. \A i \in 1..n-1 : age' <= (lost' + i) * P!Gap + underway'[i].age
      <4> TAKE i \in 1..n-1
      <4>1. (lost' + i) * P!Gap = i * P!Gap
        BY <3>1
      <4> QED
        BY <1>6, <2>1, <3>1, <4>1
    <3>4. age' + Until' <= (lost' + (n - 1) + 1) * P!Gap
      BY <1>3, <1>4, <1>5, <2>1, <3>2
    <3> QED
      BY <1>3, <1>4, <3>3, <3>4 DEF SilenceInv
  <2>2. CASE lost' = lost + 1 /\ present' = present /\ age' = age
    <3> SUFFICES ASSUME present'
                 PROVE  /\ \A i \in 1..n-1 :
                              age <= (lost + 1 + i) * P!Gap + underway[i + 1].age
                        /\ age + Until <= (lost + 1 + (n - 1) + 1) * P!Gap
      BY <1>3, <1>4, <1>5, <2>2 DEF SilenceInv
    <3>1. /\ \A i \in 1..n : age <= (lost + i) * P!Gap + underway[i].age
          /\ age + Until <= (lost + n + 1) * P!Gap
      BY <1>3, <2>2 DEF SilenceInv, n
    <3>2. \A i \in 1..n-1 : i + 1 \in 1..n /\ lost + (i + 1) = lost + 1 + i
      BY <1>3 DEF TimeTypes
    <3>3. lost + n + 1 = lost + 1 + (n - 1) + 1
      BY <1>3 DEF TimeTypes
    <3> QED
      BY <3>1, <3>2, <3>3
  <2>3. CASE ~present'
    BY <2>3 DEF SilenceInv
  <2> QED
    BY <1>2, <2>1, <2>2, <2>3
<1>8. AwayInv'
  <2>1. CASE away' = 0
    <3>1. P!Gap <= (ticks + 1) * P!Gap /\ (ticks + 1) * P!Gap \in Nat
      <4>1. ticks + 1 \in Nat /\ 1 <= ticks + 1
        BY TimeConstants DEF TimeTypes
      <4> QED
        BY <1>4, <4>1, Multiples
    <3>2. away' + Until' <= (ticks' + 1) * P!Gap
      BY <1>1, <1>4, <1>5, <2>1, <3>1
    <3> QED
      BY <1>4, <3>2 DEF AwayInv
  <2>2. CASE ~Head(underway).full /\ away' = away
    <3>1. CASE \E i \in DOMAIN underway :
                  underway[i].full /\ away <= FullTicks * P!Gap + underway[i].age
      <4>1. PICK i \in 1..n :
                underway[i].full /\ away <= FullTicks * P!Gap + underway[i].age
        BY <1>3, <3>1
      <4>2. i # 1
        BY <1>3, <2>2, <4>1
      <4>3. i - 1 \in 1..n-1 /\ (i - 1) + 1 = i
        BY <1>3, <4>2
      <4>4. underway'[i - 1] = underway[i]
        BY <1>3, <4>3
      <4> QED
        BY <1>3, <1>4, <2>2, <4>1, <4>3, <4>4 DEF AwayInv
    <3>2. CASE away + Until <= (ticks + 1) * P!Gap
      BY <1>1, <1>4, <1>5, <2>2, <3>2 DEF AwayInv
    <3> QED
      BY <3>1, <3>2 DEF AwayInv
  <2> QED
    BY <1>2, <2>1, <2>2
<1> QED
  BY <1>7, <1>8

\* Time makes a silence longer, and what ends it comes as much nearer.
LEMMA ElapseStep ==
    ASSUME TimeTypes, SilenceInv, AwayInv, P!Elapse
    PROVE  SilenceInv' /\ AwayInv'
<1>1. /\ Until' = Until - 1
      /\ DOMAIN underway' = DOMAIN underway /\ Len(underway') = Len(underway)
      /\ \A i \in DOMAIN underway :
            /\ underway'[i].full = underway[i].full
            /\ underway'[i].age = underway[i].age + 1
      /\ UNCHANGED <<stuck, ticks, lost, present>>
  BY Elapses
<1>2. P!Gap' = P!Gap /\ P!Gap \in Nat /\ Until \in 0..P!Gap
  BY <1>1, GapFacts, UntilFacts DEF P!Gap, TimeTypes
<1>3. age \in Nat /\ (age' = age \/ age' = age + 1)
  BY TimeConstants DEF TimeTypes, P!Elapse
<1>4. away \in Nat /\ (away' = away \/ away' = away + 1)
  <2>1. FullTicks * P!Gap \in Nat
    BY <1>2, TimeConstants, Multiples
  <2>2. away \in Nat
    BY <2>1, TimeConstants DEF TimeTypes, P!Longest
  <2>3. away' = away \/ away' = away + 1
    BY DEF P!Elapse
  <2> QED
    BY <2>2, <2>3
<1>5. \A i \in DOMAIN underway : underway[i].age \in Nat
  BY Ages
<1>6. \A i \in DOMAIN underway : (lost + i) * P!Gap \in Nat
  <2> TAKE i \in DOMAIN underway
  <2>1. lost + i \in Nat
    BY TimeConstants DEF TimeTypes
  <2> QED
    BY <1>2, <2>1, Multiples
<1>7. (lost + Len(underway) + 1) * P!Gap \in Nat
  <2>1. lost + Len(underway) + 1 \in Nat
    BY TimeConstants DEF TimeTypes
  <2> QED
    BY <1>2, <2>1, Multiples
<1>8. SilenceInv'
  <2> SUFFICES ASSUME present
               PROVE  /\ \A i \in DOMAIN underway :
                            age' <= (lost + i) * P!Gap + (underway[i].age + 1)
                      /\ age' + (Until - 1) <= (lost + Len(underway) + 1) * P!Gap
    BY <1>1, <1>2 DEF SilenceInv
  <2>1. /\ \A i \in DOMAIN underway : age <= (lost + i) * P!Gap + underway[i].age
        /\ age + Until <= (lost + Len(underway) + 1) * P!Gap
    BY DEF SilenceInv
  <2> QED
    BY <1>2, <1>3, <1>5, <1>6, <1>7, <2>1
<1>9. AwayInv'
  <2>1. FullTicks * P!Gap \in Nat /\ (ticks + 1) * P!Gap \in Nat
    <3>1. ticks + 1 \in Nat
      BY TimeConstants DEF TimeTypes
    <3> QED
      BY <1>2, <3>1, TimeConstants, Multiples
  <2>2. CASE \E i \in DOMAIN underway :
                underway[i].full /\ away <= FullTicks * P!Gap + underway[i].age
    <3>1. PICK i \in DOMAIN underway :
              underway[i].full /\ away <= FullTicks * P!Gap + underway[i].age
      BY <2>2
    <3>2. away' <= FullTicks * P!Gap + underway'[i].age
      BY <1>1, <1>4, <1>5, <2>1, <3>1
    <3>3. i \in DOMAIN underway' /\ underway'[i].full
      BY <1>1, <3>1, Zenon
    <3> QED
      BY <1>2, <3>2, <3>3 DEF AwayInv
  <2>3. CASE away + Until <= (ticks + 1) * P!Gap
    <3>1. away' + Until' <= (ticks + 1) * P!Gap
      BY <1>1, <1>2, <1>4, <2>1, <2>3
    <3> QED
      BY <1>1, <1>2, <3>1 DEF AwayInv
  <2> QED
    BY <2>2, <2>3 DEF AwayInv
<1> QED
  BY <1>8, <1>9

LEMMA TimeStep == TimeTypes /\ SilenceInv /\ AwayInv /\ [P!Next]_(P!vars)
                    => SilenceInv' /\ AwayInv'
<1> SUFFICES ASSUME TimeTypes, SilenceInv, AwayInv, [P!Next]_(P!vars)
             PROVE  SilenceInv' /\ AwayInv'
  OBVIOUS
<1>1. CASE P!Tick
  <2>1. /\ beatDue' = FALSE
        /\ \/ P!Broadcast(TRUE) /\ ticks' = 0
           \/ P!Broadcast(FALSE) /\ ticks' = ticks + 1 /\ ticks + 1 < FullTicks
    BY <1>1, TickFacts
  <2> QED
    BY <2>1, SendStep
<1>2. CASE P!SeeChange
  <2>1. P!Broadcast(TRUE) /\ beatDue' = beatDue /\ ticks' = 0
    BY <1>2, Zenon DEF P!SeeChange
  <2>2. beatDue' \in BOOLEAN
    BY <2>1 DEF TimeTypes
  <2> QED
    BY <2>1, <2>2, SendStep
<1>3. CASE P!Receive \/ P!Lose
  BY <1>3, ReceiveStep
<1>4. CASE P!CleanUp
  <2>1. present' => present
    BY <1>4, Zenon DEF P!CleanUp
  <2>2. UNCHANGED <<stuck, beat, beatDue, ticks, busy, underway, lost, age, away>>
    BY <1>4 DEF P!CleanUp, P!emitter
  <2>3. P!Gap' = P!Gap /\ Until' = Until
    BY <2>2 DEF P!Gap, Until
  <2> QED
    BY <2>1, <2>2, <2>3 DEF SilenceInv, AwayInv
<1>5. CASE P!Elapse
  BY <1>5, ElapseStep
<1>6. CASE UNCHANGED P!vars
  <2>1. /\ UNCHANGED <<stuck, beat, beatDue, ticks, busy, underway, lost, age, away>>
        /\ present' = present
    BY <1>6 DEF P!vars, P!emitter, P!observer
  <2>2. P!Gap' = P!Gap /\ Until' = Until
    BY <2>1 DEF P!Gap, Until
  <2> QED
    BY <2>1, <2>2 DEF SilenceInv, AwayInv
<1> QED
  BY <1>1, <1>2, <1>3, <1>4, <1>5, <1>6 DEF P!Next

LEMMA TimeInit == P!Init => TimeTypes /\ SilenceInv /\ AwayInv
<1> SUFFICES ASSUME P!Init PROVE TimeTypes /\ SilenceInv /\ AwayInv
  OBVIOUS
<1>1. P!Gap \in Nat /\ FullTicks * P!Gap \in Nat
  BY GapFacts, TimeConstants, Multiples DEF P!Init
<1>2. TimeTypes
  <2>1. underway \in Seq(Message) /\ Len(underway) = 0
    BY DEF P!Init
  <2>2. busy \in 0..WriteTimeout /\ (busy > 0 => stuck)
    BY TimeConstants DEF P!Init
  <2>3. /\ away \in 0..P!Longest+1 /\ (present => away = 0)
        /\ age \in 0..Expiry /\ lost \in 0..MaxLost
    BY <1>1, TimeConstants DEF P!Init, P!Longest
  <2>4. stuck \in BOOLEAN /\ beatDue \in BOOLEAN /\ present \in BOOLEAN /\ sweepDue \in BOOLEAN
    BY DEF P!Init
  <2>5. beat \in 0..Interval-1 /\ ticks \in 0..FullTicks-1 /\ sweep \in 0..Cleanup-1
    BY DEF P!Init
  <2> QED
    BY <2>1, <2>2, <2>3, <2>4, <2>5, TimeConstants DEF TimeTypes
<1>3. Until \in 0..P!Gap /\ away = 0
  BY <1>2, UntilFacts DEF P!Init
<1>4. P!Gap <= (ticks + 1) * P!Gap
  BY <1>1, <1>2, TimeConstants, Multiples DEF TimeTypes
<1> QED
  BY <1>1, <1>2, <1>3, <1>4 DEF P!Init, SilenceInv, AwayInv

LEMMA TimeAlways == P!Spec => [](TimeTypes /\ SilenceInv /\ AwayInv)
<1> QED
  BY TimeInit, TimeStepType, TimeStep, PTL DEF P!Spec

\* For any intervals: a node that the cleanup loop took out is back by the next
\* full beacon that the beacon loop sends and that is not lost.
THEOREM PresenceAlwaysInv == P!Spec => []PresenceInv
<1>1. TimeTypes /\ AwayInv => PresenceInv
  <2> SUFFICES ASSUME TimeTypes, AwayInv PROVE PresenceInv
    OBVIOUS
  <2>1. P!Gap \in Nat /\ FullTicks * P!Gap \in Nat /\ Until \in Nat
    BY GapFacts, UntilFacts, TimeConstants, Multiples DEF TimeTypes
  <2>2. (ticks + 1) * P!Gap <= FullTicks * P!Gap
    BY <2>1, TimeConstants, Multiples DEF TimeTypes
  <2>3. away \in Nat
    BY <2>1, TimeConstants DEF TimeTypes, P!Longest
  <2>4. (ticks + 1) * P!Gap \in Nat
    BY <2>1, TimeConstants, Multiples DEF TimeTypes
  <2>5. away <= FullTicks * P!Gap + MaxDelay
    <3>1. CASE \E i \in DOMAIN underway : away <= FullTicks * P!Gap + underway[i].age
      BY <2>1, <2>3, <3>1, Ages, TimeConstants
    <3>2. CASE away + Until <= (ticks + 1) * P!Gap
      BY <2>1, <2>2, <2>3, <2>4, <3>2, TimeConstants
    <3> QED
      BY <3>1, <3>2 DEF AwayInv
  <2> QED
    BY <2>5, TypesAreTyped DEF PresenceInv, P!BackInTime, P!Longest
<1> QED
  BY <1>1, TimeAlways, PTL

\* For any intervals: if the longest silence the beacon loop and the channel can
\* make is shorter than presenter_expiry, cleanup_loop takes out no node that is
\* up and connected.
THEOREM AlwaysStaysPresent == P!Spec => StaysPresent
<1>1. TimeTypes /\ SilenceInv /\ [P!Next]_(P!vars) =>
        [(MaxLost + 1) * P!Gap + MaxDelay < Expiry /\ present => present']_present
  <2> SUFFICES ASSUME TimeTypes, SilenceInv, P!Next,
                      (MaxLost + 1) * P!Gap + MaxDelay < Expiry, present
               PROVE  present'
    BY DEF P!vars, P!observer
  <2>1. age < Expiry
    <3>1. P!Gap \in Nat /\ Until \in Nat /\ lost \in Nat /\ lost + 1 <= MaxLost + 1
      BY GapFacts, UntilFacts, TimeConstants DEF TimeTypes
    <3>2. (lost + 1) * P!Gap <= (MaxLost + 1) * P!Gap
      BY <3>1, TimeConstants, Multiples
    <3>3. (lost + 1) * P!Gap \in Nat /\ (MaxLost + 1) * P!Gap \in Nat
      BY <3>1, TimeConstants, Multiples
    <3>4. age \in Nat
      BY TimeConstants DEF TimeTypes
    <3>5. CASE Len(underway) = 0
      <4>1. age + Until <= (lost + 1) * P!Gap
        BY <3>1, <3>5 DEF SilenceInv
      <4> QED
        BY <3>1, <3>2, <3>3, <3>4, <4>1, TimeConstants
    <3>6. CASE Len(underway) # 0
      <4>1. 1 \in DOMAIN underway /\ underway[1].age \in Nat /\ underway[1].age <= MaxDelay
        <5>1. 1 \in DOMAIN underway
          BY <3>6 DEF TimeTypes
        <5> QED
          BY <5>1, Ages
      <4>2. age <= (lost + 1) * P!Gap + underway[1].age
        BY <4>1 DEF SilenceInv
      <4> QED
        BY <3>1, <3>2, <3>3, <3>4, <4>1, <4>2, TimeConstants
    <3> QED
      BY <3>5, <3>6
  <2>2. CASE P!CleanUp
    BY <2>1, <2>2, Zenon DEF P!CleanUp
  <2>3. CASE P!Receive
    BY <2>3, Zenon DEF P!Receive
  <2>4. CASE P!Tick \/ P!SeeChange \/ P!Lose \/ P!Elapse
    BY <2>4 DEF P!Tick, P!SeeChange, P!Broadcast, P!Lose, P!Elapse, P!observer
  <2> QED
    BY <2>2, <2>3, <2>4 DEF P!Next
<1> QED
  BY <1>1, TimeAlways, PTL DEF P!Spec, StaysPresent, P!StaysPresent
=============================================================================
