------------------------------ MODULE Presence ------------------------------
(***************************************************************************)
(* One node's beacon loop and another's presenter table in time            *)
(* (src/src/node.rs): heartbeats keep the record of a node fresh, the      *)
(* cleanup loop takes out a record that none has reached for Expiry, and   *)
(* only a full beacon brings it back.  The beacon loop waits until its     *)
(* message is written to every peer, and so for one that does not read     *)
(* until the write timeout of that peer's socket.                          *)
(*                                                                         *)
(* The two stay connected and up.  Time goes on in steps of one unit, and  *)
(* not past a timer that is due; the loops themselves take no time.        *)
(***************************************************************************)
EXTENDS Integers, Sequences

CONSTANTS
    Interval,     \* heartbeat_interval
    FullTicks,    \* full_beacon_ticks
    Expiry,       \* presenter_expiry
    Cleanup,      \* cleanup_interval
    WriteTimeout, \* WRITE_TIMEOUT
    MaxDelay,     \* bound on the time a message takes
    MaxInFlight,  \* bound on the messages under way
    MaxLost       \* bound on the messages lost in a row

VARIABLES
    stuck,    \* a third node may not read what is sent to it
    beat,     \* the time since the last tick of the beacon loop's timer
    beatDue,  \* a tick that the loop has not seen
    ticks,    \* ticks_since_full
    busy,     \* how long the loop's send will still wait for the stuck peer
    net,      \* the messages on the way, [full, age]
    lost,     \* how many were lost in a row
    present,  \* the other node has a record of this one
    age,      \* the time since last_seen, up to Expiry
    sweep,    \* the time since the last tick of the cleanup loop's timer
    sweepDue, \* a tick that the loop has not seen
    away      \* how long there has been no record and no full beacon was lost,
              \* up to one past Longest

emitter == <<stuck, beat, beatDue, ticks, busy>>
observer == <<present, age, sweep, sweepDue>>
vars == <<emitter, net, lost, observer, away>>

\* The longest time between two messages of the beacon loop, and from one full
\* beacon to the next.
Gap == IF stuck /\ WriteTimeout > Interval THEN WriteTimeout ELSE Interval
Longest == FullTicks * Gap + MaxDelay

TypeOK ==
    /\ stuck \in BOOLEAN
    /\ beat \in 0..Interval-1 /\ beatDue \in BOOLEAN
    /\ ticks \in 0..FullTicks-1
    /\ busy \in 0..WriteTimeout /\ (busy > 0 => stuck)
    /\ net \in Seq([full : BOOLEAN, age : 0..MaxDelay]) /\ Len(net) <= MaxInFlight
    /\ lost \in 0..MaxLost
    /\ present \in BOOLEAN /\ age \in 0..Expiry
    /\ sweep \in 0..Cleanup-1 /\ sweepDue \in BOOLEAN
    /\ away \in 0..Longest+1 /\ (present => away = 0)

\* The two have just been connected, at any time of their lives.
Init ==
    /\ stuck \in BOOLEAN
    /\ beat \in 0..Interval-1 /\ beatDue = FALSE
    /\ ticks \in 0..FullTicks-1
    /\ busy \in IF stuck THEN 0..WriteTimeout ELSE {0}
    /\ net = <<>> /\ lost = 0
    /\ present = FALSE /\ age = 0
    /\ sweep \in 0..Cleanup-1 /\ sweepDue = FALSE
    /\ away = 0

-----------------------------------------------------------------------------
(***************************************************************************)
(* The beacon loop.                                                        *)
(***************************************************************************)
\* A broadcast: all peers have the frame in their queues before the first
\* acknowledgement is waited for.
Broadcast(full) ==
    /\ busy = 0
    /\ Len(net) < MaxInFlight
    /\ net' = Append(net, [full |-> full, age |-> 0])
    /\ busy' \in IF stuck THEN 0..WriteTimeout ELSE {0}
    /\ UNCHANGED <<stuck, beat, lost, observer, away>>

TickBeats ==  \* a slip: only a change of the fields makes a full beacon
    /\ beatDue /\ beatDue' = FALSE
    /\ ticks' = IF ticks + 1 >= FullTicks THEN 0 ELSE ticks + 1
    /\ Broadcast(FALSE)

Tick ==
    /\ beatDue /\ beatDue' = FALSE
    /\ ticks' = IF ticks + 1 >= FullTicks THEN 0 ELSE ticks + 1
    /\ Broadcast(ticks + 1 >= FullTicks)

\* A revision is seen, which may be before or after a tick that is due.
SeeChange ==
    /\ ticks' = 0
    /\ UNCHANGED beatDue
    /\ Broadcast(TRUE)

-----------------------------------------------------------------------------
(***************************************************************************)
(* The other node.                                                         *)
(***************************************************************************)
IgnoreHeartbeat ==  \* a slip: a heartbeat does not touch last_seen
    /\ net # <<>> /\ net' = Tail(net)
    /\ lost' = 0
    /\ IF Head(net).full
       THEN present' = TRUE /\ away' = 0 /\ age' = 0
       ELSE UNCHANGED <<present, away, age>>
    /\ UNCHANGED <<emitter, sweep, sweepDue>>

\* process_beacon, and process_heartbeat, which knows only who has a record.
Receive ==
    /\ net # <<>> /\ net' = Tail(net)
    /\ lost' = 0
    /\ present' = (present \/ Head(net).full)
    /\ away' = IF present' THEN 0 ELSE away
    /\ age' = IF present' THEN 0 ELSE age
    /\ UNCHANGED <<emitter, sweep, sweepDue>>

\* The event channel overwrites a message that the dispatch loop has not read.
Lose ==
    /\ net # <<>> /\ net' = Tail(net)
    /\ lost < MaxLost /\ lost' = lost + 1
    /\ away' = IF Head(net).full THEN 0 ELSE away
    /\ UNCHANGED <<emitter, observer>>

CleanUp ==
    /\ sweepDue /\ sweepDue' = FALSE
    /\ present' = (present /\ age < Expiry)
    /\ UNCHANGED <<emitter, net, lost, age, sweep, away>>

-----------------------------------------------------------------------------
\* A timer whose tick was missed ticks at once and then in step again
\* (MissedTickBehavior::Skip).
Elapse ==
    /\ ~(beatDue /\ busy = 0) /\ ~sweepDue
    /\ \A i \in DOMAIN net : net[i].age < MaxDelay
    /\ beat' = (beat + 1) % Interval
    /\ beatDue' = (beatDue \/ beat' = 0)
    /\ busy' = IF busy = 0 THEN 0 ELSE busy - 1
    /\ net' = [i \in DOMAIN net |-> [net[i] EXCEPT !.age = @ + 1]]
    /\ age' = IF age < Expiry THEN age + 1 ELSE age
    /\ sweep' = (sweep + 1) % Cleanup
    /\ sweepDue' = (sweep' = 0)
    /\ away' = IF present \/ away > Longest THEN away ELSE away + 1
    /\ UNCHANGED <<stuck, ticks, lost, present>>

Next == Tick \/ SeeChange \/ Receive \/ Lose \/ CleanUp \/ Elapse

Spec == Init /\ [][Next]_vars

-----------------------------------------------------------------------------
\* A node that is up and connected is not taken for gone: not if the longest
\* silence that the beacon loop and the channel can make is shorter than
\* presenter_expiry.  (A peer that does not read makes one of WRITE_TIMEOUT,
\* which is longer: then all other peers may lose the node.)
StaysPresent ==
    [][(MaxLost + 1) * Gap + MaxDelay < Expiry /\ present => present']_present

\* A node that was lost is back by the next full beacon that is not lost: after
\* FullTicks messages of its loop, each of which may have had to wait for the
\* stuck peer.
BackInTime == away <= Longest
=============================================================================
