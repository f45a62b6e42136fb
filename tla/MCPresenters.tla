--------------------------- MODULE MCPresenters ---------------------------
(***************************************************************************)
(* This node's table and its subscriber, with one other node that changes  *)
(* or with two that do not, or the timers of two nodes.  subject says      *)
(* which; the machine that does not move stays as it began.                *)
(***************************************************************************)
EXTENDS Presenters

CONSTANTS
    b, s2,
    Interval, FullTicks, Expiry, Cleanup, WriteTimeout, MaxDelay, MaxInFlight, MaxLost

ASSUME PresenceAssumption ==
    /\ {Interval, FullTicks, Cleanup} \subseteq Nat \ {0}
    /\ {Expiry, WriteTimeout, MaxDelay, MaxInFlight, MaxLost} \subseteq Nat

VARIABLES
    subject,
    stuck, beat, beatDue, ticks, busy, underway, lost, present, age, sweep, sweepDue, away

P == INSTANCE Presence WITH net <- underway

timeVars ==
    <<stuck, beat, beatDue, ticks, busy, underway, lost, present, age, sweep, sweepDue,
      away>>

MCInit ==
    /\ Init /\ P!Init
    /\ \/ /\ subject \in {"one", "two"}
          /\ ~stuck /\ beat = 0 /\ ticks = 0 /\ sweep = 0
       \/ subject = "time" /\ ~loopback

MCNext ==
    \/ /\ subject \in {"one", "two"} /\ Next
       /\ subject = "one" => table'[b] = None
       /\ subject = "two" => \A g \in Id : table'[g] # s2
       /\ UNCHANGED <<subject, timeVars>>
    \/ subject = "time" /\ P!Next /\ UNCHANGED <<subject, vars>>

MCSpec ==
    /\ MCInit /\ [][MCNext]_<<subject, vars, timeVars>>
    /\ WF_vars(subject # "time" /\ Publish)
    /\ WF_vars(subject # "time" /\ Tick)
    /\ WF_vars(subject # "time" /\ \E gone \in Beacons : PublishExpired(gone))

\* A node that is up and connected is not taken for gone.
StaysPresent == P!StaysPresent

\* A node that was lost is back by the next full beacon.
PresenceInv == P!TypeOK /\ P!BackInTime
=============================================================================
