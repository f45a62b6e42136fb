--------------------------- MODULE MCLifecycle ---------------------------
(***************************************************************************)
(* What one user may ask of a node: starts and stops whose futures may be  *)
(* dropped, typed calls, or typed events.  subject says which of the three *)
(* machines moves, the others stay as they began.                          *)
(*                                                                         *)
(* What TLC checks: calls with the types () and i32, whose schema accepts  *)
(* integers that it cannot hold, and events with (), Option<f64> and f64,  *)
(* which writes NaN as null.                                               *)
(***************************************************************************)
EXTENDS Lifecycle, TLC

CONSTANTS
    Json, Null, CallType, Given, EventType, EventWrites, EventReads,
    Absent, NoSchema, Signal,
    Number, Huge, unit, float, option

MCJson == {Null, Number, Huge}
MCCallTypes ==
    {[writes |-> {Null}, reads |-> {Null}, accepts |-> {Null}],
     [writes |-> {Number}, reads |-> {Number}, accepts |-> {Number, Huge}]}
MCGiven == {{Number}}
MCEventTypes == {unit, float, option}
MCEventWrites ==
    (unit :> {Null}) @@ (float :> {Null, Number}) @@ (option :> {Null, Number})
MCEventReads ==
    (unit :> {Null}) @@ (float :> {Number}) @@ (option :> {Null, Number})

VARIABLES
    subject,
    method, known, asked,
    registered, emitting, event, handler, outcome

C == INSTANCE TypedCalls WITH
        Type <- CallType, call <- asked

E == INSTANCE TypedEvents WITH
        Type <- EventType, Writes <- EventWrites, Reads <- EventReads,
        started <- emitting

\* A type writes, reads and accepts JSON values, and what is told apart is
\* different.
ASSUME TypesAssumption ==
    /\ Null \in Json
    /\ CallType \subseteq [writes : SUBSET Json, reads : SUBSET Json, accepts : SUBSET Json]
    /\ NoSchema \notin {t.accepts : t \in CallType} \union Given /\ None \notin C!Field
    /\ (Json \union {Absent}) \intersect (C!Failure \union {"none", "error"}) = {}
    /\ Absent \notin Json
    /\ EventType \intersect {"raw", Signal, None} = {}

callVars == <<method, known, asked>>
eventVars == <<registered, emitting, event, handler, outcome>>

MCInit ==
    /\ Init /\ C!Init /\ E!Init
    /\ subject \in {"lifecycle", "calls", "events"}
    /\ subject # "events" => ~emitting

\* One call: the field is registered, removed and announced before it and until
\* it is served; from then on nothing reads what is registered and known.
CallsNext ==
    /\ C!Next
    /\ asked.at # "done"
    /\ asked.at \in {"idle", "checked"} \/ (method' = method /\ known' = known)

MCNext ==
    \/ subject = "lifecycle" /\ Next /\ UNCHANGED <<subject, callVars, eventVars>>
    \/ subject = "calls" /\ CallsNext /\ UNCHANGED <<subject, vars, eventVars>>
    \/ subject = "events" /\ E!Next /\ UNCHANGED <<subject, vars, callVars>>

MCSpec == MCInit /\ [][MCNext]_<<subject, vars, callVars, eventVars>>

\* What started says of the node is so, and what it lost hold of is cancelled.
LifecycleInv == TypeOK /\ StartedIsComplete /\ OrphansCancelled

\* A typed call returns what became of it, and a request that passed the caller's
\* validation fits the handler's type as far as its schema tells.
TypedCallsInv == C!TypeOK /\ C!OutcomeIsTold /\ C!CheckedRequestsFit

\* Handlers of one type make the same of an event at both ends, and it has the
\* type that its field is registered with.
TypedEventsInv == E!TypeOK /\ E!HandlersAgree /\ E!SentAsRegistered
=============================================================================
