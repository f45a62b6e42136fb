----------------------------- MODULE TypedEvents -----------------------------
(***************************************************************************)
(* The typed side of an event (src/src/node.rs): what emit and emit_signal *)
(* check against the registration of the field, while it is removed and    *)
(* registered anew, and what typed and raw handlers make of the argument,  *)
(* at the emitting node, where the message is looped back, and at a peer,  *)
(* where it has been written and read.  Its way is modelled in Events.     *)
(***************************************************************************)
CONSTANTS
    Json,    \* JSON values
    Null,    \* the JSON value null
    Type,    \* types
    Writes,  \* Writes[t]: the JSON values that a t is written as
    Reads,   \* Reads[t]: the JSON values that are read as a t
    Absent,  \* Option<Value>::None
    Signal,  \* an event without an argument: argument_type is None
    None

VARIABLES
    registered, \* what the field is registered as in emitted_events, or None
    started,    \* the node is started
    event,      \* the emission at hand
    handler,    \* handler[n]: what n's handler reads: a type, "raw" or None
    outcome     \* outcome[n]: what n made of the event

vars == <<registered, started, event, handler, outcome>>

Payload == Json \union {Absent}
Receiver == {"self", "peer"}

\* The signatures of emit::<T>, emit_signal and emit_raw.
Emission ==
    [api : {"emit"}, type : Type, arg : Json]
    \union [api : {"emit_signal"}, type : {Signal}, arg : {Absent}]
    \union [api : {"emit_raw"}, type : {None}, arg : Payload]

Idle == [at |-> "idle"]

\* by: what the handler that took the event reads, None without a handler;
\* refused: "event JSON is invalid".
Outcome == [by : Type \union {"raw"}, got : Payload \union {"refused"}]

TypeOK ==
    /\ registered \in Type \union {Signal, None}
    /\ started \in BOOLEAN
    /\ \/ event = Idle
       \/ /\ event.of \in Emission
          /\ event.of.api = "emit" => event.of.arg \in Writes[event.of.type]
          /\ event.at \in {"checked", "failed", "sent"} /\ event.current \in BOOLEAN
    /\ handler \in [Receiver -> Type \union {"raw", None}]
    /\ outcome \in [Receiver -> Outcome \union {None}]
    /\ \A n \in Receiver : outcome[n] # None => event.at = "sent"

Init ==
    /\ registered = None
    /\ started \in BOOLEAN
    /\ event = Idle
    /\ handler = [n \in Receiver |-> None]
    /\ outcome = [n \in Receiver |-> None]

-----------------------------------------------------------------------------
\* What has been checked may from now on differ from what is registered.
Change ==
    /\ event' = IF event.at = "checked" THEN [event EXCEPT !.current = FALSE] ELSE event
    /\ UNCHANGED <<started, handler, outcome>>

\* register_event::<T> and register_signal; a duplicate changes nothing.
RegisterEvent(t) ==
    /\ registered = None /\ registered' = t
    /\ Change

RemoveField ==
    /\ registered # None /\ registered' = None
    /\ Change

\* on_event, on_event_sync, on_event_raw and remove_event_handler.
OnEvent(n, reads) ==
    /\ handler' = [handler EXCEPT ![n] = reads]
    /\ UNCHANGED <<registered, started, event, outcome>>

StartOrStop ==
    /\ started' = ~started
    /\ UNCHANGED <<registered, event, handler, outcome>>

-----------------------------------------------------------------------------
Check(e) ==
    e.api = "emit_raw" \/ registered = e.type

\* The check is made under the lock of the map, which is released before the
\* argument is written.
Emit(e) ==
    /\ event.at \in {"idle", "failed", "sent"}
    /\ e.api = "emit" => e.arg \in Writes[e.type]
    /\ event' = [of |-> e, at |-> IF Check(e) THEN "checked" ELSE "failed", current |-> TRUE]
    /\ outcome' = [n \in Receiver |-> None]
    /\ UNCHANGED <<registered, started, handler>>

\* emit_raw: a node that is not started sends nothing.
EmitRaw ==
    /\ event.at = "checked"
    /\ event' = [event EXCEPT !.at = IF started THEN "sent" ELSE "failed"]
    /\ UNCHANGED <<registered, started, handler, outcome>>

-----------------------------------------------------------------------------
\* Over the wire null and nothing are the same property, read as nothing.
Carried(n, arg) == IF n = "peer" /\ arg = Null THEN Absent ELSE arg

ReadStrictly(t, arg) ==  \* a slip: an argument is expected to be there
    IF arg \in Reads[t] THEN arg ELSE "refused"

\* argument.unwrap_or(Value::Null), read as a t.
Read(t, arg) ==
    LET value == IF arg = Absent THEN Null ELSE arg
    IN  IF value \in Reads[t] THEN value ELSE "refused"

\* What the handler of n makes of the event at hand.
Handling(n) ==
    LET arg == Carried(n, event.of.arg)
    IN  [by |-> handler[n], got |-> IF handler[n] = "raw" THEN arg ELSE Read(handler[n], arg)]

\* An event without a handler is ignored.
Handle(n) ==
    /\ event.at = "sent" /\ handler[n] # None /\ outcome[n] = None
    /\ outcome' = [outcome EXCEPT ![n] = Handling(n)]
    /\ UNCHANGED <<registered, started, event, handler>>

Next ==
    \/ \E t \in Type \union {Signal} : RegisterEvent(t)
    \/ RemoveField \/ StartOrStop
    \/ \E n \in Receiver, reads \in Type \union {"raw", None} : OnEvent(n, reads)
    \/ \E e \in Emission : Emit(e)
    \/ EmitRaw
    \/ \E n \in Receiver : Handle(n)

Spec == Init /\ [][Next]_vars

-----------------------------------------------------------------------------
\* What emit or emit_signal is about to send has the type that the field is
\* registered with, unless the registration changed after it was looked at.
SentAsRegistered ==
    event.at = "checked" /\ event.of.api # "emit_raw" =>
        registered = event.of.type \/ ~event.current

\* Handlers of one type make the same of an event, at the node that emits it as
\* at its peers, and one of the type that was emitted gets what was emitted, if
\* that can be read back (an f64 that is NaN is written as null, and is not):
\* null and nothing, which the wire confuses, are the same to both.
HandlersAgree ==
    \A n, m \in Receiver :
        outcome[n] # None /\ outcome[n].by \in Type =>
            /\ outcome[n].by = event.of.type /\ event.of.arg \in Reads[event.of.type] =>
                   outcome[n].got = event.of.arg
            /\ outcome[m] # None /\ outcome[m].by = outcome[n].by =>
                   outcome[m].got = outcome[n].got
=============================================================================
