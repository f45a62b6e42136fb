----------------------------- MODULE TypedCalls -----------------------------
(***************************************************************************)
(* The typed side of a call: what the registration wrappers and the typed  *)
(* callers of GlycoComplex (src/src/node.rs) make of payloads, schemas and *)
(* errors, while the method of the field is removed and registered anew    *)
(* and the caller's picture of it lags behind.                             *)
(*                                                                         *)
(* A type stands for three sets of JSON values: those it is written as,    *)
(* those serde reads as it, and those that its generated schema accepts.   *)
(* They differ: for i32 the schema accepts every integer, and 1.0, while   *)
(* serde reads neither 3000000000 nor 1.0.                                 *)
(* Time limits, cancellation and the reply's way back are in NodeCalls.    *)
(***************************************************************************)
CONSTANTS
    Json,      \* JSON values
    Null,      \* the JSON value null
    Type,      \* types, each with what it writes, reads and accepts
    Given,     \* schemas that a registrant may give by hand
    Absent,    \* Option<Value>::None
    NoSchema,  \* a field's schema that is None
    None

VARIABLES
    method,  \* what is registered under the field's id, or None
    known,   \* the field in the caller's presenter table, or None
    call     \* the call

vars == <<method, known, call>>

Payload == Json \union {Absent}
Schema == Given \union {t.accepts : t \in Type} \union {NoSchema}
Route == {"loopback", "wire"}

\* takes: the payloads the wrapper hands to the handler; gives: its answers;
\* derived: the schema is that of the type the wrapper reads.
Method == [takes : SUBSET Payload, gives : SUBSET Payload, schema : Schema,
           derived : BOOLEAN, sync : BOOLEAN]

\* current: the method registered now is the one described (history).
Field == [schema : Schema, derived : BOOLEAN, current : BOOLEAN]

Idle == [at |-> "idle"]

Asked == [api : {"call", "do_action", "call_raw"}, wants : SUBSET Payload,
          route : Route, payload : Payload]

Failure == {"FieldNotFound", "Validation", "Remote", "Invalid", "TypedJson", "Timeout"}

TypeOK ==
    /\ method \in Method \union {None}
    /\ known \in Field \union {None}
    /\ \/ call = Idle
       \/ /\ call.ask \in Asked
          /\ call.field \in Field \union {None} /\ call.by \in Method \union {None}
          /\ call.answer \in Payload \union {"none", "error"}
          /\ call.at \in {"checked", "running", "refused", "answered", "dead", "done"}
          /\ call.result \in {"none"} \union Payload \union Failure
          /\ call.at = "answered" => call.answer # "none"
          /\ call.at = "done" <=> call.result # "none"

Init == method = None /\ known = None /\ call = Idle

-----------------------------------------------------------------------------
(***************************************************************************)
(* Registration.                                                           *)
(***************************************************************************)
\* payload.unwrap_or(Value::Null), read as a value of the type.
Reads(type) == {p \in Payload : (IF p = Absent THEN Null ELSE p) \in type.reads}

GivenOr(given, type) == IF given = NoSchema THEN type.accepts ELSE given

Raw(given, sync) ==
    [takes |-> Payload, gives |-> Payload, schema |-> given, derived |-> FALSE, sync |-> sync]

Function(req, gives, given, sync) ==
    [takes |-> Reads(req), gives |-> gives, schema |-> GivenOr(given, req),
     derived |-> given = NoSchema, sync |-> sync]

ActionWith(req, given, sync) ==
    Function(req, {Absent}, given, sync)

Query(gives, sync) ==
    [takes |-> Payload, gives |-> gives, schema |-> NoSchema, derived |-> TRUE, sync |-> sync]

Action(sync) == Query({Absent}, sync)

Methods ==
    LET GivenOrNot == Given \union {NoSchema}
    IN  {Raw(g, s) : g \in GivenOrNot, s \in BOOLEAN}
        \union {Function(q, r.writes, g, s) : q \in Type, r \in Type, g \in GivenOrNot, s \in BOOLEAN}
        \union {ActionWith(q, g, s) : q \in Type, g \in GivenOrNot, s \in BOOLEAN}
        \union {Query(r.writes, s) : r \in Type, s \in BOOLEAN}
        \union {Action(s) : s \in BOOLEAN}

Outdated(field) == IF field = None THEN None ELSE [field EXCEPT !.current = FALSE]

\* What was described before is from now on another method.
Change ==
    /\ known' = Outdated(known)
    /\ call' = IF call.at = "checked" THEN [call EXCEPT !.field = Outdated(@)] ELSE call

Register ==
    /\ method = None
    /\ method' \in Methods
    /\ Change

Remove ==
    /\ method # None
    /\ method' = None
    /\ Change

\* The caller takes a beacon that has the field in (or no more).
Learn ==
    /\ known' = IF method = None THEN None
                ELSE [schema |-> method.schema, derived |-> method.derived, current |-> TRUE]
    /\ UNCHANGED <<method, call>>

-----------------------------------------------------------------------------
(***************************************************************************)
(* The call.  do_action and do_action_with forget the payload they get;    *)
(* call and call_query read it as the type they want, call_raw does not.   *)
(***************************************************************************)
Asks ==
    {[api |-> "call", wants |-> t.reads \union {Absent}, route |-> r, payload |-> p] :
        t \in Type, r \in Route, p \in Payload}
    \union {[api |-> a, wants |-> Payload, route |-> r, payload |-> p] :
        a \in {"do_action", "call_raw"}, r \in Route, p \in Payload}

Return(result) == call' = [call EXCEPT !.at = "done", !.result = result]

\* A payload that is there is validated, if the field known has a schema.
Begin ==
    /\ call.at \in {"idle", "done"}
    /\ \E ask \in Asks :
        LET refused == known # None /\ known.schema # NoSchema
                         /\ ask.payload \in Json \ known.schema
        IN  call' = [at |-> IF known = None \/ refused THEN "done" ELSE "checked",
                     ask |-> ask, field |-> known, by |-> None, answer |-> "none",
                     result |-> IF known = None THEN "FieldNotFound"
                                ELSE IF refused THEN "Validation" ELSE "none"]
    /\ UNCHANGED <<method, known>>

\* A message over the wire is written and read: of Some(null) and None both the
\* property is null, and null is read as None.  A looped back one is a clone.
Carried(payload) ==
    IF call.ask.route = "wire" /\ payload = Null THEN Absent ELSE payload

Arriving == Carried(call.ask.payload)

\* The handler is taken out of the table and run by the wrapper around it.
Serve ==
    /\ call.at = "checked"
    /\ call' = IF method = None THEN [call EXCEPT !.at = "refused", !.answer = "error"]
               ELSE [call EXCEPT !.by = method, !.at = IF Arriving \in method.takes
                                                       THEN "running" ELSE "refused"]
    /\ UNCHANGED <<method, known>>

Answer ==
    /\ call.at = "running"
    /\ \E a \in call.by.gives \union {"error"} :
        call' = [call EXCEPT !.at = "answered", !.answer = a]
    /\ UNCHANGED <<method, known>>

\* The panic of a synchronous handler is a JoinError that the wrapper answers
\* with; that of an asynchronous one ends the task that would have replied.
Panic ==
    /\ call.at = "running"
    /\ call' = IF call.by.sync THEN [call EXCEPT !.at = "answered", !.answer = "error"]
               ELSE [call EXCEPT !.at = "dead"]
    /\ UNCHANGED <<method, known>>

ReplyArrivesEmpty ==  \* a slip: the wrapper forgets the handler's response
    /\ \/ call.at \in {"refused", "answered"} /\ call.answer = "error" /\ Return("Remote")
       \/ call.at = "refused" /\ call.answer # "error" /\ Return("Invalid")
       \/ call.at = "answered" /\ call.answer # "error" /\ Return(Absent)
    /\ UNCHANGED <<method, known>>

\* "Invalid" is the Remote error that the request JSON is invalid.
ReplyArrives ==
    /\ \/ call.at \in {"refused", "answered"} /\ call.answer = "error" /\ Return("Remote")
       \/ call.at = "refused" /\ call.answer # "error" /\ Return("Invalid")
       \/ /\ call.at = "answered" /\ call.answer # "error"
          /\ LET payload == Carried(call.answer)
             IN  \/ call.ask.api = "do_action" /\ Return(Absent)
                 \/ /\ call.ask.api # "do_action" /\ payload \in call.ask.wants
                    /\ Return(payload)
                 \/ /\ call.ask.api # "do_action" /\ payload \notin call.ask.wants
                    /\ Return("TypedJson")
    /\ UNCHANGED <<method, known>>

GiveUp ==
    /\ call.at = "dead"
    /\ Return("Timeout")
    /\ UNCHANGED <<method, known>>

-----------------------------------------------------------------------------
Next ==
    \/ Register \/ Remove \/ Learn
    \/ Begin \/ Serve \/ Answer \/ Panic \/ ReplyArrives \/ GiveUp

Spec == Init /\ [][Next]_vars

-----------------------------------------------------------------------------
AsNull(payload) == IF payload = Absent THEN Null ELSE payload

\* What a call returns is what became of it at the registration that served it,
\* whatever is registered by then: a payload only if the handler answered with
\* it (but for null and nothing, which the wire confuses), Remote if the handler
\* failed, TypedJson only if its answer is not of the type the caller wants, and
\* no time is lost on a synchronous handler that panicked.
OutcomeIsTold ==
    call.at = "done" =>
        /\ call.result \in Payload =>
              /\ call.by # None /\ call.answer \in call.by.gives
              /\ call.ask.api = "do_action" \/ AsNull(call.result) = AsNull(call.answer)
        /\ call.answer = "error" => call.result = "Remote"
        /\ call.result = "TypedJson" => call.answer \in call.by.gives \ call.ask.wants
        /\ call.result = "Timeout" => ~call.by.sync

\* A request that passed the caller's validation is refused as invalid JSON only
\* if the field was registered anew since the beacon the caller knows, if its
\* schema was given by hand, if there was no payload to validate, or if it is
\* one that the schema of the handler's own type accepts and the type does not
\* read: null, which the wire turns into nothing, is not refused for that.
CheckedRequestsFit ==
    call.at = "done" /\ call.result = "Invalid" =>
        \/ ~call.field.current \/ ~call.field.derived \/ call.ask.payload = Absent
        \/ \E t \in Type : /\ call.field.schema = t.accepts /\ call.by.takes = Reads(t)
                          /\ call.ask.payload \in t.accepts \ t.reads
=============================================================================
