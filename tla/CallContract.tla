---------------------------- MODULE CallContract ----------------------------
(***************************************************************************)
(* What a caller may conclude from the result of a call: the abstract      *)
(* specification NodeCalls implements.  A handler runs at most once per    *)
(* call.  Ok means that it ran and succeeded; a remote error, that it      *)
(* failed or was never run; a local error (not started, unknown field,     *)
(* invalid payload, send failure), that it was never run and never will    *)
(* be.  After a timeout, a cancellation or a closed reply channel nothing  *)
(* is known: the handler may have run, be running, or run later.           *)
(***************************************************************************)
CONSTANT Call

VARIABLES
    effect,     \* effect[c]: what happened to the handler of the call
    verdict     \* verdict[c]: what the caller was told

vars == <<effect, verdict>>

Init ==
    /\ effect = [c \in Call |-> "none"]
    /\ verdict = [c \in Call |-> "none"]

Invoke(c) ==
    /\ verdict[c] = "none"
    /\ verdict' = [verdict EXCEPT ![c] = "running"]
    /\ UNCHANGED effect

Execute(c) ==
    /\ effect[c] = "none" /\ verdict[c] \in {"running", "unknown"}
    /\ effect' = [effect EXCEPT ![c] = "executing"]
    /\ UNCHANGED verdict

Complete(c) ==
    /\ effect[c] = "executing"
    /\ \E result \in {"succeeded", "failed"} :
          effect' = [effect EXCEPT ![c] = result]
    /\ UNCHANGED verdict

\* The effects with which a verdict may be given.
Warrants(v) ==
    CASE v = "ok" -> {"succeeded"}
      [] v = "remote" -> {"none", "failed"}
      [] v = "local" -> {"none"}
      [] v = "unknown" -> {"none", "executing", "succeeded", "failed"}

Conclude(c, v) ==
    /\ verdict[c] = "running" \/ (verdict[c] = "none" /\ v = "local")
    /\ effect[c] \in Warrants(v)
    /\ verdict' = [verdict EXCEPT ![c] = v]
    /\ UNCHANGED effect

Next ==
    \E c \in Call :
        \/ Invoke(c) \/ Execute(c) \/ Complete(c)
        \/ \E v \in {"ok", "remote", "local", "unknown"} : Conclude(c, v)

Spec == Init /\ [][Next]_vars
=============================================================================
