-------------------------- MODULE SocketPathProofs --------------------------
(***************************************************************************)
(* Proofs about SocketPath: for any number of connexons of one id, users   *)
(* who take turns get a socket file that peers find.                       *)
(***************************************************************************)
EXTENDS SocketPath, TLAPS

\* The states of a connexon in which no other one with the id may run.
Exclusive == {"remove", "bind", "listen", "closing"}

\* The strengthening: the path is only touched by a connexon that alone is
\* midway, and only when no other one runs.
PathInv ==
    /\ \A c \in Connexon :
        /\ pc[c] = "running" => c \in open /\ file = c
        /\ pc[c] = "listen" => file = c
        /\ pc[c] = "bind" => file = NoFile
        /\ pc[c] \in {"probe", "remove"} => file # NoFile
        /\ pc[c] = "gone" /\ c \in open => file # c
    /\ \A c, d \in Connexon : c # d /\ pc[c] \in Midway => pc[d] \notin Midway
    /\ \A c, d \in Connexon : pc[c] \in Exclusive => pc[d] # "running"

\* Every step keeps the types, whether or not the users take turns.
LEMMA StepType ==
    ASSUME TypeOK, NEW c \in Connexon,
           \/ StartCheck(c) \/ Probe(c) \/ RemoveStale(c) \/ Bind(c) \/ Listen(c)
           \/ Stop(c) \/ CloseListener(c) \/ StopRemove(c) \/ Drop(c) \/ Exit(c)
    PROVE  TypeOK'
<1> USE DEF TypeOK, Goto
<1>1. CASE StartCheck(c) \/ Probe(c) \/ RemoveStale(c) \/ Bind(c)
  BY <1>1 DEF StartCheck, Probe, RemoveStale, Bind
<1>2. CASE Listen(c) \/ Stop(c) \/ CloseListener(c)
  BY <1>2 DEF Listen, Stop, CloseListener
<1>3. CASE StopRemove(c) \/ Drop(c) \/ Exit(c)
  BY <1>3 DEF StopRemove, Drop, Exit
<1> QED
  BY <1>1, <1>2, <1>3

\* The types; in particular only a connexon that is up or going down holds a
\* listener.
THEOREM TypeCorrect == Spec => []TypeOK
<1>1. Init => TypeOK
  BY DEF Init, TypeOK
<1>2. TypeOK /\ [Next]_vars => TypeOK'
  BY StepType DEF Next, vars, TypeOK
<1> QED
  BY <1>1, <1>2, PTL DEF Spec

\* For users who take turns every step keeps the strengthening.
LEMMA StepPath ==
    ASSUME TypeOK, PathInv, Careful, NEW c \in Connexon,
           \/ StartCheck(c) \/ Probe(c) \/ RemoveStale(c) \/ Bind(c) \/ Listen(c)
           \/ Stop(c) \/ CloseListener(c) \/ StopRemove(c) \/ Drop(c) \/ Exit(c)
    PROVE  PathInv'
<1> USE NoFileAssumption DEF TypeOK, PathInv, Goto, Midway, Exclusive
<1>1. CASE StartCheck(c)
  BY <1>1 DEF StartCheck, Quiet
<1>2. CASE Probe(c)
  BY <1>2 DEF Probe
<1>3. CASE RemoveStale(c)
  BY <1>3 DEF RemoveStale
<1>4. CASE Bind(c)
  BY <1>4 DEF Bind
<1>5. CASE Listen(c)
  BY <1>5 DEF Listen
<1>6. CASE Stop(c)
  BY <1>6 DEF Stop, Quiet
<1>7. CASE CloseListener(c)
  BY <1>7 DEF CloseListener
<1>8. CASE StopRemove(c)
  BY <1>8 DEF StopRemove
<1>9. CASE Drop(c)
  BY <1>9 DEF Drop, Quiet
<1>10. CASE Exit(c)
  BY <1>10 DEF Exit
<1> QED
  BY <1>1, <1>2, <1>3, <1>4, <1>5, <1>6, <1>7, <1>8, <1>9, <1>10

\* Types and strengthening together are inductive.
LEMMA PathInductive == Careful => (Spec => [](TypeOK /\ PathInv))
<1> SUFFICES ASSUME Careful PROVE Spec => [](TypeOK /\ PathInv)
  OBVIOUS
<1>1. Init => TypeOK /\ PathInv
  BY DEF Init, TypeOK, PathInv, Midway, Exclusive
<1>2. TypeOK /\ PathInv /\ [Next]_vars => (TypeOK /\ PathInv)'
  <2> SUFFICES ASSUME TypeOK, PathInv, [Next]_vars PROVE (TypeOK /\ PathInv)'
    OBVIOUS
  <2>1. CASE UNCHANGED vars
    BY <2>1 DEF vars, TypeOK, PathInv
  <2>2. CASE Next
    BY <2>2, StepType, StepPath DEF Next
  <2> QED
    BY <2>1, <2>2
<1> QED
  BY <1>1, <1>2, PTL DEF Spec

\* A started node's socket file is its own until it stops, if the users of
\* the id take turns.
THEOREM CarefulReachable == Careful => (Spec => []StartedIsReachable)
<1>1. TypeOK /\ PathInv => StartedIsReachable
  BY DEF PathInv, StartedIsReachable
<1> QED
  BY <1>1, PathInductive, PTL

\* No file that a crash leaves behind makes a start fail, if the users of the
\* id take turns.
THEOREM CarefulRefusals == Careful => (Spec => RefusedOnlyIfRunning)
<1> SUFFICES ASSUME Careful PROVE Spec => RefusedOnlyIfRunning
  OBVIOUS
<1>1. ASSUME TypeOK, PathInv, [Next]_vars, NEW c \in Connexon,
             pc[c] \in {"probe", "remove", "bind"}, pc'[c] = "down"
      PROVE  \E d \in Connexon \ {c} : pc[d] = "running"
  <2>1. Probe(c) \/ RemoveStale(c) \/ Bind(c)
    BY <1>1 DEF Next, vars, StartCheck, Probe, RemoveStale, Bind, Listen, Stop,
                CloseListener, StopRemove, Drop, Exit, Goto, TypeOK
  <2>2. Probe(c) /\ file \in open
    BY <1>1, <2>1 DEF Probe, RemoveStale, Bind, Goto, TypeOK, PathInv
  <2>3. file \in Connexon \ {c} /\ pc[file] \in {"running", "closing", "gone"}
    BY <1>1, <2>2 DEF TypeOK
  <2>4. pc[file] = "running"
    BY <1>1, <2>2, <2>3 DEF PathInv, Midway
  <2> QED
    BY <2>3, <2>4
<1>2. TypeOK /\ PathInv /\ [Next]_vars =>
        \A c \in Connexon :
            pc[c] \in {"probe", "remove", "bind"} /\ pc'[c] = "down" =>
                \E d \in Connexon \ {c} : pc[d] = "running"
  BY <1>1
<1>3. Spec => [](TypeOK /\ PathInv)
  BY PathInductive
<1> QED
  BY <1>2, <1>3, PTL DEF Spec, RefusedOnlyIfRunning
=============================================================================
