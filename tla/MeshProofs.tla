----------------------------- MODULE MeshProofs -----------------------------
(***************************************************************************)
(* Proofs about Mesh, for every set of nodes and any number of links       *)
(* between two of them, and about PeerEvents, for any connections.         *)
(***************************************************************************)
EXTENDS MCMeshFaults, Sequences, FiniteSetTheorems, TLAPS

(***************************************************************************)
(* Links and ends.                                                         *)
(***************************************************************************)

\* The two ends of a link are nodes, and each is the other of the other.
LEMMA EndFacts ==
    ASSUME NEW k \in Link, NEW n \in Ends(k)
    PROVE  /\ n \in Node /\ Other(k, n) \in Node /\ Other(k, n) # n
           /\ Ends(k) = {n, Other(k, n)}
           /\ k.from \in Ends(k) /\ k.to \in Ends(k)
           /\ k # NoLink
BY NoLinkAssumption DEF Link, Ends, Other

\* Changing one value of a function of functions.
LEMMA NestedUpdate ==
    ASSUME NEW S, NEW T, NEW V, NEW f \in [S -> [T -> V]],
           NEW a \in S, NEW b \in T, NEW v \in V
    PROVE  /\ [f EXCEPT ![a][b] = v] \in [S -> [T -> V]]
           /\ \A x \in S, y \in T : [f EXCEPT ![a][b] = v][x][y] =
                IF x = a /\ y = b THEN v ELSE f[x][y]
OBVIOUS

\* Changing the stage of one end changes that of no other.
LEMMA EndUpdate ==
    ASSUME NEW k \in Link, NEW n \in Node, NEW x \in Stages,
           stage \in [Link -> [Node -> Stages]],
           stage' = [stage EXCEPT ![k][n] = x]
    PROVE  \A j \in Link, m \in Node :
                stage'[j][m] = IF j = k /\ m = n THEN x ELSE stage[j][m]
<1> DEFINE s == stage
<1>1. s \in [Link -> [Node -> Stages]]
  OBVIOUS
<1>2. stage' = [s EXCEPT ![k][n] = x]
  OBVIOUS
<1> HIDE DEF s
<1> QED
  BY <1>1, <1>2, NestedUpdate DEF s

\* Disconnecting touches no more than the entry and the link it is given.
LEMMA DisconnectFacts ==
    ASSUME TypeOK, NEW k \in Link, NEW n \in Ends(k), Disconnect(n, k)
    PROVE  /\ ~Listed(n, k)'
           /\ \A j \in Link : \A m \in Ends(j) :
                <<j, m>> # <<k, n>> =>
                    /\ Listed(m, j)' = Listed(m, j)
                    /\ <<j, m>> \in closing' <=> <<j, m>> \in closing
           /\ <<k, n>> \in closing' <=> <<k, n>> \in closing \/ Listed(n, k)
<1>1. /\ n \in Node /\ Other(k, n) \in Node /\ k # NoLink
  BY EndFacts
<1>2. \A j \in Link : \A m \in Ends(j) :
        m \in Node /\ Other(j, m) \in Node /\ j # NoLink
  BY EndFacts
<1>3. CASE Listed(n, k)
  <2>1. /\ peers' = [peers EXCEPT ![n][Other(k, n)] = NoLink]
        /\ closing' = closing \union {<<k, n>>}
    BY <1>3 DEF Disconnect
  <2>2. peers'[n][Other(k, n)] = NoLink
    BY <1>1, <2>1 DEF TypeOK
  <2>3. \A j \in Link : \A m \in Ends(j) :
          <<j, m>> # <<k, n>> => Listed(m, j)' = Listed(m, j)
    BY <1>1, <1>2, <1>3, <2>1 DEF TypeOK, Listed
  <2> QED
    BY <1>1, <1>3, <2>1, <2>2, <2>3 DEF Listed
<1>4. CASE ~Listed(n, k)
  BY <1>4 DEF Disconnect, Listed
<1> QED
  BY <1>3, <1>4

\* Installing touches no entry but the one it adds.
LEMMA InsertFacts ==
    ASSUME TypeOK, NEW k \in Link, NEW n \in Ends(k),
           peers[n][Other(k, n)] = NoLink,
           peers' = [peers EXCEPT ![n][Other(k, n)] = k]
    PROVE  /\ Listed(n, k)'
           /\ \A j \in Link : \A m \in Ends(j) :
                <<j, m>> # <<k, n>> => Listed(m, j)' = Listed(m, j)
<1>1. /\ n \in Node /\ Other(k, n) \in Node /\ k # NoLink
  BY EndFacts
<1>2. \A j \in Link : \A m \in Ends(j) :
        m \in Node /\ Other(j, m) \in Node /\ j # NoLink
  BY EndFacts
<1>3. \A a, b \in Node :
        peers'[a][b] = IF a = n /\ b = Other(k, n) THEN k ELSE peers[a][b]
  BY <1>1, NestedUpdate DEF TypeOK
<1> QED
  BY <1>1, <1>2, <1>3 DEF Listed

(***************************************************************************)
(* Type correctness.                                                       *)
(***************************************************************************)

\* Disconnecting keeps the types.
LEMMA DisconnectType ==
    ASSUME TypeOK, NEW k \in Link, NEW n \in Ends(k), Disconnect(n, k)
    PROVE  /\ peers' \in [Node -> [Node -> Link \union {NoLink}]]
           /\ closing' \in SUBSET (Link \X Node)
           /\ \A a, b \in Node :
                peers'[a][b] # NoLink => a # b /\ Ends(peers'[a][b]) = {a, b}
<1>1. n \in Node /\ Other(k, n) \in Node
  BY EndFacts
<1>2. CASE Listed(n, k)
  <2>1. /\ peers' = [peers EXCEPT ![n][Other(k, n)] = NoLink]
        /\ closing' = closing \union {<<k, n>>}
    BY <1>2 DEF Disconnect
  <2>2. /\ peers' \in [Node -> [Node -> Link \union {NoLink}]]
        /\ \A a \in Node, b \in Node : peers'[a][b] \in {NoLink, peers[a][b]}
    BY <1>1, <2>1, NestedUpdate DEF TypeOK
  <2>3. closing' \in SUBSET (Link \X Node)
    BY <1>1, <2>1 DEF TypeOK
  <2> QED
    BY <2>2, <2>3 DEF TypeOK
<1>3. CASE ~Listed(n, k)
  BY <1>3 DEF TypeOK, Disconnect
<1> QED
  BY <1>2, <1>3

\* The steps of a node's life keep the types.
LEMMA LifecycleType ==
    ASSUME TypeOK, NEW n \in Node, Lifecycle(n)
    PROVE  TypeOK'
<1> USE DEF TypeOK, Stages
<1>1. CASE Start(n) \/ StopCancel(n) \/ StopJoin(n)
  BY <1>1 DEF Start, StopCancel, StopJoin, threadVars
<1>2. CASE StopDrain(n)
  BY <1>2 DEF StopDrain, threadVars
<1>3. CASE Exit(n)
  BY <1>3 DEF Exit
<1>4. CASE AcceptExit(n)
  BY <1>4 DEF AcceptExit, threadVars
<1> QED
  BY <1>1, <1>2, <1>3, <1>4 DEF Lifecycle

\* So do the steps of dialling and accepting.
LEMMA ConnectType ==
    ASSUME TypeOK, NEW k \in Link, Connect(k)
    PROVE  TypeOK'
<1> USE DEF SetStage, nodeVars, threadVars
<1>0. k.from \in Node /\ k.to \in Node
  BY DEF Link
<1>s. \A n \in Node, x \in Stages :
        [stage EXCEPT ![k][n] = x] \in [Link -> [Node -> Stages]]
  BY NestedUpdate DEF TypeOK
<1>1. CASE Dial(k)
  <2> DEFINE row == [stage[k] EXCEPT ![k.from] = "dialled", ![k.to] = "backlog"]
  <2>1. row \in [Node -> Stages]
    BY <1>0 DEF TypeOK, Stages
  <2>2. stage' = [stage EXCEPT ![k] = row]
    BY <1>1 DEF Dial
  <2> HIDE DEF row
  <2>3. stage' \in [Link -> [Node -> Stages]]
    BY <2>1, <2>2 DEF TypeOK
  <2> QED
    BY <1>1, <2>3 DEF Dial, TypeOK
<1>2. CASE Greet(k) \/ Accept(k) \/ HandshakeFails(k)
  <2>1. "greeted" \in Stages /\ "handshake" \in Stages /\ "closed" \in Stages
    BY DEF Stages
  <2>2. stage' \in [Link -> [Node -> Stages]]
    BY <1>0, <1>2, <1>s, <2>1 DEF Greet, Accept, HandshakeFails
  <2> QED
    BY <1>2, <2>2 DEF Greet, Accept, HandshakeFails, TypeOK
<1> QED
  BY <1>1, <1>2 DEF Connect

\* So do the steps of the threads at one end of a link.
LEMMA EndStepType ==
    ASSUME TypeOK, NEW k \in Link, NEW n \in Ends(k), EndStep(n, k)
    PROVE  TypeOK'
<1> USE DEF Stages, SetStage, nodeVars, threadVars
<1>0. n \in Node /\ Other(k, n) \in Node /\ Other(k, n) # n /\ Ends(k) = {n, Other(k, n)}
  BY EndFacts
<1>s. \A x \in Stages : [stage EXCEPT ![k][n] = x] \in [Link -> [Node -> Stages]]
  BY <1>0, NestedUpdate DEF TypeOK
<1>r. \A x \in {"off", "new", "on"} :
        [reader EXCEPT ![k][n] = x] \in [Link -> [Node -> {"off", "new", "on"}]]
  BY <1>0, NestedUpdate DEF TypeOK
<1>w. \A x \in BOOLEAN :
        [writer EXCEPT ![k][n] = x] \in [Link -> [Node -> BOOLEAN]]
  BY <1>0, NestedUpdate DEF TypeOK
<1>1. CASE Install(n, k)
  <2>1. /\ run' = run /\ listening' = listening /\ closing' = closing
        /\ hello' \in SUBSET Link
    BY <1>1 DEF Install, TypeOK
  <2>3. stage' \in [Link -> [Node -> Stages]]
    BY <1>1, <1>s DEF Install
  <2>4. /\ reader' \in [Link -> [Node -> {"off", "new", "on"}]]
        /\ writer' \in [Link -> [Node -> BOOLEAN]]
    BY <1>1, <1>r, <1>w DEF Install, TypeOK
  <2>2. /\ peers' \in [Node -> [Node -> Link \union {NoLink}]]
        /\ \A a, b \in Node :
                peers'[a][b] # NoLink => a # b /\ Ends(peers'[a][b]) = {a, b}
    <3>1. peers' = peers \/ peers' = [peers EXCEPT ![n][Other(k, n)] = k]
      BY <1>1 DEF Install
    <3>2. CASE peers' = peers
      BY <3>2 DEF TypeOK
    <3>3. CASE peers' = [peers EXCEPT ![n][Other(k, n)] = k]
      <4>1. /\ peers' \in [Node -> [Node -> Link \union {NoLink}]]
            /\ \A a, b \in Node : peers'[a][b] =
                 IF a = n /\ b = Other(k, n) THEN k ELSE peers[a][b]
        BY <1>0, <3>3, NestedUpdate DEF TypeOK
      <4> QED
        BY <1>0, <4>1 DEF TypeOK
    <3> QED
      BY <3>1, <3>2, <3>3
  <2> QED
    BY <2>1, <2>2, <2>3, <2>4 DEF TypeOK
<1>2. CASE Shutdown(n, k)
  BY <1>2, <1>s DEF Shutdown, TypeOK
<1>3. CASE SendFails(n, k) \/ ReaderFails(n, k) \/ WriterFails(n, k)
  <2>1. Disconnect(n, k)
    BY <1>3 DEF SendFails, ReaderFails, WriterFails
  <2>2. /\ run' = run /\ listening' = listening /\ stage' = stage /\ hello' = hello
        /\ reader' \in [Link -> [Node -> {"off", "new", "on"}]]
        /\ writer' \in [Link -> [Node -> BOOLEAN]]
    BY <1>3, <1>r, <1>w DEF SendFails, ReaderFails, WriterFails, TypeOK
  <2> QED
    BY <2>1, <2>2, DisconnectType DEF TypeOK
<1>4. CASE ReaderEnter(n, k) \/ ReaderQuits(n, k) \/ WriterQuits(n, k)
  BY <1>4, <1>r, <1>w DEF ReaderEnter, ReaderQuits, WriterQuits, TypeOK
<1> QED
  BY <1>1, <1>2, <1>3, <1>4 DEF EndStep

\* Every variable keeps its type, and an entry of a peer table is a link
\* between its node and the peer it is listed under.
THEOREM TypeCorrect == Spec => []TypeOK
<1>1. Init => TypeOK
  BY DEF Init, TypeOK, Stages
<1>2. TypeOK /\ [Next]_vars => TypeOK'
  <2> SUFFICES ASSUME TypeOK, [Next]_vars PROVE TypeOK'
    OBVIOUS
  <2>1. CASE UNCHANGED vars
    BY <2>1 DEF vars, TypeOK
  <2>2. CASE Next
    BY <2>2, LifecycleType, ConnectType, EndStepType DEF Next
  <2> QED
    BY <2>1, <2>2
<1> QED
  BY <1>1, <1>2, PTL DEF Spec

(***************************************************************************)
(* The peer table and the ends it stands for.                              *)
(***************************************************************************)

\* The strengthening: an entry taken out to be shut down is not in the table.
TableInv ==
    /\ TableMatchesEnds
    /\ \A k \in Link : \A n \in Ends(k) : ~(Listed(n, k) /\ <<k, n>> \in closing)

\* The steps of a node's life keep the table and the ends in agreement.
LEMMA LifecycleTable ==
    ASSUME TypeOK, TableInv, NEW n \in Node, Lifecycle(n)
    PROVE  TableInv'
<1> USE DEF TableInv, TableMatchesEnds
<1>0. \A j \in Link : \A m \in Ends(j) :
        m \in Node /\ Other(j, m) \in Node /\ j # NoLink
  BY EndFacts
<1>1. CASE Start(n) \/ StopCancel(n) \/ StopJoin(n)
  BY <1>1 DEF Start, StopCancel, StopJoin, Listed
<1>2. CASE StopDrain(n)
  <2>1. \A j \in Link : \A m \in Ends(j) :
          Listed(m, j)' <=> m # n /\ Listed(m, j)
    BY <1>0, <1>2 DEF StopDrain, Listed, TypeOK
  <2>2. \A j \in Link : \A m \in Ends(j) :
          <<j, m>> \in closing' <=> <<j, m>> \in closing \/ (m = n /\ Listed(m, j))
    BY <1>0, <1>2 DEF StopDrain
  <2> QED
    BY <1>2, <2>1, <2>2 DEF StopDrain
<1>3. CASE Exit(n)
  <2>1. \A j \in Link : \A m \in Ends(j) :
          Listed(m, j)' <=> m # n /\ Listed(m, j)
    BY <1>0, <1>3 DEF Exit, Listed, TypeOK
  <2>2. \A j \in Link : \A m \in Ends(j) :
          <<j, m>> \in closing' <=> <<j, m>> \in closing /\ m # n
    BY <1>3 DEF Exit
  <2>3. \A j \in Link : \A m \in Ends(j) :
          stage'[j][m] = IF m = n THEN "closed" ELSE stage[j][m]
    BY <1>0, <1>3 DEF Exit, TypeOK
  <2> QED
    BY <2>1, <2>2, <2>3
<1>4. CASE AcceptExit(n)
  <2>1. \A j \in Link : \A m \in Ends(j) : stage'[j][m] = "live" <=> stage[j][m] = "live"
    BY <1>0, <1>4 DEF AcceptExit, TypeOK
  <2> QED
    BY <1>4, <2>1 DEF AcceptExit, Listed
<1> QED
  BY <1>1, <1>2, <1>3, <1>4 DEF Lifecycle

\* So do dialling and accepting, which touch no installed end.
LEMMA ConnectTable ==
    ASSUME TypeOK, TableInv, NEW k \in Link, Connect(k)
    PROVE  TableInv'
<1>0. /\ \A j \in Link : \A m \in Ends(j) : m \in Node
      /\ k.from \in Node /\ k.to \in Node /\ k.from # k.to /\ Ends(k) = {k.from, k.to}
  BY EndFacts DEF Link, Ends
<1>1. UNCHANGED <<peers, closing>>
  BY DEF Connect, Dial, Greet, Accept, HandshakeFails
<1>2. \A j \in Link : \A m \in Ends(j) : stage'[j][m] = "live" <=> stage[j][m] = "live"
  <2>1. CASE Dial(k)
    BY <1>0, <2>1 DEF Dial, Free, TypeOK
  <2>2. CASE Greet(k) \/ Accept(k) \/ HandshakeFails(k)
    <3>1. PICK n \in Ends(k), x \in Stages : /\ stage' = [stage EXCEPT ![k][n] = x]
                                              /\ stage[k][n] # "live" /\ x # "live"
      BY <1>0, <2>2 DEF Greet, Accept, HandshakeFails, SetStage, Stages
    <3>2. \A j \in Link, m \in Node :
            stage'[j][m] = IF j = k /\ m = n THEN x ELSE stage[j][m]
      BY <1>0, <3>1, EndUpdate DEF TypeOK
    <3> QED
      BY <1>0, <3>1, <3>2
  <2> QED
    BY <2>1, <2>2 DEF Connect
<1> QED
  BY <1>1, <1>2 DEF TableInv, TableMatchesEnds, Listed

\* So do the threads at one end: an end that leaves the table is shut down
\* by the thread that took it out.
LEMMA EndStepTable ==
    ASSUME TypeOK, TableInv, NEW k \in Link, NEW n \in Ends(k), EndStep(n, k)
    PROVE  TableInv'
<1> USE DEF TableInv, TableMatchesEnds
<1>0. /\ n \in Node
      /\ \A j \in Link : \A m \in Ends(j) : m \in Node
  BY EndFacts
<1>s. \A x \in Stages : stage' = [stage EXCEPT ![k][n] = x] =>
        \A j \in Link : \A m \in Ends(j) :
            stage'[j][m] = IF <<j, m>> = <<k, n>> THEN x ELSE stage[j][m]
  BY <1>0, EndUpdate DEF TypeOK
<1>1. CASE Install(n, k)
  <2>1. stage[k][n] # "live"
    BY <1>1 DEF Install
  <2>2. CASE peers[n][Other(k, n)] # NoLink
    <3>1. stage' = [stage EXCEPT ![k][n] = "closed"] /\ UNCHANGED <<peers, closing>>
      BY <1>1, <2>2 DEF Install, SetStage
    <3> QED
      BY <1>s, <2>1, <3>1 DEF Listed, Stages
  <2>3. CASE peers[n][Other(k, n)] = NoLink
    <3>1. /\ stage' = [stage EXCEPT ![k][n] = "live"] /\ UNCHANGED closing
          /\ peers' = [peers EXCEPT ![n][Other(k, n)] = k]
      BY <1>1, <2>3 DEF Install, SetStage
    <3>2. /\ Listed(n, k)'
          /\ \A j \in Link : \A m \in Ends(j) :
                <<j, m>> # <<k, n>> => Listed(m, j)' = Listed(m, j)
      BY <2>3, <3>1, InsertFacts
    <3> QED
      BY <1>s, <2>1, <3>1, <3>2 DEF Stages
  <2> QED
    BY <2>2, <2>3
<1>2. CASE Shutdown(n, k)
  <2>1. stage' = [stage EXCEPT ![k][n] = "closed"] /\ UNCHANGED peers
    BY <1>2 DEF Shutdown, SetStage
  <2> QED
    BY <1>2, <1>s, <2>1 DEF Shutdown, Listed, Stages
<1>3. CASE SendFails(n, k) \/ ReaderFails(n, k) \/ WriterFails(n, k)
  <2>1. Disconnect(n, k) /\ stage' = stage
    BY <1>3 DEF SendFails, ReaderFails, WriterFails
  <2>2. /\ ~Listed(n, k)'
        /\ <<k, n>> \in closing' <=> <<k, n>> \in closing \/ Listed(n, k)
        /\ \A j \in Link : \A m \in Ends(j) :
                <<j, m>> # <<k, n>> =>
                    /\ Listed(m, j)' = Listed(m, j)
                    /\ <<j, m>> \in closing' <=> <<j, m>> \in closing
    BY <2>1, DisconnectFacts
  <2>3. ASSUME NEW j \in Link, NEW m \in Ends(j)
        PROVE  /\ stage'[j][m] = "live" <=> (Listed(m, j)' \/ <<j, m>> \in closing')
               /\ ~(Listed(m, j)' /\ <<j, m>> \in closing')
    <3>1. CASE <<j, m>> = <<k, n>>
      BY <2>1, <2>2, <3>1
    <3>2. CASE <<j, m>> # <<k, n>>
      BY <2>1, <2>2, <3>2
    <3> QED
      BY <3>1, <3>2
  <2> QED
    BY <2>3
<1>4. CASE ReaderEnter(n, k) \/ ReaderQuits(n, k) \/ WriterQuits(n, k)
  BY <1>4 DEF ReaderEnter, ReaderQuits, WriterQuits, Listed
<1> QED
  BY <1>1, <1>2, <1>3, <1>4 DEF EndStep

\* The peer table and the installed ends always agree, also when spawning
\* threads fails.
THEOREM TableAlwaysMatches == Spec => []TableMatchesEnds
<1>1. Init => TableInv
  BY EndFacts DEF Init, TableInv, TableMatchesEnds, Listed
<1>2. TypeOK /\ TableInv /\ [Next]_vars => TableInv'
  <2> SUFFICES ASSUME TypeOK, TableInv, [Next]_vars PROVE TableInv'
    OBVIOUS
  <2>1. CASE UNCHANGED vars
    BY <2>1 DEF vars, TableInv, TableMatchesEnds, Listed
  <2>2. CASE Next
    BY <2>2, LifecycleTable, ConnectTable, EndStepTable DEF Next
  <2> QED
    BY <2>1, <2>2
<1>3. TableInv => TableMatchesEnds
  BY DEF TableInv
<1> QED
  BY <1>1, <1>2, <1>3, TypeCorrect, PTL DEF Spec

(***************************************************************************)
(* Healthy connections.                                                    *)
(***************************************************************************)

\* The link that disconnecting takes out of a table is the one it is given.
LEMMA DisconnectOnly ==
    ASSUME TypeOK, NEW k \in Link, NEW n \in Ends(k), Disconnect(n, k),
           NEW j \in Link, NEW m \in Ends(j), Listed(m, j), ~Listed(m, j)'
    PROVE  j = k /\ m = n
<1>1. \A x \in Link : \A y \in Ends(x) :
        <<x, y>> # <<k, n>> => Listed(y, x)' = Listed(y, x)
  <2>1. /\ ~Listed(n, k)'
        /\ \A x \in Link : \A y \in Ends(x) :
                <<x, y>> # <<k, n>> =>
                    /\ Listed(y, x)' = Listed(y, x)
                    /\ <<x, y>> \in closing' <=> <<x, y>> \in closing
        /\ <<k, n>> \in closing' <=> <<k, n>> \in closing \/ Listed(n, k)
    BY DisconnectFacts, Zenon
  <2> QED
    BY <2>1
<1> QED
  BY <1>1

\* A step that takes a link out of a node's table stops the node, or is that
\* of a thread at this very end which has found the connection broken.
LEMMA Unlisting ==
    ASSUME TypeOK, [Next]_vars, NEW k \in Link, NEW n \in Ends(k),
           Listed(n, k), ~Listed(n, k)'
    PROVE  \/ StopDrain(n) \/ Exit(n)
           \/ SendFails(n, k) \/ ReaderFails(n, k) \/ WriterFails(n, k)
<1>0. /\ n \in Node /\ Other(k, n) \in Node /\ k # NoLink
  BY EndFacts
<1>1. Next
  BY DEF vars, Listed
<1>2. ASSUME NEW m \in Node, Lifecycle(m)
      PROVE  StopDrain(n) \/ Exit(n)
  <2>1. StopDrain(m) \/ Exit(m)
    BY <1>2 DEF Lifecycle, Start, StopCancel, StopJoin, AcceptExit, Listed
  <2>2. m = n
    BY <1>0, <2>1 DEF StopDrain, Exit, Listed, TypeOK
  <2> QED
    BY <2>1, <2>2
<1>3. ASSUME NEW j \in Link, Connect(j)
      PROVE  FALSE
  BY <1>3 DEF Connect, Dial, Greet, Accept, HandshakeFails, Listed
<1>4. ASSUME NEW j \in Link, NEW m \in Ends(j), EndStep(m, j)
      PROVE  SendFails(n, k) \/ ReaderFails(n, k) \/ WriterFails(n, k)
  <2>1. CASE Install(m, j)
    <3>1. CASE peers[m][Other(j, m)] # NoLink
      BY <2>1, <3>1 DEF Install, Listed
    <3>2. CASE peers[m][Other(j, m)] = NoLink
      <4>1. peers' = [peers EXCEPT ![m][Other(j, m)] = j]
        BY <2>1, <3>2 DEF Install
      <4> QED
        BY <3>2, <4>1, InsertFacts
    <3> QED
      BY <3>1, <3>2
  <2>2. CASE SendFails(m, j) \/ ReaderFails(m, j) \/ WriterFails(m, j)
    <3>1. Disconnect(m, j)
      BY <2>2 DEF SendFails, ReaderFails, WriterFails
    <3>2. k = j /\ n = m
      BY <3>1, DisconnectOnly
    <3> QED
      BY <2>2, <3>2
  <2>3. CASE Shutdown(m, j) \/ ReaderEnter(m, j) \/ ReaderQuits(m, j) \/ WriterQuits(m, j)
    BY <2>3 DEF Shutdown, ReaderEnter, ReaderQuits, WriterQuits, Listed
  <2> QED
    BY <1>4, <2>1, <2>2, <2>3 DEF EndStep
<1> QED
  BY <1>1, <1>2, <1>3, <1>4 DEF Next

\* A healthy connection stays listed as long as its node runs: no thread of
\* another generation, no second connection and no send takes it out.
THEOREM HealthyAlwaysKept == Spec => HealthyKept
<1>1. ASSUME TypeOK, [Next]_vars, NEW k \in Link, NEW n \in Ends(k),
             Healthy(n, k), run'[n] = "up"
      PROVE  Listed(n, k)'
  <2> SUFFICES ASSUME ~Listed(n, k)' PROVE FALSE
    OBVIOUS
  <2>0. n \in Node /\ Other(k, n) \in Ends(k)
    BY EndFacts
  <2>1. \/ StopDrain(n) \/ Exit(n)
        \/ SendFails(n, k) \/ ReaderFails(n, k) \/ WriterFails(n, k)
    BY <1>1, Unlisting DEF Healthy
  <2>2. ~(StopDrain(n) \/ Exit(n))
    BY <1>1, <2>0 DEF StopDrain, Exit, TypeOK
  <2> QED
    BY <1>1, <2>0, <2>1, <2>2 DEF Healthy, SendFails, ReaderFails, WriterFails
<1>2. TypeOK /\ [Next]_vars =>
        \A k \in Link : \A n \in Ends(k) :
            Healthy(n, k) /\ run'[n] = "up" => Listed(n, k)'
  BY <1>1
<1> QED
  BY <1>2, TypeCorrect, PTL DEF Spec, HealthyKept

(***************************************************************************)
(* Both threads of an entry.                                               *)
(***************************************************************************)

\* The strengthening: a node that is down has no thread left, neither one of
\* a connection nor one that could still install a connection.
HeardInv ==
    /\ ListedIsHeard
    /\ \A n \in Node : run[n] = "down" => n \notin listening
    /\ \A k \in Link : \A n \in Ends(k) : run[n] = "down" =>
        stage[k][n] \notin {"dialled", "greeted", "handshake"} /\ ~writer[k][n]

\* The steps of a node's life keep it: a stop joins every thread.
LEMMA LifecycleHeard ==
    ASSUME TypeOK, HeardInv, NEW n \in Node, Lifecycle(n)
    PROVE  HeardInv'
<1> USE DEF HeardInv, ListedIsHeard, Listed, TypeOK, threadVars
<1>0. \A j \in Link : \A m \in Ends(j) :
        m \in Node /\ Other(j, m) \in Node /\ j # NoLink
  BY EndFacts
<1>1. CASE Start(n)
  BY <1>0, <1>1 DEF Start
<1>2. CASE StopCancel(n)
  BY <1>0, <1>2 DEF StopCancel
<1>3. CASE StopDrain(n)
  BY <1>0, <1>3 DEF StopDrain
<1>4. CASE StopJoin(n)
  <2>1. /\ \A m \in Node : run'[m] = IF m = n THEN "down" ELSE run[m]
        /\ UNCHANGED <<listening, peers, stage, reader, writer>>
    BY <1>4 DEF StopJoin
  <2>2. /\ n \notin listening
        /\ \A k \in Link : /\ stage[k][n] \notin {"dialled", "greeted", "handshake"}
                          /\ ~writer[k][n]
    BY <1>4 DEF StopJoin
  <2>3. ListedIsHeard'
    BY <1>0, <2>1
  <2> QED
    BY <1>0, <2>1, <2>2, <2>3
<1>5. CASE Exit(n)
  BY <1>0, <1>5 DEF Exit
<1>6. CASE AcceptExit(n)
  BY <1>0, <1>6 DEF AcceptExit
<1> QED
  BY <1>1, <1>2, <1>3, <1>4, <1>5, <1>6 DEF Lifecycle

\* So do dialling and accepting, for which the node must be up or listening.
LEMMA ConnectHeard ==
    ASSUME TypeOK, HeardInv, NEW k \in Link, Connect(k)
    PROVE  HeardInv'
<1>0. /\ \A j \in Link : \A m \in Ends(j) : m \in Node
      /\ k.from \in Node /\ k.to \in Node /\ k.from # k.to /\ Ends(k) = {k.from, k.to}
  BY EndFacts DEF Link, Ends
<1>1. UNCHANGED <<run, listening, peers, reader, writer>>
  BY DEF Connect, Dial, Greet, Accept, HandshakeFails, nodeVars, threadVars
<1>2. \A j \in Link : \A m \in Ends(j) : run[m] = "down" =>
        stage'[j][m] \notin {"dialled", "greeted", "handshake"}
  <2>1. CASE Dial(k)
    BY <1>0, <2>1 DEF Dial, HeardInv, TypeOK
  <2>2. CASE Greet(k) \/ Accept(k) \/ HandshakeFails(k)
    <3>1. PICK n \in Ends(k), x \in Stages :
            /\ stage' = [stage EXCEPT ![k][n] = x]
            /\ run[n] = "down" => x \notin {"dialled", "greeted", "handshake"}
      BY <1>0, <2>2 DEF Greet, Accept, HandshakeFails, SetStage, Stages, HeardInv
    <3>n. n \in Node /\ stage \in [Link -> [Node -> Stages]]
      BY <1>0 DEF TypeOK
    <3>2. \A j \in Link, m \in Node :
            stage'[j][m] = IF j = k /\ m = n THEN x ELSE stage[j][m]
      BY <3>1, <3>n, NestedUpdate
    <3> QED
      BY <1>0, <3>1, <3>2 DEF HeardInv
  <2> QED
    BY <2>1, <2>2 DEF Connect
<1> QED
  BY <1>1, <1>2 DEF HeardInv, ListedIsHeard, Listed

\* So do the threads at one end: without faults an entry is installed with
\* both threads, and a reader that ends takes its entry along.
LEMMA EndStepHeard ==
    ASSUME TypeOK, HeardInv, ~Faults, NEW k \in Link, NEW n \in Ends(k), EndStep(n, k)
    PROVE  HeardInv'
<1> USE DEF HeardInv, ListedIsHeard
<1>0. /\ n \in Node
      /\ \A j \in Link : \A m \in Ends(j) : m \in Node
  BY EndFacts
<1>u. UNCHANGED <<run, listening>>
  BY DEF EndStep, Install, Shutdown, SendFails, ReaderEnter, ReaderQuits, ReaderFails,
         WriterFails, WriterQuits, nodeVars
<1>s. \A x \in Stages : stage' = [stage EXCEPT ![k][n] = x] =>
        \A j \in Link : \A m \in Ends(j) :
            stage'[j][m] = IF <<j, m>> = <<k, n>> THEN x ELSE stage[j][m]
  BY <1>0, NestedUpdate DEF TypeOK
<1>r. \A x \in {"off", "new", "on"} : reader' = [reader EXCEPT ![k][n] = x] =>
        \A j \in Link : \A m \in Ends(j) :
            reader'[j][m] = IF <<j, m>> = <<k, n>> THEN x ELSE reader[j][m]
  BY <1>0, NestedUpdate DEF TypeOK
<1>w. \A x \in BOOLEAN : writer' = [writer EXCEPT ![k][n] = x] =>
        \A j \in Link : \A m \in Ends(j) :
            writer'[j][m] = IF <<j, m>> = <<k, n>> THEN x ELSE writer[j][m]
  BY <1>0, NestedUpdate DEF TypeOK
<1>1. CASE Install(n, k)
  <2>1. run[n] # "down"
    BY <1>1 DEF Install
  <2>2. CASE peers[n][Other(k, n)] # NoLink
    <3>1. stage' = [stage EXCEPT ![k][n] = "closed"] /\ UNCHANGED <<peers, reader, writer>>
      BY <1>1, <2>2 DEF Install, SetStage, threadVars
    <3> QED
      BY <1>u, <1>s, <3>1 DEF Listed, Stages
  <2>3. CASE peers[n][Other(k, n)] = NoLink
    <3>1. /\ stage' = [stage EXCEPT ![k][n] = "live"]
          /\ peers' = [peers EXCEPT ![n][Other(k, n)] = k]
          /\ reader' = [reader EXCEPT ![k][n] = "new"]
          /\ writer' = [writer EXCEPT ![k][n] = TRUE]
      BY <1>1, <2>3 DEF Install, SetStage
    <3>2. \A j \in Link : \A m \in Ends(j) :
            <<j, m>> # <<k, n>> => Listed(m, j)' = Listed(m, j)
      BY <2>3, <3>1, InsertFacts
    <3> QED
      BY <1>u, <1>s, <1>r, <1>w, <2>1, <3>1, <3>2 DEF Stages
  <2> QED
    BY <2>2, <2>3
<1>2. CASE Shutdown(n, k)
  <2>1. /\ stage' = [stage EXCEPT ![k][n] = "closed"]
        /\ UNCHANGED <<peers, reader, writer>>
    BY <1>2 DEF Shutdown, SetStage, threadVars
  <2> QED
    BY <1>u, <1>s, <2>1 DEF Listed, Stages
<1>3. CASE SendFails(n, k) \/ ReaderFails(n, k) \/ WriterFails(n, k)
  <2>1. Disconnect(n, k) /\ UNCHANGED stage
    BY <1>3 DEF SendFails, ReaderFails, WriterFails
  <2>2. /\ ~Listed(n, k)'
        /\ \A j \in Link : \A m \in Ends(j) :
                <<j, m>> # <<k, n>> => Listed(m, j)' = Listed(m, j)
    BY <2>1, DisconnectFacts
  <2>3. /\ reader' = reader \/ reader' = [reader EXCEPT ![k][n] = "off"]
        /\ writer' = writer \/ writer' = [writer EXCEPT ![k][n] = FALSE]
    BY <1>3 DEF SendFails, ReaderFails, WriterFails, threadVars
  <2>4. \A j \in Link : \A m \in Ends(j) : writer'[j][m] => writer[j][m]
    <3>1. CASE writer' = writer
      BY <3>1
    <3>2. CASE writer' = [writer EXCEPT ![k][n] = FALSE]
      BY <1>w, <3>2
    <3> QED
      BY <2>3, <3>1, <3>2
  <2>5. \A j \in Link : \A m \in Ends(j) :
          <<j, m>> # <<k, n>> => reader'[j][m] = reader[j][m]
    <3>1. CASE reader' = reader
      BY <3>1
    <3>2. CASE reader' = [reader EXCEPT ![k][n] = "off"]
      BY <1>r, <3>2
    <3> QED
      BY <2>3, <3>1, <3>2
  <2>6. ListedIsHeard'
    BY <1>u, <2>2, <2>4, <2>5
  <2> QED
    BY <1>0, <1>u, <2>1, <2>4, <2>6
<1>4. CASE ReaderEnter(n, k) \/ ReaderQuits(n, k)
  <2>1. /\ UNCHANGED <<peers, stage, writer>>
        /\ \/ reader' = [reader EXCEPT ![k][n] = "on"]
           \/ reader' = [reader EXCEPT ![k][n] = "off"] /\ run[n] # "up"
    BY <1>4 DEF ReaderEnter, ReaderQuits, Idle
  <2> QED
    BY <1>u, <1>r, <2>1 DEF Listed
<1>5. CASE WriterQuits(n, k)
  <2>1. UNCHANGED <<peers, stage, reader>> /\ writer' = [writer EXCEPT ![k][n] = FALSE]
    BY <1>5 DEF WriterQuits
  <2> QED
    BY <1>u, <1>w, <2>1 DEF Listed
<1> QED
  BY <1>1, <1>2, <1>3, <1>4, <1>5 DEF EndStep

\* If threads can be spawned, every peer a running node can write to is also
\* heard.
THEOREM ListedAlwaysHeard == ~Faults => (Spec => []ListedIsHeard)
<1> SUFFICES ASSUME ~Faults PROVE Spec => []ListedIsHeard
  OBVIOUS
<1>1. Init => HeardInv
  BY EndFacts DEF Init, HeardInv, ListedIsHeard, Listed
<1>2. TypeOK /\ HeardInv /\ [Next]_vars => HeardInv'
  <2> SUFFICES ASSUME TypeOK, HeardInv, [Next]_vars PROVE HeardInv'
    OBVIOUS
  <2>1. CASE UNCHANGED vars
    BY <2>1 DEF vars, HeardInv, ListedIsHeard, Listed
  <2>2. CASE Next
    BY <2>2, LifecycleHeard, ConnectHeard, EndStepHeard DEF Next
  <2> QED
    BY <2>1, <2>2
<1>3. HeardInv => ListedIsHeard
  BY DEF HeardInv
<1> QED
  BY <1>1, <1>2, <1>3, TypeCorrect, PTL DEF Spec

(***************************************************************************)
(* The events of a peer's connections (PeerEvents): a connection that was  *)
(* put in the table is in it or on one way out of it, and each of its      *)
(* events is published once.                                               *)
(***************************************************************************)
Entered(c) == at[c] \notin {"new", "refused"}

Gone(c) == E!Published("disconnected", c)

Kinds == {"connected", "disconnected"}

EventTypes ==
    /\ running \in {"up", "stopping", "down"}
    /\ table \in Connection \union {None}
    /\ at \in [Connection -> E!Stages]
    /\ leaving \in SUBSET Connection /\ drained \in SUBSET Connection
    /\ events \in Seq(Kinds \X Connection)

\* Where a connection is.
OneWayOut ==
    \A c \in Connection :
        /\ Entered(c) <=> table = c \/ c \in leaving \/ c \in drained \/ Gone(c)
        /\ table = c => c \notin leaving /\ c \notin drained /\ ~Gone(c)
        /\ c \in leaving => c \notin drained /\ ~Gone(c)
        /\ c \in drained => ~Gone(c)

ToldOnce ==
    /\ \A c \in Connection : at[c] = "done" <=> E!Published("connected", c)
    /\ \A i, j \in DOMAIN events : events[i] = events[j] => i = j

EventsTold == EventTypes /\ OneWayOut /\ ToldOnce

\* What a publication adds.
LEMMA Publishing ==
    ASSUME EventTypes, NEW kind \in Kinds, NEW c \in Connection, E!Publish(kind, c)
    PROVE  /\ events' \in Seq(Kinds \X Connection)
           /\ \A k \in Kinds, d \in Connection :
                 E!Published(k, d)' <=> E!Published(k, d) \/ (k = kind /\ d = c)
           /\ /\ ~E!Published(kind, c)
              /\ \A i, j \in DOMAIN events : events[i] = events[j] => i = j
              => \A i, j \in DOMAIN events' : events'[i] = events'[j] => i = j
<1> DEFINE n == Len(events)
<1>1. /\ events' = Append(events, <<kind, c>>) /\ events \in Seq(Kinds \X Connection)
      /\ n \in Nat /\ DOMAIN events = 1..n
  BY DEF E!Publish, EventTypes
<1>2. /\ events' \in Seq(Kinds \X Connection) /\ DOMAIN events' = 1..n+1
      /\ events'[n+1] = <<kind, c>> /\ \A i \in 1..n : events'[i] = events[i]
  BY <1>1
<1>3. \A i \in 1..n+1 : i \in 1..n \/ i = n+1
  BY <1>1
<1>4. 1..n \subseteq 1..n+1 /\ n+1 \in 1..n+1
  BY <1>1
<1> HIDE DEF n
<1>5. \A k \in Kinds, d \in Connection :
          E!Published(k, d)' <=> E!Published(k, d) \/ (k = kind /\ d = c)
  <2> TAKE k \in Kinds, d \in Connection
  <2>1. E!Published(k, d)' <=> \E i \in 1..n+1 : events'[i] = <<k, d>>
    BY <1>2 DEF E!Published
  <2>2. E!Published(k, d) <=> \E i \in 1..n : events[i] = <<k, d>>
    BY <1>1 DEF E!Published
  <2>3. events'[n+1] = <<k, d>> <=> k = kind /\ d = c
    BY <1>2
  <2>4. (\E i \in 1..n+1 : events'[i] = <<k, d>>) <=>
            (\E i \in 1..n : events'[i] = <<k, d>>) \/ events'[n+1] = <<k, d>>
    BY <1>3, <1>4
  <2> QED
    BY <1>2, <2>1, <2>2, <2>3, <2>4
<1>6. ASSUME ~E!Published(kind, c), \A i, j \in DOMAIN events : events[i] = events[j] => i = j
      PROVE  \A i, j \in DOMAIN events' : events'[i] = events'[j] => i = j
  <2>1. \A i \in 1..n : events'[i] # events'[n+1]
    BY <1>1, <1>2, <1>6 DEF E!Published
  <2> QED
    BY <1>1, <1>2, <1>3, <1>6, <2>1
<1> QED
  BY <1>2, <1>5, <1>6

LEMMA EventsToldStep == EventsTold /\ [E!Next]_(E!vars) => EventsTold'
<1> SUFFICES ASSUME EventsTold, [E!Next]_(E!vars) PROVE EventsTold'
  OBVIOUS
<1> USE ConnectionAssumption DEF EventsTold, EventTypes, OneWayOut, ToldOnce, Entered, Gone,
                                 E!Stages
<1>1. CASE UNCHANGED events
  <2>1. \A k \in Kinds, d \in Connection : E!Published(k, d)' <=> E!Published(k, d)
    BY <1>1 DEF E!Published
  <2>2. CASE E!StopDrain
    BY <1>1, <2>1, <2>2 DEF E!StopDrain, Kinds
  <2>3. CASE E!StopJoin \/ E!Start \/ UNCHANGED E!vars
    BY <1>1, <2>1, <2>3 DEF E!StopJoin, E!Start, E!vars, Kinds
  <2>4. ASSUME NEW c \in Connection,
               E!Insert(c) \/ E!Spawn(c) \/ E!SpawnFails(c) \/ E!Disconnect(c)
        PROVE  EventsTold'
    <3>1. CASE E!Insert(c)
      BY <1>1, <2>1, <3>1 DEF E!Insert, E!Go, Kinds
    <3>2. CASE E!Spawn(c) \/ E!SpawnFails(c)
      BY <1>1, <2>1, <3>2 DEF E!Spawn, E!SpawnFails, E!Go, Kinds
    <3>3. CASE E!Disconnect(c)
      BY <1>1, <2>1, <3>3 DEF E!Disconnect, Kinds
    <3> QED
      BY <2>4, <3>1, <3>2, <3>3
  <2>5. ASSUME NEW c \in Connection, E!PublishConnected(c) \/ E!PublishDisconnected(c)
        PROVE  FALSE
    BY <1>1, <2>5 DEF E!PublishConnected, E!PublishDisconnected, E!Publish
  <2> QED
    BY <2>2, <2>3, <2>4, <2>5 DEF E!Next
<1>2. ASSUME NEW c \in Connection, E!PublishConnected(c)
      PROVE  EventsTold'
  <2>1. /\ at[c] = "reader" /\ at' = [at EXCEPT ![c] = "done"]
        /\ E!Publish("connected", c) /\ UNCHANGED <<running, table, leaving, drained>>
    BY <1>2 DEF E!PublishConnected, E!Go
  <2>2. /\ events' \in Seq(Kinds \X Connection)
        /\ \A k \in Kinds, d \in Connection :
              E!Published(k, d)' <=> E!Published(k, d) \/ (k = "connected" /\ d = c)
        /\ \A i, j \in DOMAIN events' : events'[i] = events'[j] => i = j
    BY <2>1, Publishing DEF Kinds
  <2> QED
    BY <2>1, <2>2 DEF Kinds
<1>3. ASSUME NEW c \in Connection, E!PublishDisconnected(c)
      PROVE  EventsTold'
  <2>1. /\ c \in leaving /\ leaving' = leaving \ {c}
        /\ E!Publish("disconnected", c) /\ UNCHANGED <<running, table, at, drained>>
    BY <1>3 DEF E!PublishDisconnected
  <2>2. /\ events' \in Seq(Kinds \X Connection)
        /\ \A k \in Kinds, d \in Connection :
              E!Published(k, d)' <=> E!Published(k, d) \/ (k = "disconnected" /\ d = c)
        /\ \A i, j \in DOMAIN events' : events'[i] = events'[j] => i = j
    BY <2>1, Publishing DEF Kinds
  <2> QED
    BY <2>1, <2>2 DEF Kinds
<1> QED
  BY <1>1, <1>2, <1>3 DEF E!Next, E!StopDrain, E!StopJoin, E!Start, E!vars, E!Insert, E!Spawn,
     E!SpawnFails, E!Disconnect

LEMMA SameCardinality == \A S : E!Cardinality(S) = Cardinality(S)
BY DEF E!Cardinality, Cardinality

Told(kind) == {c \in Connection : E!Published(kind, c)}

\* As many events of a kind as connections it was published for.
LEMMA Counting ==
    ASSUME EventsTold, NEW kind \in Kinds
    PROVE  IsFiniteSet(Told(kind)) /\ E!Count(kind) = Cardinality(Told(kind))
<1> DEFINE I == {i \in DOMAIN events : events[i][1] = kind}
           T == Told(kind)
           f == [i \in I |-> events[i][2]]
<1>1. IsFiniteSet(I)
  <2>1. Len(events) \in Nat /\ DOMAIN events = 1..Len(events)
    BY DEF EventsTold, EventTypes
  <2>2. IsFiniteSet(1..Len(events))
    BY <2>1, FS_Interval
  <2>3. I \in SUBSET (1..Len(events))
    BY <2>1
  <2> QED
    BY <2>2, <2>3, FS_Subset
<1>2. \A i \in I : events[i] = <<kind, events[i][2]>> /\ events[i][2] \in Connection
  BY DEF EventsTold, EventTypes
<1>3. f \in [I -> T]
  BY <1>2 DEF Told, E!Published
<1>4. \A i, j \in I : f[i] = f[j] => i = j
  BY <1>2 DEF EventsTold, ToldOnce
<1>5. \A c \in T : \E i \in I : f[i] = c
  BY DEF Told, E!Published
<1>6. ExistsBijection(I, T)
  <2> HIDE DEF I, T, f
  <2>1. DOMAIN f = I
    BY <1>3
  <2> QED
    BY <1>3, <1>4, <1>5, <2>1 DEF ExistsBijection, Bijection, Injection, Surjection, IsInjective
<1>7. IsFiniteSet(T) /\ Cardinality(T) = Cardinality(I)
  BY <1>1, <1>6, FS_Bijection
<1>8. E!Count(kind) = Cardinality(I)
  BY SameCardinality DEF E!Count
<1> QED
  BY <1>7, <1>8

\* What a counting subscriber computes: every connection that was published as
\* connected is in the table, was drained, or was published as disconnected.
LEMMA CountingIsRight == EventsTold => E!CountIsRight
<1> SUFFICES ASSUME EventsTold, E!Quiet, \A c \in Connection : at[c] # "failed"
             PROVE  E!Count("connected") - E!Count("disconnected") - E!Cardinality(drained)
                        = IF table = None THEN 0 ELSE 1
  BY DEF E!CountIsRight
<1> DEFINE C == Told("connected")
           G == Told("disconnected")
           T == IF table = None THEN {} ELSE {table}
<1>1. /\ IsFiniteSet(C) /\ E!Count("connected") = Cardinality(C)
      /\ IsFiniteSet(G) /\ E!Count("disconnected") = Cardinality(G)
  BY Counting DEF Kinds
<1>2. \A c \in Connection : Entered(c) <=> c \in C
  BY DEF EventsTold, EventTypes, ToldOnce, Told, Entered, E!Quiet, E!Installing, E!Stages
<1>3. C = (G \union drained) \union T
  BY <1>2, ConnectionAssumption
     DEF EventsTold, EventTypes, OneWayOut, Told, Gone, E!Quiet
<1>4. G \intersect drained = {} /\ (G \union drained) \intersect T = {}
  BY ConnectionAssumption DEF EventsTold, EventTypes, OneWayOut, Told, Gone
<1>5. IsFiniteSet(drained)
  BY <1>1, <1>3, FS_Subset
<1>6. IsFiniteSet(T) /\ Cardinality(T) = IF table = None THEN 0 ELSE 1
  BY FS_EmptySet, FS_Singleton
<1> HIDE DEF C, G, T
<1>7. /\ IsFiniteSet(G \union drained)
      /\ Cardinality(G \union drained) = Cardinality(G) + Cardinality(drained) - 0
  BY <1>1, <1>4, <1>5, FS_Union, FS_EmptySet
<1>8. Cardinality(C) = Cardinality(G \union drained) + Cardinality(T) - 0
  BY <1>3, <1>4, <1>6, <1>7, FS_Union, FS_EmptySet
<1>9. /\ Cardinality(C) \in Nat /\ Cardinality(G) \in Nat
      /\ Cardinality(drained) \in Nat
  BY <1>1, <1>5, FS_CardinalityType
<1>10. E!Cardinality(drained) = Cardinality(drained)
  BY SameCardinality
<1> QED
  BY <1>1, <1>6, <1>7, <1>8, <1>9, <1>10

\* What a subscriber that believes the last event gets wrong.
LEMMA LastIsWrongOnlyIfCrossed == EventsTold => E!WrongOnlyIfCrossed
<1> SUFFICES ASSUME EventsTold, E!Quiet, events # <<>>
             PROVE  LET kind == events[Len(events)][1]
                        c == events[Len(events)][2]
                    IN  IF kind = "connected"
                        THEN table = c \/ c \in drained \/ Gone(c)
                             \/ (table # None /\ at[table] = "failed")
                        ELSE \/ table = None
                             \/ /\ table # c
                                /\ E!Published("connected", table) \/ at[table] = "failed"
  BY DEF E!WrongOnlyIfCrossed, Gone
<1>1. PICK kind \in Kinds, c \in Connection : events[Len(events)] = <<kind, c>>
  BY DEF EventsTold, EventTypes
<1>2. Len(events) \in DOMAIN events
  BY DEF EventsTold, EventTypes
<1>3. E!Published(kind, c)
  BY <1>1, <1>2 DEF E!Published
<1>4. CASE kind = "connected"
  <2>1. Entered(c) /\ c \notin leaving
    BY <1>3, <1>4 DEF EventsTold, ToldOnce, Entered, E!Quiet
  <2> QED
    BY <1>1, <1>4, <2>1 DEF EventsTold, OneWayOut
<1>5. CASE kind = "disconnected"
  <2>1. Gone(c)
    BY <1>3, <1>5 DEF Gone
  <2>2. ASSUME table # None
        PROVE  table # c /\ (E!Published("connected", table) \/ at[table] = "failed")
    <3>1. table \in Connection /\ Entered(table) /\ ~Gone(table)
      BY <2>2 DEF EventsTold, EventTypes, OneWayOut
    <3>2. at[table] \in {"done", "failed"}
      BY <3>1 DEF EventsTold, EventTypes, Entered, E!Quiet, E!Installing, E!Stages
    <3> QED
      BY <2>1, <3>1, <3>2 DEF EventsTold, ToldOnce
  <2> QED
    BY <1>1, <1>5, <2>2
<1> QED
  BY <1>4, <1>5 DEF Kinds

\* For any connections of a peer's id: a subscriber that counts PeerConnected and
\* PeerDisconnected of publish_event is right when nothing is on its way, and one
\* that believes the last is wrong only where two crossed.
THEOREM PeerEventsAlwaysInv == E!Spec => []PeerEventsInv
<1>1. E!Init => EventsTold
  BY ConnectionAssumption
     DEF E!Init, EventsTold, EventTypes, OneWayOut, ToldOnce, Entered, Gone, E!Published,
         E!Stages
<1>2. EventsTold => PeerEventsInv
  <2>1. EventsTold => E!TypeOK
    BY ConnectionAssumption
       DEF EventsTold, EventTypes, OneWayOut, Entered, Kinds, E!TypeOK, E!Stages
  <2> QED
    BY <2>1, CountingIsRight, LastIsWrongOnlyIfCrossed DEF PeerEventsInv
<1> QED
  BY <1>1, <1>2, EventsToldStep, PTL DEF E!Spec
=============================================================================
