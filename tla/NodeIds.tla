------------------------------- MODULE NodeIds -------------------------------
(***************************************************************************)
(* Who dials whom (src/src/transport/unix_mesh.rs): the nodes that share a *)
(* socket directory scan it and dial those with greater ids, in the order  *)
(* of the UTF-16 code units of the ids, which is that of the .NET nodes in *)
(* the same directory.  An id is a sequence of code points.                *)
(***************************************************************************)
EXTENDS Integers, Sequences, FiniteSets, SequencesExt

CONSTANTS
    Stem,       \* stems that .sock files have, sequences of code points
    Unsafe,     \* those that no id may have: control characters, <>:"/\|?*
    Dot,        \* the code point of '.'
    MaxNodes    \* bound on the nodes in the directory

VARIABLES
    node,    \* node[id]: "none", or what the node with the id is written in
    file,    \* the stems of the .sock files in the directory
    dialled  \* the pairs <<from, to>> of connections made (history)

vars == <<node, file, dialled>>

\* What lies in the directory beforehand: at most one socket of another program.
Init ==
    /\ node = [id \in Stem |-> "none"]
    /\ file \in {{}} \union {{s} : s \in Stem \ {<<>>}}
    /\ dialled = {}

-----------------------------------------------------------------------------
\* validate_node_id: not empty, no unsafe character, one component of a path.
Valid(id) ==
    /\ id \notin {<<>>, <<Dot>>, <<Dot, Dot>>}
    /\ \A i \in 1..Len(id) : id[i] \notin Unsafe

\* encode_utf16 of one code point.
Units(c) ==
    IF c < 65536 THEN <<c>>
    ELSE <<55296 + (c - 65536) \div 1024, 56320 + ((c - 65536) % 1024)>>

CodePoints(id) == id  \* a slip: str::cmp orders by code points

Utf16(id) == FlattenSeq([i \in 1..Len(id) |-> Units(id[i])])

\* dotnet_ordinal_cmp(left, right) == Less: the lexicographic order of iterators.
Less(left, right) ==
    LET l == Utf16(left)  r == Utf16(right)
    IN  \E k \in 0..Len(l) :
            /\ k <= Len(r) /\ SubSeq(l, 1, k) = SubSeq(r, 1, k)
            /\ \/ k = Len(l) /\ k < Len(r)
               \/ k < Len(l) /\ k < Len(r) /\ l[k + 1] < r[k + 1]

\* String.CompareOrdinal of .NET: the difference of the first code units that
\* differ, or that of the lengths; a .NET string is its code units.
CompareOrdinal(left, right) ==
    LET units(id) == FlattenSeq([i \in 1..Len(id) |-> Units(id[i])])
        l == units(left)  r == units(right)
        differ == {i \in 1..Len(l) : i <= Len(r) /\ l[i] # r[i]}
    IN  IF differ = {} THEN Len(l) - Len(r)
        ELSE LET first == CHOOSE i \in differ : \A j \in differ : i <= j
             IN  l[first] - r[first]

-----------------------------------------------------------------------------
\* with_socket_directory and start: the socket file is the node's own then.
Start(id, kind) ==
    /\ node[id] = "none" /\ Valid(id)
    /\ Cardinality({i \in Stem : node[i] # "none"}) < MaxNodes
    /\ node' = [node EXCEPT ![id] = kind]
    /\ file' = file \union {id}
    /\ UNCHANGED dialled

\* One entry of the directory; connecting fails where nobody listens.
Dials(id, stem) ==
    /\ stem \in file /\ stem # id /\ Valid(stem)
    /\ IF node[id] = "rust" THEN ~Less(stem, id) ELSE CompareOrdinal(id, stem) < 0
    /\ node[stem] # "none"

ScanAndConnect(id) ==
    /\ node[id] # "none"
    /\ dialled' = dialled \union {<<id, stem>> : stem \in {s \in file : Dials(id, s)}}
    /\ UNCHANGED <<node, file>>

Next ==
    \E id \in Stem :
        \/ \E kind \in {"rust", "dotnet"} : Start(id, kind)
        \/ ScanAndConnect(id)

Spec == Init /\ [][Next]_vars

\* discovery_loop scans again and again.
FairSpec == Spec /\ \A id \in Stem : WF_vars(ScanAndConnect(id))

-----------------------------------------------------------------------------
\* In the end one of any two nodes has dialled the other, and only one: of two
\* connections of one pair each side would keep the one that the other drops.  So
\* it is also where one of them is written in C#, and no node ever dials itself.
EachPairMeets ==
    <>[](\A a, b \in Stem :
            node[a] # "none" /\ node[b] # "none"
                => Cardinality({<<a, b>>, <<b, a>>} \intersect dialled)
                       = IF a = b THEN 0 ELSE 1)
=============================================================================
