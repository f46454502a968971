------------------------------ MODULE MCGraph ------------------------------
(* Lists of edges for Graph: over three nodes and two events, with cycles,  *)
(* duplicates and wildcards, and with one edge each of every kind that New  *)
(* has to refuse whatever the others are.                                   *)
EXTENDS Graph, TLC

CONSTANTS a, b, c, b2, u, nA, nB, nC, e1, e2

MCStates == {a, b, c, b2, u}        \* u is not comparable
MCComparable == {a, b, c, b2}
MCNodes == {nA, nB, nC}
MCEvents == {e1, e2}

(* b2 is another value with the identity of b. *)
MCIdentity == a :> nA @@ b :> nB @@ c :> nC @@ b2 :> nB @@ u :> nC

Edge(from, event, to) == [from |-> from, event |-> event, to |-> to]

OddEdges == {Edge(a, e1, b2), Edge(b2, e2, b), Edge(a, e2, u), Edge(u, e1, b),
             Edge(b, e1, NoState), Edge(NoState, e1, b2), Edge(NoState, e2, u)}

MCEdges == [from : {a, b, c, NoState}, event : MCEvents, to : {b, c}]
           \cup {Edge(b, e1, a), Edge(c, e2, a)} \cup OddEdges

(* b and c are types of the same name in two packages.                      *)
MCLabels == 0..4
MCStar == 0
MCStateLabel == a :> 4 @@ b :> 3 @@ c :> 3 @@ b2 :> 3 @@ u :> 1
MCEventLabel == e1 :> 1 @@ e2 :> 2
MCPlace == [l \in MCLabels \X MCLabels \X MCLabels |-> 25 * l[1] + 5 * l[2] + l[3]]

MCInits == {a, u, NoState}
MCInputs == BoundedSeq(MCEdges, 3)
=============================================================================
