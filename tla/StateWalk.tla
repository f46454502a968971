----------------------------- MODULE StateWalk -----------------------------
(***************************************************************************)
(* What a user of state.Machine relies on (the comments of Machine in      *)
(* src/state/machine.go): the machine is at no node or at one, it starts   *)
(* at the initial node, moves only along the edges of its graph, one at a  *)
(* time, and a run ends only by a stop.                                    *)
(***************************************************************************)
EXTENDS Naturals

CONSTANTS
    Nodes,
    NoNode,
    InitialNode,
    Events,
    Edges               \* the destination of each event at each node, or NoNode

VARIABLES
    at,                 \* the node the machine is at, NoNode when not running
    visits              \* how many visits there have been

vars == <<at, visits>>

Init ==
    /\ at = NoNode
    /\ visits = 0

Launch ==
    /\ at = NoNode
    /\ at' = InitialNode
    /\ visits' = visits + 1

Move(e) ==
    /\ at # NoNode
    /\ Edges[at, e] # NoNode
    /\ at' = Edges[at, e]
    /\ visits' = visits + 1

Stop ==
    /\ at # NoNode
    /\ at' = NoNode
    /\ UNCHANGED visits

Next == Launch \/ Stop \/ \E e \in Events : Move(e)

Spec == Init /\ [][Next]_vars
=============================================================================
