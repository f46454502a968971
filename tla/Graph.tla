------------------------------- MODULE Graph -------------------------------
(***************************************************************************)
(* graph.New, FindNext and Dump (src/state/graph/graph.go, node.go,        *)
(* dump.go):                                                               *)
(* the graph of a machine is built from a list of edges, validated while   *)
(* its nodes are created, searched for unreachable nodes, and rendered as  *)
(* a diagram.  One iteration of a loop is one step; the order of the    *)
(* iterations over a Go map is any order.                                  *)
(***************************************************************************)
EXTENDS Naturals, FiniteSets, Sequences, SequencesExt

CONSTANTS
    States,             \* values of the type parameter S
    NoState,            \* its nil
    Comparable,         \* the values == does not panic on
    Nodes,              \* node identities: the Name of a state, or else its type
    NoNode,
    Identity,           \* the identity of each state
    Events,
    Inits,              \* first arguments of New
    Inputs,             \* the lists of edges given to New
    Labels,             \* the names diagrams show
    Star,               \* the name of the wildcard
    StateLabel,         \* the name of each state, without its package and pointer
    EventLabel,         \* the name of each event
    Place               \* the place of the line of three labels among all strings

Edges == [from : States \cup {NoState}, event : Events, to : States \cup {NoState}]

ASSUME GraphAssumption ==
    /\ NoState \notin States
    /\ Comparable \subseteq States
    /\ NoNode \notin Nodes
    /\ Identity \in [States -> Nodes]
    /\ Inits \subseteq States \cup {NoState}
    /\ Inputs \subseteq Seq(Edges)
    /\ Star \in Labels
    /\ StateLabel \in [States -> Labels]
    /\ EventLabel \in [Events -> Labels]
    /\ Place \in [Labels \X Labels \X Labels -> Nat]

VARIABLES
    init, edges,        \* the arguments of New
    pc,
    todo,               \* the edges the first loop of Handle has not seen
    wildEdges, regularEdges,    \* its slices wilds and es, without what has been handled
    state,              \* Node.State of each node, NoState for one not created
    next,               \* events and nextNodes of each node
    wilds,              \* nodeRegistry.wilds, NoNode for a missing key
    visited, queue,     \* of the search of New, then of getEdges
    result,             \* what New returns
    dumped,             \* what getEdges returns
    lines               \* the lines of the diagram, as their places

input == <<init, edges>>
pending == <<todo, wildEdges, regularEdges>>
registry == <<state, next, wilds>>
search == <<visited, queue>>
diagram == <<dumped, lines>>
vars == <<input, pc, pending, registry, search, result, diagram>>

Transitions == [event : Events, to : Nodes]

(* The types of all variables but the diagram's. *)
BuildTypeOK ==
    /\ init \in States \cup {NoState}
    /\ edges \in Seq(Edges)
    /\ pc \in {"initial", "partition", "handle", "seed", "search", "check",
             "built", "dump", "done"}
    /\ todo \in Seq(Edges)
    /\ wildEdges \in Seq({edge \in Edges : edge.from = NoState /\ edge.to # NoState})
    /\ regularEdges \in Seq({edge \in Edges : edge.from # NoState /\ edge.to # NoState})
    /\ state \in [Nodes -> Comparable \cup {NoState}]
    /\ next \in [Nodes -> Seq(Transitions)]
    /\ wilds \in [Events -> Nodes \cup {NoNode}]
    /\ visited \in SUBSET Nodes
    /\ queue \in Seq(Nodes)
    /\ result \in {"none", "error", "graph"}
    /\ dumped \in Seq(Edges)

TypeOK == BuildTypeOK /\ lines \in Seq(Nat)

Init ==
    /\ init \in Inits
    /\ edges \in Inputs
    /\ pc = "initial"
    /\ todo = <<>>
    /\ wildEdges = <<>>
    /\ regularEdges = <<>>
    /\ state = [n \in Nodes |-> NoState]
    /\ next = [n \in Nodes |-> <<>>]
    /\ wilds = [e \in Events |-> NoNode]
    /\ visited = {}
    /\ queue = <<>>
    /\ result = "none"
    /\ dumped = <<>>
    /\ lines = <<>>

-----------------------------------------------------------------------------
(* nodeRegistry                                                            *)

Exists(n) == state[n] # NoState

(* GetOrCreate returns an error: == on the state would panic, or the node   *)
(* of its identity carries another value.                                   *)
Refused(s) == s \notin Comparable \/ (Exists(Identity[s]) /\ state[Identity[s]] # s)

(* The nodes after GetOrCreate of each of the states ss. *)
Created(ss) ==
    [n \in Nodes |->
        IF \E s \in ss : Identity[s] = n THEN CHOOSE s \in ss : Identity[s] = n ELSE state[n]]

(* The slices events and nextNodes of a node. *)
EventsOf(n) == {next[n][i].event : i \in 1..Len(next[n])}
NextNodes(n) == [i \in 1..Len(next[n]) |-> next[n][i].to]

Fail ==
    /\ result' = "error"
    /\ pc' = "done"
    /\ UNCHANGED <<input, pending, registry, search, diagram>>

-----------------------------------------------------------------------------
(* New                                                                     *)

CreateInitial ==
    /\ pc = "initial"
    /\ IF init = NoState \/ Refused(init)
       THEN Fail
       ELSE /\ state' = Created({init})
            /\ todo' = edges
            /\ pc' = "partition"
            /\ UNCHANGED <<input, wildEdges, regularEdges, next, wilds, search, result, diagram>>

(* One iteration of the first loop of Handle. *)
Partition ==
    /\ pc = "partition" /\ todo # <<>>
    /\ IF Head(todo).to = NoState
       THEN Fail
       ELSE /\ todo' = Tail(todo)
            /\ IF Head(todo).from = NoState
               THEN wildEdges' = Append(wildEdges, Head(todo)) /\ UNCHANGED regularEdges
               ELSE regularEdges' = Append(regularEdges, Head(todo)) /\ UNCHANGED wildEdges
            /\ UNCHANGED <<input, pc, registry, search, result, diagram>>

Partitioned ==
    /\ pc = "partition" /\ todo = <<>>
    /\ pc' = "handle"
    /\ UNCHANGED <<input, pending, registry, search, result, diagram>>

(* handleWild returns an error. *)
WildIsRefused(edge) == Refused(edge.to) \/ wilds[edge.event] # NoNode

(* handle returns an error; to is looked up after from has been created. *)
EdgeIsRefused(edge) ==
    \/ Refused(edge.from)
    \/ Refused(edge.to)
    \/ Identity[edge.from] = Identity[edge.to] /\ edge.from # edge.to
    \/ edge.event \in EventsOf(Identity[edge.from])
    \/ wilds[edge.event] # NoNode

(* One iteration of the loop over the wildcard edges. *)
HandleWild ==
    /\ pc = "handle" /\ wildEdges # <<>>
    /\ LET edge == Head(wildEdges) IN
       IF WildIsRefused(edge)
       THEN Fail
       ELSE /\ state' = Created({edge.to})
            /\ wilds' = [wilds EXCEPT ![edge.event] = Identity[edge.to]]
            /\ wildEdges' = Tail(wildEdges)
            /\ UNCHANGED <<input, pc, todo, regularEdges, next, search, result, diagram>>

(* handle of the next regular edge. *)
Connect ==
    /\ pc = "handle" /\ regularEdges # <<>>
    /\ LET edge == Head(regularEdges) IN
       IF EdgeIsRefused(edge)
       THEN Fail
       ELSE /\ state' = Created({edge.from, edge.to})
            /\ next' = [next EXCEPT ![Identity[edge.from]] =
                          Append(@, [event |-> edge.event, to |-> Identity[edge.to]])]
            /\ regularEdges' = Tail(regularEdges)
            /\ UNCHANGED <<input, pc, todo, wildEdges, wilds, search, result, diagram>>

HandleEdgeAtOnce == Connect     \* wrong: does not wait for the wildcards

(* One iteration of the loop over the others, which starts after that one. *)
HandleEdge == wildEdges = <<>> /\ Connect

StartSearch ==
    /\ pc = "handle" /\ wildEdges = <<>> /\ regularEdges = <<>>
    /\ queue' = <<Identity[init]>>
    /\ pc' = "seed"
    /\ UNCHANGED <<input, pending, registry, visited, result, diagram>>

WildDestinations == {wilds[e] : e \in Events} \ {NoNode}

SeedWithoutNextNodes(n) ==      \* wrong: what follows a wildcard destination is not searched
    /\ pc = "seed"
    /\ n \in WildDestinations \ visited
    /\ visited' = visited \cup {n}
    /\ UNCHANGED <<input, pc, pending, registry, queue, result, diagram>>

(* One iteration of the loop over the wildcards. *)
Seed(n) ==
    /\ pc = "seed"
    /\ n \in WildDestinations \ visited
    /\ visited' = visited \cup {n}
    /\ queue' = queue \o NextNodes(n)
    /\ UNCHANGED <<input, pc, pending, registry, result, diagram>>

Seeded ==
    /\ pc = "seed"
    /\ WildDestinations \subseteq visited
    /\ pc' = "search"
    /\ UNCHANGED <<input, pending, registry, search, result, diagram>>

VisitAgain ==                   \* wrong: visits a node whenever it comes up
    /\ queue # <<>>
    /\ visited' = visited \cup {Head(queue)}
    /\ queue' = IF Head(queue) \in visited /\ Len(queue) > 1    \* keeps the queue finite
                THEN Tail(queue) ELSE Tail(queue) \o NextNodes(Head(queue))

(* One iteration of the traversal. *)
Visit ==
    /\ queue # <<>>
    /\ visited' = visited \cup {Head(queue)}
    /\ queue' = IF Head(queue) \in visited
                THEN Tail(queue) ELSE Tail(queue) \o NextNodes(Head(queue))

Search ==
    /\ pc = "search"
    /\ IF queue # <<>>
       THEN Visit /\ UNCHANGED pc
       ELSE pc' = "check" /\ UNCHANGED search
    /\ UNCHANGED <<input, pending, registry, result, diagram>>

CheckReachable ==
    /\ pc = "check"
    /\ IF \E n \in Nodes : Exists(n) /\ n \notin visited
       THEN Fail
       ELSE /\ result' = "graph"
            /\ pc' = "built"
            /\ UNCHANGED <<input, pending, registry, search, diagram>>

-----------------------------------------------------------------------------
(* The Graph                                                               *)

(* Node.FindNext *)
NextOfNode(n, e) ==
    IF e \in EventsOf(n)
    THEN next[n][CHOOSE i \in 1..Len(next[n]) : next[n][i].event = e].to
    ELSE NoNode

FindNextOfNode(n, e) == NextOfNode(n, e)    \* wrong: wildcards are not looked at

(* Graph.FindNext *)
FindNext(n, e) ==
    IF NextOfNode(n, e) # NoNode THEN NextOfNode(n, e) ELSE wilds[e]

StartDumpAtInitial ==           \* wrong: the traversal starts at the initial node only
    /\ pc = "built"
    /\ pc' = "dump"
    /\ \E order \in SetToSeqs({e \in Events : wilds[e] # NoNode}) :
         /\ queue' = <<Identity[init]>>
         /\ dumped' = [i \in 1..Len(order) |->
                        [from |-> NoState, event |-> order[i], to |-> state[wilds[order[i]]]]]
    /\ visited' = {}
    /\ UNCHANGED <<input, pending, registry, result, lines>>

(* getEdges up to its loop. *)
StartDump ==
    /\ pc = "built"
    /\ pc' = "dump"
    /\ \E order \in SetToSeqs({e \in Events : wilds[e] # NoNode}) :
         /\ queue' = <<Identity[init]>> \o [i \in 1..Len(order) |-> wilds[order[i]]]
         /\ dumped' = [i \in 1..Len(order) |->
                        [from |-> NoState, event |-> order[i], to |-> state[wilds[order[i]]]]]
    /\ visited' = {}
    /\ UNCHANGED <<input, pending, registry, result, lines>>

(* The edges of a node as its Edge values. *)
EdgesOf(n) ==
    [i \in 1..Len(next[n]) |->
        [from |-> state[n], event |-> next[n][i].event, to |-> state[next[n][i].to]]]

(* One iteration of the loop of getEdges. *)
Dump ==
    /\ pc = "dump" /\ queue # <<>>
    /\ Visit
    /\ dumped' = IF Head(queue) \in visited
                 THEN dumped ELSE dumped \o EdgesOf(Head(queue))
    /\ UNCHANGED <<input, pc, pending, registry, result, lines>>

(* The text of an edge. *)
Line(edge) ==
    LET from == IF edge.from = NoState THEN Star ELSE StateLabel[edge.from]
    IN  Place[<<from, StateLabel[edge.to], EventLabel[edge.event]>>]

RenderUnsorted ==               \* wrong: lines come in the order of the traversal
    /\ pc = "dump" /\ queue = <<>>
    /\ lines' = [i \in 1..Len(dumped) |-> Line(dumped[i])]
    /\ pc' = "done"
    /\ UNCHANGED <<input, pending, registry, search, result, dumped>>

(* sort.Strings: the i-th of a list goes behind those before it in the order *)
(* of the places, and behind the same ones further up.                      *)
Rank(list, i) ==
    Cardinality({j \in 1..Len(list) : list[j] < list[i] \/ (list[j] = list[i] /\ j <= i)})

Sorted(list) ==
    [r \in 1..Len(list) |-> list[CHOOSE i \in 1..Len(list) : Rank(list, i) = r]]

(* mermaidDumper.Dump, below the line that names the initial state. *)
Render ==
    /\ pc = "dump" /\ queue = <<>>
    /\ lines' = Sorted([i \in 1..Len(dumped) |-> Line(dumped[i])])
    /\ pc' = "done"
    /\ UNCHANGED <<input, pending, registry, search, result, dumped>>

-----------------------------------------------------------------------------
Next ==
    \/ CreateInitial \/ Partition \/ Partitioned \/ HandleWild \/ HandleEdge
    \/ StartSearch \/ (\E n \in Nodes : Seed(n)) \/ Seeded \/ Search \/ CheckReachable
    \/ StartDump \/ Dump \/ Render

Spec == Init /\ [][Next]_vars

FairSpec == Spec /\ WF_vars(Next)

-----------------------------------------------------------------------------
(* What New requires of its arguments (the comment of New,                  *)
(* src/state/graph/graph.go:115-119), without order, nodes or a traversal.  *)
Given == {edges[i] : i \in 1..Len(edges)}

Mentioned == ({init} \cup {d.from : d \in Given} \cup {d.to : d \in Given}) \ {NoState}

Applies(d, n) == d.from = NoState \/ Identity[d.from] = n

Closed(S) == \A d \in Given : (\E n \in S : Applies(d, n)) => Identity[d.to] \in S

Reachable(n) ==
    \A S \in SUBSET Nodes : Identity[init] \in S /\ Closed(S) => n \in S

SameChoice(c, d) ==
    /\ c.event = d.event
    /\ c.from = NoState \/ d.from = NoState \/ Identity[c.from] = Identity[d.from]

WellFormed ==
    /\ init # NoState
    /\ \A d \in Given : d.to # NoState
    /\ Mentioned \subseteq Comparable
    /\ \A s, t \in Mentioned : Identity[s] = Identity[t] => s = t
    /\ \A i, j \in 1..Len(edges) : i # j => ~SameChoice(edges[i], edges[j])
    /\ \A s \in Mentioned : Reachable(Identity[s])

(* New accepts exactly the well-formed lists, in whatever order the edges   *)
(* are given and the maps are iterated                                      *)
(* (src/state/graph/graph.go:115-119).                                      *)
AcceptsTheWellFormed == result # "none" => (result = "graph" <=> WellFormed)

(* No event is taken both by an edge of a node and by a wildcard, so that   *)
(* it does not matter which of the two FindNext looks at first              *)
(* (src/state/graph/node.go:98-100, 146-147).                               *)
NoEventIsAmbiguous ==
    \A n \in Nodes : \A i, j \in 1..Len(next[n]) :
        /\ wilds[next[n][i].event] = NoNode
        /\ next[n][i].event = next[n][j].event => i = j

(* A machine built from the graph moves along the given edges: each can be  *)
(* taken where it applies, and nothing else can                             *)
(* (src/state/graph/graph.go:71-78).                                        *)
FindNextFollowsTheEdges ==
    result = "graph" =>
        \A n \in {m \in Nodes : Exists(m)} :
            /\ \A d \in Given : Applies(d, n) => FindNext(n, d.event) = Identity[d.to]
            /\ \A e \in Events : FindNext(n, e) # NoNode =>
                 \E d \in Given : d.event = e /\ Applies(d, n)

(* The lines are those of the edges of a list, sorted. *)
LinesOf(list) ==
    /\ \A i, j \in 1..Len(lines) : i < j => lines[i] <= lines[j]
    /\ \A k \in ToSet(lines) \cup {Line(list[i]) : i \in 1..Len(list)} :
          Cardinality({i \in 1..Len(lines) : lines[i] = k})
            = Cardinality({i \in 1..Len(list) : Line(list[i]) = k})

(* A diagram shows every edge once: the traversal of getEdges, which starts *)
(* from other nodes than the one of New, misses nothing that New accepts    *)
(* (src/state/graph/graph.go:80).  Its text depends on nothing but the      *)
(* edges, neither on their order nor on that of a map, though distinct      *)
(* nodes may share a label (src/state/graph/dump.go:41-42, 58).             *)
DumpShowsEveryEdge ==
    pc = "done" /\ result = "graph" => ToSet(dumped) = Given /\ LinesOf(edges)

(* New and Dump end, also for a graph with cycles.                          *)
Ends == <>(pc = "done")
=============================================================================
