----------------------------- MODULE GraphProofs -----------------------------
(***************************************************************************)
(* Proofs about Graph for any states, identities, events and lists of      *)
(* edges.                                                                  *)
(***************************************************************************)
EXTENDS Graph, SequenceLemmas, FiniteSetTheorems

In(s, x) == \E i \in 1..Len(s) : s[i] = x

Twice(s, x) == \E i, j \in 1..Len(s) : i # j /\ s[i] = x /\ s[j] = x

Waits(d) == In(todo, d) \/ In(wildEdges, d) \/ In(regularEdges, d)

WaitsTwice(d) ==
    \/ Twice(todo, d) \/ Twice(wildEdges, d) \/ Twice(regularEdges, d)
    \/ In(todo, d) /\ (In(wildEdges, d) \/ In(regularEdges, d))

Transition(d) == [event |-> d.event, to |-> Identity[d.to]]

Carried(s) == s # NoState /\ state[Identity[s]] = s

(* Handle is done with the edge, and the nodes it joins are those of its    *)
(* states.                                                                  *)
Recorded(d) ==
    /\ Carried(d.to)
    /\ d.from = NoState => wilds[d.event] = Identity[d.to]
    /\ d.from # NoState => Carried(d.from) /\ In(next[Identity[d.from]], Transition(d))

Begun == pc # "initial" /\ result # "error"

(* What is empty or decided in each phase of New.                           *)
PhaseOK ==
    /\ pc = "initial" => \A n \in Nodes : ~Exists(n)
    /\ pc \in {"initial", "partition"} \/ wildEdges # <<>> =>
         \A n \in Nodes : next[n] = <<>>
    /\ pc = "initial" =>
         todo = <<>> /\ wildEdges = <<>> /\ regularEdges = <<>> /\ \A e \in Events : wilds[e] = NoNode
    /\ pc = "handle" => todo = <<>>
    /\ pc \in {"seed", "search", "check", "built", "dump"} \/ result = "graph" =>
         todo = <<>> /\ wildEdges = <<>> /\ regularEdges = <<>>
    /\ result = "none" <=>
         pc \in {"initial", "partition", "handle", "seed", "search", "check"}
    /\ pc \in {"built", "dump"} => result = "graph"

(* The nodes are those of states that New was given.                        *)
NodesOK ==
    /\ \A n \in Nodes : Exists(n) => Identity[state[n]] = n /\ state[n] \in Mentioned
    /\ Begun => Carried(init)

(* Every transition comes from an edge.                                     *)
TransitionsOK ==
    /\ \A e \in Events : wilds[e] # NoNode =>
         \E d \in Given : d.from = NoState /\ d.event = e /\ Recorded(d)
    /\ \A n \in Nodes : \A k \in 1..Len(next[n]) :
         \E d \in Given : /\ d.from # NoState /\ Identity[d.from] = n
                          /\ next[n][k] = Transition(d) /\ Recorded(d)
    /\ IsFiniteSet({e \in Events : wilds[e] # NoNode})

Repeated(d) == Twice(edges, d)

(* No edge is lost, and one given twice still waits, or is about to be      *)
(* refused.                                                                 *)
EdgesOK ==
    /\ \A d \in Edges : Waits(d) => d \in Given
    /\ Begun => \A d \in Given :
         /\ Waits(d) \/ Recorded(d)
         /\ Repeated(d) <=> WaitsTwice(d) \/ (Waits(d) /\ Recorded(d))

Found == visited \cup {queue[i] : i \in 1..Len(queue)}

Pursued == \A n \in visited : \A k \in 1..Len(next[n]) : next[n][k].to \in Found

(* The traversal of New stays among the reachable nodes and loses none.     *)
SearchOK ==
    /\ pc \in {"initial", "partition", "handle"} => visited = {} /\ queue = <<>>
    /\ pc \in {"seed", "search", "check"} =>
         (\A n \in Found : Reachable(n)) /\ Pursued /\ Identity[init] \in Found
    /\ pc \in {"search", "check"} => WildDestinations \subseteq visited
    /\ pc = "check" => queue = <<>>

(* The traversal of getEdges loses none either, and collects their edges.   *)
DumpOK ==
    /\ pc = "dump" =>
         /\ Pursued
         /\ Identity[init] \in Found /\ WildDestinations \subseteq Found
         /\ \A i \in 1..Len(dumped) : dumped[i] \in Given
         /\ \A d \in Given : d.from = NoState \/ Identity[d.from] \in visited => In(dumped, d)
    /\ pc = "done" /\ result = "graph" => ToSet(dumped) = Given

IInv ==
    /\ BuildTypeOK /\ PhaseOK /\ NodesOK /\ TransitionsOK /\ NoEventIsAmbiguous
    /\ EdgesOK /\ SearchOK /\ DumpOK /\ AcceptsTheWellFormed

-----------------------------------------------------------------------------
(* Lists                                                                   *)

(* What is in a list is its head or in its tail, and twice in it if twice   *)
(* in the tail or in both places.                                           *)
LEMMA InTail ==
    ASSUME NEW S, NEW s \in Seq(S), s # <<>>, NEW x
    PROVE  /\ In(s, x) <=> x = Head(s) \/ In(Tail(s), x)
           /\ Twice(s, x) <=> Twice(Tail(s), x) \/ (x = Head(s) /\ In(Tail(s), x))
<1> DEFINE t == Tail(s)
<1>1. /\ Len(s) \in Nat /\ Len(s) >= 1 /\ Len(t) = Len(s) - 1
      /\ \A j \in 1..(Len(s) - 1) : t[j] = s[j + 1]
      /\ Head(s) = s[1]
  BY TailFacts
<1> HIDE DEF t
<1>2. ASSUME In(s, x) PROVE x = Head(s) \/ In(t, x)
  <2>1. PICK i \in 1..Len(s) : s[i] = x
    BY <1>2 DEF In
  <2>2. CASE i = 1
    BY <1>1, <2>1, <2>2
  <2>3. CASE i # 1
    <3>1. i - 1 \in 1..Len(t) /\ t[i - 1] = s[(i - 1) + 1] /\ (i - 1) + 1 = i
      BY <1>1, <2>3
    <3> QED
      BY <2>1, <3>1 DEF In
  <2> QED
    BY <2>2, <2>3
<1>3. ASSUME In(t, x) PROVE In(s, x)
  <2>1. PICK j \in 1..Len(t) : t[j] = x
    BY <1>3 DEF In
  <2>2. j + 1 \in 1..Len(s) /\ s[j + 1] = x
    BY <1>1, <2>1
  <2> QED
    BY <2>2 DEF In
<1>4. ASSUME x = Head(s) PROVE In(s, x)
  BY <1>1, <1>4 DEF In
<1>5. ASSUME Twice(s, x) PROVE Twice(t, x) \/ (x = Head(s) /\ In(t, x))
  <2>1. PICK i, j \in 1..Len(s) : i # j /\ s[i] = x /\ s[j] = x
    BY <1>5 DEF Twice
  <2>2. CASE i # 1 /\ j # 1
    <3>1. i - 1 \in 1..Len(t) /\ j - 1 \in 1..Len(t) /\ i - 1 # j - 1
      BY <1>1, <2>1, <2>2
    <3>2. t[i - 1] = x /\ t[j - 1] = x
      BY <1>1, <2>1, <3>1
    <3> QED
      BY <3>1, <3>2 DEF Twice
  <2>3. ASSUME NEW k \in 1..Len(s), k # 1, s[k] = x, s[1] = x PROVE x = Head(s) /\ In(t, x)
    <3>1. k - 1 \in 1..Len(t) /\ t[k - 1] = x
      BY <1>1, <2>3
    <3> QED
      BY <1>1, <2>3, <3>1 DEF In
  <2> QED
    BY <2>1, <2>2, <2>3
<1>6. ASSUME Twice(t, x) PROVE Twice(s, x)
  <2>1. PICK i, j \in 1..Len(t) : i # j /\ t[i] = x /\ t[j] = x
    BY <1>6 DEF Twice
  <2>2. /\ i + 1 \in 1..Len(s) /\ j + 1 \in 1..Len(s) /\ i + 1 # j + 1
        /\ s[i + 1] = x /\ s[j + 1] = x
    BY <1>1, <2>1
  <2> QED
    BY <2>2 DEF Twice
<1>7. ASSUME x = Head(s), In(t, x) PROVE Twice(s, x)
  <2>1. PICK j \in 1..Len(t) : t[j] = x
    BY <1>7 DEF In
  <2>2. 1 \in 1..Len(s) /\ j + 1 \in 1..Len(s) /\ 1 # j + 1 /\ s[1] = x /\ s[j + 1] = x
    BY <1>1, <1>7, <2>1
  <2> QED
    BY <2>2 DEF Twice
<1> QED
  BY <1>2, <1>3, <1>4, <1>5, <1>6, <1>7 DEF t

(* Appending adds one occurrence.                                           *)
LEMMA InAppend ==
    ASSUME NEW S, NEW s \in Seq(S), NEW e \in S, NEW x
    PROVE  /\ In(Append(s, e), x) <=> In(s, x) \/ x = e
           /\ Twice(Append(s, e), x) <=> Twice(s, x) \/ (x = e /\ In(s, x))
<1> DEFINE t == Append(s, e)
<1>1. /\ Len(s) \in Nat /\ Len(t) = Len(s) + 1
      /\ \A j \in 1..Len(s) : t[j] = s[j]
      /\ t[Len(s) + 1] = e
  BY AppendFacts, LenProperties
<1> HIDE DEF t
<1>2. \A i \in 1..Len(t) : i \in 1..Len(s) \/ i = Len(s) + 1
  BY <1>1
<1>3. Len(s) + 1 \in 1..Len(t) /\ \A i \in 1..Len(s) : i \in 1..Len(t) /\ i # Len(s) + 1
  BY <1>1
<1>4. In(t, x) <=> In(s, x) \/ x = e
  BY <1>1, <1>2, <1>3 DEF In
<1>5. ASSUME Twice(t, x) PROVE Twice(s, x) \/ (x = e /\ In(s, x))
  BY <1>1, <1>2, <1>5 DEF In, Twice
<1>6. ASSUME Twice(s, x) PROVE Twice(t, x)
  BY <1>1, <1>3, <1>6 DEF Twice
<1>7. ASSUME x = e, In(s, x) PROVE Twice(t, x)
  <2>1. PICK j \in 1..Len(s) : s[j] = x
    BY <1>7 DEF In
  <2>2. t[j] = x /\ t[Len(s) + 1] = x /\ j # Len(s) + 1
    BY <1>1, <1>3, <1>7, <2>1
  <2> QED
    BY <1>3, <2>2 DEF Twice
<1> QED
  BY <1>4, <1>5, <1>6, <1>7 DEF t

(* Nothing is in the empty list.                                            *)
LEMMA InEmpty ==
    ASSUME NEW x
    PROVE  ~In(<<>>, x) /\ ~Twice(<<>>, x)
BY DEF In, Twice

(* What is in either of two lists is in both of them joined.                *)
LEMMA InConcat ==
    ASSUME NEW S, NEW s \in Seq(S), NEW t \in Seq(S), NEW x
    PROVE  In(s \o t, x) <=> In(s, x) \/ In(t, x)
<1> DEFINE c == s \o t
<1>1. /\ Len(s) \in Nat /\ Len(t) \in Nat /\ Len(c) = Len(s) + Len(t)
      /\ \A i \in 1..(Len(s) + Len(t)) : c[i] = IF i <= Len(s) THEN s[i] ELSE t[i - Len(s)]
  BY ConcatProperties, LenProperties
<1> HIDE DEF c
<1>2. ASSUME In(c, x) PROVE In(s, x) \/ In(t, x)
  <2>1. PICK i \in 1..Len(c) : c[i] = x
    BY <1>2 DEF In
  <2>2. CASE i <= Len(s)
    BY <1>1, <2>1, <2>2 DEF In
  <2>3. CASE ~(i <= Len(s))
    <3>1. i - Len(s) \in 1..Len(t) /\ t[i - Len(s)] = x
      BY <1>1, <2>1, <2>3
    <3> QED
      BY <3>1 DEF In
  <2> QED
    BY <2>2, <2>3
<1>3. ASSUME In(s, x) PROVE In(c, x)
  <2>1. PICK i \in 1..Len(s) : s[i] = x
    BY <1>3 DEF In
  <2>2. i \in 1..Len(c) /\ c[i] = x
    BY <1>1, <2>1
  <2> QED
    BY <2>2 DEF In
<1>4. ASSUME In(t, x) PROVE In(c, x)
  <2>1. PICK i \in 1..Len(t) : t[i] = x
    BY <1>4 DEF In
  <2>2. i + Len(s) \in 1..Len(c) /\ (i + Len(s)) - Len(s) = i /\ ~(i + Len(s) <= Len(s))
    BY <1>1, <2>1
  <2>3. c[i + Len(s)] = x
    BY <1>1, <2>1, <2>2
  <2> QED
    BY <2>2, <2>3 DEF In
<1> QED
  BY <1>2, <1>3, <1>4 DEF c
-----------------------------------------------------------------------------
(* What a step leaves alone                                                *)

(* What New requires depends on its arguments only.                         *)
LEMMA InputFrame ==
    ASSUME UNCHANGED input
    PROVE  /\ Given' = Given /\ Mentioned' = Mentioned
           /\ WellFormed' <=> WellFormed
           /\ \A n : Reachable(n)' <=> Reachable(n)
           /\ \A d : Repeated(d)' <=> Repeated(d)
<1>1. init' = init /\ edges' = edges
  BY DEF input
<1>2. Given' = Given /\ Mentioned' = Mentioned
  BY <1>1 DEF Given, Mentioned
<1>3. \A S : Closed(S)' <=> Closed(S)
  BY <1>2 DEF Closed
<1>4. \A n : Reachable(n)' <=> Reachable(n)
  BY <1>1, <1>3 DEF Reachable
<1>5. WellFormed' <=> WellFormed
  BY <1>1, <1>2, <1>4 DEF WellFormed
<1> QED
  BY <1>1, <1>2, <1>4, <1>5 DEF Repeated, Twice

(* Edges stay recorded while the nodes stay as they are.                    *)
LEMMA RegistryFrame ==
    ASSUME UNCHANGED <<input, registry>>
    PROVE  /\ \A d : Recorded(d)' <=> Recorded(d)
           /\ \A s : Carried(s)' <=> Carried(s)
           /\ \A n : Exists(n)' <=> Exists(n)
           /\ WildDestinations' = WildDestinations
           /\ TransitionsOK' <=> TransitionsOK
           /\ NoEventIsAmbiguous' <=> NoEventIsAmbiguous
<1>1. state' = state /\ next' = next /\ wilds' = wilds
  BY DEF registry
<1>2. \A s : Carried(s)' <=> Carried(s)
  BY <1>1 DEF Carried
<1>3. \A n : Exists(n)' <=> Exists(n)
  BY <1>1 DEF Exists
<1>4. \A d : Recorded(d)' <=> Recorded(d)
  BY <1>1, <1>2 DEF Recorded, In
<1>5. Given' = Given
  BY InputFrame
<1>6. TransitionsOK' <=> TransitionsOK
  BY <1>1, <1>4, <1>5 DEF TransitionsOK
<1> QED
  BY <1>1, <1>2, <1>3, <1>4, <1>6 DEF WildDestinations, NoEventIsAmbiguous

(* Edges wait while the lists stay as they are.                             *)
LEMMA PendingFrame ==
    ASSUME UNCHANGED pending
    PROVE  \A d : (Waits(d)' <=> Waits(d)) /\ (WaitsTwice(d)' <=> WaitsTwice(d))
BY DEF pending, Waits, WaitsTwice, In, Twice

(* A traversal is where it was while its queue stays as it is.              *)
LEMMA SearchFrame ==
    ASSUME UNCHANGED <<input, registry, search>>
    PROVE  /\ Found' = Found
           /\ Pursued' <=> Pursued
BY DEF input, registry, search, Found, Pursued

(* Every edge given is an edge, and its states are mentioned.               *)
LEMMA GivenFacts ==
    ASSUME BuildTypeOK, NEW d \in Given
    PROVE  /\ d \in Edges /\ d.event \in Events
           /\ d.from \in States \cup {NoState} /\ d.to \in States \cup {NoState}
           /\ d.from # NoState => d.from \in Mentioned
           /\ d.to # NoState => d.to \in Mentioned
           /\ In(edges, d)
<1>1. PICK i \in 1..Len(edges) : d = edges[i]
  BY DEF Given
<1>2. edges[i] \in Edges
  BY ElementOfSeq DEF BuildTypeOK
<1>3. In(edges, d)
  BY <1>1 DEF In
<1> QED
  BY <1>1, <1>2, <1>3 DEF Edges, Mentioned

(* What is mentioned is a state.                                            *)
LEMMA MentionedAreStates ==
    ASSUME BuildTypeOK
    PROVE  Mentioned \subseteq States
BY GivenFacts DEF Mentioned, BuildTypeOK

(* Two different edges, or one given twice, stand at different places of    *)
(* the list.                                                                *)
LEMMA DifferentPlaces ==
    ASSUME BuildTypeOK, NEW c \in Given, NEW d \in Given, c # d \/ Repeated(d),
           SameChoice(c, d)
    PROVE  ~WellFormed
<1>1. CASE c # d
  <2>1. PICK i \in 1..Len(edges) : edges[i] = c
    BY GivenFacts DEF In
  <2>2. PICK j \in 1..Len(edges) : edges[j] = d
    BY GivenFacts DEF In
  <2> QED
    BY <1>1, <2>1, <2>2 DEF WellFormed
<1>2. CASE c = d /\ Repeated(d)
  <2>1. PICK i, j \in 1..Len(edges) : i # j /\ edges[i] = d /\ edges[j] = d
    BY <1>2 DEF Repeated, Twice
  <2> QED
    BY <1>2, <2>1 DEF WellFormed
<1> QED
  BY <1>1, <1>2

-----------------------------------------------------------------------------
(* nodeRegistry                                                            *)

(* GetOrCreate of states that are not refused keeps the nodes there are and *)
(* gives each state its own.                                                *)
LEMMA CreatedFacts ==
    ASSUME BuildTypeOK, NEW ss \in SUBSET States, \A s \in ss : ~Refused(s),
           \A s, t \in ss : Identity[s] = Identity[t] => s = t
    PROVE  /\ Created(ss) \in [Nodes -> Comparable \cup {NoState}]
           /\ \A n \in Nodes : Exists(n) => Created(ss)[n] = state[n]
           /\ \A s \in ss : Created(ss)[Identity[s]] = s
           /\ \A n \in Nodes : Created(ss)[n] = state[n]
                \/ \E s \in ss : Identity[s] = n /\ Created(ss)[n] = s
<1>1. \A s \in ss : s \in Comparable /\ Identity[s] \in Nodes
  BY GraphAssumption DEF Refused
<1>2. ASSUME NEW n \in Nodes, NEW s \in ss, Identity[s] = n
      PROVE  Created(ss)[n] = s
  <2>1. (CHOOSE t \in ss : Identity[t] = n) = s
    BY <1>2
  <2> QED
    BY <1>2, <2>1 DEF Created
<1>3. ASSUME NEW n \in Nodes, ~\E s \in ss : Identity[s] = n
      PROVE  Created(ss)[n] = state[n]
  BY <1>3 DEF Created
<1>4. ASSUME NEW n \in Nodes
      PROVE  Created(ss)[n] \in Comparable \cup {NoState}
  BY <1>1, <1>2, <1>3 DEF BuildTypeOK
<1>5. ASSUME NEW n \in Nodes, Exists(n)
      PROVE  Created(ss)[n] = state[n]
  BY <1>2, <1>3, <1>5 DEF Refused
<1>6. Created(ss) \in [Nodes -> Comparable \cup {NoState}]
  BY <1>4 DEF Created
<1> QED
  BY <1>1, <1>2, <1>3, <1>5, <1>6

(* The events of a node are those of its transitions.                       *)
LEMMA EventsOfFacts ==
    ASSUME BuildTypeOK, NEW n \in Nodes, NEW e
    PROVE  e \in EventsOf(n) <=> \E k \in 1..Len(next[n]) : next[n][k].event = e
BY DEF EventsOf

-----------------------------------------------------------------------------
(* The steps of New up to its traversal                                    *)

(* New begins with nothing.                                                 *)
LEMMA InitStep == Init => IInv
<1> SUFFICES ASSUME Init PROVE IInv
  OBVIOUS
<1> USE DEF Init
<1>1. BuildTypeOK
  BY GraphAssumption, EmptySeq DEF BuildTypeOK
<1>2. PhaseOK
  BY DEF PhaseOK, Exists
<1>3. NodesOK /\ TransitionsOK
  <2>1. {e \in Events : wilds[e] # NoNode} = {} /\ \A n \in Nodes : next[n] = <<>>
    OBVIOUS
  <2>2. IsFiniteSet({e \in Events : wilds[e] # NoNode})
    BY <2>1, FS_EmptySet
  <2>3. \A n \in Nodes : 1..Len(next[n]) = {}
    BY <2>1
  <2>4. TransitionsOK
    BY <2>1, <2>2, <2>3 DEF TransitionsOK
  <2> QED
    BY <2>4 DEF NodesOK, Exists, Begun
<1>4. NoEventIsAmbiguous
  BY DEF NoEventIsAmbiguous
<1>5. EdgesOK
  BY InEmpty DEF EdgesOK, Begun, Waits
<1>6. SearchOK /\ DumpOK /\ AcceptsTheWellFormed
  BY DEF SearchOK, DumpOK, AcceptsTheWellFormed
<1> QED
  BY <1>1, <1>2, <1>3, <1>4, <1>5, <1>6 DEF IInv

(* An error ends New, and it must be one of the arguments.                  *)
LEMMA FailStep ==
    ASSUME IInv, Fail, ~WellFormed
    PROVE  IInv'
<1>1. /\ UNCHANGED <<input, pending, registry, search, diagram>>
      /\ result' = "error" /\ pc' = "done"
  BY DEF Fail
<1>2. BuildTypeOK'
  BY <1>1 DEF IInv, BuildTypeOK, input, pending, registry, search, diagram
<1>3. PhaseOK'
  BY <1>1 DEF IInv, PhaseOK, pending, registry, Exists
<1>4. NodesOK' /\ TransitionsOK' /\ NoEventIsAmbiguous'
  BY <1>1, InputFrame, RegistryFrame DEF IInv, NodesOK, Begun, registry
<1>5. EdgesOK'
  BY <1>1, InputFrame, PendingFrame DEF IInv, EdgesOK, Begun
<1>6. SearchOK' /\ DumpOK'
  BY <1>1 DEF SearchOK, DumpOK
<1>7. AcceptsTheWellFormed'
  BY <1>1, InputFrame DEF AcceptsTheWellFormed
<1> QED
  BY <1>2, <1>3, <1>4, <1>5, <1>6, <1>7 DEF IInv

(* New fails on an initial state that it must refuse.                       *)
LEMMA CreateInitialStep ==
    ASSUME IInv, CreateInitial
    PROVE  IInv'
<1>1. /\ pc = "initial"
      /\ \A n \in Nodes : ~Exists(n)
      /\ wildEdges = <<>> /\ regularEdges = <<>> /\ \A e \in Events : wilds[e] = NoNode
      /\ \A n \in Nodes : next[n] = <<>>
      /\ result = "none" /\ visited = {} /\ queue = <<>>
  BY DEF IInv, PhaseOK, SearchOK, CreateInitial
<1>2. BuildTypeOK
  BY DEF IInv
<1>3. CASE init = NoState \/ Refused(init)
  <2>1. Fail
    BY <1>3 DEF CreateInitial
  <2>2. ~WellFormed
    <3>1. CASE init = NoState
      BY <3>1 DEF WellFormed
    <3>2. CASE init # NoState
      <4>1. init \in States /\ init \in Mentioned
        BY <1>2, <3>2 DEF BuildTypeOK, Mentioned
      <4>2. init \notin Comparable
        BY <1>1, <1>3, <3>2, <4>1, GraphAssumption DEF Refused
      <4> QED
        BY <4>1, <4>2 DEF WellFormed
    <3> QED
      BY <3>1, <3>2
  <2> QED
    BY <2>1, <2>2, FailStep
<1>4. CASE ~(init = NoState \/ Refused(init))
  <2>1. /\ state' = Created({init}) /\ todo' = edges /\ pc' = "partition"
        /\ UNCHANGED <<input, wildEdges, regularEdges, next, wilds, search, result, diagram>>
    BY <1>4 DEF CreateInitial
  <2>2. init \in States /\ init \in Mentioned
    BY <1>2, <1>4 DEF BuildTypeOK, Mentioned
  <2>3. /\ Created({init}) \in [Nodes -> Comparable \cup {NoState}]
        /\ Created({init})[Identity[init]] = init
        /\ \A n \in Nodes : Created({init})[n] = state[n]
             \/ (Identity[init] = n /\ Created({init})[n] = init)
    BY <1>2, <1>4, <2>2, CreatedFacts
  <2>4. UNCHANGED input
    BY <2>1
  <2>5. BuildTypeOK'
    BY <1>2, <2>1, <2>3 DEF BuildTypeOK, input, search, diagram
  <2>6. PhaseOK'
    BY <1>1, <2>1 DEF PhaseOK
  <2>7. NodesOK'
    BY <1>1, <1>4, <2>1, <2>2, <2>3, <2>4, InputFrame DEF NodesOK, Exists, Carried, input
  <2>8. \A e \in Events : wilds'[e] = NoNode
    BY <1>1, <2>1
  <2>9. \A n \in Nodes : next'[n] = <<>>
    BY <1>1, <2>1
  <2>10. TransitionsOK' /\ NoEventIsAmbiguous'
    <3>1. {e \in Events : wilds'[e] # NoNode} = {}
      BY <2>8
    <3>2. IsFiniteSet({e \in Events : wilds'[e] # NoNode})
      BY <3>1, FS_EmptySet
    <3>3. \A n \in Nodes : 1..Len(next'[n]) = {}
      BY <2>9
    <3> QED
      BY <2>8, <3>2, <3>3 DEF TransitionsOK, NoEventIsAmbiguous
  <2>11. EdgesOK'
    <3>1. ASSUME NEW d \in Given PROVE ~Recorded(d)'
      <4>1. d.from = NoState \/ Identity[d.from] \in Nodes
        BY <1>2, GivenFacts, GraphAssumption
      <4>2. d.event \in Events /\ (d.to # NoState => Identity[d.to] \in Nodes)
        BY <1>2, GivenFacts, GraphAssumption
      <4> QED
        BY <2>8, <2>9, <4>1, <4>2, InEmpty, GraphAssumption DEF Recorded, Carried, In
    <3>2. \A d : Waits(d)' <=> In(edges, d)
      BY <1>1, <2>1, InEmpty DEF Waits, In
    <3>3. \A d : WaitsTwice(d)' <=> Twice(edges, d)
      BY <1>1, <2>1, InEmpty DEF WaitsTwice, In, Twice
    <3>4. \A d : In(edges, d) <=> d \in Given
      BY DEF In, Given
    <3> QED
      BY <2>4, <3>1, <3>2, <3>3, <3>4, InputFrame DEF EdgesOK, Repeated
  <2>12. SearchOK' /\ DumpOK'
    BY <1>1, <2>1 DEF SearchOK, DumpOK, search
  <2>13. AcceptsTheWellFormed'
    BY <1>1, <2>1 DEF AcceptsTheWellFormed
  <2> QED
    BY <2>5, <2>6, <2>7, <2>10, <2>11, <2>12, <2>13 DEF IInv
<1> QED
  BY <1>3, <1>4

(* The first loop of Handle loses no edge and keeps the two kinds apart.    *)
LEMMA PartitionStep ==
    ASSUME IInv, Partition
    PROVE  IInv'
<1> DEFINE h == Head(todo)
<1>1. pc = "partition" /\ todo # <<>> /\ BuildTypeOK /\ result = "none" /\ Begun
  BY DEF Partition, IInv, PhaseOK, Begun
<1>2. todo \in Seq(Edges) /\ Tail(todo) \in Seq(Edges) /\ h \in Edges /\ In(todo, h)
  BY <1>1, TailFacts, InTail DEF BuildTypeOK
<1>3. h \in Given
  BY <1>2 DEF IInv, EdgesOK, Waits
<1>4. CASE h.to = NoState
  <2>1. Fail
    BY <1>1, <1>4 DEF Partition
  <2>2. ~WellFormed
    BY <1>3, <1>4 DEF WellFormed
  <2> QED
    BY <2>1, <2>2, FailStep
<1>5. CASE h.to # NoState
  <2>1. /\ todo' = Tail(todo)
        /\ \/ h.from = NoState /\ wildEdges' = Append(wildEdges, h) /\ regularEdges' = regularEdges
           \/ h.from # NoState /\ regularEdges' = Append(regularEdges, h) /\ wildEdges' = wildEdges
        /\ UNCHANGED <<input, pc, registry, search, result, diagram>>
    BY <1>1, <1>5 DEF Partition
  <2> HIDE DEF h
  <2> DEFINE W == {edge \in Edges : edge.from = NoState /\ edge.to # NoState}
             R == {edge \in Edges : edge.from # NoState /\ edge.to # NoState}
  <2>2. wildEdges \in Seq(W) /\ regularEdges \in Seq(R)
    BY <1>1 DEF BuildTypeOK
  <2>3. wildEdges' \in Seq(W) /\ regularEdges' \in Seq(R)
    <3>1. h.from = NoState => h \in W
      BY <1>2, <1>5
    <3>2. h.from # NoState => h \in R
      BY <1>2, <1>5
    <3> HIDE DEF W, R
    <3> QED
      BY <2>1, <2>2, <3>1, <3>2, AppendFacts
  <2>4. BuildTypeOK'
    BY <1>1, <1>2, <2>1, <2>3 DEF BuildTypeOK, input, registry, search, diagram
  <2>5. PhaseOK'
    BY <1>1, <2>1 DEF IInv, PhaseOK, registry
  <2>6. NodesOK' /\ TransitionsOK' /\ NoEventIsAmbiguous'
    BY <1>1, <2>1, InputFrame, RegistryFrame DEF IInv, NodesOK, Begun, registry, input
  <2>7. ASSUME NEW d
        PROVE  (Waits(d)' <=> Waits(d)) /\ (WaitsTwice(d)' <=> WaitsTwice(d))
    <3>1. /\ In(todo, d) <=> d = h \/ In(todo', d)
          /\ Twice(todo, d) <=> Twice(todo', d) \/ (d = h /\ In(todo', d))
      BY <1>1, <1>2, <2>1, InTail DEF h
    <3>2. CASE h.from = NoState
      <4>1. /\ In(wildEdges', d) <=> In(wildEdges, d) \/ d = h
            /\ Twice(wildEdges', d) <=> Twice(wildEdges, d) \/ (d = h /\ In(wildEdges, d))
        <5>1. wildEdges \in Seq(Edges)
          BY <2>2, SeqMonotonic
        <5>2. wildEdges' = Append(wildEdges, h)
          BY <2>1, <3>2
        <5> QED
          BY <1>2, <5>1, <5>2, InAppend
      <4>2. regularEdges' = regularEdges /\ ~In(regularEdges, h)
        BY <2>1, <2>2, <3>2, ElementOfSeq DEF In
      <4> QED
        BY <3>1, <4>1, <4>2 DEF Waits, WaitsTwice
    <3>3. CASE h.from # NoState
      <4>1. /\ In(regularEdges', d) <=> In(regularEdges, d) \/ d = h
            /\ Twice(regularEdges', d) <=> Twice(regularEdges, d) \/ (d = h /\ In(regularEdges, d))
        <5>1. regularEdges \in Seq(Edges)
          BY <2>2, SeqMonotonic
        <5>2. regularEdges' = Append(regularEdges, h)
          BY <2>1, <3>3
        <5> QED
          BY <1>2, <5>1, <5>2, InAppend
      <4>2. wildEdges' = wildEdges /\ ~In(wildEdges, h)
        BY <2>1, <2>2, <3>3, ElementOfSeq DEF In
      <4> QED
        BY <3>1, <4>1, <4>2 DEF Waits, WaitsTwice
    <3> QED
      BY <3>2, <3>3
  <2>8. EdgesOK'
    BY <1>1, <2>1, <2>7, InputFrame, RegistryFrame DEF IInv, EdgesOK, Begun
  <2>9. SearchOK' /\ DumpOK'
    BY <1>1, <2>1 DEF IInv, SearchOK, DumpOK, search
  <2>10. AcceptsTheWellFormed'
    BY <1>1, <2>1 DEF AcceptsTheWellFormed
  <2> QED
    BY <2>4, <2>5, <2>6, <2>8, <2>9, <2>10 DEF IInv
<1> QED
  BY <1>4, <1>5

(* Once New has begun, what it has of the edges stays true while it changes *)
(* neither its lists nor its nodes.                                         *)
LEMMA RegistryKept ==
    ASSUME IInv, UNCHANGED <<input, pending, registry>>, Begun, Begun'
    PROVE  NodesOK' /\ TransitionsOK' /\ NoEventIsAmbiguous' /\ EdgesOK'
<1>1. TransitionsOK' /\ NoEventIsAmbiguous'
  BY RegistryFrame DEF IInv
<1>2. NodesOK'
  BY InputFrame, RegistryFrame DEF IInv, NodesOK, registry, input
<1>3. EdgesOK'
  BY InputFrame, RegistryFrame, PendingFrame DEF IInv, EdgesOK
<1> QED
  BY <1>1, <1>2, <1>3

(* The second loop starts when the first one ends.                          *)
LEMMA PartitionedStep ==
    ASSUME IInv, Partitioned
    PROVE  IInv'
<1>1. /\ pc = "partition" /\ todo = <<>> /\ pc' = "handle"
      /\ UNCHANGED <<input, pending, registry, search, result, diagram>>
      /\ BuildTypeOK /\ result = "none"
  BY DEF Partitioned, IInv, PhaseOK
<1>2. BuildTypeOK'
  BY <1>1 DEF BuildTypeOK, input, pending, registry, search, diagram
<1>3. PhaseOK'
  BY <1>1 DEF IInv, PhaseOK, pending, registry
<1>4. NodesOK' /\ TransitionsOK' /\ NoEventIsAmbiguous' /\ EdgesOK'
  BY <1>1, RegistryKept DEF Begun
<1>5. SearchOK' /\ DumpOK' /\ AcceptsTheWellFormed'
  BY <1>1 DEF IInv, SearchOK, DumpOK, AcceptsTheWellFormed, search
<1> QED
  BY <1>2, <1>3, <1>4, <1>5 DEF IInv

(* A state of the arguments is refused only for what New forbids.           *)
LEMMA RefusedIsIllFormed ==
    ASSUME IInv, NEW s \in Mentioned, Refused(s)
    PROVE  ~WellFormed
<1>1. s \in States /\ Identity[s] \in Nodes
  BY MentionedAreStates, GraphAssumption DEF IInv
<1>2. CASE s \notin Comparable
  BY <1>2 DEF WellFormed
<1>3. CASE Exists(Identity[s]) /\ state[Identity[s]] # s
  <2>1. state[Identity[s]] \in Mentioned /\ Identity[state[Identity[s]]] = Identity[s]
    BY <1>1, <1>3 DEF IInv, NodesOK
  <2> QED
    BY <1>3, <2>1 DEF WellFormed
<1> QED
  BY <1>2, <1>3 DEF Refused

(* An edge that waits has the choice of a recorded one only if two places   *)
(* of the list have it.                                                     *)
LEMMA TakenIsIllFormed ==
    ASSUME IInv, Begun, NEW d \in Given, Waits(d), NEW c \in Given, Recorded(c),
           SameChoice(c, d)
    PROVE  ~WellFormed
<1>1. c = d => Repeated(d)
  BY DEF IInv, EdgesOK
<1> QED
  BY <1>1, DifferentPlaces DEF IInv

(* Handling a wildcard edge records it, and no other.                       *)
LEMMA HandleWildStep ==
    ASSUME IInv, HandleWild
    PROVE  IInv'
<1> DEFINE h == Head(wildEdges)
           W == {edge \in Edges : edge.from = NoState /\ edge.to # NoState}
<1>1. /\ pc = "handle" /\ wildEdges # <<>> /\ todo = <<>>
      /\ \A n \in Nodes : next[n] = <<>>
      /\ BuildTypeOK /\ result = "none" /\ Begun
  BY DEF HandleWild, IInv, PhaseOK, Begun
<1>2. wildEdges \in Seq(W) /\ Tail(wildEdges) \in Seq(W) /\ h \in W /\ In(wildEdges, h)
  <2>1. wildEdges \in Seq(W)
    BY <1>1 DEF BuildTypeOK
  <2> HIDE DEF W
  <2> QED
    BY <1>1, <2>1, TailFacts, InTail
<1>3. h \in Given /\ Waits(h)
  BY <1>2 DEF IInv, EdgesOK, Waits
<1>4. /\ h \in Edges /\ h.from = NoState /\ h.event \in Events
      /\ h.to \in States /\ h.to \in Mentioned /\ Identity[h.to] \in Nodes
  BY <1>1, <1>2, <1>3, GivenFacts, GraphAssumption
<1>5. CASE WildIsRefused(h)
  <2>1. Fail
    BY <1>1, <1>5 DEF HandleWild
  <2>2. CASE Refused(h.to)
    BY <1>4, <2>1, <2>2, RefusedIsIllFormed, FailStep
  <2>3. CASE wilds[h.event] # NoNode
    <3>1. PICK c \in Given : c.from = NoState /\ c.event = h.event /\ Recorded(c)
      BY <1>4, <2>3 DEF IInv, TransitionsOK
    <3>2. SameChoice(c, h)
      BY <3>1 DEF SameChoice
    <3> QED
      BY <1>1, <1>3, <2>1, <3>1, <3>2, TakenIsIllFormed, FailStep
  <2> QED
    BY <1>5, <2>2, <2>3 DEF WildIsRefused
<1>6. CASE ~WildIsRefused(h)
  <2>1. /\ state' = Created({h.to})
        /\ wilds' = [wilds EXCEPT ![h.event] = Identity[h.to]]
        /\ wildEdges' = Tail(wildEdges)
        /\ UNCHANGED <<input, pc, todo, regularEdges, next, search, result, diagram>>
    BY <1>6 DEF HandleWild
  <2> HIDE DEF h
  <2>2. ~Refused(h.to) /\ wilds[h.event] = NoNode
    BY <1>6 DEF WildIsRefused
  <2>3. /\ state' \in [Nodes -> Comparable \cup {NoState}]
        /\ \A n \in Nodes : Exists(n) => state'[n] = state[n]
        /\ state'[Identity[h.to]] = h.to
        /\ \A n \in Nodes : state'[n] = state[n] \/ (Identity[h.to] = n /\ state'[n] = h.to)
    BY <1>1, <1>4, <2>1, <2>2, CreatedFacts
  <2>4. /\ wilds' \in [Events -> Nodes \cup {NoNode}]
        /\ wilds'[h.event] = Identity[h.to]
        /\ \A e \in Events : e # h.event => wilds'[e] = wilds[e]
    BY <1>1, <1>4, <2>1 DEF BuildTypeOK
  <2>5. BuildTypeOK'
    BY <1>1, <1>2, <2>1, <2>3, <2>4 DEF BuildTypeOK, input, search, diagram
  <2>6. UNCHANGED input
    BY <2>1
  <2>7. \A s \in States : Carried(s) => Carried(s)'
    BY <2>3, GraphAssumption DEF Carried, Exists
  <2>8. ASSUME NEW d \in Given PROVE Recorded(d)' <=> Recorded(d) \/ d = h
    <3>1. /\ d \in Edges /\ d.event \in Events
          /\ d.from \in States \cup {NoState} /\ d.to \in States \cup {NoState}
      BY <1>1, GivenFacts
    <3>2. ASSUME Recorded(d) PROVE Recorded(d)'
      <4>1. Carried(d.to)' /\ d.to # NoState /\ Identity[d.to] \in Nodes
        BY <2>7, <3>1, <3>2, GraphAssumption DEF Recorded, Carried
      <4>2. d.from = NoState => wilds'[d.event] = Identity[d.to]
        BY <2>2, <2>4, <3>1, <3>2, <4>1, GraphAssumption DEF Recorded
      <4>3. d.from # NoState => Carried(d.from)' /\ In(next[Identity[d.from]], Transition(d))
        BY <2>7, <3>1, <3>2 DEF Recorded
      <4> QED
        BY <2>1, <4>1, <4>2, <4>3 DEF Recorded, In
    <3>3. ASSUME d = h PROVE Recorded(d)'
      BY <1>4, <2>3, <2>4, <3>3, GraphAssumption DEF Recorded, Carried
    <3>4. ASSUME Recorded(d)' PROVE Recorded(d) \/ d = h
      <4>1. /\ d.to \in States /\ Identity[d.to] \in Nodes /\ state'[Identity[d.to]] = d.to
            /\ d.from = NoState => wilds'[d.event] = Identity[d.to]
        BY <3>1, <3>4, GraphAssumption DEF Recorded, Carried
      <4>2. d.from = NoState
        BY <1>1, <2>1, <3>1, <3>4, InEmpty, GraphAssumption DEF Recorded, In
      <4>3. CASE d.event = h.event
        <5>1. d.to = h.to
          BY <2>3, <2>4, <4>1, <4>2, <4>3
        <5> QED
          BY <1>4, <3>1, <4>2, <4>3, <5>1 DEF Edges
      <4>4. CASE d.event # h.event
        <5>1. wilds[d.event] = Identity[d.to] /\ wilds[d.event] # NoNode
          BY <2>4, <3>1, <4>1, <4>2, <4>4, GraphAssumption
        <5>2. PICK c \in Given : c.from = NoState /\ c.event = d.event /\ Recorded(c)
          BY <3>1, <5>1 DEF IInv, TransitionsOK
        <5>3. c \in Edges /\ c.to \in States \cup {NoState}
          BY <1>1, GivenFacts
        <5>4. Identity[c.to] = Identity[d.to] /\ Carried(c.to) /\ c.to \in States
          BY <5>1, <5>2, <5>3 DEF Recorded, Carried
        <5>5. c.to = d.to
          BY <2>7, <4>1, <5>4 DEF Carried
        <5>6. c = d
          BY <3>1, <4>2, <5>2, <5>3, <5>5 DEF Edges
        <5> QED
          BY <5>2, <5>6
      <4> QED
        BY <4>3, <4>4
    <3> QED
      BY <3>2, <3>3, <3>4
  <2>9. ~Recorded(h)
    BY <1>4, <2>2, GraphAssumption DEF Recorded
  <2>10. EdgesOK'
    <3>1. ASSUME NEW d
          PROVE  /\ In(wildEdges, d) <=> d = h \/ In(wildEdges', d)
                 /\ Twice(wildEdges, d) <=> Twice(wildEdges', d) \/ (d = h /\ In(wildEdges', d))
      BY <1>1, <1>2, <2>1, InTail DEF h
    <3>2. ~In(regularEdges, h) /\ ~Twice(regularEdges, h)
      BY <1>1, <1>4, ElementOfSeq DEF BuildTypeOK, In, Twice
    <3>3. \A d : ~In(todo, d) /\ ~Twice(todo, d)
      BY <1>1, InEmpty
    <3>4. todo' = todo /\ regularEdges' = regularEdges
      BY <2>1
    <3>5. ASSUME NEW d
          PROVE  /\ Waits(d) <=> d = h \/ Waits(d)'
                 /\ WaitsTwice(d) <=> WaitsTwice(d)' \/ (d = h /\ Waits(d)')
      BY <3>1, <3>2, <3>3, <3>4 DEF Waits, WaitsTwice
    <3>6. \A d \in Edges : Waits(d)' => d \in Given
      BY <3>5 DEF IInv, EdgesOK
    <3>7. ASSUME NEW d \in Given
          PROVE  /\ Waits(d)' \/ Recorded(d)'
                 /\ Repeated(d) <=> WaitsTwice(d)' \/ (Waits(d)' /\ Recorded(d)')
      BY <1>1, <2>8, <2>9, <3>5 DEF IInv, EdgesOK
    <3> QED
      BY <2>6, <3>6, <3>7, InputFrame DEF EdgesOK
  <2>11. TransitionsOK' /\ NoEventIsAmbiguous'
    <3>1. ASSUME NEW e \in Events, wilds'[e] # NoNode
          PROVE  \E d \in Given : d.from = NoState /\ d.event = e /\ Recorded(d)'
      BY <1>3, <1>4, <2>4, <2>8, <3>1 DEF IInv, TransitionsOK
    <3>2. \A n \in Nodes : 1..Len(next'[n]) = {}
      BY <1>1, <2>1
    <3>3. {e \in Events : wilds'[e] # NoNode}
            = {e \in Events : wilds[e] # NoNode} \cup {h.event}
      BY <1>4, <2>4, GraphAssumption
    <3>4. IsFiniteSet({e \in Events : wilds'[e] # NoNode})
      BY <3>3, FS_AddElement DEF IInv, TransitionsOK
    <3> QED
      BY <2>6, <3>1, <3>2, <3>4, InputFrame DEF TransitionsOK, NoEventIsAmbiguous
  <2>12. NodesOK'
    <3>1. \A n \in Nodes : state'[n] # NoState =>
            Identity[state'[n]] = n /\ state'[n] \in Mentioned
      BY <1>4, <2>3 DEF IInv, NodesOK, Exists
    <3>2. Carried(init)'
      BY <1>1, <2>6, <2>7 DEF IInv, NodesOK, BuildTypeOK, Carried, input
    <3> QED
      BY <2>6, <3>1, <3>2, InputFrame DEF NodesOK, Exists
  <2>13. PhaseOK'
    BY <1>1, <2>1 DEF IInv, PhaseOK
  <2>14. SearchOK' /\ DumpOK' /\ AcceptsTheWellFormed'
    BY <1>1, <2>1 DEF IInv, SearchOK, DumpOK, AcceptsTheWellFormed, search
  <2> QED
    BY <2>5, <2>10, <2>11, <2>12, <2>13, <2>14 DEF IInv
<1> QED
  BY <1>5, <1>6

(* Two edges between the same states with the same event are the same.      *)
LEMMA SameEdge ==
    ASSUME NEW c \in Edges, NEW d \in Edges,
           c.from = d.from, c.event = d.event, c.to = d.to
    PROVE  c = d
BY DEF Edges

(* Handling a regular edge records it, and no other.                        *)
LEMMA HandleEdgeStep ==
    ASSUME IInv, HandleEdge
    PROVE  IInv'
<1> DEFINE h == Head(regularEdges)
           R == {edge \in Edges : edge.from # NoState /\ edge.to # NoState}
<1>1. /\ pc = "handle" /\ regularEdges # <<>> /\ todo = <<>> /\ wildEdges = <<>>
      /\ BuildTypeOK /\ result = "none" /\ Begun
  BY DEF HandleEdge, Connect, IInv, PhaseOK, Begun
<1>2. regularEdges \in Seq(R) /\ Tail(regularEdges) \in Seq(R) /\ h \in R /\ In(regularEdges, h)
  <2>1. regularEdges \in Seq(R)
    BY <1>1 DEF BuildTypeOK
  <2> HIDE DEF R
  <2> QED
    BY <1>1, <2>1, TailFacts, InTail
<1>3. h \in Given /\ Waits(h)
  BY <1>2 DEF IInv, EdgesOK, Waits
<1>4. /\ h \in Edges /\ h.event \in Events
      /\ h.from # NoState /\ h.from \in States /\ h.from \in Mentioned
      /\ Identity[h.from] \in Nodes
      /\ h.to \in States /\ h.to \in Mentioned /\ Identity[h.to] \in Nodes
  BY <1>1, <1>2, <1>3, GivenFacts, GraphAssumption
<1> DEFINE f == Identity[h.from]
<1>5. CASE EdgeIsRefused(h)
  <2>1. Fail
    BY <1>1, <1>5 DEF HandleEdge, Connect
  <2>2. CASE Refused(h.from) \/ Refused(h.to)
    BY <1>4, <2>1, <2>2, RefusedIsIllFormed, FailStep
  <2>3. CASE Identity[h.from] = Identity[h.to] /\ h.from # h.to
    BY <1>4, <2>1, <2>3, FailStep DEF WellFormed
  <2>4. CASE h.event \in EventsOf(f)
    <3>1. PICK k \in 1..Len(next[f]) : next[f][k].event = h.event
      BY <1>1, <1>4, <2>4, EventsOfFacts
    <3>2. PICK c \in Given : /\ c.from # NoState /\ Identity[c.from] = f
                             /\ next[f][k] = Transition(c) /\ Recorded(c)
      BY <1>4, <3>1 DEF IInv, TransitionsOK
    <3>3. SameChoice(c, h)
      BY <3>1, <3>2 DEF SameChoice, Transition
    <3> QED
      BY <1>1, <1>3, <2>1, <3>2, <3>3, TakenIsIllFormed, FailStep
  <2>5. CASE wilds[h.event] # NoNode
    <3>1. PICK c \in Given : c.from = NoState /\ c.event = h.event /\ Recorded(c)
      BY <1>4, <2>5 DEF IInv, TransitionsOK
    <3>2. SameChoice(c, h)
      BY <3>1 DEF SameChoice
    <3> QED
      BY <1>1, <1>3, <2>1, <3>1, <3>2, TakenIsIllFormed, FailStep
  <2> QED
    BY <1>5, <2>2, <2>3, <2>4, <2>5 DEF EdgeIsRefused
<1>6. CASE ~EdgeIsRefused(h)
  <2>1. /\ state' = Created({h.from, h.to})
        /\ next' = [next EXCEPT ![f] = Append(@, Transition(h))]
        /\ regularEdges' = Tail(regularEdges)
        /\ UNCHANGED <<input, pc, todo, wildEdges, wilds, search, result, diagram>>
    BY <1>1, <1>6 DEF HandleEdge, Connect, Transition
  <2> HIDE DEF h
  <2>2. /\ ~Refused(h.from) /\ ~Refused(h.to)
        /\ Identity[h.from] = Identity[h.to] => h.from = h.to
        /\ wilds[h.event] = NoNode
        /\ \A k \in 1..Len(next[f]) : next[f][k].event # h.event
    BY <1>1, <1>4, <1>6, EventsOfFacts DEF EdgeIsRefused
  <2>3. /\ state' \in [Nodes -> Comparable \cup {NoState}]
        /\ \A n \in Nodes : Exists(n) => state'[n] = state[n]
        /\ state'[f] = h.from /\ state'[Identity[h.to]] = h.to
        /\ \A n \in Nodes : state'[n] = state[n]
             \/ \E s \in {h.from, h.to} : Identity[s] = n /\ state'[n] = s
    BY <1>1, <1>4, <2>1, <2>2, CreatedFacts
  <2>4. /\ Transition(h) \in Transitions
        /\ next \in [Nodes -> Seq(Transitions)] /\ next[f] \in Seq(Transitions)
    BY <1>1, <1>4 DEF Transition, Transitions, BuildTypeOK
  <2>5. /\ next'[f] = Append(next[f], Transition(h))
        /\ \A n \in Nodes : n # f => next'[n] = next[n]
        /\ next' \in [Nodes -> Seq(Transitions)]
    BY <1>4, <2>1, <2>4, AppendFacts
  <2>6. /\ Len(next[f]) \in Nat /\ Len(next'[f]) = Len(next[f]) + 1
        /\ \A k \in 1..Len(next[f]) : next'[f][k] = next[f][k]
        /\ next'[f][Len(next[f]) + 1] = Transition(h)
    BY <2>4, <2>5, AppendFacts, LenProperties
  <2>7. ASSUME NEW n \in Nodes, NEW x
        PROVE  In(next'[n], x) <=> In(next[n], x) \/ (n = f /\ x = Transition(h))
    <3>1. In(Append(next[f], Transition(h)), x) <=> In(next[f], x) \/ x = Transition(h)
      BY <2>4, InAppend
    <3>2. CASE n = f
      BY <2>5, <3>1, <3>2
    <3>3. CASE n # f
      BY <2>5, <3>3
    <3> QED
      BY <3>2, <3>3
  <2>8. BuildTypeOK'
    BY <1>1, <1>2, <2>1, <2>3, <2>5 DEF BuildTypeOK, input, search, diagram
  <2>9. UNCHANGED input
    BY <2>1
  <2>10. \A s \in States : Carried(s) => Carried(s)'
    BY <2>3, GraphAssumption DEF Carried, Exists
  <2> HIDE DEF f
  <2>11. ASSUME NEW d \in Given PROVE Recorded(d)' <=> Recorded(d) \/ d = h
    <3>1. /\ d \in Edges /\ d.event \in Events
          /\ d.from \in States \cup {NoState} /\ d.to \in States \cup {NoState}
          /\ d.from # NoState => d.from \in States /\ Identity[d.from] \in Nodes
      BY <1>1, GivenFacts, GraphAssumption
    <3>2. ASSUME Recorded(d) PROVE Recorded(d)'
      <4>1. Carried(d.to)' /\ (d.from = NoState => wilds'[d.event] = Identity[d.to])
        BY <2>1, <2>10, <3>1, <3>2 DEF Recorded, Carried
      <4>2. ASSUME d.from # NoState
            PROVE  Carried(d.from)' /\ In(next'[Identity[d.from]], Transition(d))
        BY <2>7, <2>10, <3>1, <3>2, <4>2 DEF Recorded
      <4> QED
        BY <4>1, <4>2 DEF Recorded
    <3>3. ASSUME d = h PROVE Recorded(d)'
      <4>1. In(next'[Identity[h.from]], Transition(h))
        BY <1>4, <2>7 DEF f
      <4> QED
        BY <1>4, <2>3, <3>3, <4>1, GraphAssumption DEF Recorded, Carried, f
    <3>4. ASSUME Recorded(d)' PROVE Recorded(d) \/ d = h
      <4>1. /\ d.to \in States /\ Identity[d.to] \in Nodes /\ state'[Identity[d.to]] = d.to
            /\ d.from = NoState => wilds[d.event] = Identity[d.to]
            /\ d.from # NoState => /\ state'[Identity[d.from]] = d.from
                                   /\ In(next'[Identity[d.from]], Transition(d))
        BY <2>1, <3>1, <3>4, GraphAssumption DEF Recorded, Carried
      <4>2. ASSUME NEW c \in Given, Recorded(c), c.event = d.event, Identity[c.to] = Identity[d.to],
                   c.from = NoState <=> d.from = NoState,
                   d.from # NoState => Identity[c.from] = Identity[d.from]
            PROVE  Recorded(d)
        <5>1. /\ c \in Edges
              /\ c.from \in States \cup {NoState} /\ c.to \in States \cup {NoState}
          BY <1>1, GivenFacts
        <5>2. Carried(c.to) /\ c.to \in States /\ (c.from # NoState => Carried(c.from))
          BY <4>2, <5>1 DEF Recorded, Carried
        <5>3. c.to = d.to
          BY <2>10, <4>1, <4>2, <5>2 DEF Carried
        <5>4. c.from = d.from
          BY <2>10, <4>1, <4>2, <5>1, <5>2 DEF Carried
        <5> QED
          BY <3>1, <4>2, <5>1, <5>3, <5>4, SameEdge
      <4>3. CASE d.from = NoState
        <5>1. PICK c \in Given : c.from = NoState /\ c.event = d.event /\ Recorded(c)
          BY <3>1, <4>1, <4>3, GraphAssumption DEF IInv, TransitionsOK
        <5>2. Identity[c.to] = Identity[d.to]
          BY <4>1, <4>3, <5>1 DEF Recorded
        <5> QED
          BY <4>2, <4>3, <5>1, <5>2
      <4>4. CASE d.from # NoState /\ In(next[Identity[d.from]], Transition(d))
        <5>1. PICK k \in 1..Len(next[Identity[d.from]]) :
                next[Identity[d.from]][k] = Transition(d)
          BY <4>4 DEF In
        <5>2. PICK c \in Given : /\ c.from # NoState /\ Identity[c.from] = Identity[d.from]
                                 /\ next[Identity[d.from]][k] = Transition(c) /\ Recorded(c)
          BY <3>1, <4>4, <5>1 DEF IInv, TransitionsOK
        <5>3. c.event = d.event /\ Identity[c.to] = Identity[d.to]
          BY <5>1, <5>2 DEF Transition
        <5> QED
          BY <4>2, <4>4, <5>2, <5>3
      <4>5. CASE d.from # NoState /\ Identity[d.from] = f /\ Transition(d) = Transition(h)
        <5>1. d.event = h.event /\ Identity[d.to] = Identity[h.to]
          BY <4>5 DEF Transition
        <5>2. d.from = h.from /\ d.to = h.to
          BY <2>3, <4>1, <4>5, <5>1
        <5> QED
          BY <1>4, <3>1, <5>1, <5>2, SameEdge
      <4> QED
        BY <2>7, <3>1, <4>1, <4>3, <4>4, <4>5
    <3> QED
      BY <3>2, <3>3, <3>4
  <2>12. ~Recorded(h)
    BY <1>4, <2>2 DEF Recorded, In, Transition, f
  <2>13. EdgesOK'
    <3>1. ASSUME NEW d
          PROVE  /\ In(regularEdges, d) <=> d = h \/ In(regularEdges', d)
                 /\ Twice(regularEdges, d) <=>
                      Twice(regularEdges', d) \/ (d = h /\ In(regularEdges', d))
      BY <1>1, <1>2, <2>1, InTail DEF h
    <3>2. \A d : ~In(todo, d) /\ ~Twice(todo, d) /\ ~In(wildEdges, d) /\ ~Twice(wildEdges, d)
      BY <1>1, InEmpty
    <3>3. todo' = todo /\ wildEdges' = wildEdges
      BY <2>1
    <3>4. ASSUME NEW d
          PROVE  /\ Waits(d) <=> d = h \/ Waits(d)'
                 /\ WaitsTwice(d) <=> WaitsTwice(d)' \/ (d = h /\ Waits(d)')
      BY <3>1, <3>2, <3>3 DEF Waits, WaitsTwice
    <3>5. \A d \in Edges : Waits(d)' => d \in Given
      BY <3>4 DEF IInv, EdgesOK
    <3>6. ASSUME NEW d \in Given
          PROVE  /\ Waits(d)' \/ Recorded(d)'
                 /\ Repeated(d) <=> WaitsTwice(d)' \/ (Waits(d)' /\ Recorded(d)')
      BY <1>1, <2>11, <2>12, <3>4 DEF IInv, EdgesOK
    <3> QED
      BY <2>9, <3>5, <3>6, InputFrame DEF EdgesOK
  <2>14. TransitionsOK'
    <3>1. \A e \in Events : wilds'[e] # NoNode =>
            \E d \in Given : d.from = NoState /\ d.event = e /\ Recorded(d)'
      BY <2>1, <2>11 DEF IInv, TransitionsOK
    <3>2. ASSUME NEW n \in Nodes, NEW k \in 1..Len(next'[n])
          PROVE  \E d \in Given : /\ d.from # NoState /\ Identity[d.from] = n
                                  /\ next'[n][k] = Transition(d) /\ Recorded(d)'
      <4>1. CASE n = f /\ k = Len(next[f]) + 1
        BY <1>3, <1>4, <2>6, <2>11, <4>1 DEF f
      <4>2. CASE ~(n = f /\ k = Len(next[f]) + 1)
        <5>1. k \in 1..Len(next[n]) /\ next'[n][k] = next[n][k]
          BY <2>5, <2>6, <4>2
        <5>2. PICK d \in Given : /\ d.from # NoState /\ Identity[d.from] = n
                                 /\ next[n][k] = Transition(d) /\ Recorded(d)
          BY <5>1 DEF IInv, TransitionsOK
        <5> QED
          BY <2>11, <5>1, <5>2
      <4> QED
        BY <4>1, <4>2
    <3>3. IsFiniteSet({e \in Events : wilds'[e] # NoNode})
      BY <2>1 DEF IInv, TransitionsOK
    <3> QED
      BY <2>9, <3>1, <3>2, <3>3, InputFrame DEF TransitionsOK
  <2>15. NoEventIsAmbiguous'
    <3>1. NoEventIsAmbiguous
      BY DEF IInv
    <3>2. ASSUME NEW n \in Nodes, n # f PROVE next'[n] = next[n]
      BY <2>5, <3>2
    <3>3. \A k \in 1..Len(next[f]) : next'[f][k].event # h.event
      BY <2>2, <2>6
    <3>4. next'[f][Len(next[f]) + 1].event = h.event
      BY <2>6 DEF Transition
    <3>5. \A k \in 1..Len(next'[f]) : k \in 1..Len(next[f]) \/ k = Len(next[f]) + 1
      BY <2>6
    <3>6. \A i, j \in 1..Len(next'[f]) :
            /\ wilds[next'[f][i].event] = NoNode
            /\ next'[f][i].event = next'[f][j].event => i = j
      <4>1. f \in Nodes
        BY <1>4 DEF f
      <4>2. \A i, j \in 1..Len(next[f]) :
              /\ wilds[next[f][i].event] = NoNode
              /\ next[f][i].event = next[f][j].event => i = j
        BY <3>1, <4>1 DEF NoEventIsAmbiguous
      <4>3. \A i \in 1..Len(next'[f]) : wilds[next'[f][i].event] = NoNode
        BY <2>2, <2>6, <3>4, <3>5, <4>2
      <4>4. ASSUME NEW i \in 1..Len(next'[f]), NEW j \in 1..Len(next'[f]),
                   next'[f][i].event = next'[f][j].event
            PROVE  i = j
        <5>1. CASE i \in 1..Len(next[f]) /\ j \in 1..Len(next[f])
          BY <2>6, <4>2, <4>4, <5>1
        <5>2. CASE i = Len(next[f]) + 1 \/ j = Len(next[f]) + 1
          BY <3>3, <3>4, <3>5, <4>4, <5>2
        <5> QED
          BY <3>5, <5>1, <5>2
      <4> QED
        BY <4>3, <4>4
    <3>7. wilds' = wilds
      BY <2>1
    <3> QED
      BY <3>1, <3>2, <3>6, <3>7 DEF NoEventIsAmbiguous
  <2>16. NodesOK'
    <3>1. \A n \in Nodes : state'[n] # NoState =>
            Identity[state'[n]] = n /\ state'[n] \in Mentioned
      BY <1>4, <2>3 DEF IInv, NodesOK, Exists
    <3>2. Carried(init)'
      BY <1>1, <2>9, <2>10 DEF IInv, NodesOK, BuildTypeOK, Carried, input
    <3> QED
      BY <2>9, <3>1, <3>2, InputFrame DEF NodesOK, Exists
  <2>17. PhaseOK'
    BY <1>1, <2>1 DEF IInv, PhaseOK
  <2>18. SearchOK' /\ DumpOK' /\ AcceptsTheWellFormed'
    BY <1>1, <2>1 DEF IInv, SearchOK, DumpOK, AcceptsTheWellFormed, search
  <2> QED
    BY <2>8, <2>13, <2>14, <2>15, <2>16, <2>17, <2>18 DEF IInv
<1> QED
  BY <1>5, <1>6

-----------------------------------------------------------------------------
(* The traversals                                                          *)

(* What has been found is what was visited and what is in the queue.        *)
LEMMA FoundIsQueued ==
    ASSUME NEW n
    PROVE  n \in Found <=> n \in visited \/ In(queue, n)
BY DEF Found, In

(* The nodes that follow a node.                                            *)
LEMMA NextNodesFacts ==
    ASSUME BuildTypeOK, NEW n \in Nodes
    PROVE  /\ NextNodes(n) \in Seq(Nodes)
           /\ \A x : In(NextNodes(n), x) <=> \E k \in 1..Len(next[n]) : x = next[n][k].to
<1>1. next[n] \in Seq(Transitions) /\ Len(next[n]) \in Nat
  BY LenProperties DEF BuildTypeOK
<1>2. \A k \in 1..Len(next[n]) : next[n][k].to \in Nodes
  <2>1. \A k \in 1..Len(next[n]) : next[n][k] \in Transitions
    BY <1>1, ElementOfSeq
  <2> QED
    BY <2>1 DEF Transitions
<1>3. NextNodes(n) \in Seq(Nodes) /\ Len(NextNodes(n)) = Len(next[n])
  BY <1>1, <1>2 DEF NextNodes
<1>4. \A k \in 1..Len(next[n]) : NextNodes(n)[k] = next[n][k].to
  BY DEF NextNodes
<1> QED
  BY <1>3, <1>4 DEF In

(* What an edge leads to from a reachable node is reachable.                *)
LEMMA ReachableNext ==
    ASSUME IInv, NEW n \in Nodes, Reachable(n), NEW k \in 1..Len(next[n])
    PROVE  Reachable(next[n][k].to)
<1>1. PICK d \in Given : Identity[d.from] = n /\ next[n][k] = Transition(d)
  BY DEF IInv, TransitionsOK
<1>2. next[n][k].to = Identity[d.to]
  BY <1>1 DEF Transition
<1> QED
  BY <1>1, <1>2 DEF Reachable, Closed, Applies

(* A wildcard makes its destination reachable.                              *)
LEMMA ReachableWild ==
    ASSUME IInv, NEW n \in WildDestinations
    PROVE  n \in Nodes /\ Reachable(n)
<1>1. PICK e \in Events : n = wilds[e] /\ wilds[e] # NoNode
  BY DEF WildDestinations
<1>2. PICK d \in Given : d.from = NoState /\ d.event = e /\ Recorded(d)
  BY <1>1 DEF IInv, TransitionsOK
<1>3. n = Identity[d.to]
  BY <1>1, <1>2 DEF Recorded
<1>4. n \in Nodes
  BY <1>1 DEF IInv, BuildTypeOK
<1> QED
  BY <1>2, <1>3, <1>4 DEF Reachable, Closed, Applies

(* The initial node is the one of the initial state.                        *)
LEMMA InitialNode ==
    ASSUME IInv, Begun
    PROVE  init \in States /\ Identity[init] \in Nodes /\ Reachable(Identity[init])
BY GraphAssumption DEF IInv, NodesOK, Carried, BuildTypeOK, Reachable

(* Every edge is recorded once none waits.                                  *)
LEMMA AllRecorded ==
    ASSUME IInv, Begun, todo = <<>>, wildEdges = <<>>, regularEdges = <<>>
    PROVE  \A d \in Given : Recorded(d) /\ ~Repeated(d)
BY InEmpty DEF IInv, EdgesOK, Waits, WaitsTwice

(* A traversal that has ended has visited every reachable node.             *)
LEMMA TraversalIsComplete ==
    ASSUME IInv, \A d \in Given : Recorded(d), Pursued, queue = <<>>,
           Identity[init] \in Found, WildDestinations \subseteq Found
    PROVE  \A n : Reachable(n) => n \in visited
<1>1. Found = visited
  BY InEmpty, FoundIsQueued
<1>2. visited \in SUBSET Nodes
  BY DEF IInv, BuildTypeOK
<1>3. ASSUME NEW d \in Given, NEW n \in visited, Applies(d, n)
      PROVE  Identity[d.to] \in visited
  <2>1. /\ d.event \in Events /\ d.to \in States /\ Identity[d.to] \in Nodes
        /\ Recorded(d)
    BY <1>3, GivenFacts, GraphAssumption DEF IInv, Recorded, Carried
  <2>2. CASE d.from = NoState
    <3>1. Identity[d.to] \in WildDestinations
      BY <2>1, <2>2, GraphAssumption DEF Recorded, WildDestinations
    <3> QED
      BY <1>1, <3>1
  <2>3. CASE d.from # NoState
    <3>1. n = Identity[d.from] /\ In(next[n], Transition(d))
      BY <1>3, <2>1, <2>3 DEF Applies, Recorded
    <3>2. PICK k \in 1..Len(next[n]) : next[n][k] = Transition(d)
      BY <3>1 DEF In
    <3>3. next[n][k].to = Identity[d.to]
      BY <3>2 DEF Transition
    <3> QED
      BY <1>1, <3>3 DEF Pursued
  <2> QED
    BY <2>2, <2>3
<1>4. Closed(visited)
  BY <1>3 DEF Closed
<1> QED
  BY <1>1, <1>2, <1>4 DEF Reachable

(* A visit adds the nodes that follow the head of the queue.                *)
LEMMA VisitFacts ==
    ASSUME BuildTypeOK, Visit, UNCHANGED registry
    PROVE  /\ visited' \in SUBSET Nodes /\ queue' \in Seq(Nodes)
           /\ Head(queue) \in Nodes /\ Head(queue) \in Found
           /\ visited' = visited \cup {Head(queue)}
           /\ Found \subseteq Found'
           /\ \A n \in Found' : n \in Found
                \/ \E k \in 1..Len(next[Head(queue)]) : n = next[Head(queue)][k].to
           /\ Pursued => Pursued'
<1> DEFINE h == Head(queue)
<1>1. /\ queue # <<>> /\ queue \in Seq(Nodes) /\ visited \in SUBSET Nodes
      /\ visited' = visited \cup {h}
      /\ queue' = IF h \in visited THEN Tail(queue) ELSE Tail(queue) \o NextNodes(h)
      /\ next' = next
  BY DEF Visit, BuildTypeOK, registry
<1>2. h \in Nodes /\ Tail(queue) \in Seq(Nodes)
  BY <1>1, TailFacts
<1>3. ASSUME NEW x PROVE In(queue, x) <=> x = h \/ In(Tail(queue), x)
  BY <1>1, InTail
<1>4. NextNodes(h) \in Seq(Nodes)
  BY <1>2, NextNodesFacts
<1> HIDE DEF h
<1>5. queue' \in Seq(Nodes)
  BY <1>1, <1>2, <1>4, ConcatProperties
<1>6. ASSUME NEW x
      PROVE  In(queue', x) <=> In(Tail(queue), x)
               \/ (h \notin visited /\ \E k \in 1..Len(next[h]) : x = next[h][k].to)
  <2>1. In(NextNodes(h), x) <=> \E k \in 1..Len(next[h]) : x = next[h][k].to
    BY <1>2, NextNodesFacts
  <2>2. In(Tail(queue) \o NextNodes(h), x) <=> In(Tail(queue), x) \/ In(NextNodes(h), x)
    BY <1>2, <1>4, InConcat
  <2> QED
    BY <1>1, <2>1, <2>2
<1>7. \A n : n \in Found' <=> n \in visited' \/ In(queue', n)
  BY DEF Found, In
<1>8. \A n : n \in Found <=> n \in visited \/ In(queue, n)
  BY FoundIsQueued
<1>9. h \in Found /\ Found \subseteq Found'
  BY <1>1, <1>3, <1>6, <1>7, <1>8
<1>10. \A n \in Found' : n \in Found \/ \E k \in 1..Len(next[h]) : n = next[h][k].to
  BY <1>1, <1>3, <1>6, <1>7, <1>8
<1>11. ASSUME Pursued PROVE Pursued'
  <2>1. ASSUME NEW n \in visited', NEW k \in 1..Len(next[n]) PROVE next[n][k].to \in Found'
    <3>1. CASE n \in visited
      BY <1>9, <1>11, <2>1, <3>1 DEF Pursued
    <3>2. CASE n = h /\ h \notin visited
      BY <1>6, <1>7, <2>1, <3>2
    <3> QED
      BY <1>1, <2>1, <3>1, <3>2
  <2> QED
    BY <1>1, <2>1 DEF Pursued
<1> QED
  BY <1>1, <1>2, <1>5, <1>9, <1>10, <1>11 DEF h

-----------------------------------------------------------------------------
(* The steps of the traversal of New                                       *)

(* The traversal starts at the initial node.                                *)
LEMMA StartSearchStep ==
    ASSUME IInv, StartSearch
    PROVE  IInv'
<1>1. /\ pc = "handle" /\ wildEdges = <<>> /\ regularEdges = <<>>
      /\ queue' = <<Identity[init]>> /\ pc' = "seed"
      /\ UNCHANGED <<input, pending, registry, visited, result, diagram>>
      /\ BuildTypeOK /\ result = "none" /\ todo = <<>> /\ visited = {}
  BY DEF StartSearch, IInv, PhaseOK, SearchOK
<1>2. init \in States /\ Identity[init] \in Nodes /\ Reachable(Identity[init])
  BY <1>1, InitialNode DEF Begun
<1>3. UNCHANGED input
  BY <1>1
<1>4. BuildTypeOK'
  BY <1>1, <1>2 DEF BuildTypeOK, input, pending, registry, diagram
<1>5. PhaseOK'
  BY <1>1 DEF IInv, PhaseOK, pending, registry
<1>6. NodesOK' /\ TransitionsOK' /\ NoEventIsAmbiguous' /\ EdgesOK'
  BY <1>1, RegistryKept DEF Begun
<1>7. SearchOK'
  <2>1. Found' = {Identity[init]} /\ init' = init
    BY <1>1 DEF Found, input
  <2>2. Pursued'
    BY <1>1 DEF Pursued
  <2>3. Reachable(Identity[init])'
    BY <1>2, <1>3, <2>1, InputFrame
  <2> QED
    BY <1>1, <2>1, <2>2, <2>3 DEF SearchOK
<1>8. DumpOK' /\ AcceptsTheWellFormed'
  BY <1>1 DEF DumpOK, AcceptsTheWellFormed
<1> QED
  BY <1>4, <1>5, <1>6, <1>7, <1>8 DEF IInv

(* A wildcard's destination and what follows it are reachable.              *)
LEMMA SeedStep ==
    ASSUME IInv, NEW m \in Nodes, Seed(m)
    PROVE  IInv'
<1>1. /\ pc = "seed" /\ m \in WildDestinations
      /\ visited' = visited \cup {m} /\ queue' = queue \o NextNodes(m)
      /\ UNCHANGED <<input, pc, pending, registry, result, diagram>>
      /\ BuildTypeOK /\ result = "none"
  BY DEF Seed, IInv, PhaseOK
<1>2. queue \in Seq(Nodes) /\ NextNodes(m) \in Seq(Nodes) /\ Reachable(m)
  BY <1>1, NextNodesFacts, ReachableWild DEF BuildTypeOK
<1>3. BuildTypeOK'
  <2>1. visited' \in SUBSET Nodes /\ queue' \in Seq(Nodes)
    BY <1>1, <1>2, ConcatProperties DEF BuildTypeOK
  <2> QED
    BY <1>1, <2>1 DEF BuildTypeOK, input, pending, registry, diagram
<1>4. PhaseOK'
  BY <1>1 DEF IInv, PhaseOK, pending, registry
<1>5. NodesOK' /\ TransitionsOK' /\ NoEventIsAmbiguous' /\ EdgesOK'
  BY <1>1, RegistryKept DEF Begun
<1>6. SearchOK'
  <2>1. ASSUME NEW x
        PROVE  In(queue', x) <=> In(queue, x) \/ \E k \in 1..Len(next[m]) : x = next[m][k].to
    <3>1. In(queue \o NextNodes(m), x) <=> In(queue, x) \/ In(NextNodes(m), x)
      BY <1>2, InConcat
    <3>2. In(NextNodes(m), x) <=> \E k \in 1..Len(next[m]) : x = next[m][k].to
      BY <1>1, NextNodesFacts
    <3> QED
      BY <1>1, <3>1, <3>2
  <2>2. \A n : n \in Found' <=> n \in visited' \/ In(queue', n)
    BY DEF Found, In
  <2>3. \A n : n \in Found <=> n \in visited \/ In(queue, n)
    BY FoundIsQueued
  <2>4. /\ \A n \in Found : Reachable(n)
        /\ Pursued /\ Identity[init] \in Found
    BY <1>1 DEF IInv, SearchOK
  <2>5. \A k \in 1..Len(next[m]) : Reachable(next[m][k].to)
    BY <1>2, ReachableNext
  <2>6. \A n \in Found' : Reachable(n)'
    BY <1>1, <1>2, <2>1, <2>2, <2>3, <2>4, <2>5, InputFrame
  <2>7. Pursued'
    <3>1. next' = next
      BY <1>1 DEF registry
    <3>2. ASSUME NEW n \in visited', NEW k \in 1..Len(next[n]) PROVE next[n][k].to \in Found'
      BY <1>1, <2>1, <2>2, <2>3, <2>4 DEF Pursued
    <3> QED
      BY <3>1, <3>2 DEF Pursued
  <2>8. Identity[init'] \in Found'
    BY <1>1, <2>1, <2>2, <2>3, <2>4 DEF input
  <2> QED
    BY <1>1, <2>6, <2>7, <2>8 DEF SearchOK
<1>7. DumpOK' /\ AcceptsTheWellFormed'
  BY <1>1 DEF DumpOK, AcceptsTheWellFormed
<1> QED
  BY <1>3, <1>4, <1>5, <1>6, <1>7 DEF IInv

(* The loop over the wildcards ends when all are visited.                   *)
LEMMA SeededStep ==
    ASSUME IInv, Seeded
    PROVE  IInv'
<1>1. /\ pc = "seed" /\ WildDestinations \subseteq visited /\ pc' = "search"
      /\ UNCHANGED <<input, pending, registry, search, result, diagram>>
      /\ BuildTypeOK /\ result = "none"
  BY DEF Seeded, IInv, PhaseOK
<1>2. BuildTypeOK'
  BY <1>1 DEF BuildTypeOK, input, pending, registry, search, diagram
<1>3. PhaseOK'
  BY <1>1 DEF IInv, PhaseOK, pending, registry
<1>4. NodesOK' /\ TransitionsOK' /\ NoEventIsAmbiguous' /\ EdgesOK'
  BY <1>1, RegistryKept DEF Begun
<1>5. SearchOK'
  <2>1. /\ \A n \in Found : Reachable(n)
        /\ Pursued /\ Identity[init] \in Found
    BY <1>1 DEF IInv, SearchOK
  <2>2. /\ Found' = Found /\ (Pursued' <=> Pursued) /\ WildDestinations' = WildDestinations
        /\ \A n : Reachable(n)' <=> Reachable(n)
        /\ init' = init /\ visited' = visited
    BY <1>1, SearchFrame, RegistryFrame, InputFrame DEF input, search
  <2> QED
    BY <1>1, <2>1, <2>2 DEF SearchOK
<1>6. DumpOK' /\ AcceptsTheWellFormed'
  BY <1>1 DEF DumpOK, AcceptsTheWellFormed
<1> QED
  BY <1>2, <1>3, <1>4, <1>5, <1>6 DEF IInv

(* The traversal visits what is in the queue until it is empty.             *)
LEMMA SearchStep ==
    ASSUME IInv, Search
    PROVE  IInv'
<1>1. /\ pc = "search" /\ BuildTypeOK /\ result = "none"
      /\ UNCHANGED <<input, pending, registry, result, diagram>>
      /\ \/ queue # <<>> /\ Visit /\ pc' = pc
         \/ queue = <<>> /\ pc' = "check" /\ search' = search
  BY DEF Search, IInv, PhaseOK
<1>2. /\ \A n \in Found : Reachable(n)
      /\ Pursued /\ Identity[init] \in Found /\ WildDestinations \subseteq visited
  BY <1>1 DEF IInv, SearchOK
<1>3. UNCHANGED input /\ UNCHANGED registry /\ init' = init
  BY <1>1 DEF input
<1>4. PhaseOK'
  BY <1>1 DEF IInv, PhaseOK, pending, registry
<1>5. NodesOK' /\ TransitionsOK' /\ NoEventIsAmbiguous' /\ EdgesOK'
  BY <1>1, RegistryKept DEF Begun
<1>6. DumpOK' /\ AcceptsTheWellFormed'
  BY <1>1 DEF DumpOK, AcceptsTheWellFormed
<1>7. CASE queue # <<>> /\ Visit /\ pc' = pc
  <2>1. /\ visited' \in SUBSET Nodes /\ queue' \in Seq(Nodes)
        /\ Head(queue) \in Nodes /\ Head(queue) \in Found
        /\ visited \subseteq visited' /\ Found \subseteq Found'
        /\ \A n \in Found' : n \in Found
             \/ \E k \in 1..Len(next[Head(queue)]) : n = next[Head(queue)][k].to
        /\ Pursued'
    BY <1>1, <1>2, <1>7, VisitFacts
  <2>2. BuildTypeOK'
    BY <1>1, <1>7, <2>1 DEF BuildTypeOK, input, pending, registry, diagram
  <2>3. \A n \in Found' : Reachable(n)'
    BY <1>2, <1>3, <2>1, ReachableNext, InputFrame
  <2>4. WildDestinations' = WildDestinations
    BY <1>1, RegistryFrame
  <2>5. SearchOK'
    BY <1>1, <1>2, <1>3, <1>7, <2>1, <2>3, <2>4 DEF SearchOK
  <2> QED
    BY <1>4, <1>5, <1>6, <2>2, <2>5 DEF IInv
<1>8. CASE queue = <<>> /\ pc' = "check" /\ search' = search
  <2>1. BuildTypeOK'
    BY <1>1, <1>8 DEF BuildTypeOK, input, pending, registry, diagram, search
  <2>2. /\ Found' = Found /\ (Pursued' <=> Pursued) /\ WildDestinations' = WildDestinations
        /\ \A n : Reachable(n)' <=> Reachable(n)
        /\ visited' = visited /\ queue' = queue
    BY <1>1, <1>8, SearchFrame, RegistryFrame, InputFrame DEF search
  <2>3. SearchOK'
    BY <1>1, <1>2, <1>3, <1>8, <2>2 DEF SearchOK
  <2> QED
    BY <1>4, <1>5, <1>6, <2>1, <2>3 DEF IInv
<1> QED
  BY <1>1, <1>7, <1>8

(* New refuses a graph with a node that cannot be reached, and what it      *)
(* accepts meets all it requires.                                           *)
LEMMA CheckReachableStep ==
    ASSUME IInv, CheckReachable
    PROVE  IInv'
<1>1. /\ pc = "check" /\ BuildTypeOK /\ result = "none" /\ Begun /\ queue = <<>>
      /\ todo = <<>> /\ wildEdges = <<>> /\ regularEdges = <<>>
  BY DEF CheckReachable, IInv, PhaseOK, SearchOK, Begun
<1>2. /\ \A n \in Found : Reachable(n)
      /\ Pursued /\ Identity[init] \in Found /\ WildDestinations \subseteq Found
  BY <1>1 DEF IInv, SearchOK, Found
<1>3. \A d \in Given : Recorded(d) /\ ~Repeated(d)
  BY <1>1, AllRecorded
<1>4. CASE \E n \in Nodes : Exists(n) /\ n \notin visited
  <2>1. Fail
    BY <1>4 DEF CheckReachable
  <2>2. PICK n \in Nodes : Exists(n) /\ n \notin visited
    BY <1>4
  <2>3. state[n] \in Mentioned /\ Identity[state[n]] = n
    BY <2>2 DEF IInv, NodesOK
  <2>4. ~Reachable(n)
    BY <1>1, <1>2, <1>3, <2>2, TraversalIsComplete
  <2>5. ~WellFormed
    BY <2>3, <2>4 DEF WellFormed
  <2> QED
    BY <2>1, <2>5, FailStep
<1>5. CASE ~\E n \in Nodes : Exists(n) /\ n \notin visited
  <2>1. /\ result' = "graph" /\ pc' = "built"
        /\ UNCHANGED <<input, pending, registry, search, diagram>>
    BY <1>5 DEF CheckReachable
  <2>2. BuildTypeOK'
    BY <1>1, <2>1 DEF BuildTypeOK, input, pending, registry, search, diagram
  <2>3. PhaseOK'
    BY <1>1, <2>1 DEF IInv, PhaseOK, pending, registry
  <2>4. NodesOK' /\ TransitionsOK' /\ NoEventIsAmbiguous' /\ EdgesOK'
    BY <1>1, <2>1, RegistryKept DEF Begun
  <2>5. SearchOK' /\ DumpOK'
    BY <2>1 DEF SearchOK, DumpOK
  <2>6. WellFormed
    <3>1. Carried(init) /\ \A d \in Given : Carried(d.to) /\ (d.from # NoState => Carried(d.from))
      BY <1>1, <1>3 DEF IInv, NodesOK, Recorded
    <3>2. \A s \in Mentioned : s \in States /\ Carried(s)
      BY <1>1, <3>1, MentionedAreStates DEF Mentioned
    <3>3. \A s \in Mentioned : Identity[s] \in Nodes /\ Exists(Identity[s]) /\ state[Identity[s]] = s
      BY <3>2, GraphAssumption DEF Carried, Exists
    <3>4. \A s \in Mentioned : s \in Comparable
      BY <1>1, <3>2, <3>3 DEF BuildTypeOK, Carried
    <3>5. \A s \in Mentioned : Reachable(Identity[s])
      BY <1>2, <1>5, <3>3 DEF Found
    <3>6. \A s, t \in Mentioned : Identity[s] = Identity[t] => s = t
      BY <3>3
    <3>7. ASSUME NEW i \in 1..Len(edges), NEW j \in 1..Len(edges), i # j,
                 SameChoice(edges[i], edges[j])
          PROVE  FALSE
      <4> DEFINE c == edges[i]
                 d == edges[j]
      <4>1. c \in Given /\ d \in Given /\ Recorded(c) /\ Recorded(d)
        BY <1>3 DEF Given
      <4>2. c # d
        BY <1>3, <3>7, <4>1 DEF Repeated, Twice
      <4>3. c \in Edges /\ d \in Edges
        BY <1>1, <4>1, GivenFacts
      <4>4. c.event = d.event
            /\ (c.from = NoState \/ d.from = NoState \/ Identity[c.from] = Identity[d.from])
        BY <3>7 DEF SameChoice
      <4> HIDE DEF c, d
      <4>5. \A x \in Given : x.to # NoState /\ Identity[x.to] \in Nodes
        BY <1>1, <3>1, GivenFacts, GraphAssumption DEF Carried
      <4>6. ASSUME NEW x \in Given, NEW y \in Given, x.from = NoState, y.from # NoState,
                   x.event = y.event
            PROVE  FALSE
        <5>1. wilds[y.event] = Identity[x.to] /\ wilds[y.event] # NoNode
          BY <1>3, <4>5, <4>6, GraphAssumption DEF Recorded
        <5>2. PICK k \in 1..Len(next[Identity[y.from]]) :
                next[Identity[y.from]][k] = Transition(y)
          BY <1>3, <4>6 DEF Recorded, In
        <5>3. Identity[y.from] \in Nodes /\ next[Identity[y.from]][k].event = y.event
          BY <1>1, <4>6, <5>2, GivenFacts, GraphAssumption DEF Transition
        <5> QED
          BY <5>1, <5>3 DEF IInv, NoEventIsAmbiguous
      <4>7. CASE c.from = NoState /\ d.from = NoState
        <5>1. Identity[c.to] = Identity[d.to] /\ Carried(c.to) /\ Carried(d.to)
          BY <4>1, <4>4, <4>7 DEF Recorded
        <5>2. c.to = d.to
          BY <5>1 DEF Carried
        <5> QED
          BY <4>2, <4>3, <4>4, <4>7, <5>2, SameEdge
      <4>8. CASE c.from # NoState /\ d.from # NoState
        <5> DEFINE n == Identity[c.from]
        <5>1. n = Identity[d.from] /\ n \in Nodes
          BY <1>1, <4>1, <4>4, <4>8, GivenFacts, GraphAssumption
        <5>2. PICK k \in 1..Len(next[n]) : next[n][k] = Transition(c)
          BY <4>1, <4>8 DEF Recorded, In
        <5>3. PICK l \in 1..Len(next[n]) : next[n][l] = Transition(d)
          BY <4>1, <4>8, <5>1 DEF Recorded, In
        <5>4. next[n][k].event = next[n][l].event
          BY <4>4, <5>2, <5>3 DEF Transition
        <5>5. k = l
          BY <5>1, <5>2, <5>3, <5>4 DEF IInv, NoEventIsAmbiguous
        <5>6. Identity[c.to] = Identity[d.to]
          BY <5>2, <5>3, <5>5 DEF Transition
        <5>7. c.to = d.to /\ c.from = d.from
          BY <3>1, <4>1, <4>8, <5>1, <5>6 DEF Carried
        <5> QED
          BY <4>2, <4>3, <4>4, <5>7, SameEdge
      <4> QED
        BY <4>1, <4>4, <4>6, <4>7, <4>8
    <3>8. init # NoState /\ \A d \in Given : d.to # NoState
      BY <3>1 DEF Carried
    <3> QED
      BY <3>4, <3>5, <3>6, <3>7, <3>8 DEF WellFormed
  <2>7. AcceptsTheWellFormed'
    BY <2>1, <2>6, InputFrame DEF AcceptsTheWellFormed
  <2> QED
    BY <2>2, <2>3, <2>4, <2>5, <2>7 DEF IInv
<1> QED
  BY <1>4, <1>5

-----------------------------------------------------------------------------
(* The steps of Dump                                                       *)

(* A sequence of a finite set without repetition that has its size has all  *)
(* of its members.                                                          *)
LEMMA OrderIsComplete ==
    ASSUME NEW S, IsFiniteSet(S), NEW order \in SetToSeqs(S)
    PROVE  /\ order \in Seq(S)
           /\ \A e \in S : In(order, e)
<1> DEFINE D == 1..Cardinality(S)
<1>1. Cardinality(S) \in Nat
  BY FS_CardinalityType
<1>2. order \in [D -> S] /\ \A i, j \in D : i # j => order[i] # order[j]
  BY DEF SetToSeqs
<1>3. order \in Seq(S) /\ Len(order) = Cardinality(S)
  BY <1>1, <1>2
<1>4. ASSUME NEW e \in S, ~In(order, e) PROVE FALSE
  <2>1. order \in [D -> S \ {e}]
    BY <1>2, <1>3, <1>4 DEF In
  <2>2. IsFiniteSet(S \ {e}) /\ Cardinality(S \ {e}) = Cardinality(S) - 1
    BY FS_RemoveElement
  <2>3. Cardinality(S) >= 1
    BY <1>1, <2>2, FS_CardinalityType
  <2>4. IsFiniteSet(D) /\ Cardinality(D) = Cardinality(S)
    BY <1>1, <2>3, FS_Interval
  <2> HIDE DEF D
  <2>5. Cardinality(S \ {e}) < Cardinality(D)
    BY <1>1, <2>2, <2>4
  <2>6. \E i, j \in D : i # j /\ order[i] = order[j]
    BY <2>1, <2>2, <2>4, <2>5, FS_PigeonHole
  <2> QED
    BY <1>2, <2>6
<1> QED
  BY <1>3, <1>4

(* A graph has been accepted while getEdges runs.                           *)
LEMMA AcceptedFacts ==
    ASSUME IInv, result = "graph"
    PROVE  /\ Begun /\ WellFormed
           /\ todo = <<>> /\ wildEdges = <<>> /\ regularEdges = <<>>
           /\ \A d \in Given : Recorded(d)
<1>1. Begun /\ todo = <<>> /\ wildEdges = <<>> /\ regularEdges = <<>>
  BY DEF Begun, IInv, PhaseOK
<1>2. WellFormed
  BY DEF IInv, AcceptsTheWellFormed
<1> QED
  BY <1>1, <1>2, AllRecorded

(* getEdges begins with the wildcard edges and all their destinations.      *)
LEMMA StartDumpStep ==
    ASSUME IInv, StartDump
    PROVE  IInv'
<1> DEFINE E == {e \in Events : wilds[e] # NoNode}
<1>1. /\ pc = "built" /\ pc' = "dump" /\ visited' = {}
      /\ UNCHANGED <<input, todo, wildEdges, regularEdges, registry, result, lines>>
      /\ BuildTypeOK /\ result = "graph"
  BY DEF StartDump, IInv, PhaseOK, pending
<1>2. PICK order \in SetToSeqs(E) :
        /\ queue' = <<Identity[init]>> \o [i \in 1..Len(order) |-> wilds[order[i]]]
        /\ dumped' = [i \in 1..Len(order) |->
                        [from |-> NoState, event |-> order[i], to |-> state[wilds[order[i]]]]]
  BY DEF StartDump
<1>3. order \in Seq(E) /\ \A e \in E : In(order, e)
  BY OrderIsComplete DEF IInv, TransitionsOK
<1>4. /\ Begun /\ WellFormed
      /\ \A d \in Given : Recorded(d)
      /\ init \in States /\ Identity[init] \in Nodes
  BY <1>1, AcceptedFacts, InitialNode
<1>5. \A i \in 1..Len(order) : order[i] \in E
  BY <1>3, ElementOfSeq
<1>6. Len(order) \in Nat
  BY <1>3, LenProperties
<1> DEFINE tos == [i \in 1..Len(order) |-> wilds[order[i]]]
<1>7. tos \in Seq(Nodes) /\ Len(tos) = Len(order) /\ \A i \in 1..Len(order) : tos[i] = wilds[order[i]]
  <2>1. \A i \in 1..Len(order) : wilds[order[i]] \in Nodes
    BY <1>1, <1>5 DEF BuildTypeOK
  <2> QED
    BY <1>6, <2>1
<1>8. queue' = <<Identity[init]>> \o tos
  BY <1>2
<1>9. /\ <<Identity[init]>> \in Seq(Nodes) /\ In(<<Identity[init]>>, Identity[init])
  BY <1>4 DEF In
<1> HIDE DEF tos
<1>10. /\ queue' \in Seq(Nodes)
       /\ \A x : In(queue', x) <=> In(<<Identity[init]>>, x) \/ In(tos, x)
  BY <1>7, <1>8, <1>9, ConcatProperties, InConcat
<1>11. \A n : In(queue', n) => n \in Found'
  BY DEF Found, In
<1>12. Identity[init'] \in Found'
  BY <1>1, <1>9, <1>10, <1>11 DEF input
<1>13. WildDestinations' \subseteq Found'
  <2>1. ASSUME NEW n \in WildDestinations PROVE In(tos, n)
    <3>1. PICK e \in E : n = wilds[e]
      BY DEF WildDestinations
    <3>2. PICK i \in 1..Len(order) : order[i] = e
      BY <1>3 DEF In
    <3> QED
      BY <1>7, <3>1, <3>2 DEF In
  <2>2. WildDestinations' = WildDestinations
    BY <1>1, RegistryFrame
  <2> QED
    BY <1>10, <1>11, <2>1, <2>2
<1>14. ASSUME NEW d \in Given, NEW i \in 1..Len(order), d.from = NoState, d.event = order[i]
       PROVE  dumped'[i] = d
  <2>1. d.to \in States /\ Identity[d.to] \in Nodes /\ d \in Edges
    BY <1>1, <1>4, GivenFacts, GraphAssumption DEF Recorded, Carried
  <2>2. wilds[order[i]] = Identity[d.to] /\ state[Identity[d.to]] = d.to
    BY <1>4, <1>14 DEF Recorded, Carried
  <2>3. dumped'[i] = [from |-> NoState, event |-> order[i], to |-> d.to]
    BY <1>2, <2>2
  <2> QED
    BY <1>14, <2>1, <2>3 DEF Edges
<1>15. \A i \in 1..Len(order) : dumped'[i] \in Given
  <2>1. ASSUME NEW i \in 1..Len(order) PROVE dumped'[i] \in Given
    <3>1. PICK d \in Given : d.from = NoState /\ d.event = order[i]
      BY <1>5 DEF IInv, TransitionsOK
    <3> QED
      BY <1>14, <3>1
  <2> QED
    BY <2>1
<1>16. Len(dumped') = Len(order) /\ dumped' \in Seq(Edges)
  <2>1. \A i \in 1..Len(order) : dumped'[i] \in Edges
    BY <1>1, <1>15, GivenFacts
  <2> QED
    BY <1>2, <1>6, <2>1
<1>17. ASSUME NEW d \in Given, d.from = NoState PROVE In(dumped', d)
  <2>1. d.event \in E
    BY <1>1, <1>4, <1>17, GivenFacts, GraphAssumption DEF Recorded, Carried
  <2>2. PICK i \in 1..Len(order) : order[i] = d.event
    BY <1>3, <2>1 DEF In
  <2>3. dumped'[i] = d
    BY <1>14, <1>17, <2>2
  <2> QED
    BY <1>16, <2>3 DEF In
<1>18. BuildTypeOK'
  BY <1>1, <1>10, <1>16 DEF BuildTypeOK, input, registry
<1>19. PhaseOK'
  BY <1>1 DEF IInv, PhaseOK, registry
<1>20. NodesOK' /\ TransitionsOK' /\ NoEventIsAmbiguous' /\ EdgesOK'
  BY <1>1, RegistryKept DEF Begun, pending
<1>21. SearchOK' /\ AcceptsTheWellFormed'
  BY <1>1, <1>4, InputFrame DEF SearchOK, AcceptsTheWellFormed
<1>22. DumpOK'
  <2>1. Given' = Given
    BY <1>1, InputFrame
  <2>2. Pursued'
    BY <1>1 DEF Pursued
  <2> QED
    BY <1>1, <1>12, <1>13, <1>15, <1>16, <1>17, <2>1, <2>2 DEF DumpOK
<1> QED
  BY <1>18, <1>19, <1>20, <1>21, <1>22 DEF IInv

(* The edges of a node are the ones given for it.                           *)
LEMMA EdgesOfFacts ==
    ASSUME IInv, \A d \in Given : Recorded(d), NEW n \in Nodes
    PROVE  /\ EdgesOf(n) \in Seq(Edges)
           /\ \A x : In(EdgesOf(n), x) <=>
                x \in Given /\ x.from # NoState /\ Identity[x.from] = n
<1>1. BuildTypeOK /\ next[n] \in Seq(Transitions)
  BY DEF IInv, BuildTypeOK
<1>2. Len(next[n]) \in Nat
  BY <1>1, LenProperties
<1>3. ASSUME NEW k \in 1..Len(next[n]), NEW d \in Given, d.from # NoState,
             Identity[d.from] = n, next[n][k] = Transition(d)
      PROVE  EdgesOf(n)[k] = d
  <2>1. d \in Edges /\ state[n] = d.from /\ state[Identity[d.to]] = d.to
    BY <1>1, <1>3, GivenFacts DEF Recorded, Carried
  <2>2. next[n][k].event = d.event /\ next[n][k].to = Identity[d.to]
    BY <1>3 DEF Transition
  <2>3. EdgesOf(n)[k] = [from |-> d.from, event |-> d.event, to |-> d.to]
    BY <2>1, <2>2 DEF EdgesOf
  <2> QED
    BY <2>1, <2>3 DEF Edges
<1>4. ASSUME NEW k \in 1..Len(next[n])
      PROVE  /\ EdgesOf(n)[k] \in Given
             /\ EdgesOf(n)[k].from # NoState /\ Identity[EdgesOf(n)[k].from] = n
  <2>1. PICK d \in Given : /\ d.from # NoState /\ Identity[d.from] = n
                           /\ next[n][k] = Transition(d)
    BY DEF IInv, TransitionsOK
  <2>2. EdgesOf(n)[k] = d
    BY <1>3, <2>1
  <2> QED
    BY <2>1, <2>2
<1>5. EdgesOf(n) \in Seq(Edges) /\ Len(EdgesOf(n)) = Len(next[n])
  <2>1. \A k \in 1..Len(next[n]) : EdgesOf(n)[k] \in Edges
    BY <1>1, <1>4, GivenFacts
  <2>2. /\ EdgesOf(n) = [k \in 1..Len(next[n]) |-> EdgesOf(n)[k]]
        /\ DOMAIN EdgesOf(n) = 1..Len(next[n])
    BY DEF EdgesOf
  <2>3. EdgesOf(n) \in [1..Len(next[n]) -> Edges]
    BY <2>1, <2>2
  <2> QED
    BY <1>2, <2>3
<1>6. ASSUME NEW d \in Given, d.from # NoState, Identity[d.from] = n
      PROVE  In(EdgesOf(n), d)
  <2>1. PICK k \in 1..Len(next[n]) : next[n][k] = Transition(d)
    BY <1>6 DEF Recorded, In
  <2> QED
    BY <1>3, <1>5, <1>6, <2>1 DEF In
<1> QED
  BY <1>4, <1>5, <1>6 DEF In

(* getEdges collects the edges of each node it visits.                      *)
LEMMA DumpStep ==
    ASSUME IInv, Dump
    PROVE  IInv'
<1> DEFINE h == Head(queue)
<1>1. /\ pc = "dump" /\ Visit
      /\ dumped' = IF h \in visited THEN dumped ELSE dumped \o EdgesOf(h)
      /\ UNCHANGED <<input, pc, pending, registry, result, lines>>
      /\ BuildTypeOK /\ result = "graph"
  BY DEF Dump, IInv, PhaseOK
<1>2. /\ Begun /\ WellFormed
      /\ \A d \in Given : Recorded(d)
  BY <1>1, AcceptedFacts
<1>3. /\ Pursued /\ Identity[init] \in Found /\ WildDestinations \subseteq Found
      /\ \A i \in 1..Len(dumped) : dumped[i] \in Given
      /\ \A d \in Given : d.from = NoState \/ Identity[d.from] \in visited => In(dumped, d)
  BY <1>1 DEF IInv, DumpOK
<1>4. /\ visited' \in SUBSET Nodes /\ queue' \in Seq(Nodes)
      /\ h \in Nodes /\ visited' = visited \cup {h}
      /\ Found \subseteq Found' /\ Pursued'
  BY <1>1, <1>3, VisitFacts
<1>5. /\ EdgesOf(h) \in Seq(Edges) /\ dumped \in Seq(Edges)
      /\ \A x : In(EdgesOf(h), x) <=> x \in Given /\ x.from # NoState /\ Identity[x.from] = h
  BY <1>1, <1>2, <1>4, EdgesOfFacts DEF BuildTypeOK
<1> HIDE DEF h
<1>6. /\ dumped' \in Seq(Edges)
      /\ \A x : In(dumped', x) <=> In(dumped, x) \/ (h \notin visited /\ In(EdgesOf(h), x))
  BY <1>1, <1>5, ConcatProperties, InConcat
<1>7. \A d \in Given : d.from = NoState \/ Identity[d.from] \in visited' => In(dumped', d)
  <2>1. ASSUME NEW d \in Given, d.from = NoState \/ Identity[d.from] \in visited'
        PROVE  In(dumped', d)
    <3>1. CASE d.from = NoState \/ Identity[d.from] \in visited
      BY <1>3, <1>6, <3>1
    <3>2. CASE d.from # NoState /\ Identity[d.from] = h /\ h \notin visited
      BY <1>5, <1>6, <3>2
    <3> QED
      BY <1>4, <2>1, <3>1, <3>2
  <2> QED
    BY <2>1
<1>8. \A i \in 1..Len(dumped') : dumped'[i] \in Given
  <2>1. \A x : In(dumped, x) => x \in Given
    BY <1>3 DEF In
  <2>2. \A x : In(dumped', x) => x \in Given
    BY <1>5, <1>6, <2>1
  <2> QED
    BY <2>2 DEF In
<1>9. BuildTypeOK'
  BY <1>1, <1>4, <1>6 DEF BuildTypeOK, input, pending, registry
<1>10. PhaseOK'
  BY <1>1 DEF IInv, PhaseOK, pending, registry
<1>11. NodesOK' /\ TransitionsOK' /\ NoEventIsAmbiguous' /\ EdgesOK'
  BY <1>1, RegistryKept DEF Begun
<1>12. SearchOK' /\ AcceptsTheWellFormed'
  BY <1>1, <1>2, InputFrame DEF SearchOK, AcceptsTheWellFormed
<1>13. DumpOK'
  <2>1. Given' = Given /\ WildDestinations' = WildDestinations /\ init' = init
    BY <1>1, InputFrame, RegistryFrame DEF input
  <2> QED
    BY <1>1, <1>3, <1>4, <1>7, <1>8, <2>1 DEF DumpOK
<1> QED
  BY <1>9, <1>10, <1>11, <1>12, <1>13 DEF IInv

(* When the queue is empty every edge has been collected.                   *)
LEMMA RenderStep ==
    ASSUME IInv, Render
    PROVE  IInv'
<1>1. /\ pc = "dump" /\ queue = <<>> /\ pc' = "done"
      /\ UNCHANGED <<input, pending, registry, search, result, dumped>>
      /\ BuildTypeOK /\ result = "graph"
  BY DEF Render, IInv, PhaseOK
<1>2. /\ Begun /\ WellFormed
      /\ \A d \in Given : Recorded(d)
  BY <1>1, AcceptedFacts
<1>3. /\ Pursued /\ Identity[init] \in Found /\ WildDestinations \subseteq Found
      /\ \A i \in 1..Len(dumped) : dumped[i] \in Given
      /\ \A d \in Given : d.from = NoState \/ Identity[d.from] \in visited => In(dumped, d)
  BY <1>1 DEF IInv, DumpOK
<1>4. \A n : Reachable(n) => n \in visited
  BY <1>1, <1>2, <1>3, TraversalIsComplete
<1>5. \A d \in Given : In(dumped, d)
  <2>1. ASSUME NEW d \in Given, d.from # NoState PROVE Reachable(Identity[d.from])
    BY <1>1, <1>2, <2>1, GivenFacts DEF WellFormed
  <2> QED
    BY <1>3, <1>4, <2>1
<1>6. ToSet(dumped) = Given
  <2>1. DOMAIN dumped = 1..Len(dumped)
    BY <1>1, LenProperties DEF BuildTypeOK
  <2> QED
    BY <1>3, <1>5, <2>1 DEF ToSet, In
<1>7. BuildTypeOK'
  BY <1>1 DEF BuildTypeOK, input, pending, registry, search
<1>8. PhaseOK'
  BY <1>1 DEF IInv, PhaseOK, pending, registry
<1>9. NodesOK' /\ TransitionsOK' /\ NoEventIsAmbiguous' /\ EdgesOK'
  BY <1>1, RegistryKept DEF Begun
<1>10. SearchOK' /\ DumpOK' /\ AcceptsTheWellFormed'
  BY <1>1, <1>2, <1>6, InputFrame DEF SearchOK, DumpOK, AcceptsTheWellFormed
<1> QED
  BY <1>7, <1>8, <1>9, <1>10 DEF IInv

-----------------------------------------------------------------------------
(* The lines of the diagram                                                *)

(* No edge is collected twice, and the lines are sorted as soon as there    *)
(* are any.                                                                 *)
Distinct(s) == \A i, j \in 1..Len(s) : s[i] = s[j] => i = j

DiagramOK ==
    /\ lines \in Seq(Nat)
    /\ Distinct(dumped)
    /\ pc = "dump" => \A i \in 1..Len(dumped) :
         dumped[i].from = NoState \/ Identity[dumped[i].from] \in visited
    /\ pc = "done" /\ result = "graph" => LinesOf(edges)

(* Two lists without a common element stay without repetition when joined.  *)
LEMMA DistinctConcat ==
    ASSUME NEW S, NEW s \in Seq(S), NEW t \in Seq(S), Distinct(s), Distinct(t),
           \A i \in 1..Len(s), j \in 1..Len(t) : s[i] # t[j]
    PROVE  Distinct(s \o t)
<1> DEFINE c == s \o t
<1>1. /\ Len(s) \in Nat /\ Len(t) \in Nat /\ Len(c) = Len(s) + Len(t)
      /\ \A i \in 1..(Len(s) + Len(t)) : c[i] = IF i <= Len(s) THEN s[i] ELSE t[i - Len(s)]
  BY ConcatProperties, LenProperties
<1> HIDE DEF c
<1>2. ASSUME NEW i \in 1..Len(c), NEW j \in 1..Len(c), c[i] = c[j] PROVE i = j
  <2>1. CASE i <= Len(s) /\ j <= Len(s)
    <3>1. i \in 1..Len(s) /\ j \in 1..Len(s) /\ s[i] = s[j]
      BY <1>1, <1>2, <2>1
    <3> QED
      BY <3>1 DEF Distinct
  <2>2. CASE ~(i <= Len(s)) /\ ~(j <= Len(s))
    <3>1. i - Len(s) \in 1..Len(t) /\ j - Len(s) \in 1..Len(t)
      BY <1>1, <2>2
    <3>2. t[i - Len(s)] = t[j - Len(s)]
      BY <1>1, <1>2, <2>2
    <3>3. i - Len(s) = j - Len(s)
      BY <3>1, <3>2 DEF Distinct
    <3> QED
      BY <1>1, <3>3
  <2>3. ASSUME NEW k \in 1..Len(c), NEW l \in 1..Len(c), k <= Len(s), ~(l <= Len(s))
        PROVE  c[k] # c[l]
    <3>1. k \in 1..Len(s) /\ l - Len(s) \in 1..Len(t) /\ c[k] = s[k] /\ c[l] = t[l - Len(s)]
      BY <1>1, <2>3
    <3> QED
      BY <3>1
  <2> QED
    BY <1>2, <2>1, <2>2, <2>3
<1> QED
  BY <1>2 DEF Distinct, c

(* In a list without repetition each of some of its elements has one place. *)
LEMMA DistinctCount ==
    ASSUME NEW S, NEW s \in Seq(S), Distinct(s), NEW P, \A x \in P : In(s, x)
    PROVE  Cardinality({i \in 1..Len(s) : s[i] \in P}) = Cardinality(P)
<1> DEFINE I == {i \in 1..Len(s) : s[i] \in P}
           f == [i \in I |-> s[i]]
<1>1. IsFiniteSet(1..Len(s))
  BY FS_Interval, LenProperties
<1>2. IsFiniteSet(I)
  BY <1>1, FS_Subset
<1>3. f \in Injection(I, P)
  <2>1. f \in [I -> P]
    OBVIOUS
  <2>2. \A i, j \in I : f[i] = f[j] => i = j
    BY DEF Distinct
  <2> HIDE DEF f
  <2> QED
    BY <2>1, <2>2 DEF Injection, IsInjective
<1>4. f \in Surjection(I, P)
  <2>1. \A x \in P : \E i \in I : f[i] = x
    BY DEF In
  <2> QED
    BY <2>1 DEF Surjection
<1>5. ExistsBijection(I, P)
  BY <1>3, <1>4 DEF ExistsBijection, Bijection
<1> HIDE DEF I
<1>6. Cardinality(P) = Cardinality(I)
  BY <1>2, <1>5, FS_Bijection
<1> QED
  BY <1>6 DEF I

(* The places a sort gives are places of the list, and follow the order.    *)
LEMMA RankFacts ==
    ASSUME NEW s \in Seq(Nat), NEW i \in 1..Len(s)
    PROVE  /\ Rank(s, i) \in 1..Len(s)
           /\ \A j \in 1..Len(s) :
                s[i] < s[j] \/ (s[i] = s[j] /\ i < j) => Rank(s, i) < Rank(s, j)
<1> DEFINE Before(j) == {k \in 1..Len(s) : s[k] < s[j] \/ (s[k] = s[j] /\ k <= j)}
<1>1. Len(s) \in Nat /\ IsFiniteSet(1..Len(s)) /\ Cardinality(1..Len(s)) = Len(s)
  <2>1. Len(s) \in Nat
    BY LenProperties
  <2>2. /\ IsFiniteSet(1..Len(s))
        /\ Cardinality(1..Len(s)) = IF 1 > Len(s) THEN 0 ELSE Len(s) - 1 + 1
    BY <2>1, FS_Interval
  <2> QED
    BY <2>1, <2>2
<1>2. \A k \in 1..Len(s) : s[k] \in Nat
  BY ElementOfSeq
<1>3. \A j \in 1..Len(s) :
        /\ IsFiniteSet(Before(j)) /\ Cardinality(Before(j)) \in Nat
        /\ Cardinality(Before(j)) <= Len(s)
        /\ Rank(s, j) = Cardinality(Before(j))
  <2> TAKE j \in 1..Len(s)
  <2>1. Before(j) \in SUBSET (1..Len(s))
    OBVIOUS
  <2>2. Rank(s, j) = Cardinality(Before(j))
    BY DEF Rank
  <2> HIDE DEF Before
  <2> QED
    BY <1>1, <2>1, <2>2, FS_Subset, FS_CardinalityType
<1>4. Cardinality(Before(i)) # 0
  <2>1. i \in Before(i)
    BY <1>2
  <2> HIDE DEF Before
  <2> QED
    BY <1>3, <2>1, FS_EmptySet
<1>5. ASSUME NEW j \in 1..Len(s), s[i] < s[j] \/ (s[i] = s[j] /\ i < j)
      PROVE  Cardinality(Before(i)) < Cardinality(Before(j))
  <2>1. s[i] \in Nat /\ s[j] \in Nat /\ i \in Nat /\ j \in Nat
    BY <1>1, <1>2
  <2>2. Before(i) \in SUBSET Before(j)
    <3>1. ASSUME NEW k \in 1..Len(s), s[k] < s[i] \/ (s[k] = s[i] /\ k <= i)
          PROVE  s[k] < s[j] \/ (s[k] = s[j] /\ k <= j)
      BY <1>1, <1>2, <1>5, <2>1, <3>1
    <3> QED
      BY <3>1
  <2>3. j \in Before(j) /\ j \notin Before(i)
    BY <1>5, <2>1
  <2> HIDE DEF Before
  <2>4. Before(i) # Before(j)
    BY <2>3
  <2>5. /\ Cardinality(Before(i)) <= Cardinality(Before(j))
        /\ Cardinality(Before(i)) # Cardinality(Before(j))
    BY <1>3, <2>2, <2>4, FS_Subset
  <2> QED
    BY <1>3, <2>5
<1> HIDE DEF Before
<1>6. Rank(s, i) = Cardinality(Before(i)) /\ Rank(s, i) \in 1..Len(s)
  BY <1>1, <1>3, <1>4
<1> QED
  BY <1>3, <1>5, <1>6

(* Every place is given to one element: the places are as many as the       *)
(* elements, and no two elements get the same.                              *)
LEMMA RankIsOnto ==
    ASSUME NEW s \in Seq(Nat), NEW r \in 1..Len(s)
    PROVE  \E i \in 1..Len(s) : Rank(s, i) = r /\ \A j \in 1..Len(s) : Rank(s, j) = r => j = i
<1> DEFINE I == 1..Len(s)
           f == [i \in I |-> Rank(s, i)]
<1>1. Len(s) \in Nat /\ IsFiniteSet(I) /\ \A k \in I : s[k] \in Nat
  <2>1. Len(s) \in Nat /\ \A k \in I : s[k] \in Nat
    BY LenProperties, ElementOfSeq
  <2> QED
    BY <2>1, FS_Interval
<1>2. ASSUME NEW i \in I, NEW j \in I, Rank(s, i) = Rank(s, j) PROVE i = j
  <2>1. Rank(s, i) \in Int /\ Rank(s, j) \in Int
    BY RankFacts
  <2>2. ~(s[i] < s[j]) /\ ~(s[j] < s[i]) /\ ~(s[i] = s[j] /\ i < j) /\ ~(s[j] = s[i] /\ j < i)
    BY <1>2, <2>1, RankFacts
  <2>3. s[i] \in Nat /\ s[j] \in Nat /\ i \in Nat /\ j \in Nat
    BY <1>1
  <2> QED
    BY <2>2, <2>3
<1>3. f \in [I -> I]
  BY RankFacts
<1>4. f \in Injection(I, I)
  <2>1. \A i, j \in I : f[i] = f[j] => i = j
    BY <1>2
  <2> HIDE DEF f
  <2> QED
    BY <1>3, <2>1 DEF Injection, IsInjective
<1> HIDE DEF f
<1>5. f \in Surjection(I, I)
  BY <1>1, <1>4, FS_Injection
<1>6. PICK i \in I : f[i] = r
  BY <1>5 DEF Surjection
<1> QED
  BY <1>2, <1>6 DEF f

(* Sorting rearranges a list, and puts smaller elements first.              *)
LEMMA SortedFacts ==
    ASSUME NEW s \in Seq(Nat)
    PROVE  /\ Sorted(s) \in Seq(Nat) /\ Len(Sorted(s)) = Len(s)
           /\ \A q, r \in 1..Len(s) : q < r => Sorted(s)[q] <= Sorted(s)[r]
           /\ \A k : Cardinality({r \in 1..Len(s) : Sorted(s)[r] = k})
                       = Cardinality({i \in 1..Len(s) : s[i] = k})
<1> DEFINE I == 1..Len(s)
           place == [r \in I |-> CHOOSE i \in I : Rank(s, i) = r]
<1>1. Len(s) \in Nat /\ IsFiniteSet(I) /\ \A k \in I : s[k] \in Nat
  <2>1. Len(s) \in Nat /\ \A k \in I : s[k] \in Nat
    BY LenProperties, ElementOfSeq
  <2> QED
    BY <2>1, FS_Interval
<1>2. \A r \in I : /\ place[r] \in I /\ Rank(s, place[r]) = r
                   /\ Sorted(s)[r] = s[place[r]]
  BY RankIsOnto DEF Sorted
<1>3. \A i \in I : Rank(s, i) \in I /\ place[Rank(s, i)] = i
  <2> TAKE i \in I
  <2>1. Rank(s, i) \in I
    BY RankFacts
  <2> QED
    BY <1>2, <2>1, RankIsOnto
<1>4. Sorted(s) \in Seq(Nat) /\ Len(Sorted(s)) = Len(s)
  <2>1. Sorted(s) \in [I -> Nat]
    BY <1>1, <1>2 DEF Sorted
  <2> QED
    BY <1>1, <2>1
<1> HIDE DEF place
<1>5. ASSUME NEW q \in I, NEW r \in I, q < r PROVE Sorted(s)[q] <= Sorted(s)[r]
  <2>1. ~(s[place[r]] < s[place[q]])
    <3>1. Rank(s, place[q]) = q /\ Rank(s, place[r]) = r /\ q \in Int /\ r \in Int
      BY <1>2
    <3>2. ~(Rank(s, place[r]) < Rank(s, place[q]))
      BY <1>5, <3>1
    <3> QED
      BY <1>2, <3>2, RankFacts
  <2>2. s[place[q]] \in Nat /\ s[place[r]] \in Nat
    BY <1>1, <1>2
  <2> QED
    BY <1>2, <2>1, <2>2
<1>6. ASSUME NEW k
      PROVE  Cardinality({r \in I : Sorted(s)[r] = k}) = Cardinality({i \in I : s[i] = k})
  <2> DEFINE R == {r \in I : Sorted(s)[r] = k}
             P == {i \in I : s[i] = k}
             f == [r \in R |-> place[r]]
  <2>1. f \in [R -> P]
    BY <1>2
  <2>2. f \in Injection(R, P)
    <3>1. \A q, r \in R : f[q] = f[r] => q = r
      BY <1>2
    <3> HIDE DEF f
    <3> QED
      BY <2>1, <3>1 DEF Injection, IsInjective
  <2>3. f \in Surjection(R, P)
    <3>1. ASSUME NEW i \in P PROVE Rank(s, i) \in R /\ f[Rank(s, i)] = i
      BY <1>2, <1>3
    <3> HIDE DEF f
    <3> QED
      BY <2>1, <3>1 DEF Surjection
  <2>4. ExistsBijection(R, P)
    BY <2>2, <2>3 DEF ExistsBijection, Bijection
  <2>5. IsFiniteSet(R)
    BY <1>1, FS_Subset
  <2> HIDE DEF R, P
  <2>6. Cardinality(P) = Cardinality(R)
    BY <2>4, <2>5, FS_Bijection
  <2> QED
    BY <2>6 DEF R, P
<1> QED
  BY <1>4, <1>5, <1>6

-----------------------------------------------------------------------------
(* Theorems                                                                *)

(* A step that changes nothing keeps the invariant.                         *)
LEMMA StutterStep ==
    ASSUME IInv, UNCHANGED vars
    PROVE  IInv'
<1>1. UNCHANGED <<input, pc, pending, registry, search, result, diagram>>
  BY DEF vars
<1>2. BuildTypeOK'
  BY <1>1 DEF IInv, BuildTypeOK, input, pending, registry, search, diagram
<1>3. PhaseOK'
  BY <1>1 DEF IInv, PhaseOK, pending, registry, Exists
<1>4. NodesOK' /\ TransitionsOK' /\ NoEventIsAmbiguous'
  BY <1>1, InputFrame, RegistryFrame DEF IInv, NodesOK, Begun, registry, input
<1>5. EdgesOK'
  BY <1>1, InputFrame, RegistryFrame, PendingFrame DEF IInv, EdgesOK, Begun
<1>6. /\ Found' = Found /\ (Pursued' <=> Pursued) /\ WildDestinations' = WildDestinations
      /\ \A n : Reachable(n)' <=> Reachable(n)
      /\ Given' = Given /\ (WellFormed' <=> WellFormed)
      /\ init' = init /\ visited' = visited /\ queue' = queue /\ dumped' = dumped
  BY <1>1, SearchFrame, RegistryFrame, InputFrame DEF input, search, diagram
<1>7. SearchOK' /\ DumpOK' /\ AcceptsTheWellFormed'
  BY <1>1, <1>6 DEF IInv, SearchOK, DumpOK, AcceptsTheWellFormed
<1> QED
  BY <1>2, <1>3, <1>4, <1>5, <1>7 DEF IInv

(* The invariant holds of every state of New and Dump.                      *)
THEOREM Invariance == Spec => []IInv
<1>1. Init => IInv
  BY InitStep
<1>2. IInv /\ [Next]_vars => IInv'
  <2> SUFFICES ASSUME IInv, [Next]_vars PROVE IInv'
    OBVIOUS
  <2>1. CASE CreateInitial
    BY <2>1, CreateInitialStep
  <2>2. CASE Partition
    BY <2>2, PartitionStep
  <2>3. CASE Partitioned
    BY <2>3, PartitionedStep
  <2>4. CASE HandleWild
    BY <2>4, HandleWildStep
  <2>5. CASE HandleEdge
    BY <2>5, HandleEdgeStep
  <2>6. CASE StartSearch
    BY <2>6, StartSearchStep
  <2>7. CASE \E n \in Nodes : Seed(n)
    BY <2>7, SeedStep
  <2>8. CASE Seeded
    BY <2>8, SeededStep
  <2>9. CASE Search
    BY <2>9, SearchStep
  <2>10. CASE CheckReachable
    BY <2>10, CheckReachableStep
  <2>11. CASE StartDump
    BY <2>11, StartDumpStep
  <2>12. CASE Dump
    BY <2>12, DumpStep
  <2>13. CASE Render
    BY <2>13, RenderStep
  <2>14. CASE UNCHANGED vars
    BY <2>14, StutterStep
  <2> QED
    BY <2>1, <2>2, <2>3, <2>4, <2>5, <2>6, <2>7, <2>8, <2>9, <2>10, <2>11, <2>12, <2>13,
       <2>14 DEF Next
<1> QED
  BY <1>1, <1>2, PTL DEF Spec

(* New accepts a list of edges exactly when it meets what the comment of    *)
(* New requires (src/state/graph/graph.go:115-119).                         *)
THEOREM Acceptance == Spec => []AcceptsTheWellFormed
<1>1. IInv => AcceptsTheWellFormed
  BY DEF IInv
<1> QED
  BY <1>1, Invariance, PTL

(* No event leaves a node twice, nor both as an edge and as a wildcard      *)
(* (src/state/graph/node.go:98-100, 146-147).                               *)
THEOREM Determinism == Spec => []NoEventIsAmbiguous
<1>1. IInv => NoEventIsAmbiguous
  BY DEF IInv
<1> QED
  BY <1>1, Invariance, PTL

(* What FindNext answers for an event that leaves the node.                 *)
LEMMA NextOfNodeFacts ==
    ASSUME IInv, NEW n \in Nodes, NEW e
    PROVE  /\ \A k \in 1..Len(next[n]) : next[n][k].event = e =>
                NextOfNode(n, e) = next[n][k].to /\ next[n][k].to \in Nodes
           /\ (\A k \in 1..Len(next[n]) : next[n][k].event # e) => NextOfNode(n, e) = NoNode
<1>1. BuildTypeOK /\ next[n] \in Seq(Transitions)
  BY DEF IInv, BuildTypeOK
<1>2. e \in EventsOf(n) <=> \E k \in 1..Len(next[n]) : next[n][k].event = e
  BY <1>1, EventsOfFacts
<1>3. ASSUME NEW k \in 1..Len(next[n]), next[n][k].event = e
      PROVE  NextOfNode(n, e) = next[n][k].to /\ next[n][k].to \in Nodes
  <2>1. \A i \in 1..Len(next[n]) : next[n][i].event = e => i = k
    BY <1>3 DEF IInv, NoEventIsAmbiguous
  <2>2. (CHOOSE i \in 1..Len(next[n]) : next[n][i].event = e) = k
    BY <1>3, <2>1
  <2>3. NextOfNode(n, e) = next[n][k].to
    BY <1>2, <1>3, <2>2 DEF NextOfNode
  <2>4. next[n][k] \in Transitions
    BY <1>1, ElementOfSeq
  <2> QED
    BY <2>3, <2>4 DEF Transitions
<1>4. ASSUME \A k \in 1..Len(next[n]) : next[n][k].event # e
      PROVE  NextOfNode(n, e) = NoNode
  BY <1>2, <1>4 DEF NextOfNode
<1> QED
  BY <1>3, <1>4

(* A machine takes the edges it was given where they apply, and nothing     *)
(* else (src/state/graph/graph.go:71-78).                                   *)
THEOREM Following == Spec => []FindNextFollowsTheEdges
<1>1. IInv => FindNextFollowsTheEdges
  <2> SUFFICES ASSUME IInv, result = "graph", NEW n \in Nodes, Exists(n)
               PROVE  /\ \A d \in Given : Applies(d, n) => FindNext(n, d.event) = Identity[d.to]
                      /\ \A e \in Events : FindNext(n, e) # NoNode =>
                           \E d \in Given : d.event = e /\ Applies(d, n)
    BY DEF FindNextFollowsTheEdges
  <2>1. BuildTypeOK /\ \A d \in Given : Recorded(d)
    BY AcceptedFacts DEF IInv
  <2>2. ASSUME NEW d \in Given, Applies(d, n)
        PROVE  FindNext(n, d.event) = Identity[d.to]
    <3>1. Recorded(d) /\ Identity[d.to] \in Nodes /\ NoNode \notin Nodes
      BY <2>1, GivenFacts, GraphAssumption DEF Recorded, Carried
    <3>2. CASE d.from = NoState
      <4>1. wilds[d.event] = Identity[d.to]
        BY <3>1, <3>2 DEF Recorded
      <4>2. \A k \in 1..Len(next[n]) : next[n][k].event # d.event
        BY <3>1, <4>1 DEF IInv, NoEventIsAmbiguous
      <4>3. NextOfNode(n, d.event) = NoNode
        BY <4>2, NextOfNodeFacts
      <4> QED
        BY <4>1, <4>3 DEF FindNext
    <3>3. CASE d.from # NoState
      <4>1. In(next[n], Transition(d))
        BY <2>2, <3>1, <3>3 DEF Recorded, Applies
      <4>2. PICK k \in 1..Len(next[n]) : next[n][k] = Transition(d)
        BY <4>1 DEF In
      <4>3. next[n][k].event = d.event /\ next[n][k].to = Identity[d.to]
        BY <4>2 DEF Transition
      <4>4. NextOfNode(n, d.event) = Identity[d.to]
        BY <4>3, NextOfNodeFacts
      <4> QED
        BY <3>1, <4>4 DEF FindNext
    <3> QED
      BY <3>2, <3>3
  <2>3. ASSUME NEW e \in Events, FindNext(n, e) # NoNode
        PROVE  \E d \in Given : d.event = e /\ Applies(d, n)
    <3>1. CASE \E k \in 1..Len(next[n]) : next[n][k].event = e
      <4>1. PICK k \in 1..Len(next[n]) : next[n][k].event = e
        BY <3>1
      <4>2. PICK d \in Given : Identity[d.from] = n /\ next[n][k] = Transition(d)
        BY DEF IInv, TransitionsOK
      <4> QED
        BY <4>1, <4>2 DEF Transition, Applies
    <3>2. CASE \A k \in 1..Len(next[n]) : next[n][k].event # e
      <4>1. wilds[e] # NoNode
        BY <2>3, <3>2, NextOfNodeFacts DEF FindNext
      <4> QED
        BY <4>1 DEF IInv, TransitionsOK, Applies
    <3> QED
      BY <3>1, <3>2
  <2> QED
    BY <2>2, <2>3
<1> QED
  BY <1>1, Invariance, PTL

(* The line of an edge that New accepts has a place.                        *)
LEMMA LineHasPlace ==
    ASSUME IInv, result = "graph", NEW d \in Given
    PROVE  Line(d) \in Nat
<1>1. d.from \in States \cup {NoState} /\ d.to \in States /\ d.event \in Events
  <2>1. BuildTypeOK /\ WellFormed
    BY AcceptedFacts DEF IInv
  <2> QED
    BY <2>1, GivenFacts DEF WellFormed
<1>2. /\ Star \in Labels /\ StateLabel \in [States -> Labels] /\ EventLabel \in [Events -> Labels]
      /\ Place \in [Labels \X Labels \X Labels -> Nat]
  BY GraphAssumption
<1> DEFINE from == IF d.from = NoState THEN Star ELSE StateLabel[d.from]
<1>3. from \in Labels /\ StateLabel[d.to] \in Labels /\ EventLabel[d.event] \in Labels
  BY <1>1, <1>2
<1>4. <<from, StateLabel[d.to], EventLabel[d.event]>> \in Labels \X Labels \X Labels
  BY <1>3
<1>5. Line(d) = Place[<<from, StateLabel[d.to], EventLabel[d.event]>>]
  BY DEF Line
<1> HIDE DEF from
<1> QED
  BY <1>2, <1>4, <1>5

(* The wildcard edges come once each, and no node has them.                 *)
LEMMA StartDumpOnce ==
    ASSUME IInv, IInv', DiagramOK, StartDump
    PROVE  DiagramOK'
<1> DEFINE E == {e \in Events : wilds[e] # NoNode}
<1>1. pc' = "dump" /\ lines' = lines
  BY DEF StartDump
<1>2. PICK order \in SetToSeqs(E) :
        dumped' = [i \in 1..Len(order) |->
                    [from |-> NoState, event |-> order[i], to |-> state[wilds[order[i]]]]]
  BY DEF StartDump
<1>3. \A i, j \in 1..Len(order) : i # j => order[i] # order[j]
  <2>1. order \in [1..Cardinality(E) -> E]
        /\ \A i, j \in 1..Cardinality(E) : i # j => order[i] # order[j]
    BY DEF SetToSeqs
  <2>2. Cardinality(E) \in Nat
    BY FS_CardinalityType DEF IInv, TransitionsOK
  <2>3. Len(order) = Cardinality(E)
    BY <2>1, <2>2
  <2> QED
    BY <2>1, <2>3
<1>4. Len(order) \in Nat
  <2>1. order \in Seq(E)
    BY OrderIsComplete DEF IInv, TransitionsOK
  <2> QED
    BY <2>1, LenProperties
<1>5. Len(dumped') = Len(order)
  BY <1>2, <1>4
<1>6. \A i \in 1..Len(order) : dumped'[i].from = NoState /\ dumped'[i].event = order[i]
  BY <1>2
<1>7. Distinct(dumped)'
  BY <1>3, <1>5, <1>6 DEF Distinct
<1> QED
  BY <1>1, <1>5, <1>6, <1>7 DEF DiagramOK

(* The edges of a node differ in their events.                              *)
LEMMA EdgesOfAreDistinct ==
    ASSUME IInv, NEW n \in Nodes
    PROVE  Distinct(EdgesOf(n))
<1>1. next[n] \in Seq(Transitions)
  BY DEF IInv, BuildTypeOK
<1>2. /\ Len(next[n]) \in Nat /\ Len(EdgesOf(n)) = Len(next[n])
      /\ \A i \in 1..Len(next[n]) : EdgesOf(n)[i].event = next[n][i].event
  BY <1>1, LenProperties DEF EdgesOf
<1>3. \A i, j \in 1..Len(next[n]) : next[n][i].event = next[n][j].event => i = j
  BY DEF IInv, NoEventIsAmbiguous
<1> QED
  BY <1>2, <1>3 DEF Distinct

(* The edges of a node are collected when it is first visited.              *)
LEMMA DumpOnce ==
    ASSUME IInv, IInv', DiagramOK, Dump
    PROVE  DiagramOK'
<1> DEFINE h == Head(queue)
<1>1. /\ pc = "dump" /\ pc' = "dump" /\ Visit /\ lines' = lines /\ queue # <<>>
      /\ dumped' = IF h \in visited THEN dumped ELSE dumped \o EdgesOf(h)
      /\ BuildTypeOK /\ result = "graph"
  BY DEF Dump, IInv, PhaseOK
<1>2. visited' = visited \cup {h} /\ h \in Nodes
  <2>1. queue \in Seq(Nodes)
    BY <1>1 DEF BuildTypeOK
  <2> QED
    BY <1>1, <2>1, TailFacts DEF Visit
<1>3. /\ EdgesOf(h) \in Seq(Edges) /\ dumped \in Seq(Edges)
      /\ \A x : In(EdgesOf(h), x) => x.from # NoState /\ Identity[x.from] = h
  BY <1>1, <1>2, AcceptedFacts, EdgesOfFacts DEF BuildTypeOK
<1>4. /\ Distinct(dumped) /\ Distinct(EdgesOf(h))
      /\ \A i \in 1..Len(dumped) : dumped[i].from = NoState \/ Identity[dumped[i].from] \in visited
  BY <1>1, <1>2, EdgesOfAreDistinct DEF DiagramOK
<1> HIDE DEF h
<1>5. \A j \in 1..Len(EdgesOf(h)) :
        EdgesOf(h)[j].from # NoState /\ Identity[EdgesOf(h)[j].from] = h
  BY <1>3 DEF In
<1>6. CASE h \in visited
  BY <1>1, <1>2, <1>4, <1>6 DEF DiagramOK, Distinct
<1>7. CASE h \notin visited
  <2>1. \A i \in 1..Len(dumped), j \in 1..Len(EdgesOf(h)) : dumped[i] # EdgesOf(h)[j]
    BY <1>4, <1>5, <1>7
  <2>2. dumped' = dumped \o EdgesOf(h)
    BY <1>1, <1>7
  <2>3. Distinct(dumped \o EdgesOf(h))
    BY <1>3, <1>4, <2>1, DistinctConcat
  <2>4. Distinct(dumped)'
    BY <2>2, <2>3 DEF Distinct
  <2>5. ASSUME NEW x, In(dumped \o EdgesOf(h), x)
        PROVE  x.from = NoState \/ Identity[x.from] \in visited'
    <3>1. In(dumped, x) \/ In(EdgesOf(h), x)
      BY <1>3, <2>5, InConcat
    <3> QED
      BY <1>2, <1>3, <1>4, <3>1 DEF In
  <2>6. \A i \in 1..Len(dumped') : dumped'[i].from = NoState \/ Identity[dumped'[i].from] \in visited'
    BY <2>2, <2>5 DEF In
  <2> QED
    BY <1>1, <2>4, <2>6 DEF DiagramOK
<1> QED
  BY <1>6, <1>7

(* The lines are those of the edges collected, which are the edges given.   *)
LEMMA RenderOnce ==
    ASSUME IInv, IInv', DiagramOK, Render
    PROVE  DiagramOK'
<1> DEFINE texts == [i \in 1..Len(dumped) |-> Line(dumped[i])]
<1>1. /\ pc' = "done" /\ lines' = Sorted(texts)
      /\ UNCHANGED <<input, dumped, result>> /\ result = "graph"
      /\ BuildTypeOK /\ dumped \in Seq(Edges) /\ edges \in Seq(Edges)
  BY DEF Render, IInv, PhaseOK, BuildTypeOK
<1>2. /\ ToSet(dumped) = Given /\ Given' = Given /\ edges' = edges /\ WellFormed
  <2>1. (ToSet(dumped) = Given)'
    BY <1>1 DEF IInv, DumpOK
  <2>2. Given' = Given /\ edges' = edges
    BY <1>1, InputFrame DEF input
  <2> QED
    BY <1>1, <2>1, <2>2, AcceptedFacts DEF ToSet
<1>3. \A d \in Given : In(dumped, d) /\ In(edges, d)
  <2>1. DOMAIN dumped = 1..Len(dumped)
    BY <1>1, LenProperties
  <2> QED
    BY <1>2, <2>1 DEF ToSet, In, Given
<1>4. \A i \in 1..Len(dumped) : dumped[i] \in Given
  <2>1. DOMAIN dumped = 1..Len(dumped)
    BY <1>1, LenProperties
  <2> QED
    BY <1>2, <2>1 DEF ToSet
<1>5. Distinct(dumped) /\ Distinct(edges)
  <2>1. \A i, j \in 1..Len(edges) : i # j => ~SameChoice(edges[i], edges[j])
    BY <1>2 DEF WellFormed
  <2> QED
    BY <2>1 DEF DiagramOK, Distinct, SameChoice
<1>6. texts \in Seq(Nat) /\ Len(texts) = Len(dumped)
  <2>1. \A i \in 1..Len(dumped) : Line(dumped[i]) \in Nat
    BY <1>1, <1>4, LineHasPlace
  <2>2. Len(dumped) \in Nat
    BY <1>1, LenProperties
  <2> QED
    BY <2>1, <2>2
<1>7. /\ lines' \in Seq(Nat) /\ Len(lines') = Len(dumped)
      /\ \A q, r \in 1..Len(dumped) : q < r => lines'[q] <= lines'[r]
      /\ \A k : Cardinality({r \in 1..Len(dumped) : lines'[r] = k})
                  = Cardinality({i \in 1..Len(dumped) : texts[i] = k})
  <2> HIDE DEF texts
  <2>1. /\ Sorted(texts) \in Seq(Nat) /\ Len(Sorted(texts)) = Len(texts)
        /\ \A q, r \in 1..Len(texts) : q < r => Sorted(texts)[q] <= Sorted(texts)[r]
        /\ \A k : Cardinality({r \in 1..Len(texts) : Sorted(texts)[r] = k})
                    = Cardinality({i \in 1..Len(texts) : texts[i] = k})
    BY <1>6, SortedFacts
  <2> QED
    BY <1>1, <1>6, <2>1
<1>8. ASSUME NEW k
      PROVE  Cardinality({i \in 1..Len(dumped) : texts[i] = k})
               = Cardinality({i \in 1..Len(edges) : Line(edges[i]) = k})
  <2> DEFINE P == {d \in Given : Line(d) = k}
  <2>1. {i \in 1..Len(dumped) : texts[i] = k} = {i \in 1..Len(dumped) : dumped[i] \in P}
    BY <1>4
  <2>2. {i \in 1..Len(edges) : Line(edges[i]) = k} = {i \in 1..Len(edges) : edges[i] \in P}
    BY DEF Given
  <2>3. \A d \in P : In(dumped, d) /\ In(edges, d)
    BY <1>3
  <2> HIDE DEF P
  <2>4. /\ Cardinality({i \in 1..Len(dumped) : dumped[i] \in P}) = Cardinality(P)
        /\ Cardinality({i \in 1..Len(edges) : edges[i] \in P}) = Cardinality(P)
    BY <1>1, <1>5, <2>3, DistinctCount
  <2> QED
    BY <2>1, <2>2, <2>4
<1>9. LinesOf(edges)'
  <2> HIDE DEF texts
  <2>1. \A k : Cardinality({r \in 1..Len(lines') : lines'[r] = k})
                 = Cardinality({i \in 1..Len(edges') : Line(edges'[i]) = k})
    BY <1>2, <1>7, <1>8
  <2>2. \A i, j \in 1..Len(lines') : i < j => lines'[i] <= lines'[j]
    BY <1>7
  <2> QED
    BY <2>1, <2>2 DEF LinesOf, Line
<1> QED
  BY <1>1, <1>5, <1>7, <1>9 DEF DiagramOK, Distinct

(* The other steps leave the diagram alone.                                 *)
LEMMA DiagramFrame ==
    ASSUME IInv, DiagramOK, UNCHANGED diagram, edges' = edges,
           pc' = "dump" => pc = "dump" /\ visited' = visited,
           pc' = "done" /\ result' = "graph" => pc = "done" /\ result = "graph"
    PROVE  DiagramOK'
<1>1. lines' = lines /\ dumped' = dumped
  BY DEF diagram
<1>2. LinesOf(edges)' <=> LinesOf(edges)
  BY <1>1 DEF LinesOf, Line
<1> QED
  BY <1>1, <1>2 DEF DiagramOK, Distinct

(* What is rendered are the edges given, each once.                         *)
THEOREM DiagramInvariance == Spec => []DiagramOK
<1>1. Init => DiagramOK
  BY DEF Init, DiagramOK, Distinct
<1>2. IInv /\ IInv' /\ DiagramOK /\ [Next]_vars => DiagramOK'
  <2> SUFFICES ASSUME IInv, IInv', DiagramOK, [Next]_vars PROVE DiagramOK'
    OBVIOUS
  <2>1. CASE StartDump
    BY <2>1, StartDumpOnce
  <2>2. CASE Dump
    BY <2>2, DumpOnce
  <2>3. CASE Render
    BY <2>3, RenderOnce
  <2>4. CASE \/ CreateInitial \/ Partition \/ Partitioned \/ HandleWild \/ HandleEdge
             \/ StartSearch \/ (\E n \in Nodes : Seed(n)) \/ Seeded \/ Search \/ CheckReachable
    <3>1. UNCHANGED diagram /\ UNCHANGED input
      BY <2>4 DEF CreateInitial, Partition, Partitioned, HandleWild, HandleEdge, Connect,
         StartSearch, Seed, Seeded, Search, CheckReachable, Fail
    <3>2. pc' # "dump" /\ (pc' = "done" => result' = "error")
      BY <2>4 DEF CreateInitial, Partition, Partitioned, HandleWild, HandleEdge, Connect,
         StartSearch, Seed, Seeded, Search, CheckReachable, Fail
    <3> QED
      BY <3>1, <3>2, DiagramFrame DEF input
  <2>5. CASE UNCHANGED vars
    BY <2>5, DiagramFrame DEF vars, input, search
  <2> QED
    BY <2>1, <2>2, <2>3, <2>4, <2>5 DEF Next
<1> QED
  BY <1>1, <1>2, Invariance, PTL DEF Spec

(* The variables keep their types.                                          *)
THEOREM Types == Spec => []TypeOK
<1>1. IInv /\ DiagramOK => TypeOK
  BY DEF IInv, DiagramOK, TypeOK
<1> QED
  BY <1>1, Invariance, DiagramInvariance, PTL

(* A diagram shows the edges that New was given, each once, in an order     *)
(* that depends on nothing but their texts                                  *)
(* (src/state/graph/graph.go:80, src/state/graph/dump.go:41-42, 58).        *)
THEOREM DumpIsComplete == Spec => []DumpShowsEveryEdge
<1>1. IInv /\ DiagramOK => DumpShowsEveryEdge
  BY DEF IInv, DumpOK, DiagramOK, DumpShowsEveryEdge
<1> QED
  BY <1>1, Invariance, DiagramInvariance, PTL
=============================================================================
