--------------------------- MODULE DagCallsProofs ---------------------------
(***************************************************************************)
(* The three algorithms of core/dag.py are correct, for every finite set of *)
(* step ids, every graph over it and every order of their loops:            *)
(* dependents_of by itself, then detect_cycle and topological_layers in     *)
(* DagCalls, which calls the three on the same graph.                       *)
(***************************************************************************)
EXTENDS DagCalls, DagLemmas, SequenceTheorems

\* The worklist keeps its types (Dag.dependents_of).
THEOREM WalkTypeCorrect == WalkSpec => []WalkTypeOK
  <1>1. WalkInit => WalkTypeOK
    BY DEF WalkInit, WalkTypeOK
  <1>2. WalkTypeOK /\ [WalkNext]_walkVars => WalkTypeOK'
    <2> SUFFICES ASSUME WalkTypeOK, [WalkNext]_walkVars PROVE WalkTypeOK'
      OBVIOUS
    <2>1. ASSUME NEW visited \in Nodes, Visit(visited) PROVE WalkTypeOK'
      BY <2>1 DEF WalkTypeOK, Visit, Successors, Graphs
    <2>2. CASE UNCHANGED walkVars
      BY <2>2 DEF WalkTypeOK, walkVars
    <2>3. QED
      BY <2>1, <2>2 DEF WalkNext
  <1>3. QED
    BY <1>1, <1>2, PTL DEF WalkSpec

\* The loop invariant of dependents_of holds on every graph: the collected
\* steps are downstream of root, and what is missing hangs below the frontier.
THEOREM WalkCorrect == WalkSpec => []WalkInvariant
  <1>1. WalkInit => WalkInvariant
    BY DEF WalkInit, WalkInvariant
  <1>2. WalkTypeOK /\ WalkInvariant /\ [WalkNext]_walkVars => WalkInvariant'
    <2> SUFFICES ASSUME WalkTypeOK, WalkInvariant, [WalkNext]_walkVars PROVE WalkInvariant'
      OBVIOUS
    <2>1. ASSUME NEW visited \in Nodes, Visit(visited) PROVE WalkInvariant'
      <3> DEFINE found == Successors(graph, visited) \ result
      <3>1. /\ visited \in frontier
            /\ result' = result \cup found
            /\ frontier' = (frontier \ {visited}) \cup found
            /\ graph' = graph /\ root' = root
        BY <2>1 DEF Visit
      <3>2. (frontier \subseteq result \cup {root})'
        BY <3>1 DEF WalkInvariant
      <3>3. Successors(graph, visited) \subseteq DependentsOf(graph, root)
        BY <3>1, DependentsClosed DEF WalkInvariant, DownwardClosed
      <3>4. (result \subseteq DependentsOf(graph, root))'
        BY <3>1, <3>3 DEF WalkInvariant
      <3>5. ASSUME NEW s \in ((result \cup {root}) \ frontier)'
            PROVE  Successors(graph, s)' \subseteq result'
        <4>1. Successors(graph, s)' = Successors(graph, s)
          BY <3>1 DEF Successors, Predecessors
        <4>2. CASE s = visited
          BY <3>1, <4>1, <4>2
        <4>3. CASE s /= visited
          <5>1. s \in (result \cup {root}) \ frontier
            BY <3>1, <3>5, <4>3
          <5>2. QED
            BY <3>1, <4>1, <5>1 DEF WalkInvariant
        <4>4. QED
          BY <4>2, <4>3
      <3>6. QED
        BY <3>2, <3>4, <3>5 DEF WalkInvariant
    <2>2. CASE UNCHANGED walkVars
      BY <2>2 DEF WalkInvariant, walkVars
    <2>3. QED
      BY <2>1, <2>2 DEF WalkNext
  <1>3. QED
    BY <1>1, <1>2, WalkTypeCorrect, PTL DEF WalkSpec

\* Whatever the graph, dependents_of returns exactly the steps downstream of
\* its argument: neither a missed dependent nor a foreign step.
THEOREM WalkReturnsDependents == WalkSpec => []ReturnsDependents
  <1>1. WalkTypeOK /\ WalkInvariant => ReturnsDependents
    <2> SUFFICES ASSUME WalkTypeOK, WalkInvariant, frontier = {}
                 PROVE  result = DependentsOf(graph, root)
      BY DEF ReturnsDependents, Returned
    <2>1. /\ Successors(graph, root) \subseteq result
          /\ DownwardClosed(graph, result)
      BY DEF WalkInvariant, DownwardClosed
    <2>2. result \in SUBSET DOMAIN graph
      BY DEF WalkTypeOK, Graphs
    <2>3. DependentsOf(graph, root) \subseteq result
      BY <2>1, <2>2, DependentsLeast
    <2>4. QED
      BY <2>3 DEF WalkInvariant
  <1>2. QED
    BY <1>1, WalkTypeCorrect, WalkCorrect, PTL

-----------------------------------------------------------------------------
(* dependents_of within DagCalls.                                           *)

\* dependents_of is not disturbed by the calls before it: it returns the steps
\* downstream of its argument.
THEOREM CallsReturnDependents == Spec => []ReturnsDependents
  <1>1. Init => WalkInit
    BY DEF Init
  <1>2. [Next]_vars => [WalkNext]_walkVars
    BY DEF Next, vars, WalkNext
  <1>3. QED
    BY <1>1, <1>2, WalkReturnsDependents, PTL DEF Spec, WalkSpec

-----------------------------------------------------------------------------
(* topological_layers.                                                      *)

\* The types of Kahn's algorithm.
LayersTypeOK ==
    /\ graph \in Graphs(Nodes)
    /\ remaining \in [Nodes -> Nat]
    /\ layers \in Seq(SUBSET Nodes)
    /\ current \subseteq Nodes
    /\ resolved \in Nat

\* The steps that are not layered although their dependencies are.
Due == {t \in Nodes \ Layered : Predecessors(graph, t) \subseteq Layered}

\* remaining counts the dependencies without a layer, resolved the steps with
\* one, and the next layer holds exactly the steps that are due.
CountsAgree ==
    /\ \A t \in Nodes : remaining[t] = Cardinality(Predecessors(graph, t) \ Layered)
    /\ resolved = Cardinality(Layered)
    /\ current = Due

\* A step is in one layer only, and a step of the next layer has waited for a
\* dependency in the last one.
LayersInOrder ==
    /\ LayersRespectDependencies
    /\ \A i, j \in DOMAIN layers : \A s \in layers[i] \cap layers[j] : i = j
    /\ layers /= <<>> =>
         \A t \in current : \E p \in Predecessors(graph, t) : p \in layers[Len(layers)]

\* The loop invariant of topological_layers.
LayersInvariant == LayersTypeOK /\ CountsAgree /\ LayersInOrder

\* The dependencies of a step are a finite set of steps.
LEMMA FinitePredecessors ==
    ASSUME graph \in Graphs(Nodes), NEW t \in Nodes, NEW S
    PROVE  /\ Predecessors(graph, t) \subseteq Nodes
           /\ IsFiniteSet(Predecessors(graph, t) \ S)
           /\ Cardinality(Predecessors(graph, t) \ S) \in Nat
           /\ Cardinality(Predecessors(graph, t) \ S) = 0 <=> Predecessors(graph, t) \subseteq S
  <1>1. Predecessors(graph, t) \subseteq Nodes
    BY DEF Graphs, Predecessors
  <1>2. IsFiniteSet(Predecessors(graph, t) \ S)
    BY <1>1, NodesAssumption, FS_Subset
  <1>3. QED
    BY <1>1, <1>2, FS_CardinalityType, FS_EmptySet

\* The loop invariant holds before the loop: the first layer is the steps
\* without dependencies.
LEMMA LayersStart == LayersInit => LayersInvariant
  <1> SUFFICES ASSUME LayersInit PROVE LayersInvariant
    OBVIOUS
  <1>1. Layered = {} /\ Cardinality(Layered) = 0
    BY FS_EmptySet DEF LayersInit, Layered
  <1>2. \A t \in Nodes : remaining[t] = Cardinality(Predecessors(graph, t) \ {})
    BY DEF LayersInit, InDegree
  <1>3. LayersTypeOK
    BY <1>2, FinitePredecessors DEF LayersInit, LayersTypeOK, InDegree
  <1>4. current = Due
    BY <1>1, <1>2, FinitePredecessors DEF LayersInit, Due
  <1>5. CountsAgree
    BY <1>1, <1>2, <1>4 DEF LayersInit, CountsAgree
  <1>6. LayersInOrder
    BY DEF LayersInit, LayersInOrder, LayersRespectDependencies
  <1>7. QED
    BY <1>3, <1>5, <1>6 DEF LayersInvariant

\* A step that is layered has its dependencies layered.
LEMMA LayeredClosed ==
    ASSUME LayersTypeOK, LayersRespectDependencies, NEW t \in Layered
    PROVE  t \in Nodes /\ Predecessors(graph, t) \subseteq Layered
  <1>1. PICK i \in DOMAIN layers : t \in layers[i]
    BY DEF Layered
  <1>2. i \in 1 .. Len(layers) /\ layers[i] \subseteq Nodes /\ DOMAIN layers = 1 .. Len(layers)
    BY DEF LayersTypeOK
  <1>3. \A p \in Predecessors(graph, t) : \E j \in 1 .. i - 1 : p \in layers[j]
    BY <1>1 DEF LayersRespectDependencies
  <1>4. 1 .. i - 1 \subseteq DOMAIN layers
    BY <1>2
  <1>5. QED
    BY <1>1, <1>2, <1>3, <1>4 DEF Layered

\* One turn of the loop preserves the loop invariant.
LEMMA LayersStep ==
    ASSUME LayersInvariant, Layer
    PROVE  LayersInvariant'
  <1> DEFINE n == Len(layers)
             Pred(t) == Predecessors(graph, t)
  <1>1. /\ graph \in Graphs(Nodes) /\ layers \in Seq(SUBSET Nodes) /\ current \subseteq Nodes
        /\ remaining \in [Nodes -> Nat] /\ resolved \in Nat
        /\ current = Due /\ LayersRespectDependencies
        /\ n \in Nat /\ DOMAIN layers = 1 .. n
    BY DEF LayersInvariant, LayersTypeOK, CountsAgree, LayersInOrder
  <1>2. /\ layers' \in Seq(SUBSET Nodes) /\ Len(layers') = n + 1
        /\ DOMAIN layers' = 1 .. n + 1
        /\ layers'[n + 1] = current
        /\ \A i \in 1 .. n : layers'[i] = layers[i]
        /\ graph' = graph
    BY <1>1 DEF Layer
  <1>3. Layered' = Layered \cup current
    <2>1. Layered' = UNION {layers'[i] : i \in 1 .. n + 1}
      BY <1>2 DEF Layered
    <2>2. Layered = UNION {layers[i] : i \in 1 .. n}
      BY <1>1 DEF Layered
    <2>3. 1 .. n + 1 = (1 .. n) \cup {n + 1}
      BY <1>1
    <2> QED
      BY <1>2, <2>1, <2>2, <2>3, Zenon
  <1>4. Layered \subseteq Nodes /\ Layered \cap current = {}
    BY <1>1, LayeredClosed DEF LayersInvariant, Due
  <1>5. ASSUME NEW t \in Nodes
        PROVE  /\ CountOff[t] = Cardinality(Pred(t) \ Layered')
               /\ CountOff[t] \in Nat
    <2>1. remaining[t] = Cardinality(Pred(t) \ Layered)
      BY DEF LayersInvariant, CountsAgree
    <2>2. Pred(t) \cap current = (Pred(t) \ Layered) \cap current
      BY <1>4
    <2>3. Pred(t) \ Layered' = (Pred(t) \ Layered) \ current
      BY <1>3
    <2>4. IsFiniteSet(Pred(t) \ Layered)
      BY <1>1, FinitePredecessors
    <2>5. Cardinality(Pred(t) \ Layered')
            = Cardinality(Pred(t) \ Layered) - Cardinality(Pred(t) \cap current)
      BY <2>2, <2>3, <2>4, FS_Difference
    <2>6. CountOff[t] = remaining[t] - Cardinality(Pred(t) \cap current)
      BY DEF CountOff
    <2>7. Cardinality(Pred(t) \ Layered') \in Nat
      BY <1>1, FinitePredecessors
    <2> QED
      BY <2>1, <2>5, <2>6, <2>7
  <1>6. ASSUME NEW t \in Nodes
        PROVE  t \in NextLayer <=> ~(Pred(t) \subseteq Layered) /\ Pred(t) \subseteq Layered'
    <2>1. remaining[t] = Cardinality(Pred(t) \ Layered)
      BY DEF LayersInvariant, CountsAgree
    <2>2. remaining[t] \in Nat /\ (remaining[t] = 0 <=> Pred(t) \subseteq Layered)
      BY <1>1, <2>1, FinitePredecessors
    <2>3. CountOff[t] = 0 <=> Pred(t) \subseteq Layered'
      BY <1>1, <1>5, FinitePredecessors
    <2> QED
      BY <2>2, <2>3 DEF NextLayer
  <1>7. current' = Due'
    <2>1. current' = NextLayer /\ NextLayer \subseteq Nodes
      BY DEF Layer, NextLayer
    <2>2. Due' = {t \in Nodes \ Layered' : Pred(t) \subseteq Layered'}
      BY <1>2 DEF Due
    <2>3. ASSUME NEW t \in NextLayer PROVE t \in Due'
      <3>1. t \in Nodes /\ ~(Pred(t) \subseteq Layered) /\ Pred(t) \subseteq Layered'
        BY <1>6, <2>1
      <3>2. t \notin Layered
        BY <1>1, <3>1, LayeredClosed DEF LayersInvariant
      <3>3. t \notin current
        BY <1>1, <3>1 DEF Due
      <3> QED
        BY <1>3, <2>2, <3>1, <3>2, <3>3
    <2>4. ASSUME NEW t \in Due' PROVE t \in NextLayer
      <3>1. t \in Nodes /\ t \notin Layered /\ t \notin current /\ Pred(t) \subseteq Layered'
        BY <1>3, <2>2
      <3>2. ~(Pred(t) \subseteq Layered)
        BY <1>1, <3>1 DEF Due
      <3> QED
        BY <1>6, <3>1, <3>2
    <2> QED
      BY <2>1, <2>3, <2>4
  <1>8. resolved' = Cardinality(Layered')
    <2>1. IsFiniteSet(Layered) /\ IsFiniteSet(current)
      BY <1>1, <1>4, NodesAssumption, FS_Subset
    <2>2. Cardinality(Layered) \in Nat /\ Cardinality(current) \in Nat
      BY <2>1, FS_CardinalityType
    <2>3. Cardinality(Layered \cup current)
            = Cardinality(Layered) + Cardinality(current) - Cardinality(Layered \cap current)
      BY <2>1, FS_Union
    <2>4. Cardinality(Layered \cap current) = 0
      BY <1>4, FS_EmptySet
    <2>5. Cardinality(Layered') = Cardinality(Layered) + Cardinality(current)
      BY <1>3, <2>2, <2>3, <2>4
    <2> QED
      BY <2>5 DEF Layer, LayersInvariant, CountsAgree
  <1>9. LayersTypeOK'
    <2>1. remaining' = CountOff /\ CountOff \in [Nodes -> Nat]
      BY <1>5 DEF Layer, CountOff
    <2>2. Cardinality(current) \in Nat
      BY <1>1, NodesAssumption, FS_Subset, FS_CardinalityType
    <2>3. current' \subseteq Nodes
      BY DEF Layer, NextLayer
    <2> QED
      BY <1>1, <1>2, <2>1, <2>2, <2>3 DEF Layer, LayersTypeOK
  <1>10. CountsAgree'
    <2>1. \A t \in Nodes : remaining'[t] = Cardinality(Predecessors(graph, t) \ Layered')
      BY <1>5 DEF Layer
    <2>2. \A t \in Nodes : remaining'[t] = Cardinality(Predecessors(graph', t) \ Layered')
      BY <1>2, <2>1
    <2> QED
      BY <1>7, <1>8, <2>2 DEF CountsAgree
  <1>11. ASSUME NEW i \in 1 .. n + 1, NEW s \in layers'[i]
         PROVE  /\ \A p \in Pred(s) : \E j \in 1 .. i - 1 : p \in layers'[j]
                /\ i > 1 => \E p \in Pred(s) : p \in layers'[i - 1]
    <2>1. CASE i = n + 1
      <3>1. s \in current /\ Pred(s) \subseteq Layered
        BY <1>1, <1>2, <2>1, <1>11 DEF Due
      <3>2. \A p \in Pred(s) : \E j \in 1 .. n : p \in layers[j]
        BY <1>1, <3>1 DEF Layered
      <3>3. i - 1 = n
        BY <1>1, <2>1
      <3>4. i > 1 => n \in 1 .. n /\ layers /= <<>>
        BY <1>1, <2>1
      <3>5. i > 1 => \E p \in Pred(s) : p \in layers[n]
        BY <3>1, <3>4 DEF LayersInvariant, LayersInOrder
      <3> QED
        BY <1>2, <3>2, <3>3, <3>4, <3>5
    <2>2. CASE i \in 1 .. n
      <3>1. s \in layers[i]
        BY <1>2, <1>11, <2>2
      <3>2. /\ \A p \in Pred(s) : \E j \in 1 .. i - 1 : p \in layers[j]
            /\ i > 1 => \E p \in Pred(s) : p \in layers[i - 1]
        BY <1>1, <2>2, <3>1 DEF LayersRespectDependencies
      <3>3. \A j \in 1 .. i - 1 : layers'[j] = layers[j]
        BY <1>1, <1>2, <2>2
      <3>4. i > 1 => i - 1 \in 1 .. i - 1
        BY <1>1, <2>2
      <3> QED
        BY <3>2, <3>3, <3>4
    <2> QED
      BY <1>1, <2>1, <2>2
  <1>12. LayersRespectDependencies'
    BY <1>2, <1>11 DEF LayersRespectDependencies
  <1>13. (\A i, j \in DOMAIN layers : \A s \in layers[i] \cap layers[j] : i = j)'
    <2> SUFFICES ASSUME NEW i \in 1 .. n + 1, NEW j \in 1 .. n + 1,
                        NEW s \in layers'[i] \cap layers'[j]
                 PROVE  i = j
      BY <1>2
    <2>1. \A k \in 1 .. n : layers'[k] \cap current = {}
      BY <1>1, <1>2, <1>4 DEF Layered
    <2>2. \A k, l \in 1 .. n : \A x \in layers[k] \cap layers[l] : k = l
      BY <1>1 DEF LayersInvariant, LayersInOrder
    <2>3. (i \in 1 .. n \/ i = n + 1) /\ (j \in 1 .. n \/ j = n + 1)
      BY <1>1
    <2> QED
      BY <1>2, <2>1, <2>2, <2>3
  <1>14. ASSUME NEW t \in current' PROVE \E p \in Pred(t) : p \in layers'[n + 1]
    BY <1>2, <1>3, <1>6, <1>14 DEF Layer, NextLayer
  <1>15. LayersInOrder'
    BY <1>2, <1>12, <1>13, <1>14 DEF LayersInOrder
  <1>16. QED
    BY <1>9, <1>10, <1>15 DEF LayersInvariant

\* A graph whose steps are all in layers has no cycle: what depends on a step
\* is in a later layer.
LEMMA LayersHaveNoCycle ==
    ASSUME LayersInvariant, Layered = Nodes
    PROVE  Acyclic(graph)
  <1>1. DOMAIN graph = Nodes /\ DOMAIN layers \subseteq Int
    BY DEF LayersInvariant, LayersTypeOK, Graphs
  <1> SUFFICES ASSUME NEW s \in Nodes PROVE s \notin DependentsOf(graph, s)
    BY <1>1 DEF Acyclic
  <1>2. PICK i \in DOMAIN layers : s \in layers[i]
    BY DEF Layered
  <1> DEFINE Later == {t \in Nodes : \E k \in DOMAIN layers : k > i /\ t \in layers[k]}
  <1>3. ASSUME NEW t \in Nodes, NEW k \in DOMAIN layers, t \in layers[k], k >= i,
               NEW u \in Successors(graph, t)
        PROVE  u \in Later
    <2>1. u \in Nodes /\ t \in Predecessors(graph, u)
      BY <1>1 DEF Successors
    <2>2. PICK m \in DOMAIN layers : u \in layers[m]
      BY <2>1 DEF Layered
    <2>3. PICK j \in 1 .. m - 1 : t \in layers[j]
      BY <2>1, <2>2 DEF LayersInvariant, LayersInOrder, LayersRespectDependencies
    <2>4. j \in DOMAIN layers /\ j < m
      BY <2>2, <2>3 DEF LayersInvariant, LayersTypeOK
    <2>5. j = k
      BY <1>3, <2>3, <2>4 DEF LayersInvariant, LayersInOrder
    <2> QED
      BY <1>1, <1>3, <2>1, <2>2, <2>4, <2>5
  <1>4. Successors(graph, s) \subseteq Later
    BY <1>1, <1>2, <1>3
  <1>5. DownwardClosed(graph, Later)
    BY <1>1, <1>3 DEF DownwardClosed
  <1>6. DependentsOf(graph, s) \subseteq Later
    BY <1>1, <1>4, <1>5, DependentsLeast
  <1>7. s \notin Later
    BY <1>1, <1>2 DEF LayersInvariant, LayersInOrder
  <1>8. QED
    BY <1>6, <1>7

\* When the loop ends, what is not layered is a set in which every step waits
\* for another, which an acyclic graph does not have.
LEMMA AcyclicIsLayered ==
    ASSUME LayersInvariant, LayersEnded, Acyclic(graph)
    PROVE  Layered = Nodes
  <1> DEFINE Rest == Nodes \ Layered
  <1>1. DOMAIN graph = Nodes /\ \A t \in Nodes : graph[t] \subseteq Nodes
    BY DEF LayersInvariant, LayersTypeOK, Graphs
  <1>2. Layered \subseteq Nodes
    BY LayeredClosed DEF LayersInvariant, LayersInOrder
  <1>3. \A t \in Rest : graph[t] \cap Rest /= {}
    BY <1>1 DEF LayersInvariant, CountsAgree, LayersEnded, Due, Predecessors
  <1>4. Rest = {}
    BY <1>1, <1>3, NodesAssumption, AcyclicHasFirst
  <1>5. QED
    BY <1>2, <1>4

\* The loop invariant gives what topological_layers promises.
LEMMA LayersInvariantCorrect == LayersInvariant => LayersCorrect
  <1> SUFFICES ASSUME LayersInvariant PROVE LayersCorrect
    OBVIOUS
  <1>1. Layered \subseteq Nodes /\ resolved = Cardinality(Layered)
    BY LayeredClosed DEF LayersInvariant, LayersInOrder, CountsAgree
  <1>2. Raises <=> Layered /= Nodes
    BY <1>1, NodesAssumption, FS_Subset DEF Raises
  <1>3. RaisesOnCycles
    BY <1>2, LayersHaveNoCycle, AcyclicIsLayered DEF RaisesOnCycles
  <1>4. QED
    BY <1>3 DEF LayersInvariant, LayersInOrder, LayersCorrect

\* The loop invariant of topological_layers holds for every graph.
THEOREM LayeringCorrect == Spec => []LayersInvariant
  <1>1. Init => LayersInvariant
    BY LayersStart DEF Init
  <1>2. ASSUME LayersInvariant, UNCHANGED layerVars PROVE LayersInvariant'
    BY <1>2 DEF LayersInvariant, LayersTypeOK, CountsAgree, LayersInOrder, Due, Layered,
                LayersRespectDependencies, layerVars
  <1>3. LayersInvariant /\ [Next]_vars => LayersInvariant'
    <2>1. [Next]_vars => Layer \/ UNCHANGED layerVars
      BY DEF Next, vars
    <2> QED
      BY <1>2, <2>1, LayersStep
  <1>4. QED
    BY <1>1, <1>3, PTL DEF Spec

\* On every finite graph topological_layers puts each step in the earliest
\* layer its dependencies allow, and raises ValueError exactly when the graph
\* has a cycle.
THEOREM LayersAreRight == Spec => []LayersCorrect
  BY LayeringCorrect, LayersInvariantCorrect, PTL

-----------------------------------------------------------------------------
(* detect_cycle.                                                            *)

\* The types of the depth-first search.
CycleTypeOK ==
    /\ graph \in Graphs(Nodes)
    /\ color \in [Nodes -> {"white", "grey", "black"}]
    /\ stack \in Seq(Nodes)
    /\ left \in [Nodes -> SUBSET Nodes]
    /\ cycle \in Seq(Nodes)

\* The grey steps are those on the stack, each of them once.
StackIsGrey ==
    /\ \A i \in DOMAIN stack : color[stack[i]] = "grey"
    /\ \A s \in Nodes : color[s] = "grey" => \E i \in DOMAIN stack : stack[i] = s
    /\ \A i, j \in DOMAIN stack : stack[i] = stack[j] => i = j

\* Each step on the stack depends on the one above it, and a frame has looked
\* at a dependency only if it has been cleared or is being visited.
FramesInOrder ==
    /\ \A i \in 1 .. Len(stack) - 1 : stack[i + 1] \in graph[stack[i]]
    /\ \A s \in Nodes : left[s] \subseteq graph[s]
    /\ \A s \in Nodes : color[s] = "white" => left[s] = graph[s]
    /\ Searching =>
         \A i \in DOMAIN stack : \A d \in graph[stack[i]] \ left[stack[i]] :
            color[d] = "black" \/ (i < Len(stack) /\ d = stack[i + 1])

\* A black step is on no cycle and leads to black steps only.
BlackIsCleared ==
    \A s \in Nodes : color[s] = "black" =>
        /\ \A d \in graph[s] : color[d] = "black"
        /\ s \notin DependentsOf(graph, s)

\* The invariant of the search.
CycleInvariant ==
    CycleTypeOK /\ StackIsGrey /\ FramesInOrder /\ BlackIsCleared /\ ReturnsRealCycle

\* The invariant of the search holds before the first visit.
LEMMA CycleStart == CycleInit => CycleInvariant
  <1> SUFFICES ASSUME CycleInit PROVE CycleInvariant
    OBVIOUS
  <1>1. CycleTypeOK
    BY DEF CycleInit, CycleTypeOK, Graphs
  <1>2. StackIsGrey /\ FramesInOrder
    BY DEF CycleInit, StackIsGrey, FramesInOrder
  <1>3. BlackIsCleared /\ ReturnsRealCycle
    BY DEF CycleInit, BlackIsCleared, ReturnsRealCycle, Searching
  <1>4. QED
    BY <1>1, <1>2, <1>3 DEF CycleInvariant

\* Visiting a white step, the first one or a dependency of the step on top,
\* keeps the stack a path of grey steps.
LEMMA PushKeepsPath ==
    ASSUME CycleInvariant, Searching, NEW s \in Nodes, Push(s),
           UNCHANGED <<graph, cycle>>,
           \/ stack = <<>> /\ left' = left
           \/ /\ stack /= <<>> /\ s \in left[Top]
              /\ left' = [left EXCEPT ![Top] = @ \ {s}]
    PROVE  CycleInvariant'
  <1> DEFINE n == Len(stack)
  <1>1. /\ graph \in [Nodes -> SUBSET Nodes] /\ stack \in Seq(Nodes)
        /\ color \in [Nodes -> {"white", "grey", "black"}]
        /\ left \in [Nodes -> SUBSET Nodes]
        /\ n \in Nat /\ DOMAIN stack = 1 .. n /\ \A i \in 1 .. n : stack[i] \in Nodes
    BY DEF CycleInvariant, CycleTypeOK, Graphs
  <1>2. /\ color[s] = "white" /\ color' = [color EXCEPT ![s] = "grey"]
        /\ stack' \in Seq(Nodes) /\ Len(stack') = n + 1 /\ DOMAIN stack' = 1 .. n + 1
        /\ stack'[n + 1] = s
        /\ \A i \in 1 .. n : stack'[i] = stack[i]
        /\ graph' = graph /\ cycle' = cycle
    BY <1>1 DEF Push
  <1>3. \A i \in 1 .. n : color[stack[i]] = "grey" /\ stack[i] /= s
    BY <1>1, <1>2 DEF CycleInvariant, StackIsGrey
  <1>4. stack /= <<>> => n \in 1 .. n /\ Top = stack[n] /\ Top \in Nodes /\ Top /= s
    BY <1>1, <1>3 DEF Top
  <1>5. left' \in [Nodes -> SUBSET Nodes] /\ \A t \in Nodes : left'[t] \subseteq left[t]
    BY <1>1, <1>4
  <1>6. CycleTypeOK'
    BY <1>1, <1>2, <1>5 DEF CycleInvariant, CycleTypeOK
  <1>7. StackIsGrey'
    <2>1. \A i \in 1 .. n + 1 : i \in 1 .. n \/ i = n + 1
      BY <1>1
    <2>2. \A i \in 1 .. n + 1 : color'[stack'[i]] = "grey"
      BY <1>1, <1>2, <1>3, <2>1
    <2>3. ASSUME NEW t \in Nodes, color'[t] = "grey"
          PROVE  \E i \in 1 .. n + 1 : stack'[i] = t
      <3>1. CASE t = s
        BY <1>1, <1>2, <3>1
      <3>2. CASE t /= s
        <4>1. PICK i \in 1 .. n : stack[i] = t
          BY <1>1, <1>2, <2>3, <3>2 DEF CycleInvariant, StackIsGrey
        <4> QED
          BY <1>1, <1>2, <4>1
      <3> QED
        BY <3>1, <3>2
    <2>4. ASSUME NEW i \in 1 .. n + 1, NEW j \in 1 .. n + 1, stack'[i] = stack'[j]
          PROVE  i = j
      <3>1. \A k, l \in 1 .. n : stack[k] = stack[l] => k = l
        BY <1>1 DEF CycleInvariant, StackIsGrey
      <3>2. \A k \in 1 .. n : stack'[k] = stack[k] /\ stack[k] /= s
        BY <1>2, <1>3
      <3> QED
        BY <1>2, <2>1, <2>4, <3>1, <3>2, Zenon
    <2> QED
      BY <1>2, <2>2, <2>3, <2>4 DEF StackIsGrey
  <1>8. \A i \in 1 .. n : stack'[i + 1] \in graph[stack'[i]]
    <2>1. ASSUME NEW i \in 1 .. n, i /= n PROVE stack'[i + 1] \in graph[stack'[i]]
      <3>0. n \in Nat
        BY <1>1
      <3>1. i \in 1 .. n - 1 /\ i + 1 \in 1 .. n
        BY <2>1, <3>0
      <3>2. stack'[i] = stack[i] /\ stack'[i + 1] = stack[i + 1]
        BY <1>2, <3>1
      <3> QED
        BY <3>1, <3>2 DEF CycleInvariant, FramesInOrder
    <2>2. ASSUME n \in 1 .. n PROVE stack'[n + 1] \in graph[stack'[n]]
      <3>1. stack /= <<>>
        BY <2>2
      <3> QED
        BY <1>2, <1>4, <2>2, <3>1 DEF CycleInvariant, FramesInOrder
    <2> QED
      BY <2>1, <2>2
  <1>9. ASSUME NEW t \in Nodes
        PROVE  left'[t] \subseteq graph[t] /\ (color'[t] = "white" => left'[t] = graph[t])
    <2>1. left'[t] \subseteq graph[t] /\ (color[t] = "white" => left[t] = graph[t])
      BY <1>5 DEF CycleInvariant, FramesInOrder
    <2>2. color'[t] = "white" => color[t] = "white"
      BY <1>1, <1>2
    <2>3. stack /= <<>> => color[Top] = "grey"
      BY <1>3, <1>4
    <2>4. color[t] = "white" => left'[t] = left[t]
      BY <1>1, <1>4, <2>3
    <2> QED
      BY <2>1, <2>2, <2>4
  <1>10. ASSUME NEW i \in 1 .. n + 1, NEW d \in graph[stack'[i]] \ left'[stack'[i]]
         PROVE  color'[d] = "black" \/ (i < n + 1 /\ d = stack'[i + 1])
    <2>1. CASE i = n + 1
      <3>1. left'[s] = graph[s]
        BY <1>1, <1>2, <1>4 DEF CycleInvariant, FramesInOrder
      <3> QED
        BY <1>2, <1>10, <2>1, <3>1
    <2>2. CASE i \in 1 .. n
      <3>1. stack'[i] = stack[i] /\ stack[i] \in Nodes /\ i < n + 1
        BY <1>1, <1>2, <2>2
      <3>2. CASE d \in graph[stack[i]] \ left[stack[i]]
        <4>1. color[d] = "black" \/ (i < n /\ d = stack[i + 1])
          BY <1>1, <2>2, <3>2 DEF CycleInvariant, FramesInOrder
        <4>2. color[d] = "black" => color'[d] = "black"
          BY <1>1, <1>2, <3>1, <3>2
        <4>3. i < n => stack'[i + 1] = stack[i + 1]
          BY <1>1, <1>2, <2>2
        <4> QED
          BY <3>1, <4>1, <4>2, <4>3
      <3>3. CASE d \in left[stack[i]]
        <4>1. stack /= <<>> /\ stack[i] = Top /\ d = s
          BY <1>1, <1>4, <1>10, <3>1, <3>3
        <4>2. i = n
          BY <1>1, <1>4, <2>2, <4>1 DEF CycleInvariant, StackIsGrey
        <4> QED
          BY <1>2, <3>1, <4>1, <4>2
      <3> QED
        BY <1>10, <3>1, <3>2, <3>3
    <2> QED
      BY <1>1, <2>1, <2>2
  <1>11. FramesInOrder'
    BY <1>1, <1>2, <1>8, <1>9, <1>10 DEF FramesInOrder
  <1>12. BlackIsCleared'
    <2> SUFFICES ASSUME NEW t \in Nodes, color'[t] = "black"
                 PROVE  /\ \A d \in graph[t] : color'[d] = "black"
                        /\ t \notin DependentsOf(graph, t)
      BY <1>2 DEF BlackIsCleared
    <2>1. color[t] = "black"
      BY <1>1, <1>2
    <2>2. (\A d \in graph[t] : color[d] = "black") /\ t \notin DependentsOf(graph, t)
      BY <2>1 DEF CycleInvariant, BlackIsCleared
    <2> QED
      BY <1>1, <1>2, <2>2
  <1>13. ReturnsRealCycle'
    BY <1>2 DEF ReturnsRealCycle, Searching
  <1>14. QED
    BY <1>6, <1>7, <1>11, <1>12, <1>13 DEF CycleInvariant

\* A grey dependency is on the stack, and the path from there is the cycle
\* that detect_cycle returns.
LEMMA LoopIsReal ==
    ASSUME CycleInvariant, Searching, stack /= <<>>, NEW dep \in Nodes,
           dep \in left[Top], CloseLoop(dep)
    PROVE  cycle' \in Seq(Nodes) /\ cycle' /= <<>>
           /\ Len(cycle') > 1 /\ cycle'[1] = cycle'[Len(cycle')]
           /\ \A i \in 1 .. Len(cycle') - 1 :
                /\ cycle'[i + 1] \in graph[cycle'[i]]
                /\ \A j \in 1 .. i - 1 : cycle'[i] /= cycle'[j]
  <1> DEFINE n == Len(stack)
             idx == CHOOSE i \in DOMAIN stack : stack[i] = dep
             path == SubSeq(stack, idx, n)
             m == n - idx + 1
  <1>1. /\ graph \in [Nodes -> SUBSET Nodes] /\ stack \in Seq(Nodes)
        /\ n \in Nat /\ DOMAIN stack = 1 .. n /\ \A i \in 1 .. n : stack[i] \in Nodes
    BY DEF CycleInvariant, CycleTypeOK, Graphs
  <1>2. idx \in 1 .. n /\ stack[idx] = dep
    BY <1>1 DEF CycleInvariant, StackIsGrey, CloseLoop
  <1>3. cycle' = Append(path, dep)
    BY DEF CloseLoop
  <1> HIDE DEF idx
  <1>4. /\ path \in Seq(Nodes) /\ Len(path) = m /\ m \in Nat /\ m >= 1
        /\ \A i \in 1 .. m : path[i] = stack[idx + i - 1]
    BY <1>1, <1>2, SubSeqProperties
  <1> HIDE DEF path
  <1>5. /\ cycle' \in Seq(Nodes) /\ Len(cycle') = m + 1 /\ cycle'[m + 1] = dep
        /\ \A i \in 1 .. m : cycle'[i] = stack[idx + i - 1]
    BY <1>3, <1>4
  <1>6. cycle'[1] = dep
    <2>1. 1 \in 1 .. m /\ idx + 1 - 1 = idx
      BY <1>2, <1>4
    <2> QED
      BY <1>2, <1>5, <2>1
  <1>7. ASSUME NEW i \in 1 .. m PROVE cycle'[i + 1] \in graph[cycle'[i]]
    <2>1. CASE i = m
      <3>1. idx + m - 1 = n
        BY <1>1, <1>2
      <3>2. cycle'[m] = stack[n] /\ Top = stack[n] /\ Top \in Nodes
        BY <1>1, <1>2, <1>4, <1>5, <3>1 DEF Top
      <3>3. dep \in graph[Top]
        BY <3>2 DEF CycleInvariant, FramesInOrder
      <3> QED
        BY <1>5, <2>1, <3>2, <3>3
    <2>2. CASE i /= m
      <3>1. i + 1 \in 1 .. m /\ idx + i - 1 \in 1 .. n - 1 /\ idx + (i + 1) - 1 = (idx + i - 1) + 1
        BY <1>1, <1>2, <1>4, <1>7, <2>2
      <3>2. stack[(idx + i - 1) + 1] \in graph[stack[idx + i - 1]]
        BY <3>1 DEF CycleInvariant, FramesInOrder
      <3> QED
        BY <1>5, <3>1, <3>2
    <2> QED
      BY <2>1, <2>2
  <1>8. ASSUME NEW i \in 1 .. m, NEW j \in 1 .. i - 1 PROVE cycle'[i] /= cycle'[j]
    <2>1. j \in 1 .. m /\ idx + i - 1 \in 1 .. n /\ idx + j - 1 \in 1 .. n
          /\ idx + i - 1 /= idx + j - 1
      BY <1>1, <1>2, <1>4, <1>8
    <2>2. stack[idx + i - 1] /= stack[idx + j - 1]
      BY <1>1, <2>1 DEF CycleInvariant, StackIsGrey
    <2> QED
      BY <1>5, <2>1, <2>2
  <1>9. Len(cycle') > 1 /\ Len(cycle') - 1 = m /\ cycle' /= <<>>
    BY <1>4, <1>5
  <1>10. QED
    BY <1>5, <1>6, <1>7, <1>8, <1>9

\* Looking at a dependency that is grey or black keeps the invariant.
LEMMA LookKeepsPath ==
    ASSUME CycleInvariant, Searching, stack /= <<>>, NEW dep \in Nodes, dep \in left[Top],
           left' = [left EXCEPT ![Top] = @ \ {dep}], graph' = graph,
           UNCHANGED <<color, stack>>,
           CloseLoop(dep) \/ (color[dep] = "black" /\ UNCHANGED cycle)
    PROVE  CycleInvariant'
  <1> DEFINE n == Len(stack)
  <1>1. /\ graph \in [Nodes -> SUBSET Nodes] /\ stack \in Seq(Nodes)
        /\ left \in [Nodes -> SUBSET Nodes]
        /\ n \in Nat /\ DOMAIN stack = 1 .. n /\ \A i \in 1 .. n : stack[i] \in Nodes
    BY DEF CycleInvariant, CycleTypeOK, Graphs
  <1>2. Top = stack[n] /\ Top \in Nodes /\ n \in 1 .. n /\ color[Top] = "grey"
    BY <1>1 DEF Top, CycleInvariant, StackIsGrey
  <1>3. /\ left' \in [Nodes -> SUBSET Nodes]
        /\ left'[Top] = left[Top] \ {dep}
        /\ \A t \in Nodes \ {Top} : left'[t] = left[t]
    BY <1>1, <1>2
  <1>4. cycle' \in Seq(Nodes) /\ (Searching' => color[dep] = "black" /\ cycle' = cycle)
    BY LoopIsReal DEF CycleInvariant, CycleTypeOK, Searching
  <1>5. CycleTypeOK' /\ StackIsGrey' /\ BlackIsCleared'
    BY <1>3, <1>4 DEF CycleInvariant, CycleTypeOK, StackIsGrey, BlackIsCleared
  <1>6. ReturnsRealCycle'
    <2>1. CASE CloseLoop(dep)
      BY <2>1, LoopIsReal DEF ReturnsRealCycle, Predecessors
    <2>2. CASE UNCHANGED cycle
      BY <2>2 DEF ReturnsRealCycle, Searching
    <2> QED
      BY <2>1, <2>2
  <1>7. FramesInOrder'
    <2>1. \A s \in Nodes : left'[s] \subseteq graph[s] /\ (color[s] = "white" => left'[s] = graph[s])
      BY <1>2, <1>3 DEF CycleInvariant, FramesInOrder
    <2>2. ASSUME Searching', NEW i \in 1 .. n, NEW d \in graph[stack[i]] \ left'[stack[i]]
          PROVE  color[d] = "black" \/ (i < n /\ d = stack[i + 1])
      <3>1. d \in graph[stack[i]] \ left[stack[i]] \/ d = dep
        BY <1>1, <1>3, <2>2
      <3> QED
        BY <1>1, <1>4, <2>2, <3>1 DEF CycleInvariant, FramesInOrder
    <2> QED
      BY <1>1, <2>1, <2>2 DEF CycleInvariant, FramesInOrder
  <1>8. QED
    BY <1>5, <1>6, <1>7 DEF CycleInvariant

\* A step whose dependencies are all black is on no cycle: what depends on it
\* is neither black nor the step itself.
LEMMA PoppedIsCleared ==
    ASSUME CycleInvariant, NEW s \in Nodes, color[s] /= "black",
           \A d \in graph[s] : color[d] = "black"
    PROVE  s \notin DependentsOf(graph, s)
  <1> DEFINE Open == {t \in Nodes : color[t] /= "black" /\ t /= s}
  <1>1. DOMAIN graph = Nodes
    BY DEF CycleInvariant, CycleTypeOK, Graphs
  <1>2. ASSUME NEW t \in Nodes, color[t] /= "black", NEW u \in Successors(graph, t)
        PROVE  u \in Open
    <2>1. u \in Nodes /\ t \in graph[u]
      BY <1>1 DEF Successors, Predecessors
    <2>2. color[u] /= "black"
      BY <1>2, <2>1 DEF CycleInvariant, BlackIsCleared
    <2>3. u /= s
      BY <1>2, <2>1
    <2> QED
      BY <2>1, <2>2, <2>3
  <1>3. Successors(graph, s) \subseteq Open /\ DownwardClosed(graph, Open)
    BY <1>2 DEF DownwardClosed
  <1>4. DependentsOf(graph, s) \subseteq Open
    BY <1>1, <1>3, DependentsLeast
  <1>5. QED
    BY <1>4

\* Returning from a visit keeps the invariant.
LEMMA PopKeepsPath ==
    ASSUME CycleInvariant, Pop
    PROVE  CycleInvariant'
  <1> DEFINE n == Len(stack)
  <1>1. /\ graph \in [Nodes -> SUBSET Nodes] /\ stack \in Seq(Nodes)
        /\ color \in [Nodes -> {"white", "grey", "black"}]
        /\ n \in Nat /\ DOMAIN stack = 1 .. n /\ \A i \in 1 .. n : stack[i] \in Nodes
    BY DEF CycleInvariant, CycleTypeOK, Graphs
  <1>2. Top = stack[n] /\ Top \in Nodes /\ n \in 1 .. n /\ color[Top] = "grey"
    BY <1>1 DEF Top, CycleInvariant, StackIsGrey, Pop
  <1>3. /\ Searching /\ left[Top] = {} /\ color' = [color EXCEPT ![Top] = "black"]
        /\ graph' = graph /\ left' = left /\ cycle' = cycle
    BY DEF Pop
  <1>4. /\ stack' \in Seq(Nodes) /\ Len(stack') = n - 1 /\ DOMAIN stack' = 1 .. n - 1
        /\ \A i \in 1 .. n - 1 : stack'[i] = stack[i]
    BY <1>1, <1>2, SubSeqProperties DEF Pop
  <1>5. CycleTypeOK'
    BY <1>1, <1>2, <1>3, <1>4 DEF CycleInvariant, CycleTypeOK
  <1>6. \A i \in 1 .. n - 1 : i \in 1 .. n /\ i /= n /\ stack[i] /= Top
    <2>0. n \in Nat
      BY <1>1
    <2>1. \A i \in 1 .. n - 1 : i \in 1 .. n /\ i /= n
      BY <2>0
    <2>2. \A i, j \in 1 .. n : stack[i] = stack[j] => i = j
      BY <1>1 DEF CycleInvariant, StackIsGrey
    <2> QED
      BY <1>2, <2>1, <2>2, Zenon
  <1>7. StackIsGrey'
    <2>1. ASSUME NEW i \in 1 .. n - 1 PROVE color'[stack'[i]] = "grey"
      <3>1. i \in 1 .. n /\ stack[i] /= Top /\ stack'[i] = stack[i] /\ stack[i] \in Nodes
        BY <1>1, <1>4, <1>6
      <3>2. color[stack[i]] = "grey"
        BY <1>1, <3>1 DEF CycleInvariant, StackIsGrey
      <3> QED
        BY <1>1, <1>3, <3>1, <3>2
    <2>2. ASSUME NEW s \in Nodes, color'[s] = "grey"
          PROVE  \E i \in 1 .. n - 1 : stack'[i] = s
      <3>1. s /= Top /\ color[s] = "grey"
        BY <1>1, <1>2, <1>3, <2>2
      <3>2. PICK i \in 1 .. n : stack[i] = s
        BY <1>1, <3>1 DEF CycleInvariant, StackIsGrey
      <3>3. i \in 1 .. n - 1
        BY <1>1, <1>2, <3>1, <3>2
      <3> QED
        BY <1>4, <3>2, <3>3
    <2>3. \A i, j \in 1 .. n - 1 : stack'[i] = stack'[j] => i = j
      BY <1>1, <1>4, <1>6 DEF CycleInvariant, StackIsGrey
    <2> QED
      BY <1>4, <2>1, <2>2, <2>3 DEF StackIsGrey
  <1>8. FramesInOrder'
    <2>1. \A i \in 1 .. (n - 1) - 1 : stack'[i + 1] \in graph[stack'[i]]
      <3>1. \A i \in 1 .. (n - 1) - 1 : i \in 1 .. n - 1 /\ i + 1 \in 1 .. n - 1
        BY <1>1
      <3> QED
        BY <1>4, <3>1 DEF CycleInvariant, FramesInOrder
    <2>2. \A s \in Nodes : left[s] \subseteq graph[s] /\ (color'[s] = "white" => left[s] = graph[s])
      BY <1>1, <1>2, <1>3 DEF CycleInvariant, FramesInOrder
    <2>3. ASSUME NEW i \in 1 .. n - 1, NEW d \in graph[stack'[i]] \ left[stack'[i]]
          PROVE  color'[d] = "black" \/ (i < n - 1 /\ d = stack'[i + 1])
      <3>1. d \in Nodes /\ d \in graph[stack[i]] \ left[stack[i]]
        BY <1>1, <1>4, <1>6, <2>3
      <3>2. color[d] = "black" \/ d = stack[i + 1]
        BY <1>1, <1>3, <1>6, <3>1 DEF CycleInvariant, FramesInOrder
      <3>3. color[d] = "black" => color'[d] = "black"
        BY <1>1, <1>3, <3>1
      <3>4. CASE i = n - 1
        <4>1. i + 1 = n
          BY <1>1, <3>4
        <4> QED
          BY <1>1, <1>2, <1>3, <3>2, <3>3, <4>1
      <3>5. CASE i /= n - 1
        <4>1. i < n - 1 /\ i + 1 \in 1 .. n - 1
          <5>1. n \in Nat
            BY <1>1
          <5> QED
            BY <2>3, <3>5, <5>1
        <4> QED
          BY <1>4, <3>2, <3>3, <4>1
      <3> QED
        BY <3>4, <3>5
    <2> QED
      BY <1>3, <1>4, <2>1, <2>2, <2>3 DEF FramesInOrder
  <1>9. BlackIsCleared'
    <2>1. \A d \in graph[Top] : color[d] = "black"
      BY <1>1, <1>2, <1>3 DEF CycleInvariant, FramesInOrder
    <2>2. Top \notin DependentsOf(graph, Top)
      BY <1>2, <2>1, PoppedIsCleared
    <2> SUFFICES ASSUME NEW s \in Nodes, color'[s] = "black"
                 PROVE  /\ \A d \in graph[s] : color'[d] = "black"
                        /\ s \notin DependentsOf(graph, s)
      BY <1>3 DEF BlackIsCleared
    <2>3. s = Top \/ color[s] = "black"
      BY <1>1, <1>2, <1>3
    <2>4. (\A d \in graph[s] : color[d] = "black") /\ s \notin DependentsOf(graph, s)
      BY <2>1, <2>2, <2>3 DEF CycleInvariant, BlackIsCleared
    <2> QED
      BY <1>1, <1>2, <1>3, <2>4
  <1>10. ReturnsRealCycle'
    BY <1>3 DEF ReturnsRealCycle, Searching
  <1>11. QED
    BY <1>5, <1>7, <1>8, <1>9, <1>10 DEF CycleInvariant

\* Every step of the search keeps the invariant.
LEMMA CycleStepKeeps ==
    ASSUME CycleInvariant, CycleStep
    PROVE  CycleInvariant'
  <1>1. CASE Pop
    BY <1>1, PopKeepsPath
  <1>2. ASSUME NEW s \in Nodes, Start(s) PROVE CycleInvariant'
    <2>1. Searching /\ stack = <<>> /\ Push(s) /\ UNCHANGED <<graph, left, cycle>>
      BY <1>2 DEF Start
    <2> QED
      BY <2>1, PushKeepsPath
  <1>3. ASSUME NEW s \in Nodes, Look(s) PROVE CycleInvariant'
    <2>1. /\ Searching /\ stack /= <<>> /\ s \in left[Top] /\ graph' = graph
          /\ left' = [left EXCEPT ![Top] = @ \ {s}]
      BY <1>3 DEF Look
    <2>2. CASE Push(s) /\ UNCHANGED cycle
      BY <2>1, <2>2, PushKeepsPath
    <2>3. CASE CloseLoop(s)
      <3>1. UNCHANGED <<color, stack>>
        BY <2>3 DEF CloseLoop
      <3> QED
        BY <2>1, <2>3, <3>1, LookKeepsPath
    <2>4. CASE color[s] = "black" /\ UNCHANGED <<color, stack, cycle>>
      BY <2>1, <2>4, LookKeepsPath
    <2> QED
      BY <1>3, <2>2, <2>3, <2>4 DEF Look
  <1>4. QED
    BY <1>1, <1>2, <1>3 DEF CycleStep

\* The invariant of the search gives what detect_cycle promises.
LEMMA CycleInvariantCorrect == CycleInvariant => CycleCorrect
  <1> SUFFICES ASSUME CycleInvariant PROVE CycleCorrect
    OBVIOUS
  <1>1. \A i \in DOMAIN stack : stack[i] \in Nodes
    BY DEF CycleInvariant, CycleTypeOK
  <1>2. {stack[i] : i \in DOMAIN stack} = {s \in Nodes : color[s] = "grey"}
    BY <1>1 DEF CycleInvariant, StackIsGrey
  <1>3. StackIsGreyPath
    BY <1>2 DEF CycleInvariant, FramesInOrder, StackIsGreyPath, Predecessors
  <1>4. MissesNoCycle
    BY DEF CycleInvariant, CycleTypeOK, Graphs, BlackIsCleared, MissesNoCycle, CycleEnded, Acyclic
  <1>5. QED
    BY <1>3, <1>4 DEF CycleInvariant, CycleCorrect

\* The invariant of the depth-first search holds for every graph.
THEOREM SearchCorrect == Spec => []CycleInvariant
  <1>1. Init => CycleInvariant
    BY CycleStart DEF Init
  <1>2. ASSUME CycleInvariant, UNCHANGED cycleVars PROVE CycleInvariant'
    BY <1>2 DEF CycleInvariant, CycleTypeOK, StackIsGrey, FramesInOrder, BlackIsCleared,
                ReturnsRealCycle, Searching, cycleVars
  <1>3. CycleInvariant /\ [Next]_vars => CycleInvariant'
    <2>1. [Next]_vars => CycleStep \/ UNCHANGED cycleVars
      BY DEF Next, vars
    <2> QED
      BY <1>2, <2>1, CycleStepKeeps
  <1>4. QED
    BY <1>1, <1>3, PTL DEF Spec

\* On every finite graph and in every order of visits, detect_cycle returns a
\* simple cycle of dependencies when there is one, and None only when there is
\* none.
THEOREM CyclesAreFound == Spec => []CycleCorrect
  BY SearchCorrect, CycleInvariantCorrect, PTL

\* The Planner and topological_layers agree: at the end of the calls the
\* ordering raises ValueError exactly when detect_cycle has a cycle to name.
OrderingAgreesWithSearch == CycleEnded /\ LayersEnded => (Raises <=> ~Searching)

\* The steps of the path that detect_cycle returns each depend on another one of
\* them, which rules out that the graph is acyclic.
LEMMA RealCycleIsCycle ==
    ASSUME CycleInvariant, ~Searching
    PROVE  ~Acyclic(graph)
  <1> DEFINE n == Len(cycle)
             P == {cycle[i] : i \in 1 .. n - 1}
  <1>1. /\ n \in Nat /\ n > 1 /\ cycle[1] = cycle[n]
        /\ DOMAIN graph = Nodes /\ \A i \in 1 .. n : cycle[i] \in Nodes
        /\ \A i \in 1 .. n - 1 : cycle[i + 1] \in graph[cycle[i]]
    BY DEF CycleInvariant, CycleTypeOK, ReturnsRealCycle, Graphs, Predecessors
  <1>2. 1 \in 1 .. n - 1 /\ 1 .. n - 1 \subseteq 1 .. n
    BY <1>1
  <1>3. P \subseteq Nodes /\ P /= {} /\ cycle[1] \in P
    BY <1>1, <1>2
  <1>4. ASSUME NEW p \in P PROVE graph[p] \cap P /= {}
    <2>1. PICK i \in 1 .. n - 1 : p = cycle[i]
      BY <1>4
    <2>2. i + 1 = n \/ i + 1 \in 1 .. n - 1
      BY <1>1, <2>1
    <2>3. cycle[i + 1] \in P
      BY <1>1, <1>3, <2>2
    <2> QED
      BY <1>1, <2>1, <2>3
  <1>5. QED
    BY <1>1, <1>3, <1>4, NodesAssumption, AcyclicHasFirst

\* topological_layers raises ValueError exactly when detect_cycle returns a
\* cycle for its message, on every finite graph.
THEOREM SearchAndOrderingAgree == Spec => []OrderingAgreesWithSearch
  <1>1. ASSUME LayersInvariant, CycleInvariant PROVE OrderingAgreesWithSearch
    <2>1. LayersCorrect /\ CycleCorrect
      BY <1>1, LayersInvariantCorrect, CycleInvariantCorrect
    <2>2. LayersEnded => (Raises <=> ~Acyclic(graph))
      BY <2>1 DEF LayersCorrect, RaisesOnCycles
    <2>3. CycleEnded /\ Searching => Acyclic(graph)
      BY <2>1 DEF CycleCorrect, MissesNoCycle
    <2>4. ~Searching => ~Acyclic(graph)
      BY <1>1, RealCycleIsCycle
    <2> QED
      BY <2>2, <2>3, <2>4 DEF OrderingAgreesWithSearch
  <1>2. QED
    BY <1>1, LayeringCorrect, SearchCorrect, PTL
=============================================================================
