------------------------------ MODULE DagLayers ------------------------------
(***************************************************************************)
(* Dag.topological_layers: Kahn's algorithm, one turn of its while loop per *)
(* step, on every graph over Nodes.                                         *)
(***************************************************************************)
EXTENDS DagGraph, Sequences

VARIABLES
    remaining,   \* per step: dependencies not yet in a layer
    layers,      \* the layers so far; a layer is a set, its order is cosmetic
    current,     \* the next layer
    resolved     \* number of steps in layers

layerVars == <<graph, remaining, layers, current, resolved>>

\* remaining before the loop: the number of dependencies.
InDegree(g) == [s \in Nodes |-> Cardinality(Predecessors(g, s))]

LayersInit ==
    /\ graph \in Graphs(Nodes)
    /\ remaining = InDegree(graph)
    /\ layers = <<>>
    /\ current = {s \in Nodes : remaining[s] = 0}
    /\ resolved = 0

\* Mutant of CountOff: one decrement per layer instead of one per dependency.
CountOffOnce ==
    [t \in Nodes |->
        IF Predecessors(graph, t) \cap current = {} THEN remaining[t]
        ELSE remaining[t] - 1]

\* remaining after every step of the current layer has been counted off.
CountOff ==
    [t \in Nodes |->
        remaining[t] - Cardinality(Predecessors(graph, t) \cap current)]

\* The steps whose last dependency is in the current layer.
NextLayer == {t \in Nodes : remaining[t] > 0 /\ CountOff[t] = 0}

Layer ==
    /\ current /= {}
    /\ layers' = Append(layers, current)
    /\ resolved' = resolved + Cardinality(current)
    /\ remaining' = CountOff
    /\ current' = NextLayer
    /\ UNCHANGED graph

\* The end of the loop: all steps layered, or ValueError for a cycle.
LayersEnded == current = {}
Raises == resolved /= Cardinality(Nodes)

-----------------------------------------------------------------------------
Layered == UNION {layers[i] : i \in DOMAIN layers}

(* The parts of LayersCorrect.                                              *)

\* No step is in a layer before all its dependencies are in earlier ones, and
\* none later than necessary: a step below the first layer has a dependency in
\* the layer just above it.
LayersRespectDependencies ==
    \A i \in DOMAIN layers : \A s \in layers[i] :
        /\ \A p \in Predecessors(graph, s) : \E j \in 1 .. i - 1 : p \in layers[j]
        /\ i > 1 => \E p \in Predecessors(graph, s) : p \in layers[i - 1]

\* The ValueError is raised exactly on the graphs that have a cycle; on all
\* others every step is in a layer.
RaisesOnCycles ==
    LayersEnded =>
        /\ Raises <=> ~Acyclic(graph)
        /\ Acyclic(graph) => Layered = Nodes

\* topological_layers returns the layers of the graph, as early as possible and
\* complete, or raises because there are none.
LayersCorrect == LayersRespectDependencies /\ RaisesOnCycles
=============================================================================
