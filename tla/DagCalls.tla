------------------------------ MODULE DagCalls ------------------------------
(***************************************************************************)
(* The three algorithms of core/dag.py called on one graph, one after the   *)
(* other: the Planner rejects the graph or not (detect_cycle), the graph is *)
(* ordered (topological_layers, which reports a failure with detect_cycle's *)
(* answer), and a failure's or rejection's reach is asked for               *)
(* (dependents_of).                                                         *)
(***************************************************************************)
EXTENDS DagDependents, DagLayers, DagCycle

vars == <<walkVars, layerVars, cycleVars>>

Init == CycleInit /\ LayersInit /\ WalkInit

Next ==
    \/ CycleStep /\ UNCHANGED <<walkVars, layerVars>>
    \/ CycleEnded /\ Layer /\ UNCHANGED <<walkVars, cycleVars>>
    \/ /\ CycleEnded /\ LayersEnded
       /\ \E s \in Nodes : Visit(s)
       /\ UNCHANGED <<layerVars, cycleVars>>
    \/ CycleEnded /\ LayersEnded /\ Returned /\ UNCHANGED vars

Spec == Init /\ [][Next]_vars
FairSpec == Spec /\ WF_vars(Next)

-----------------------------------------------------------------------------
\* Every call ends, on cyclic graphs too: a step is queued by dependents_of at
\* most once after root, visited by detect_cycle and layered at most once.
Terminates == <>(CycleEnded /\ LayersEnded /\ Returned)
=============================================================================
