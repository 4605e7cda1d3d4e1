------------------------------ MODULE DagGraph ------------------------------
(***************************************************************************)
(* The graph the algorithms of core/dag.py work on.  It is chosen by Init   *)
(* and never changes, so that one run of TLC covers every graph over Nodes, *)
(* the cyclic ones included.                                                *)
(***************************************************************************)
EXTENDS Dag

CONSTANT Nodes   \* the step ids graphs are built from

ASSUME NodesAssumption == IsFiniteSet(Nodes)

VARIABLE graph   \* Dag.nodes with their depends_on
=============================================================================
