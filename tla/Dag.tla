-------------------------------- MODULE Dag --------------------------------
(***************************************************************************)
(* The compiled workflow graph (control-plane/core/dag.py).  A node's       *)
(* declared dependencies are the authoritative edges, so a graph g is the   *)
(* function from its step ids to the sets of ids they depend on.  The       *)
(* Planner rejects references to unknown steps, and _predecessors drops     *)
(* them in any case.                                                        *)
(***************************************************************************)
EXTENDS Naturals, FiniteSets

Graphs(N) == [N -> SUBSET N]

\* Dag._predecessors and Dag._successors.
Predecessors(g, s) == g[s]
Successors(g, s) == {t \in DOMAIN g : s \in Predecessors(g, t)}

\* A set that contains the direct dependents of each of its members.
DownwardClosed(g, C) == \A s \in C : Successors(g, s) \subseteq C

(***************************************************************************)
(* Dag.dependents_of and ApprovalManager._transitive_dependents: every step *)
(* downstream of s.  Both walk successor edges from s with a worklist; what *)
(* the walk collects is the least set that contains s's direct dependents   *)
(* and the direct dependents of its own members.  DagDependents shows that  *)
(* the worklist computes this set.                                          *)
(***************************************************************************)
DependentsOf(g, s) ==
    {t \in DOMAIN g : \A C \in SUBSET DOMAIN g :
        (Successors(g, s) \subseteq C /\ DownwardClosed(g, C)) => t \in C}

\* A cycle is a step that is downstream of itself.
Acyclic(g) == \A s \in DOMAIN g : s \notin DependentsOf(g, s)
=============================================================================
