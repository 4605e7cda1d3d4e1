---------------------------- MODULE DagDependents ----------------------------
(***************************************************************************)
(* The worklist of Dag.dependents_of, which ApprovalManager.                *)
(* _transitive_dependents repeats over the persisted rows.  The step asked  *)
(* about is chosen by WalkInit.  The order in which steps leave the         *)
(* frontier is left open.                                                   *)
(***************************************************************************)
EXTENDS DagGraph

VARIABLES
    root,       \* the step_id argument
    frontier,   \* steps whose dependents have not been looked at
    result      \* the dependents found so far

walkVars == <<graph, root, frontier, result>>

WalkInit ==
    /\ graph \in Graphs(Nodes)
    /\ root \in Nodes
    /\ frontier = {root}
    /\ result = {}

\* Mutant of Visit: the steps already queued are dropped from the frontier.
VisitDropsQueue(s) ==
    LET found == Successors(graph, s) \ result
    IN  /\ s \in frontier
        /\ result' = result \cup found
        /\ frontier' = found
        /\ UNCHANGED <<graph, root>>

\* Mutant of Visit: dependents met before are queued again.
VisitRequeues(s) ==
    /\ s \in frontier
    /\ result' = result \cup Successors(graph, s)
    /\ frontier' = (frontier \ {s}) \cup Successors(graph, s)
    /\ UNCHANGED <<graph, root>>

\* One turn of the while loop: a dependent not met before is recorded and
\* queued.
Visit(s) ==
    LET found == Successors(graph, s) \ result
    IN  /\ s \in frontier
        /\ result' = result \cup found
        /\ frontier' = (frontier \ {s}) \cup found
        /\ UNCHANGED <<graph, root>>

Returned == frontier = {}

WalkNext ==
    \/ \E s \in Nodes : Visit(s)
    \/ Returned /\ UNCHANGED walkVars

WalkSpec == WalkInit /\ [][WalkNext]_walkVars

-----------------------------------------------------------------------------
\* The graph is a graph over Nodes and the two collections hold its steps.
WalkTypeOK ==
    /\ graph \in Graphs(Nodes)
    /\ root \in Nodes
    /\ frontier \subseteq Nodes
    /\ result \subseteq Nodes

\* Nothing is collected that is not downstream of root, every queued step is
\* root or a collected one, and only the frontier's dependents may be missing.
WalkInvariant ==
    /\ frontier \subseteq result \cup {root}
    /\ result \subseteq DependentsOf(graph, root)
    /\ \A t \in (result \cup {root}) \ frontier : Successors(graph, t) \subseteq result

\* When the loop ends, the set returned by dependents_of is exactly the set of
\* steps downstream of root, on every graph, cyclic or not.
ReturnsDependents == Returned => result = DependentsOf(graph, root)
=============================================================================
