------------------------------ MODULE DagCycle ------------------------------
(***************************************************************************)
(* Dag.detect_cycle: the depth-first search with white, grey and black      *)
(* steps, on every graph over Nodes.  The sorted orders of the code are     *)
(* left open: steps and dependencies are taken in any order.                *)
(***************************************************************************)
EXTENDS DagGraph, Sequences

VARIABLES
    color,
    stack,   \* the path of grey steps, the frames of visit
    left,    \* per step: dependencies its frame has still to look at
    cycle    \* the path returned, <<>> while none is found

cycleVars == <<graph, color, stack, left, cycle>>

CycleInit ==
    /\ graph \in Graphs(Nodes)
    /\ color = [s \in Nodes |-> "white"]
    /\ stack = <<>>
    /\ left = graph
    /\ cycle = <<>>

Top == stack[Len(stack)]
Searching == cycle = <<>>

Push(s) ==
    /\ color[s] = "white"
    /\ color' = [color EXCEPT ![s] = "grey"]
    /\ stack' = Append(stack, s)

\* The outer loop calls visit on a white step.
Start(s) ==
    /\ Searching
    /\ stack = <<>>
    /\ Push(s)
    /\ UNCHANGED <<graph, left, cycle>>

\* Mutant of CloseLoop: a grey dependency is taken for one already cleared.
CloseLoopMissed(dep) ==
    /\ color[dep] = "grey"
    /\ UNCHANGED <<color, stack, cycle>>

\* A grey dependency closes a loop: the path from its place on.
CloseLoop(dep) ==
    LET idx == CHOOSE i \in DOMAIN stack : stack[i] = dep
    IN  /\ color[dep] = "grey"
        /\ cycle' = Append(SubSeq(stack, idx, Len(stack)), dep)
        /\ UNCHANGED <<color, stack>>

\* One turn of the loop over the dependencies of the step being visited.
Look(dep) ==
    /\ Searching
    /\ stack /= <<>>
    /\ dep \in left[Top]
    /\ left' = [left EXCEPT ![Top] = @ \ {dep}]
    /\ \/ CloseLoop(dep)
       \/ Push(dep) /\ UNCHANGED cycle
       \/ color[dep] = "black" /\ UNCHANGED <<color, stack, cycle>>
    /\ UNCHANGED graph

\* visit returns None: the step is done with.
Pop ==
    /\ Searching
    /\ stack /= <<>>
    /\ left[Top] = {}
    /\ color' = [color EXCEPT ![Top] = "black"]
    /\ stack' = SubSeq(stack, 1, Len(stack) - 1)
    /\ UNCHANGED <<graph, left, cycle>>

CycleEnded ==
    \/ ~Searching
    \/ stack = <<>> /\ \A s \in Nodes : color[s] = "black"

CycleStep ==
    \/ Pop
    \/ \E s \in Nodes : Start(s) \/ Look(s)

-----------------------------------------------------------------------------
(* The parts of CycleCorrect.                                               *)

\* The stack is the path of grey steps, each one depending on the next.
StackIsGreyPath ==
    /\ {stack[i] : i \in DOMAIN stack} = {s \in Nodes : color[s] = "grey"}
    /\ \A i \in 1 .. Len(stack) - 1 : stack[i + 1] \in Predecessors(graph, stack[i])

\* What is returned is a real cycle: it closes, each step depends on the next,
\* and no step but the closing one is named twice.
ReturnsRealCycle ==
    ~Searching =>
        /\ Len(cycle) > 1
        /\ cycle[1] = cycle[Len(cycle)]
        /\ \A i \in 1 .. Len(cycle) - 1 :
             /\ cycle[i + 1] \in Predecessors(graph, cycle[i])
             /\ \A j \in 1 .. i - 1 : cycle[i] /= cycle[j]

\* None is returned only for graphs without a cycle.
MissesNoCycle == CycleEnded /\ Searching => Acyclic(graph)

\* detect_cycle returns a simple cycle exactly when the graph has one, whatever
\* the order in which it visits the steps.
CycleCorrect == StackIsGreyPath /\ ReturnsRealCycle /\ MissesNoCycle
=============================================================================
