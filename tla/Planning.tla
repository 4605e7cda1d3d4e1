------------------------------ MODULE Planning -----------------------------
(***************************************************************************)
(* From a posted workflow to the graph a run executes: the Planner         *)
(* (core/planner.py) analyses the definition, the serializer               *)
(* (core/workflow_serializer.py) stores it canonically, and the executor   *)
(* (core/dag_executor.py) rebuilds a graph from what is stored, by other   *)
(* code and with other tolerances, once for the step rows of a run and     *)
(* once more from these rows.  The catalogues of agents and tools change   *)
(* between the steps.                                                      *)
(*                                                                         *)
(* A posted step is a record whose fields may be ill-typed: shape "other"  *)
(* is no object; id and type "bad" are missing, empty or no string; config *)
(* is "not_object", "empty", "ref" (a reference to an agent or a tool) or  *)
(* "bad_input" (an undeclared input); deps is the set of its dependsOn,    *)
(* where "empty" is the empty string and "number" no string, or listed is  *)
(* FALSE when it is no list.                                               *)
(***************************************************************************)
EXTENDS Dag, Sequences

CONSTANTS
    StepIds,      \* ids that steps carry
    DepSets,      \* sets of StepIds and "ghost", "empty", "number"
    MaxSteps,     \* steps of a posted definition
    Template      \* the definition of a template of the catalogue

\* Steps are listed, and an id that is the empty string is a "bad" one.
ASSUME PlanningAssumption ==
    /\ "empty" \notin StepIds
    /\ Len(Template) \in Nat /\ DOMAIN Template = 1 .. Len(Template)
    /\ \A i \in DOMAIN Template : Template[i].id /= "empty"

VARIABLES
    posted,      \* the definition of the request: sequence of posted steps
    catalogued,  \* kinds ("agent", "tool") whose referenced entry exists
    planning,    \* "posted", "planned", "stored", "rejected"
    planned,     \* graph the Planner compiled: step -> its dependencies
    definition,  \* workflow_definitions row: canonical steps
    stepRows     \* workflow_steps rows of a run: step -> dependencies as stored

planningVars == <<posted, catalogued, planning, planned, definition, stepRows>>

Step(id, type, config, listed, deps) ==
    [shape |-> "object", id |-> id, type |-> type, config |-> config,
     listed |-> listed, deps |-> deps]

\* A step that _analyze skips is skipped for its first defect only, so one of
\* each kind is enough.
PostedSteps ==
    {[Step("bad", "bad", "empty", TRUE, {}) EXCEPT !.shape = "other"],
     Step("bad", "agent", "empty", TRUE, {})}
    \cup {Step(id, "bad", "empty", TRUE, {}) : id \in StepIds}
    \cup {Step(id, type, config, TRUE, deps) :
            id \in StepIds, type \in {"agent", "tool"}, deps \in DepSets,
            config \in {"not_object", "empty", "ref", "bad_input"}}
    \cup {Step(id, "agent", "ref", FALSE, {}) : id \in StepIds}

PlanningInit ==
    /\ posted \in UNION {[1 .. n -> PostedSteps] : n \in 0 .. MaxSteps}
    /\ catalogued \in {{}, {"agent", "tool"}}
    /\ planning = "posted"
    /\ planned = << >> /\ definition = << >> /\ stepRows = << >>

\* _string_tuple
StringTuple(step) == IF step.listed THEN step.deps \ {"empty", "number"} ELSE {}

IsWellFormed(step) == step.shape = "object" /\ step.id /= "bad" /\ step.type /= "bad"

\* The positions of the steps that become nodes: well formed, and the first
\* with their id.
NodePositions(steps) ==
    {i \in DOMAIN steps :
        IsWellFormed(steps[i])
        /\ \A j \in 1 .. i - 1 : IsWellFormed(steps[j]) => steps[j].id /= steps[i].id}

\* Mutant of Nodes: only dependencies on steps that come earlier are compiled.
EarlierOnly(steps) ==
    [id \in {steps[i].id : i \in NodePositions(steps)} |->
        LET i == CHOOSE i \in NodePositions(steps) : steps[i].id = id IN
        StringTuple(steps[i]) \cap {steps[j].id : j \in 1 .. i - 1}]

\* The nodes, with the dependencies they name.
Nodes(steps) ==
    [id \in {steps[i].id : i \in NodePositions(steps)} |->
        StringTuple(steps[CHOOSE i \in NodePositions(steps) : steps[i].id = id])]

\* The edges: dependencies that are nodes.
KnownDeps(deps) == [s \in DOMAIN deps |-> deps[s] \cap DOMAIN deps]

\* _analyze: structural problems, then dangling dependencies and references of
\* the nodes, then a cycle (found by detect_cycle, which DagCycle covers).
Problems(steps) ==
    LET nodes == Nodes(steps) IN
    {"structure" : i \in DOMAIN steps \ NodePositions(steps)}
    \cup {"missing_dependency" : s \in {s \in DOMAIN nodes : ~(nodes[s] \subseteq DOMAIN nodes)}}
    \cup {"missing_reference" : i \in {i \in NodePositions(steps) :
              steps[i].config = "ref" /\ steps[i].type \notin catalogued}}
    \cup {"missing_input" : i \in {i \in NodePositions(steps) : steps[i].config = "bad_input"}}
    \cup {"cycle" : x \in {x \in {1} : ~Acyclic(KnownDeps(nodes))}}

\* instantiate_workflow_template: the template's steps, unless overridden.
InstantiateTemplate ==
    /\ planning = "posted" /\ posted = << >>
    /\ posted' = Template
    /\ UNCHANGED <<catalogued, planning, planned, definition, stepRows>>

\* _compile_or_raise: any problem rejects the request.
CompileOrRaise ==
    /\ planning = "posted"
    /\ IF Problems(posted) = {}
       THEN planning' = "planned" /\ planned' = KnownDeps(Nodes(posted))
       ELSE planning' = "rejected" /\ UNCHANGED planned
    /\ UNCHANGED <<posted, catalogued, definition, stepRows>>

\* What the serializer does not tolerate.
SerializationFails(step) ==
    \/ step.shape = "other" \/ step.config = "not_object"
    \/ ~step.listed \/ "number" \in step.deps

\* _persist_workflow: the canonical steps are stored, or the serializer raises
\* and nothing is.
PersistWorkflow ==
    /\ planning = "planned"
    /\ IF \E i \in DOMAIN posted : SerializationFails(posted[i])
       THEN planning' = "rejected" /\ UNCHANGED definition
       ELSE /\ planning' = "stored"
            /\ definition' = [i \in DOMAIN posted |->
                    [id |-> posted[i].id, type |-> posted[i].type, dependsOn |-> posted[i].deps]]
    /\ UNCHANGED <<posted, catalogued, planned, stepRows>>

\* start_run: _dag_from_definition (the last step with an id wins) and the rows.
StartRun ==
    /\ planning = "stored" /\ stepRows = << >>
    /\ stepRows' = [id \in {definition[i].id : i \in DOMAIN definition} |->
            definition[CHOOSE i \in DOMAIN definition :
                /\ definition[i].id = id
                /\ \A j \in DOMAIN definition : definition[j].id = id => j <= i].dependsOn]
    /\ UNCHANGED <<posted, catalogued, planning, planned, definition>>

\* An agent is saved or deleted, a tool registered.
CatalogueChanges ==
    /\ \E kind \in {"agent", "tool"} :
        \/ kind \notin catalogued /\ catalogued' = catalogued \cup {kind}
        \/ kind = "agent" /\ kind \in catalogued /\ catalogued' = catalogued \ {kind}
    /\ UNCHANGED <<posted, planning, planned, definition, stepRows>>

PlanningNext ==
    InstantiateTemplate \/ CompileOrRaise \/ PersistWorkflow \/ StartRun \/ CatalogueChanges

\* The graph of the run, as execute_run rebuilds it (_load_dag).
LoadDag == KnownDeps(stepRows)

(***************************************************************************)
(* Properties                                                              *)
(***************************************************************************)

\* What a run executes is what the Planner accepted: the same steps with the
\* same dependencies, none of them dangling, in a graph without a cycle; and a
\* request that was refused, by the Planner or by the serializer, has stored
\* nothing (planner.py build_dag, dag_executor.py _load_dag).
PlannedGraphRuns ==
    /\ planning = "rejected" => definition = << >> /\ stepRows = << >>
    /\ stepRows /= << >> =>
        /\ LoadDag = planned
        /\ \A s \in DOMAIN stepRows : stepRows[s] \subseteq DOMAIN stepRows \cup {"empty"}
        /\ Acyclic(LoadDag)
=============================================================================
