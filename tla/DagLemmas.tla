----------------------------- MODULE DagLemmas -----------------------------
(***************************************************************************)
(* Facts about the graph operators of Dag, for every graph.                 *)
(***************************************************************************)
EXTENDS Dag, FiniteSetTheorems, TLAPS

\* The steps downstream of s contain its direct dependents, are steps of the
\* graph and are closed under taking direct dependents (what dependents_of and
\* retry_run rely on).
LEMMA DependentsClosed ==
    ASSUME NEW g, NEW s
    PROVE  /\ DependentsOf(g, s) \subseteq DOMAIN g
           /\ Successors(g, s) \subseteq DependentsOf(g, s)
           /\ DownwardClosed(g, DependentsOf(g, s))
  <1>1. DependentsOf(g, s) \subseteq DOMAIN g
    BY DEF DependentsOf
  <1>2. \A t : Successors(g, t) \subseteq DOMAIN g
    BY DEF Successors
  <1>3. Successors(g, s) \subseteq DependentsOf(g, s)
    BY <1>2 DEF DependentsOf
  <1>4. DownwardClosed(g, DependentsOf(g, s))
    BY <1>2 DEF DependentsOf, DownwardClosed
  <1>5. QED
    BY <1>1, <1>3, <1>4

\* DependentsOf is the least set of the graph's steps with these properties.
LEMMA DependentsLeast ==
    ASSUME NEW g, NEW s, NEW C \in SUBSET DOMAIN g,
           Successors(g, s) \subseteq C, DownwardClosed(g, C)
    PROVE  DependentsOf(g, s) \subseteq C
  BY DEF DependentsOf

\* In an acyclic graph what depends on a step depends on its dependencies too,
\* and a dependency has the step itself in addition.
LEMMA DependencyHasMoreDependents ==
    ASSUME NEW g, Acyclic(g), NEW p \in DOMAIN g, NEW d \in g[p] \cap DOMAIN g
    PROVE  /\ DependentsOf(g, p) \subseteq DependentsOf(g, d)
           /\ p \in DependentsOf(g, d) /\ p \notin DependentsOf(g, p)
  <1>1. p \in Successors(g, d)
    BY DEF Successors, Predecessors
  <1>2. p \in DependentsOf(g, d)
    BY <1>1, DependentsClosed
  <1>3. Successors(g, p) \subseteq DependentsOf(g, d)
    BY <1>2, DependentsClosed DEF DownwardClosed
  <1>4. DependentsOf(g, p) \subseteq DependentsOf(g, d)
    BY <1>3, DependentsClosed, DependentsLeast
  <1>5. QED
    BY <1>2, <1>4 DEF Acyclic

\* Every nonempty set of steps of a finite acyclic graph has a member that
\* depends on no other member: the scheduler always finds a step to look at.
LEMMA AcyclicHasFirst ==
    ASSUME NEW g, IsFiniteSet(DOMAIN g), Acyclic(g),
           NEW P \in SUBSET DOMAIN g, P /= {}
    PROVE  \E p \in P : g[p] \cap P = {}
  <1> DEFINE N == DOMAIN g
             Rest(p) == N \ DependentsOf(g, p)
             T == {Rest(p) : p \in P}
  <1>1. T \subseteq FiniteSubsetsOf(N) /\ T /= {}
    <2>1. \A p \in P : Rest(p) \subseteq N /\ IsFiniteSet(Rest(p))
      BY FS_Subset
    <2>2. QED
      BY <2>1 DEF FiniteSubsetsOf
  <1>2. PICK x \in T : \A y \in T : ~(<<y, x>> \in StrictSubsetOrdering(N))
    BY <1>1, FS_StrictSubsetOrderingWellFounded, WFMin
  <1>3. PICK p \in P : x = Rest(p)
    BY <1>2
  <1>4. ASSUME NEW d \in g[p] \cap P PROVE FALSE
    <2>1. Rest(d) \subseteq Rest(p) /\ p \in Rest(p) /\ p \notin Rest(d)
      BY <1>4, DependencyHasMoreDependents
    <2>2. Rest(d) \in T /\ Rest(d) \in SUBSET N /\ Rest(p) \in SUBSET N /\ Rest(d) /= Rest(p)
      BY <1>4, <2>1
    <2>3. <<Rest(d), Rest(p)>> \in StrictSubsetOrdering(N)
      BY <2>1, <2>2 DEF StrictSubsetOrdering
    <2>4. QED
      BY <1>2, <1>3, <2>2, <2>3
  <1>5. QED
    BY <1>4
=============================================================================
