--------------------------- MODULE ProviderRouter ---------------------------
(***************************************************************************)
(* ProviderRouter.select (control-plane/core/provider_router.py): the order  *)
(* in which the gateway tries the providers, from the fallback_order of a     *)
(* routing policy and a health snapshot.  A snapshot knows some providers, in *)
(* the order of its dictionary, and gives each one its availability and the   *)
(* rank of the policy's preference metric (smaller sorts earlier; equal ranks *)
(* when there is no preference).                                              *)
(***************************************************************************)
EXTENDS Naturals, Sequences, FiniteSets

CONSTANT Providers

ASSUME ProvidersAssumption == IsFiniteSet(Providers)

Among(seq) == {seq[i] : i \in DOMAIN seq}

\* A dictionary names a provider once.  One it does not name counts as
\* available, with neutral metrics.
Snapshots ==
    {h \in [known : Seq(Providers), available : SUBSET Providers, rank : [Providers -> Nat]] :
        /\ \A i, j \in DOMAIN h.known : h.known[i] = h.known[j] => i = j
        /\ Providers \ Among(h.known) \subseteq h.available
        /\ \A p, q \in Providers \ Among(h.known) : h.rank[p] = h.rank[q]}

\* fallback_order, which may name a provider twice; when it is empty, every
\* provider the snapshot knows.
Universe(fallback, h) == IF fallback # <<>> THEN fallback ELSE h.known

\* Mutant of Eligible: the universe is not de-duplicated.
EligibleTwice(u, h) == {i \in DOMAIN u : u[i] \in h.available}

\* Positions of the universe that survive the de-duplication and the health
\* filter.
Eligible(u, h) ==
    {i \in DOMAIN u : u[i] \in h.available /\ \A j \in 1..(i - 1) : u[j] # u[i]}

\* sorted(): by rank, and stable, so that ties keep the order of the universe.
SortsBefore(u, h, i, j) ==
    h.rank[u[i]] < h.rank[u[j]] \/ (h.rank[u[i]] = h.rank[u[j]] /\ i < j)

Select(fallback, h) ==
    LET u == Universe(fallback, h)
        E == Eligible(u, h)
        Nth(n) == CHOOSE i \in E :
                      Cardinality({j \in E : SortsBefore(u, h, j, i)}) = n - 1
    IN  [n \in 1..Cardinality(E) |-> u[Nth(n)]]

\* What select promises: every available provider the policy names, or, when it
\* names none, the snapshot knows, once; a better rank never after a worse one,
\* and of two equal ones the one named first.
WellRouted(fallback, h, candidates) ==
    /\ Among(candidates) =
         h.available \cap Among(IF fallback = <<>> THEN h.known ELSE fallback)
    /\ \A m, n \in DOMAIN candidates :
         LET p == candidates[m]
             q == candidates[n]
             u == Universe(fallback, h)
         IN  m < n => /\ p # q /\ h.rank[p] <= h.rank[q]
                      /\ h.rank[p] = h.rank[q] =>
                           \A j \in DOMAIN u : u[j] = q => \E i \in 1..(j - 1) : u[i] = p
=============================================================================
