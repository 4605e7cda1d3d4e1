----------------------------- MODULE ModelUsage -----------------------------
(***************************************************************************)
(* Model calls and subagents of one run, which share its persisted budget:   *)
(* the gateway checks and charges it under the tracker's lock, the subagent  *)
(* manager adds to it without any.                                           *)
(***************************************************************************)
EXTENDS InferenceGateway, Subagents

gatewayOnly == <<parts, lock, refused, skips, charged, limiter, pools, cache, left, at,
                 local>>
vars == <<gatewayVars, subVars>>

Init ==
    /\ GatewayInit
    /\ SubInit
    /\ "subagents" \notin parts => \A a \in Agents : sub[a] = "done"

Next ==
    \/ GatewayNext /\ UNCHANGED subVars
    \/ SubNext /\ UNCHANGED gatewayOnly

Spec == Init /\ [][Next]_vars

\* Every thread goes on when it can, and time passes.  A provider and a runner
\* answer in the end, if only with an error; nobody has to make a call.
FairSpec ==
    /\ Spec
    /\ \A c \in Callers : WF_vars(Proceed(c) /\ UNCHANGED subVars)
    /\ \A a \in Agents : WF_vars(SubStep(a) /\ UNCHANGED gatewayOnly)
    /\ WF_vars(Tick /\ UNCHANGED subVars)

-----------------------------------------------------------------------------
InFlight == {c \in Callers : at[c] \in Unpaid}

TypeOK ==
    /\ used \in Nat /\ charged \in Nat /\ skips \in Nat /\ ledger \in Nat
    /\ lock \in Callers \cup {None}
    /\ refused \subseteq 0..MaxUsage
    /\ request \in [Callers -> Requests]
    /\ parts \subseteq Parts
    /\ at \in [Callers -> Points]
    /\ loaded \in [Callers -> Nat]
    /\ sub \in [Agents -> SubPoints]
    /\ tokens \in [Agents -> Nat]
    /\ got \in [Agents -> Nat]

\* charge is a critical section: while a call is between loading and storing
\* the budget it holds the lock, and, until a subagent has recorded usage, what
\* it loaded is what the row still says.
ChargeExclusive ==
    /\ \A c \in Callers : at[c] = "store" <=> lock = c
    /\ ledger = 0 => \A c \in Callers : at[c] = "store" => loaded[c] = used

\* No subagent touches the row before its usage is in the ledger.
LedgerFirst == ledger = 0 => \A a \in Agents : sub[a] \notin {"read", "write"}

\* The budget of a run can be overrun, because a call is checked before it is
\* made and charged when it is over, but by no more than the calls that were in
\* flight and those that were let through without a check: at any time the
\* tokens charged and those the calls in flight may still cost stay within the
\* budget plus one call per thread and per check that failed open.
OverrunBounded ==
    "budgets" \in parts /\ ledger = 0 =>
        used + MaxUsage * Cardinality(InFlight)
          <= MaxTokens + MaxUsage * (Cardinality(Callers) + skips)

\* The parts above are inductive together.
UsageInvariant == TypeOK /\ ChargeExclusive /\ LedgerFirst /\ OverrunBounded

\* The row never says more than was used, and, until a subagent has recorded
\* usage, exactly what the gateway has charged: concurrent charges do not lose
\* each other's update.  A run is marked budget_exceeded only by a call that would
\* exceed the budget, and from then on every call estimated as high is blocked
\* too; one with a smaller estimate still passes.
UsageAccounted ==
    /\ used <= charged + ledger
    /\ ledger = 0 => used = charged
    /\ ledger = 0 => \A e \in refused : WouldExceed(e)

\* At most max_calls calls are admitted to a provider in any window, and a call
\* invokes a provider on one admission at most max_retries + 1 times, plus once
\* for each reference of its pool: a rejected grant costs no attempt, but the
\* caller never gets it again, whoever quarantines what meanwhile.  Subagents
\* keep to their slots beside the calls (SlotsKept).
LimitsKept ==
    /\ SlotsKept
    /\ \A p \in Providers : Len(admitted[p]) <= MaxCalls
    /\ \A c \in Callers : /\ attempts[c] <= MaxRetries + 1
                          /\ rejected[c] <= Cardinality(Refs)

\* Successive acquisitions rotate: a caller gets the reference that was chosen
\* last only when every other one is quarantined.
GrantsRotate ==
    [][\A c \in Callers :
         at[c] = "grant" /\ at'[c] = "invoke" =>
            LET p == Current(c)
            IN  grant'[c] = lastRef[p] =>
                  \A i \in DOMAIN Pool[p] :
                      Pool[p][i] \in quarantined[p] \cup {lastRef[p]}]_vars

\* Rejected grants are kept for review, every one of them, and have no session in
\* the cache any more, although another caller may still be using one.
QuarantineHolds ==
    \A p \in Providers :
        /\ granted[p] \cap quarantined[p] = {}
        /\ \A ref \in Refs : ref \in quarantined[p]
                               <=> \E i \in DOMAIN qlog : qlog[i] = <<p, ref>>

\* _store and _order name the same keys, each once, within the bound, although
\* two calls may miss the same key and both store it.
CacheConsistent ==
    /\ store = {order[i] : i \in DOMAIN order}
    /\ Cardinality(store) = Len(order)
    /\ MaxEntries > 0 => Len(order) <= MaxEntries

\* A routed call walks every available provider of its policy, or of the snapshot
\* when the policy names none, once, best first, with ties in the order of the
\* policy or the snapshot.
CallsWellRouted ==
    \A c \in Callers :
        at[c] \in Unpaid \ {"route"} =>
            WellRouted(request[c].fallback, health[c], candidates[c])

\* Every call ends, with a response or an error: retries, fallbacks, rejected
\* grants and rate-limit delays are all finite.  Every spawn ends: a subagent
\* that raises gives its slot to a waiting one.
AllEnd ==
    /\ \A c \in Callers : at[c] # "idle" ~> at[c] = "idle"
    /\ \A a \in Agents : sub[a] = "queued" ~> sub[a] = "done"
=============================================================================
