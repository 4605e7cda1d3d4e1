-------------------------- MODULE InferenceGateway --------------------------
(***************************************************************************)
(* InferenceGateway.call (control-plane/core/inference_gateway.py) made by    *)
(* several threads for one run: prompt cache, budget check, routing, rate     *)
(* limit, credential pool, provider call with retries and fallbacks, budget   *)
(* charge.  One action is one critical section of BudgetTracker, RateLimiter, *)
(* CredentialPoolManager or PromptCache, or one answer of a provider; the     *)
(* charge is two, because subagents write the same row without the tracker's  *)
(* lock.  Events are left out, and so are backoff and rate-limit sleeps: a    *)
(* caller that sleeps is one that does not take its next step yet.            *)
(***************************************************************************)
EXTENDS RunBudget, ProviderRouter

CONSTANTS
    Callers,      \* threads calling the gateway
    Setups,       \* optional parts configured, and bound on each thread's calls
    Fallbacks,    \* per thread: fallback_order of the policies it may call with
    Healths,      \* snapshots the health provider may return
    Keys,         \* non-empty cache keys
    MaxEntries,   \* max_entries of the prompt cache
    Pool,         \* secret references per provider; <<>> without a pool
    MaxRetries,   \* max_retries of the policy
    MaxCalls,     \* max_calls of the rate limiter
    Window,       \* window_seconds, in clock ticks
    MaxSkips      \* bound: budget checks that fail open

VARIABLES
    parts,        \* the configured ones of Parts
    \* BudgetTracker
    lock,         \* holder of _lock between two steps, or None
    refused,      \* estimates of the calls that were blocked; {} as long as the
                  \* run has not been moved to budget_exceeded
    skips,        \* budget checks that failed open
    \* RateLimiter: _buckets, the ages of the admitted calls, oldest first
    bucket,
    \* CredentialPoolManager
    cursor, quarantined, granted, qlog,
    \* PromptCache: _store and _order
    store, order,
    \* Per call
    left,         \* calls the thread will still make
    at,           \* where it is
    key,          \* cache_key of the request, or None (without a cache, too)
    request,      \* its estimate, and the fallback_order of its policy
    skip,         \* skip_rate_limit
    health,       \* the snapshot it was routed by
    candidates,
    failed,       \* providers in failures
    attempts,     \* of the current provider
    grant,        \* secret reference of the grant in use, or None
    loaded,       \* used_tokens that charge has loaded
    \* History, for the properties
    charged,      \* tokens charged by the gateway
    admitted,     \* per provider: ages below Window of the admitted calls
    lastRef,    \* per provider: the reference acquire chose last
    rejected      \* per call: grants the current provider rejected

tracker == <<lock, refused, skips, used, charged>>
limiter == <<bucket, admitted>>
pools == <<cursor, quarantined, granted, qlog, lastRef>>
cache == <<store, order>>
local == <<key, request, skip, health, candidates, failed, attempts, grant, loaded,
           rejected>>
gatewayVars == <<parts, tracker, limiter, pools, cache, left, at, local>>

None == "none"
Parts == {"budgets", "limiter", "cache", "pools", "subagents"}
Refs == UNION {{Pool[p][i] : i \in DOMAIN Pool[p]} : p \in Providers}
Requests == [estimate : 0..MaxUsage, fallback : Seq(Providers)]
NoRequest == [estimate |-> 0, fallback |-> <<>>]
\* ProviderHealth(), which is also what a call without a health provider gets.
NoHealth == [known |-> <<>>, available |-> Providers, rank |-> [p \in Providers |-> 0]]
Points == {"idle", "precheck", "route", "limit", "grant", "invoke", "quarantine",
           "charge", "store", "put"}
\* Past the budget check and not yet charged.
Unpaid == {"route", "limit", "grant", "invoke", "quarantine", "charge", "store"}

ASSUME GatewayAssumption ==
    /\ IsFiniteSet(Callers) /\ Callers # {} /\ None \notin Callers
    /\ Setups \subseteq [parts : SUBSET Parts, calls : [Callers -> Nat]]
    /\ Healths \subseteq Snapshots /\ Fallbacks \in [Callers -> SUBSET Seq(Providers)]
    /\ None \notin Keys
    /\ DOMAIN Pool = Providers /\ \A p \in Providers : Pool[p] \in Seq(Refs)
    /\ None \notin Refs
    /\ {MaxRetries, MaxEntries, MaxSkips} \subseteq Nat
    /\ {MaxCalls, Window} \subseteq Nat \ {0}

GatewayInit ==
    /\ \E s \in Setups : parts = s.parts /\ left = s.calls
    /\ used = 0 /\ lock = None /\ refused = {} /\ skips = 0 /\ charged = 0
    /\ bucket = [p \in Providers |-> <<>>]
    /\ admitted = [p \in Providers |-> <<>>]
    /\ cursor = [p \in Providers |-> 0]
    /\ quarantined = [p \in Providers |-> {}]
    /\ granted = [p \in Providers |-> {}]
    /\ lastRef = [p \in Providers |-> None]
    /\ qlog = <<>>
    /\ store = {} /\ order = <<>>
    /\ at = [c \in Callers |-> "idle"]
    /\ key = [c \in Callers |-> None]
    /\ request = [c \in Callers |-> NoRequest]
    /\ skip = [c \in Callers |-> FALSE]
    /\ health = [c \in Callers |-> NoHealth]
    /\ candidates = [c \in Callers |-> <<>>]
    /\ failed = [c \in Callers |-> <<>>]
    /\ attempts = [c \in Callers |-> 0]
    /\ rejected = [c \in Callers |-> 0]
    /\ grant = [c \in Callers |-> None]
    /\ loaded = [c \in Callers |-> 0]

Goto(c, point) == at' = [at EXCEPT ![c] = point]

\* call returns or raises: its locals are gone.
Return(c) ==
    /\ Goto(c, "idle")
    /\ key' = [key EXCEPT ![c] = None]
    /\ request' = [request EXCEPT ![c] = NoRequest]
    /\ skip' = [skip EXCEPT ![c] = FALSE]
    /\ health' = [health EXCEPT ![c] = NoHealth]
    /\ candidates' = [candidates EXCEPT ![c] = <<>>]
    /\ failed' = [failed EXCEPT ![c] = <<>>]
    /\ attempts' = [attempts EXCEPT ![c] = 0]
    /\ rejected' = [rejected EXCEPT ![c] = 0]
    /\ grant' = [grant EXCEPT ![c] = None]
    /\ loaded' = [loaded EXCEPT ![c] = 0]

\* The provider the fallback loop is at.
Current(c) == candidates[c][Len(failed[c]) + 1]

-----------------------------------------------------------------------------
(* Entry, budget check and routing *)

\* PromptCache.get
Hit(k) == "cache" \in parts /\ k \in store

\* A thread calls the gateway; a cached response is returned at once.  Otherwise
\* the request is estimated, which only the budget uses.
Call(c, k) ==
    /\ at[c] = "idle" /\ left[c] > 0
    /\ left' = [left EXCEPT ![c] = @ - 1]
    /\ \/ /\ Hit(k)
          /\ UNCHANGED <<at, key, request>>
       \/ /\ ~Hit(k)
          /\ Goto(c, IF "budgets" \in parts THEN "precheck" ELSE "route")
          /\ key' = [key EXCEPT ![c] = IF "cache" \in parts THEN k ELSE None]
          /\ \E e \in IF "budgets" \in parts THEN Estimates ELSE {0}, f \in Fallbacks[c] :
                request' = [request EXCEPT ![c] = [estimate |-> e, fallback |-> f]]
    /\ UNCHANGED <<parts, tracker, limiter, pools, cache, skip, health, candidates,
                   failed, attempts, grant, loaded, rejected>>

\* Mutant of PrecheckAllows: the check forgets what the run has used.
PrecheckAllowsAlways(c) ==
    /\ at[c] = "precheck" /\ lock = None
    /\ request[c].estimate <= MaxTokens
    /\ Goto(c, "route")
    /\ UNCHANGED <<parts, tracker, limiter, pools, cache, left, local>>

\* BudgetTracker.precheck, when the budget could be loaded.  The state of the run
\* is not looked at: after one call was blocked a smaller one may still pass.
PrecheckAllows(c) ==
    /\ at[c] = "precheck" /\ lock = None
    /\ ~WouldExceed(request[c].estimate)
    /\ Goto(c, "route")
    /\ UNCHANGED <<parts, tracker, limiter, pools, cache, left, local>>

PrecheckBlocks(c) ==
    /\ at[c] = "precheck" /\ lock = None
    /\ WouldExceed(request[c].estimate)
    /\ refused' = refused \cup {request[c].estimate}
    /\ Return(c)
    /\ UNCHANGED <<parts, lock, skips, used, charged, limiter, pools, cache, left>>

\* The budget state is unavailable: the call goes on without a rate limit.
PrecheckFailsOpen(c) ==
    /\ at[c] = "precheck" /\ lock = None
    /\ skips < MaxSkips
    /\ skips' = skips + 1
    /\ skip' = [skip EXCEPT ![c] = TRUE]
    /\ Goto(c, "route")
    /\ UNCHANGED <<parts, lock, refused, used, charged, limiter, pools, cache, left,
                   key, request, health, candidates, failed, attempts, grant, loaded, rejected>>

\* Without any candidate, _exhausted raises at once.
Route(c) ==
    /\ at[c] = "route"
    /\ \E h \in Healths :
          IF Select(request[c].fallback, h) = <<>>
            THEN Return(c)
            ELSE /\ health' = [health EXCEPT ![c] = h]
                 /\ candidates' = [candidates EXCEPT ![c] = Select(request[c].fallback, h)]
                 /\ Goto(c, "limit")
                 /\ UNCHANGED <<key, request, skip, failed, attempts, grant, loaded, rejected>>
    /\ UNCHANGED <<parts, tracker, limiter, pools, cache, left>>

-----------------------------------------------------------------------------
(* Rate limit *)

\* Mutant of Evict: no call ever leaves the window.
EvictNever(ages) == ages

\* _evict: the oldest calls are popped as long as they have left the window.
Evict(ages) ==
    LET gone == {i \in DOMAIN ages : \A j \in 1..i : ages[j] >= Window}
    IN  SubSeq(ages, Cardinality(gone) + 1, Len(ages))

\* _attempt asks the pool for a grant when the provider has one.
AttemptAt(p) == IF "pools" \in parts /\ Pool[p] # <<>> THEN "grant" ELSE "invoke"

\* RateLimiter.acquire: a full window delays the caller until this is enabled.
\* The call then starts its first attempt.
Acquire(c) ==
    LET p == Current(c)
    IN  /\ at[c] = "limit"
        /\ IF "limiter" \in parts /\ ~skip[c]
             THEN /\ Len(Evict(bucket[p])) < MaxCalls
                  /\ bucket' = [bucket EXCEPT ![p] = Append(Evict(@), 0)]
                  /\ admitted' = [admitted EXCEPT ![p] = Append(@, 0)]
             ELSE UNCHANGED limiter
        /\ attempts' = [attempts EXCEPT ![c] = 1]
        /\ Goto(c, AttemptAt(p))
        /\ UNCHANGED <<parts, tracker, pools, cache, left, key, request, skip, health,
                       candidates, failed, grant, loaded, rejected>>

\* The clock.  Ages beyond the window are all alike.
Older(ages) == [i \in DOMAIN ages |-> IF ages[i] < Window THEN ages[i] + 1 ELSE Window]

\* History: of some calls, oldest first, those inside the window.
InWindow(ages) ==
    SubSeq(ages, Cardinality({i \in DOMAIN ages : ages[i] >= Window}) + 1, Len(ages))

Tick ==
    /\ bucket' = [p \in Providers |-> Older(bucket[p])]
    /\ admitted' = [p \in Providers |-> InWindow(Older(admitted[p]))]
    /\ bucket' # bucket
    /\ UNCHANGED <<parts, tracker, pools, cache, left, at, local>>

-----------------------------------------------------------------------------
(* One provider: grants, attempts and retries *)

\* The provider is exhausted: the fallback order advances, or the call raises.
ProviderFails(c) ==
    IF Len(failed[c]) + 1 = Len(candidates[c])
      THEN Return(c)
      ELSE /\ failed' = [failed EXCEPT ![c] = Append(@, Current(c))]
           /\ attempts' = [attempts EXCEPT ![c] = 0]
           /\ rejected' = [rejected EXCEPT ![c] = 0]
           /\ grant' = [grant EXCEPT ![c] = None]
           /\ Goto(c, "limit")
           /\ UNCHANGED <<key, request, skip, health, candidates, loaded>>

\* Mutant of Retry: one retry too many.
RetryAgain(c) ==
    IF attempts[c] - 1 > MaxRetries
      THEN ProviderFails(c)
      ELSE /\ attempts' = [attempts EXCEPT ![c] = @ + 1]
           /\ grant' = [grant EXCEPT ![c] = None]
           /\ Goto(c, AttemptAt(Current(c)))
           /\ UNCHANGED <<key, request, skip, health, candidates, failed, loaded, rejected>>

\* _call_with_retry after a retryable failure.
Retry(c) ==
    IF attempts[c] - 1 >= MaxRetries
      THEN ProviderFails(c)
      ELSE /\ attempts' = [attempts EXCEPT ![c] = @ + 1]
           /\ grant' = [grant EXCEPT ![c] = None]
           /\ Goto(c, AttemptAt(Current(c)))
           /\ UNCHANGED <<key, request, skip, health, candidates, failed, loaded, rejected>>

\* Distance from the cursor of the first reference that is not quarantined.
Offsets(p) == {o \in 0..(Len(Pool[p]) - 1) :
                 Pool[p][((cursor[p] + o) % Len(Pool[p])) + 1] \notin quarantined[p]}
Index(p) == (cursor[p] + (CHOOSE o \in Offsets(p) : \A q \in Offsets(p) : o <= q))
               % Len(Pool[p])

\* Mutant of NextCursor: the cursor stays on the reference it chose.
NextCursorStays(p) == Index(p) % Len(Pool[p])

NextCursor(p) == (Index(p) + 1) % Len(Pool[p])

\* CredentialPoolManager.acquire finds every reference quarantined, which is a
\* non-retryable failure.
PoolExhausted(c) ==
    /\ at[c] = "grant" /\ Offsets(Current(c)) = {}
    /\ ProviderFails(c)
    /\ UNCHANGED <<parts, tracker, limiter, pools, cache, left>>

\* A session cached for the reference is used again, or a new one is granted.
AcquireGrant(c) ==
    LET p == Current(c)
        ref == Pool[p][Index(p) + 1]
    IN  /\ at[c] = "grant" /\ Offsets(p) # {}
        /\ cursor' = [cursor EXCEPT ![p] = NextCursor(p)]
        /\ granted' = [granted EXCEPT ![p] = @ \cup {ref}]
        /\ lastRef' = [lastRef EXCEPT ![p] = ref]
        /\ grant' = [grant EXCEPT ![c] = ref]
        /\ Goto(c, "invoke")
        /\ UNCHANGED <<parts, tracker, limiter, cache, left, quarantined, qlog, key, request, skip,
                       health, candidates, failed, attempts, loaded, rejected>>

\* The grant source fails for a reference without a session: the cursor has
\* moved, and the failure is retryable.
GrantSourceFails(c) ==
    LET p == Current(c)
    IN  /\ at[c] = "grant" /\ Offsets(p) # {}
        /\ Pool[p][Index(p) + 1] \notin granted[p]
        /\ cursor' = [cursor EXCEPT ![p] = NextCursor(p)]
        /\ lastRef' = [lastRef EXCEPT ![p] = Pool[p][Index(p) + 1]]
        /\ Retry(c)
        /\ UNCHANGED <<parts, tracker, limiter, cache, left, quarantined, granted, qlog>>

\* The provider answers.
Succeeds(c) ==
    /\ at[c] = "invoke"
    /\ Goto(c, IF "budgets" \in parts THEN "charge" ELSE "put")
    /\ UNCHANGED <<parts, tracker, limiter, pools, cache, left, local>>

FailsRetryably(c) ==
    /\ at[c] = "invoke"
    /\ Retry(c)
    /\ UNCHANGED <<parts, tracker, limiter, pools, cache, left>>

\* A bad request, or an invalid grant without a pool.
FailsForGood(c) ==
    /\ at[c] = "invoke"
    /\ ProviderFails(c)
    /\ UNCHANGED <<parts, tracker, limiter, pools, cache, left>>

RejectsGrant(c) ==
    /\ at[c] = "invoke" /\ grant[c] # None
    /\ rejected' = [rejected EXCEPT ![c] = @ + 1]
    /\ Goto(c, "quarantine")
    /\ UNCHANGED <<parts, tracker, limiter, pools, cache, left, key, request, skip, health,
                   candidates, failed, attempts, grant, loaded>>

\* Mutant of Quarantine: a rejected grant keeps its session in the cache.
QuarantineKeepsSession(c) ==
    LET p == Current(c)
    IN  /\ at[c] = "quarantine"
        /\ quarantined' = [quarantined EXCEPT ![p] = @ \cup {grant[c]}]
        /\ qlog' = Append(qlog, <<p, grant[c]>>)
        /\ grant' = [grant EXCEPT ![c] = None]
        /\ Goto(c, "grant")
        /\ UNCHANGED <<parts, tracker, limiter, cache, left, cursor, granted, lastRef, key, request,
                       skip, health, candidates, failed, attempts, loaded, rejected>>

\* Another caller may hold the same grant, or have quarantined it already.
Quarantine(c) ==
    LET p == Current(c)
    IN  /\ at[c] = "quarantine"
        /\ quarantined' = [quarantined EXCEPT ![p] = @ \cup {grant[c]}]
        /\ granted' = [granted EXCEPT ![p] = @ \ {grant[c]}]
        /\ qlog' = Append(qlog, <<p, grant[c]>>)
        /\ grant' = [grant EXCEPT ![c] = None]
        /\ Goto(c, "grant")
        /\ UNCHANGED <<parts, tracker, limiter, cache, left, cursor, lastRef, key, request, skip,
                       health, candidates, failed, attempts, loaded, rejected>>

-----------------------------------------------------------------------------
(* Charge and cache *)

\* BudgetTracker.charge takes the lock and loads the budget ...
ChargeLoad(c) ==
    /\ at[c] = "charge" /\ lock = None
    /\ lock' = c
    /\ loaded' = [loaded EXCEPT ![c] = used]
    /\ Goto(c, "store")
    /\ UNCHANGED <<parts, refused, skips, used, charged, limiter, pools, cache, left, key, request,
                   skip, health, candidates, failed, attempts, grant, rejected>>

\* ... or cannot load it and leaves the usage uncharged.
ChargeFails(c) ==
    /\ at[c] = "charge" /\ lock = None
    /\ Goto(c, "put")
    /\ UNCHANGED <<parts, tracker, limiter, pools, cache, left, local>>

\* Mutant of ChargeStore: the estimate is charged on top of the reported usage.
ChargeStoreBoth(c) ==
    /\ at[c] = "store"
    /\ \E t \in Usages \cup {request[c].estimate} :
          used' = loaded[c] + request[c].estimate + t /\ charged' = charged + t
    /\ lock' = None
    /\ Goto(c, "put")
    /\ UNCHANGED <<parts, refused, skips, limiter, pools, cache, left, local>>

\* _persist_usage writes the whole budget; without a reported usage the
\* estimate is charged.
ChargeStore(c) ==
    /\ at[c] = "store"
    /\ \E t \in Usages \cup {request[c].estimate} :
          used' = loaded[c] + t /\ charged' = charged + t
    /\ lock' = None
    /\ Goto(c, "put")
    /\ UNCHANGED <<parts, refused, skips, limiter, pools, cache, left, local>>

\* The row cannot be written: the error leaves the call, whose response is lost
\* and whose usage is not charged.
ChargeRaises(c) ==
    /\ at[c] = "store"
    /\ lock' = None
    /\ Return(c)
    /\ UNCHANGED <<parts, refused, skips, used, charged, limiter, pools, cache, left>>

\* Mutant of Cached: the key is queued again although another call has stored it.
CachedTwice(k) ==
    LET full == k \notin store /\ MaxEntries > 0 /\ Cardinality(store) >= MaxEntries
    IN  /\ store' = (IF full THEN store \ {Head(order)} ELSE store) \cup {k}
        /\ order' = Append(IF full THEN Tail(order) ELSE order, k)

\* PromptCache.put
Cached(k) ==
    LET full == k \notin store /\ MaxEntries > 0 /\ Cardinality(store) >= MaxEntries
    IN  /\ store' = (IF full THEN store \ {Head(order)} ELSE store) \cup {k}
        /\ order' = IF k \in store THEN order
                    ELSE Append(IF full THEN Tail(order) ELSE order, k)

Put(c) ==
    /\ at[c] = "put"
    /\ IF "cache" \in parts /\ key[c] # None THEN Cached(key[c]) ELSE UNCHANGED cache
    /\ Return(c)
    /\ UNCHANGED <<parts, tracker, limiter, pools, left>>

-----------------------------------------------------------------------------
\* What the code of a call does next.
Proceed(c) ==
    \/ PrecheckAllows(c) \/ PrecheckBlocks(c) \/ PrecheckFailsOpen(c)
    \/ Route(c) \/ Acquire(c)
    \/ PoolExhausted(c) \/ AcquireGrant(c) \/ GrantSourceFails(c)
    \/ Succeeds(c) \/ FailsRetryably(c) \/ FailsForGood(c) \/ RejectsGrant(c)
    \/ Quarantine(c) \/ ChargeLoad(c) \/ ChargeFails(c) \/ ChargeStore(c)
    \/ ChargeRaises(c) \/ Put(c)

GatewayNext ==
    \/ \E c \in Callers : Proceed(c) \/ \E k \in Keys \cup {None} : Call(c, k)
    \/ Tick
=============================================================================
