-------------------------- MODULE ModelUsageProofs --------------------------
(***************************************************************************)
(* What the gateway and the subagent manager guarantee, for any number of    *)
(* threads, providers, references, keys and subagents and any limits.        *)
(***************************************************************************)
EXTENDS ModelUsage, FiniteSetTheorems, SequenceTheorems, NaturalsInduction,
        WellFoundedInduction, TLAPS

\* Products are compared only through these facts.
LEMMA Products ==
    ASSUME NEW m \in Nat, NEW i \in Nat, NEW j \in Nat
    PROVE  /\ m * i \in Nat
           /\ m * (i + 1) = m * i + m
           /\ i <= j => m * i <= m * j
           /\ m * (i + j) = m * i + m * j
<1>1. m * i \in Nat /\ m * (i + 1) = m * i + m /\ m * (i + j) = m * i + m * j
  OBVIOUS
<1>2. ASSUME i <= j PROVE m * i <= m * j
  <2>1. PICK k \in Nat : j = i + k
    <3>1. j - i \in Nat /\ j = i + (j - i)
      BY <1>2
    <3> QED
      BY <3>1
  <2>2. m * j = m * i + m * k /\ m * k \in Nat /\ m * i \in Nat
    BY <2>1
  <2> QED
    BY <2>2
<1> QED
  BY <1>1, <1>2

\* The calls in flight are some of the threads.
LEMMA InFlightFinite ==
    /\ IsFiniteSet(InFlight) /\ Cardinality(InFlight) \in Nat
    /\ Cardinality(Callers) \in Nat
    /\ Cardinality(InFlight) <= Cardinality(Callers)
<1>1. InFlight \subseteq Callers /\ IsFiniteSet(Callers)
  BY GatewayAssumption DEF InFlight
<1> QED
  BY <1>1, FS_Subset, FS_CardinalityType

\* What one thread's move does to the number of calls in flight.
LEMMA ThreadMoves ==
    ASSUME TypeOK, NEW c \in Callers, NEW x \in Points, at' = [at EXCEPT ![c] = x]
    PROVE  /\ at' \in [Callers -> Points]
           /\ Cardinality(InFlight') \in Nat
           /\ Cardinality(InFlight') <= Cardinality(Callers)
           /\ Cardinality(InFlight') <= Cardinality(InFlight) + 1
           /\ at[c] \in Unpaid \/ x \notin Unpaid
                => Cardinality(InFlight') <= Cardinality(InFlight)
           /\ at[c] \in Unpaid /\ x \notin Unpaid
                => Cardinality(InFlight') + 1 = Cardinality(InFlight)
<1>1. at' \in [Callers -> Points] /\ IsFiniteSet(Callers)
  BY GatewayAssumption DEF TypeOK
<1>2. at'[c] = x /\ \A d \in Callers \ {c} : at'[d] = at[d]
  BY DEF TypeOK
<1>3. InFlight' \subseteq Callers /\ InFlight' \subseteq InFlight \cup {c}
  BY <1>2 DEF InFlight
<1>4. Cardinality(InFlight') \in Nat /\ Cardinality(InFlight') <= Cardinality(Callers)
  BY <1>1, <1>3, FS_Subset, FS_CardinalityType
<1>5. /\ IsFiniteSet(InFlight \cup {c})
      /\ Cardinality(InFlight \cup {c}) <= Cardinality(InFlight) + 1
      /\ Cardinality(InFlight \cup {c}) \in Nat
  <2>1. /\ IsFiniteSet(InFlight \cup {c})
        /\ Cardinality(InFlight \cup {c}) = IF c \in InFlight THEN Cardinality(InFlight)
                                             ELSE Cardinality(InFlight) + 1
    BY InFlightFinite, FS_AddElement
  <2> QED
    BY <2>1, InFlightFinite
<1>6. Cardinality(InFlight') <= Cardinality(InFlight) + 1
  <2>1. Cardinality(InFlight') <= Cardinality(InFlight \cup {c})
    BY <1>3, <1>5, FS_Subset
  <2> QED
    BY <2>1, <1>4, <1>5, InFlightFinite
<1>7. ASSUME at[c] \in Unpaid \/ x \notin Unpaid
      PROVE  Cardinality(InFlight') <= Cardinality(InFlight)
  <2>1. InFlight' \subseteq InFlight
    BY <1>2, <1>7 DEF InFlight
  <2> QED
    BY <2>1, InFlightFinite, FS_Subset
<1>8. ASSUME at[c] \in Unpaid, x \notin Unpaid
      PROVE  Cardinality(InFlight') + 1 = Cardinality(InFlight)
  <2>1. InFlight' = InFlight \ {c} /\ c \in InFlight
    BY <1>2, <1>8 DEF InFlight
  <2>2. Cardinality(InFlight \ {c}) = Cardinality(InFlight) - 1
    BY <2>1, InFlightFinite, FS_RemoveElement
  <2> QED
    BY <2>1, <2>2, InFlightFinite
<1> QED
  BY <1>1, <1>4, <1>6, <1>7, <1>8

-----------------------------------------------------------------------------
\* What a request consists of; the one of a thread that makes no call.
LEMMA RequestTyped ==
    /\ NoRequest \in Requests
    /\ \A r \in Requests : r.estimate \in 0..MaxUsage /\ r.fallback \in Seq(Providers)
<1> DEFINE F == Seq(Providers)
<1>1. <<>> \in F /\ 0 \in 0..MaxUsage
  BY BudgetAssumption
<1> HIDE DEF F
<1>2. /\ [estimate |-> 0, fallback |-> <<>>] \in [estimate : 0..MaxUsage, fallback : F]
      /\ \A r \in [estimate : 0..MaxUsage, fallback : F] :
            r.estimate \in 0..MaxUsage /\ r.fallback \in F
  BY <1>1
<1> QED
  BY <1>2 DEF F, Requests, NoRequest

\* The steps of a call that leave the budget alone: they move thread c, neither
\* to nor from the critical section of charge, and not past the budget check.
Quiet(c) ==
    \E x \in Points \ {"store"} :
        /\ at' = [at EXCEPT ![c] = x]
        /\ at[c] # "store"
        /\ at[c] \in Unpaid \/ x \notin Unpaid \/ "budgets" \notin parts
        /\ loaded' \in {loaded, [loaded EXCEPT ![c] = 0]}
        /\ refused' \subseteq 0..MaxUsage
        /\ request' \in [Callers -> Requests]
        /\ UNCHANGED <<parts, used, charged, skips, lock>>

\* Returning from a call is such a step, whether it succeeded or failed.
LEMMA ReturnQuiet ==
    ASSUME TypeOK, NEW c \in Callers, Return(c), at[c] # "store",
           refused' \subseteq 0..MaxUsage, UNCHANGED <<parts, used, charged, skips, lock>>
    PROVE  Quiet(c)
<1>1. "idle" \in Points \ {"store"} /\ "idle" \notin Unpaid
  BY DEF Points, Unpaid
<1>2. request' \in [Callers -> Requests]
  BY RequestTyped DEF Return, TypeOK
<1> QED
  BY <1>1, <1>2 DEF Quiet, Return, Goto

\* So is advancing to the next provider.
LEMMA ProviderFailsQuiet ==
    ASSUME TypeOK, NEW c \in Callers, ProviderFails(c), at[c] \in Unpaid \ {"store"},
           UNCHANGED <<parts, tracker>>
    PROVE  Quiet(c)
<1>1. "limit" \in Points \ {"store"}
  BY DEF Points
<1>2. /\ refused' \subseteq 0..MaxUsage /\ request \in [Callers -> Requests]
      /\ UNCHANGED <<parts, used, charged, skips, lock>>
  BY DEF TypeOK, tracker
<1>3. CASE Len(failed[c]) + 1 = Len(candidates[c])
  BY <1>2, <1>3, ReturnQuiet DEF ProviderFails
<1>4. CASE Len(failed[c]) + 1 # Len(candidates[c])
  BY <1>1, <1>2, <1>4 DEF ProviderFails, Goto, Quiet
<1> QED
  BY <1>3, <1>4

\* So is a retry.
LEMMA RetryQuiet ==
    ASSUME TypeOK, NEW c \in Callers, Retry(c), at[c] \in Unpaid \ {"store"},
           UNCHANGED <<parts, tracker>>
    PROVE  Quiet(c)
<1>1. AttemptAt(Current(c)) \in Points \ {"store"}
  BY DEF Points, AttemptAt
<1>2. /\ refused' \subseteq 0..MaxUsage /\ request \in [Callers -> Requests]
      /\ UNCHANGED <<parts, used, charged, skips, lock>>
  BY DEF TypeOK, tracker
<1>3. CASE attempts[c] - 1 >= MaxRetries
  BY <1>3, ProviderFailsQuiet DEF Retry
<1>4. CASE ~(attempts[c] - 1 >= MaxRetries)
  BY <1>1, <1>2, <1>4 DEF Retry, Goto, Quiet
<1> QED
  BY <1>3, <1>4

\* Every step of a call is quiet, passes the check, or is part of charge.
LEMMA ProceedCases ==
    ASSUME TypeOK, NEW c \in Callers, Proceed(c)
    PROVE  \/ Quiet(c) \/ PrecheckAllows(c) \/ PrecheckFailsOpen(c)
           \/ ChargeLoad(c) \/ ChargeStore(c) \/ ChargeRaises(c)
<1> USE DEF TypeOK
<1>1. CASE PrecheckBlocks(c)
  <2>1. request[c].estimate \in 0..MaxUsage
    BY RequestTyped
  <2>2. /\ Return(c) /\ at[c] # "store" /\ refused' \subseteq 0..MaxUsage
        /\ UNCHANGED <<parts, used, charged, skips, lock>>
    BY <1>1, <2>1 DEF PrecheckBlocks
  <2> QED
    BY <2>2, ReturnQuiet
<1>2. CASE Route(c)
  <2>1. PICK h \in Healths :
          IF Select(request[c].fallback, h) = <<>> THEN Return(c)
          ELSE Goto(c, "limit") /\ UNCHANGED <<request, loaded>>
    BY <1>2 DEF Route
  <2>2. /\ at[c] = "route" /\ refused' \subseteq 0..MaxUsage
        /\ UNCHANGED <<parts, used, charged, skips, lock>>
    BY <1>2 DEF Route, tracker
  <2>3. CASE Return(c)
    BY <2>2, <2>3, ReturnQuiet
  <2>4. CASE Goto(c, "limit") /\ UNCHANGED <<request, loaded>>
    <3>1. "limit" \in Points \ {"store"} /\ at[c] \in Unpaid
      BY <2>2 DEF Points, Unpaid
    <3> QED
      BY <3>1, <2>2, <2>4 DEF Quiet, Goto
  <2> QED
    BY <2>1, <2>3, <2>4
<1>3. CASE Acquire(c)
  <2>1. AttemptAt(Current(c)) \in Points \ {"store"}
    BY DEF Points, AttemptAt
  <2> QED
    BY <1>3, <2>1 DEF Acquire, Goto, Quiet, tracker, Unpaid
<1>4. CASE PoolExhausted(c)
  BY <1>4, ProviderFailsQuiet DEF PoolExhausted, Unpaid
<1>5. CASE AcquireGrant(c)
  BY <1>5 DEF AcquireGrant, Goto, Quiet, tracker, Unpaid, Points
<1>6. CASE GrantSourceFails(c)
  BY <1>6, RetryQuiet DEF GrantSourceFails, Unpaid
<1>7. CASE Succeeds(c)
  BY <1>7 DEF Succeeds, Goto, Quiet, tracker, local, Unpaid, Points
<1>8. CASE FailsRetryably(c)
  BY <1>8, RetryQuiet DEF FailsRetryably, Unpaid
<1>9. CASE FailsForGood(c)
  BY <1>9, ProviderFailsQuiet DEF FailsForGood, Unpaid
<1>10. CASE RejectsGrant(c)
  BY <1>10 DEF RejectsGrant, Goto, Quiet, tracker, Unpaid, Points
<1>11. CASE Quarantine(c)
  BY <1>11 DEF Quarantine, Goto, Quiet, tracker, Unpaid, Points
<1>12. CASE ChargeFails(c)
  BY <1>12 DEF ChargeFails, Goto, Quiet, tracker, local, Unpaid, Points
<1>13. CASE Put(c)
  BY <1>13, ReturnQuiet DEF Put, tracker
<1> QED
  BY <1>1, <1>2, <1>3, <1>4, <1>5, <1>6, <1>7, <1>8, <1>9, <1>10, <1>11, <1>12, <1>13
     DEF Proceed

\* What a call that misses the cache asks for.
LEMMA CallRequests ==
    ASSUME TypeOK, NEW c \in Callers, NEW k, Call(c, k), ~Hit(k)
    PROVE  request' \in [Callers -> Requests]
<1>1. PICK e \in 0..MaxUsage, f \in Seq(Providers) :
        request' = [request EXCEPT ![c] = [estimate |-> e, fallback |-> f]]
  <2>1. Estimates \subseteq 0..MaxUsage /\ 0 \in 0..MaxUsage
    BY BudgetAssumption
  <2>2. Fallbacks[c] \subseteq Seq(Providers)
    BY GatewayAssumption
  <2> QED
    BY <2>1, <2>2 DEF Call
<1>2. [estimate |-> e, fallback |-> f] \in Requests
  BY DEF Requests
<1> QED
  BY <1>1, <1>2 DEF TypeOK

\* Entering the gateway is quiet too: no call passes the check by it.
LEMMA CallQuiet ==
    ASSUME TypeOK, NEW c \in Callers, NEW k, Call(c, k)
    PROVE  \/ Quiet(c)
           \/ UNCHANGED <<at, loaded, refused, request, parts, used, charged, skips, lock>>
<1>1. /\ refused' = refused /\ refused \subseteq 0..MaxUsage /\ at[c] = "idle"
      /\ UNCHANGED <<loaded, parts, used, charged, skips, lock>>
  BY DEF Call, tracker, TypeOK
<1>2. CASE UNCHANGED <<at, request>>
  BY <1>1, <1>2
<1>3. CASE /\ Goto(c, IF "budgets" \in parts THEN "precheck" ELSE "route")
           /\ request' \in [Callers -> Requests]
  <2>1. CASE "budgets" \in parts
    BY <1>1, <1>3, <2>1 DEF Goto, Quiet, Points, Unpaid
  <2>2. CASE "budgets" \notin parts
    BY <1>1, <1>3, <2>2 DEF Goto, Quiet, Points, Unpaid
  <2> QED
    BY <2>1, <2>2
<1> QED
  BY <1>2, <1>3, CallRequests DEF Call

-----------------------------------------------------------------------------
\* The state in which a gateway and a subagent manager are created.
LEMMA InitUsage == Init => UsageInvariant
<1> SUFFICES ASSUME Init PROVE UsageInvariant
  OBVIOUS
<1> USE DEF Init, GatewayInit, SubInit
<1>1. TypeOK
  <2>1. parts \subseteq Parts
    BY GatewayAssumption
  <2>2. sub \in [Agents -> SubPoints]
    BY DEF SubPoints
  <2>3. request \in [Callers -> Requests] /\ refused \subseteq 0..MaxUsage
    BY RequestTyped
  <2> QED
    BY <2>1, <2>2, <2>3 DEF TypeOK, Points
<1>2. ChargeExclusive
  BY GatewayAssumption DEF ChargeExclusive
<1>3. LedgerFirst
  BY DEF LedgerFirst
<1>4. OverrunBounded
  <2>1. InFlight = {}
    BY DEF InFlight, Unpaid
  <2>2. Cardinality(InFlight) = 0
    BY <2>1, FS_EmptySet
  <2>3. Cardinality(Callers) \in Nat /\ Cardinality(Callers) # 0
    BY GatewayAssumption, FS_EmptySet, FS_CardinalityType
  <2>4. MaxUsage * 1 <= MaxUsage * Cardinality(Callers)
    BY <2>3, Products, BudgetAssumption
  <2> QED
    BY <2>2, <2>3, <2>4, BudgetAssumption DEF OverrunBounded
<1> QED
  BY <1>1, <1>2, <1>3, <1>4 DEF UsageInvariant

\* A quiet step keeps the budget within its bound.
LEMMA QuietKeeps ==
    ASSUME UsageInvariant, NEW c \in Callers, Quiet(c), UNCHANGED subVars
    PROVE  UsageInvariant'
<1>1. PICK x \in Points \ {"store"} :
        /\ at' = [at EXCEPT ![c] = x]
        /\ at[c] # "store"
        /\ at[c] \in Unpaid \/ x \notin Unpaid \/ "budgets" \notin parts
        /\ loaded' \in {loaded, [loaded EXCEPT ![c] = 0]}
        /\ refused' \subseteq 0..MaxUsage
        /\ request' \in [Callers -> Requests]
        /\ UNCHANGED <<parts, used, charged, skips, lock>>
  BY DEF Quiet
<1>2. TypeOK /\ ledger' = ledger /\ UNCHANGED <<sub, tokens, got>>
  BY DEF UsageInvariant, subVars, manager
<1>3. TypeOK'
  <2>1. at' \in [Callers -> Points]
    BY <1>1, <1>2, ThreadMoves
  <2>2. loaded' \in [Callers -> Nat]
    BY <1>1, <1>2 DEF TypeOK
  <2> QED
    BY <1>1, <1>2, <2>1, <2>2 DEF TypeOK
<1>4. ChargeExclusive'
  <2>1. at'[c] = x /\ \A d \in Callers \ {c} : at'[d] = at[d] /\ loaded'[d] = loaded[d]
    BY <1>1, <1>2 DEF TypeOK
  <2>2. lock' = lock /\ used' = used /\ lock # c
    BY <1>1 DEF UsageInvariant, ChargeExclusive
  <2> QED
    BY <1>1, <1>2, <2>1, <2>2 DEF UsageInvariant, ChargeExclusive
<1>5. LedgerFirst'
  BY <1>2 DEF UsageInvariant, LedgerFirst
<1>6. OverrunBounded'
  <2> SUFFICES ASSUME "budgets" \in parts, ledger = 0
               PROVE  used + MaxUsage * Cardinality(InFlight')
                        <= MaxTokens + MaxUsage * (Cardinality(Callers) + skips)
    BY <1>1, <1>2 DEF OverrunBounded
  <2>1. Cardinality(InFlight') \in Nat /\ Cardinality(InFlight') <= Cardinality(InFlight)
    BY <1>1, <1>2, ThreadMoves
  <2>2. /\ MaxUsage * Cardinality(InFlight') <= MaxUsage * Cardinality(InFlight)
        /\ MaxUsage * Cardinality(InFlight) \in Nat
        /\ MaxUsage * Cardinality(InFlight') \in Nat
    BY <2>1, InFlightFinite, Products, BudgetAssumption
  <2>3. MaxUsage * (Cardinality(Callers) + skips) \in Nat /\ used \in Nat
    BY <1>2, InFlightFinite, BudgetAssumption DEF TypeOK
  <2> QED
    BY <2>2, <2>3, BudgetAssumption DEF UsageInvariant, OverrunBounded
<1> QED
  BY <1>3, <1>4, <1>5, <1>6 DEF UsageInvariant

\* A call that passes the check finds room for its estimate, and at most one
\* call per thread is in flight.
LEMMA AllowKeeps ==
    ASSUME UsageInvariant, NEW c \in Callers, PrecheckAllows(c), UNCHANGED subVars
    PROVE  UsageInvariant'
<1>1. /\ at[c] = "precheck" /\ at' = [at EXCEPT ![c] = "route"] /\ "route" \in Points
      /\ UNCHANGED <<parts, used, charged, skips, lock, refused, request, loaded>>
      /\ used <= MaxTokens
  <2>1. used \in Nat /\ request[c].estimate \in Nat
    BY RequestTyped DEF UsageInvariant, TypeOK
  <2> QED
    BY <2>1, BudgetAssumption DEF PrecheckAllows, Goto, tracker, local, WouldExceed, Points
<1>2. TypeOK /\ ledger' = ledger /\ UNCHANGED <<sub, tokens, got>>
  BY DEF UsageInvariant, subVars, manager
<1>3. TypeOK'
  <2>1. at' \in [Callers -> Points]
    BY <1>1, <1>2, ThreadMoves
  <2> QED
    BY <1>1, <1>2, <2>1 DEF TypeOK
<1>4. ChargeExclusive'
  <2>1. at'[c] = "route" /\ \A d \in Callers \ {c} : at'[d] = at[d]
    BY <1>1, <1>2 DEF TypeOK
  <2> QED
    BY <1>1, <1>2, <2>1 DEF UsageInvariant, ChargeExclusive
<1>5. LedgerFirst'
  BY <1>2 DEF UsageInvariant, LedgerFirst
<1>6. OverrunBounded'
  <2>1. /\ Cardinality(InFlight') \in Nat /\ Cardinality(Callers) \in Nat /\ skips \in Nat
        /\ Cardinality(InFlight') <= Cardinality(Callers) + skips
    <3>1. skips \in Nat
      BY <1>2 DEF TypeOK
    <3>2. Cardinality(InFlight') \in Nat /\ Cardinality(InFlight') <= Cardinality(Callers)
      BY <1>1, <1>2, ThreadMoves
    <3> QED
      BY <3>1, <3>2, InFlightFinite
  <2>2. /\ MaxUsage * Cardinality(InFlight')
             <= MaxUsage * (Cardinality(Callers) + skips)
        /\ MaxUsage * Cardinality(InFlight') \in Nat
        /\ MaxUsage * (Cardinality(Callers) + skips) \in Nat
    BY <2>1, Products, BudgetAssumption
  <2>3. used + MaxUsage * Cardinality(InFlight')
          <= MaxTokens + MaxUsage * (Cardinality(Callers) + skips)
    BY <1>1, <1>2, <2>2, BudgetAssumption DEF TypeOK
  <2> QED
    BY <1>1, <2>3 DEF OverrunBounded
<1> QED
  BY <1>3, <1>4, <1>5, <1>6 DEF UsageInvariant

\* A check that fails open lets one more call in, and is counted.
LEMMA FailOpenKeeps ==
    ASSUME UsageInvariant, NEW c \in Callers, PrecheckFailsOpen(c), UNCHANGED subVars
    PROVE  UsageInvariant'
<1>1. /\ at[c] = "precheck" /\ at' = [at EXCEPT ![c] = "route"] /\ "route" \in Points
      /\ UNCHANGED <<parts, used, charged, lock, refused, request, loaded>>
      /\ skips' = skips + 1
  BY DEF PrecheckFailsOpen, Goto, Points
<1>2. TypeOK /\ ledger' = ledger /\ UNCHANGED <<sub, tokens, got>>
  BY DEF UsageInvariant, subVars, manager
<1>3. TypeOK'
  <2>1. at' \in [Callers -> Points]
    BY <1>1, <1>2, ThreadMoves
  <2> QED
    BY <1>1, <1>2, <2>1 DEF TypeOK
<1>4. ChargeExclusive'
  <2>1. at'[c] = "route" /\ \A d \in Callers \ {c} : at'[d] = at[d]
    BY <1>1, <1>2 DEF TypeOK
  <2> QED
    BY <1>1, <1>2, <2>1 DEF UsageInvariant, ChargeExclusive
<1>5. LedgerFirst'
  BY <1>2 DEF UsageInvariant, LedgerFirst
<1>6. OverrunBounded'
  <2> DEFINE i == Cardinality(InFlight)
             n == Cardinality(Callers)
  <2> SUFFICES ASSUME "budgets" \in parts, ledger = 0
               PROVE  used + MaxUsage * Cardinality(InFlight')
                        <= MaxTokens + MaxUsage * (n + (skips + 1))
    BY <1>1, <1>2 DEF OverrunBounded
  <2>1. /\ Cardinality(InFlight') \in Nat /\ i \in Nat /\ n \in Nat /\ skips \in Nat
        /\ Cardinality(InFlight') <= i + 1
    <3>1. skips \in Nat
      BY <1>2 DEF TypeOK
    <3> QED
      BY <1>1, <1>2, <3>1, ThreadMoves, InFlightFinite
  <2>2. used + MaxUsage * i <= MaxTokens + MaxUsage * (n + skips)
    BY DEF UsageInvariant, OverrunBounded
  <2> HIDE DEF i, n
  <2>3. /\ MaxUsage * Cardinality(InFlight') <= MaxUsage * (i + 1)
        /\ MaxUsage * Cardinality(InFlight') \in Nat
        /\ MaxUsage * (i + 1) = MaxUsage * i + MaxUsage
        /\ MaxUsage * i \in Nat
    BY <2>1, Products, BudgetAssumption
  <2>4. /\ n + skips \in Nat /\ n + (skips + 1) = (n + skips) + 1
        /\ MaxUsage * ((n + skips) + 1) = MaxUsage * (n + skips) + MaxUsage
        /\ MaxUsage * (n + skips) \in Nat
    BY <2>1, Products, BudgetAssumption
  <2> QED
    BY <1>2, <2>2, <2>3, <2>4, BudgetAssumption DEF TypeOK
<1> QED
  BY <1>3, <1>4, <1>5, <1>6 DEF UsageInvariant

\* Loading the budget takes the lock.
LEMMA LoadKeeps ==
    ASSUME UsageInvariant, NEW c \in Callers, ChargeLoad(c), UNCHANGED subVars
    PROVE  UsageInvariant'
<1>1. /\ at[c] = "charge" /\ at' = [at EXCEPT ![c] = "store"] /\ "store" \in Points
      /\ UNCHANGED <<parts, used, charged, skips, refused, request>>
      /\ lock = None /\ lock' = c
      /\ loaded' = [loaded EXCEPT ![c] = used]
  BY DEF ChargeLoad, Goto, Points
<1>2. TypeOK /\ ledger' = ledger /\ UNCHANGED <<sub, tokens, got>>
  BY DEF UsageInvariant, subVars, manager
<1>3. TypeOK'
  <2>1. at' \in [Callers -> Points]
    BY <1>1, <1>2, ThreadMoves
  <2>2. loaded' \in [Callers -> Nat]
    BY <1>1, <1>2 DEF TypeOK
  <2> QED
    BY <1>1, <1>2, <2>1, <2>2 DEF TypeOK
<1>4. ChargeExclusive'
  <2>1. /\ at'[c] = "store" /\ loaded'[c] = used
        /\ \A d \in Callers \ {c} : at'[d] = at[d] /\ loaded'[d] = loaded[d]
    BY <1>1, <1>2 DEF TypeOK
  <2>2. \A d \in Callers : at[d] # "store"
    BY <1>1, GatewayAssumption DEF UsageInvariant, ChargeExclusive
  <2> QED
    BY <1>1, <1>2, <2>1, <2>2 DEF ChargeExclusive
<1>5. LedgerFirst'
  BY <1>2 DEF UsageInvariant, LedgerFirst
<1>6. OverrunBounded'
  <2>1. InFlight' = InFlight
    <3>1. at'[c] = "store" /\ \A d \in Callers \ {c} : at'[d] = at[d]
      BY <1>1, <1>2 DEF TypeOK
    <3> QED
      BY <1>1, <3>1 DEF InFlight, Unpaid
  <2> QED
    BY <1>1, <1>2, <2>1 DEF UsageInvariant, OverrunBounded
<1> QED
  BY <1>3, <1>4, <1>5, <1>6 DEF UsageInvariant

\* Storing the budget pays for the call, which leaves the calls in flight.
LEMMA StoreKeeps ==
    ASSUME UsageInvariant, NEW c \in Callers, ChargeStore(c), UNCHANGED subVars
    PROVE  UsageInvariant'
<1>1. /\ at[c] = "store" /\ at' = [at EXCEPT ![c] = "put"]
      /\ "put" \in Points /\ "put" \notin Unpaid /\ at[c] \in Unpaid
      /\ UNCHANGED <<parts, skips, refused, request, loaded>>
      /\ lock' = None
  BY DEF ChargeStore, Goto, Points, Unpaid, local
<1>2. PICK t \in Usages \cup {request[c].estimate} :
        used' = loaded[c] + t /\ charged' = charged + t
  BY DEF ChargeStore
<1>3. t \in Nat /\ t <= MaxUsage
  <2>1. request[c].estimate \in 0..MaxUsage
    BY RequestTyped DEF UsageInvariant, TypeOK
  <2> QED
    BY <2>1, BudgetAssumption
<1>4. TypeOK /\ ledger' = ledger /\ UNCHANGED <<sub, tokens, got>>
  BY DEF UsageInvariant, subVars, manager
<1>5. TypeOK'
  <2>1. at' \in [Callers -> Points]
    BY <1>1, <1>4, ThreadMoves
  <2> QED
    BY <1>1, <1>2, <1>3, <1>4, <2>1 DEF TypeOK
<1>6. ChargeExclusive'
  <2>1. at'[c] = "put" /\ \A d \in Callers \ {c} : at'[d] = at[d]
    BY <1>1, <1>4 DEF TypeOK
  <2>2. \A d \in Callers \ {c} : at[d] # "store"
    BY <1>1 DEF UsageInvariant, ChargeExclusive
  <2> QED
    BY <1>1, <2>1, <2>2, GatewayAssumption DEF ChargeExclusive
<1>7. LedgerFirst'
  BY <1>4 DEF UsageInvariant, LedgerFirst
<1>8. OverrunBounded'
  <2> DEFINE j == Cardinality(InFlight')
             bound == MaxTokens + MaxUsage * (Cardinality(Callers) + skips)
  <2> SUFFICES ASSUME "budgets" \in parts, ledger = 0
               PROVE  used' + MaxUsage * j <= bound
    BY <1>1, <1>4 DEF OverrunBounded
  <2>1. j \in Nat /\ Cardinality(InFlight) = j + 1
    BY <1>1, <1>4, ThreadMoves
  <2>2. used + MaxUsage * (j + 1) <= bound
    BY <2>1 DEF UsageInvariant, OverrunBounded
  <2>3. used' = used + t /\ used \in Nat
    BY <1>1, <1>2 DEF UsageInvariant, ChargeExclusive, TypeOK
  <2>4. bound \in Nat
    <3>1. Cardinality(Callers) + skips \in Nat
      BY <1>4, InFlightFinite DEF TypeOK
    <3> QED
      BY <3>1, Products, BudgetAssumption
  <2> HIDE DEF j, bound
  <2>5. MaxUsage * (j + 1) = MaxUsage * j + MaxUsage /\ MaxUsage * j \in Nat
    BY <2>1, Products, BudgetAssumption
  <2> QED
    BY <1>3, <2>2, <2>3, <2>4, <2>5, BudgetAssumption
<1> QED
  BY <1>5, <1>6, <1>7, <1>8 DEF UsageInvariant

\* A charge whose write fails gives the lock back and leaves the row alone.
LEMMA RaiseKeeps ==
    ASSUME UsageInvariant, NEW c \in Callers, ChargeRaises(c), UNCHANGED subVars
    PROVE  UsageInvariant'
<1>1. /\ at[c] = "store" /\ at' = [at EXCEPT ![c] = "idle"]
      /\ "idle" \in Points /\ "idle" \notin Unpaid /\ at[c] \in Unpaid
      /\ UNCHANGED <<parts, used, charged, skips, refused>>
      /\ request' = [request EXCEPT ![c] = NoRequest]
      /\ loaded' = [loaded EXCEPT ![c] = 0]
      /\ lock' = None
  BY DEF ChargeRaises, Return, Goto, Points, Unpaid
<1>2. TypeOK /\ ledger' = ledger /\ UNCHANGED <<sub, tokens, got>>
  BY DEF UsageInvariant, subVars, manager
<1>3. TypeOK'
  <2>1. at' \in [Callers -> Points]
    BY <1>1, <1>2, ThreadMoves
  <2>2. request' \in [Callers -> Requests] /\ loaded' \in [Callers -> Nat]
    BY <1>1, <1>2, RequestTyped DEF TypeOK
  <2> QED
    BY <1>1, <1>2, <2>1, <2>2 DEF TypeOK
<1>4. ChargeExclusive'
  <2>1. at'[c] = "idle" /\ \A d \in Callers \ {c} : at'[d] = at[d]
    BY <1>1, <1>2 DEF TypeOK
  <2>2. \A d \in Callers \ {c} : at[d] # "store"
    BY <1>1 DEF UsageInvariant, ChargeExclusive
  <2> QED
    BY <1>1, <2>1, <2>2, GatewayAssumption DEF ChargeExclusive
<1>5. LedgerFirst'
  BY <1>2 DEF UsageInvariant, LedgerFirst
<1>6. OverrunBounded'
  <2> DEFINE i == Cardinality(InFlight)
             j == Cardinality(InFlight')
             bound == MaxTokens + MaxUsage * (Cardinality(Callers) + skips)
  <2> SUFFICES ASSUME "budgets" \in parts, ledger = 0
               PROVE  used + MaxUsage * j <= bound
    BY <1>1, <1>2 DEF OverrunBounded
  <2>1. j \in Nat /\ i \in Nat /\ j <= i
    BY <1>1, <1>2, ThreadMoves, InFlightFinite
  <2>2. used + MaxUsage * i <= bound /\ used \in Nat
    BY DEF UsageInvariant, OverrunBounded, TypeOK
  <2>3. bound \in Nat
    <3>1. Cardinality(Callers) + skips \in Nat
      BY <1>2, InFlightFinite DEF TypeOK
    <3> QED
      BY <3>1, Products, BudgetAssumption
  <2> HIDE DEF i, j, bound
  <2>4. MaxUsage * j <= MaxUsage * i /\ MaxUsage * j \in Nat /\ MaxUsage * i \in Nat
    BY <2>1, Products, BudgetAssumption
  <2> QED
    BY <2>2, <2>3, <2>4
<1> QED
  BY <1>3, <1>4, <1>5, <1>6 DEF UsageInvariant

\* Subagents write the row only after their usage is in the ledger.
LEMMA SubagentKeeps ==
    ASSUME UsageInvariant, NEW a \in Agents, SubStep(a), UNCHANGED gatewayOnly
    PROVE  UsageInvariant'
<1> USE DEF Step
<1>1. /\ TypeOK
      /\ UNCHANGED <<parts, at, lock, refused, request, skips, charged, loaded>>
  BY DEF UsageInvariant, gatewayOnly, local
<1>2. /\ sub' \in [Agents -> SubPoints] /\ tokens' \in [Agents -> Nat]
      /\ got' \in [Agents -> Nat] /\ used' \in Nat /\ ledger' \in Nat
  <2> USE BudgetAssumption DEF TypeOK, SubPoints, manager
  <2>1. CASE AcquireSlot(a)
    BY <1>1, <2>1 DEF AcquireSlot
  <2>2. CASE EnterActive(a)
    BY <1>1, <2>2 DEF EnterActive
  <2>3. CASE RunnerEnds(a)
    <3>1. PICK t \in Usages \cup {0} : tokens' = [tokens EXCEPT ![a] = t]
      BY <2>3 DEF RunnerEnds
    <3>2. t \in Nat
      OBVIOUS
    <3> QED
      BY <1>1, <2>3, <3>1, <3>2 DEF RunnerEnds
  <2>4. CASE LeaveActive(a)
    BY <1>1, <2>4 DEF LeaveActive
  <2>5. CASE ReleaseSlot(a)
    BY <1>1, <2>5 DEF ReleaseSlot
  <2>6. CASE RecordUsage(a)
    BY <1>1, <2>6 DEF RecordUsage
  <2>7. CASE PersistRead(a)
    BY <1>1, <2>7 DEF PersistRead
  <2>8. CASE PersistWrite(a)
    BY <1>1, <2>8 DEF PersistWrite
  <2> QED
    BY <2>1, <2>2, <2>3, <2>4, <2>5, <2>6, <2>7, <2>8 DEF SubStep
<1>3. TypeOK'
  BY <1>1, <1>2 DEF TypeOK
<1>4. /\ ledger' = 0 => ledger = 0 /\ used' = used
      /\ LedgerFirst'
  <2> USE DEF UsageInvariant, TypeOK, LedgerFirst, manager
  <2>1. CASE AcquireSlot(a)
    BY <2>1 DEF AcquireSlot
  <2>2. CASE EnterActive(a)
    BY <2>2 DEF EnterActive
  <2>3. CASE RunnerEnds(a)
    BY <2>3 DEF RunnerEnds
  <2>4. CASE LeaveActive(a)
    BY <2>4 DEF LeaveActive
  <2>5. CASE ReleaseSlot(a)
    BY <2>5 DEF ReleaseSlot
  <2>6. CASE RecordUsage(a)
    BY <2>6 DEF RecordUsage
  <2>7. CASE PersistRead(a)
    BY <2>7 DEF PersistRead
  <2>8. CASE PersistWrite(a)
    BY <2>8 DEF PersistWrite
  <2> QED
    BY <2>1, <2>2, <2>3, <2>4, <2>5, <2>6, <2>7, <2>8 DEF SubStep
<1>5. ChargeExclusive' /\ OverrunBounded'
  BY <1>1, <1>4 DEF UsageInvariant, ChargeExclusive, OverrunBounded, InFlight
<1> QED
  BY <1>3, <1>4, <1>5 DEF UsageInvariant

\* No step of a thread, a subagent or the clock breaks the invariant.
LEMMA NextUsage == UsageInvariant /\ [Next]_vars => UsageInvariant'
<1> SUFFICES ASSUME UsageInvariant, [Next]_vars PROVE UsageInvariant'
  OBVIOUS
<1>1. ASSUME NEW c \in Callers, Proceed(c), UNCHANGED subVars PROVE UsageInvariant'
  <2>1. TypeOK
    BY DEF UsageInvariant
  <2> QED
    BY <1>1, <2>1, ProceedCases, QuietKeeps, AllowKeeps, FailOpenKeeps, LoadKeeps,
       StoreKeeps, RaiseKeeps
<1>2. ASSUME UNCHANGED <<at, loaded, refused, request, parts, used, charged, skips, lock>>,
             UNCHANGED subVars
      PROVE  UsageInvariant'
  BY <1>2 DEF UsageInvariant, TypeOK, ChargeExclusive, LedgerFirst, OverrunBounded,
              InFlight, subVars, manager
<1>3. ASSUME NEW c \in Callers, NEW k \in Keys \cup {None}, Call(c, k), UNCHANGED subVars
      PROVE  UsageInvariant'
  <2>1. TypeOK
    BY DEF UsageInvariant
  <2> QED
    BY <1>2, <1>3, <2>1, CallQuiet, QuietKeeps
<1>4. ASSUME Tick, UNCHANGED subVars PROVE UsageInvariant'
  BY <1>2, <1>4 DEF Tick, tracker, local
<1>5. ASSUME NEW a \in Agents, SubStep(a), UNCHANGED gatewayOnly PROVE UsageInvariant'
  BY <1>5, SubagentKeeps
<1>6. ASSUME UNCHANGED vars PROVE UsageInvariant'
  BY <1>2, <1>6 DEF vars, gatewayVars, tracker, local
<1> QED
  BY <1>1, <1>3, <1>4, <1>5, <1>6 DEF Next, GatewayNext, SubNext

\* The budget of a run is overrun by at most one call per thread and per check
\* that failed open, whatever the number of threads, retries, fallbacks and
\* grants, and charge is a critical section.
THEOREM UsageCorrect == Spec => []UsageInvariant
<1>1. Init => UsageInvariant
  BY InitUsage
<1>2. UsageInvariant /\ [Next]_vars => UsageInvariant'
  BY NextUsage
<1> QED
  BY <1>1, <1>2, PTL DEF Spec

\* A nonempty set of naturals has a least element.
LEMMA LeastNatural ==
    ASSUME NEW S \in SUBSET Nat, S # {}
    PROVE  \E n \in S : \A m \in S : n <= m
<1> DEFINE R == OpToRel(<, Nat)
<1>1. IsWellFoundedOn(R, Nat)
  BY NatLessThanWellFounded
<1>2. \A x, y \in Nat : y < x => <<y, x>> \in R
  BY DEF OpToRel
<1> HIDE DEF R
<1>3. PICK n \in S : \A m \in S : ~(<<m, n>> \in R)
  BY <1>1, WFMin
<1>4. \A m \in S : ~(m < n)
  BY <1>2, <1>3
<1> QED
  BY <1>4

-----------------------------------------------------------------------------
(* Routing.                                                                 *)

\* What a snapshot consists of; the one of a call without a health provider.
LEMMA SnapshotTyped ==
    /\ NoHealth \in Snapshots
    /\ \A h \in Snapshots : /\ h.known \in Seq(Providers)
                            /\ h.available \subseteq Providers
                            /\ \A p \in Providers : h.rank[p] \in Nat
<1> DEFINE F == Seq(Providers)
           R == [known : F, available : SUBSET Providers, rank : [Providers -> Nat]]
<1>1. <<>> \in F /\ DOMAIN <<>> = {}
  OBVIOUS
<1>2. Snapshots \subseteq R
  BY DEF Snapshots
<1> HIDE DEF F
<1>3. NoHealth \in R /\ NoHealth.known = <<>> /\ NoHealth.available = Providers
      /\ \A p, q \in Providers : NoHealth.rank[p] = NoHealth.rank[q]
  BY <1>1 DEF NoHealth
<1>4. \A h \in R : /\ h.known \in F
                   /\ h.available \subseteq Providers
                   /\ \A p \in Providers : h.rank[p] \in Nat
  OBVIOUS
<1>5. NoHealth \in Snapshots
  BY <1>1, <1>3 DEF Snapshots, F, Among
<1> HIDE DEF R
<1> QED
  BY <1>2, <1>4, <1>5 DEF F

\* sorted() on the positions of a universe: a strict total order.
LEMMA SortOrder ==
    ASSUME NEW h \in Snapshots, NEW u \in Seq(Providers),
           NEW i \in DOMAIN u, NEW j \in DOMAIN u
    PROVE  /\ ~(SortsBefore(u, h, i, j) /\ SortsBefore(u, h, j, i))
           /\ i # j => SortsBefore(u, h, i, j) \/ SortsBefore(u, h, j, i)
           /\ SortsBefore(u, h, i, j) => /\ h.rank[u[i]] <= h.rank[u[j]]
                                         /\ h.rank[u[i]] = h.rank[u[j]] => i < j
           /\ \A k \in DOMAIN u :
                SortsBefore(u, h, k, i) /\ SortsBefore(u, h, i, j) => SortsBefore(u, h, k, j)
<1>1. /\ \A k \in DOMAIN u : u[k] \in Providers /\ k \in Nat
      /\ \A p \in Providers : h.rank[p] \in Nat
  BY SnapshotTyped
<1> QED
  BY <1>1 DEF SortsBefore

\* ProviderRouter.select returns every available provider of its universe once,
\* best first, whatever the policy repeats or leaves empty and the ranks tie.
LEMMA SelectCorrect ==
    ASSUME NEW h \in Snapshots, NEW f \in Seq(Providers)
    PROVE  Select(f, h) \in Seq(Providers) /\ WellRouted(f, h, Select(f, h))
<1> DEFINE u == Universe(f, h)
<1>a. /\ u \in Seq(Providers)
      /\ Among(u) = Among(IF f = <<>> THEN h.known ELSE f)
  BY SnapshotTyped DEF Universe
<1> HIDE DEF u
<1> DEFINE E == Eligible(u, h)
           N == Cardinality(E)
           Before(i) == {j \in E : SortsBefore(u, h, j, i)}
           pos == [i \in E |-> Cardinality(Before(i))]
           Nth(n) == CHOOSE i \in E : Cardinality({j \in E : SortsBefore(u, h, j, i)}) = n - 1
<1>1. /\ E \subseteq DOMAIN u /\ DOMAIN u = 1..Len(u)
      /\ Len(u) \in Nat
      /\ \A i \in DOMAIN u : u[i] \in Providers
  BY <1>a DEF Eligible
<1>b. \A i, j \in E : i # j => u[i] # u[j]
  BY <1>1 DEF Eligible
<1>2. IsFiniteSet(E) /\ N \in Nat
  <2>1. IsFiniteSet(1..Len(u))
    BY <1>1, FS_Interval
  <2>2. E \subseteq 1..Len(u)
    BY <1>1
  <2> HIDE DEF E
  <2> QED
    BY <2>1, <2>2, FS_Subset, FS_CardinalityType
<1>3. \A i \in E : IsFiniteSet(Before(i)) /\ pos[i] \in 0..(N - 1)
  <2> SUFFICES ASSUME NEW i \in E
               PROVE  IsFiniteSet(Before(i)) /\ Cardinality(Before(i)) \in 0..(N - 1)
    OBVIOUS
  <2>1. Before(i) \subseteq E \ {i}
    BY <1>a, <1>1, SortOrder
  <2>2. IsFiniteSet(E \ {i}) /\ Cardinality(E \ {i}) = N - 1
    BY <1>2, FS_RemoveElement
  <2>3. IsFiniteSet(Before(i)) /\ Cardinality(Before(i)) <= N - 1
    BY <2>1, <2>2, FS_Subset
  <2> QED
    BY <1>2, <2>3, FS_CardinalityType
<1>4. \A i, j \in E : SortsBefore(u, h, i, j) => pos[i] < pos[j]
  <2> SUFFICES ASSUME NEW i \in E, NEW j \in E, SortsBefore(u, h, i, j)
               PROVE  Cardinality(Before(i)) < Cardinality(Before(j))
    OBVIOUS
  <2>1. Before(i) \subseteq Before(j) /\ i \in Before(j) /\ i \notin Before(i)
    BY <1>a, <1>1, SortOrder
  <2>2. /\ Cardinality(Before(i)) <= Cardinality(Before(j))
        /\ Cardinality(Before(j)) # Cardinality(Before(i))
    BY <1>3, <2>1, FS_Subset
  <2>3. Cardinality(Before(i)) \in Nat /\ Cardinality(Before(j)) \in Nat
    BY <1>3, FS_CardinalityType
  <2> QED
    BY <2>2, <2>3
<1>5. pos \in Injection(E, 0..(N - 1))
  <2>1. pos \in [E -> 0..(N - 1)]
    BY <1>3
  <2>2. \A i, j \in E : pos[i] = pos[j] => i = j
    <3> SUFFICES ASSUME NEW i \in E, NEW j \in E, i # j PROVE pos[i] # pos[j]
      OBVIOUS
    <3>1. SortsBefore(u, h, i, j) \/ SortsBefore(u, h, j, i)
      BY <1>a, <1>1, SortOrder
    <3>2. pos[i] \in Int /\ pos[j] \in Int
      <4>1. pos[i] \in 0..(N - 1) /\ pos[j] \in 0..(N - 1)
        BY <1>3
      <4> HIDE DEF pos, N
      <4> QED
        BY <1>2, <4>1
    <3> HIDE DEF pos
    <3> QED
      BY <1>4, <3>1, <3>2
  <2> QED
    BY <2>1, <2>2 DEF Injection, IsInjective
<1>6. pos \in Surjection(E, 0..(N - 1))
  <2>1. IsFiniteSet(0..(N - 1)) /\ Cardinality(0..(N - 1)) = N
    <3>1. N \in Nat /\ N - 1 \in Int /\ 0 \in Int
      BY <1>2
    <3> HIDE DEF N
    <3> QED
      BY <3>1, FS_Interval
  <2> HIDE DEF pos
  <2> QED
    BY <1>5, <2>1, FS_Injection
<1>7. \A n \in 1..N : Nth(n) \in E /\ pos[Nth(n)] = n - 1
  <2> SUFFICES ASSUME NEW n \in 1..N PROVE Nth(n) \in E /\ pos[Nth(n)] = n - 1
    OBVIOUS
  <2>1. n - 1 \in 0..(N - 1)
    BY <1>2
  <2>2. \E i \in E : pos[i] = n - 1
    BY <1>6, <2>1 DEF Surjection
  <2> QED
    BY <2>2
<1> HIDE DEF Nth
<1>8. \A i \in E : pos[i] + 1 \in 1..N /\ Nth(pos[i] + 1) = i
  <2> SUFFICES ASSUME NEW i \in E PROVE pos[i] + 1 \in 1..N /\ Nth(pos[i] + 1) = i
    OBVIOUS
  <2>1. pos[i] \in Int /\ pos[i] + 1 \in 1..N /\ (pos[i] + 1) - 1 = pos[i]
    <3>1. pos[i] \in 0..(N - 1)
      BY <1>3
    <3> HIDE DEF pos, N
    <3> QED
      BY <1>2, <3>1
  <2>2. \A j, k \in E : pos[j] = pos[k] => j = k
    BY <1>5 DEF Injection, IsInjective
  <2> HIDE DEF pos
  <2> QED
    BY <1>7, <2>1, <2>2
<1> HIDE DEF pos
<1> DEFINE S == Select(f, h)
<1>9. S = [n \in 1..N |-> u[Nth(n)]]
  BY DEF Select, Nth, u
<1>10. S \in Seq(Providers) /\ DOMAIN S = 1..N /\ \A n \in 1..N : S[n] = u[Nth(n)]
  <2>1. \A n \in 1..N : u[Nth(n)] \in Providers
    BY <1>1, <1>7
  <2> QED
    BY <1>2, <1>9, <2>1
<1> HIDE DEF S
<1>11. {S[n] : n \in DOMAIN S} = {u[i] : i \in DOMAIN u} \cap h.available
  <2>1. ASSUME NEW n \in DOMAIN S
        PROVE  S[n] \in {u[i] : i \in DOMAIN u} \cap h.available
    BY <1>1, <1>7, <1>10, <2>1 DEF Eligible
  <2>2. ASSUME NEW i \in DOMAIN u, u[i] \in h.available
        PROVE  u[i] \in {S[n] : n \in DOMAIN S}
    <3> DEFINE Same == {j \in DOMAIN u : u[j] = u[i]}
    <3>1. PICK j \in Same : \A m \in Same : j <= m
      <4>1. Same \in SUBSET Nat /\ i \in Same
        BY <1>1
      <4> HIDE DEF Same
      <4> QED
        BY <4>1, LeastNatural
    <3>2. j \in E
      BY <1>1, <2>2, <3>1 DEF Eligible
    <3>3. u[j] = S[pos[j] + 1] /\ pos[j] + 1 \in DOMAIN S
      BY <1>8, <1>10, <3>2
    <3> QED
      BY <3>1, <3>3
  <2> QED
    BY <2>1, <2>2
<1>12. ASSUME NEW m \in DOMAIN S, NEW n \in DOMAIN S, m < n
       PROVE  /\ S[m] # S[n] /\ h.rank[S[m]] <= h.rank[S[n]]
              /\ h.rank[S[m]] = h.rank[S[n]] =>
                   \A k \in DOMAIN u : u[k] = S[n] => \E l \in 1..(k - 1) : u[l] = S[m]
  <2> DEFINE i == Nth(m)
             j == Nth(n)
  <2>1. i \in E /\ j \in E /\ pos[i] = m - 1 /\ pos[j] = n - 1 /\ m \in Int /\ n \in Int
    BY <1>7, <1>10
  <2>2. i # j /\ ~SortsBefore(u, h, j, i)
    BY <1>4, <1>12, <2>1
  <2>3. SortsBefore(u, h, i, j)
    BY <1>a, <1>1, <2>1, <2>2, SortOrder
  <2>4. u[i] = S[m] /\ u[j] = S[n]
    BY <1>10
  <2>5. i \in DOMAIN u /\ j \in DOMAIN u /\ i \in Nat /\ j \in Nat
    BY <1>1, <2>1
  <2>6. u[i] # u[j]
    BY <1>b, <2>1, <2>2
  <2>7. /\ h.rank[u[i]] <= h.rank[u[j]]
        /\ h.rank[u[i]] = h.rank[u[j]] => i < j
    BY <1>a, <2>3, <2>5, SortOrder
  <2> HIDE DEF i, j
  <2>8. ASSUME i < j, NEW k \in DOMAIN u, u[k] = u[j]
        PROVE  i \in 1..(k - 1)
    <3>1. k \in Nat /\ ~(k < j)
      BY <1>1, <2>1, <2>8 DEF Eligible
    <3> QED
      BY <1>1, <2>5, <2>8, <3>1
  <2> QED
    BY <2>4, <2>6, <2>7, <2>8
<1> QED
  BY <1>a, <1>10, <1>11, <1>12 DEF WellRouted, Among, S, u

-----------------------------------------------------------------------------
(* The locals of the calls.                                                 *)

\* Where a call has been admitted to a provider.
Admitted == {"grant", "invoke", "quarantine", "charge", "store", "put"}

LocalsTyped ==
    /\ at \in [Callers -> Points]
    /\ key \in [Callers -> Keys \cup {None}]
    /\ request \in [Callers -> Requests]
    /\ health \in [Callers -> Snapshots]
    /\ candidates \in [Callers -> Seq(Providers)]
    /\ failed \in [Callers -> Seq(Providers)]
    /\ attempts \in [Callers -> 0..(MaxRetries + 1)]
    /\ rejected \in [Callers -> Nat]
    /\ grant \in [Callers -> Refs \cup {None}]

\* While the fallback loop runs there is a provider to go to, the call was
\* routed, and a grant is there to be quarantined.
CallOK(c) ==
    /\ at[c] \in Admitted \cup {"limit"} => Len(failed[c]) < Len(candidates[c])
    /\ at[c] \in {"idle", "precheck", "route"} => failed[c] = <<>>
    /\ at[c] = "quarantine" => grant[c] # None
    /\ at[c] \in Unpaid \ {"route"} =>
         WellRouted(request[c].fallback, health[c], candidates[c])

CallsOK == LocalsTyped /\ \A c \in Callers : CallOK(c)

\* A call that ends leaves nothing behind.
LEMMA ReturnOK ==
    ASSUME CallsOK, NEW c \in Callers, Return(c)
    PROVE  CallsOK'
<1>1. NoHealth \in Snapshots /\ NoRequest \in Requests /\ <<>> \in Seq(Providers)
      /\ 0 \in 0..(MaxRetries + 1)
  BY GatewayAssumption, SnapshotTyped, RequestTyped
<1>2. LocalsTyped'
  BY <1>1 DEF CallsOK, LocalsTyped, Return, Goto, Points
<1>3. \A d \in Callers : CallOK(d)'
  BY DEF CallsOK, LocalsTyped, CallOK, Return, Goto, Admitted, Unpaid
<1> QED
  BY <1>2, <1>3 DEF CallsOK

\* The provider a call is at.
LEMMA CurrentProvider ==
    ASSUME CallsOK, NEW c \in Callers, at[c] \in Admitted \cup {"limit"}
    PROVE  Current(c) \in Providers
<1>1. Len(failed[c]) \in Nat /\ Len(candidates[c]) \in Nat
      /\ Len(failed[c]) < Len(candidates[c]) /\ candidates[c] \in Seq(Providers)
  BY DEF CallsOK, LocalsTyped, CallOK
<1>2. Len(failed[c]) + 1 \in 1..Len(candidates[c])
  BY <1>1
<1> QED
  BY <1>1, <1>2 DEF Current

\* The next provider is one of the candidates.
LEMMA ProviderFailsOK ==
    ASSUME CallsOK, NEW c \in Callers, ProviderFails(c), at[c] \in {"grant", "invoke"}
    PROVE  CallsOK'
<1>1. CASE Len(failed[c]) + 1 = Len(candidates[c])
  BY <1>1, ReturnOK DEF ProviderFails
<1>2. CASE Len(failed[c]) + 1 # Len(candidates[c])
  <2>1. Current(c) \in Providers /\ 0 \in 0..(MaxRetries + 1)
    BY CurrentProvider, GatewayAssumption DEF Admitted
  <2>2. Append(failed[c], Current(c)) \in Seq(Providers)
        /\ Len(Append(failed[c], Current(c))) = Len(failed[c]) + 1
    BY <2>1 DEF CallsOK, LocalsTyped
  <2>3. /\ failed' = [failed EXCEPT ![c] = Append(failed[c], Current(c))]
        /\ at' = [at EXCEPT ![c] = "limit"]
        /\ attempts' = [attempts EXCEPT ![c] = 0]
        /\ rejected' = [rejected EXCEPT ![c] = 0]
        /\ grant' = [grant EXCEPT ![c] = None]
        /\ UNCHANGED <<key, request, health, candidates>>
    BY <1>2 DEF ProviderFails, Goto
  <2>4. LocalsTyped'
    BY <2>1, <2>2, <2>3 DEF CallsOK, LocalsTyped, Points
  <2>5. Len(failed[c]) + 1 < Len(candidates[c])
        /\ WellRouted(request[c].fallback, health[c], candidates[c])
    BY <1>2 DEF CallsOK, LocalsTyped, CallOK, Admitted, Unpaid
  <2>6. \A d \in Callers : CallOK(d)'
    BY <2>2, <2>3, <2>5 DEF CallsOK, LocalsTyped, CallOK, Admitted, Unpaid
  <2> QED
    BY <2>4, <2>6 DEF CallsOK
<1> QED
  BY <1>1, <1>2

\* So does one that tries the provider again, within its retries.
LEMMA RetryOK ==
    ASSUME CallsOK, NEW c \in Callers, Retry(c), at[c] \in {"grant", "invoke"}
    PROVE  CallsOK'
<1>1. CASE attempts[c] - 1 >= MaxRetries
  BY <1>1, ProviderFailsOK DEF Retry
<1>2. CASE ~(attempts[c] - 1 >= MaxRetries)
  <2> DEFINE x == AttemptAt(Current(c))
  <2>1. x \in {"grant", "invoke"}
    BY DEF AttemptAt
  <2>2. /\ attempts' = [attempts EXCEPT ![c] = attempts[c] + 1]
        /\ grant' = [grant EXCEPT ![c] = None]
        /\ at' = [at EXCEPT ![c] = x]
        /\ UNCHANGED <<key, request, health, candidates, failed, rejected>>
    BY <1>2 DEF Retry, Goto
  <2> HIDE DEF x
  <2>3. attempts[c] + 1 \in 0..(MaxRetries + 1)
    <3>1. attempts[c] \in 0..(MaxRetries + 1) /\ MaxRetries \in Nat
      BY GatewayAssumption DEF CallsOK, LocalsTyped
    <3> QED
      BY <1>2, <3>1
  <2>4. LocalsTyped'
    BY <2>1, <2>2, <2>3 DEF CallsOK, LocalsTyped, Points
  <2>5. \A d \in Callers : CallOK(d)'
    BY <2>1, <2>2 DEF CallsOK, LocalsTyped, CallOK, Admitted, Unpaid
  <2> QED
    BY <2>4, <2>5 DEF CallsOK
<1> QED
  BY <1>1, <1>2

\* The reference acquire chooses: the first one from the cursor that is not
\* quarantined.
LEMMA IndexChosen ==
    ASSUME NEW p \in Providers, cursor[p] \in Nat, Offsets(p) # {}
    PROVE  /\ Index(p) \in 0..(Len(Pool[p]) - 1)
           /\ Pool[p][Index(p) + 1] \in Refs \ quarantined[p]
           /\ \E o \in Offsets(p) : /\ \A q \in Offsets(p) : o <= q
                                    /\ Index(p) = (cursor[p] + o) % Len(Pool[p])
           /\ NextCursor(p) \in Nat
<1>1. Pool[p] \in Seq(Refs) /\ Len(Pool[p]) \in Nat
  BY GatewayAssumption
<1>2. Offsets(p) \in SUBSET Nat
  BY DEF Offsets
<1> DEFINE o == CHOOSE x \in Offsets(p) : \A q \in Offsets(p) : x <= q
<1>3. o \in Offsets(p) /\ \A q \in Offsets(p) : o <= q
  BY <1>2, LeastNatural
<1>4. Index(p) = (cursor[p] + o) % Len(Pool[p])
  BY DEF Index
<1> HIDE DEF o
<1>5. o \in Nat /\ Len(Pool[p]) > 0
      /\ Pool[p][((cursor[p] + o) % Len(Pool[p])) + 1] \notin quarantined[p]
  BY <1>1, <1>3 DEF Offsets
<1>6. Index(p) \in 0..(Len(Pool[p]) - 1) /\ Index(p) + 1 \in 1..Len(Pool[p])
      /\ (Index(p) + 1) % Len(Pool[p]) \in Nat
  <2> DEFINE L == Len(Pool[p])
             n == cursor[p] + o
  <2>1. L \in Nat \ {0} /\ n \in Nat
    BY <1>1, <1>5
  <2>2. \A m \in Nat : m % L \in 0..(L - 1)
    <3> HIDE DEF L
    <3> QED
      BY <2>1
  <2>3. Index(p) = n % L
    BY <1>4
  <2> HIDE DEF L, n
  <2>4. Index(p) \in 0..(L - 1) /\ Index(p) + 1 \in 1..L /\ Index(p) + 1 \in Nat
    BY <2>1, <2>2, <2>3
  <2>5. (Index(p) + 1) % L \in Nat
    BY <2>1, <2>2, <2>4
  <2> QED
    BY <2>4, <2>5 DEF L
<1>7. Pool[p][Index(p) + 1] \in Refs
  BY <1>1, <1>6
<1> QED
  BY <1>3, <1>4, <1>5, <1>6, <1>7 DEF NextCursor

PoolsTyped ==
    /\ cursor \in [Providers -> Nat]
    /\ quarantined \in [Providers -> SUBSET Refs]
    /\ granted \in [Providers -> SUBSET Refs]
    /\ qlog \in Seq(Providers \X Refs)

\* The locals of a call stay good whatever the call does next.
LEMMA ProceedOK ==
    ASSUME CallsOK, PoolsTyped, NEW c \in Callers, Proceed(c)
    PROVE  CallsOK'
<1> DEFINE Move(x) == /\ at' = [at EXCEPT ![c] = x]
                      /\ UNCHANGED <<key, request, health, candidates, failed, rejected>>
<1>1. CASE PrecheckAllows(c) \/ PrecheckFailsOpen(c)
  BY <1>1 DEF PrecheckAllows, PrecheckFailsOpen, Goto, local, CallsOK, LocalsTyped, CallOK,
              Points, Admitted, Unpaid
<1>2. CASE PrecheckBlocks(c)
  BY <1>2, ReturnOK DEF PrecheckBlocks
<1>3. CASE Route(c)
  <2>1. PICK h \in Healths :
          IF Select(request[c].fallback, h) = <<>>
            THEN Return(c)
            ELSE /\ health' = [health EXCEPT ![c] = h]
                 /\ candidates' = [candidates EXCEPT ![c] = Select(request[c].fallback, h)]
                 /\ Goto(c, "limit")
                 /\ UNCHANGED <<key, request, skip, failed, attempts, grant, loaded, rejected>>
    BY <1>3 DEF Route
  <2> DEFINE S == Select(request[c].fallback, h)
  <2>2. CASE S = <<>>
    BY <2>1, <2>2, ReturnOK
  <2>3. CASE S # <<>>
    <3>0. h \in Snapshots /\ request[c].fallback \in Seq(Providers)
      BY GatewayAssumption, RequestTyped DEF CallsOK, LocalsTyped
    <3>1. S \in Seq(Providers) /\ WellRouted(request[c].fallback, h, S)
      BY <3>0, SelectCorrect
    <3>2. /\ health' = [health EXCEPT ![c] = h]
          /\ candidates' = [candidates EXCEPT ![c] = S]
          /\ at' = [at EXCEPT ![c] = "limit"]
          /\ UNCHANGED <<key, request, failed, attempts, grant, rejected>>
      BY <2>1, <2>3 DEF Goto
    <3> HIDE DEF S
    <3>3. Len(S) > 0
      BY <2>3, <3>1
    <3>4. failed[c] = <<>>
      BY <1>3 DEF Route, CallsOK, CallOK
    <3> QED
      BY <3>0, <3>1, <3>2, <3>3, <3>4
         DEF CallsOK, LocalsTyped, CallOK, Points, Admitted, Unpaid
  <2> QED
    BY <2>2, <2>3
<1>4. CASE Acquire(c)
  <2> DEFINE x == AttemptAt(Current(c))
  <2>1. x \in {"grant", "invoke"}
    BY DEF AttemptAt
  <2>2. /\ at[c] = "limit" /\ Move(x)
        /\ attempts' = [attempts EXCEPT ![c] = 1] /\ UNCHANGED grant
    BY <1>4 DEF Acquire, Goto
  <2>3. 1 \in 0..(MaxRetries + 1)
    BY GatewayAssumption
  <2> HIDE DEF x
  <2>4. LocalsTyped'
    BY <2>1, <2>2, <2>3 DEF CallsOK, LocalsTyped, Points
  <2>5. \A d \in Callers : CallOK(d)'
    BY <2>1, <2>2 DEF CallsOK, LocalsTyped, CallOK, Admitted, Unpaid
  <2> QED
    BY <2>4, <2>5 DEF CallsOK
<1>5. CASE PoolExhausted(c)
  BY <1>5, ProviderFailsOK DEF PoolExhausted
<1>6. CASE AcquireGrant(c)
  <2> DEFINE ref == Pool[Current(c)][Index(Current(c)) + 1]
  <2>1. /\ at[c] = "grant" /\ Move("invoke") /\ UNCHANGED attempts
        /\ grant' = [grant EXCEPT ![c] = ref]
    BY <1>6 DEF AcquireGrant, Goto
  <2>2. Current(c) \in Providers /\ Offsets(Current(c)) # {}
    BY <1>6, <2>1, CurrentProvider DEF Admitted, AcquireGrant
  <2>3. ref \in Refs
    BY <2>2, IndexChosen DEF PoolsTyped
  <2> HIDE DEF ref
  <2> QED
    BY <2>1, <2>3 DEF CallsOK, LocalsTyped, CallOK, Points, Admitted, Unpaid
<1>7. CASE GrantSourceFails(c)
  BY <1>7, RetryOK DEF GrantSourceFails
<1>8. CASE Succeeds(c)
  <2>1. \E x \in {"charge", "put"} : Move(x) /\ at[c] = "invoke" /\ UNCHANGED <<attempts, grant>>
    BY <1>8 DEF Succeeds, Goto, local
  <2> QED
    BY <2>1 DEF CallsOK, LocalsTyped, CallOK, Points, Admitted, Unpaid
<1>9. CASE FailsRetryably(c)
  BY <1>9, RetryOK DEF FailsRetryably
<1>10. CASE FailsForGood(c)
  BY <1>10, ProviderFailsOK DEF FailsForGood
<1>11. CASE RejectsGrant(c)
  BY <1>11 DEF RejectsGrant, Goto, CallsOK, LocalsTyped, CallOK, Points, Admitted, Unpaid
<1>12. CASE Quarantine(c)
  BY <1>12 DEF Quarantine, Goto, CallsOK, LocalsTyped, CallOK, Points, Admitted, Unpaid
<1>13. CASE ChargeLoad(c) \/ ChargeFails(c)
  BY <1>13 DEF ChargeLoad, ChargeFails, Goto, local, CallsOK, LocalsTyped, CallOK, Points,
               Admitted, Unpaid
<1>14. CASE ChargeStore(c)
  BY <1>14 DEF ChargeStore, Goto, local, CallsOK, LocalsTyped, CallOK, Points, Admitted,
               Unpaid
<1>15. CASE Put(c) \/ ChargeRaises(c)
  BY <1>15, ReturnOK DEF Put, ChargeRaises
<1> QED
  BY <1>1, <1>2, <1>3, <1>4, <1>5, <1>6, <1>7, <1>8, <1>9, <1>10, <1>11, <1>12, <1>13,
     <1>14, <1>15 DEF Proceed

-----------------------------------------------------------------------------
(* Credential pools.                                                        *)

PoolsOK == PoolsTyped /\ QuarantineHolds

\* A rejected grant leaves the cache and the log gains it, whoever holds it; a
\* reference that is granted is not quarantined.
LEMMA ProceedPools ==
    ASSUME CallsOK, PoolsOK, NEW c \in Callers, Proceed(c)
    PROVE  PoolsOK' /\ \A p \in Providers : quarantined[p] \subseteq quarantined'[p]
<1>1. ASSUME UNCHANGED <<cursor, quarantined, granted, qlog>>
      PROVE  PoolsOK' /\ \A p \in Providers : quarantined[p] \subseteq quarantined'[p]
  BY <1>1 DEF PoolsOK, PoolsTyped, QuarantineHolds
<1>2. CASE AcquireGrant(c)
  <2> DEFINE p == Current(c)
             ref == Pool[p][Index(p) + 1]
  <2>1. /\ p \in Providers /\ cursor[p] \in Nat /\ Offsets(p) # {}
        /\ cursor' = [cursor EXCEPT ![p] = NextCursor(p)]
        /\ granted' = [granted EXCEPT ![p] = granted[p] \cup {ref}]
        /\ UNCHANGED <<quarantined, qlog>>
    BY <1>2, CurrentProvider DEF AcquireGrant, Admitted, PoolsOK, PoolsTyped
  <2>2. ref \in Refs \ quarantined[p] /\ NextCursor(p) \in Nat
    BY <2>1, IndexChosen
  <2> HIDE DEF p, ref
  <2> QED
    BY <2>1, <2>2 DEF PoolsOK, PoolsTyped, QuarantineHolds
<1>3. CASE GrantSourceFails(c)
  <2> DEFINE p == Current(c)
  <2>1. /\ p \in Providers /\ cursor[p] \in Nat /\ Offsets(p) # {}
        /\ cursor' = [cursor EXCEPT ![p] = NextCursor(p)]
        /\ UNCHANGED <<quarantined, granted, qlog>>
    BY <1>3, CurrentProvider DEF GrantSourceFails, Admitted, PoolsOK, PoolsTyped
  <2>2. NextCursor(p) \in Nat
    BY <2>1, IndexChosen
  <2> HIDE DEF p
  <2> QED
    BY <2>1, <2>2 DEF PoolsOK, PoolsTyped, QuarantineHolds
<1>4. CASE Quarantine(c)
  <2> DEFINE p == Current(c)
             ref == grant[c]
  <2>1. /\ p \in Providers /\ ref \in Refs
        /\ quarantined' = [quarantined EXCEPT ![p] = quarantined[p] \cup {ref}]
        /\ granted' = [granted EXCEPT ![p] = granted[p] \ {ref}]
        /\ qlog' = Append(qlog, <<p, ref>>)
        /\ UNCHANGED cursor
    BY <1>4, CurrentProvider DEF Quarantine, Admitted, CallsOK, LocalsTyped, CallOK
  <2> HIDE DEF p, ref
  <2>2. /\ qlog \in Seq(Providers \X Refs) /\ <<p, ref>> \in Providers \X Refs
        /\ quarantined \in [Providers -> SUBSET Refs] /\ granted \in [Providers -> SUBSET Refs]
        /\ cursor \in [Providers -> Nat]
    BY <2>1 DEF PoolsOK, PoolsTyped
  <2>3. /\ qlog' \in Seq(Providers \X Refs) /\ Len(qlog) \in Nat
        /\ DOMAIN qlog' = 1..(Len(qlog) + 1) /\ DOMAIN qlog = 1..Len(qlog)
        /\ \A i \in 1..Len(qlog) : qlog'[i] = qlog[i]
        /\ qlog'[Len(qlog) + 1] = <<p, ref>>
    BY <2>1, <2>2
  <2>4. PoolsTyped'
    BY <2>1, <2>2, <2>3 DEF PoolsTyped
  <2>5. ASSUME NEW q \in Providers, NEW r \in Refs
        PROVE  r \in quarantined'[q] <=> \E i \in DOMAIN qlog' : qlog'[i] = <<q, r>>
    <3>1. (\E i \in DOMAIN qlog' : qlog'[i] = <<q, r>>)
             <=> (\E i \in DOMAIN qlog : qlog[i] = <<q, r>>) \/ <<p, ref>> = <<q, r>>
      <4>1. DOMAIN qlog' = (DOMAIN qlog) \cup {Len(qlog) + 1}
        BY <2>3
      <4>2. \A i \in DOMAIN qlog : qlog'[i] = qlog[i]
        BY <2>3
      <4> QED
        BY <2>3, <4>1, <4>2, Zenon
    <3>2. r \in quarantined'[q] <=> r \in quarantined[q] \/ (q = p /\ r = ref)
      BY <2>1, <2>2
    <3>3. r \in quarantined[q] <=> \E i \in DOMAIN qlog : qlog[i] = <<q, r>>
      BY DEF PoolsOK, QuarantineHolds
    <3> QED
      BY <3>1, <3>2, <3>3
  <2>6. \A q \in Providers : granted'[q] \cap quarantined'[q] = {}
    BY <2>1, <2>2 DEF PoolsOK, QuarantineHolds
  <2>7. \A q \in Providers : quarantined[q] \subseteq quarantined'[q]
    BY <2>1, <2>2
  <2> QED
    BY <2>4, <2>5, <2>6, <2>7 DEF PoolsOK, QuarantineHolds
<1>5. \/ AcquireGrant(c) \/ GrantSourceFails(c) \/ Quarantine(c)
      \/ UNCHANGED <<cursor, quarantined, granted, qlog>>
  BY DEF Proceed, pools, PrecheckAllows, PrecheckBlocks, PrecheckFailsOpen, Route, Acquire,
         PoolExhausted, Succeeds, FailsRetryably, FailsForGood, RejectsGrant, ChargeLoad,
         ChargeFails, ChargeStore, ChargeRaises, Put
<1> QED
  BY <1>1, <1>2, <1>3, <1>4, <1>5

\* A step of a thread leaves the locals of the other threads alone.
LEMMA ProceedAlone ==
    ASSUME LocalsTyped, NEW c \in Callers, Proceed(c), NEW d \in Callers \ {c}
    PROVE  /\ at'[d] = at[d] /\ candidates'[d] = candidates[d] /\ failed'[d] = failed[d]
           /\ grant'[d] = grant[d] /\ rejected'[d] = rejected[d]
<1> DEFINE Alone == /\ at'[d] = at[d] /\ candidates'[d] = candidates[d] 
                    /\ failed'[d] = failed[d]
                    /\ grant'[d] = grant[d] /\ rejected'[d] = rejected[d]
<1> USE DEF LocalsTyped
<1>1. ASSUME Return(c) PROVE Alone
  BY <1>1 DEF Return, Goto
<1>2. ASSUME ProviderFails(c) PROVE Alone
  BY <1>1, <1>2 DEF ProviderFails, Goto
<1>3. ASSUME Retry(c) PROVE Alone
  BY <1>2, <1>3 DEF Retry, Goto
<1> HIDE DEF Alone
<1>4. CASE PrecheckAllows(c) \/ PrecheckBlocks(c) \/ PrecheckFailsOpen(c)
  BY <1>1, <1>4 DEF PrecheckAllows, PrecheckBlocks, PrecheckFailsOpen, Goto, local, Alone
<1>5. CASE Route(c)
  BY <1>1, <1>5 DEF Route, Goto, Alone
<1>6. CASE PoolExhausted(c) \/ FailsForGood(c)
  BY <1>2, <1>6 DEF PoolExhausted, FailsForGood, Alone
<1>7. CASE GrantSourceFails(c) \/ FailsRetryably(c)
  BY <1>3, <1>7 DEF GrantSourceFails, FailsRetryably, Alone
<1>8. CASE Acquire(c)
  BY <1>8 DEF Acquire, Goto, Alone
<1>9. CASE AcquireGrant(c)
  BY <1>9 DEF AcquireGrant, Goto, Alone
<1>10. CASE Quarantine(c)
  BY <1>10 DEF Quarantine, Goto, Alone
<1>11. CASE Succeeds(c) \/ RejectsGrant(c)
  BY <1>11 DEF Succeeds, RejectsGrant, Goto, local, Alone
<1>12. CASE ChargeLoad(c) \/ ChargeFails(c) \/ ChargeStore(c)
  BY <1>12 DEF ChargeLoad, ChargeFails, ChargeStore, Goto, local, Alone
<1>13. CASE Put(c) \/ ChargeRaises(c)
  BY <1>1, <1>13 DEF Put, ChargeRaises, Alone
<1> QED
  BY <1>4, <1>5, <1>6, <1>7, <1>8, <1>9, <1>10, <1>11, <1>12, <1>13 DEF Proceed, Alone

\* The references of all pools are finitely many.
LEMMA RefsFinite == IsFiniteSet(Refs) /\ Cardinality(Refs) \in Nat
<1> DEFINE Of == [p \in Providers |-> {Pool[p][i] : i \in DOMAIN Pool[p]}]
           T == {Of[p] : p \in Providers}
<1>1. Of \in Surjection(Providers, T)
  BY DEF Surjection
<1>2. IsFiniteSet(T)
  BY <1>1, ProvidersAssumption, FS_Surjection
<1>3. ASSUME NEW p \in Providers PROVE IsFiniteSet(Of[p])
  <2>0. Pool[p] \in Seq(Refs)
    BY GatewayAssumption
  <2>1. IsFiniteSet(DOMAIN Pool[p])
    BY <2>0, FS_Interval
  <2>2. Pool[p] \in Surjection(DOMAIN Pool[p], {Pool[p][i] : i \in DOMAIN Pool[p]})
    BY <2>0 DEF Surjection
  <2> QED
    BY <2>1, <2>2, FS_Surjection
<1>4. Refs = UNION T
  BY DEF Refs
<1> HIDE DEF T
<1>5. \A x \in T : IsFiniteSet(x)
  BY <1>3 DEF T
<1> QED
  BY <1>2, <1>4, <1>5, FS_UNION, FS_CardinalityType

\* The references the current provider has rejected on this admission.
Spent(c) == quarantined[Current(c)] \ {grant[c]}

\* Every grant the provider rejected is quarantined, but for the last one until
\* the call quarantines it: no grant is used again after it was rejected.
RejectionsOK(c) ==
    /\ at[c] \notin Admitted => rejected[c] = 0
    /\ at[c] \in Admitted \ {"quarantine"} => rejected[c] <= Cardinality(Spent(c))
    /\ at[c] = "quarantine" => rejected[c] <= Cardinality(Spent(c)) + 1

\* They are some of the references, and not the one in use.
LEMMA SpentBounded ==
    ASSUME CallsOK, PoolsOK, NEW c \in Callers, at[c] \in Admitted
    PROVE  /\ Spent(c) \subseteq Refs \ {grant[c]}
           /\ IsFiniteSet(Spent(c)) /\ Cardinality(Spent(c)) \in Nat
           /\ Cardinality(Spent(c)) <= Cardinality(Refs)
           /\ grant[c] \in Refs => Cardinality(Spent(c)) + 1 <= Cardinality(Refs)
           /\ IsFiniteSet(quarantined[Current(c)])
           /\ Cardinality(quarantined[Current(c)]) \in Nat
           /\ Cardinality(Spent(c)) <= Cardinality(quarantined[Current(c)])
<1>1. quarantined[Current(c)] \subseteq Refs
  BY CurrentProvider DEF PoolsOK, PoolsTyped
<1>2. Spent(c) \subseteq Refs \ {grant[c]} /\ Spent(c) \subseteq quarantined[Current(c)]
  BY <1>1 DEF Spent
<1>3. /\ IsFiniteSet(Spent(c)) /\ Cardinality(Spent(c)) \in Nat
      /\ Cardinality(Spent(c)) <= Cardinality(Refs)
  BY <1>2, RefsFinite, FS_Subset, FS_CardinalityType
<1>4. IsFiniteSet(quarantined[Current(c)]) /\ Cardinality(quarantined[Current(c)]) \in Nat
  BY <1>1, RefsFinite, FS_Subset, FS_CardinalityType
<1>5. Cardinality(Spent(c)) <= Cardinality(quarantined[Current(c)])
  BY <1>2, <1>4, FS_Subset
<1>6. ASSUME grant[c] \in Refs PROVE Cardinality(Spent(c)) + 1 <= Cardinality(Refs)
  <2>1. /\ IsFiniteSet(Refs \ {grant[c]})
        /\ Cardinality(Refs \ {grant[c]}) = Cardinality(Refs) - 1
    BY <1>6, RefsFinite, FS_RemoveElement
  <2>2. Cardinality(Spent(c)) <= Cardinality(Refs \ {grant[c]})
    BY <1>2, <2>1, FS_Subset
  <2> QED
    BY <1>3, <2>1, <2>2, RefsFinite
<1> QED
  BY <1>2, <1>3, <1>4, <1>5, <1>6


\* A call is never handed a grant it had rejected, so that each rejection adds
\* a reference to the quarantine, whoever else quarantines meanwhile.
LEMMA ProceedRejections ==
    ASSUME CallsOK, PoolsOK, CallsOK', PoolsOK', NEW c \in Callers, Proceed(c),
           \A d \in Callers : RejectionsOK(d),
           \A p \in Providers : quarantined[p] \subseteq quarantined'[p]
    PROVE  \A d \in Callers : RejectionsOK(d)'
<1>1. ASSUME NEW d \in Callers \ {c} PROVE RejectionsOK(d)'
  <2>1. /\ at'[d] = at[d] /\ candidates'[d] = candidates[d] /\ failed'[d] = failed[d]
        /\ grant'[d] = grant[d] /\ rejected'[d] = rejected[d]
    BY ProceedAlone DEF CallsOK
  <2>2. CASE at[d] \notin Admitted
    BY <2>1, <2>2 DEF RejectionsOK, Admitted
  <2>3. CASE at[d] \in Admitted
    <3>1. Current(d)' = Current(d) /\ Current(d) \in Providers
      BY <2>1, <2>3, CurrentProvider DEF Current
    <3>2. Spent(d) \subseteq Spent(d)'
      BY <2>1, <3>1 DEF Spent
    <3>3. IsFiniteSet(Spent(d)') /\ Cardinality(Spent(d)') \in Nat
      <4>1. Spent(d)' \subseteq Refs
        BY <3>1 DEF Spent, PoolsOK, PoolsTyped
      <4> QED
        BY <4>1, RefsFinite, FS_Subset, FS_CardinalityType
    <3>4. Cardinality(Spent(d)) <= Cardinality(Spent(d)') /\ Cardinality(Spent(d)) \in Nat
      BY <2>3, <3>2, <3>3, FS_Subset, SpentBounded
    <3>5. rejected[d] \in Nat
      BY DEF CallsOK, LocalsTyped
    <3> QED
      BY <2>1, <2>3, <3>3, <3>4, <3>5 DEF RejectionsOK
  <2> QED
    BY <2>2, <2>3
<1> SUFFICES RejectionsOK(c)'
  BY <1>1
<1> DEFINE Q == quarantined[Current(c)]
<1>2. rejected[c] \in Nat /\ RejectionsOK(c)
  BY DEF CallsOK, LocalsTyped
<1>3. ASSUME Return(c) PROVE RejectionsOK(c)'
  BY <1>3 DEF Return, Goto, RejectionsOK, CallsOK, LocalsTyped, Admitted
<1>4. ASSUME ProviderFails(c) PROVE RejectionsOK(c)'
  BY <1>3, <1>4 DEF ProviderFails, Goto, RejectionsOK, CallsOK, LocalsTyped, Admitted
\* The step keeps the provider and changes no quarantine.
<1>5. ASSUME at[c] \in Admitted \ {"quarantine"}, UNCHANGED <<candidates, failed, quarantined>>,
             rejected' = rejected, grant'[c] \in {None, grant[c]},
             at'[c] \in Admitted \ {"quarantine"}
      PROVE  RejectionsOK(c)'
  <2>1. Current(c)' = Current(c) /\ Current(c) \in Providers
    BY <1>5, CurrentProvider DEF Current
  <2>2. None \notin Q
    BY <2>1, GatewayAssumption DEF PoolsOK, PoolsTyped
  <2>3. Spent(c)' = Spent(c) \/ Spent(c)' = Q
    BY <1>5, <2>1, <2>2 DEF Spent
  <2>4. Cardinality(Spent(c)') >= Cardinality(Spent(c)) /\ Cardinality(Spent(c)) \in Nat
        /\ Cardinality(Spent(c)') \in Nat
    BY <1>5, <2>3, SpentBounded
  <2> QED
    BY <1>2, <1>5, <2>4 DEF RejectionsOK
<1>6. ASSUME Retry(c), at[c] \in {"grant", "invoke"}, UNCHANGED quarantined
      PROVE  RejectionsOK(c)'
  <2>1. CASE attempts[c] - 1 >= MaxRetries
    BY <1>4, <1>6, <2>1 DEF Retry
  <2>2. CASE ~(attempts[c] - 1 >= MaxRetries)
    <3>1. /\ at'[c] \in {"grant", "invoke"} /\ grant'[c] = None
          /\ UNCHANGED <<candidates, failed, quarantined, rejected>>
      BY <1>6, <2>2 DEF Retry, Goto, AttemptAt, CallsOK, LocalsTyped
    <3> QED
      BY <1>5, <1>6, <3>1 DEF Admitted
  <2> QED
    BY <2>1, <2>2
<1>7. CASE PrecheckAllows(c) \/ PrecheckBlocks(c) \/ PrecheckFailsOpen(c)
  BY <1>2, <1>3, <1>7 DEF PrecheckAllows, PrecheckBlocks, PrecheckFailsOpen, Goto, local,
       RejectionsOK, Admitted, CallsOK, LocalsTyped
<1>8. CASE Route(c)
  BY <1>2, <1>3, <1>8 DEF Route, Goto, RejectionsOK, Admitted, CallsOK, LocalsTyped
<1>9. CASE Acquire(c)
  <2>1. /\ at[c] = "limit" /\ at'[c] \in {"grant", "invoke"} /\ rejected' = rejected
        /\ UNCHANGED <<candidates, failed, quarantined>>
    BY <1>9 DEF Acquire, Goto, AttemptAt, CallsOK, LocalsTyped, pools
  <2>2. rejected'[c] = 0
    BY <1>2, <2>1 DEF RejectionsOK, Admitted
  <2>3. Cardinality(Spent(c)') \in Nat
    <3>1. Spent(c)' \subseteq Refs
      <4>1. Current(c)' = Current(c) /\ Current(c) \in Providers
        BY <2>1, CurrentProvider DEF Current
      <4> QED
        BY <4>1 DEF Spent, PoolsOK, PoolsTyped
    <3> QED
      BY <3>1, RefsFinite, FS_Subset, FS_CardinalityType
  <2> QED
    BY <2>1, <2>2, <2>3 DEF RejectionsOK, Admitted
<1>10. CASE PoolExhausted(c) \/ FailsForGood(c)
  BY <1>4, <1>10 DEF PoolExhausted, FailsForGood
<1>11. CASE GrantSourceFails(c) \/ FailsRetryably(c)
  BY <1>6, <1>11 DEF GrantSourceFails, FailsRetryably, pools
<1>12. CASE AcquireGrant(c)
  <2> DEFINE p == Current(c)
             ref == Pool[p][Index(p) + 1]
  <2>1. /\ at[c] = "grant" /\ at'[c] = "invoke" /\ grant'[c] = ref /\ Offsets(p) # {}
        /\ UNCHANGED <<candidates, failed, quarantined, rejected>>
    BY <1>12 DEF AcquireGrant, Goto, CallsOK, LocalsTyped
  <2>2. p \in Providers /\ Current(c)' = p
    BY <2>1, CurrentProvider DEF Admitted, Current
  <2>3. ref \notin Q
    BY <2>1, <2>2, IndexChosen DEF PoolsOK, PoolsTyped
  <2> HIDE DEF p, ref
  <2>4. Spent(c)' = Q
    BY <2>1, <2>2, <2>3 DEF Spent, p
  <2>5. Cardinality(Spent(c)) <= Cardinality(Q) /\ Cardinality(Q) \in Nat
        /\ Cardinality(Spent(c)) \in Nat
    BY <2>1, SpentBounded DEF Admitted
  <2> QED
    BY <1>2, <2>1, <2>4, <2>5 DEF RejectionsOK, Admitted
<1>13. CASE Succeeds(c)
  <2>1. /\ at[c] = "invoke" /\ at'[c] \in {"charge", "put"}
        /\ UNCHANGED <<candidates, failed, quarantined, rejected, grant>>
    BY <1>13 DEF Succeeds, Goto, local, pools, CallsOK, LocalsTyped
  <2> QED
    BY <1>5, <2>1 DEF Admitted
<1>14. CASE RejectsGrant(c)
  <2>1. /\ at[c] = "invoke" /\ at'[c] = "quarantine" /\ rejected'[c] = rejected[c] + 1
        /\ UNCHANGED <<candidates, failed, quarantined, grant>>
    BY <1>14 DEF RejectsGrant, Goto, pools, CallsOK, LocalsTyped
  <2>2. Spent(c)' = Spent(c) /\ Cardinality(Spent(c)) \in Nat
    BY <2>1, SpentBounded DEF Admitted, Spent, Current
  <2> QED
    BY <1>2, <2>1, <2>2 DEF RejectionsOK, Admitted
<1>15. CASE Quarantine(c)
  <2> DEFINE p == Current(c)
  <2>1. /\ at[c] = "quarantine" /\ at'[c] = "grant" /\ grant'[c] = None
        /\ quarantined' = [quarantined EXCEPT ![p] = quarantined[p] \cup {grant[c]}]
        /\ UNCHANGED <<candidates, failed, rejected>>
    BY <1>15 DEF Quarantine, Goto, CallsOK, LocalsTyped
  <2>2. p \in Providers /\ Current(c)' = p /\ grant[c] # None /\ None \notin Refs
    BY <2>1, CurrentProvider, GatewayAssumption DEF Admitted, Current, CallsOK, CallOK
  <2>3. quarantined'[p] = Q \cup {grant[c]} /\ Q \subseteq Refs
    BY <2>1, <2>2 DEF PoolsOK, PoolsTyped
  <2>4. Spent(c)' = Spent(c) \cup {grant[c]} /\ grant[c] \notin Spent(c)
    BY <2>1, <2>2, <2>3 DEF Spent
  <2>5. Cardinality(Spent(c)) \in Nat /\ IsFiniteSet(Spent(c))
    BY <2>1, SpentBounded DEF Admitted
  <2>6. Cardinality(Spent(c) \cup {grant[c]}) = Cardinality(Spent(c)) + 1
    BY <2>4, <2>5, FS_AddElement
  <2>7. Cardinality(Spent(c)') = Cardinality(Spent(c)) + 1
    BY <2>4, <2>6
  <2> QED
    BY <1>2, <2>1, <2>5, <2>7 DEF RejectionsOK, Admitted
<1>16. CASE ChargeLoad(c) \/ ChargeFails(c) \/ ChargeStore(c)
  <2>1. /\ at[c] \in {"charge", "store"} /\ at'[c] \in {"store", "put"}
        /\ UNCHANGED <<candidates, failed, quarantined, rejected, grant>>
    BY <1>16 DEF ChargeLoad, ChargeFails, ChargeStore, Goto, local, pools, CallsOK,
                 LocalsTyped
  <2> QED
    BY <1>5, <2>1 DEF Admitted
<1>17. CASE Put(c) \/ ChargeRaises(c)
  BY <1>3, <1>17 DEF Put, ChargeRaises
<1> QED
  BY <1>7, <1>8, <1>9, <1>10, <1>11, <1>12, <1>13, <1>14, <1>15, <1>16, <1>17 DEF Proceed

\* No provider is asked more often than the references and retries allow.
LEMMA RejectionsBounded ==
    ASSUME CallsOK, PoolsOK, NEW c \in Callers, RejectionsOK(c)
    PROVE  attempts[c] <= MaxRetries + 1 /\ rejected[c] <= Cardinality(Refs)
<1>1. attempts[c] \in 0..(MaxRetries + 1) /\ rejected[c] \in Nat
      /\ grant[c] \in Refs \cup {None} /\ MaxRetries \in Nat
  BY GatewayAssumption DEF CallsOK, LocalsTyped
<1>2. at[c] = "quarantine" => grant[c] # None /\ at[c] \in Admitted
  BY DEF CallsOK, CallOK, Admitted
<1>3. CASE at[c] \in Admitted
  BY <1>1, <1>2, <1>3, SpentBounded, RefsFinite DEF RejectionsOK
<1>4. CASE at[c] \notin Admitted
  BY <1>1, <1>4, RefsFinite DEF RejectionsOK
<1> QED
  BY <1>3, <1>4

-----------------------------------------------------------------------------
(* Prompt cache.                                                            *)

CacheOK ==
    /\ order \in Seq(Keys) /\ IsFiniteSet(store)
    /\ \A i, j \in DOMAIN order : order[i] = order[j] => i = j
    /\ CacheConsistent

\* A key another call has stored meanwhile is not queued again, and the oldest
\* key makes room.
LEMMA CachedKeeps ==
    ASSUME CacheOK, NEW k \in Keys, Cached(k)
    PROVE  CacheOK'
<1>1. /\ order \in Seq(Keys) /\ Len(order) \in Nat /\ DOMAIN order = 1..Len(order)
      /\ \A i, j \in 1..Len(order) : order[i] = order[j] => i = j
      /\ IsFiniteSet(store) /\ store = {order[i] : i \in 1..Len(order)}
      /\ Cardinality(store) = Len(order) /\ MaxEntries \in Nat
      /\ MaxEntries > 0 => Len(order) <= MaxEntries
  BY GatewayAssumption DEF CacheOK, CacheConsistent
<1> DEFINE full == k \notin store /\ MaxEntries > 0 /\ Cardinality(store) >= MaxEntries
<1>2. CASE k \in store
  <2>1. store' = store /\ order' = order
    BY <1>2 DEF Cached
  <2> QED
    BY <2>1 DEF CacheOK, CacheConsistent
<1>3. CASE k \notin store /\ ~full
  <2>1. store' = store \cup {k} /\ order' = Append(order, k)
    BY <1>3 DEF Cached
  <2>2. /\ order' \in Seq(Keys) /\ DOMAIN order' = 1..(Len(order) + 1)
        /\ Len(order') = Len(order) + 1
        /\ \A i \in 1..Len(order) : order'[i] = order[i]
        /\ order'[Len(order) + 1] = k
    BY <1>1, <2>1
  <2>3. IsFiniteSet(store') /\ Cardinality(store') = Len(order) + 1
    BY <1>1, <1>3, <2>1, FS_AddElement
  <2>4. \A i \in 1..Len(order) : order[i] # k
    BY <1>1, <1>3
  <2>5. \A i, j \in DOMAIN order' : order'[i] = order'[j] => i = j
    BY <1>1, <2>2, <2>4
  <2>6. store' = {order'[i] : i \in DOMAIN order'}
    <3>1. DOMAIN order' = (1..Len(order)) \cup {Len(order) + 1}
      BY <1>1, <2>2
    <3>2. \A i \in 1..Len(order) : order'[i] \in store'
      BY <1>1, <2>1, <2>2
    <3>3. order'[Len(order) + 1] \in store'
      BY <2>1, <2>2
    <3>4. ASSUME NEW x \in store PROVE \E i \in DOMAIN order' : order'[i] = x
      <4>1. PICK i \in 1..Len(order) : x = order[i]
        BY <1>1
      <4> QED
        BY <2>2, <3>1, <4>1
    <3>5. \E i \in DOMAIN order' : order'[i] = k
      BY <2>2, <3>1
    <3> QED
      BY <2>1, <3>1, <3>2, <3>3, <3>4, <3>5
  <2> QED
    BY <1>1, <1>3, <2>2, <2>3, <2>5, <2>6 DEF CacheOK, CacheConsistent
<1>4. CASE full
  <2> DEFINE T == Tail(order)
             n == Len(order) - 1
  <2>1. store' = (store \ {Head(order)}) \cup {k} /\ order' = Append(T, k)
    BY <1>4 DEF Cached
  <2>2. order # <<>> /\ Len(order) >= 1 /\ Len(order) >= MaxEntries
    BY <1>1, <1>4
  <2>3. /\ T \in Seq(Keys) /\ n \in Nat /\ Len(T) = n
        /\ \A i \in 1..n : T[i] = order[i + 1]
        /\ Head(order) = order[1]
    BY <1>1, <2>2
  <2> HIDE DEF T
  <2>4. /\ order' \in Seq(Keys) /\ DOMAIN order' = 1..(n + 1) /\ Len(order') = n + 1
        /\ \A i \in 1..n : order'[i] = order[i + 1]
        /\ order'[n + 1] = k
    BY <2>1, <2>3
  <2>5. order[1] \in store /\ k \notin store /\ k \notin store \ {order[1]}
    BY <1>1, <1>4, <2>2
  <2>6. /\ IsFiniteSet(store \ {order[1]})
        /\ Cardinality(store \ {order[1]}) = Len(order) - 1
    <3> DEFINE h == order[1]
    <3>1. h \in store
      BY <2>5
    <3> HIDE DEF h
    <3>2. IsFiniteSet(store \ {h}) /\ Cardinality(store \ {h}) = Cardinality(store) - 1
      BY <1>1, <3>1, FS_RemoveElement
    <3> QED
      BY <1>1, <3>2 DEF h
  <2>7. IsFiniteSet(store') /\ Cardinality(store') = n + 1
    BY <2>1, <2>3, <2>5, <2>6, FS_AddElement
  <2>8. \A i \in 1..n : i + 1 \in 1..Len(order) /\ order[i + 1] # k
    BY <1>1, <2>3, <2>5
  <2>9. \A i, j \in DOMAIN order' : order'[i] = order'[j] => i = j
    BY <1>1, <2>3, <2>4, <2>8
  <2>10. store' = {order'[i] : i \in DOMAIN order'}
    <3>1. ASSUME NEW x \in store', x # k PROVE \E i \in DOMAIN order' : order'[i] = x
      <4>1. PICK i \in 1..Len(order) : x = order[i]
        BY <1>1, <2>1, <3>1
      <4>2. i # 1
        BY <2>1, <2>3, <3>1, <4>1
      <4> DEFINE m == i - 1
      <4>3. m \in 1..n /\ m + 1 = i
        BY <1>1, <4>1, <4>2
      <4> HIDE DEF m, n
      <4>4. m \in DOMAIN order'
        BY <2>3, <2>4, <4>3
      <4>5. order'[m] = order[m + 1]
        BY <2>4, <4>3
      <4> QED
        BY <4>1, <4>3, <4>4, <4>5
    <3>2. k \in {order'[i] : i \in DOMAIN order'}
      BY <2>3, <2>4
    <3>3. ASSUME NEW i \in 1..n PROVE order'[i] \in store'
      <4>1. order[i + 1] # order[1] /\ order[i + 1] \in store
        BY <1>1, <2>2, <2>3, <2>8
      <4> QED
        BY <2>1, <2>3, <2>4, <4>1
    <3>4. order'[n + 1] \in store' /\ DOMAIN order' = (1..n) \cup {n + 1}
      BY <2>1, <2>3, <2>4
    <3> QED
      BY <3>1, <3>2, <3>3, <3>4
  <2>11. MaxEntries > 0 => Len(order') <= MaxEntries
    BY <1>1, <2>3, <2>4
  <2>12. Cardinality(store') = Len(order')
    BY <2>4, <2>7
  <2> QED
    BY <2>4, <2>7, <2>9, <2>10, <2>11, <2>12 DEF CacheOK, CacheConsistent
<1> QED
  BY <1>2, <1>3, <1>4

\* Only put changes the cache.
LEMMA ProceedCache ==
    ASSUME CallsOK, CacheOK, NEW c \in Callers, Proceed(c)
    PROVE  CacheOK'
<1>1. ASSUME UNCHANGED <<store, order>> PROVE CacheOK'
  BY <1>1 DEF CacheOK, CacheConsistent
<1>2. CASE Put(c)
  <2>1. key[c] \in Keys \cup {None}
    BY DEF CallsOK, LocalsTyped
  <2> QED
    BY <1>1, <1>2, <2>1, CachedKeeps DEF Put, cache
<1>3. Put(c) \/ UNCHANGED <<store, order>>
  BY DEF Proceed, cache, PrecheckAllows, PrecheckBlocks, PrecheckFailsOpen, Route, Acquire,
         PoolExhausted, AcquireGrant, GrantSourceFails, Succeeds, FailsRetryably,
         FailsForGood, RejectsGrant, Quarantine, ChargeLoad, ChargeFails, ChargeStore,
         ChargeRaises
<1> QED
  BY <1>1, <1>2, <1>3

-----------------------------------------------------------------------------
(* Rate limiter.                                                            *)

\* The calls of a bucket, oldest first, that have left the window are its first k.
Left(ages, k) ==
    /\ k \in 0..Len(ages)
    /\ \A i \in 1..k : ages[i] >= Window
    /\ \A i \in (k + 1)..Len(ages) : ages[i] < Window

Sorted(ages) == \A i, j \in DOMAIN ages : i <= j => ages[i] >= ages[j]

\* What is left of a sequence without its first elements.
LEMMA Suffix ==
    ASSUME NEW s \in Seq(Nat), NEW m \in Nat, m <= Len(s)
    PROVE  /\ SubSeq(s, m + 1, Len(s)) \in Seq(Nat)
           /\ Len(SubSeq(s, m + 1, Len(s))) = Len(s) - m
           /\ \A i \in 1..(Len(s) - m) : SubSeq(s, m + 1, Len(s))[i] = s[m + i]
<1>1. Len(s) \in Nat /\ m + 1 \in Int /\ \A i \in (m + 1)..Len(s) : s[i] \in Nat
  OBVIOUS
<1> DEFINE t == SubSeq(s, m + 1, Len(s))
<1>2. /\ t \in Seq(Nat)
      /\ Len(t) = IF m + 1 <= Len(s) THEN Len(s) - (m + 1) + 1 ELSE 0
      /\ \A i \in 1..(Len(s) - (m + 1) + 1) : t[i] = s[(m + 1) + i - 1]
  BY <1>1, SubSeqProperties
<1> HIDE DEF t
<1>3. Len(s) - (m + 1) + 1 = Len(s) - m /\ \A i \in Int : (m + 1) + i - 1 = m + i
  BY <1>1
<1>4. Len(t) = Len(s) - m
  BY <1>1, <1>2
<1>5. \A i \in 1..(Len(s) - m) : t[i] = s[m + i]
  <2> SUFFICES ASSUME NEW i \in 1..(Len(s) - m) PROVE t[i] = s[m + i]
    OBVIOUS
  <2>1. i \in 1..(Len(s) - (m + 1) + 1) /\ (m + 1) + i - 1 = m + i
    BY <1>1
  <2>2. t[i] = s[(m + 1) + i - 1]
    BY <1>2, <2>1
  <2> QED
    BY <2>1, <2>2
<1> QED
  BY <1>2, <1>4, <1>5 DEF t

\* In a bucket that is in order of age the calls outside the window come first.
LEMMA SortedSplits ==
    ASSUME NEW ages \in Seq(Nat), Sorted(ages)
    PROVE  \E k \in Nat : Left(ages, k)
<1> DEFINE S == {n \in 0..Len(ages) : \A i \in (n + 1)..Len(ages) : ages[i] < Window}
<1>1. Len(ages) \in Nat /\ Window \in Nat /\ DOMAIN ages = 1..Len(ages)
      /\ \A i \in 1..Len(ages) : ages[i] \in Nat
  BY GatewayAssumption
<1>2. S \in SUBSET Nat /\ Len(ages) \in S
  BY <1>1
<1>3. PICK k \in S : \A n \in S : k <= n
  <2> HIDE DEF S
  <2> QED
    BY <1>2, LeastNatural
<1>4. k \in 0..Len(ages) /\ \A i \in (k + 1)..Len(ages) : ages[i] < Window
  BY <1>3
<1>5. ASSUME k > 0 PROVE ages[k] >= Window
  <2>1. k - 1 \in 0..Len(ages) /\ k - 1 \notin S
    <3>1. k \in Nat /\ k - 1 \in Nat /\ k - 1 \in 0..Len(ages)
      BY <1>1, <1>4, <1>5
    <3> HIDE DEF S
    <3>2. ASSUME k - 1 \in S PROVE FALSE
      <4>1. k <= k - 1
        BY <1>3, <3>2
      <4> QED
        BY <3>1, <4>1
    <3> QED
      BY <3>1, <3>2
  <2>2. PICK i \in ((k - 1) + 1)..Len(ages) : ~(ages[i] < Window)
    BY <2>1
  <2> QED
    BY <1>1, <1>4, <1>5, <2>2
<1>6. \A i \in 1..k : ages[i] >= Window
  <2> SUFFICES ASSUME NEW i \in 1..k PROVE ages[i] >= Window
    OBVIOUS
  <2>1. k > 0 /\ i \in 1..Len(ages) /\ k \in 1..Len(ages) /\ i <= k
    BY <1>1, <1>4
  <2>2. ages[i] >= ages[k] /\ ages[k] >= Window /\ ages[i] \in Nat /\ ages[k] \in Nat
    BY <1>1, <1>5, <2>1 DEF Sorted
  <2> QED
    BY <1>1, <2>2
<1> QED
  BY <1>3, <1>4, <1>6 DEF Left

\* Both _evict and the history then drop exactly those calls.
LEMMA EvictDrops ==
    ASSUME NEW ages \in Seq(Nat), NEW k \in Nat, Left(ages, k)
    PROVE  /\ Evict(ages) = SubSeq(ages, k + 1, Len(ages))
           /\ InWindow(ages) = SubSeq(ages, k + 1, Len(ages))
<1>1. Len(ages) \in Nat /\ Window \in Nat /\ DOMAIN ages = 1..Len(ages)
      /\ \A i \in 1..Len(ages) : ages[i] \in Nat
  BY GatewayAssumption
<1>2. {i \in DOMAIN ages : \A j \in 1..i : ages[j] >= Window} = 1..k
  BY <1>1 DEF Left
<1>3. {i \in DOMAIN ages : ages[i] >= Window} = 1..k
  BY <1>1 DEF Left
<1>4. Cardinality(1..k) = k
  BY FS_Interval
<1> QED
  BY <1>2, <1>3, <1>4 DEF Evict, InWindow

\* The bucket is in order of age and its calls inside the window are those that
\* were admitted in it.
LimiterOK ==
    /\ bucket \in [Providers -> Seq(Nat)] /\ admitted \in [Providers -> Seq(Nat)]
    /\ \A p \in Providers : /\ Sorted(bucket[p])
                            /\ admitted[p] = Evict(bucket[p])
                            /\ Len(admitted[p]) <= MaxCalls

\* An admission is the youngest call of the window.
LEMMA AdmitKeeps ==
    ASSUME NEW ages \in Seq(Nat), Sorted(ages)
    PROVE  /\ Evict(ages) \in Seq(Nat) /\ Append(Evict(ages), 0) \in Seq(Nat)
           /\ Sorted(Append(Evict(ages), 0))
           /\ Evict(Append(Evict(ages), 0)) = Append(Evict(ages), 0)
<1>1. PICK k \in Nat : Left(ages, k)
  BY SortedSplits
<1> DEFINE L == Len(ages)
           n == L - k
           e == Evict(ages)
           b == Append(e, 0)
<1>2. L \in Nat /\ Window \in Nat \ {0} /\ k \in 0..L /\ n \in Nat
      /\ \A i \in 1..L : ages[i] \in Nat
  BY <1>1, GatewayAssumption DEF Left
<1>3. e = SubSeq(ages, k + 1, L)
  BY <1>1, EvictDrops
<1>4. e \in Seq(Nat) /\ Len(e) = n /\ \A i \in 1..n : e[i] = ages[k + i]
  <2>1. k <= Len(ages)
    BY <1>2
  <2>2. /\ SubSeq(ages, k + 1, L) \in Seq(Nat) /\ Len(SubSeq(ages, k + 1, L)) = n
        /\ \A i \in 1..n : SubSeq(ages, k + 1, L)[i] = ages[k + i]
    BY <2>1, Suffix
  <2> QED
    BY <1>3, <2>2
<1> HIDE DEF e
<1>5. /\ b \in Seq(Nat) /\ Len(b) = n + 1 /\ DOMAIN b = 1..(n + 1)
      /\ \A i \in 1..n : b[i] = ages[k + i]
      /\ b[n + 1] = 0
  BY <1>2, <1>4
<1> HIDE DEF b
<1>6. \A i \in 1..n : k + i \in (k + 1)..L /\ k + i \in 1..L
  BY <1>2
<1>7. Left(b, 0)
  <2>1. \A i \in 1..n : b[i] < Window
    BY <1>1, <1>5, <1>6 DEF Left
  <2>2. 0 < Window
    BY <1>2
  <2> QED
    BY <1>2, <1>5, <2>1, <2>2 DEF Left
<1>8. Sorted(b)
  <2> SUFFICES ASSUME NEW i \in 1..(n + 1), NEW j \in 1..(n + 1), i <= j PROVE b[i] >= b[j]
    BY <1>5 DEF Sorted
  <2>1. CASE j = n + 1
    BY <1>2, <1>5, <2>1
  <2>2. CASE j # n + 1
    <3>1. i \in 1..n /\ j \in 1..n /\ k + i <= k + j
      <4>1. n \in Nat /\ k \in Nat /\ i \in 1..(n + 1) /\ j \in 1..(n + 1)
        BY <1>2
      <4> HIDE DEF n
      <4> QED
        BY <2>2, <4>1
    <3>2. ages[k + i] >= ages[k + j]
      BY <1>2, <1>6, <3>1 DEF Sorted
    <3> QED
      BY <1>5, <3>1, <3>2
  <2> QED
    BY <2>1, <2>2
<1>9. Evict(b) = SubSeq(b, 0 + 1, Len(b))
  BY <1>5, <1>7, EvictDrops
<1>10. Evict(b) = b
  BY <1>2, <1>5, <1>9
<1> QED
  BY <1>4, <1>5, <1>8, <1>10 DEF b, e

\* Time takes the same calls out of the bucket's window and of the history's.
LEMMA TickKeeps ==
    ASSUME NEW ages \in Seq(Nat), Sorted(ages)
    PROVE  /\ Older(ages) \in Seq(Nat) /\ Sorted(Older(ages))
           /\ InWindow(Older(Evict(ages))) = Evict(Older(ages))
           /\ Evict(Older(ages)) \in Seq(Nat)
           /\ Len(Evict(Older(ages))) <= Len(Evict(ages))
<1>1. PICK k \in Nat : Left(ages, k)
  BY SortedSplits
<1> DEFINE L == Len(ages)
           n == L - k
           e == Evict(ages)
           o == Older(ages)
           oe == Older(e)
<1>2. L \in Nat /\ Window \in Nat \ {0} /\ k \in 0..L /\ n \in Nat
      /\ DOMAIN ages = 1..L
      /\ \A i \in 1..L : ages[i] \in Nat
  BY <1>1, GatewayAssumption DEF Left
<1>3. e = SubSeq(ages, k + 1, L)
  BY <1>1, EvictDrops
<1>4. e \in Seq(Nat) /\ Len(e) = n /\ DOMAIN e = 1..n /\ \A i \in 1..n : e[i] = ages[k + i]
  <2>1. e \in Seq(Nat) /\ Len(e) = n /\ \A i \in 1..n : e[i] = ages[k + i]
    <3>1. k <= Len(ages)
      BY <1>2
    <3>2. /\ SubSeq(ages, k + 1, L) \in Seq(Nat) /\ Len(SubSeq(ages, k + 1, L)) = n
          /\ \A i \in 1..n : SubSeq(ages, k + 1, L)[i] = ages[k + i]
      BY <3>1, Suffix
    <3> QED
      BY <1>3, <3>2
  <2> HIDE DEF e
  <2> QED
    BY <2>1
<1> HIDE DEF e
<1>5. /\ o \in Seq(Nat) /\ Len(o) = L /\ DOMAIN o = 1..L
      /\ \A i \in 1..L : o[i] = IF ages[i] < Window THEN ages[i] + 1 ELSE Window
  BY <1>2 DEF Older
<1>6. /\ oe \in Seq(Nat) /\ Len(oe) = n /\ DOMAIN oe = 1..n
      /\ \A i \in 1..n : oe[i] = IF e[i] < Window THEN e[i] + 1 ELSE Window
  <2>1. oe = [i \in 1..n |-> IF e[i] < Window THEN e[i] + 1 ELSE Window]
    BY <1>4 DEF Older
  <2>2. n \in Nat /\ \A i \in 1..n : (IF e[i] < Window THEN e[i] + 1 ELSE Window) \in Nat
    <3>1. n \in Nat /\ Window \in Nat
      BY <1>2
    <3>2. \A i \in 1..n : e[i] \in Nat
      BY <1>4
    <3> HIDE DEF n
    <3> QED
      BY <3>1, <3>2
  <2> HIDE DEF n, oe
  <2> QED
    BY <2>1, <2>2
<1> HIDE DEF o, oe
<1>7. Sorted(o)
  <2> SUFFICES ASSUME NEW i \in 1..L, NEW j \in 1..L, i <= j PROVE o[i] >= o[j]
    BY <1>5 DEF Sorted
  <2>1. ages[i] >= ages[j] /\ ages[i] \in Nat /\ ages[j] \in Nat /\ Window \in Nat
    BY <1>2 DEF Sorted
  <2>2. /\ o[i] = IF ages[i] < Window THEN ages[i] + 1 ELSE Window
        /\ o[j] = IF ages[j] < Window THEN ages[j] + 1 ELSE Window
    BY <1>5
  <2> QED
    BY <2>1, <2>2
<1>8. PICK m \in Nat : Left(o, m)
  BY <1>5, <1>7, SortedSplits
<1>9. k <= m /\ m <= L
  <2>1. m \in 0..L
    BY <1>5, <1>8 DEF Left
  <2>2. ASSUME k > m PROVE FALSE
    <3>1. k \in (m + 1)..L /\ k \in 1..k /\ k \in 1..L
      BY <1>2, <2>1, <2>2
    <3>2. ages[k] >= Window /\ o[k] < Window
      BY <1>1, <1>5, <1>8, <3>1 DEF Left
    <3> QED
      BY <1>2, <1>5, <3>1, <3>2
  <2> QED
    BY <1>2, <2>1, <2>2
<1>10. \A i \in 1..n : k + i \in 1..L /\ oe[i] = o[k + i]
  <2>1. \A i \in 1..n : k + i \in 1..L
    BY <1>2
  <2> QED
    BY <1>4, <1>5, <1>6, <2>1
<1>11. Left(oe, m - k)
  <2>1. m - k \in 0..n
    BY <1>2, <1>9
  <2>2. \A i \in 1..(m - k) : i \in 1..n /\ k + i \in 1..m
    BY <1>2, <1>9
  <2>3. \A i \in ((m - k) + 1)..n : i \in 1..n /\ k + i \in (m + 1)..L
    BY <1>2, <1>9
  <2> QED
    BY <1>5, <1>6, <1>8, <1>10, <2>1, <2>2, <2>3 DEF Left
<1>12. m - k \in Nat
  BY <1>2, <1>9
<1>13. InWindow(oe) = SubSeq(oe, (m - k) + 1, n) /\ Evict(o) = SubSeq(o, m + 1, L)
  BY <1>5, <1>6, <1>8, <1>11, <1>12, EvictDrops
<1>14. /\ SubSeq(o, m + 1, L) \in Seq(Nat) /\ Len(SubSeq(o, m + 1, L)) = L - m
       /\ \A i \in 1..(L - m) : SubSeq(o, m + 1, L)[i] = o[m + i]
  <2>1. m <= Len(o)
    BY <1>5, <1>9
  <2>2. /\ SubSeq(o, m + 1, Len(o)) \in Seq(Nat)
        /\ Len(SubSeq(o, m + 1, Len(o))) = Len(o) - m
        /\ \A i \in 1..(Len(o) - m) : SubSeq(o, m + 1, Len(o))[i] = o[m + i]
    BY <1>5, <2>1, Suffix
  <2> QED
    BY <1>5, <2>2
<1>15. /\ SubSeq(oe, (m - k) + 1, n) \in Seq(Nat) /\ Len(SubSeq(oe, (m - k) + 1, n)) = L - m
       /\ \A i \in 1..(L - m) : SubSeq(oe, (m - k) + 1, n)[i] = oe[(m - k) + i]
  <2>1. m - k <= n /\ n - (m - k) = L - m
    BY <1>2, <1>9
  <2> DEFINE x == m - k
  <2>2. x \in Nat /\ x <= Len(oe)
    BY <1>6, <1>12, <2>1
  <2> HIDE DEF x
  <2>3. /\ SubSeq(oe, x + 1, Len(oe)) \in Seq(Nat)
        /\ Len(SubSeq(oe, x + 1, Len(oe))) = Len(oe) - x
        /\ \A i \in 1..(Len(oe) - x) : SubSeq(oe, x + 1, Len(oe))[i] = oe[x + i]
    BY <1>6, <2>2, Suffix
  <2>4. Len(oe) = n /\ n - x = L - m
    BY <1>6, <2>1 DEF x
  <2> HIDE DEF n, L
  <2>5. /\ SubSeq(oe, x + 1, n) \in Seq(Nat)
        /\ Len(SubSeq(oe, x + 1, n)) = L - m
        /\ \A i \in 1..(L - m) : SubSeq(oe, x + 1, n)[i] = oe[x + i]
    BY <2>3, <2>4
  <2> QED
    BY <2>5 DEF x
<1>16. \A i \in 1..(L - m) : (m - k) + i \in 1..n /\ k + ((m - k) + i) = m + i
  BY <1>2, <1>9
<1>17. \A i \in 1..(L - m) : SubSeq(oe, (m - k) + 1, n)[i] = SubSeq(o, m + 1, L)[i]
  BY <1>10, <1>14, <1>15, <1>16
<1>18. SubSeq(oe, (m - k) + 1, n) = SubSeq(o, m + 1, L)
  BY <1>14, <1>15, <1>17, SeqEqual
<1>19. L - m <= n
  BY <1>2, <1>9
<1> QED
  BY <1>4, <1>5, <1>7, <1>13, <1>14, <1>18, <1>19 DEF o, oe, e


\* The window of the limiter is never overfull.
LEMMA ProceedLimiter ==
    ASSUME CallsOK, LimiterOK, NEW c \in Callers, Proceed(c)
    PROVE  LimiterOK'
<1>1. ASSUME UNCHANGED <<bucket, admitted>> PROVE LimiterOK'
  BY <1>1 DEF LimiterOK
<1>2. CASE Acquire(c) /\ ~UNCHANGED <<bucket, admitted>>
  <2> DEFINE p == Current(c)
             e == Evict(bucket[p])
  <2>1. /\ p \in Providers /\ Len(e) < MaxCalls
        /\ bucket' = [bucket EXCEPT ![p] = Append(e, 0)]
        /\ admitted' = [admitted EXCEPT ![p] = Append(admitted[p], 0)]
    BY <1>2, CurrentProvider DEF Acquire, limiter
  <2>2. bucket[p] \in Seq(Nat) /\ Sorted(bucket[p]) /\ admitted[p] = e
    BY <2>1 DEF LimiterOK
  <2>3. /\ e \in Seq(Nat) /\ Append(e, 0) \in Seq(Nat) /\ Sorted(Append(e, 0))
        /\ Evict(Append(e, 0)) = Append(e, 0)
    BY <2>2, AdmitKeeps
  <2> HIDE DEF e, p
  <2>4. Len(Append(e, 0)) <= MaxCalls
    BY <2>1, <2>3, GatewayAssumption
  <2> QED
    BY <2>1, <2>2, <2>3, <2>4 DEF LimiterOK
<1>3. Acquire(c) \/ UNCHANGED <<bucket, admitted>>
  BY DEF Proceed, limiter, PrecheckAllows, PrecheckBlocks, PrecheckFailsOpen, Route,
         PoolExhausted, AcquireGrant, GrantSourceFails, Succeeds, FailsRetryably,
         FailsForGood, RejectsGrant, Quarantine, ChargeLoad, ChargeFails, ChargeStore,
         ChargeRaises, Put
<1> QED
  BY <1>1, <1>2, <1>3

\* Nor does time overfill it.
LEMMA TickLimiter ==
    ASSUME LimiterOK, Tick
    PROVE  LimiterOK'
<1> SUFFICES ASSUME NEW p \in Providers
             PROVE  /\ bucket'[p] \in Seq(Nat) /\ admitted'[p] \in Seq(Nat)
                    /\ Sorted(bucket'[p]) /\ admitted'[p] = Evict(bucket'[p])
                    /\ Len(admitted'[p]) <= MaxCalls
  BY DEF LimiterOK, Tick
<1> DEFINE b == bucket[p]
<1>1. /\ b \in Seq(Nat) /\ Sorted(b) /\ admitted[p] = Evict(b)
      /\ Len(Evict(b)) <= MaxCalls /\ Evict(b) \in Seq(Nat) /\ MaxCalls \in Nat
  BY GatewayAssumption DEF LimiterOK
<1>2. bucket'[p] = Older(b) /\ admitted'[p] = InWindow(Older(Evict(b)))
  BY <1>1 DEF Tick
<1> HIDE DEF b
<1>3. /\ Older(b) \in Seq(Nat) /\ Sorted(Older(b))
      /\ InWindow(Older(Evict(b))) = Evict(Older(b))
      /\ Evict(Older(b)) \in Seq(Nat)
      /\ Len(Evict(Older(b))) <= Len(Evict(b))
  BY <1>1, TickKeeps
<1>4. Len(Evict(Older(b))) \in Nat /\ Len(Evict(b)) \in Nat
  BY <1>1, <1>3
<1> QED
  BY <1>1, <1>2, <1>3, <1>4

-----------------------------------------------------------------------------
(* Subagents.                                                               *)

SlotsOK == slots \in Nat /\ active \in Nat /\ peak \in Nat /\ SlotsKept

Busy == {"enter", "run", "leave", "release"}
Running == {"run", "leave"}

\* What the move of one spawn does to the number of spawns at some points.
LEMMA AgentMoves ==
    ASSUME sub \in [Agents -> SubPoints], NEW a \in Agents, NEW x \in SubPoints,
           sub' = [sub EXCEPT ![a] = x], NEW P
    PROVE  /\ Cardinality(At(P)) \in Nat /\ Cardinality(At(P)') \in Nat
           /\ sub[a] \in P /\ x \notin P => Cardinality(At(P)) = Cardinality(At(P)') + 1
           /\ sub[a] \notin P /\ x \in P => Cardinality(At(P)') = Cardinality(At(P)) + 1
           /\ (sub[a] \in P <=> x \in P) => Cardinality(At(P)') = Cardinality(At(P))
<1>1. sub'[a] = x /\ \A b \in Agents \ {a} : sub'[b] = sub[b]
  OBVIOUS
<1>2. At(P) \subseteq Agents /\ At(P)' \subseteq Agents
  BY DEF At
<1>3. /\ IsFiniteSet(At(P)) /\ IsFiniteSet(At(P)')
      /\ Cardinality(At(P)) \in Nat /\ Cardinality(At(P)') \in Nat
  BY <1>2, AgentsAssumption, FS_Subset, FS_CardinalityType
<1>4. ASSUME sub[a] \in P, x \notin P PROVE Cardinality(At(P)) = Cardinality(At(P)') + 1
  <2>1. At(P)' = At(P) \ {a} /\ a \in At(P)
    BY <1>1, <1>4 DEF At
  <2>2. Cardinality(At(P) \ {a}) = Cardinality(At(P)) - 1
    BY <1>3, <2>1, FS_RemoveElement
  <2> QED
    BY <1>3, <2>1, <2>2
<1>5. ASSUME sub[a] \notin P, x \in P PROVE Cardinality(At(P)') = Cardinality(At(P)) + 1
  <2>1. At(P)' = At(P) \cup {a} /\ a \notin At(P)
    BY <1>1, <1>5 DEF At
  <2>2. Cardinality(At(P) \cup {a}) = Cardinality(At(P)) + 1
    BY <1>3, <2>1, FS_AddElement
  <2> QED
    BY <2>1, <2>2
<1>6. ASSUME sub[a] \in P <=> x \in P PROVE Cardinality(At(P)') = Cardinality(At(P))
  <2>1. At(P)' = At(P)
    BY <1>1, <1>6 DEF At
  <2> QED
    BY <2>1
<1> QED
  BY <1>3, <1>4, <1>5, <1>6

\* A slot is taken before a spawn runs and given back after, and the counter of
\* runners moves between the two.
LEMMA SubStepSlots ==
    ASSUME TypeOK, SlotsOK, NEW a \in Agents, SubStep(a)
    PROVE  SlotsOK'
<1> DEFINE B == Cardinality(At(Busy))
           R == Cardinality(At(Running))
<1>1. /\ sub \in [Agents -> SubPoints] /\ Limit \in Nat
      /\ slots \in Nat /\ active \in Nat /\ peak \in Nat
      /\ slots + B = Limit /\ active = R /\ peak <= Limit
  BY LimitAssumption DEF TypeOK, SlotsOK, SlotsKept, Busy, Running
<1>2. SUFFICES /\ slots' \in Nat /\ active' \in Nat /\ peak' \in Nat
               /\ slots' + B' = Limit /\ active' = R' /\ peak' <= Limit
  BY DEF SlotsOK, SlotsKept, Busy, Running
<1>3. ASSUME NEW x \in SubPoints, NEW y \in SubPoints, Step(a, x, y)
      PROVE  /\ B \in Nat /\ B' \in Nat /\ R \in Nat /\ R' \in Nat
             /\ x \in Busy /\ y \notin Busy => B = B' + 1
             /\ x \notin Busy /\ y \in Busy => B' = B + 1
             /\ (x \in Busy <=> y \in Busy) => B' = B
             /\ x \in Running /\ y \notin Running => R = R' + 1
             /\ x \notin Running /\ y \in Running => R' = R + 1
             /\ (x \in Running <=> y \in Running) => R' = R
  BY <1>1, <1>3, AgentMoves DEF Step
<1>4. R' <= B'
  <2>1. At(Running)' \subseteq At(Busy)' /\ At(Busy)' \subseteq Agents
    BY DEF At, Running, Busy
  <2>2. IsFiniteSet(At(Busy)')
    BY <2>1, AgentsAssumption, FS_Subset
  <2> QED
    BY <2>1, <2>2, FS_Subset
<1> HIDE DEF B, R
<1> USE DEF SubPoints, Busy, Running
<1>5. CASE AcquireSlot(a)
  BY <1>1, <1>3, <1>5 DEF AcquireSlot
<1>6. CASE EnterActive(a)
  <2>1. R' = R + 1 /\ B' = B /\ B \in Nat /\ R \in Nat
    BY <1>3, <1>6 DEF EnterActive
  <2>2. slots' = slots /\ active' = active + 1 /\ peak' \in {active', peak}
    BY <1>6 DEF EnterActive
  <2> QED
    BY <1>1, <1>4, <2>1, <2>2
<1>7. CASE RunnerEnds(a)
  BY <1>1, <1>3, <1>7 DEF RunnerEnds, manager
<1>8. CASE LeaveActive(a)
  BY <1>1, <1>3, <1>8 DEF LeaveActive
<1>9. CASE ReleaseSlot(a)
  BY <1>1, <1>3, <1>9 DEF ReleaseSlot
<1>10. CASE RecordUsage(a)
  BY <1>1, <1>3, <1>10 DEF RecordUsage
<1>11. CASE PersistRead(a)
  BY <1>1, <1>3, <1>11 DEF PersistRead, manager
<1>12. CASE PersistWrite(a)
  BY <1>1, <1>3, <1>12 DEF PersistWrite, manager
<1> QED
  BY <1>5, <1>6, <1>7, <1>8, <1>9, <1>10, <1>11, <1>12 DEF SubStep

-----------------------------------------------------------------------------
(* What the row says.                                                       *)

\* The tokens that are in the ledger and not in the row yet, one by one.
Owed == {x \in Agents \X (1..MaxUsage) : /\ sub[x[1]] \in {"read", "write"}
                                         /\ x[2] <= tokens[x[1]]}

\* A used_tokens that would not say too much if it were written now.
Booked(v) == v + Cardinality(Owed) <= charged + ledger

\* Neither the row nor a copy of it that is about to be written back says more
\* than was used.
AccountOK ==
    /\ tokens \in [Agents -> 0..MaxUsage]
    /\ Booked(used)
    /\ \A c \in Callers : at[c] = "store" => Booked(loaded[c])
    /\ \A a \in Agents : sub[a] = "write" => Booked(got[a])
    /\ ledger = 0 => used = charged
    /\ ledger = 0 => \A e \in refused : WouldExceed(e)

\* They are finitely many.
LEMMA OwedFinite ==
    /\ IsFiniteSet(Owed) /\ Cardinality(Owed) \in Nat
    /\ IsFiniteSet(Owed') /\ Cardinality(Owed') \in Nat
<1>1. IsFiniteSet(Agents \X (1..MaxUsage))
  <2>1. IsFiniteSet(1..MaxUsage)
    BY BudgetAssumption, FS_Interval
  <2> QED
    BY <2>1, AgentsAssumption, FS_Product
<1>2. Owed \subseteq Agents \X (1..MaxUsage) /\ Owed' \subseteq Agents \X (1..MaxUsage)
  BY DEF Owed
<1> QED
  BY <1>1, <1>2, FS_Subset, FS_CardinalityType

\* The tokens of one spawn.
LEMMA OwedByOne ==
    ASSUME NEW a \in Agents, NEW t \in 0..MaxUsage
    PROVE  IsFiniteSet({a} \X (1..t)) /\ Cardinality({a} \X (1..t)) = t
<1>1. t \in Nat /\ IsFiniteSet(1..t) /\ Cardinality(1..t) = t
  BY BudgetAssumption, FS_Interval
<1>2. IsFiniteSet({a}) /\ Cardinality({a}) = 1
  BY FS_Singleton
<1> DEFINE A == {a}
           T == 1..t
<1>3. /\ IsFiniteSet(A) /\ Cardinality(A) = 1
      /\ IsFiniteSet(T) /\ Cardinality(T) = t
  BY <1>1, <1>2
<1> HIDE DEF A, T
<1>4. IsFiniteSet(A \X T) /\ Cardinality(A \X T) = 1 * t
  BY <1>3, FS_Product
<1> QED
  BY <1>1, <1>4 DEF A, T

\* A call: what it loads is what the row says, what it stores is what it charges.
LEMMA ProceedAccount ==
    ASSUME UsageInvariant, AccountOK, NEW c \in Callers, Proceed(c), UNCHANGED subVars
    PROVE  AccountOK'
<1> DEFINE O == Cardinality(Owed)
<1>1. /\ TypeOK /\ O \in Nat /\ UNCHANGED <<ledger, sub, tokens, got>> /\ Owed' = Owed
  BY OwedFinite DEF UsageInvariant, subVars, manager, Owed
<1> USE <1>1
<1> HIDE DEF O
<1>2. ASSUME UNCHANGED <<used, charged>>,
             \A d \in Callers :
                 at'[d] = "store" => \/ loaded'[d] = used
                                     \/ at[d] = "store" /\ loaded'[d] = loaded[d],
             \A e \in refused' : e \in refused \/ WouldExceed(e)
      PROVE  AccountOK'
  BY <1>2 DEF AccountOK, Booked, WouldExceed
<1>3. CASE PrecheckAllows(c) \/ PrecheckFailsOpen(c)
  BY <1>2, <1>3 DEF PrecheckAllows, PrecheckFailsOpen, Goto, tracker, local, TypeOK
<1>4. CASE PrecheckBlocks(c)
  BY <1>2, <1>4 DEF PrecheckBlocks, Return, Goto, TypeOK
<1>5. CASE ChargeLoad(c)
  BY <1>2, <1>5 DEF ChargeLoad, Goto, TypeOK
<1>6. CASE ChargeStore(c)
  <2>1. PICK t \in Usages \cup {request[c].estimate} :
          used' = loaded[c] + t /\ charged' = charged + t
    BY <1>6 DEF ChargeStore
  <2>2. t \in Nat
    BY BudgetAssumption, RequestTyped DEF TypeOK
  <2>3. /\ at[c] = "store" /\ at' = [at EXCEPT ![c] = "put"]
        /\ UNCHANGED <<loaded, refused>>
    BY <1>6 DEF ChargeStore, Goto, local
  <2>4. /\ loaded[c] \in Nat /\ charged \in Nat /\ used \in Nat /\ ledger \in Nat
        /\ \A d \in Callers : loaded[d] \in Nat
        /\ \A d \in Callers : at'[d] = "store" => at[d] = "store"
        /\ \A a \in Agents : got[a] \in Nat
    BY <2>3 DEF TypeOK
  <2>5. \A v \in Nat : Booked(v) => v + O <= charged' + ledger'
    BY <2>1, <2>2, <2>4 DEF Booked, O
  <2>6. used' + O <= charged' + ledger'
    BY <2>1, <2>2, <2>3, <2>4 DEF AccountOK, Booked, O
  <2>7. ASSUME ledger = 0 PROVE used' = charged' /\ \A e \in refused : WouldExceed(e)'
    <3>1. loaded[c] = used /\ used = charged
      BY <2>3, <2>7 DEF UsageInvariant, ChargeExclusive, AccountOK
    <3>2. \A e \in refused : e \in Nat /\ used + e > MaxTokens
      BY <2>7 DEF AccountOK, WouldExceed, TypeOK
    <3>3. MaxTokens \in Nat /\ used' = used + t
      BY <2>1, <3>1, BudgetAssumption
    <3>4. \A e \in refused : used' + e > MaxTokens
      BY <2>2, <2>4, <3>2, <3>3
    <3> QED
      BY <2>1, <3>1, <3>4 DEF WouldExceed
  <2>8. \A v : Booked(v)' <=> v + O <= charged' + ledger'
    BY DEF Booked, O
  <2> QED
    BY <2>3, <2>4, <2>5, <2>6, <2>7, <2>8 DEF AccountOK
<1>7. CASE Quiet(c) /\ ~PrecheckBlocks(c)
  <2>1. UNCHANGED refused
    BY <1>7 DEF Proceed, tracker, PrecheckAllows, PrecheckFailsOpen, Route, Acquire,
         PoolExhausted, AcquireGrant, GrantSourceFails, Succeeds, FailsRetryably,
         FailsForGood, RejectsGrant, Quarantine, ChargeLoad, ChargeFails, ChargeStore,
         ChargeRaises, Put
  <2>2. PICK x \in Points \ {"store"} :
          /\ at' = [at EXCEPT ![c] = x]
          /\ loaded' \in {loaded, [loaded EXCEPT ![c] = 0]}
          /\ UNCHANGED <<used, charged>>
    BY <1>7 DEF Quiet
  <2>3. \A d \in Callers : at'[d] = "store" => at[d] = "store" /\ loaded'[d] = loaded[d]
    BY <2>2 DEF TypeOK
  <2> QED
    BY <1>2, <2>1, <2>2, <2>3
<1>8. CASE ChargeRaises(c)
  BY <1>2, <1>8 DEF ChargeRaises, Return, Goto, TypeOK
<1> QED
  BY <1>3, <1>4, <1>5, <1>6, <1>7, <1>8, ProceedCases

\* A subagent: its usage is in the ledger before it is in the row.
LEMMA SubStepAccount ==
    ASSUME UsageInvariant, UsageInvariant', AccountOK, NEW a \in Agents, SubStep(a),
           UNCHANGED gatewayOnly
    PROVE  AccountOK'
<1> DEFINE O == Cardinality(Owed)
           Mine == {a} \X (1..tokens[a])
<1>1. /\ TypeOK /\ TypeOK' /\ O \in Nat /\ O' \in Nat /\ IsFiniteSet(Owed)
      /\ UNCHANGED <<at, loaded, charged, refused>>
  BY OwedFinite DEF UsageInvariant, gatewayOnly, local
<1>2. /\ used \in Nat /\ charged \in Nat /\ ledger \in Nat /\ used' \in Nat /\ ledger' \in Nat
      /\ sub \in [Agents -> SubPoints] /\ tokens \in [Agents -> 0..MaxUsage]
      /\ \A b \in Agents : got[b] \in Nat /\ tokens[b] \in Nat
      /\ \A c \in Callers : loaded[c] \in Nat
      /\ got \in [Agents -> Nat]
  BY <1>1 DEF TypeOK, AccountOK
<1>3. /\ \A v : Booked(v) <=> v + O <= charged + ledger
      /\ \A v : Booked(v)' <=> v + O' <= charged + ledger'
  BY <1>1 DEF Booked
<1>4. IsFiniteSet(Mine) /\ Cardinality(Mine) = tokens[a]
  BY <1>2, OwedByOne
<1> HIDE DEF O
\* Steps that touch neither the ledger nor the row.
<1>5. ASSUME Owed' = Owed, UNCHANGED <<used, ledger>>,
             tokens' \in [Agents -> 0..MaxUsage],
             \A b \in Agents : sub'[b] = "write" => \/ sub[b] = "write" /\ got'[b] = got[b]
                                                   \/ got'[b] = used
      PROVE  AccountOK'
  <2>1. O' = O
    BY <1>5 DEF O
  <2>2. \A v : Booked(v)' <=> Booked(v)
    BY <1>3, <1>5, <2>1
  <2> QED
    BY <1>1, <1>5, <2>2 DEF AccountOK, WouldExceed
<1>6. ASSUME NEW x \in SubPoints, NEW y \in SubPoints, Step(a, x, y), UNCHANGED tokens,
             x \in {"read", "write"} <=> y \in {"read", "write"}
      PROVE  Owed' = Owed
  <2>1. \A b \in Agents : sub'[b] \in {"read", "write"} <=> sub[b] \in {"read", "write"}
    BY <1>2, <1>6 DEF Step
  <2> QED
    BY <1>6, <2>1 DEF Owed
<1>7. CASE AcquireSlot(a) \/ EnterActive(a) \/ LeaveActive(a) \/ ReleaseSlot(a)
  <2>1. PICK x \in SubPoints, y \in SubPoints :
          /\ Step(a, x, y) /\ UNCHANGED <<tokens, used, ledger, got>>
          /\ x \notin {"read", "write"} /\ y \notin {"read", "write"}
    BY <1>7 DEF AcquireSlot, EnterActive, LeaveActive, ReleaseSlot, SubPoints
  <2>2. \A b \in Agents : sub'[b] = "write" => sub[b] = "write"
    BY <1>2, <2>1 DEF Step
  <2> QED
    BY <1>2, <1>5, <1>6, <2>1, <2>2
<1>8. CASE RunnerEnds(a)
  <2>1. PICK t \in Usages \cup {0} : tokens' = [tokens EXCEPT ![a] = t]
    BY <1>8 DEF RunnerEnds
  <2>2. t \in 0..MaxUsage
    BY BudgetAssumption
  <2>3. /\ sub[a] = "run" /\ sub' = [sub EXCEPT ![a] = "leave"]
        /\ UNCHANGED <<used, got, ledger>>
    BY <1>8 DEF RunnerEnds, Step, manager
  <2>4. \A b \in Agents : /\ sub'[b] \in {"read", "write"} <=> sub[b] \in {"read", "write"}
                          /\ sub'[b] = "write" => sub[b] = "write"
                          /\ sub[b] \in {"read", "write"} => tokens'[b] = tokens[b]
    BY <1>2, <2>1, <2>3
  <2>5. Owed' = Owed
    BY <2>4 DEF Owed
  <2>6. tokens' \in [Agents -> 0..MaxUsage]
    BY <1>2, <2>1, <2>2
  <2> QED
    BY <1>5, <2>3, <2>4, <2>5, <2>6
<1>9. CASE RecordUsage(a)
  <2>1. /\ sub[a] = "record" /\ ledger' = ledger + tokens[a]
        /\ sub' = [sub EXCEPT ![a] = IF tokens[a] > 0 THEN "read" ELSE "done"]
        /\ UNCHANGED <<used, tokens, got>>
    BY <1>9 DEF RecordUsage, Step
  <2>2. \A b \in Agents : sub'[b] = "write" => sub[b] = "write"
    BY <1>2, <2>1
  <2>3. O' = O + tokens[a]
    <3>1. Owed' = Owed \cup Mine
      <4>1. \A x \in Agents \X (1..MaxUsage) :
               x[1] \in Agents /\ x[2] \in 1..MaxUsage /\ x = <<x[1], x[2]>>
        OBVIOUS
      <4>2. Mine \subseteq Agents \X (1..MaxUsage)
        BY <1>2, BudgetAssumption
      <4>3. ASSUME NEW x \in Agents \X (1..MaxUsage)
            PROVE  x \in Owed' <=> x \in Owed \/ x \in Mine
        <5>1. x \in Mine <=> x[1] = a /\ x[2] <= tokens[a]
          BY <1>2, <4>1, BudgetAssumption
        <5>2. CASE x[1] = a
          BY <1>2, <2>1, <4>1, <5>1, <5>2, BudgetAssumption DEF Owed
        <5>3. CASE x[1] # a
          BY <1>2, <2>1, <4>1, <5>1, <5>3 DEF Owed
        <5> QED
          BY <5>2, <5>3
      <4> QED
        BY <4>2, <4>3 DEF Owed
    <3>2. Owed \cap Mine = {}
      BY <2>1 DEF Owed
    <3> HIDE DEF Mine
    <3>3. Cardinality(Owed \cup Mine) = O + tokens[a] - Cardinality({})
      BY <1>1, <1>4, <3>2, FS_Union DEF O
    <3>4. Cardinality({}) = 0
      BY FS_EmptySet
    <3> QED
      BY <1>1, <1>2, <3>1, <3>3, <3>4 DEF O
  <2>4. \A v \in Nat : Booked(v) => Booked(v)'
    BY <1>1, <1>2, <1>3, <2>1, <2>3
  <2>5. ledger' = 0 => ledger = 0
    BY <1>2, <2>1
  <2> QED
    BY <1>1, <1>2, <2>1, <2>2, <2>4, <2>5 DEF AccountOK, WouldExceed
<1>10. CASE PersistRead(a)
  <2>1. /\ Step(a, "read", "write") /\ got' = [got EXCEPT ![a] = used]
        /\ UNCHANGED <<used, tokens, ledger>>
    BY <1>10 DEF PersistRead, manager
  <2>2. Owed' = Owed
    BY <1>6, <2>1 DEF SubPoints
  <2>3. \A b \in Agents : sub'[b] = "write" => \/ sub[b] = "write" /\ got'[b] = got[b]
                                              \/ got'[b] = used
    BY <1>2, <2>1 DEF Step
  <2> QED
    BY <1>2, <1>5, <2>1, <2>2, <2>3
<1>11. CASE PersistWrite(a)
  <2>1. /\ sub[a] = "write" /\ sub' = [sub EXCEPT ![a] = "done"]
        /\ used' = got[a] + tokens[a] /\ UNCHANGED <<tokens, got, ledger>>
    BY <1>11 DEF PersistWrite, Step, manager
  <2>2. O = O' + tokens[a]
    <3>1. Owed = Owed' \cup Mine
      <4>1. \A x \in Agents \X (1..MaxUsage) :
               x[1] \in Agents /\ x[2] \in 1..MaxUsage /\ x = <<x[1], x[2]>>
        OBVIOUS
      <4>2. Mine \subseteq Agents \X (1..MaxUsage)
        BY <1>2, BudgetAssumption
      <4>3. ASSUME NEW x \in Agents \X (1..MaxUsage)
            PROVE  x \in Owed <=> x \in Owed' \/ x \in Mine
        <5>1. x \in Mine <=> x[1] = a /\ x[2] <= tokens[a]
          BY <1>2, <4>1, BudgetAssumption
        <5>2. CASE x[1] = a
          BY <1>2, <2>1, <4>1, <5>1, <5>2, BudgetAssumption DEF Owed
        <5>3. CASE x[1] # a
          BY <1>2, <2>1, <4>1, <5>1, <5>3 DEF Owed
        <5> QED
          BY <5>2, <5>3
      <4> QED
        BY <4>2, <4>3 DEF Owed
    <3>2. Owed' \cap Mine = {}
      BY <1>2, <2>1 DEF Owed
    <3> HIDE DEF Mine
    <3>3. Cardinality(Owed' \cup Mine) = O' + tokens[a] - Cardinality({})
      <4>1. IsFiniteSet(Owed')
        BY OwedFinite
      <4> QED
        BY <1>4, <3>2, <4>1, FS_Union DEF O
    <3>4. Cardinality({}) = 0
      BY FS_EmptySet
    <3> QED
      BY <1>1, <1>2, <3>1, <3>3, <3>4 DEF O
  <2>3. \A v \in Nat : Booked(v) => Booked(v)'
    BY <1>1, <1>2, <1>3, <2>1, <2>2
  <2>4. Booked(used)'
    BY <1>1, <1>2, <1>3, <2>1, <2>2 DEF AccountOK
  <2>5. \A b \in Agents : sub'[b] = "write" => sub[b] = "write"
    BY <1>2, <2>1
  <2>6. ledger # 0
    BY <2>1 DEF UsageInvariant, LedgerFirst
  <2> QED
    BY <1>1, <1>2, <2>1, <2>3, <2>4, <2>5, <2>6 DEF AccountOK
<1> QED
  BY <1>7, <1>8, <1>9, <1>10, <1>11 DEF SubStep

-----------------------------------------------------------------------------
(* The gateway and the subagents together.                                  *)

\* The inductive invariant of the gateway's parts, beside UsageInvariant.
GatewayInvariant ==
    /\ UsageInvariant /\ CallsOK /\ PoolsOK
    /\ \A c \in Callers : RejectionsOK(c)
    /\ CacheOK /\ LimiterOK /\ SlotsOK /\ AccountOK

\* It holds of a new gateway and a new subagent manager.
LEMMA InitGateway == Init => GatewayInvariant
<1> SUFFICES ASSUME Init PROVE GatewayInvariant
  OBVIOUS
<1>1. UsageInvariant
  BY InitUsage
<1> USE DEF Init, GatewayInit, SubInit
<1>2. CallsOK
  <2>1. NoHealth \in Snapshots /\ NoRequest \in Requests /\ <<>> \in Seq(Providers)
        /\ 0 \in 0..(MaxRetries + 1)
    BY GatewayAssumption, SnapshotTyped, RequestTyped
  <2>2. LocalsTyped
    BY <2>1 DEF LocalsTyped, Points
  <2> QED
    BY <2>2 DEF CallsOK, CallOK, Admitted, Unpaid
<1>3. PoolsOK
  BY DEF PoolsOK, PoolsTyped, QuarantineHolds
<1>4. \A c \in Callers : RejectionsOK(c)
  BY DEF RejectionsOK, Admitted
<1>5. CacheOK
  <2>1. IsFiniteSet(store) /\ Cardinality(store) = 0
    BY FS_EmptySet
  <2>2. order \in Seq(Keys) /\ Len(order) = 0 /\ DOMAIN order = {} /\ store = {}
    OBVIOUS
  <2>3. store = {order[i] : i \in DOMAIN order} /\ MaxEntries \in Nat
    BY <2>2, GatewayAssumption
  <2> QED
    BY <2>1, <2>2, <2>3 DEF CacheOK, CacheConsistent
<1>6. LimiterOK
  <2>1. <<>> \in Seq(Nat) /\ Sorted(<<>>) /\ Left(<<>>, 0)
    BY DEF Sorted, Left
  <2>2. Evict(<<>>) = SubSeq(<<>>, 0 + 1, Len(<<>>))
    BY <2>1, EvictDrops
  <2>3. Evict(<<>>) = <<>> /\ Len(<<>>) <= MaxCalls
    BY <2>2, GatewayAssumption
  <2> QED
    BY <2>1, <2>3 DEF LimiterOK
<1>7. SlotsOK
  <2>1. At({"enter", "run", "leave", "release"}) = {} /\ At({"run", "leave"}) = {}
    BY DEF At
  <2>2. /\ Cardinality(At({"enter", "run", "leave", "release"})) = 0
        /\ Cardinality(At({"run", "leave"})) = 0
    BY <2>1, FS_EmptySet
  <2> QED
    BY <2>2, LimitAssumption DEF SlotsOK, SlotsKept
<1>8. AccountOK
  <2>1. Owed = {}
    BY DEF Owed
  <2>2. Cardinality(Owed) = 0
    BY <2>1, FS_EmptySet
  <2> QED
    BY <2>2, BudgetAssumption DEF AccountOK, Booked
<1> QED
  BY <1>1, <1>2, <1>3, <1>4, <1>5, <1>6, <1>7, <1>8 DEF GatewayInvariant

\* No step of a thread, a subagent or the clock breaks it.
LEMMA NextGateway == GatewayInvariant /\ [Next]_vars => GatewayInvariant'
<1> SUFFICES ASSUME GatewayInvariant, [Next]_vars PROVE GatewayInvariant'
  OBVIOUS
<1>1. /\ UsageInvariant /\ CallsOK /\ PoolsOK /\ \A c \in Callers : RejectionsOK(c)
      /\ CacheOK /\ LimiterOK /\ SlotsOK /\ AccountOK
  BY DEF GatewayInvariant
<1>2. UsageInvariant'
  BY <1>1, NextUsage
<1>3. ASSUME UNCHANGED subVars PROVE SlotsOK'
  BY <1>1, <1>3 DEF subVars, manager, SlotsOK, SlotsKept, At
<1>4. ASSUME NEW c \in Callers, Proceed(c), UNCHANGED subVars PROVE GatewayInvariant'
  <2>1. CallsOK'
    BY <1>1, <1>4, ProceedOK DEF PoolsOK
  <2>2. PoolsOK' /\ \A p \in Providers : quarantined[p] \subseteq quarantined'[p]
    BY <1>1, <1>4, ProceedPools
  <2>3. \A d \in Callers : RejectionsOK(d)'
    BY <1>1, <1>4, <2>1, <2>2, ProceedRejections
  <2>4. CacheOK' /\ LimiterOK'
    BY <1>1, <1>4, ProceedCache, ProceedLimiter
  <2>5. AccountOK'
    BY <1>1, <1>4, ProceedAccount
  <2> QED
    BY <1>2, <1>3, <1>4, <2>1, <2>2, <2>3, <2>4, <2>5 DEF GatewayInvariant
<1>5. ASSUME UNCHANGED <<cursor, quarantined, granted, qlog, cache, limiter, used, charged,
                         refused, candidates, failed, attempts, grant, rejected, health,
                         loaded, subVars>>,
             CallsOK', \A c \in Callers : at'[c] = "store" => at[c] = "store",
             \A c \in Callers : at'[c] = at[c] \/ {at[c], at'[c]} \cap Admitted = {}
      PROVE  GatewayInvariant'
  <2>1. PoolsOK' /\ CacheOK' /\ LimiterOK' 
    BY <1>1, <1>5 DEF PoolsOK, PoolsTyped, QuarantineHolds, cache, CacheOK, CacheConsistent,
                      limiter, LimiterOK
  <2>2. \A c \in Callers : RejectionsOK(c)'
    BY <1>1, <1>5 DEF RejectionsOK, Spent, Current, Admitted
  <2>3. UNCHANGED <<sub, tokens, got, ledger>>
    BY <1>5 DEF subVars, manager
  <2>4. AccountOK'
    BY <1>1, <1>5, <2>3 DEF AccountOK, Booked, Owed, WouldExceed
  <2> QED
    BY <1>2, <1>3, <1>5, <2>1, <2>2, <2>4 DEF GatewayInvariant
<1>6. ASSUME NEW c \in Callers, NEW k \in Keys \cup {None}, Call(c, k), UNCHANGED subVars
      PROVE  GatewayInvariant'
  <2>1. /\ UNCHANGED <<cursor, quarantined, granted, qlog, cache, limiter, used, charged,
                       refused, candidates, failed, attempts, grant, rejected, health,
                       loaded, subVars>>
        /\ at[c] = "idle"
        /\ \/ UNCHANGED <<at, key, request>>
           \/ /\ at' = [at EXCEPT ![c] = IF "budgets" \in parts THEN "precheck" ELSE "route"]
              /\ key' = [key EXCEPT ![c] = IF "cache" \in parts THEN k ELSE None]
              /\ \E r : request' = [request EXCEPT ![c] = r]
              /\ request' \in [Callers -> Requests]
    <3>1. CASE Hit(k)
      BY <1>6, <3>1 DEF Call, pools, tracker, Goto
    <3>2. CASE ~Hit(k)
      BY <1>1, <1>6, <3>2, CallRequests DEF Call, pools, tracker, Goto, UsageInvariant
    <3> QED
      BY <3>1, <3>2
  <2>2. CallsOK'
    <3>1. LocalsTyped'
      <4>1. /\ at' \in [Callers -> Points] /\ key' \in [Callers -> Keys \cup {None}]
            /\ request' \in [Callers -> Requests]
        <5>1. CASE UNCHANGED <<at, key, request>>
          BY <1>1, <5>1 DEF CallsOK, LocalsTyped
        <5>2. CASE ~UNCHANGED <<at, key, request>>
          <6>1. \E x \in Points : at' = [at EXCEPT ![c] = x]
            BY <2>1, <5>2 DEF Points
          <6>2. \E x \in Keys \cup {None} : key' = [key EXCEPT ![c] = x]
            BY <2>1, <5>2
          <6> QED
            BY <1>1, <2>1, <5>2, <6>1, <6>2 DEF CallsOK, LocalsTyped
        <5> QED
          BY <5>1, <5>2
      <4> QED
        BY <1>1, <2>1, <4>1 DEF CallsOK, LocalsTyped
    <3>2. \A d \in Callers : CallOK(d)'
      BY <1>1, <2>1 DEF CallsOK, LocalsTyped, CallOK, Admitted, Unpaid
    <3> QED
      BY <3>1, <3>2 DEF CallsOK
  <2>3. \A d \in Callers : /\ at'[d] = "store" => at[d] = "store"
                           /\ at'[d] = at[d] \/ {at[d], at'[d]} \cap Admitted = {}
    BY <1>1, <2>1 DEF CallsOK, LocalsTyped, Admitted
  <2> QED
    BY <1>5, <2>1, <2>2, <2>3
<1>7. ASSUME Tick, UNCHANGED subVars PROVE GatewayInvariant'
  <2>1. LimiterOK'
    BY <1>1, <1>7, TickLimiter
  <2>2. UNCHANGED <<cursor, quarantined, granted, qlog, store, order, used, charged,
                    refused, at, key, request, candidates, failed, attempts, grant,
                    rejected, health, loaded>>
    BY <1>7 DEF Tick, pools, cache, tracker, local
  <2>3. CallsOK' /\ PoolsOK' /\ CacheOK'
    BY <1>1, <2>2 DEF CallsOK, LocalsTyped, CallOK, PoolsOK, PoolsTyped, QuarantineHolds,
                      CacheOK, CacheConsistent
  <2>4. \A c \in Callers : RejectionsOK(c)'
    BY <1>1, <2>2 DEF RejectionsOK, Spent, Current
  <2>5. AccountOK'
    BY <1>1, <1>7, <2>2 DEF AccountOK, Booked, Owed, WouldExceed, subVars, manager
  <2> QED
    BY <1>2, <1>3, <1>7, <2>1, <2>3, <2>4, <2>5 DEF GatewayInvariant
<1>8. ASSUME NEW a \in Agents, SubStep(a), UNCHANGED gatewayOnly PROVE GatewayInvariant'
  <2>1. UNCHANGED <<cursor, quarantined, granted, qlog, store, order, bucket, admitted, at, key,
                    request, candidates, failed, attempts, grant, rejected, health>>
    BY <1>8 DEF gatewayOnly, pools, cache, limiter, local
  <2>2. CallsOK' /\ PoolsOK' /\ CacheOK' /\ LimiterOK'
    <3>1. CallsOK'
      BY <1>1, <2>1 DEF CallsOK, LocalsTyped, CallOK
    <3>2. PoolsOK' /\ CacheOK' /\ LimiterOK'
      BY <1>1, <2>1 DEF PoolsOK, PoolsTyped, QuarantineHolds, CacheOK, CacheConsistent,
                        LimiterOK
    <3> QED
      BY <3>1, <3>2
  <2>3. \A c \in Callers : RejectionsOK(c)'
    BY <1>1, <2>1 DEF RejectionsOK, Spent, Current
  <2>4. SlotsOK' /\ AccountOK'
    BY <1>1, <1>2, <1>8, SubStepSlots, SubStepAccount DEF UsageInvariant
  <2> QED
    BY <1>2, <2>2, <2>3, <2>4 DEF GatewayInvariant
<1>9. ASSUME UNCHANGED vars PROVE GatewayInvariant'
  <2>1. UNCHANGED <<cursor, quarantined, granted, qlog, cache, limiter, used, charged,
                    refused, candidates, failed, attempts, grant, rejected, health,
                    loaded, subVars>> /\ UNCHANGED <<at, key, request>>
    BY <1>9 DEF vars, gatewayVars, tracker, pools, local
  <2>2. CallsOK'
    BY <1>1, <2>1 DEF CallsOK, LocalsTyped, CallOK
  <2> QED
    BY <1>5, <2>1, <2>2
<1> QED
  BY <1>4, <1>6, <1>7, <1>8, <1>9 DEF Next, GatewayNext, SubNext

\* Everything below follows from one inductive invariant.
THEOREM GatewaySafe == Spec => []GatewayInvariant
<1>1. Init => GatewayInvariant
  BY InitGateway
<1>2. GatewayInvariant /\ [Next]_vars => GatewayInvariant'
  BY NextGateway
<1> QED
  BY <1>1, <1>2, PTL DEF Spec

\* The row never says more than was used and, without subagents, exactly what was
\* charged, however charges and subagents interleave; a request estimated at least
\* as high as one that was blocked is blocked too.
THEOREM RowIsHonest == Spec => []UsageAccounted
<1>1. GatewayInvariant => UsageAccounted
  <2> SUFFICES ASSUME GatewayInvariant PROVE UsageAccounted
    OBVIOUS
  <2>1. AccountOK /\ TypeOK
    BY DEF GatewayInvariant, UsageInvariant
  <2>2. used <= charged + ledger
    <3>1. used + Cardinality(Owed) <= charged + ledger
      BY <2>1 DEF AccountOK, Booked
    <3> QED
      BY <2>1, <3>1, OwedFinite DEF TypeOK
  <2> QED
    BY <2>1, <2>2 DEF AccountOK, UsageAccounted
<1> QED
  BY <1>1, GatewaySafe, PTL

\* The rate limiter, the retries, the pools and the subagents' semaphore keep
\* their bounds for any number of threads.
THEOREM BoundsKept == Spec => []LimitsKept
<1>1. GatewayInvariant => LimitsKept
  BY RejectionsBounded DEF GatewayInvariant, LimitsKept, SlotsOK, LimiterOK
<1> QED
  BY <1>1, GatewaySafe, PTL

\* A rejected credential has no session and is in the log, and only rejected ones are.
THEOREM QuarantineKept == Spec => []QuarantineHolds
<1>1. GatewayInvariant => QuarantineHolds
  BY DEF GatewayInvariant, PoolsOK
<1> QED
  BY <1>1, GatewaySafe, PTL

\* The cache's map and queue stay in step for any number of threads and keys.
THEOREM CacheKept == Spec => []CacheConsistent
<1>1. GatewayInvariant => CacheConsistent
  BY DEF GatewayInvariant, CacheOK
<1> QED
  BY <1>1, GatewaySafe, PTL

\* Every call is routed to every available provider of its policy, or, when that
\* names none, of its snapshot, once, best first.
THEOREM RoutedWell == Spec => []CallsWellRouted
<1>1. GatewayInvariant => CallsWellRouted
  BY DEF GatewayInvariant, CallsOK, CallOK, CallsWellRouted
<1> QED
  BY <1>1, GatewaySafe, PTL

-----------------------------------------------------------------------------
(* Rotation of grants.                                                      *)

\* No pool lists a reference twice; the code does not look.
PoolsDistinct ==
    \A p \in Providers : \A i, j \in DOMAIN Pool[p] : Pool[p][i] = Pool[p][j] => i = j

\* Where the cursor is, given that it is not far off.
LEMMA Wraps ==
    ASSUME NEW L \in Nat \ {0}, NEW x \in Nat, x < L + L
    PROVE  x % L = IF x < L THEN x ELSE x - L
<1>1. CASE x < L
  BY <1>1
<1>2. CASE ~(x < L)
  <2>1. x - L \in 0..(L - 1)
    BY <1>2
  <2> QED
    BY <1>2, <2>1
<1> QED
  BY <1>1, <1>2

\* The cursor is one past the reference chosen last, and only a call of a gateway
\* with pools has or waits for a grant.
RotationOK ==
    /\ lastRef \in [Providers -> Refs \cup {None}]
    /\ \A p \in Providers :
          lastRef[p] # None =>
              \E i \in 0..(Len(Pool[p]) - 1) : /\ lastRef[p] = Pool[p][i + 1]
                                               /\ cursor[p] = (i + 1) % Len(Pool[p])
    /\ \A c \in Callers : at[c] = "grant" \/ grant[c] # None => "pools" \in parts

\* When the reference chosen last comes up again, a whole turn found nothing else.
LEMMA FullTurn ==
    ASSUME PoolsDistinct, PoolsTyped, RotationOK, NEW p \in Providers, Offsets(p) # {},
           Pool[p][Index(p) + 1] = lastRef[p]
    PROVE  \A j \in DOMAIN Pool[p] : Pool[p][j] \in quarantined[p] \cup {lastRef[p]}
<1> DEFINE L == Len(Pool[p])
           cur == cursor[p]
<1>1. /\ Pool[p] \in Seq(Refs) /\ L \in Nat /\ cur \in Nat /\ DOMAIN Pool[p] = 1..L
  BY GatewayAssumption DEF PoolsTyped
<1>2. PICK o \in Offsets(p) : (\A q \in Offsets(p) : o <= q) /\ Index(p) = (cur + o) % L
  BY <1>1, IndexChosen
<1>3. Index(p) \in 0..(L - 1) /\ Pool[p][Index(p) + 1] \in Refs
  BY <1>1, IndexChosen
<1>4. PICK i \in 0..(L - 1) : lastRef[p] = Pool[p][i + 1] /\ cur = (i + 1) % L
  BY <1>3, GatewayAssumption DEF RotationOK
<1>5. o \in 0..(L - 1)
      /\ \A q \in 0..(L - 1) :
            q \in Offsets(p) <=> Pool[p][((cur + q) % L) + 1] \notin quarantined[p]
  BY <1>2 DEF Offsets
<1> HIDE DEF L, cur
<1>6. i = Index(p)
  <2>1. i + 1 \in DOMAIN Pool[p] /\ Index(p) + 1 \in DOMAIN Pool[p]
    BY <1>1, <1>3, <1>4
  <2>2. i + 1 = Index(p) + 1
    BY <1>4, <2>1 DEF PoolsDistinct
  <2> QED
    BY <1>3, <1>4, <2>2
<1>7. L \in Nat \ {0} /\ i \in Nat /\ i < L /\ i + 1 \in Nat /\ i + 1 < L + L
  BY <1>1, <1>4
<1>8. cur = IF i + 1 < L THEN i + 1 ELSE 0
  <2>1. (i + 1) % L = IF i + 1 < L THEN i + 1 ELSE (i + 1) - L
    BY <1>7, Wraps
  <2> QED
    BY <1>4, <1>7, <2>1
<1>9. \A q \in 0..(L - 1) : (cur + q) % L = IF cur + q < L THEN cur + q ELSE (cur + q) - L
  <2> SUFFICES ASSUME NEW q \in 0..(L - 1)
               PROVE  (cur + q) % L = IF cur + q < L THEN cur + q ELSE (cur + q) - L
    OBVIOUS
  <2>1. cur + q \in Nat /\ cur + q < L + L
    BY <1>1, <1>7, <1>8
  <2> QED
    BY <1>7, <2>1, Wraps
<1>10. o = L - 1
  <2>1. i = IF cur + o < L THEN cur + o ELSE (cur + o) - L
    BY <1>2, <1>5, <1>6, <1>9
  <2> QED
    BY <1>5, <1>7, <1>8, <2>1
<1> SUFFICES ASSUME NEW j \in DOMAIN Pool[p], Pool[p][j] # lastRef[p]
             PROVE  Pool[p][j] \in quarantined[p]
  OBVIOUS
<1>11. j \in 1..L /\ j # i + 1
  BY <1>1, <1>4
<1> DEFINE q == IF i + 1 = L THEN j - 1 ELSE IF j > i + 1 THEN j - i - 2 ELSE (j - i - 2) + L
<1>12. q \in 0..(L - 1) /\ q < L - 1 /\ (cur + q) % L = j - 1
  <2>1. q \in 0..(L - 1) /\ q < L - 1
    BY <1>7, <1>11
  <2>2. (cur + q) % L = IF cur + q < L THEN cur + q ELSE (cur + q) - L
    BY <1>9, <2>1
  <2> QED
    BY <1>7, <1>8, <1>11, <2>1, <2>2
<1> HIDE DEF q
<1>13. q \notin Offsets(p)
  <2>1. ASSUME q \in Offsets(p) PROVE FALSE
    <3>1. o <= q
      BY <1>2, <2>1
    <3> QED
      BY <1>7, <1>10, <1>12, <3>1
  <2> QED
    BY <2>1
<1>14. Pool[p][((cur + q) % L) + 1] \in quarantined[p]
  BY <1>5, <1>12, <1>13
<1>15. ((cur + q) % L) + 1 = j
  BY <1>11, <1>12
<1> QED
  BY <1>14, <1>15

\* Every step keeps the cursor one past the reference chosen last, and a thread
\* that gets a grant was handed the reference the cursor led to.
LEMMA ProceedRotation ==
    ASSUME CallsOK, PoolsOK, RotationOK, NEW c \in Callers, Proceed(c)
    PROVE  /\ RotationOK'
           /\ at[c] = "grant" /\ at'[c] = "invoke" => AcquireGrant(c)
<1> DEFINE Sane == \A d \in Callers : at'[d] = "grant" \/ grant'[d] # None => "pools" \in parts'
           Kept == RotationOK' /\ (at[c] = "grant" => at'[c] # "invoke")
<1> USE DEF CallsOK, LocalsTyped
<1>1. ASSUME Return(c), UNCHANGED parts PROVE Sane /\ at'[c] = "idle"
  BY <1>1 DEF Return, Goto, RotationOK
<1>2. ASSUME ProviderFails(c), UNCHANGED parts PROVE Sane /\ at'[c] \in {"idle", "limit"}
  BY <1>1, <1>2 DEF ProviderFails, Goto, RotationOK
<1>3. ASSUME Retry(c), UNCHANGED parts
      PROVE  Sane /\ (at'[c] = "invoke" => "pools" \notin parts \/ Pool[Current(c)] = <<>>)
  BY <1>2, <1>3 DEF Retry, Goto, RotationOK, AttemptAt
<1> HIDE DEF Kept
<1>4. ASSUME UNCHANGED <<cursor, lastRef>>, Sane, at[c] = "grant" => at'[c] # "invoke"
      PROVE  Kept
  BY <1>4 DEF RotationOK, Kept
\* The cursor moves on, past the reference it names.
<1>5. ASSUME at[c] = "grant", Offsets(Current(c)) # {}, Sane,
             cursor' = [cursor EXCEPT ![Current(c)] = NextCursor(Current(c))],
             lastRef' = [lastRef EXCEPT ![Current(c)] = Pool[Current(c)][Index(Current(c)) + 1]]
      PROVE  RotationOK'
  <2> DEFINE p == Current(c)
  <2>1. p \in Providers
    BY <1>5, CurrentProvider DEF Admitted
  <2>2. Index(p) \in 0..(Len(Pool[p]) - 1) /\ Pool[p][Index(p) + 1] \in Refs
    BY <1>5, <2>1, IndexChosen DEF PoolsOK, PoolsTyped
  <2>3. NextCursor(p) = (Index(p) + 1) % Len(Pool[p])
    BY DEF NextCursor
  <2> HIDE DEF p
  <2>4. /\ cursor' = [cursor EXCEPT ![p] = NextCursor(p)]
        /\ lastRef' = [lastRef EXCEPT ![p] = Pool[p][Index(p) + 1]]
    BY <1>5 DEF p
  <2>5. lastRef \in [Providers -> Refs \cup {None}] /\ cursor \in [Providers -> Nat]
    BY DEF RotationOK, PoolsOK, PoolsTyped
  <2>6. lastRef' \in [Providers -> Refs \cup {None}]
    BY <2>1, <2>2, <2>4, <2>5
  <2>7. ASSUME NEW q \in Providers, lastRef'[q] # None
        PROVE  \E i \in 0..(Len(Pool[q]) - 1) : /\ lastRef'[q] = Pool[q][i + 1]
                                                /\ cursor'[q] = (i + 1) % Len(Pool[q])
    <3>1. CASE q = p
      <4>1. lastRef'[p] = Pool[p][Index(p) + 1] /\ cursor'[p] = (Index(p) + 1) % Len(Pool[p])
        BY <2>1, <2>3, <2>4, <2>5
      <4> QED
        BY <2>2, <3>1, <4>1
    <3>2. CASE q # p
      <4>1. lastRef'[q] = lastRef[q] /\ cursor'[q] = cursor[q]
        BY <2>4, <2>5, <3>2
      <4> QED
        BY <2>7, <4>1 DEF RotationOK
    <3> QED
      BY <3>1, <3>2
  <2> QED
    BY <1>5, <2>6, <2>7 DEF RotationOK
<1>6. CASE PrecheckAllows(c) \/ PrecheckBlocks(c) \/ PrecheckFailsOpen(c)
  <2>1. /\ UNCHANGED <<cursor, lastRef, parts>> /\ at[c] # "grant"
        /\ Return(c) \/ (Goto(c, "route") /\ UNCHANGED grant)
    BY <1>6 DEF PrecheckAllows, PrecheckBlocks, PrecheckFailsOpen, pools, local
  <2>2. Sane
    BY <1>1, <2>1 DEF Goto, RotationOK
  <2>3. Kept
    BY <1>4, <2>1, <2>2
  <2> QED
    BY <2>3 DEF Kept
<1>7. CASE Route(c)
  <2>1. /\ UNCHANGED <<cursor, lastRef, parts>> /\ at[c] # "grant"
        /\ Return(c) \/ (Goto(c, "limit") /\ UNCHANGED grant)
    BY <1>7 DEF Route, pools
  <2>2. Sane
    BY <1>1, <2>1 DEF Goto, RotationOK
  <2>3. Kept
    BY <1>4, <2>1, <2>2
  <2> QED
    BY <2>3 DEF Kept
<1>8. CASE Acquire(c)
  <2>1. /\ UNCHANGED <<cursor, lastRef, parts, grant>> /\ at[c] # "grant"
        /\ Goto(c, AttemptAt(Current(c)))
    BY <1>8 DEF Acquire, pools
  <2>2. Sane
    BY <2>1 DEF Goto, RotationOK, AttemptAt
  <2>3. Kept
    BY <1>4, <2>1, <2>2
  <2> QED
    BY <2>3 DEF Kept
<1>9. CASE PoolExhausted(c) \/ FailsForGood(c)
  <2>1. ProviderFails(c) /\ UNCHANGED <<cursor, lastRef, parts>>
    BY <1>9 DEF PoolExhausted, FailsForGood, pools
  <2>2. Kept
    BY <1>2, <1>4, <2>1
  <2> QED
    BY <2>2 DEF Kept
<1>10. CASE FailsRetryably(c)
  <2>1. Retry(c) /\ at[c] = "invoke" /\ UNCHANGED <<cursor, lastRef, parts>>
    BY <1>10 DEF FailsRetryably, pools
  <2>2. Kept
    BY <1>3, <1>4, <2>1
  <2> QED
    BY <2>2 DEF Kept
<1>11. CASE GrantSourceFails(c)
  <2>1. /\ at[c] = "grant" /\ Offsets(Current(c)) # {} /\ Retry(c) /\ UNCHANGED parts
        /\ cursor' = [cursor EXCEPT ![Current(c)] = NextCursor(Current(c))]
        /\ lastRef' = [lastRef EXCEPT ![Current(c)] = Pool[Current(c)][Index(Current(c)) + 1]]
    BY <1>11 DEF GrantSourceFails
  <2>2. RotationOK'
    BY <1>3, <1>5, <2>1
  <2>3. "pools" \in parts /\ Pool[Current(c)] # <<>>
    BY <2>1 DEF RotationOK, Offsets
  <2> QED
    BY <1>3, <2>1, <2>2, <2>3
<1>12. CASE AcquireGrant(c)
  <2>1. /\ at[c] = "grant" /\ Offsets(Current(c)) # {} /\ UNCHANGED parts
        /\ cursor' = [cursor EXCEPT ![Current(c)] = NextCursor(Current(c))]
        /\ lastRef' = [lastRef EXCEPT ![Current(c)] = Pool[Current(c)][Index(Current(c)) + 1]]
    BY <1>12 DEF AcquireGrant
  <2>2. Sane
    BY <1>12 DEF AcquireGrant, Goto, RotationOK
  <2> QED
    BY <1>5, <1>12, <2>1, <2>2
<1>13. CASE Succeeds(c)
  <2>1. /\ UNCHANGED <<cursor, lastRef, parts, grant>> /\ at[c] = "invoke"
        /\ \E x \in {"charge", "put"} : Goto(c, x)
    BY <1>13 DEF Succeeds, pools, local
  <2>2. Sane
    BY <2>1 DEF Goto, RotationOK
  <2>3. Kept
    BY <1>4, <2>1, <2>2
  <2> QED
    BY <2>3 DEF Kept
<1>14. CASE RejectsGrant(c)
  <2>1. /\ UNCHANGED <<cursor, lastRef, parts, grant>> /\ at[c] = "invoke"
        /\ Goto(c, "quarantine")
    BY <1>14 DEF RejectsGrant, pools
  <2>2. Sane
    BY <2>1 DEF Goto, RotationOK
  <2>3. Kept
    BY <1>4, <2>1, <2>2
  <2> QED
    BY <2>3 DEF Kept
<1>15. CASE Quarantine(c)
  <2>1. /\ UNCHANGED <<cursor, lastRef, parts>> /\ at[c] = "quarantine"
        /\ Goto(c, "grant") /\ grant' = [grant EXCEPT ![c] = None]
    BY <1>15 DEF Quarantine
  <2>2. grant[c] # None
    BY <2>1 DEF CallOK
  <2>3. Sane
    BY <2>1, <2>2 DEF Goto, RotationOK
  <2>4. Kept
    BY <1>4, <2>1, <2>3
  <2> QED
    BY <2>4 DEF Kept
<1>16. CASE ChargeLoad(c) \/ ChargeFails(c) \/ ChargeStore(c)
  <2>1. /\ UNCHANGED <<cursor, lastRef, parts, grant>> /\ at[c] # "grant"
        /\ \E x \in {"store", "put"} : Goto(c, x)
    BY <1>16 DEF ChargeLoad, ChargeFails, ChargeStore, pools, local
  <2>2. Sane
    BY <2>1 DEF Goto, RotationOK
  <2>3. Kept
    BY <1>4, <2>1, <2>2
  <2> QED
    BY <2>3 DEF Kept
<1>17. CASE Put(c) \/ ChargeRaises(c)
  <2>1. Return(c) /\ UNCHANGED <<cursor, lastRef, parts>> /\ at[c] # "grant"
    BY <1>17 DEF Put, ChargeRaises, pools
  <2>2. Kept
    BY <1>1, <1>4, <2>1
  <2> QED
    BY <2>2 DEF Kept
<1> QED
  BY <1>6, <1>7, <1>8, <1>9, <1>10, <1>11, <1>12, <1>13, <1>14, <1>15, <1>16, <1>17
     DEF Proceed

\* What GrantsRotate says of one step.
StepRotates ==
    \A c \in Callers :
        at[c] = "grant" /\ at'[c] = "invoke" =>
            LET p == Current(c)
            IN  grant'[c] = lastRef[p] =>
                  \A i \in DOMAIN Pool[p] :
                      Pool[p][i] \in quarantined[p] \cup {lastRef[p]}

\* Every step of the system rotates.
LEMMA NextRotation ==
    ASSUME PoolsDistinct, GatewayInvariant, RotationOK, [Next]_vars
    PROVE  RotationOK' /\ StepRotates
<1>1. CallsOK /\ PoolsOK /\ LocalsTyped
  BY DEF GatewayInvariant, CallsOK
<1>2. ASSUME NEW c \in Callers, Proceed(c) PROVE RotationOK' /\ StepRotates
  <2>1. /\ RotationOK'
        /\ at[c] = "grant" /\ at'[c] = "invoke" => AcquireGrant(c)
    BY <1>1, <1>2, ProceedRotation
  <2>2. ASSUME NEW d \in Callers, at[d] = "grant", at'[d] = "invoke",
               grant'[d] = lastRef[Current(d)]
        PROVE  \A i \in DOMAIN Pool[Current(d)] :
                  Pool[Current(d)][i] \in quarantined[Current(d)] \cup {lastRef[Current(d)]}
    <3>1. d = c
      BY <1>1, <1>2, <2>2, ProceedAlone
    <3>2. AcquireGrant(d)
      BY <2>1, <2>2, <3>1
    <3>3. Current(d) \in Providers
      BY <1>1, <2>2, CurrentProvider DEF Admitted
    <3>4. Offsets(Current(d)) # {} /\ grant'[d] = Pool[Current(d)][Index(Current(d)) + 1]
      BY <1>1, <3>2 DEF AcquireGrant, LocalsTyped
    <3> QED
      BY <1>1, <2>2, <3>3, <3>4, FullTurn DEF PoolsOK
  <2> QED
    BY <2>1, <2>2 DEF StepRotates
<1>3. ASSUME UNCHANGED <<cursor, lastRef, parts, grant>>,
             \A c \in Callers : at'[c] = at[c] \/ at'[c] \in {"precheck", "route"}
      PROVE  RotationOK' /\ StepRotates
  BY <1>3 DEF RotationOK, StepRotates
<1>4. ASSUME NEW c \in Callers, NEW k \in Keys \cup {None}, Call(c, k)
      PROVE  RotationOK' /\ StepRotates
  <2>1. /\ UNCHANGED <<cursor, lastRef, parts, grant>>
        /\ UNCHANGED at \/ \E x \in {"precheck", "route"} : Goto(c, x)
    BY <1>4 DEF Call, pools
  <2> QED
    BY <1>1, <1>3, <2>1 DEF Goto, LocalsTyped
<1>5. ASSUME Tick \/ UNCHANGED gatewayOnly \/ UNCHANGED vars PROVE RotationOK' /\ StepRotates
  BY <1>3, <1>5 DEF Tick, gatewayOnly, vars, gatewayVars, pools, local
<1> QED
  BY <1>2, <1>4, <1>5 DEF Next, GatewayNext

\* Successive acquisitions rotate whatever the threads, quarantines and failures
\* of the grant source, in pools that list every reference once.
THEOREM GrantsRotated == PoolsDistinct => (Spec => GrantsRotate)
<1> SUFFICES ASSUME PoolsDistinct PROVE Spec => GrantsRotate
  OBVIOUS
<1>1. Init => RotationOK
  BY DEF Init, GatewayInit, RotationOK
<1>2. GatewayInvariant /\ RotationOK /\ [Next]_vars => RotationOK'
  BY NextRotation
<1>3. GatewayInvariant /\ RotationOK /\ [Next]_vars => [StepRotates]_vars
  BY NextRotation
<1>4. Spec => [][StepRotates]_vars
  BY <1>1, <1>2, <1>3, GatewaySafe, PTL DEF Spec
<1> QED
  BY <1>4, PTL DEF GrantsRotate, StepRotates
=============================================================================
