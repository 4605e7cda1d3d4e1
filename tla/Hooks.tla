------------------------------- MODULE Hooks -------------------------------
(***************************************************************************)
(* The Hook_Manager of core/hook_manager.py for one lifecycle event.  Runs *)
(* trigger the event on their own threads while hooks are registered; a    *)
(* plain hook is dispatched on a new thread, which is put on the list of   *)
(* pending ones under the lock and started after the lock is released.     *)
(* What an action does is open: it returns, raises or denies.  Recording   *)
(* an outcome in the run's history may fail and is then only logged.       *)
(***************************************************************************)
EXTENDS Naturals, Sequences, FiniteSets, SequencesExt

CONSTANTS
    HookRuns,   \* threads that trigger the event
    MaxHooks    \* bound on the hooks registered

HookKinds == {"async", "blocking", "guardrail"}
HookOutcomes == {"returns", "raises", "denies"}

VARIABLES
    hooks,       \* _hooks[event]: sequence of kinds, in registration order
    triggers,    \* run -> its trigger call: [pc, rest, seen, done, allowed]
    threads,     \* dispatched threads: <<run, position>> -> "new" | "alive" | "done"
    pending,     \* _async_threads
    hookHistory, \* run -> outcomes recorded in its event history
    waiting      \* wait_for_pending: [pc, joining]

hookVars == <<hooks, triggers, threads, pending, hookHistory, waiting>>

NoTrigger == [pc |-> "idle", rest |-> << >>, seen |-> 0, done |-> << >>, allowed |-> TRUE]
NotWaiting == [pc |-> "idle", joining |-> {}]

HooksInit ==
    /\ hooks = << >>
    /\ triggers = [r \in HookRuns |-> NoTrigger]
    /\ threads = << >>
    /\ pending = {}
    /\ hookHistory = [r \in HookRuns |-> << >>]
    /\ waiting = NotWaiting

\* register appends under the lock.
register(kind) ==
    /\ Len(hooks) < MaxHooks
    /\ hooks' = Append(hooks, kind)
    /\ UNCHANGED <<triggers, threads, pending, hookHistory, waiting>>

\* trigger takes a copy of the hooks registered so far.
trigger(r) ==
    /\ triggers[r].pc = "idle"
    /\ triggers' = [triggers EXCEPT ![r].pc = "next", ![r].rest = hooks, ![r].seen = Len(hooks)]
    /\ UNCHANGED <<hooks, threads, pending, hookHistory, waiting>>

\* _record_error, _record_denied: emitted, or swallowed when that fails.
Recorded(r, outcomes) ==
    \E written \in {<< >>, outcomes} \cup {<<outcomes[i]>> : i \in DOMAIN outcomes} :
        hookHistory' = [hookHistory EXCEPT ![r] = @ \o written]

Position(r) == Len(triggers[r].done) + 1

Alive == {t \in DOMAIN threads : threads[t] = "alive"}

\* _dispatch_async, under the lock: threads that are not alive leave the list,
\* the new one joins it.
DispatchAsync(r) ==
    LET call == triggers[r]  t == <<r, Position(r)>> IN
    /\ call.pc = "next" /\ call.rest /= << >> /\ Head(call.rest) = "async"
    /\ threads' = [x \in DOMAIN threads \cup {t} |-> IF x = t THEN "new" ELSE threads[x]]
    /\ pending' = (pending \cap Alive) \cup {t}
    /\ triggers' = [triggers EXCEPT ![r].pc = "start"]
    /\ UNCHANGED <<hooks, hookHistory, waiting>>

\* thread.start(), outside the lock; trigger goes on without waiting.
StartThread(r) ==
    LET call == triggers[r] IN
    /\ call.pc = "start"
    /\ threads' = [threads EXCEPT ![<<r, Position(r)>>] = "alive"]
    /\ triggers' = [triggers EXCEPT ![r].pc = "next", ![r].rest = Tail(@),
                                    ![r].done = Append(@, "dispatched")]
    /\ UNCHANGED <<hooks, pending, hookHistory, waiting>>

\* The dispatched action ends; its error is recorded, never raised.
ThreadEnds(t) ==
    /\ threads[t] = "alive"
    /\ threads' = [threads EXCEPT ![t] = "done"]
    /\ Recorded(t[1], <<"hook.error">>)
    /\ UNCHANGED <<hooks, triggers, pending, waiting>>

\* Mutant of Denies: a guardrail that raises lets the step proceed.
FailOpen(kind, outcome) == kind = "guardrail" /\ outcome = "denies"

\* A guardrail denies by its verdict or by failing to give one.
Denies(kind, outcome) == kind = "guardrail" /\ outcome \in {"denies", "raises"}

\* A blocking hook or guardrail runs to its end; a denial ends the loop.
RunBlocking(r) ==
    LET call == triggers[r]  kind == Head(call.rest) IN
    /\ call.pc = "next" /\ call.rest /= << >> /\ kind /= "async"
    /\ \E outcome \in HookOutcomes :
        /\ triggers' = [triggers EXCEPT
              ![r].done = Append(@, outcome),
              ![r].rest = IF Denies(kind, outcome) THEN << >> ELSE Tail(@),
              ![r].allowed = ~Denies(kind, outcome)]
        /\ Recorded(r, (IF outcome = "raises" THEN <<"hook.error">> ELSE << >>)
                       \o (IF Denies(kind, outcome) THEN <<"hook.denied">> ELSE << >>))
    /\ UNCHANGED <<hooks, threads, pending, waiting>>

TriggerReturns(r) ==
    /\ triggers[r].pc = "next" /\ triggers[r].rest = << >>
    /\ triggers' = [triggers EXCEPT ![r].pc = "returned"]
    /\ UNCHANGED <<hooks, threads, pending, hookHistory, waiting>>

\* wait_for_pending: copy the list, join each thread (a thread that has not
\* been started cannot be joined and raises), prune the list.
wait_for_pending ==
    /\ waiting.pc = "idle"
    /\ waiting' = [pc |-> "joining", joining |-> pending]
    /\ UNCHANGED <<hooks, triggers, threads, pending, hookHistory>>

JoinThread(t) ==
    /\ waiting.pc = "joining" /\ t \in waiting.joining
    /\ threads[t] \in {"new", "done"}
    /\ waiting' = IF threads[t] = "done" THEN [waiting EXCEPT !.joining = @ \ {t}]
                  ELSE [waiting EXCEPT !.pc = "raised"]
    /\ UNCHANGED <<hooks, triggers, threads, pending, hookHistory>>

WaitReturns ==
    /\ waiting.pc = "joining" /\ waiting.joining = {}
    /\ pending' = pending \cap Alive
    /\ waiting' = [waiting EXCEPT !.pc = "returned"]
    /\ UNCHANGED <<hooks, triggers, threads, hookHistory>>

HooksNext ==
    \/ \E kind \in HookKinds : register(kind)
    \/ \E r \in HookRuns :
        trigger(r) \/ DispatchAsync(r) \/ StartThread(r) \/ RunBlocking(r) \/ TriggerReturns(r)
    \/ \E t \in DOMAIN threads : ThreadEnds(t) \/ JoinThread(t)
    \/ wait_for_pending \/ WaitReturns

(***************************************************************************)
(* Properties                                                              *)
(***************************************************************************)

\* A trigger allows its step only when every guardrail it started out with ran
\* and agreed, fails closed when one raises, runs nothing after a denial, and
\* is stopped by no other hook's failure; what is recorded of it never says
\* denied when it was allowed (hook_manager.py trigger).
HooksFailClosed ==
    \A r \in HookRuns :
        triggers[r].pc = "returned" =>
            LET done == triggers[r].done  n == Len(done) IN
            /\ triggers[r].allowed =>
                /\ n = triggers[r].seen
                /\ \A i \in 1 .. n : hooks[i] = "guardrail" => done[i] = "returns"
                /\ "hook.denied" \notin Range(hookHistory[r])
            /\ ~triggers[r].allowed =>
                /\ hooks[n] = "guardrail" /\ done[n] \in {"denies", "raises"}
                /\ \A t \in DOMAIN threads : t[1] = r => t[2] < n
=============================================================================
