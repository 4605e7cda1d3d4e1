--------------------------- MODULE AgentInvocation ---------------------------
(***************************************************************************)
(* One agent and one provider, edited through the HTTP handlers, and the    *)
(* invocations of the agent by workflow steps: AgentOrchestrator.invoke_    *)
(* agent (core/agent_orchestrator.py), the invocation thread                *)
(* (core/agent_invoker.py), the ProviderService (core/provider_service.py)  *)
(* and the step runner that polls the row (dag_executor.py,                 *)
(* _run_agent_step and _await_invocation).                                  *)
(*                                                                          *)
(* Every database write is a step of its own and may fail (MaxFaults) or be *)
(* the last one before a crash (MaxCrashes).  Prompts, outputs and models   *)
(* are left out; an invocation's events are their types, in seq order, and  *)
(* only the invocation's own thread appends to them.                        *)
(***************************************************************************)
EXTENDS Integers, Sequences, SequencesExt

CONSTANTS
    Invocations,  \* invocation ids
    Editors,      \* HTTP threads that save, test and delete
    Gateway,      \* an InferenceGateway wraps the model call
    MaxSaves,     \* bound on edits
    MaxFaults,    \* bound on failing writes
    MaxCrashes    \* bound on crashes of the control plane

ASSUME AgentAssumption ==
    /\ Gateway \in BOOLEAN
    /\ MaxSaves \in Nat /\ MaxFaults \in Nat /\ MaxCrashes \in Nat

VARIABLES
    agent,     \* the agents row: [enabled, rev]; rev 0 when there is none
    provider,  \* the providers row: [enabled, session, rev, test]; rev 0 as above
    secret,    \* ProviderService._session_secrets has one for the provider
    inv,       \* invocations rows: [status, agentRev, providerRev]; "absent" and
               \* "checked" (the revisions are read) are before the INSERT
    events,    \* invocation_events per invocation
    usage,     \* usage_logs: the invocations that have a row
    thread,    \* per invocation: where its thread is
    runner,    \* per invocation: where the step runner that made it is
    faulty,    \* per invocation: the writes of it that failed, and "overrides"
               \* when those of the step did not parse (history)
    editor,    \* per editor: the handler it is in, and what it has read
    saves, faults, crashes

rows == <<agent, provider, inv, events, usage>>
bounds == <<saves, faults, crashes>>
vars == <<rows, secret, thread, runner, faulty, editor, bounds>>

NoRow == [status |-> "absent", agentRev |-> 0, providerRev |-> 0]
Free == [at |-> "free", rev |-> 0, session |-> FALSE]

Init ==
    /\ agent = [enabled |-> TRUE, rev |-> 1]
    /\ provider = [enabled |-> TRUE, session |-> TRUE, rev |-> 1, test |-> "unknown"]
    /\ secret = TRUE
    /\ inv = [i \in Invocations |-> NoRow]
    /\ events = [i \in Invocations |-> <<>>]
    /\ usage = {}
    /\ thread = [i \in Invocations |-> "none"]
    /\ runner = [i \in Invocations |-> "idle"]
    /\ faulty = [i \in Invocations |-> {}]
    /\ editor = [w \in Editors |-> Free]
    /\ saves = 0 /\ faults = 0 /\ crashes = 0

-----------------------------------------------------------------------------
\* The step runner: invoke_agent, then the poll.

\* The agent and the provider must exist and be enabled; the exception of
\* invoke_agent fails the step.
CheckAgent(i) ==
    /\ runner[i] = "idle"
    /\ IF /\ agent.rev > 0 /\ agent.enabled
          /\ provider.rev > 0 /\ provider.enabled
       THEN /\ runner' = [runner EXCEPT ![i] = "insert"]
            /\ inv' = [inv EXCEPT ![i] = [status |-> "checked", agentRev |-> agent.rev,
                                          providerRev |-> provider.rev]]
       ELSE runner' = [runner EXCEPT ![i] = "failed"] /\ UNCHANGED inv
    /\ UNCHANGED <<agent, provider, events, usage, secret, thread, faulty, editor, bounds>>

\* A write of invocation i named `what` fails; it is counted and remembered.
Fault(i, what) ==
    /\ faults < MaxFaults
    /\ faults' = faults + 1
    /\ faulty' = [faulty EXCEPT ![i] = @ \cup {what}]
    /\ UNCHANGED <<saves, crashes>>

NoFault == UNCHANGED <<faulty, bounds>>

InsertRow(i) ==
    /\ runner[i] = "insert"
    /\ \/ /\ inv' = [inv EXCEPT ![i].status = "queued"]
          /\ runner' = [runner EXCEPT ![i] = "queued"]
          /\ NoFault
       \/ /\ Fault(i, "row")
          /\ inv' = [inv EXCEPT ![i] = NoRow]
          /\ runner' = [runner EXCEPT ![i] = "failed"]
    /\ UNCHANGED <<agent, provider, events, usage, secret, thread, editor>>

\* The "queued" event, then the thread; when the event cannot be written there
\* is no thread, the row stays queued and the runner fails its step.
QueueInvocation(i) ==
    /\ runner[i] = "queued"
    /\ \/ /\ events' = [events EXCEPT ![i] = Append(@, "queued")]
          /\ thread' = [thread EXCEPT ![i] = "update"]
          /\ runner' = [runner EXCEPT ![i] = "polling"]
          /\ NoFault
       \/ /\ Fault(i, "queued")
          /\ runner' = [runner EXCEPT ![i] = "failed"]
          /\ UNCHANGED <<events, thread>>
    /\ UNCHANGED <<agent, provider, inv, usage, secret, editor>>

\* _await_invocation fetches the row: a terminal status decides the step;
\* otherwise the deadline may have passed, and the run is stopped (_StopRun).
Poll(i) ==
    /\ runner[i] = "polling"
    /\ runner' = [runner EXCEPT ![i] =
                    CASE inv[i].status = "succeeded" -> "completed"
                      [] inv[i].status = "failed" -> "failed"
                      [] OTHER -> "stopped"]
    /\ UNCHANGED <<rows, secret, thread, faulty, editor, bounds>>

-----------------------------------------------------------------------------
\* execute_invocation, on the invocation's thread.

\* A thread goes on, or raises: outside the try it just dies, inside it goes to
\* the except clause, and from there it dies too.
Goes(i, to) == thread' = [thread EXCEPT ![i] = to]
InTry == {"build", "resolved", "validated", "calling", "lm", "finished", "usage",
          "succeed", "complete"}
Raises(i) == Goes(i, IF thread[i] \in InTry THEN "except" ELSE "dead")

UpdateRow(i, from, status, to, what) ==
    /\ thread[i] = from
    /\ \/ inv' = [inv EXCEPT ![i].status = status] /\ Goes(i, to) /\ NoFault
       \/ Fault(i, what) /\ Raises(i) /\ UNCHANGED inv
    /\ UNCHANGED <<agent, provider, events, usage, secret, runner, editor>>

\* append_event: MAX(seq) + 1, without a lock, by the only writer.
AppendEvent(i, from, type, to) ==
    /\ thread[i] = from
    /\ \/ events' = [events EXCEPT ![i] = Append(@, type)] /\ Goes(i, to) /\ NoFault
       \/ Fault(i, type) /\ Raises(i) /\ UNCHANGED events
    /\ UNCHANGED <<agent, provider, inv, usage, secret, runner, editor>>

\* The overrides of the step reach the thread unchecked, and float() and int()
\* of them come before the try: when they raise, the thread is gone, the row
\* stays queued and no event tells of it.
OverridesUnparsable(i) ==
    /\ thread[i] = "update"
    /\ Goes(i, "dead")
    /\ faulty' = [faulty EXCEPT ![i] = @ \cup {"overrides"}]
    /\ UNCHANGED <<rows, secret, runner, editor, bounds>>

SetRunning(i) == UpdateRow(i, "update", "running", "start", "running")
Started(i) == AppendEvent(i, "start", "started", "build")

\* providers.build_lm reads the provider again: it may be gone by now, or have
\* lost its session secret; DSPy, the model or an environment variable may be
\* missing too.  The provider that is used is this one, whatever revision the
\* row recorded.
BuildLm(i) ==
    /\ thread[i] = "build"
    /\ \/ provider.rev > 0 /\ (provider.session => secret) /\ Goes(i, "resolved")
       \/ Raises(i)
    /\ UNCHANGED <<rows, secret, runner, faulty, editor, bounds>>

\* _invoke_via_gateway: the gateway may answer from its cache, or refuse.
GatewayAnswers(i) ==
    /\ Gateway /\ thread[i] = "build"
    /\ Goes(i, "usage") \/ Raises(i)
    /\ UNCHANGED <<rows, secret, runner, faulty, editor, bounds>>

CallEvents(i) ==
    \/ AppendEvent(i, "resolved", "provider_resolved", "validated")
    \/ AppendEvent(i, "validated", "validated", "calling")
    \/ AppendEvent(i, "calling", "lm_call_started", "lm")
    \/ AppendEvent(i, "finished", "lm_call_finished", "usage")

\* _run_dspy_program: an answer, or an exception (a JSON answer that does not
\* parse is one too).
RunDspyProgram(i) ==
    /\ thread[i] = "lm"
    /\ Goes(i, "finished") \/ Raises(i)
    /\ UNCHANGED <<rows, secret, runner, faulty, editor, bounds>>

\* The usage_logs row, when the model reported usage; its figures may not parse.
RecordUsage(i) ==
    /\ thread[i] = "usage"
    /\ \/ usage' = usage \cup {i} /\ Goes(i, "succeed") /\ NoFault
       \/ Goes(i, "succeed") /\ NoFault /\ UNCHANGED usage
       \/ Raises(i) /\ NoFault /\ UNCHANGED usage
       \/ Fault(i, "usage") /\ Raises(i) /\ UNCHANGED usage
    /\ UNCHANGED <<agent, provider, inv, events, secret, runner, editor>>

\* Mutant of Conclude: the event is written before the row.
ConcludeEventFirst(i) ==
    \/ AppendEvent(i, "succeed", "completed", "complete")
    \/ UpdateRow(i, "complete", "succeeded", "dead", "succeeded")

\* The row, then the event; both inside the try.
Conclude(i) ==
    \/ UpdateRow(i, "succeed", "succeeded", "complete", "succeeded")
    \/ AppendEvent(i, "complete", "completed", "dead")

\* Mutant of ExceptClause: an exception ends the thread.
ExceptIgnored(i) == thread[i] = "except" /\ Goes(i, "dead")
                    /\ UNCHANGED <<rows, secret, runner, faulty, editor, bounds>>

\* The except clause: whatever was raised, the row becomes failed.
ExceptClause(i) ==
    \/ UpdateRow(i, "except", "failed", "report", "failed")
    \/ AppendEvent(i, "report", "failed", "dead")

ThreadNext(i) ==
    \/ OverridesUnparsable(i) \/ SetRunning(i) \/ Started(i) \/ BuildLm(i)
    \/ GatewayAnswers(i) \/ CallEvents(i) \/ RunDspyProgram(i) \/ RecordUsage(i)
    \/ Conclude(i) \/ ExceptClause(i)

-----------------------------------------------------------------------------
\* The handlers: each reads, then writes, and nothing serialises them.

Handle(w, at, next) == editor[w].at = at /\ editor' = [editor EXCEPT ![w] = next]
Budgeted == saves < MaxSaves /\ saves' = saves + 1 /\ UNCHANGED <<faults, crashes>>

\* save_agent reads the revision (normalize_agent_payload has checked that the
\* provider exists) ...
SaveAgent(w) ==
    /\ provider.rev > 0 /\ Budgeted
    /\ Handle(w, "free", [Free EXCEPT !.at = "agent", !.rev = agent.rev])
    /\ UNCHANGED <<rows, secret, thread, runner, faulty>>

\* ... and inserts the agent, or updates the row if it is still there.
WriteAgent(w) ==
    /\ Handle(w, "agent", Free)
    /\ \E on \in BOOLEAN :
        agent' = IF editor[w].rev = 0 /\ agent.rev = 0 THEN [enabled |-> on, rev |-> 1]
                 ELSE IF editor[w].rev > 0 /\ agent.rev > 0
                 THEN [enabled |-> on, rev |-> editor[w].rev + 1] ELSE agent
    /\ UNCHANGED <<provider, inv, events, usage, secret, thread, runner, faulty, bounds>>

DeleteAgent(w) ==
    /\ Budgeted
    /\ Handle(w, "free", Free)
    /\ agent' = [agent EXCEPT !.rev = 0]
    /\ UNCHANGED <<provider, inv, events, usage, secret, thread, runner, faulty>>

\* save_provider reads the revision, writes the row (a new row starts with an
\* unknown test result, an update keeps the old one) ...
SaveProvider(w) ==
    /\ Budgeted
    /\ \E session \in BOOLEAN :
        Handle(w, "free", [at |-> "provider", rev |-> provider.rev, session |-> session])
    /\ UNCHANGED <<rows, secret, thread, runner, faulty>>

\* (an INSERT that finds the id taken raises and leaves the secret alone) ...
WriteProvider(w) ==
    /\ Handle(w, "provider", IF editor[w].rev = 0 /\ provider.rev > 0 THEN Free
                             ELSE [editor[w] EXCEPT !.at = "secret"])
    /\ \E on \in BOOLEAN :
        LET row == [enabled |-> on, session |-> editor[w].session,
                    rev |-> editor[w].rev + 1, test |-> provider.test]
        IN provider' = IF editor[w].rev = 0 /\ provider.rev = 0
                       THEN [row EXCEPT !.test = "unknown"]
                       ELSE IF editor[w].rev > 0 /\ provider.rev > 0 THEN row ELSE provider
    /\ UNCHANGED <<agent, inv, events, usage, secret, thread, runner, faulty, bounds>>

\* ... and then sets, keeps, clears or drops the session secret.
WriteSecret(w) ==
    /\ Handle(w, "secret", Free)
    /\ IF editor[w].session THEN secret' \in BOOLEAN ELSE secret' = FALSE
    /\ UNCHANGED <<rows, thread, runner, faulty, bounds>>

DeleteProvider(w) ==
    /\ Budgeted
    /\ Handle(w, "free", [Free EXCEPT !.at = "secret"])
    /\ provider' = [provider EXCEPT !.rev = 0]
    /\ UNCHANGED <<agent, inv, events, usage, secret, thread, runner, faulty>>

\* test_provider makes a call, which takes its time, and then writes what it
\* found over whatever the row has become.
TestProvider(w) ==
    /\ provider.rev > 0 /\ Budgeted
    /\ \E result \in {"test-ok", "test-error"} :
        /\ result = "test-ok" => (provider.session => secret)
        /\ Handle(w, "free", [Free EXCEPT !.at = result])
    /\ UNCHANGED <<rows, secret, thread, runner, faulty>>

WriteTest(w) ==
    /\ \/ Handle(w, "test-ok", Free) /\ provider' = [provider EXCEPT !.test = "ok"]
       \/ Handle(w, "test-error", Free) /\ provider' = [provider EXCEPT !.test = "error"]
    /\ UNCHANGED <<agent, inv, events, usage, secret, thread, runner, faulty, bounds>>

\* delete_session_secret forgets the secret and, in session mode, the result of
\* the test that was made with it.
DeleteSessionSecret(w) ==
    /\ Budgeted
    /\ Handle(w, "free", Free)
    /\ secret' = FALSE
    /\ provider' = IF provider.rev > 0 /\ provider.session
                   THEN [provider EXCEPT !.test = "unknown"] ELSE provider
    /\ UNCHANGED <<agent, inv, events, usage, thread, runner, faulty>>

EditorNext(w) ==
    \/ SaveAgent(w) \/ WriteAgent(w) \/ DeleteAgent(w)
    \/ SaveProvider(w) \/ WriteProvider(w) \/ WriteSecret(w) \/ DeleteProvider(w)
    \/ TestProvider(w) \/ WriteTest(w) \/ DeleteSessionSecret(w)

\* The process dies: threads, pollers, handlers and session secrets with it.
\* Nothing picks a queued or running row up again.
Crash ==
    /\ crashes < MaxCrashes
    /\ crashes' = crashes + 1
    /\ secret' = FALSE
    /\ thread' = [i \in Invocations |-> IF thread[i] = "none" THEN "none" ELSE "dead"]
    /\ runner' = [i \in Invocations |->
                    IF runner[i] \in {"insert", "queued", "polling"} THEN "lost" ELSE runner[i]]
    /\ editor' = [w \in Editors |-> Free]
    /\ UNCHANGED <<rows, faulty, saves, faults>>

-----------------------------------------------------------------------------
RunnerNext(i) == CheckAgent(i) \/ InsertRow(i) \/ QueueInvocation(i) \/ Poll(i)

Next ==
    \/ \E i \in Invocations : RunnerNext(i) \/ ThreadNext(i)
    \/ \E w \in Editors : EditorNext(w)
    \/ Crash

Spec == Init /\ [][Next]_vars

\* Threads run, model calls return, the poll has a deadline; nobody is obliged
\* to edit.
FairSpec ==
    Spec /\ \A i \in Invocations : WF_vars(RunnerNext(i)) /\ WF_vars(ThreadNext(i))

-----------------------------------------------------------------------------
Has(i, type) == type \in Range(events[i])

\* Row, events and usage of an invocation tell one story: "completed" is only
\* on record for a succeeded row and "failed" for a failed one; a terminal row
\* whose thread has ended has its event, unless that very write failed or the
\* process died; usage is on record only after a call that ran or was cached;
\* and what the step runner took from the row is still true of it, except that
\* a success whose "completed" event could not be written turns into a failure
\* behind the runner's back.  Where the overrides did not parse the row stays
\* queued for good, so its runner never reads a verdict from it.
InvocationRecordsAgree ==
    \A i \in Invocations :
        /\ Has(i, "completed") => inv[i].status = "succeeded" /\ ~Has(i, "failed")
        /\ Has(i, "failed") => inv[i].status = "failed"
        /\ thread[i] = "dead" /\ crashes = 0 =>
              /\ inv[i].status = "succeeded" => Has(i, "completed")
                                                \/ {"completed", "failed"} = faulty[i]
              /\ inv[i].status = "failed" => Has(i, "failed") \/ "failed" \in faulty[i]
        /\ i \in usage => Has(i, "lm_call_finished") \/ (Gateway /\ ~Has(i, "provider_resolved"))
        /\ runner[i] = "completed" =>
              \/ inv[i].status = "succeeded"
              \/ inv[i].status = "failed" /\ "completed" \in faulty[i]
        /\ runner[i] = "failed" /\ thread[i] /= "none" => inv[i].status = "failed"
        /\ "overrides" \in faulty[i] =>
              inv[i].status = "queued" /\ runner[i] \in {"polling", "stopped", "lost"}

\* An invocation whose overrides parse and whose writes succeed ends decided, in
\* a process that lives on; and its runner is answered whatever happens: by the
\* row, by the deadline, or by the end of the process.
InvocationsEnd ==
    \A i \in Invocations :
        /\ [](thread[i] = "update" =>
                <>(inv[i].status \in {"succeeded", "failed"}
                     \/ faulty[i] /= {} \/ crashes > 0))
        /\ <>(runner[i] \in {"completed", "failed", "stopped", "lost"})

\* The two statements below are the repository's and do not hold of the code
\* (README, section 3).

\* "IF token usage recording fails, THEN THE Agent_Orchestrator SHALL continue
\* the Workflow_Run provided the invocation event was recorded" (Req 5.4).
UsageFailureHarmless ==
    \A i \in Invocations : faulty[i] = {"usage"} => runner[i] /= "failed"

\* "a failure to record the invocation event stops the whole run"
\* (dag_executor.py _run_agent_step): it does not just fail the step.
EventFailureStopsRun ==
    \A i \in Invocations : "queued" \in faulty[i] => runner[i] /= "failed"
=============================================================================
