------------------------- MODULE AgentInvocationProofs ------------------------
(***************************************************************************)
(* The proof that the row, the events and the usage of an invocation tell   *)
(* one story, for any number of invocations, editors, edits, failing writes *)
(* and crashes.  RecordsInvariant follows the invocation's thread: at each  *)
(* point of execute_invocation it says what the row and the events are and  *)
(* which writes have failed so far.                                         *)
(***************************************************************************)
EXTENDS AgentInvocation, TLAPS

EventTypes == {"queued", "started", "provider_resolved", "validated", "lm_call_started",
               "lm_call_finished", "completed", "failed"}

\* Where a thread is before, in and after the work, in the order of the code.
BeforeCall == {"update", "start", "build", "resolved"}
Working == {"start"} \cup (InTry \ {"complete"})
Concluding == {"complete", "except", "report", "dead"}

\* The names of the writes that may fail: an event by its type, the row by the
\* status it was to get; and the overrides, which may not parse.
Writes == EventTypes \cup {"row", "running", "succeeded", "usage", "overrides"}
Statuses == {"absent", "checked", "queued", "running", "succeeded", "failed"}

\* The type invariant.
TypeOK ==
    /\ agent \in [enabled : BOOLEAN, rev : Nat]
    /\ provider \in [enabled : BOOLEAN, session : BOOLEAN, rev : Nat,
                     test : {"unknown", "ok", "error"}]
    /\ secret \in BOOLEAN
    /\ inv \in [Invocations -> [status : Statuses, agentRev : Nat, providerRev : Nat]]
    /\ events \in [Invocations -> Seq(EventTypes)]
    /\ usage \in SUBSET Invocations
    /\ thread \in [Invocations -> {"none", "update"} \cup Working \cup Concluding]
    /\ runner \in [Invocations -> {"idle", "insert", "queued", "polling", "completed",
                                   "failed", "stopped", "lost"}]
    /\ faulty \in [Invocations -> SUBSET Writes]
    /\ editor \in [Editors -> [at : {"free", "agent", "provider", "secret", "test-ok",
                                     "test-error"}, rev : Nat, session : BOOLEAN]]
    /\ saves \in Nat /\ faults \in Nat /\ crashes \in Nat

\* Before there is a thread: no events, no usage, no fault while the runner is
\* still on its way; and afterwards the runner is past invoke_agent.
RunnerAhead(i) ==
    /\ runner[i] \in {"idle", "insert", "queued"} => faulty[i] = {}
    /\ runner[i] = "queued" => inv[i].status = "queued"
    /\ thread[i] = "none" =>
        /\ runner[i] \in {"idle", "insert", "queued", "failed", "lost"}
        /\ inv[i].status \in {"absent", "checked", "queued"}
        /\ events[i] = <<>>
        /\ i \notin usage
        /\ "overrides" \notin faulty[i]
    /\ thread[i] /= "none" =>
        runner[i] \in {"polling", "completed", "failed", "stopped", "lost"}

\* What the row says and which writes have failed at each point of the thread.
ThreadStory(i) ==
    /\ thread[i] = "update" => inv[i].status = "queued" /\ faulty[i] = {}
    /\ thread[i] \in Working => inv[i].status = "running" /\ faulty[i] = {}
    /\ thread[i] = "complete" => inv[i].status = "succeeded" /\ faulty[i] = {}
    /\ thread[i] = "except" =>
        \/ inv[i].status = "running"
        \/ inv[i].status = "succeeded" /\ faulty[i] = {"completed"}
    /\ thread[i] = "report" => inv[i].status = "failed"
    /\ thread[i] /= "dead" => ~Has(i, "completed") /\ ~Has(i, "failed")
    /\ thread[i] \notin {"none", "dead"} => "overrides" \notin faulty[i]

\* When usage may be on record, and what has happened by then.
UsageStory(i) ==
    /\ thread[i] \in BeforeCall => ~Has(i, "provider_resolved")
    /\ thread[i] = "usage" =>
        Has(i, "lm_call_finished") \/ (Gateway /\ ~Has(i, "provider_resolved"))
    /\ i \in usage => thread[i] \in Concluding \cup {"succeed"}

\* What InvocationRecordsAgree says of one invocation.
Agreement(i) ==
    /\ Has(i, "completed") => inv[i].status = "succeeded" /\ ~Has(i, "failed")
    /\ Has(i, "failed") => inv[i].status = "failed"
    /\ thread[i] = "dead" /\ crashes = 0 =>
          /\ inv[i].status = "succeeded" => Has(i, "completed")
                                            \/ {"completed", "failed"} = faulty[i]
          /\ inv[i].status = "failed" => Has(i, "failed") \/ "failed" \in faulty[i]
    /\ i \in usage => Has(i, "lm_call_finished") \/ (Gateway /\ ~Has(i, "provider_resolved"))
    /\ runner[i] = "completed" =>
          \/ inv[i].status = "succeeded"
          \/ inv[i].status = "failed" /\ "completed" \in faulty[i]
    /\ runner[i] = "failed" /\ thread[i] /= "none" => inv[i].status = "failed"
    /\ "overrides" \in faulty[i] =>
          inv[i].status = "queued" /\ runner[i] \in {"polling", "stopped", "lost"}

Story(i) == RunnerAhead(i) /\ ThreadStory(i) /\ UsageStory(i) /\ Agreement(i)

RecordsInvariant == TypeOK /\ \A i \in Invocations : Story(i)

-----------------------------------------------------------------------------
\* The step of one invocation leaves the others alone.
Untouched(j) ==
    /\ inv'[j] = inv[j] /\ events'[j] = events[j] /\ (j \in usage') = (j \in usage)
    /\ thread'[j] = thread[j] /\ runner'[j] = runner[j] /\ faulty'[j] = faulty[j]
    /\ crashes' = crashes

\* An appended event joins the events on record and takes none away
\* (append_event).
LEMMA AppendedEvent ==
    ASSUME NEW S, NEW s \in Seq(S), NEW e
    PROVE  Range(Append(s, e)) = Range(s) \cup {e}
<1>1. Len(s) \in Nat /\ DOMAIN s = 1 .. Len(s)
  OBVIOUS
<1>2. DOMAIN Append(s, e) = 1 .. Len(s) + 1
  OBVIOUS
<1>3. \A k \in 1 .. Len(s) : Append(s, e)[k] = s[k]
  OBVIOUS
<1>4. Append(s, e)[Len(s) + 1] = e
  OBVIOUS
<1>5. 1 .. Len(s) + 1 = (1 .. Len(s)) \cup {Len(s) + 1}
  BY <1>1
<1>. HIDE DEF Range
<1>6. Range(Append(s, e)) = {Append(s, e)[k] : k \in (1 .. Len(s)) \cup {Len(s) + 1}}
  BY <1>2, <1>5 DEF Range
<1>7. Range(s) = {s[k] : k \in 1 .. Len(s)}
  BY <1>1 DEF Range
<1>. QED
  BY <1>3, <1>4, <1>6, <1>7

\* What is said of an invocation is said of its own rows, thread and runner.
LEMMA StoryKept ==
    ASSUME NEW j \in Invocations, Story(j), Untouched(j)
    PROVE  Story(j)'
<1>1. RunnerAhead(j)' /\ ThreadStory(j)'
  BY DEF Story, RunnerAhead, ThreadStory, Untouched, Has
<1>2. UsageStory(j)' /\ Agreement(j)'
  BY DEF Story, UsageStory, Agreement, Untouched, Has
<1>. QED
  BY <1>1, <1>2 DEF Story

\* Initially nothing has been invoked.
LEMMA RecordsInit ==
    ASSUME Init
    PROVE  RecordsInvariant
<1>1. TypeOK
  BY DEF Init, TypeOK, NoRow, Free, Statuses, EventTypes
<1>2. ASSUME NEW i \in Invocations PROVE Story(i)
  <2>1. Range(events[i]) = {}
    BY DEF Init, Range
  <2>. QED
    BY <2>1 DEF Init, Story, RunnerAhead, ThreadStory, UsageStory, Agreement, Has, NoRow,
         BeforeCall, Working, Concluding, InTry
<1>. QED
  BY <1>1, <1>2 DEF RecordsInvariant

\* A step of invocation i keeps the types, tells i's story on and leaves the
\* others alone.
OwnStep(i) == TypeOK' /\ Story(i)' /\ \A j \in Invocations \ {i} : Untouched(j)

\* The part of TypeOK that Fault and NoFault decide.
FaultTypes ==
    /\ faulty \in [Invocations -> SUBSET Writes]
    /\ saves \in Nat /\ faults \in Nat /\ crashes \in Nat

\* A write that succeeds leaves the counters alone.
LEMMA NoFaultTypes ==
    ASSUME RecordsInvariant, NoFault
    PROVE  FaultTypes'
BY DEF RecordsInvariant, TypeOK, FaultTypes, NoFault, bounds

\* A write that fails is counted, and remembered by its name.
LEMMA FaultTyped ==
    ASSUME RecordsInvariant, NEW i \in Invocations, NEW what \in Writes, Fault(i, what)
    PROVE  FaultTypes'
<1>1. faulty' \in [Invocations -> SUBSET Writes]
  BY DEF RecordsInvariant, TypeOK, Fault
<1>2. faults' \in Nat /\ saves' \in Nat /\ crashes' \in Nat
  BY DEF RecordsInvariant, TypeOK, Fault
<1>. QED
  BY <1>1, <1>2 DEF FaultTypes

\* The runner checks the agent and the provider (invoke_agent).
LEMMA CheckAgentStep ==
    ASSUME RecordsInvariant, NEW i \in Invocations, CheckAgent(i)
    PROVE  OwnStep(i)
<1>1. TypeOK'
  <2>1. inv' \in [Invocations -> [status : Statuses, agentRev : Nat, providerRev : Nat]]
    <3>1. [status |-> "checked", agentRev |-> agent.rev, providerRev |-> provider.rev]
             \in [status : Statuses, agentRev : Nat, providerRev : Nat]
      BY DEF RecordsInvariant, TypeOK, Statuses
    <3>. QED
      BY <3>1 DEF RecordsInvariant, TypeOK, CheckAgent
  <2>2. runner' \in [Invocations -> {"idle", "insert", "queued", "polling", "completed",
                                     "failed", "stopped", "lost"}]
    BY DEF RecordsInvariant, TypeOK, CheckAgent
  <2>. QED
    BY <2>1, <2>2 DEF RecordsInvariant, TypeOK, CheckAgent, bounds
<1>2. \A j \in Invocations \ {i} : Untouched(j)
  BY DEF RecordsInvariant, TypeOK, CheckAgent, Untouched, bounds
<1>3. thread[i] = "none"
  BY DEF RecordsInvariant, Story, RunnerAhead, CheckAgent
<1>4. Story(i)'
  BY <1>3 DEF RecordsInvariant, TypeOK, CheckAgent, Story, RunnerAhead, ThreadStory,
      UsageStory, Agreement, Has, bounds, Working, InTry, BeforeCall, Concluding
<1>. QED
  BY <1>1, <1>2, <1>4 DEF OwnStep

\* The invocations row is inserted, or the INSERT fails.
LEMMA InsertRowStep ==
    ASSUME RecordsInvariant, NEW i \in Invocations, InsertRow(i)
    PROVE  OwnStep(i)
<1>1. TypeOK'
  <2>1. inv' \in [Invocations -> [status : Statuses, agentRev : Nat, providerRev : Nat]]
    <3>1. NoRow \in [status : Statuses, agentRev : Nat, providerRev : Nat]
      BY DEF NoRow, Statuses
    <3>2. [inv[i] EXCEPT !.status = "queued"]
             \in [status : Statuses, agentRev : Nat, providerRev : Nat]
      <4>1. inv[i] \in [status : Statuses, agentRev : Nat, providerRev : Nat]
        BY DEF RecordsInvariant, TypeOK
      <4>. QED
        BY <4>1 DEF Statuses
    <3>. QED
      <4>1. \E row \in [status : Statuses, agentRev : Nat, providerRev : Nat] :
               inv' = [inv EXCEPT ![i] = row]
        BY <3>1, <3>2 DEF InsertRow
      <4>. QED
        BY <4>1 DEF RecordsInvariant, TypeOK
  <2>2. runner' \in [Invocations -> {"idle", "insert", "queued", "polling", "completed",
                                     "failed", "stopped", "lost"}]
    BY DEF RecordsInvariant, TypeOK, InsertRow
  <2>3. FaultTypes'
    <3>1. CASE NoFault
      BY <3>1, NoFaultTypes
    <3>2. CASE Fault(i, "row")
      BY <3>2, FaultTyped DEF Writes, EventTypes
    <3>. QED
      BY <3>1, <3>2 DEF InsertRow
  <2>. QED
    BY <2>1, <2>2, <2>3 DEF RecordsInvariant, TypeOK, FaultTypes, InsertRow
<1>2. \A j \in Invocations \ {i} : Untouched(j)
  BY DEF RecordsInvariant, TypeOK, InsertRow, Untouched, NoFault, Fault, bounds
<1>3. thread[i] = "none"
  BY DEF RecordsInvariant, Story, RunnerAhead, InsertRow
<1>4. Story(i)'
  BY <1>3 DEF RecordsInvariant, TypeOK, InsertRow, NoRow, NoFault, Fault, Story, RunnerAhead,
      ThreadStory, UsageStory, Agreement, Has, bounds, Working, InTry, BeforeCall, Concluding
<1>. QED
  BY <1>1, <1>2, <1>4 DEF OwnStep

\* The "queued" event and the thread, or neither.
LEMMA QueueInvocationStep ==
    ASSUME RecordsInvariant, NEW i \in Invocations, QueueInvocation(i)
    PROVE  OwnStep(i)
<1>1. TypeOK'
  <2>1. Append(events[i], "queued") \in Seq(EventTypes)
    BY DEF RecordsInvariant, TypeOK, EventTypes
  <2>2. events' \in [Invocations -> Seq(EventTypes)]
    BY <2>1 DEF RecordsInvariant, TypeOK, QueueInvocation
  <2>3. thread' \in [Invocations -> {"none", "update"} \cup Working \cup Concluding]
    BY DEF RecordsInvariant, TypeOK, QueueInvocation
  <2>4. runner' \in [Invocations -> {"idle", "insert", "queued", "polling", "completed",
                                     "failed", "stopped", "lost"}]
    BY DEF RecordsInvariant, TypeOK, QueueInvocation
  <2>5. FaultTypes'
    <3>1. CASE NoFault
      BY <3>1, NoFaultTypes
    <3>2. CASE Fault(i, "queued")
      BY <3>2, FaultTyped DEF Writes, EventTypes
    <3>. QED
      BY <3>1, <3>2 DEF QueueInvocation
  <2>. QED
    BY <2>2, <2>3, <2>4, <2>5 DEF RecordsInvariant, TypeOK, FaultTypes, QueueInvocation
<1>2. \A j \in Invocations \ {i} : Untouched(j)
  BY DEF RecordsInvariant, TypeOK, QueueInvocation, Untouched, NoFault, Fault, bounds
<1>3. thread[i] = "none" /\ events[i] = <<>>
  BY DEF RecordsInvariant, Story, RunnerAhead, QueueInvocation
<1>4. Range(events[i]) = {} /\ Range(Append(events[i], "queued")) = {"queued"}
  <2>1. Range(events[i]) = {}
    BY <1>3 DEF Range
  <2>. QED
    BY <2>1, AppendedEvent DEF RecordsInvariant, TypeOK
<1>5. Range(events'[i]) \subseteq {"queued"}
  BY <1>4 DEF RecordsInvariant, TypeOK, QueueInvocation
<1>6. Story(i)'
  BY <1>3, <1>5 DEF RecordsInvariant, TypeOK, QueueInvocation, NoFault, Fault, Story,
      RunnerAhead, ThreadStory, UsageStory, Agreement, Has, bounds, Working, InTry,
      BeforeCall, Concluding
<1>. QED
  BY <1>1, <1>2, <1>6 DEF OwnStep

\* The runner reads the row, or gives up at its deadline (_await_invocation).
LEMMA PollStep ==
    ASSUME RecordsInvariant, NEW i \in Invocations, Poll(i)
    PROVE  OwnStep(i)
<1>1. TypeOK'
  BY DEF RecordsInvariant, TypeOK, Poll, rows, bounds
<1>2. \A j \in Invocations \ {i} : Untouched(j)
  BY DEF RecordsInvariant, TypeOK, Poll, Untouched, rows, bounds
<1>3. thread[i] /= "none"
  BY DEF RecordsInvariant, Story, RunnerAhead, Poll
<1>4. Story(i)'
  BY <1>3 DEF RecordsInvariant, TypeOK, Poll, Story, RunnerAhead,
      ThreadStory, UsageStory, Agreement, Has, rows, bounds
<1>. QED
  BY <1>1, <1>2, <1>4 DEF OwnStep

-----------------------------------------------------------------------------
\* What a write of the thread to the row may change: the types, and the others.
LEMMA UpdateRowTypes ==
    ASSUME RecordsInvariant, NEW i \in Invocations,
           NEW from, NEW status \in Statuses, NEW to \in Working \cup Concluding,
           NEW what \in Writes, UpdateRow(i, from, status, to, what)
    PROVE  TypeOK' /\ \A j \in Invocations \ {i} : Untouched(j)
<1>1. TypeOK'
  <2>1. inv' \in [Invocations -> [status : Statuses, agentRev : Nat, providerRev : Nat]]
    <3>1. [inv[i] EXCEPT !.status = status]
             \in [status : Statuses, agentRev : Nat, providerRev : Nat]
      <4>1. inv[i] \in [status : Statuses, agentRev : Nat, providerRev : Nat]
        BY DEF RecordsInvariant, TypeOK
      <4>. QED
        BY <4>1
    <3>. QED
      BY <3>1 DEF RecordsInvariant, TypeOK, UpdateRow
  <2>2. thread' \in [Invocations -> {"none", "update"} \cup Working \cup Concluding]
    BY DEF RecordsInvariant, TypeOK, UpdateRow, Goes, Raises, Concluding
  <2>3. FaultTypes'
    <3>1. CASE NoFault
      BY <3>1, NoFaultTypes
    <3>2. CASE Fault(i, what)
      BY <3>2, FaultTyped
    <3>. QED
      BY <3>1, <3>2 DEF UpdateRow
  <2>. QED
    BY <2>1, <2>2, <2>3 DEF RecordsInvariant, TypeOK, FaultTypes, UpdateRow
<1>2. \A j \in Invocations \ {i} : Untouched(j)
  BY DEF RecordsInvariant, TypeOK, UpdateRow, Untouched, NoFault, Fault, Goes, Raises, bounds
<1>. QED
  BY <1>1, <1>2

\* The same for an event the thread appends.
LEMMA AppendEventTypes ==
    ASSUME RecordsInvariant, NEW i \in Invocations,
           NEW from, NEW type \in EventTypes, NEW to \in Working \cup Concluding,
           AppendEvent(i, from, type, to)
    PROVE  /\ TypeOK' /\ \A j \in Invocations \ {i} : Untouched(j)
           /\ \/ /\ Range(events'[i]) = Range(events[i]) \cup {type}
                 /\ thread'[i] = to /\ faulty'[i] = faulty[i]
              \/ /\ events'[i] = events[i] /\ faulty'[i] = faulty[i] \cup {type}
                 /\ thread'[i] = IF thread[i] \in InTry THEN "except" ELSE "dead"
<1>1. Append(events[i], type) \in Seq(EventTypes) /\ type \in Writes
  <2>1. Append(events[i], type) \in Seq(EventTypes)
    BY DEF RecordsInvariant, TypeOK
  <2>. QED
    BY <2>1 DEF Writes
<1>2. TypeOK'
  <2>1. events' \in [Invocations -> Seq(EventTypes)]
    BY <1>1 DEF RecordsInvariant, TypeOK, AppendEvent
  <2>2. thread' \in [Invocations -> {"none", "update"} \cup Working \cup Concluding]
    BY DEF RecordsInvariant, TypeOK, AppendEvent, Goes, Raises, Concluding
  <2>3. FaultTypes'
    <3>1. CASE NoFault
      BY <3>1, NoFaultTypes
    <3>2. CASE Fault(i, type)
      BY <1>1, <3>2, FaultTyped
    <3>. QED
      BY <3>1, <3>2 DEF AppendEvent
  <2>. QED
    BY <2>1, <2>2, <2>3 DEF RecordsInvariant, TypeOK, FaultTypes, AppendEvent
<1>3. \A j \in Invocations \ {i} : Untouched(j)
  BY DEF RecordsInvariant, TypeOK, AppendEvent, Untouched, NoFault, Fault, Goes, Raises, bounds
<1>4. Range(Append(events[i], type)) = Range(events[i]) \cup {type}
  BY AppendedEvent DEF RecordsInvariant, TypeOK
<1>5. \/ /\ Range(events'[i]) = Range(events[i]) \cup {type}
         /\ thread'[i] = to /\ faulty'[i] = faulty[i]
      \/ /\ events'[i] = events[i] /\ faulty'[i] = faulty[i] \cup {type}
         /\ thread'[i] = IF thread[i] \in InTry THEN "except" ELSE "dead"
  BY <1>4 DEF RecordsInvariant, TypeOK, AppendEvent, NoFault, Fault, Goes, Raises, bounds
<1>. QED
  BY <1>2, <1>3, <1>5

\* A write to the row carries the story on when the point it leads to says so.
LEMMA SetRunningStep ==
    ASSUME RecordsInvariant, NEW i \in Invocations, SetRunning(i)
    PROVE  OwnStep(i)
<1>1. TypeOK' /\ \A j \in Invocations \ {i} : Untouched(j)
  <2>1. "running" \in Statuses /\ "start" \in Working \cup Concluding
            /\ "running" \in Writes
    BY DEF Statuses, Working, Writes
  <2>. QED
    BY <2>1, UpdateRowTypes DEF SetRunning
<1>2. Story(i)'
  BY DEF RecordsInvariant, TypeOK, SetRunning, UpdateRow, NoFault, Fault, Goes, Raises, Story,
     RunnerAhead, ThreadStory, UsageStory, Agreement, Has, bounds, Working, InTry, BeforeCall,
     Concluding
<1>. QED
  BY <1>1, <1>2 DEF OwnStep

\* The "started" event; a failure here kills the thread outside the try.
LEMMA StartedStep ==
    ASSUME RecordsInvariant, NEW i \in Invocations, Started(i)
    PROVE  OwnStep(i)
<1>1. AppendEvent(i, "start", "started", "build")
  BY DEF Started
<1>2. /\ TypeOK' /\ \A j \in Invocations \ {i} : Untouched(j)
      /\ \/ /\ Range(events'[i]) = Range(events[i]) \cup {"started"}
            /\ thread'[i] = "build" /\ faulty'[i] = faulty[i]
         \/ /\ events'[i] = events[i] /\ faulty'[i] = faulty[i] \cup {"started"}
            /\ thread'[i] = IF thread[i] \in InTry THEN "except" ELSE "dead"
  BY <1>1, AppendEventTypes DEF EventTypes, Working, InTry
<1>3. Story(i)'
  BY <1>1, <1>2 DEF RecordsInvariant, AppendEvent, NoFault, Fault, Story, bounds,
     RunnerAhead, ThreadStory, UsageStory, Agreement, Has, Working, InTry, BeforeCall, Concluding
<1>. QED
  BY <1>2, <1>3 DEF OwnStep

\* Points of the thread where nothing is written: the provider is resolved, the
\* gateway answers, the program runs; each goes on or raises into the except.
LEMMA QuietStep ==
    ASSUME RecordsInvariant, NEW i \in Invocations,
           BuildLm(i) \/ GatewayAnswers(i) \/ RunDspyProgram(i)
    PROVE  OwnStep(i)
<1>1. /\ thread' = [thread EXCEPT ![i] = thread'[i]]
      /\ \/ thread[i] = "build" /\ thread'[i] \in {"resolved", "except"}
         \/ thread[i] = "build" /\ thread'[i] = "usage" /\ Gateway
         \/ thread[i] = "lm" /\ thread'[i] \in {"finished", "except"}
  BY DEF RecordsInvariant, TypeOK, BuildLm, GatewayAnswers, RunDspyProgram, Goes, Raises, InTry
<1>2. UNCHANGED <<rows, secret, runner, faulty, editor, bounds>>
  BY DEF BuildLm, GatewayAnswers, RunDspyProgram
<1>3. TypeOK'
  <2>1. thread' \in [Invocations -> {"none", "update"} \cup Working \cup Concluding]
    <3>1. {"resolved", "usage", "finished", "except"} \subseteq Working \cup Concluding
      BY DEF Working, InTry, Concluding
    <3>2. thread'[i] \in Working \cup Concluding
      BY <1>1, <3>1
    <3>. QED
      BY <1>1, <3>2 DEF RecordsInvariant, TypeOK
  <2>. QED
    BY <1>2, <2>1 DEF RecordsInvariant, TypeOK, rows, bounds
<1>4. \A j \in Invocations \ {i} : Untouched(j)
  BY <1>1, <1>2 DEF RecordsInvariant, TypeOK, Untouched, rows, bounds
<1>5. Story(i)'
  BY <1>1, <1>2 DEF RecordsInvariant, rows, bounds, Story, RunnerAhead, ThreadStory,
     UsageStory, Agreement, Has, Working, InTry, BeforeCall, Concluding
<1>. QED
  BY <1>3, <1>4, <1>5 DEF OwnStep

\* The overrides do not parse: the thread dies before its first write.
LEMMA OverridesStep ==
    ASSUME RecordsInvariant, NEW i \in Invocations, OverridesUnparsable(i)
    PROVE  OwnStep(i)
<1>1. TypeOK'
  <2>1. thread' \in [Invocations -> {"none", "update"} \cup Working \cup Concluding]
    BY DEF RecordsInvariant, TypeOK, OverridesUnparsable, Goes, Concluding
  <2>2. faulty' \in [Invocations -> SUBSET Writes]
    BY DEF RecordsInvariant, TypeOK, OverridesUnparsable, Writes
  <2>. QED
    BY <2>1, <2>2 DEF RecordsInvariant, TypeOK, OverridesUnparsable, rows, bounds
<1>2. \A j \in Invocations \ {i} : Untouched(j)
  BY DEF RecordsInvariant, TypeOK, OverridesUnparsable, Untouched, Goes, rows, bounds
<1>3. /\ thread[i] = "update" /\ thread'[i] = "dead"
      /\ faulty'[i] = faulty[i] \cup {"overrides"}
      /\ UNCHANGED <<inv, events, usage, runner, crashes>>
  BY DEF RecordsInvariant, TypeOK, OverridesUnparsable, Goes, rows, bounds
<1>4. inv[i].status = "queued" /\ runner[i] \in {"polling", "completed", "failed", "stopped",
                                                 "lost"}
  BY <1>3 DEF RecordsInvariant, Story, RunnerAhead, ThreadStory
<1>5. runner[i] \notin {"completed", "failed"}
  BY <1>3, <1>4 DEF RecordsInvariant, Story, Agreement
<1>6. RunnerAhead(i)' /\ ThreadStory(i)'
  BY <1>3, <1>4, <1>5 DEF RecordsInvariant, Story, RunnerAhead, ThreadStory, Has, Working, InTry
<1>7. UsageStory(i)' /\ Agreement(i)'
  BY <1>3, <1>4, <1>5 DEF RecordsInvariant, Story, UsageStory, ThreadStory, Agreement, Has,
     BeforeCall, Concluding
<1>. QED
  BY <1>1, <1>2, <1>6, <1>7 DEF OwnStep, Story

\* The events around the model call.
LEMMA CallEventsStep ==
    ASSUME RecordsInvariant, NEW i \in Invocations, CallEvents(i)
    PROVE  OwnStep(i)
<1>1. ASSUME NEW from, NEW type, NEW to, AppendEvent(i, from, type, to),
             \/ from = "resolved" /\ type = "provider_resolved" /\ to = "validated"
             \/ from = "validated" /\ type = "validated" /\ to = "calling"
             \/ from = "calling" /\ type = "lm_call_started" /\ to = "lm"
             \/ from = "finished" /\ type = "lm_call_finished" /\ to = "usage"
      PROVE  OwnStep(i)
  <2>1. type \in EventTypes /\ to \in Working \cup Concluding /\ from \in InTry
    BY <1>1 DEF EventTypes, Working, InTry
  <2>2. /\ TypeOK' /\ \A j \in Invocations \ {i} : Untouched(j)
        /\ \/ /\ Range(events'[i]) = Range(events[i]) \cup {type}
              /\ thread'[i] = to /\ faulty'[i] = faulty[i]
           \/ /\ events'[i] = events[i] /\ faulty'[i] = faulty[i] \cup {type}
              /\ thread'[i] = IF thread[i] \in InTry THEN "except" ELSE "dead"
    BY <1>1, <2>1, AppendEventTypes
  <2>3. /\ thread[i] = from
        /\ UNCHANGED <<inv, usage, runner>> /\ crashes' = crashes
    BY <1>1 DEF AppendEvent, NoFault, Fault, bounds
  <2>4. RunnerAhead(i)' /\ ThreadStory(i)'
    BY <1>1, <2>1, <2>2, <2>3 DEF RecordsInvariant, Story, RunnerAhead, ThreadStory, Has,
       Working, InTry
  <2>5. UsageStory(i)'
    BY <1>1, <2>1, <2>2, <2>3 DEF RecordsInvariant, Story, UsageStory, Has,
       Working, InTry, BeforeCall, Concluding
  <2>6. Agreement(i)'
    BY <1>1, <2>1, <2>2, <2>3 DEF RecordsInvariant, Story, UsageStory, ThreadStory, Agreement,
       Has, Working, InTry, BeforeCall, Concluding
  <2>. QED
    BY <2>2, <2>4, <2>5, <2>6 DEF OwnStep, Story
<1>. QED
  BY <1>1 DEF CallEvents

\* The usage row, which may be left out or fail.
LEMMA RecordUsageStep ==
    ASSUME RecordsInvariant, NEW i \in Invocations, RecordUsage(i)
    PROVE  OwnStep(i)
<1>1. TypeOK'
  <2>1. thread' \in [Invocations -> {"none", "update"} \cup Working \cup Concluding]
    <3>1. {"succeed", "except", "dead"} \subseteq Working \cup Concluding
      BY DEF Working, InTry, Concluding
    <3>. QED
      BY <3>1 DEF RecordsInvariant, TypeOK, RecordUsage, Goes, Raises
  <2>2. usage' \in SUBSET Invocations
    BY DEF RecordsInvariant, TypeOK, RecordUsage
  <2>3. FaultTypes'
    <3>1. CASE NoFault
      BY <3>1, NoFaultTypes
    <3>2. CASE Fault(i, "usage")
      BY <3>2, FaultTyped DEF Writes
    <3>. QED
      BY <3>1, <3>2 DEF RecordUsage
  <2>. QED
    BY <2>1, <2>2, <2>3 DEF RecordsInvariant, TypeOK, FaultTypes, RecordUsage
<1>2. \A j \in Invocations \ {i} : Untouched(j)
  BY DEF RecordsInvariant, TypeOK, RecordUsage, Untouched, NoFault, Fault, Goes, Raises, bounds
<1>3. /\ thread[i] = "usage" /\ UNCHANGED <<inv, events, runner>> /\ crashes' = crashes
      /\ \/ thread'[i] = "succeed" /\ faulty'[i] = faulty[i]
         \/ /\ thread'[i] = "except" /\ (i \in usage') = (i \in usage)
            /\ faulty'[i] \subseteq faulty[i] \cup {"usage"}
  BY DEF RecordsInvariant, TypeOK, RecordUsage, NoFault, Fault, Goes, Raises, InTry, bounds
<1>4. RunnerAhead(i)' /\ ThreadStory(i)'
  BY <1>3 DEF RecordsInvariant, Story, RunnerAhead, ThreadStory, Has, Working, InTry
<1>5. UsageStory(i)' /\ Agreement(i)'
  BY <1>3 DEF RecordsInvariant, Story, RunnerAhead, ThreadStory, UsageStory, Agreement, Has,
     BeforeCall, Working, InTry, Concluding
<1>6. Story(i)'
  BY <1>4, <1>5 DEF Story
<1>. QED
  BY <1>1, <1>2, <1>6 DEF OwnStep

\* The row becomes succeeded, or the write of it raises into the except clause.
LEMMA SucceedStep ==
    ASSUME RecordsInvariant, NEW i \in Invocations,
           UpdateRow(i, "succeed", "succeeded", "complete", "succeeded")
    PROVE  OwnStep(i)
<1>1. TypeOK' /\ \A j \in Invocations \ {i} : Untouched(j)
  <2>1. "succeeded" \in Statuses /\ "complete" \in Working \cup Concluding
            /\ "succeeded" \in Writes
    BY DEF Statuses, Concluding, Writes
  <2>. QED
    BY <2>1, UpdateRowTypes
<1>2. Story(i)'
  BY DEF RecordsInvariant, TypeOK, UpdateRow, NoFault, Fault, Goes, Raises, Story,
     RunnerAhead, ThreadStory, UsageStory, Agreement, Has, bounds, Working, InTry, BeforeCall,
     Concluding
<1>. QED
  BY <1>1, <1>2 DEF OwnStep

\* The except clause fails the row, whatever it was, or dies trying.
LEMMA FailStep ==
    ASSUME RecordsInvariant, NEW i \in Invocations,
           UpdateRow(i, "except", "failed", "report", "failed")
    PROVE  OwnStep(i)
<1>1. TypeOK' /\ \A j \in Invocations \ {i} : Untouched(j)
  <2>1. "failed" \in Statuses /\ "report" \in Working \cup Concluding /\ "failed" \in Writes
    BY DEF Statuses, Concluding, Writes, EventTypes
  <2>. QED
    BY <2>1, UpdateRowTypes
<1>2. /\ thread[i] = "except" /\ UNCHANGED <<events, usage, runner>> /\ crashes' = crashes
      /\ \/ /\ inv'[i].status = "failed" /\ thread'[i] = "report" /\ faulty'[i] = faulty[i]
         \/ /\ inv'[i] = inv[i] /\ thread'[i] = "dead"
            /\ faulty'[i] = faulty[i] \cup {"failed"}
  BY DEF RecordsInvariant, TypeOK, UpdateRow, NoFault, Fault, Goes, Raises, InTry, bounds
<1>3. RunnerAhead(i)' /\ ThreadStory(i)'
  BY <1>2 DEF RecordsInvariant, Story, RunnerAhead, ThreadStory, Has, Working, InTry
<1>4. UsageStory(i)' /\ Agreement(i)'
  BY <1>2 DEF RecordsInvariant, Story, ThreadStory, UsageStory, Agreement, Has, BeforeCall,
     Concluding
<1>5. Story(i)'
  BY <1>3, <1>4 DEF Story
<1>. QED
  BY <1>1, <1>5 DEF OwnStep

\* The last event: "completed" after the row succeeded, "failed" after it
\* failed.  A "completed" that cannot be written raises into the except clause.
LEMMA LastEventStep ==
    ASSUME RecordsInvariant, NEW i \in Invocations,
           \/ AppendEvent(i, "complete", "completed", "dead")
           \/ AppendEvent(i, "report", "failed", "dead")
    PROVE  OwnStep(i)
<1>1. ASSUME NEW from, NEW type, AppendEvent(i, from, type, "dead"),
             \/ from = "complete" /\ type = "completed"
             \/ from = "report" /\ type = "failed"
      PROVE  OwnStep(i)
  <2>1. type \in EventTypes /\ "dead" \in Working \cup Concluding
    BY <1>1 DEF EventTypes, Concluding
  <2>2. /\ TypeOK' /\ \A j \in Invocations \ {i} : Untouched(j)
        /\ \/ /\ Range(events'[i]) = Range(events[i]) \cup {type}
              /\ thread'[i] = "dead" /\ faulty'[i] = faulty[i]
           \/ /\ events'[i] = events[i] /\ faulty'[i] = faulty[i] \cup {type}
              /\ thread'[i] = IF thread[i] \in InTry THEN "except" ELSE "dead"
    BY <1>1, <2>1, AppendEventTypes
  <2>3. /\ thread[i] = from
        /\ UNCHANGED <<inv, usage, runner>> /\ crashes' = crashes
    BY <1>1 DEF AppendEvent, NoFault, Fault, bounds
  <2>4. RunnerAhead(i)' /\ ThreadStory(i)'
    BY <1>1, <2>1, <2>2, <2>3 DEF RecordsInvariant, Story, RunnerAhead, ThreadStory, Has,
       Working, InTry
  <2>5. UsageStory(i)'
    BY <1>1, <2>1, <2>2, <2>3 DEF RecordsInvariant, Story, UsageStory, Has,
       Working, InTry, BeforeCall, Concluding
  <2>6. Agreement(i)'
    BY <1>1, <2>1, <2>2, <2>3 DEF RecordsInvariant, Story, UsageStory, ThreadStory, Agreement,
       Has, Working, InTry, BeforeCall, Concluding
  <2>. QED
    BY <2>2, <2>4, <2>5, <2>6 DEF OwnStep, Story
<1>. QED
  BY <1>1

-----------------------------------------------------------------------------
\* The handlers edit the agent, the provider and the secret, and no invocation.
LEMMA EditorStep ==
    ASSUME RecordsInvariant, NEW w \in Editors, EditorNext(w)
    PROVE  TypeOK' /\ \A j \in Invocations : Untouched(j)
<1>. DEFINE Edit == [at : {"free", "agent", "provider", "secret", "test-ok", "test-error"},
                     rev : Nat, session : BOOLEAN]
            ProviderRow == [enabled : BOOLEAN, session : BOOLEAN, rev : Nat,
                            test : {"unknown", "ok", "error"}]
<1>1. UNCHANGED <<inv, events, usage, thread, runner, faulty, faults, crashes>>
  BY DEF EditorNext, SaveAgent, WriteAgent, DeleteAgent, SaveProvider, WriteProvider,
     WriteSecret, DeleteProvider, TestProvider, WriteTest, DeleteSessionSecret, Budgeted,
     rows, bounds
<1>2. \A j \in Invocations : Untouched(j)
  BY <1>1 DEF Untouched
<1>3. saves' \in Nat
  BY DEF RecordsInvariant, TypeOK, EditorNext, SaveAgent, WriteAgent, DeleteAgent,
     SaveProvider, WriteProvider, WriteSecret, DeleteProvider, TestProvider, WriteTest,
     DeleteSessionSecret, Budgeted, bounds
<1>4. secret' \in BOOLEAN
  BY DEF RecordsInvariant, TypeOK, EditorNext, SaveAgent, WriteAgent, DeleteAgent,
     SaveProvider, WriteProvider, WriteSecret, DeleteProvider, TestProvider, WriteTest,
     DeleteSessionSecret
<1>5. editor[w] \in Edit /\ agent \in [enabled : BOOLEAN, rev : Nat] /\ provider \in ProviderRow
  BY DEF RecordsInvariant, TypeOK
<1>6. agent' \in [enabled : BOOLEAN, rev : Nat]
  <2>1. CASE WriteAgent(w)
    BY <1>5, <2>1 DEF WriteAgent
  <2>2. CASE DeleteAgent(w)
    BY <1>5, <2>2 DEF DeleteAgent
  <2>3. CASE UNCHANGED agent
    BY <1>5, <2>3
  <2>. QED
    BY <2>1, <2>2, <2>3 DEF EditorNext, SaveAgent, SaveProvider, WriteProvider, WriteSecret,
       DeleteProvider, TestProvider, WriteTest, DeleteSessionSecret, rows
<1>7. provider' \in ProviderRow
  <2>1. CASE WriteProvider(w)
    <3>1. PICK on \in BOOLEAN :
            LET row == [enabled |-> on, session |-> editor[w].session,
                        rev |-> editor[w].rev + 1, test |-> provider.test]
            IN provider' = IF editor[w].rev = 0 /\ provider.rev = 0
                           THEN [row EXCEPT !.test = "unknown"]
                           ELSE IF editor[w].rev > 0 /\ provider.rev > 0 THEN row ELSE provider
      BY <2>1 DEF WriteProvider
    <3>. QED
      BY <1>5, <3>1
  <2>2. CASE DeleteProvider(w)
    BY <1>5, <2>2 DEF DeleteProvider
  <2>3. CASE WriteTest(w)
    BY <1>5, <2>3 DEF WriteTest
  <2>4. CASE DeleteSessionSecret(w)
    BY <1>5, <2>4 DEF DeleteSessionSecret
  <2>5. CASE UNCHANGED provider
    BY <1>5, <2>5
  <2>. QED
    BY <2>1, <2>2, <2>3, <2>4, <2>5 DEF EditorNext, SaveAgent, WriteAgent, DeleteAgent,
       SaveProvider, WriteSecret, TestProvider, rows
<1>8. editor' \in [Editors -> Edit]
  <2>1. Free \in Edit
    BY DEF Free
  <2>2. \E at, next : Handle(w, at, next) /\ next \in Edit
    <3>1. CASE SaveAgent(w)
      <4>1. [Free EXCEPT !.at = "agent", !.rev = agent.rev] \in Edit
        BY <1>5 DEF Free
      <4>. QED
        BY <3>1, <4>1 DEF SaveAgent
    <3>2. CASE SaveProvider(w)
      BY <1>5, <3>2 DEF SaveProvider
    <3>3. CASE WriteProvider(w)
      BY <1>5, <2>1, <3>3 DEF WriteProvider
    <3>4. CASE DeleteProvider(w)
      <4>1. [Free EXCEPT !.at = "secret"] \in Edit
        BY DEF Free
      <4>. QED
        BY <3>4, <4>1 DEF DeleteProvider
    <3>5. CASE TestProvider(w)
      <4>1. \A result \in {"test-ok", "test-error"} : [Free EXCEPT !.at = result] \in Edit
        BY DEF Free
      <4>. QED
        BY <3>5, <4>1 DEF TestProvider
    <3>6. CASE WriteAgent(w) \/ DeleteAgent(w) \/ WriteSecret(w) \/ WriteTest(w)
                 \/ DeleteSessionSecret(w)
      BY <2>1, <3>6 DEF WriteAgent, DeleteAgent, WriteSecret, WriteTest, DeleteSessionSecret
    <3>. QED
      BY <3>1, <3>2, <3>3, <3>4, <3>5, <3>6 DEF EditorNext
  <2>. HIDE DEF Edit
  <2>3. editor \in [Editors -> Edit]
    BY DEF RecordsInvariant, TypeOK, Edit
  <2>. QED
    BY <2>2, <2>3 DEF Handle
<1>9. TypeOK'
  BY <1>1, <1>3, <1>4, <1>6, <1>7, <1>8 DEF RecordsInvariant, TypeOK
<1>. QED
  BY <1>2, <1>9

\* A crash ends every thread and poll; what is on record stays.
LEMMA CrashStep ==
    ASSUME RecordsInvariant, Crash
    PROVE  RecordsInvariant'
<1>1. TypeOK'
  <2>1. thread' \in [Invocations -> {"none", "update"} \cup Working \cup Concluding]
    BY DEF Crash, Concluding
  <2>2. runner' \in [Invocations -> {"idle", "insert", "queued", "polling", "completed",
                                     "failed", "stopped", "lost"}]
    BY DEF RecordsInvariant, TypeOK, Crash
  <2>3. editor' \in [Editors -> [at : {"free", "agent", "provider", "secret", "test-ok",
                                       "test-error"}, rev : Nat, session : BOOLEAN]]
    BY DEF Crash, Free
  <2>4. crashes' \in Nat
    BY DEF RecordsInvariant, TypeOK, Crash
  <2>5. secret' \in BOOLEAN
    BY DEF Crash
  <2>. QED
    BY <2>1, <2>2, <2>3, <2>4, <2>5 DEF RecordsInvariant, TypeOK, Crash, rows
<1>2. ASSUME NEW i \in Invocations PROVE Story(i)'
  <2>1. crashes' /= 0
    BY DEF RecordsInvariant, TypeOK, Crash
  <2>2. /\ thread'[i] = IF thread[i] = "none" THEN "none" ELSE "dead"
        /\ runner'[i] = IF runner[i] \in {"insert", "queued", "polling"} THEN "lost"
                        ELSE runner[i]
        /\ UNCHANGED <<inv, events, usage, faulty>>
    BY DEF Crash, rows
  <2>. QED
    BY <2>1, <2>2 DEF RecordsInvariant, Story, RunnerAhead, ThreadStory, UsageStory, Agreement,
       Has, Working, InTry, BeforeCall, Concluding
<1>. QED
  BY <1>1, <1>2 DEF RecordsInvariant

\* Every step keeps the invariant.
LEMMA RecordsNext ==
    ASSUME RecordsInvariant, [Next]_vars
    PROVE  RecordsInvariant'
<1>1. ASSUME NEW i \in Invocations, OwnStep(i) PROVE RecordsInvariant'
  BY <1>1, StoryKept DEF RecordsInvariant, OwnStep
<1>2. ASSUME NEW i \in Invocations, RunnerNext(i) PROVE RecordsInvariant'
  BY <1>1, <1>2, CheckAgentStep, InsertRowStep, QueueInvocationStep, PollStep DEF RunnerNext
<1>3. ASSUME NEW i \in Invocations, ThreadNext(i) PROVE RecordsInvariant'
  <2>1. CASE OverridesUnparsable(i) \/ SetRunning(i) \/ Started(i)
    BY <1>1, <2>1, OverridesStep, SetRunningStep, StartedStep
  <2>2. CASE BuildLm(i) \/ GatewayAnswers(i) \/ RunDspyProgram(i)
    BY <1>1, <2>2, QuietStep
  <2>3. CASE CallEvents(i) \/ RecordUsage(i)
    BY <1>1, <2>3, CallEventsStep, RecordUsageStep
  <2>4. CASE Conclude(i) \/ ExceptClause(i)
    BY <1>1, <2>4, SucceedStep, FailStep, LastEventStep DEF Conclude, ExceptClause
  <2>. QED
    BY <1>3, <2>1, <2>2, <2>3, <2>4 DEF ThreadNext
<1>4. ASSUME NEW w \in Editors, EditorNext(w) PROVE RecordsInvariant'
  BY <1>4, EditorStep, StoryKept DEF RecordsInvariant
<1>5. CASE UNCHANGED vars
  <2>1. TypeOK' /\ \A j \in Invocations : Untouched(j)
    BY <1>5 DEF RecordsInvariant, TypeOK, Untouched, vars, rows, bounds
  <2>. QED
    BY <2>1, StoryKept DEF RecordsInvariant
<1>. QED
  BY <1>2, <1>3, <1>4, <1>5, CrashStep DEF Next

\* The inductive invariant holds of every behaviour of the specification.
THEOREM RecordsSafe == Spec => []RecordsInvariant
<1>1. Init => RecordsInvariant
  BY RecordsInit
<1>2. RecordsInvariant /\ [Next]_vars => RecordsInvariant'
  BY RecordsNext
<1>. QED
  BY <1>1, <1>2, PTL DEF Spec

\* Row, events and usage of every invocation tell one story, whatever writes
\* fail, whoever edits the agent and whenever the process dies (agent_invoker.py
\* execute_invocation, dag_executor.py _await_invocation).
THEOREM RecordsAgree == Spec => []InvocationRecordsAgree
<1>1. RecordsInvariant => InvocationRecordsAgree
  BY DEF RecordsInvariant, Story, Agreement, InvocationRecordsAgree
<1>. QED
  BY <1>1, RecordsSafe, PTL
=============================================================================
