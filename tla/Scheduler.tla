----------------------------- MODULE Scheduler -----------------------------
(***************************************************************************)
(* The Scheduler of core/scheduler.py: scheduled tasks as rows, pause and  *)
(* resume by requests, and ticks that start the runs that are due.  create *)
(* computes next_run_at before it takes the lock; tick reads the clock     *)
(* before it takes the lock and may wait for it while time goes on.  One   *)
(* minute of time is one step of the clock and a value of the plain field. *)
(***************************************************************************)
EXTENDS Cron, Sequences, SequencesExt

CONSTANTS
    Tasks,           \* ids, in the order of ORDER BY id
    Expressions,     \* cron expressions that requests carry
    Tickers,         \* threads that call tick
    Creators,        \* threads that call create
    MaxMinutes,      \* bound on the clock
    MaxStarts,       \* bound on the runs of one task
    ScanMinutes      \* _NEXT_RUN_SCAN_MINUTES

VARIABLES
    tasks,          \* scheduled_tasks: id -> [expr, state, next], existing rows
    minute,         \* the clock
    schedulerLock,  \* the thread inside self._lock, or NoHolder
    ticking,        \* ticker -> [pc, moment, rows]
    creating,       \* creator -> [pc, expr, state, next]
    starts          \* task -> runs started for it

schedulerVars == <<tasks, minute, schedulerLock, ticking, creating, starts>>

NoHolder == "none"

\* What is no thread's name holds no lock; a request carries parts that the
\* parser may refuse, but no other shape.
ASSUME SchedulerAssumption ==
    /\ Tasks \subseteq Nat /\ NoHolder \notin Tickers
    /\ MaxMinutes \in Nat /\ MaxStarts \in Nat /\ ScanMinutes \in Nat
    /\ \A e \in DOMAIN Expressions, f \in CronFields : Expressions[e][f] \subseteq CronParts

Never == -1
NotTicking == [pc |-> "idle", moment |-> 0, rows |-> << >>]
NotCreating == [pc |-> "idle", expr |-> 0, state |-> "paused", next |-> Never]

\* A day has as many minutes as the plain field has values.
DayLength == PlainMax - PlainMin + 1
PlainValue(moment) == PlainMin + (moment % DayLength)

\* Python counts weekdays from Monday, cron from Sunday.
CronDow(moment) == (((moment \div DayLength) % (DowMax + 1)) + 1) % (DowMax + 1)

\* Every field must match.
_matches(schedule, moment) ==
    /\ PlainValue(moment) \in schedule["plain"]
    /\ CronDow(moment) \in schedule["dow"]

\* The first matching minute within the horizon of the scan, or None.
_next_run_at(schedule, after) ==
    LET found == {m \in after .. after + ScanMinutes - 1 : _matches(schedule, m)}
    IN IF found = {} THEN Never ELSE Min(found)

SchedulerInit ==
    /\ tasks = << >>
    /\ minute = 0
    /\ schedulerLock = NoHolder
    /\ ticking = [t \in Tickers |-> NotTicking]
    /\ creating = [c \in Creators |-> NotCreating]
    /\ starts = [k \in Tasks |-> 0]

\* create, up to the lock: an expression that does not parse is refused before
\* anything is written; an active task gets its next run time from the clock.
CreateTask(c) ==
    /\ creating[c].pc = "idle"
    /\ \E e \in DOMAIN Expressions, state \in {"active", "paused"} :
        /\ ~ParseRaises(Expressions[e])
        /\ creating' = [creating EXCEPT ![c] =
              [pc |-> "insert", expr |-> e, state |-> state,
               next |-> IF state = "active"
                        THEN _next_run_at(parse(Expressions[e]), minute) ELSE Never]]
    /\ UNCHANGED <<tasks, minute, schedulerLock, ticking, starts>>

\* The INSERT, under the lock.
InsertTask(c) ==
    /\ creating[c].pc = "insert" /\ schedulerLock = NoHolder
    /\ \E k \in Tasks \ DOMAIN tasks :
        tasks' = [j \in DOMAIN tasks \cup {k} |->
            IF j = k THEN [expr  |-> creating[c].expr,
                           state |-> creating[c].state,
                           next  |-> creating[c].next]
            ELSE tasks[j]]
    /\ creating' = [creating EXCEPT ![c] = NotCreating]
    /\ UNCHANGED <<minute, schedulerLock, ticking, starts>>

\* pause and resume: one transaction under the lock; an unknown task raises.
_set_state(k, state) ==
    /\ k \in DOMAIN tasks /\ schedulerLock = NoHolder
    /\ tasks' = [tasks EXCEPT ![k].state = state,
                              ![k].next = IF state = "active"
                                THEN _next_run_at(parse(Expressions[tasks[k].expr]), minute)
                                ELSE Never]
    /\ UNCHANGED <<minute, schedulerLock, ticking, creating, starts>>

\* tick reads the clock, then waits for the lock.
TickCalled(t) ==
    /\ ticking[t].pc = "idle"
    /\ ticking' = [ticking EXCEPT ![t].pc = "wait", ![t].moment = minute]
    /\ UNCHANGED <<tasks, minute, schedulerLock, creating, starts>>

\* The SELECT of tick: the active rows, ORDER BY id.
ActiveRows ==
    LET active == {k \in DOMAIN tasks : tasks[k].state = "active"}
    IN CHOOSE rows \in SetToSeqs(active) : \A i, j \in DOMAIN rows : i < j => rows[i] < rows[j]

\* Mutant of TickEnters: tick selects its rows without the lock.
TickEntersUnlocked(t) ==
    /\ ticking[t].pc = "wait"
    /\ ticking' = [ticking EXCEPT ![t].pc = "scan",
          ![t].rows = ActiveRows]
    /\ UNCHANGED <<tasks, minute, schedulerLock, creating, starts>>

\* The lock is taken and the active rows are selected.
TickEnters(t) ==
    /\ ticking[t].pc = "wait" /\ schedulerLock = NoHolder
    /\ schedulerLock' = t
    /\ ticking' = [ticking EXCEPT ![t].pc = "scan",
          ![t].rows = ActiveRows]
    /\ UNCHANGED <<tasks, minute, creating, starts>>

LeaveTick(t) ==
    /\ ticking' = [ticking EXCEPT ![t] = NotTicking]
    /\ schedulerLock' = NoHolder

\* The next row: not due and passed over, or start_run, which may raise and end
\* the whole tick.
TickRow(t) ==
    LET call == ticking[t]
        k    == Head(call.rows)
        due  == _matches(parse(Expressions[tasks[k].expr]), call.moment)
    IN
    /\ call.pc = "scan" /\ call.rows /= << >>
    /\ \/ /\ ~due
          /\ ticking' = [ticking EXCEPT ![t].rows = Tail(@)]
          /\ UNCHANGED <<starts, schedulerLock>>
       \/ /\ due /\ starts[k] < MaxStarts
          /\ starts' = [starts EXCEPT ![k] = @ + 1]
          /\ ticking' = [ticking EXCEPT ![t].pc = "advance"]
          /\ UNCHANGED schedulerLock
       \/ /\ due
          /\ LeaveTick(t)
          /\ UNCHANGED starts
    /\ UNCHANGED <<tasks, minute, creating>>

\* next_run_at is moved past the match.
TickAdvances(t) ==
    LET k == Head(ticking[t].rows) IN
    /\ ticking[t].pc = "advance"
    /\ tasks' = [tasks EXCEPT ![k].next =
            _next_run_at(parse(Expressions[tasks[k].expr]), ticking[t].moment + 1)]
    /\ ticking' = [ticking EXCEPT ![t].pc = "scan", ![t].rows = Tail(@)]
    /\ UNCHANGED <<minute, schedulerLock, creating, starts>>

TickReturns(t) ==
    /\ ticking[t].pc = "scan" /\ ticking[t].rows = << >>
    /\ LeaveTick(t)
    /\ UNCHANGED <<tasks, minute, creating, starts>>

NextMinute ==
    /\ minute < MaxMinutes
    /\ minute' = minute + 1
    /\ UNCHANGED <<tasks, schedulerLock, ticking, creating, starts>>

SchedulerNext ==
    \/ \E c \in Creators : CreateTask(c) \/ InsertTask(c)
    \/ \E k \in Tasks, state \in {"active", "paused"} : _set_state(k, state)
    \/ \E t \in Tickers :
        TickCalled(t) \/ TickEnters(t) \/ TickRow(t) \/ TickAdvances(t) \/ TickReturns(t)
    \/ NextMinute

(***************************************************************************)
(* Properties                                                              *)
(***************************************************************************)

\* The expression of a task, as it is written, names the minute.
NamesMinute(k, moment) ==
    LET e == Expressions[tasks[k].expr] IN
    /\ FieldNames(e["plain"], "plain", PlainValue(moment))
    /\ FieldNames(e["dow"], "dow", CronDow(moment))

\* A run is only started for a task whose row is active at that instant, at a
\* minute its expression names and that has come; a task that is paused has no
\* next run time, and one that is active has a minute its expression names or
\* none within the horizon (scheduler.py tick, pause, resume, create), however
\* ticks, requests and the clock interleave.
ScheduleHonoured ==
    /\ [][\A k \in Tasks : starts'[k] > starts[k] =>
            /\ tasks[k].state = "active"
            /\ \E t \in Tickers : /\ ticking[t].pc = "scan"
                                  /\ ticking[t].moment <= minute
                                  /\ Head(ticking[t].rows) = k
                                  /\ NamesMinute(k, ticking[t].moment)]_schedulerVars
    /\ [](\A k \in DOMAIN tasks :
            tasks[k].next /= Never =>
                tasks[k].state = "active" /\ NamesMinute(k, tasks[k].next))
=============================================================================
