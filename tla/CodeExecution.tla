--------------------------- MODULE CodeExecution ---------------------------
(***************************************************************************)
(* One script run by core/code_executor.py in a kernel sandbox through     *)
(* adapters/rust_infra.py.  The kernel is external: it runs the workload,  *)
(* streams its lines and may stop it at the ceiling it was given.  Time is *)
(* in half seconds, so that a limit may have a fraction; the ceiling is    *)
(* cut to whole seconds and 0 means none.  The executor looks at the clock *)
(* only when a line arrives or the stream has ended.  With a bridged       *)
(* (grpc.aio) stub the stream is drained before the first line is seen.    *)
(***************************************************************************)
EXTENDS Naturals, Sequences

CONSTANTS
    TimeLimits,  \* time limits requested, in half seconds (0 is refused)
    Bridged,     \* values of: the stub is asynchronous
    MaxLines,    \* bound on the lines a script writes
    MaxTime      \* bound on the clock

ASSUME ExecAssumption == TimeLimits \subseteq Nat

VARIABLES
    clock,       \* half seconds
    bridged,     \* the stub of this run is asynchronous
    script,      \* the execute call: [pc, limit, deadline, lines, code]
    job,         \* kernel: [state, since, ceiling, written, code]
    pipe,        \* lines sent by the kernel and not yet read
    streamEnded  \* the kernel has closed the log stream

execVars == <<clock, bridged, script, job, pipe, streamEnded>>

NoCode == 99
NoJob == [state |-> "none", since |-> 0, ceiling |-> 0, written |-> << >>, code |-> NoCode]

ExecInit ==
    /\ clock = 0
    /\ bridged \in Bridged
    /\ script = [pc |-> "idle", limit |-> 0, deadline |-> 0, lines |-> << >>, code |-> NoCode]
    /\ job = NoJob
    /\ pipe = << >> /\ streamEnded = FALSE

\* int(time_limit), in half seconds again.
Ceiling(limit) == (limit \div 2) * 2

\* execute: the limit is resolved, then the job dispatched.  A dispatch that
\* fails, or whose answer is lost or names no job, raises SandboxRoutingError;
\* in the last two cases the kernel may be running the workload.
execute(limit) ==
    LET started == [NoJob EXCEPT !.state = "running", !.since = clock, !.ceiling = Ceiling(limit)]
    IN
    /\ script.pc = "idle"
    /\ \/ /\ limit > 0
          /\ job' = started
          /\ \/ script' = [script EXCEPT !.pc = "stream", !.limit = limit,
                                         !.deadline = clock + limit]
             \/ script' = [script EXCEPT !.pc = "raised"]
       \/ /\ script' = [script EXCEPT !.pc = "raised"]
          /\ UNCHANGED job
    /\ UNCHANGED <<clock, bridged, pipe, streamEnded>>

\* The kernel: the script writes a line, exits, or is stopped at the ceiling.
JobWrites(stream) ==
    /\ job.state = "running" /\ Len(job.written) < MaxLines
    /\ job' = [job EXCEPT !.written = Append(@, stream)]
    /\ pipe' = Append(pipe, [stream |-> stream, code |-> NoCode])
    /\ UNCHANGED <<clock, bridged, script, streamEnded>>

JobExits(code) ==
    /\ job.state = "running"
    /\ job' = [job EXCEPT !.state = "exited", !.code = code]
    /\ pipe' = Append(pipe, [stream |-> "exit", code |-> code])
    /\ streamEnded' = TRUE
    /\ UNCHANGED <<clock, bridged, script>>

JobHitsCeiling ==
    /\ job.state = "running" /\ job.ceiling > 0 /\ clock >= job.since + job.ceiling
    /\ job' = [job EXCEPT !.state = "stopped"]
    /\ streamEnded' = TRUE
    /\ UNCHANGED <<clock, bridged, script, pipe>>

HalfSecond ==
    /\ clock < MaxTime
    /\ clock' = clock + 1
    /\ UNCHANGED <<bridged, script, job, pipe, streamEnded>>

\* The next line of stream_logs is at hand.
LineAvailable == script.pc = "stream" /\ pipe /= << >> /\ (bridged => streamEnded)

\* One turn of the loop of _capture: past the deadline the workload is to be
\* torn down; otherwise the line is kept or the exit code read.
CaptureLine ==
    LET line == Head(pipe) IN
    /\ LineAvailable
    /\ pipe' = Tail(pipe)
    /\ script' = IF clock > script.deadline THEN [script EXCEPT !.pc = "teardown"]
                 ELSE IF line.stream = "exit" THEN [script EXCEPT !.code = line.code]
                 ELSE [script EXCEPT !.lines = Append(@, line.stream)]
    /\ UNCHANGED <<clock, bridged, job, streamEnded>>

\* The stream is exhausted: a breach seen only now counts too.
CaptureEnds ==
    /\ script.pc = "stream" /\ pipe = << >> /\ streamEnded
    /\ script' = [script EXCEPT !.pc = IF clock > script.deadline THEN "teardown" ELSE "result"]
    /\ UNCHANGED <<clock, bridged, job, pipe, streamEnded>>

\* The stream raises (or the bridge gives up waiting for it): the exception
\* leaves execute, and nobody tears the workload down.
StreamRaises ==
    /\ script.pc = "stream"
    /\ script' = [script EXCEPT !.pc = "raised"]
    /\ UNCHANGED <<clock, bridged, job, pipe, streamEnded>>

\* Mutant of _timeout: the timeout is reported without stopping the workload.
ReportOnly ==
    /\ script.pc = "teardown"
    /\ script' = [script EXCEPT !.pc = "timed_out", !.code = NoCode]
    /\ UNCHANGED <<clock, bridged, job, pipe, streamEnded>>

\* _timeout: StopWorkload, then the result; or the RPC fails, with or without
\* an effect, and the exception leaves execute.
_timeout ==
    /\ script.pc = "teardown"
    /\ \/ /\ job' = [job EXCEPT !.state = IF @ = "running" THEN "stopped" ELSE @]
          /\ streamEnded' = TRUE
          /\ \/ script' = [script EXCEPT !.pc = "timed_out", !.code = NoCode]
             \/ script' = [script EXCEPT !.pc = "raised"]
       \/ /\ script' = [script EXCEPT !.pc = "raised"]
          /\ UNCHANGED <<job, streamEnded>>
    /\ UNCHANGED <<clock, bridged, pipe>>

ExecNext ==
    \/ \E limit \in TimeLimits : execute(limit)
    \/ \E stream \in {"stdout", "stderr"} : JobWrites(stream)
    \/ \E code \in {0, 1} : JobExits(code)
    \/ JobHitsCeiling \/ HalfSecond
    \/ CaptureLine \/ CaptureEnds \/ StreamRaises \/ _timeout

(***************************************************************************)
(* Properties                                                              *)
(***************************************************************************)

\* A result tells the truth about the workload: an exit code is the one the
\* script exited with and comes with every line it wrote, in order; a result
\* of any kind, timed out or not, means the workload is no longer running, so
\* a timeout is never reported of a script that goes on; and an exit code
\* never belongs to a script the executor has called timed out
\* (code_executor.py _capture, _timeout).
SandboxResultsHonest ==
    /\ script.pc = "result" /\ script.code /= NoCode =>
        /\ job.state = "exited" /\ job.code = script.code
        /\ script.lines = job.written
    /\ script.pc \in {"result", "timed_out"} => job.state \in {"exited", "stopped"}
    /\ script.pc = "timed_out" =>
        script.code = NoCode /\ \E n \in 0 .. Len(job.written) :
            script.lines = SubSeq(job.written, 1, n)
=============================================================================
