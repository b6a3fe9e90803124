------------------------------- MODULE Runner -------------------------------
(***************************************************************************)
(* run_workflow (crates/beez-runner): the tasks of a workflow run in       *)
(* waves. Every ready task starts on a thread of its own; the threads send *)
(* output lines and results through one channel to the caller's thread,    *)
(* which reports each as it arrives; when the whole wave has ended, its    *)
(* results are recorded in declaration order and the next wave starts.     *)
(*                                                                         *)
(* `fate` says in advance how each task's program would end, so that a     *)
(* result can be compared with what the workflow alone determines.         *)
(*                                                                         *)
(* A definition whose comment starts with "Mutant" is no part of the       *)
(* model: it is a mistake the definition after it could have, and shows    *)
(* that a property would notice.                                           *)
(***************************************************************************)
EXTENDS Integers, Sequences, FiniteSets

CONSTANTS
  N,               \* how many tasks the workflow has, in declaration order
  Deps,            \* Deps[t]: the tasks that t depends on
  Reads,           \* Reads[t]: the tasks whose output the request of t names
  Fates,           \* how a program may end, see task_status
  MaxLines,        \* bound: lines a task writes to each stream
  ReportMayFail    \* whether on_event may return an error

Tasks == 1..N
Streams == {"stdout", "stderr"}
Signal == -1       \* the program ended without an exit code
Error == -2        \* the program could not run at all

ASSUME TasksAssumption == N \in Nat /\ Deps \in [Tasks -> SUBSET Tasks]
\* validate_acyclic lets no cycle through: every group of tasks has one that
\* depends on none of them.
ASSUME AcyclicAssumption ==
  \A S \in SUBSET Tasks : S # {} => \E t \in S : Deps[t] \cap S = {}
\* resolve_output_sources lets a request read direct dependencies only.
ASSUME ReadsAssumption ==
  Reads \in [Tasks -> SUBSET Tasks] /\ \A t \in Tasks : Reads[t] \subseteq Deps[t]
ASSUME RunnerAssumption ==
  /\ Fates \subseteq Nat \cup {Signal, Error}
  /\ MaxLines \in Nat /\ ReportMayFail \in BOOLEAN

VARIABLES
  statuses,     \* WorkflowExecution.statuses
  pc,           \* where the caller's thread stands
  starting,     \* tasks of `ready` that start_ready_tasks has still to start
  wave,         \* tasks of the wave
  lines,        \* lines[t][s]: lines left on the stream s of t
  readers,      \* readers[t]: streams of t whose reader thread goes on
  threads,      \* tasks whose thread goes on
  channel,      \* messages of the wave's threads
  outcomes,     \* results that have arrived and are not recorded
  outputs,      \* tasks whose output is kept for a reader
  exit_status,
  failed,       \* whether record_outcomes met an execution error
  reported,     \* the last event reported for each task
  tally,        \* RunTally
  fate

vars == <<statuses, pc, starting, wave, lines, readers, threads, channel,
          outcomes, outputs, exit_status, failed, reported, tally, fate>>
run == <<wave, lines, readers, threads, channel>>
results == <<outcomes, outputs, exit_status, failed>>

-----------------------------------------------------------------------------
\* WorkflowExecution (crates/beez-core): the statuses of the tasks.

TaskStatus == {"Pending", "Running", "Succeeded", "Failed"}

\* Mutant: a dependency that has failed will do.
is_ready_after_failure(t) ==
  /\ statuses[t] = "Pending"
  /\ \A d \in Deps[t] : statuses[d] \in {"Succeeded", "Failed"}

is_ready(t) ==
  statuses[t] = "Pending" /\ \A d \in Deps[t] : statuses[d] = "Succeeded"

ready == {t \in Tasks : is_ready(t)}
pending == {t \in Tasks : statuses[t] = "Pending"}
has_pending == pending # {}

\* start and complete refuse a task that is not ready or not running, and
\* leave it as it is.
start(t) ==
  statuses' = IF is_ready(t) THEN [statuses EXCEPT ![t] = "Running"] ELSE statuses
complete(t, succeeded) ==
  statuses' = IF statuses[t] = "Running"
              THEN [statuses EXCEPT ![t] = IF succeeded THEN "Succeeded" ELSE "Failed"]
              ELSE statuses

-----------------------------------------------------------------------------
\* The status a result counts as: a signal or an execution error counts as 1.
task_status(result) == IF result < 0 THEN 1 ELSE result

\* The first of a set of tasks, in declaration order.
is_first(t, S) == t \in S /\ \A u \in S : t <= u

-----------------------------------------------------------------------------
\* Events. RunTally counts the ones that end a task.

report(t, event) ==
  /\ reported' = [reported EXCEPT ![t] = event]
  /\ tally' = IF event \in DOMAIN tally THEN [tally EXCEPT ![event] = @ + 1] ELSE tally

-----------------------------------------------------------------------------
\* run_workflow.

Init ==
  /\ statuses = [t \in Tasks |-> "Pending"]
  /\ pc = "loop" /\ starting = {} /\ wave = {}
  /\ lines = [t \in Tasks |-> [s \in Streams |-> 0]]
  /\ readers = [t \in Tasks |-> {}] /\ threads = {} /\ channel = <<>>
  /\ outcomes = {} /\ outputs = {} /\ exit_status = 0 /\ failed = FALSE
  /\ reported = [t \in Tasks |-> "none"]
  /\ tally = [passed |-> 0, failed |-> 0, blocked |-> 0]
  /\ fate \in [Tasks -> Fates]

\* Mutant: nothing is done about tasks that can never start.
next_wave_unaware ==
  /\ pc = "loop"
  /\ pc' = IF has_pending THEN "start" ELSE "done"
  /\ starting' = ready /\ wave' = {}
  /\ UNCHANGED <<statuses, lines, readers, threads, channel, results, reported,
                 tally, fate>>

\* The head of the loop: the ready tasks, or the end.
next_wave ==
  /\ pc = "loop"
  /\ \/ /\ ~has_pending
        /\ pc' = "done" /\ UNCHANGED starting
     \/ /\ has_pending /\ ready # {}
        /\ pc' = "start" /\ starting' = ready
     \/ /\ has_pending /\ ready = {}
        /\ pc' = "block" /\ starting' = pending
  /\ wave' = {}
  /\ UNCHANGED <<statuses, lines, readers, threads, channel, results, reported,
                 tally, fate>>

\* start_ready_tasks: one task after the other, each reported as it starts; a
\* task that turns out not to be ready is an error.
start_task(t) ==
  /\ pc = "start" /\ is_first(t, starting)
  /\ start(t)
  /\ starting' = starting \ {t}
  /\ \/ /\ is_ready(t) /\ report(t, "running")
        /\ wave' = wave \cup {t} /\ UNCHANGED pc
     \/ /\ ~is_ready(t) \/ ReportMayFail
        /\ pc' = "error" /\ UNCHANGED <<wave, reported, tally>>
  /\ UNCHANGED <<lines, readers, threads, channel, results, fate>>

\* Each request is rendered from the kept outputs, then gets its thread; the
\* program of each thread writes some lines to each stream. render_request
\* refuses a request whose output is not kept, before any thread starts.
spawn ==
  /\ pc = "start" /\ starting = {}
  /\ LET rendered == \A t \in wave : Reads[t] \subseteq outputs
     IN  /\ pc' = IF rendered THEN "collect" ELSE "error"
         /\ threads' = IF rendered THEN wave ELSE {}
  /\ readers' = [t \in Tasks |-> IF t \in threads' THEN Streams ELSE {}]
  /\ \E n \in [threads' -> [Streams -> 0..MaxLines]] :
       lines' = [t \in Tasks |-> IF t \in threads' THEN n[t] ELSE lines[t]]
  /\ UNCHANGED <<statuses, starting, wave, channel, results, reported, tally, fate>>

\* No task can start any more: each one left is reported as blocked.
block(t) ==
  /\ pc = "block" /\ is_first(t, starting)
  /\ starting' = starting \ {t}
  /\ \/ /\ report(t, "blocked")
        /\ pc' = IF starting = {t} THEN "done" ELSE "block"
     \/ /\ ReportMayFail
        /\ pc' = "error" /\ UNCHANGED <<reported, tally>>
  /\ UNCHANGED <<statuses, run, results, fate>>

-----------------------------------------------------------------------------
\* run_requests_concurrently: the threads of a wave.

\* The channel has a receiver until the caller gives up on an event.
send(message) ==
  channel' = IF pc = "abort" THEN channel ELSE Append(channel, message)

\* A reader thread forwards one line.
forward(t, s) ==
  /\ s \in readers[t] /\ lines[t][s] > 0
  /\ lines' = [lines EXCEPT ![t][s] = @ - 1]
  /\ send([kind |-> "line", task |-> t])
  /\ UNCHANGED <<statuses, pc, starting, wave, readers, threads, results,
                 reported, tally, fate>>

\* A stream ends, and its reader thread with it: after its last line, or early
\* because a read failed or the program could not run.
reader_ends(t, s) ==
  /\ s \in readers[t]
  /\ readers' = [readers EXCEPT ![t] = @ \ {s}]
  /\ lines' = [lines EXCEPT ![t][s] = 0]
  /\ UNCHANGED <<statuses, pc, starting, wave, threads, channel, results,
                 reported, tally, fate>>

\* Mutant: the result does not wait for the readers.
task_done_unjoined(t) ==
  /\ t \in threads
  /\ threads' = threads \ {t}
  /\ send([kind |-> "done", task |-> t])
  /\ UNCHANGED <<statuses, pc, starting, wave, lines, readers, results,
                 reported, tally, fate>>

\* Both readers are joined, so the task's thread sends the result and ends.
task_done(t) ==
  /\ t \in threads /\ readers[t] = {}
  /\ threads' = threads \ {t}
  /\ send([kind |-> "done", task |-> t])
  /\ UNCHANGED <<statuses, pc, starting, wave, lines, readers, results,
                 reported, tally, fate>>

\* The caller's thread reports one message. An error of on_event leaves the
\* loop and drops the receiver, but the scope still joins every thread.
receive ==
  /\ pc = "collect" /\ channel # <<>>
  /\ LET message == Head(channel)
         t == message.task
     IN  \/ /\ message.kind = "line"
            /\ channel' = Tail(channel)
            /\ UNCHANGED <<pc, outcomes, reported, tally>>
         \/ /\ message.kind = "done"
            /\ channel' = Tail(channel)
            /\ outcomes' = outcomes \cup {t}
            /\ report(t, IF fate[t] = 0 THEN "passed" ELSE "failed")
            /\ UNCHANGED pc
         \/ /\ ReportMayFail
            /\ pc' = "abort" /\ channel' = <<>>
            /\ UNCHANGED <<outcomes, reported, tally>>
  /\ UNCHANGED <<statuses, starting, wave, lines, readers, threads, outputs,
                 exit_status, failed, fate>>

\* Every sender is gone, so the receiver ends and every thread is joined.
join ==
  /\ threads = {}
  /\ \/ pc = "collect" /\ channel = <<>> /\ pc' = "record"
     \/ pc = "abort" /\ pc' = "error"
  /\ UNCHANGED <<statuses, starting, run, results, reported, tally, fate>>

-----------------------------------------------------------------------------
\* record_outcomes: in declaration order, whatever order they arrived in.

\* Mutant: only an exit code sets the status of the workflow, a signal does not.
record_code_only(t) ==
  /\ pc = "record" /\ is_first(t, outcomes)
  /\ outcomes' = outcomes \ {t}
  /\ pc' = IF statuses[t] = "Running" THEN pc ELSE "error"
  /\ complete(t, fate[t] = 0)
  /\ outputs' = IF fate[t] # Error /\ \E u \in Tasks : t \in Reads[u]
                THEN outputs \cup {t} ELSE outputs
  /\ exit_status' = IF fate[t] >= 0 /\ exit_status = 0 THEN fate[t] ELSE exit_status
  /\ failed' = (failed \/ fate[t] = Error)
  /\ UNCHANGED <<starting, run, reported, tally, fate>>

\* Mutant: results are recorded in the order they are found in, not declared in.
record_any_order(t) ==
  /\ pc = "record" /\ t \in outcomes
  /\ outcomes' = outcomes \ {t}
  /\ pc' = IF statuses[t] = "Running" THEN pc ELSE "error"
  /\ complete(t, task_status(fate[t]) = 0)
  /\ outputs' = IF fate[t] # Error /\ \E u \in Tasks : t \in Reads[u]
                THEN outputs \cup {t} ELSE outputs
  /\ exit_status' = IF fate[t] # Error /\ exit_status = 0
                    THEN task_status(fate[t]) ELSE exit_status
  /\ failed' = (failed \/ fate[t] = Error)
  /\ UNCHANGED <<starting, run, reported, tally, fate>>

\* A result of a task that is not running is an error.
record(t) ==
  /\ pc = "record" /\ is_first(t, outcomes)
  /\ outcomes' = outcomes \ {t}
  /\ pc' = IF statuses[t] = "Running" THEN pc ELSE "error"
  /\ complete(t, task_status(fate[t]) = 0)
  /\ outputs' = IF fate[t] # Error /\ \E u \in Tasks : t \in Reads[u]
                THEN outputs \cup {t} ELSE outputs
  /\ exit_status' = IF fate[t] # Error /\ exit_status = 0
                    THEN task_status(fate[t]) ELSE exit_status
  /\ failed' = (failed \/ fate[t] = Error)
  /\ UNCHANGED <<starting, run, reported, tally, fate>>

recorded ==
  /\ pc = "record" /\ outcomes = {}
  /\ pc' = IF failed THEN "error" ELSE "loop"
  /\ UNCHANGED <<statuses, starting, run, results, reported, tally, fate>>

Done == pc \in {"done", "error"} /\ UNCHANGED vars

\* The caller's thread.
Caller ==
  \/ next_wave \/ spawn \/ receive \/ join \/ recorded
  \/ \E t \in Tasks : start_task(t) \/ block(t) \/ record(t)

\* The threads of a task.
Thread(t) == (\E s \in Streams : forward(t, s) \/ reader_ends(t, s)) \/ task_done(t)

Next == Caller \/ (\E t \in Tasks : Thread(t)) \/ Done

Spec == Init /\ [][Next]_vars

\* Threads are scheduled, and a program that runs ends at some point.
Fairness == WF_vars(Caller) /\ \A t \in Tasks : WF_vars(Thread(t))
FairSpec == Spec /\ Fairness

-----------------------------------------------------------------------------
\* Properties.

TypeOK ==
  /\ statuses \in [Tasks -> TaskStatus]
  /\ pc \in {"loop", "start", "block", "collect", "abort", "record", "done", "error"}
  /\ starting \subseteq Tasks /\ wave \subseteq Tasks /\ threads \subseteq Tasks
  /\ lines \in [Tasks -> [Streams -> Nat]]
  /\ readers \in [Tasks -> SUBSET Streams]
  /\ channel \in Seq([kind : {"line", "done"}, task : Tasks])
  /\ outcomes \subseteq Tasks /\ outputs \subseteq Tasks
  /\ exit_status \in Nat /\ failed \in BOOLEAN
  /\ reported \in [Tasks -> {"none", "running", "passed", "failed", "blocked"}]
  /\ tally \in [{"passed", "failed", "blocked"} -> Nat]
  /\ fate \in [Tasks -> Fates]

\* A task runs, or has run, only after every task it depends on succeeded.
AfterDependencies ==
  \A t \in Tasks : statuses[t] # "Pending" =>
    \A d \in Deps[t] : statuses[d] = "Succeeded"

\* A request is rendered only when every output it names is kept, so the error
\* "has no output yet" of render_request never happens.
OutputsKept ==
  pc = "start" => \A t \in wave \cup starting : Reads[t] \subseteq outputs

\* No line of a task is reported after the task's result: the reader threads
\* have ended when the result is sent.
LinesBeforeResult ==
  \A i \in DOMAIN channel : reported[channel[i].task] = "running"

\* A workflow that ends with status 0 ran every task, and each succeeded: the
\* tasks left behind by a failed dependency never count as success.
ZeroMeansAllPassed ==
  pc = "done" /\ exit_status = 0 => \A t \in Tasks : statuses[t] = "Succeeded"

\* No thread outlives run_workflow, also when reporting fails midway.
NoThreadLeft == pc \in {"done", "error", "loop"} => threads = {} /\ channel = <<>>

\* The tasks that succeed are settled by the workflow and the programs alone.
Succeeds[t \in Tasks] == fate[t] = 0 /\ \A d \in Deps[t] : Succeeds[d]
Runs(t) == \A d \in Deps[t] : Succeeds[d]
\* The wave a task is in when it runs.
Depth[t \in Tasks] ==
  IF Deps[t] = {} THEN 1
  ELSE 1 + CHOOSE n \in {Depth[d] : d \in Deps[t]} : \A d \in Deps[t] : Depth[d] <= n
FailedTasks == {t \in Tasks : Runs(t) /\ fate[t] # 0}
Earlier(t, u) == Depth[t] < Depth[u] \/ (Depth[t] = Depth[u] /\ t <= u)

\* Whatever order the threads finish in, a workflow that ends ends with the
\* same tasks run, with the status of its first failed task (first by wave,
\* then by declaration), and with a tally that accounts for every task once.
Deterministic ==
  pc = "done" =>
    /\ tally = [passed |-> Cardinality({t \in Tasks : Succeeds[t]}),
                failed |-> Cardinality(FailedTasks),
                blocked |-> Cardinality({t \in Tasks : ~Runs(t)})]
    /\ \A t \in Tasks : statuses[t] = IF Succeeds[t] THEN "Succeeded"
                                      ELSE IF Runs(t) THEN "Failed" ELSE "Pending"
    /\ IF FailedTasks = {} THEN exit_status = 0
       ELSE \E t \in FailedTasks :
              (\A u \in FailedTasks : Earlier(t, u)) /\ exit_status = task_status(fate[t])

\* Whoever follows the events sees what Execution promises, although they are
\* reported from a channel, and the statuses behind them recorded later.
Execution == INSTANCE Execution WITH events <- reported
ExecutionSpec == Execution!Spec

\* run_workflow returns.
Returns == <>(pc \in {"done", "error"})
=============================================================================
