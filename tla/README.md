# Verification of Beez

TLA+ models of [Beez](../src), their TLC runs and their TLAPS proofs. Beez runs
workflows of AI-harness and shell tasks from YAML manifests, once from the
command line or on schedules from a daemon, each task inside a sandbox.

Every module is translated from the Rust source. `PROJECT.json` maps each
definition to the lines it stands for, lists the hazards, and pairs every
checked property with a mutant: an operator next to the mapped definition, with
a comment that starts with "Mutant", that TLC must find the property violated by.

    cd tla
    tlc -workers 2 -config Daemon_runs.cfg MCDaemon    # one run
    tlapm DaemonProofs.tla                             # one proof module

## 1. Inventory

Paths are under `src/crates/`.

| Part | State | Operations | Talks to | Hard because |
|---|---|---|---|---|
| Daemon loop, `beez-daemon/src/daemon.rs` | jobs with `running`, `queued`, `next_fire`, `state`; count of runs; `stopping`, `exiting` | `open`, `serve` (rescan, fire_due, sleep, recv_timeout), `fire`, `start`, `finished`, `start_queued`, `hold`, `trigger`, `begin_stopping`, `signal` | run threads, listener thread and signal thread over one channel; `state.json`; the clock | events in any order, a crash between start and save, a clock that is set, a failed write, a queue that only some events look at |
| Watch list, `daemon.rs`, `job.rs`, `store.rs` | `manifests.json`, `state.json`, file times, jobs | `build`, `rescan`, `reload`, `reload_all`, `install`, `add`, `remove`, `prune_states` | files that anyone edits | a file changes between two looks at it; jobs are looked up by an ID that the file decides |
| One scheduled run, `run.rs` | none | `execute` | Runner, run log | its thread must always send `Finished` |
| Control socket, `control.rs`, `client.rs`, `start.rs`, `apply.rs` | socket file, lists on disk | `bind`, `listen`, `send`, `command`, `start` | loop, a second daemon | two daemons at once; a client that writes the files while a daemon starts; a silent client |
| Pruning, `prune.rs` | run directories | `prune` | run log | deletes by age and number while runs go on |
| Schedules, `beez-schedule` | none (pure) | `next_after`, cron normalisation, offsets, instants as text | plan | boundaries: the instant itself, fractions of a second, day-of-week |
| Manifest files, `beez-manifest` | none (pure) | load, resolve schedules and sandboxes | jobs | names that clash or are missing |
| Workflow, `beez-core` | none (pure) | `try_from`: IDs, dependencies, cycle search, output references | Runner | error order, one search over all roots |
| Execution, `beez-core` | `statuses` | `ready`, `start`, `complete` | Runner | a failed task blocks others |
| Runner, `beez-runner` | wave, threads, channel, outcomes, outputs | `run_workflow`, `run_requests_concurrently`, `record_outcomes` | one thread per task, callback of the caller | results in any order, a callback that fails, lines and results from different threads |
| Process runner, `beez-process` | two reader threads for each process | `run_streaming`, `relay` | Runner's channel | readers must end before the result |
| Run records, `beez-record` | run directory, task records, stream files, tally, `latest` link | `create`, `link_latest`, `output`, `outcome`, `finish` | Runner events, the sweep | names of runs that start together, a link in two steps, a write that fails half-way |
| Network proxy, `beez-sandbox/src/{server,proxy,stream}.rs`, `proxy/` | stop flag, connection count, reported targets, one thread per connection and direction | `spawn`, `claim`, `serve_http`, `serve_socks`, `permits`, `connect`, `pipe`, `drop` | sandboxed process, hosts | limit of connections, a stop that meets a blocked accept, half-closed tunnels, hosts with several addresses |
| Sandbox backends, `beez-sandbox` | mask directories and marker files | `resolve`, `bwrap_arguments`, `MaskPlan::hold`, `HeldMasks::drop`, `profile`, `restrict_execution` | other runs in the same directory, the file system | directories that runs build, share and remove; mounts that cover each other; links and scripts |
| Policy, `beez-policy` | none (pure) | domain, path, network and profile rules | sandbox | precedence of rules |
| Command line, `beez-cli` | grouped lines | parse, `Reporter::event` | all | lines of several tasks mix |

What makes each of the modelled parts correct:

* Daemon loop: the run limit and the overlap policy hold, no instant is fired
  twice, none is forgotten while the daemon is up, waiting fires start, a
  passed fire stays passed unless the schedule catches up, a stop ends.
* Watch list: jobs, list and times agree; edits arrive; runs, waiting fires and
  history live through edits; IDs mean one job.
* Workflow: exactly the well-formed definitions are accepted.
* Runner: tasks start after their dependencies, whatever the threads do; the
  outcome does not depend on their timing; no thread is left.
* Manifest and schedules: exactly the manifests the docs describe load; a cron
  expression fires as a crontab's; a task has the sandbox it was written with.
* Control socket: one daemon per root, reachable; what a client was told is on
  disk; every command is answered.
* Run records: `run.json` vouches for the whole run; `latest` stands; a sweep
  keeps the newest runs; the terminal shows every line once.
* Proxy: no host is reached that the policy does not allow; bytes arrive; slots
  are given back; a drop ends.
* Sandbox: what a run may write and execute is what its policy means, on both
  backends; masks stay while a run needs them, and go afterwards.

## 2. Modules

| Module | Models |
|---|---|
| `Daemon` | the daemon loop and `state.json`, with clock, crashes, failing writes, run threads and requests |
| `DaemonProofs` | its theorems |
| `Manifests` | the watch list, the jobs built from it and their history, with editors |
| `ManifestsProofs` | its theorems |
| `Endpoint` | the socket, processes that want to be the daemon, clients with and without one |
| `EndpointProofs` | its theorems |
| `Execution` | abstract: what the events of a workflow promise to whoever follows them |
| `Runner` | `run_workflow` and `WorkflowExecution`, with threads, channel and report; implements `Execution` |
| `RunnerProofs` | its theorems, the refinement among them |
| `RunLog` | run directories, `latest`, records and stream files, the terminal, the sweep |
| `RunLogProofs` | its theorems |
| `Workflow` | `Workflow::try_from`, the cycle search as a machine with an explicit stack |
| `Cron` | cron expressions and offsets, as operators |
| `Manifest` | `load` of a manifest, and then `try_from`; composes `Workflow`, `Cron` and `Policy` |
| `ManifestProofs` | the theorem about its validation, that is about `Workflow` |
| `Policy` | domain rules, merging of sections, group selection, as operators |
| `Proxy` | one server of the sandbox's network (HTTP, SOCKS5 or a forwarder); uses `Policy` |
| `ProxyProofs` | its theorems, and what the rules of `Policy` match |
| `Sandbox` | paths, mounts, masks and executables of a sandbox; uses `Policy` |
| `SandboxProofs` | its theorems: masks, mounts, what is left, what is written and executed |
| `MC*` | instances for TLC |

### Daemon

One thread runs the loop, so a handler is one action, split only where another
party can step in between or a crash makes a difference: at the head of the
loop, between two fires of a pass, between the start of a run and the save of
its fire (`fire`, `fire_saved`), at `recv_timeout`, and between two queued
starts. `pc` says where. `runs[r]` are the live run threads, `sent` those whose
`Finished` waits in the channel. `disk_fire` and `disk_paused` are `state.json`.
`left` is the timer of `recv_timeout`: it runs with time and not with the wall
clock, which `clock_set` moves freely.
Instants are ticks; `Second` ticks make a second, so an instant may have a
fraction, and 0 stands for `None`. `ran_to`, `repeats` and `opened` are history
variables, which no guard reads.

Abstracted: the manifests do not change (that is `Manifests`), a schedule is
the set of its instants, the payload of an outcome is left out, replies are
left out.

### Manifests

The same loop seen from the files. A file is what it resolves to (names of its
schedules, whether they changed, whether a task lost its sandbox) and its
modification time. `edit` may fall at every point in `EditPoints`, also between
`load` (the read) and `install` (the stat). A planned fire is `ahead`, `due`
(came while the job could run) or `missed` (came while it could not); the code
sees `due` and `missed` alike, and `LateOnlyMended` tells them apart. Runs use
`on_overlap: queue`, and RunIds has as many threads as the limit. Reads and
writes of `manifests.json` and `state.json` succeed here. `slipped` is a history
variable: the manifests of which an edit fell between the read and the stat.

### Execution and Runner

`Execution` knows only the last event reported of each task, and which order of
events makes sense: neither statuses nor waves. `Runner` has the statuses of
`WorkflowExecution` with its operations as the code has them (`start` and
`complete` refuse silently what does not fit), the caller's thread (`pc`), one
thread per task and one per stream, the channel, and the report; its `reported`
is what `Execution` calls `events`. `fate[t]` is how the program of t ends: an exit code, a signal, or
an execution error. The content of lines is left out, their number is not.
`Execution!Spec` is a PROPERTY of the run and a theorem.

### Workflow

`try_from` checks in a fixed order and stops at the first error; the model
keeps both. The recursion of `visit` is a stack (`trail`) and a loop position
(`next`) for each task on it. A text is the list of the task IDs it names, or
`Bad` where the template does not parse.

### Manifest and Cron

A document is what serde hands over: whether the file could be read and in
which format, its schedules, its sandbox table, its tasks. `load` goes through
the parts in the order of the code and stops at the first error; then the
states of `Workflow` follow. A part that may be missing is a sequence of at most
one element. A cron expression is a sequence of fields, a field a sequence of
terms; `normalize`, the shift of week days and the either-day rule are those of
`cron_schedule.rs`, and what the cron crate reads and admits, and the calendar,
are external definitions. Time is scaled: a day has `Hours` hours, the calendar
`Days` days in a month. `wrap` keeps the width of `offset.rs`'s arithmetic. The
sections of a sandbox table are abstracted to one shape (defaults, groups,
disable, allow). `FiresAsCrontab` compares `next_after` with an independent
definition of a crontab.

### Endpoint

Each client has a manifest and a job of its own name, so that what it was told
(`sure`) can be compared with the files. `bind` is four steps, because others
step in between: bind, ask whether anything answers, unlink, bind again. A
connection waits in the `backlog` of the process behind the socket, also before
that process accepts. `Offline` steps are those of a client that found no
daemon: it reads a file, changes its copy and writes it. Nothing in the code keeps
two from starting a daemon or acting without one at once, and nothing in the model
does; the history variable `together` says that it has happened.

### RunLog

A directory name is a start time and a process ID. `create`, the two steps of
`link_latest` and `open_tasks` are separate, because another run or a sweep may
come in between; so are the look of a sweep and each removal. A log is closed at
its first failed write. `shown` and `buffers` are the terminal of a person's run,
and `gone` says that a write to it failed, which ends the run. `finish` comes after
a run that ended and after one that broke off (`returned`), and its record says
what was last reported of each task; `exit_status` is absent then.

### Policy and Proxy

A host is a sequence of labels, so that wildcards and trailing dots mean
something; a rule's text is turned into a rule by `from_str` and used by
`matches`, while `OnlyAllowed` says what the text means in its own terms
(`Meant`). The accept loop, the owner and one handler for each connection are
processes; a tunnel has one copier for each direction. The fate of each address
of a host (local or not, up or not) is given; DNS, peers, and the programs in
the sandbox are external. A lookup may fail, and so may the duplication of a
stream, after the client was told that the tunnel stands. A write never blocks:
peers that stay read what they are sent.

### Sandbox

A path is a sequence of names, the file system a set of existing paths, links
and files. `resolve` turns the policy into paths; `bwrap_arguments` yields the
mounts in order, of which the last on the way to a path decides; `profile` the
rules of seatbelt, of which the last that matches decides. Both deciding rules
are external. A run resolves its policy (`prepare`), then, after its proxy and its
bridge were started, plans its masks (`plan_masks`), builds its arguments, creates
and marks directories step by step, runs, and gives back step by step. The last
mount is the directory of its own sockets under the temporary directory, `Tmp`,
which need not be `/tmp`. `raced` and `since` are history variables: the runs that
made their plan while another run was between two of these steps, and those that
made it since the last kill.

## 3. Runs

| Run | Shows | Bounds |
|---|---|---|
| `Daemon_runs` | run limit, overlap, no repeated fire, wake-up in time, waiting fires have a reason and are passed over by earlier jobs only, missed stays missed, a disk that never goes back | two jobs (parallel, queue with `catch_up`), two slots, 6 ticks, a clock that is set at any moment, crashes at every point but the one between start and save; one more run name than slots so that a breach could happen |
| `Daemon_live` | due fires are handled, a stop ends | two jobs (skip, queue), one slot, 6 ticks, failing saves, crashes |
| `Daemon_resume` | **violated**: a waiting fire starts | two one-time jobs, pause and resume |
| `Runner` | lines come before their result, zero means that all passed, the outcome and the tally do not depend on timing, the events are those of `Execution`, and that it returns | four tasks in two waves, at most one line per stream, four ways to end, a report that may fail at every event |
| `Manifests_edits` | late fires only where a sandbox was lost and regained, no overlap, waiting fires kept | two manifests, two edits in all (among four contents, one without its sandbox and one that does not load) at every point, two slots, crashes |
| `Manifests_remove` | list, times and jobs agree; history stays on disk and is forgotten by a remove only; edits are seen unless they slipped between load and stat | two manifests with a named schedule each, two edits in all that break and mend them, at every point, one slot, list also written by hand |
| `Manifests_rerun` | **violated**: no overlap | one manifest with a named schedule that breaks and is mended |
| `Manifest` | loaded = well-formed, accepted = well-formed, reported cycles are real, the search is in order, schedules fire as a crontab, sandboxes are as written | all graphs of four tasks with at most two dependencies each; lists of up to two tasks with clashing, unknown and malformed names; all forms of a task with all sandbox settings; week-day and month-day fields with numbers, names, ranges, steps and lists over 41 hours-of-two-a-day, with offsets |
| `Endpoint` | one daemon, reachable; answered edits stay; `start` names its child; commands are answered | two processes, two clients with two commands in all, starts at once, two kills, writes of `manifests.json` that fail |
| `RunLog` | records vouch, the link stands and is the newest, lines are shown, the newest runs are kept | one run of a person and one of the daemon among two old ones, two tasks, `Keep` = 1, writes to log and terminal that fail, tasks that cannot be run |
| `Proxy` | slots, allowed hosts only, workflow grants stay, bytes arrive, a stop is heard; a drop, every handler and every waiting client come to an end | two connections and one slot, one byte each way, five servers (three protocols, several policies), hosts with local, dead and good addresses, failing accept, wake, lookup, duplication and peers |
| `Sandbox` | writes and executions as meant, the same on both backends; masks stay, sources are there, nothing taken, nothing left | three runs of two processes, three policies, a missing mask of two directories or two of one each, kills before and after the plan, before the start and while a program runs |

Some of these properties are conjunctions of named parts, each commented where
it is defined: `ValidationSound`, `LoadsAsWritten`, `HistoryKept`,
`AnswersHold`, `NothingLost`, `LatestKept`, `ReachesAsGranted`,
`ConnectionsEnd`, `WritesHeld`, `MasksStay`, `HostRestored`. The type invariants
are in no cfg: most are theorems or part of an invariant that is proved, and TLC
checks any of them when `INVARIANT TypeOK` is added to a cfg. Six properties are
theorems and in no run: `QueuedFireKept`, `StoppingFiresNothing`,
`AfterDependencies`, `OutputsKept`, `NoThreadLeft`, `UniqueIds`.

The bounds are chosen so that two jobs meet at the limit, a fire waits behind
its own run and behind another one, a fire is passed while the process is down,
and the clock goes back over a fire. Two edits break a manifest and mend it, or
change two manifests at once. Two connections on one slot refuse one and reuse
it; three runs on one mask let one build it while another removes it and a third
was killed; ten days of two hours hold every week day and a turn of the month. Run threads,
and runs of one process in `Sandbox`, are interchangeable, so runs without
liveness properties use symmetry over them.

In `Endpoint` two commands are enough because daemons also come and go by
themselves; its two safety properties are theorems for any number of them.

Fairness. `Daemon`: the loop takes its enabled steps (it is a thread that never
blocks except in `recv_timeout`), time passes, a run ends, and its event is
taken in its turn. The last needs strong fairness because every other event
makes `recv_timeout` return too; the code's channel is first in, first out,
which is stronger. `Manifests`: the loop goes on. `Runner`: threads are
scheduled and programs end. A harness that hangs for ever is outside all three.
`Endpoint`: a process and a client at work go on; `Processes` bounds the model and
not the code, so `CommandAnswered` lets off a spawn that finds them all in use.
`Proxy`: the loop, the owner and the handlers are
threads that go on; the peers owe nothing, so `HandlerEnds` speaks of peers that
have shut down.

Deadlock is checked everywhere but in `Endpoint`, where all commands may have
been given while no daemon is up; a finished system stutters by a `Done` or
`Over` step.

## 4. Findings

Each is a violated run; `PROJECT.json` quotes the line it disagrees with.

1. `Daemon_resume`: `hold` does not call `start_queued`. A fire that waited
   while its job was paused stays waiting after `resume` until some other run
   ends.
2. `Manifests_rerun`: a manifest that does not load has one job named after the
   file. With named schedules, its jobs' `running` and `queued` flags are lost
   over a mistake and its repair, and a second run starts beside the first.

Seen with the same modules and other constants, and not kept as runs:

* Daemon
  * `action_for` asks for a free slot first, so at the limit a fire of a `skip`
    job that meets its own run is queued (`docs/schedules.md` says it is dropped).
  * A crash in `save` (add `"save"` to CrashPoints) fires the instant again.
  * `format_instant` drops the fraction of a second, so a one-time job with
    `catch_up` at a fractional instant runs again after a restart (Sched = {5}
    with Second = 2).
  * A fire that waits is kept in memory only (`job.rs:27`): a crash loses it.
  * `start_queued` takes the first waiting job of the list, so a late position
    can wait for ever behind busy ones (`daemon.rs:629`). `QueuedFireStarts` would
    hold in `Daemon_live` only because schedules end there, so it is not checked;
    `NotOvertaken` says what is true, that none but earlier jobs pass.
  * `trigger` does not look at `stopping`: a run-now request that comes after a
    stop starts a run (`StoppingFiresNothing` says that nothing else does).
  * With `"resume"` among the requests of `Daemon_runs`, `WaitingHasReason`
    fails (finding 1), and with the clock set back `MissedStaysMissed` too.
* Manifests
  * `install` stats a file after it was read, so a write in between counts as
    read, and the daemon goes on with the older content until the next edit or
    reload (`EditSeen` fails without its excuse, `slipped`). `build` does it in the
    safe order.
  * A job that could not run keeps its `next_fire`, and `install` carries it over
    when the job is mended, so a job that loses its sandbox and gets it back fires
    for a passed instant without `catch_up` (`daemon.rs:430`), although `plan` says
    that a passed fire runs late only when the schedule asks for it.
    `LateOnlyMended` says that there is no other way.
  * `reload` does not call `admit`, so edits can give two jobs one ID, and
    `UniqueIds` fails (Stem <- OneStem, EditPoints with `"wait"`). With edits
    only while the daemon is down it holds.
  * `remove` prunes every state without a job at that moment, those of another
    manifest that is broken included, if its schedules have names, although the
    comment at `daemon.rs:448` says that its history must survive the mistake.
    `ForgottenOnRemove` says that there is no other way to lose it.
  * A manifest that is removed and added again while its job runs starts with
    its `running` flag clear (`"remove"` and `"add"` with `NoOverlap`).
* Endpoint
  * Two daemons that start together both serve (`daemon.rs:84` says the socket
    keeps a second one out) and the exit of one removes the socket of the other;
    `start` names a process that is not the one that answers, and a client without
    a daemon loses or undoes what another one was told. `Reachable` and
    `AnswersHold` fail without their condition, `~together`.
  * A `state.json` that cannot be written (FailingFiles with `"state"`) leaves a
    pause answered and not on disk: `save_state` only reports the error.
  * `unwatch` changes the list in memory before it writes the file
    (`apply.rs:38`), so a `remove` that failed is taken up by the next write of
    the list. A job that is paused after the failed `remove` of its manifest was
    answered is forgotten by a later `remove` of another one; `AnsweredIsKept`
    asks for the pause only as long as the manifest is listed.
  * A client that connects and writes nothing (Silent = {c1}) holds the
    listener, and nobody else is answered.
* RunLog
  * Two runs that one daemon starts in one millisecond share a directory
    (`OwnDirectory` with SameTick = TRUE); the comment at `log.rs:315` rules that
    out.
  * Two runs that start at once may leave `latest` at the older one, or at a
    directory that a sweep has removed; `LatestIsNewest` excepts them
    (`started_alone`). A sweep may remove the directory of a run that goes on.
* Cron
  * Week-day ranges to 7: `0-7` is shifted to `1-1`, Sundays only, and `5-7` to
    `6-1`, which the parser refuses, although 7 is a Sunday
    (`docs/schedules.md:70`).
  * The hours of an offset are multiplied in an `i32` before they are bounded, and
    the release profile does not check for overflow: an hour count above the
    width can wrap to an offset that passes (hours of `Word` or more).
* Proxy and Sandbox
  * A peer that stays and never reads blocks its copier, so the tunnel keeps its
    slot; a wake that meets a full backlog blocks the drop. Neither is modelled.
  * The comment at `proxy.rs:147` says that `PermissionDenied` means that every
    address was refused. It means that the last one was.
  * A process killed between the creation of a mask directory and its marker
    leaves a directory that nobody removes (CrashPoints with `"create"`).
  * Two denied paths that are missing under one missing directory (`d/p` and
    `d/q`) are two masks, and a run clears the markers of dead processes in the
    directories of a mask when it comes to that mask. If a process is killed while
    another run is between the two, a third run finds `d` in place and without a
    marker, takes it for the user's own, and `d` is left for ever (`NothingLeft`
    fails with such a policy; the policies of the run have no such pair).
  * A missing directory of a mask is also a path that must not be read (`d` for
    reading, `d/p` for writing): the first run finds no `d` and hides nothing, the
    second one finds the mask of the first and hides it, so what the two may write
    differs (`WritesAsMeant` fails with such a policy; `HidesApart` rules it out).
  * A run that plans while another one removes masks may bind a directory that
    is gone, or leave a parent unbound; `raced` excepts it.
  * An interpreter that is itself a script is not on the list of executables
    (`shebang_interpreters` follows one level). Nor is the interpreter of a script
    in a directory that a policy lists: `resolve_executables` looks only at files
    that are on the list, so such a script starts only if its interpreter is named
    as well (`docs/sandbox.md:90` has it that what a listed directory holds may
    run). `ExecutesAsMeant` says so.
  * The directory of a run's sockets is bound for writing after everything that
    is denied and hidden, so a policy that denies or hides it is not heeded
    (`bubblewrap.rs:327`). A killed run leaves that directory behind, and nobody
    removes it.
  * Paths that must not be read but lie inside writable ones differ between
    backends; `SameOnBoth` speaks of the others.

## 5. Proofs

TLAPS checks every theorem to the last leaf, for every number of jobs, tasks,
runs, every schedule, every limit and every bound; from the named ASSUMEs on
the constants only, plus what a theorem's own ASSUME says.

`DaemonProofs`. None of the properties is inductive. Seven invariants carry them:

* `CountInv`: `running` is the number of live run threads, at most `Limit`.
  With it, the guard of each of the three places that start a run is enough
  (`RunLimitHolds`).
* `OverlapInv`: a job of a non-parallel schedule with a live run has its
  `running` flag set, and no two runs. The flag is what the code reads; the runs
  are what the property is about (`NoOverlapHolds`).
* `ControlInv`: what the point in the loop says of `due` and `current`.
* `FireInv`: the fire planned lies after the last one, and the last one in
  memory is not before the one on disk. It gives `DiskNeverGoesBackHolds`, also
  with failing writes and clock changes.
* `RepeatInv`: what ran is covered by the last fire in memory, and by the one on
  disk except between start and save. With whole seconds and saves that hold it
  gives `NoRepeatedFireHolds`, over crashes, restarts and any clock.
* `WakeInv`: every job handled in this pass is planned after `now`, and the timer
  is set to the earliest of them (`WakesInTimeHolds`).
* `MissedInv`: without clock changes the planned fire of a job without
  `catch_up` lies after the process came up (`MissedStaysMissedHolds`).

`WaitingHasReasonHolds` assumes that no resume request arrives, which finding 1
shows to be needed; `NotOvertakenHolds` follows from it: where a run starts outside
`start_queued` no fire waits that could start, and inside it the first one is
taken. `QueuedFireKeptHolds` and `StoppingFiresNothingHolds` are action properties
that follow step by step.

`RunnerProofs`. `ImplementsExecution` shows that each step of the runner is a
step of `Execution` or reports nothing new of any task. The two keep different
books, events there and statuses here, so it takes invariants that tie them: what
was reported of a task agrees with its status, with its thread and with the message
that waits for it (`ReportInv`), no task is lost between the waves (`StatusInv`), and when tasks are reported as blocked nothing runs
and nothing is ready any more (`BlockInv`). `AfterDependenciesHolds`
follows from the statuses. `OutputsKeptHolds` uses `OutputsInv`: the output of
every succeeded task that somebody reads is kept. `NoThreadLeftHolds` uses
`ThreadsInv`: threads and messages exist only while the caller collects.
`ZeroMeansAllPassedHolds` uses `StatusInv` and the lemma that in an acyclic
workflow with a pending task and nothing ready some task failed.
`LinesBeforeResultHolds` uses `OrderInv`: the messages of a task in the channel
end with its result, and no message follows it.

`DeterministicHolds` compares what is left at the end with a reference that knows
no threads: which tasks run, which succeed, the exit status and the tally as
functions of the graph and of how each program ends. The reference is recursive
over the graph, so it means something only because the graph is acyclic: `DepthIs`
and `SucceedsIs` show, by well-founded recursion on the number of tasks that a task
depends on (`RankingExists`), that the recursions have a solution and one only. Two
invariants then carry the run. `ReportInv`: the tally and the reports are those of
the tasks that have ended and were blocked so far. `WavesInv`: after w waves exactly
those tasks have run, or run now, that can run and are at most w deep (`Level`), and
the exit status is that of the first task that failed, by depth and then by the
order of the list (`FirstFailed`). The order of the results inside a wave appears in
neither, which is the point.

`ManifestProofs`. `ValidationIsRight` shows that `try_from` accepts exactly the
definitions that make a workflow, for every document. `DuplicatesAnswer`,
`DependenciesAnswer` and `ReferencesAnswer` say what each list of errors means when
it is empty. The search is carried by `Search`: the trail is a path of the graph
(`Stack`), it holds the tasks in `Visiting` and no other, the dependencies already
passed are complete (`Passed`), a complete task has only complete dependencies
(`Completed`), no root is skipped (`Roots`), and the complete tasks are acyclic, which
is stated without a transitive closure: each group of them has one that depends on
none of the group (`Acyclic`). When the search ends without an error every task is
complete; when it meets a task on the trail, `ClosedWalk` shows that the rest of the
trail is a walk back to it, so that no order of the tasks exists.

`ManifestsProofs`. `TypeInv` and `Follows` give `JobsFollow` with no hypothesis: between
two reads the list, the times and the jobs are of the same manifests, and while
`reload_all` works they are so together with what it has still to do. The others
say for which files they hold, and section 4 shows what happens for the rest:

* `JobsAreOwn`: file names that differ, and schedules of one file that do
  (`StemsApart`, `NamesApart`). `Own` is inductive then: IDs are unique, and what a
  job knows is in `state.json` under its ID.
* `FiresWait` needs no more: a waiting fire is carried over or started.
* `LateFires` needs no more either: a `missed` fire is due only where `carried`
  took it from a job of the same ID and schedule that could not run.
* Nor does `HistoryStays`: every other step than `remove` writes what it read.
* `OneRunEach` adds that schedules have no names and that nothing is removed: finding
  2 is about named schedules, and a manifest removed and added again is in section 4. `RunsHeld` says that every run is one of a job
  that is held and has its flag set.

`EndpointProofs`. Both theorems hold until two have acted at once (`together`), and
section 4 shows that they end there. `AloneInv` says what being alone means at each point of
a start, `SocketInv` what each point of `bind` says of the socket file:
behind it is exactly the process that serves or is about to unlink it, nobody
answers while a dead one is unlinked, and it is free before the second bind.
`AnswersHoldHolds` assumes that `state.json` can be written (section 4
again); writes of the list may fail. A daemon's copy of the list may then differ
from the file, so `AnsweredIsKept` is not inductive: `Agrees` says that the
copies differ about nothing a client was told, `CommandInv` that a client
changes what its command says, and that a client that edits a file itself has
read what is on disk.

`ProxyProofs`. `BaseInv` is the type invariant and `QueueInv`: a connection is in
one place only, in the backlog, in the hands of the accept loop or with a
handler. With it `SlotsCounted` is inductive, for any number of connections and
any `MAX_CONNECTIONS`. `StopInv` adds that the loop claims no slot for a
connection made after the flag was set; `BytesInv` that a direction is done only
when its writer has shut down and everything was handed over, or a peer is
gone. `ReachesAsGrantedHolds` compares what the handlers do with what the texts
of a policy mean: `RulesInv` carries the decision of `permits` to the connection,
and lemmas about `from_str`, `matches`, `merge` and `allowed_domains` show that a
rule matches a host and a port just when the text it was made from means them.

`RunLogProofs`. `NothingLostHolds` rests on `RecordInv`: names are times that have
been and process IDs (`NameInv`), so directories differ; while its log is open the
files and the record of a run are what its events said (`OpenInv`), and
`run.json` is its last write (`JsonInv`), also for a run that broke off. `Apart` is assumed: the daemon starts
no two runs in one millisecond, or has only one (section 4 shows what happens
otherwise; the code's comment assumes the same). `ShownInv` says what each layout
holds back. `NewestKeptHolds` uses `SweepInv`, each run on a sweep's list has `Keep`
newer ones that are not on it, and a lemma that counts them
(`KeptAreEnough`). `LatestKeptHolds` needs no `Apart`: `TimeInv` says that nothing
lies in the future and that a swept run has a newer one, `AloneInv` that the run
that starts is the newest as long as runs start one by one.

`SandboxProofs`. Four groups of theorems, each on top of the one before, and a
fifth that stands alone:

* Masks. `MaskInv`: a marker keeps its directory, and a run has its marker in
  every directory it holds and in those it has passed in the mask it is marking
  (`HeldInv`), so a removal, which takes only empty directories, takes none that is
  held; `AliveInv` is needed where a run clears markers of dead processes. What
  runs plan, mark and hold was not there at first (`OwnInv`), because a plan takes
  only directories that are missing or marked. That a plan consists of paths needs
  lemmas about `follow`, `canonicalize_lenient` and `sorted`. `HeldMasksStayHolds` and
  `NothingTakenHolds` follow, with no hypothesis and also beside runs that `raced`.
* What is left. `LeftInv`: every directory that was not there at first is kept by a
  living run or abandoned with the marker of a dead process, and where a directory
  is abandoned so is its parent, up to one that was there. A living run plans whole
  masks (`WholeMask`), because alone at its plan it sees every directory of a mask
  marked (`AllMarked`), and lists them closed under parents, so its removals, which
  go from the deepest up, end at what was there. `SinceInv` says that, once a
  run planned after the last kill, every marker a dead process left lies in a mask
  that this run has still to mark, and marking clears it, so that what the dead left
  goes with that run's own masks (`HostRestoredHolds`).
* What is bound. `SourcesInv`: all runs have the same masks to build, because masks
  bring no other masks (`MaskedStays`) and where a denied path leads does not
  depend on them (`LenientIsFollow`); whatever a run binds was there at first or is
  part of its own masks (`MasksStayHolds`).
* What is written. The last mount decides, which `ModeIs` and `ProfileIs` turn into
  sets of paths; a denied path that is missing and on the way to something
  writable has a mask (`DeniedMasked`); masks do not change what may be written
  (`MayWriteStays`); the directory of the sockets comes last and adds itself. `WritesInv` carries that to the run, and `WritableIs` says that
  the sections merged, which the code computes with, come to what each of them
  means (`WritesHeldHolds`).
* What is executed. `ExecuteInv` ties a run to a program that its policy named;
  `FoundIsCalled` says that a name is looked up as the shell would,
  `ListedAre` what two sections list together, and `ExecutablesMean` compares the
  list with what starts, in both directions (`ExecutesAsMeantHolds`). Masks and
  other runs do not matter to it.

`NothingLeft` speaks of behaviours in which no run raced, and `MasksStayHolds` and
`WritesHeldHolds` hold as long as none has (`raced = {}`). The hypotheses are
definitions of the module: with a path its parents exist (`TreesClosed`); links are
not reached through links, and those on the way to denied paths do not dangle;
kills do not fall between the steps that build and remove; masks share no missing
directory if there are kills at all; the temporary directory exists and lists are
finite; no path hidden from reading is a missing directory of a mask; interpreters
and loaders exist. TLC finds them true in the
run's instance, and section 4 has what happens without them.

The assumptions on constants are what makes them values of the program: finite
sets of jobs, connections and old runs, counts that are naturals, paths that are
sequences of names, hosts that are sequences of labels, a network section with
the fields it has in the code, process IDs that differ, old runs older than any
run of the model, task lists whose parts have the shape serde gives them
(`KindsAssumption`), policy sections with the fields they have in the code
(`SectionsAssumption`), files that have nothing in them (`FilesAssumption`). TLC evaluates all of them in the runs.

Only model-checked:

* liveness: `DueFireHandled`, `StopEnds`, `Returns`, `EditSeen`,
  `CommandAnswered`, `DropEnds`, `ConnectionsEnd`;
* `FiresAsCrontab` and `LoadsAsWritten` (of `Manifest`): they hold of expressions
  without a week-day range to 7 and of offsets inside the width (section 4), and
  expressions, terms and tables are folds over sequences, whose value for every
  input would take an induction over data;
* `SourcesThere` and `WritesHeld` for a run that did not race beside one that did:
  the theorems end where the first run races, since a run that raced may have
  planned or built part of a mask only, and what later runs find depends on it.

## 6. Not modelled

* Command-line parsing, terminal text, colours, the command lines of harnesses,
  the text of seatbelt profiles and of bubblewrap's arguments, the layout of the
  record files, YAML and JSON: text.
* The tables of host and executable groups and of harness profiles: data.
* The sockets of the bridge, and the relay inside the sandbox (`init.rs` up to the
  execution limits): one-time set-up that `Proxy` has as given. `Sandbox` has the
  bridge's directory.
* The shims on macOS, `diagnostic.rs`: platform glue.
* The second read of a manifest at the start of a scheduled run (`run.rs:45`):
  the content of a manifest is not followed from the watch list into the run.
* A run thread that panics never sends `Finished` and keeps its slot for ever
  (`daemon.rs:578`); a harness that hangs does the same.
* Dangling links in denied paths, and interpreters of interpreters.
* `beez-test-support`: only the tests use it.

## 7. Plan

The models are done up to what section 6 lists, and the safety properties of every
module but `Manifest` are theorems. Left:

1. `Sandbox`: `SourcesThere` and `WritesHeld` run by run, beside runs that raced.
2. `Manifest`: that `LoadsAsWritten` holds part by part, for lists of one schedule.
3. The content of a manifest followed from the watch list into the run
   (`run.rs:45`).
