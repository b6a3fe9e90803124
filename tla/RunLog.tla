------------------------------- MODULE RunLog -------------------------------
(***************************************************************************)
(* What a run leaves behind (crates/beez-record), and who cleans up after  *)
(* it (crates/beez-daemon/src/prune.rs). Runs that a person starts and     *)
(* runs of the daemon may share a Beez root: each makes a directory named  *)
(* after the time and the process, puts up the `latest` link, writes what  *)
(* its events say and ends with run.json, while the daemon removes old     *)
(* directories after every run of its own.                                 *)
(*                                                                         *)
(* The order of the events of one run is Runner's; here any order that     *)
(* starts a task before it ends will do, until the run ends or breaks off: *)
(* when a task could not be run, its wave is the last one. A run of a      *)
(* person also shows its events on a terminal (crates/beez-cli/src/        *)
(* report.rs), and breaks off at the event that the terminal refuses.      *)
(*                                                                         *)
(* A definition whose comment starts with "Mutant" is no part of the       *)
(* model: it is a mistake the definition after it could have, and shows    *)
(* that a property would notice.                                           *)
(***************************************************************************)
EXTENDS Integers, FiniteSets, FiniteSetsExt, Functions

CONSTANTS
  Runs,            \* the runs
  Daemon,          \* runs that are threads of the daemon
  Pid,             \* Pid[r]: the process of r; one for all runs of the daemon
  TaskCount,       \* TaskCount[r]: how many tasks r has
  Grouped,         \* whether runs of several tasks group their output
  Keep,            \* --keep-runs
  Old,             \* what lies in the runs directory at first
  MaxClock,        \* bound: the clock, in milliseconds
  MaxLines,        \* bound, MaxLines[r]: lines a task of r writes
  Fates,           \* Fates[r]: how a task of r may end
  SameTick,        \* whether runs of one process may start in one millisecond
  MayFail          \* runs whose files and terminal cannot always be written

\* A directory entry is a start time and a process. The names sort by time,
\* and then by the process as text; only equal times leave the order open.
NoName == <<0, 0>>
Foreign == <<0, 1>>          \* an entry that is no run
is_run_name(n) == n[2] > 1
before(m, n) == m[1] < n[1] \/ (m[1] = n[1] /\ m[2] < n[2])

Tasks(r) == 1..TaskCount[r]
Ends == {"ok", "bad", "error", "blocked"}

ASSUME RunLogAssumption ==
  /\ Daemon \subseteq Runs /\ Pid \in [Runs -> Nat \ {0, 1}]
  /\ \A r, q \in Runs : Pid[r] = Pid[q] <=> r = q \/ {r, q} \subseteq Daemon
  /\ TaskCount \in [Runs -> Nat] /\ Keep \in Nat
  /\ Old \subseteq Nat \X Nat /\ IsFiniteSet(Old) /\ \A n \in Old : n[1] < 2
  /\ MaxClock \in Nat \ {0, 1} /\ MaxLines \in [Runs -> Nat] /\ Fates \in [Runs -> SUBSET Ends]
  /\ Grouped \in BOOLEAN /\ SameTick \in BOOLEAN /\ MayFail \subseteq Runs

VARIABLES
  clock,
  pc,         \* where each run stands
  name,       \* the directory of each run
  dirs,       \* entries of the runs directory
  latest,     \* target of the `latest` link
  log,        \* OpenLog of each run
  seen,       \* seen[r][t]: the last event of the task, but lines
  lines,      \* lines[r][t]: lines the task has written
  record,     \* record[r][t]: TaskRecord.state
  files,      \* files[r][t]: lines of the task that are in its stream files
  json,       \* json[r]: the tasks in run.json that r wrote, or None
  tally,      \* RunTally of each run
  buffers,    \* buffers[r][t]: lines a grouped terminal holds back
  shown,      \* shown[r][t]: lines on the terminal
  gone,       \* gone[r]: the terminal refused an event of r
  victims,    \* directories the sweep has still to remove
  started_alone \* history: no two runs were between their ID and their link,
                \* or started in one millisecond

paths == <<name, dirs, latest, started_alone>>
progress == <<seen, lines, tally, buffers, shown, gone>>
artifacts == <<log, record, files, json>>
vars == <<clock, pc, paths, progress, artifacts, victims>>

\* No run.json. One that is there has an exit status, or lacks it.
None == [tasks |-> [t \in {} |-> "pending"], status |-> "none"]
each(r, v) == [t \in Tasks(r) |-> v]

Init ==
  /\ clock = 2
  /\ pc = [r \in Runs |-> "off"]
  /\ name = [r \in Runs |-> NoName]
  /\ dirs = Old /\ latest = NoName /\ started_alone = TRUE
  /\ log = [r \in Runs |-> "none"]
  /\ seen = [r \in Runs |-> each(r, "pending")]
  /\ record = seen
  /\ lines = [r \in Runs |-> each(r, 0)]
  /\ files = lines /\ buffers = lines /\ shown = lines /\ gone = [r \in Runs |-> FALSE]
  /\ json = [r \in Runs |-> None]
  /\ tally = [r \in Runs |-> [passed |-> 0, failed |-> 0, blocked |-> 0]]
  /\ victims = {}

goto(r, step) == pc' = [pc EXCEPT ![r] = step]
may_fail(r, ok) == ok \/ r \in MayFail

tick ==
  /\ clock < MaxClock /\ clock' = clock + 1
  /\ UNCHANGED <<pc, paths, progress, artifacts, victims>>

-----------------------------------------------------------------------------
\* RunLog::create, step by step: other runs and the sweep come in between.

run_id(r) == <<clock, Pid[r]>>

linking == {r \in Runs : pc[r] = "link_latest"}
starting == {r \in Runs : pc[r] = "unlink_latest"} \cup linking

\* OpenLog::open: without its directory the run goes on, and has no log.
create(r) ==
  /\ pc[r] = "off"
  /\ SameTick \/ \A q \in Runs \ {r} : name[q] # run_id(r)
  /\ \/ /\ name' = [name EXCEPT ![r] = run_id(r)]
        /\ dirs' = dirs \cup {run_id(r)}
        /\ started_alone' = (started_alone /\ starting = {} /\ \A n \in dirs : n[1] # clock)
        /\ goto(r, "unlink_latest")
     \/ /\ r \in MayFail /\ goto(r, "run") /\ UNCHANGED <<name, dirs, started_alone>>
  /\ UNCHANGED <<clock, latest, progress, artifacts, victims>>

unlink_latest(r) ==
  /\ pc[r] = "unlink_latest"
  /\ latest' = NoName
  /\ goto(r, "link_latest")
  /\ UNCHANGED <<clock, name, dirs, started_alone, progress, artifacts, victims>>

\* Mutant: the link goes to the run before.
link_latest_old(r) ==
  /\ pc[r] = "link_latest"
  /\ latest' = IF latest = NoName
               THEN CHOOSE n \in dirs : is_run_name(n) /\ \A m \in dirs : is_run_name(m) => ~before(m, n)
               ELSE latest
  /\ goto(r, "open_tasks")
  /\ UNCHANGED <<clock, name, dirs, started_alone, progress, artifacts, victims>>

\* symlink fails where there is a link again, and nobody looks at the failure.
link_latest(r) ==
  /\ pc[r] = "link_latest"
  /\ latest' = IF latest = NoName THEN name[r] ELSE latest
  /\ goto(r, "open_tasks")
  /\ UNCHANGED <<clock, name, dirs, started_alone, progress, artifacts, victims>>

\* The files are created, which empties those of a run of the same name. It
\* fails when the directory has been swept away meanwhile.
open_tasks(r) ==
  /\ pc[r] = "open_tasks"
  /\ \E ok \in BOOLEAN :
       /\ may_fail(r, ok) \/ name[r] \notin dirs
       /\ ok => name[r] \in dirs
       /\ log' = [log EXCEPT ![r] = IF ok THEN "open" ELSE "none"]
       /\ files' = [q \in Runs |->
            IF ok /\ q # r /\ name[q] = name[r] THEN each(q, 0) ELSE files[q]]
  /\ goto(r, "run")
  /\ UNCHANGED <<clock, paths, progress, record, json, victims>>

-----------------------------------------------------------------------------
\* The terminal of a run that a person started (Reporter).

layout(r) ==
  IF r \in Daemon THEN "none"
  ELSE IF TaskCount[r] < 2 THEN "plain"
  ELSE IF Grouped THEN "grouped" ELSE "stream"

\* Whether an event makes the terminal write something at once.
writes(r, event) ==
  \/ layout(r) = "plain" /\ event \in {"ok", "bad"}
  \/ layout(r) = "grouped" /\ event # "line"
  \/ layout(r) = "stream" /\ event # "started"

\* A write that fails is the event's, and the run's.
terminal(r, event, ok) ==
  /\ ok \/ (r \in MayFail /\ writes(r, event))
  /\ gone' = IF ok THEN gone ELSE [gone EXCEPT ![r] = TRUE]

show_line(r, t) ==
  /\ \E ok \in BOOLEAN :
       /\ terminal(r, "line", ok)
       /\ shown' = IF ok /\ layout(r) = "stream" THEN [shown EXCEPT ![r][t] = @ + 1] ELSE shown
  /\ buffers' = IF layout(r) = "grouped" THEN [buffers EXCEPT ![r][t] = @ + 1] ELSE buffers

\* A finished task, passed or not, brings its lines: the captured streams of a
\* single task, or the block of a grouped one, before its status line.
show(r, t, event) ==
  /\ \E ok, brought \in BOOLEAN :
       /\ terminal(r, event, ok) /\ (ok => brought)
       /\ shown' = IF brought /\ layout(r) \in {"plain", "grouped"} /\ event \in {"ok", "bad"}
                   THEN [shown EXCEPT ![r][t] = IF layout(r) = "plain" THEN lines[r][t] ELSE buffers[r][t]]
                   ELSE shown
  /\ UNCHANGED buffers

-----------------------------------------------------------------------------
\* Events. Every event goes to the log first, then to the tally and the
\* terminal. A failed write closes the log for good.

\* TaskOutcome::state of an event (a task without one is pending), and below
\* what RunTally makes of it.
state(event) ==
  IF event \in {"pending", "blocked"} THEN event
  ELSE IF event = "started" THEN "running" ELSE IF event = "ok" THEN "finished" ELSE "failed"

count(event) ==
  IF event = "started" THEN "none" ELSE IF event = "ok" THEN "passed"
  ELSE IF event \in {"bad", "error"} THEN "failed" ELSE "blocked"

\* A task could not be run at all.
unrunnable(r) == \E t \in Tasks(r) : seen[r][t] = "error"

\* run_workflow or run_request_in has returned: all tasks have ended, or the wave
\* with one that could not be run, or the callback failed.
returned(r) ==
  \/ gone[r]
  \/ \A t \in Tasks(r) : seen[r][t] \in Ends \/ (unrunnable(r) /\ seen[r][t] = "pending")

\* Mutant: a failed write is reported, and the log stays open.
write_on(r, ok) == may_fail(r, ok) /\ UNCHANGED log

\* OpenLog::write
write(r, ok) ==
  /\ may_fail(r, ok)
  /\ log' = IF ok THEN log ELSE [log EXCEPT ![r] = "closed"]

\* A line reaches its stream file, whether the directory is still there or not.
output(r, t) ==
  /\ pc[r] = "run" /\ ~gone[r]
  /\ seen[r][t] = "started" /\ lines[r][t] < MaxLines[r]
  /\ lines' = [lines EXCEPT ![r][t] = @ + 1]
  /\ \/ /\ log[r] = "open"
        /\ \E ok \in BOOLEAN :
             /\ write(r, ok)
             /\ files' = IF ok THEN [files EXCEPT ![r][t] = @ + 1] ELSE files
     \/ log[r] # "open" /\ UNCHANGED <<log, files>>
  /\ show_line(r, t)
  /\ UNCHANGED <<clock, pc, paths, seen, tally, record, json, victims>>

\* An event that is no line: the record is changed, then the line is written.
outcome(r, t, event) ==
  /\ pc[r] = "run" /\ ~gone[r]
  /\ \/ seen[r][t] = "pending" /\ event \in {"started", "blocked"} /\ ~unrunnable(r)
     \/ seen[r][t] = "started" /\ event \in {"ok", "bad", "error"}
  /\ event \in Fates[r] \cup {"started"}
  /\ seen' = [seen EXCEPT ![r][t] = event]
  /\ \/ /\ log[r] = "open"
        /\ record' = [record EXCEPT ![r][t] = state(event)]
        /\ \E ok \in BOOLEAN : write(r, ok)
     \/ log[r] # "open" /\ UNCHANGED <<log, record>>
  /\ tally' = IF count(event) \in DOMAIN tally[r]
              THEN [tally EXCEPT ![r][count(event)] = @ + 1] ELSE tally
  /\ show(r, t, event)
  /\ UNCHANGED <<clock, pc, paths, lines, files, json, victims>>

\* What run.json says of the exit status: there is none after an error.
exit_status(r) == IF gone[r] \/ unrunnable(r) THEN "absent" ELSE "given"

\* finish: the summary, then run.json in the directory, if that is there,
\* whether all tasks have ended or not. A later run of the same name writes
\* over it. (Whether the terminal takes the summary as well changes nothing.)
finish(r) ==
  /\ pc[r] = "run" /\ returned(r)
  /\ \/ /\ log[r] = "open"
        /\ \E ok \in BOOLEAN :
             /\ ok => name[r] \in dirs
             /\ name[r] \in dirs => may_fail(r, ok)
             /\ log' = [log EXCEPT ![r] = IF ok THEN "open" ELSE "closed"]
             /\ json' = IF ok THEN [q \in Runs |->
                                      IF q = r
                                      THEN [tasks |-> record[r], status |-> exit_status(r)]
                                      ELSE IF name[q] = name[r] THEN None ELSE json[q]]
                        ELSE json
     \/ log[r] # "open" /\ UNCHANGED <<log, json>>
  /\ goto(r, IF r \in Daemon THEN "ended" ELSE "over")
  /\ UNCHANGED <<clock, paths, progress, record, files, victims>>

-----------------------------------------------------------------------------
\* The daemon's loop takes the end of one of its runs, and sweeps. It also
\* sweeps when it starts, before any run of its own.

run_names == {n \in dirs : is_run_name(n)}
newer(n, S) == {m \in S : before(n, m)}

\* Mutant: one run fewer is kept.
prune_one_more == IF Keep = 0 THEN {} ELSE {n \in run_names : Cardinality(newer(n, run_names)) >= Keep - 1}

\* What prune chooses: all but the newest Keep. Zero keeps every run.
prune == IF Keep = 0 THEN {} ELSE {n \in run_names : Cardinality(newer(n, run_names)) >= Keep}

sweep_at_start ==
  /\ clock = 2 /\ \A r \in Daemon : pc[r] = "off"
  /\ victims = {} /\ prune # {}
  /\ victims' = prune
  /\ UNCHANGED <<clock, pc, paths, progress, artifacts>>

finished(r) ==
  /\ pc[r] = "ended" /\ victims = {}
  /\ victims' = prune
  /\ goto(r, "over")
  /\ UNCHANGED <<clock, paths, progress, artifacts>>

\* One directory after the other; one that cannot be removed is left alone.
remove_dir(n) ==
  /\ n \in victims
  /\ victims' = victims \ {n}
  /\ \/ dirs' = dirs \ {n}
     \/ MayFail # {} /\ UNCHANGED dirs
  /\ UNCHANGED <<clock, pc, name, latest, started_alone, progress, artifacts>>

-----------------------------------------------------------------------------
\* No run is going on; another may start or not.
Over == /\ \A r \in Runs : pc[r] \in {"off", "over"}
        /\ victims = {}
        /\ UNCHANGED vars

Next ==
  \/ tick
  \/ sweep_at_start
  \/ \E r \in Runs :
       \/ create(r) \/ unlink_latest(r) \/ link_latest(r) \/ open_tasks(r)
       \/ \E t \in Tasks(r) : output(r, t) \/ \E event \in Ends \cup {"started"} : outcome(r, t, event)
       \/ finish(r) \/ finished(r)
  \/ \E n \in victims : remove_dir(n)
  \/ Over

Spec == Init /\ [][Next]_vars

-----------------------------------------------------------------------------
\* Properties.

\* Every variable keeps its type.
PathTypeOK ==
  /\ clock \in 2..MaxClock /\ started_alone \in BOOLEAN
  /\ pc \in [Runs -> {"off", "unlink_latest", "link_latest", "open_tasks", "run", "ended", "over"}]
  /\ name \in [Runs -> Nat \X Nat] /\ {latest} \cup dirs \cup victims \subseteq Nat \X Nat
  /\ log \in [Runs -> {"none", "open", "closed"}]
TaskTypeOK ==
  /\ DOMAIN seen = Runs /\ DOMAIN record = Runs /\ DOMAIN lines = Runs /\ DOMAIN files = Runs
  /\ DOMAIN buffers = Runs /\ DOMAIN shown = Runs /\ DOMAIN tally = Runs /\ DOMAIN json = Runs
  /\ DOMAIN gone = Runs
  /\ \A r \in Runs :
       /\ seen[r] \in [Tasks(r) -> Ends \cup {"pending", "started"}]
       /\ record[r] \in [Tasks(r) -> {"pending", "running", "finished", "failed", "blocked"}]
       /\ \A c \in {lines, files, buffers, shown} : c[r] \in [Tasks(r) -> Nat]
       /\ tally[r] \in [{"passed", "failed", "blocked"} -> Nat]
       /\ gone[r] \in BOOLEAN
TypeOK == PathTypeOK /\ TaskTypeOK

\* run_id (log.rs:315): "A PID cannot repeat inside one millisecond, so this
\* names one run only". No two runs have one directory.
OwnDirectory == \A r, q \in Runs : name[r] = name[q] /\ name[r] # NoName => r = q

\* A run.json vouches for its run, however the run ended: it is there only if no
\* write to the log failed, so every line that was reported is in the stream
\* files, every task has the state its last event gave it (that of a run that
\* broke off may still be pending or running), the states agree with the counts
\* that the terminal and the daemon's log show, and there is an exit status just
\* when every task ended and could be run (OpenLog::write, RunRecorder::finish,
\* RunTally).
RecordVouches ==
  \A r \in Runs : json[r].status # "none" =>
    /\ files[r] = lines[r]
    /\ \A t \in Tasks(r) : json[r].tasks[t] = state(seen[r][t])
    /\ \A p \in {<<"finished", "passed">>, <<"failed", "failed">>, <<"blocked", "blocked">>} :
         Cardinality({t \in Tasks(r) : json[r].tasks[t] = p[1]}) = tally[r][p[2]]
    /\ json[r].status = "given" <=> ~gone[r] /\ \A t \in Tasks(r) : seen[r][t] \in Ends \ {"error"}

\* A sweep removes a run only while Keep newer ones are there, whatever starts
\* or is swept between its look at the directory and the removal, and never
\* anything that is not a run (prune).
NewestKept ==
  [][\A n \in dirs \ dirs' : is_run_name(n) /\ Cardinality(newer(n, run_names)) >= Keep]_vars

\* Whenever nobody is about to put it up, the `latest` link is there once a run
\* has been logged: no order of two starts leaves the root without one.
LinkStands ==
  (\E r \in Runs : name[r] # NoName /\ pc[r] \in {"open_tasks", "run", "ended", "over"})
    /\ linking = {} => latest # NoName

\* docs/output.md:103: `latest` points at the newest run. It does so, and to a
\* directory that no sweep takes, as long as no two runs start at once.
LatestIsNewest ==
  started_alone /\ starting = {} /\ latest # NoName =>
    latest \in dirs /\ \A r \in Runs : ~before(latest, name[r])

\* Whatever the layout, the terminal shows each line of a finished task once,
\* and no later than the task's status line (Reporter::event), unless it failed;
\* then it has shown no line twice.
LinesShown ==
  \A r \in Runs \ Daemon : \A t \in Tasks(r) :
    /\ shown[r][t] <= lines[r][t]
    /\ seen[r][t] \in {"ok", "bad"} /\ ~gone[r] => shown[r][t] = lines[r][t]

\* Nothing that a run reported is missing from its record or its terminal.
NothingLost == RecordVouches /\ LinesShown

\* `latest` is there, and leads to the newest run.
LatestKept == LinkStands /\ LatestIsNewest
=============================================================================
