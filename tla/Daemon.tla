------------------------------- MODULE Daemon -------------------------------
(***************************************************************************)
(* The scheduling core of the Beez daemon (crates/beez-daemon): one thread *)
(* that fires due jobs, starts, queues or drops each fire, takes events    *)
(* off a channel, and keeps state.json so that a restart goes on where the *)
(* last process stopped.                                                   *)
(*                                                                         *)
(* The thread is sequential, so its handlers are split only where another  *)
(* party can step in: between two turns of `serve`, between two fires of a *)
(* turn, between the start of a run and the save that records its fire,    *)
(* and between the end of a run and each queued start it makes room for.   *)
(* Other parties are the run threads, the clock, the clients, the signal   *)
(* handler and a crash of the process.                                     *)
(*                                                                         *)
(* The jobs are the positions of `Daemon.jobs`; the manifests behind them  *)
(* do not change here (module Manifests has add, remove and reload).       *)
(* Instants are natural numbers of ticks, `Second` ticks to a second; 0    *)
(* stands for Option::None, so no schedule names the instant 0.            *)
(*                                                                         *)
(* A definition whose comment starts with "Mutant" is no part of the       *)
(* model: it is a mistake the definition after it could have, and shows    *)
(* that a property would notice.                                           *)
(***************************************************************************)
EXTENDS Integers, FiniteSets

CONSTANTS
  N,            \* how many jobs the daemon holds
  Limit,        \* how many runs go on at the same time (--limit, at least 1)
  RunIds,       \* names for run threads; a name is free again once handled
  Sched,        \* Sched[j]: the instants at which the schedule of j fires
  Recurring,    \* the jobs whose schedule is a cron expression
  Overlap,      \* Overlap[j]: "skip", "queue" or "parallel"
  CatchUp,      \* the jobs with catch_up: true
  Disabled,     \* the jobs with enabled: false
  Broken,       \* the jobs with an error, such as a task without a sandbox
  Second,       \* ticks in a second: state.json keeps instants to the second
  MaxSleep,     \* MAX_SLEEP, in ticks
  MaxTime,      \* bound: the clock stops here
  ClockSteps,   \* whether the clock is ever set, or the machine sleeps
  Requests,     \* which of "pause", "resume", "trigger", "stop", "signal" arrive
  CrashPoints,  \* where in the program the process may die
  SaveMayFail   \* whether a write of state.json may fail

Jobs == 1..N

\* Where the daemon thread stands. "down": no process. "loop": at the head of
\* `serve`. "fire": in fire_due. "save": in `fire`, between the start of the
\* run and save_state. "wait": in recv_timeout. "drain": in start_queued.
Points == {"down", "loop", "fire", "save", "wait", "drain"}

ASSUME CountAssumption == N \in Nat /\ Limit \in Nat \ {0}
ASSUME RunIdsAssumption == IsFiniteSet(RunIds) /\ Cardinality(RunIds) > Limit
ASSUME SchedAssumption ==
  Sched \in [Jobs -> SUBSET Nat] /\ \A j \in Jobs : \A s \in Sched[j] : s >= Second
ASSUME JobAssumption ==
  /\ Overlap \in [Jobs -> {"skip", "queue", "parallel"}]
  /\ Recurring \subseteq Jobs /\ CatchUp \subseteq Jobs
  /\ Disabled \subseteq Jobs /\ Broken \subseteq Jobs
ASSUME ClockAssumption ==
  /\ Second \in Nat \ {0} /\ MaxSleep \in Nat \ {0}
  /\ MaxTime \in Nat /\ MaxTime >= Second
  /\ ClockSteps \in BOOLEAN
ASSUME PartyAssumption ==
  /\ Requests \subseteq {"pause", "resume", "trigger", "stop", "signal"}
  /\ CrashPoints \subseteq Points \ {"down"}
  /\ SaveMayFail \in BOOLEAN

VARIABLES
  \* the machine
  clock,        \* SystemTime::now()
  left,         \* ticks until recv_timeout gives up (a monotonic clock)
  \* the process
  pc,           \* where the daemon thread stands
  now,          \* the `now` of this turn of serve
  due,          \* the jobs fire_due has still to fire
  current,      \* the job whose fire is not saved yet (0: none)
  job_running,  \* Job.running
  queued,       \* Job.queued
  next_fire,    \* Job.next_fire
  last_fire,    \* Job.state.last_fire
  paused,       \* Job.state.paused
  running,      \* Daemon.running
  stopping, exiting,
  runs,         \* runs[r]: the job run thread r works for (0: r is free)
  sent,         \* run threads whose Event::Finished is in the channel
  \* state.json
  disk_fire, disk_paused,
  \* history, for the properties only
  ran_to,       \* ran_to[j]: the latest fire a scheduled run of j stood for
  repeats,      \* jobs that ran again with no new instant to run for
  opened        \* when the process came up

process == <<now, due, current, job_running, queued, next_fire, last_fire,
             paused, running, stopping, exiting, runs, sent>>
disk == <<disk_fire, disk_paused>>
history == <<ran_to, repeats, opened>>
vars == <<clock, left, pc, process, disk, history>>

-----------------------------------------------------------------------------
\* Schedules and planning.

\* Mutant: the instant itself counts as after it.
next_after_inclusive(j, t) ==
  LET later == {s \in Sched[j] : s >= t}
  IN  IF later = {} THEN 0 ELSE CHOOSE s \in later : \A u \in later : s <= u

\* Schedule::next_after: the first instant of the schedule after t.
next_after(j, t) ==
  LET later == {s \in Sched[j] : s > t}
  IN  IF later = {} THEN 0 ELSE CHOOSE s \in later : \A u \in later : s <= u

\* Job::is_ready, for a hold p.
is_ready(j, p) == j \notin Broken /\ j \notin Disabled /\ ~p

\* Mutant: the schedule goes on from now and not from the last fire.
plan_from_now(j, last, p, t, allow_catch_up) ==
  IF is_ready(j, p) THEN next_after(j, t) ELSE 0

\* Mutant: every job catches up.
plan_always_late(j, last, p, t, allow_catch_up) ==
  LET base == IF last # 0 THEN last ELSE IF j \in Recurring THEN t ELSE 0
      next == next_after(j, base)
  IN  IF ~is_ready(j, p) \/ next = 0 THEN 0
      ELSE IF next > t THEN next
      ELSE IF allow_catch_up THEN t
      ELSE next_after(j, t)

\* `plan`: the next fire of job j at instant t, from its last fire and hold.
plan(j, last, p, t, allow_catch_up) ==
  LET base == IF last # 0 THEN last ELSE IF j \in Recurring THEN t ELSE 0
      next == next_after(j, base)
  IN  IF ~is_ready(j, p) \/ next = 0 THEN 0
      ELSE IF next > t THEN next
      ELSE IF allow_catch_up /\ j \in CatchUp THEN t
      ELSE next_after(j, t)

\* format_instant: what is left of an instant in state.json.
to_second(t) == t - (t % Second)

\* save_state: the states map holds every job's state, so one save writes all
\* of them. A failed write goes in the log and nowhere else.
save_state(fires, holds) ==
  \/ /\ disk_fire' = [j \in Jobs |-> to_second(fires[j])]
     /\ disk_paused' = holds
  \/ SaveMayFail /\ UNCHANGED disk

\* Mutant: the latest planned fire and not the earliest.
sleep_latest(fires, t) ==
  LET ahead == {fires[j] - t : j \in {k \in Jobs :
                  is_ready(k, paused[k]) /\ fires[k] # 0 /\ fires[k] >= t}}
                 \cup {MaxSleep}
  IN  CHOOSE s \in ahead : \A u \in ahead : s >= u

\* `sleep`: until the earliest planned fire of a ready job that is not past.
sleep(fires, t) ==
  LET ahead == {fires[j] - t : j \in {k \in Jobs :
                  is_ready(k, paused[k]) /\ fires[k] # 0 /\ fires[k] >= t}}
                 \cup {MaxSleep}
  IN  CHOOSE s \in ahead : \A u \in ahead : s <= u

-----------------------------------------------------------------------------
\* The process comes up and goes down.

NoProcess ==
  /\ now' = 0 /\ due' = {} /\ current' = 0 /\ running' = 0
  /\ job_running' = [j \in Jobs |-> FALSE] /\ queued' = [j \in Jobs |-> FALSE]
  /\ next_fire' = [j \in Jobs |-> 0] /\ last_fire' = [j \in Jobs |-> 0]
  /\ paused' = [j \in Jobs |-> FALSE]
  /\ stopping' = FALSE /\ exiting' = FALSE
  /\ runs' = [r \in RunIds |-> 0] /\ sent' = {}

\* Daemon::open: reads state.json and plans every job. Only here may a fire
\* that was passed still run.
open ==
  /\ pc = "down" /\ pc' = "loop"
  /\ last_fire' = disk_fire /\ paused' = disk_paused
  /\ next_fire' = [j \in Jobs |->
       plan(j, disk_fire[j], disk_paused[j], clock, TRUE)]
  /\ opened' = clock
  /\ UNCHANGED <<clock, left, now, due, current, job_running, queued, running,
                 stopping, exiting, runs, sent, disk, ran_to, repeats>>

\* `serve` leaves its loop. Runs still going on are left behind.
serve_ends ==
  /\ pc = "loop"
  /\ exiting \/ (stopping /\ running = 0)
  /\ pc' = "down" /\ left' = 0
  /\ NoProcess
  /\ UNCHANGED <<clock, disk, history>>

\* The process dies: memory, threads and channel are gone, files stay.
crash ==
  /\ pc \in CrashPoints
  /\ pc' = "down" /\ left' = 0
  /\ NoProcess
  /\ UNCHANGED <<clock, disk, history>>

-----------------------------------------------------------------------------
\* A run starts: the part of `start` that changes state.

start(j) ==
  /\ job_running' = [job_running EXCEPT ![j] = TRUE]
  /\ queued' = [queued EXCEPT ![j] = FALSE]
  /\ running' = running + 1
  /\ \E r \in RunIds : runs[r] = 0 /\ runs' = [runs EXCEPT ![r] = j]

\* A scheduled run of j starts for the fire f. It repeats an earlier run when
\* the schedule names no instant between that run's fire and f.
note_scheduled_run(j, f) ==
  /\ ran_to' = [ran_to EXCEPT ![j] = IF f > @ THEN f ELSE @]
  /\ repeats' = IF \E s \in Sched[j] : ran_to[j] < s /\ s <= f
                THEN repeats ELSE repeats \cup {j}
  /\ UNCHANGED opened

-----------------------------------------------------------------------------
\* One turn of `serve`: fire what is due, then wait for an event.

\* fire_due picks the due jobs, and none once the daemon is stopping.
turn ==
  /\ pc = "loop" /\ pc' = "fire"
  /\ ~exiting /\ ~(stopping /\ running = 0)
  /\ now' = clock
  /\ due' = IF stopping THEN {}
            ELSE {j \in Jobs : /\ is_ready(j, paused[j])
                               /\ next_fire[j] # 0 /\ next_fire[j] <= clock}
  /\ UNCHANGED <<clock, left, current, job_running, queued, next_fire,
                 last_fire, paused, running, stopping, exiting, runs, sent,
                 disk, history>>

\* action_for: what a fire of job j leads to. The limit comes first.
action_for(j) ==
  IF running >= Limit THEN "queue"
  ELSE IF ~job_running[j] THEN "start"
  ELSE CASE Overlap[j] = "skip" -> "skip"
         [] Overlap[j] = "queue" -> "queue"
         [] Overlap[j] = "parallel" -> "start"

\* The next due job of fire_due, in the order of `jobs`.
is_first_due(j) == j \in due /\ \A k \in due : j <= k

\* `fire`, up to the save: the fire happened, whatever comes of it. `queue`
\* keeps at most one waiting fire.
fire(j) ==
  /\ pc = "fire" /\ pc' = "save"
  /\ is_first_due(j)
  /\ current' = j /\ due' = due \ {j}
  /\ last_fire' = [last_fire EXCEPT ![j] = next_fire[j]]
  /\ \/ /\ action_for(j) = "start"
        /\ start(j)
        /\ note_scheduled_run(j, next_fire[j])
     \/ /\ action_for(j) = "queue"
        /\ queued' = [queued EXCEPT ![j] = TRUE]
        /\ UNCHANGED <<job_running, running, runs, history>>
     \/ /\ action_for(j) = "skip"
        /\ UNCHANGED <<job_running, queued, running, runs, history>>
  /\ UNCHANGED <<clock, left, now, next_fire, paused, stopping, exiting, sent,
                 disk>>

\* Mutant: the fire after this one is not planned.
fire_saved_unplanned ==
  /\ pc = "save" /\ pc' = "fire"
  /\ save_state(last_fire, paused)
  /\ current' = 0
  /\ UNCHANGED <<clock, left, now, due, job_running, queued, next_fire, last_fire,
                 paused, running, stopping, exiting, runs, sent, history>>

\* The rest of `fire`: save the state, then plan the fire after it.
fire_saved ==
  /\ pc = "save" /\ pc' = "fire"
  /\ save_state(last_fire, paused)
  /\ next_fire' = [next_fire EXCEPT ![current] =
       plan(current, last_fire[current], paused[current], now, FALSE)]
  /\ current' = 0
  /\ UNCHANGED <<clock, left, now, due, job_running, queued, last_fire, paused,
                 running, stopping, exiting, runs, sent, history>>

\* Nothing is due any more, so the thread waits for an event.
wait ==
  /\ pc = "fire" /\ due = {}
  /\ pc' = "wait"
  /\ left' = sleep(next_fire, now)
  /\ UNCHANGED <<clock, process, disk, history>>

timeout ==
  /\ pc = "wait" /\ left = 0
  /\ pc' = "loop"
  /\ UNCHANGED <<clock, left, process, disk, history>>

-----------------------------------------------------------------------------
\* Events. Requests and signals may arrive at any moment, so sending one and
\* taking it off the channel are one step; Event::Finished is two, because a
\* run that ended still counts until it is handled.

\* `hold`: pause and resume. It saves, and plans with the job's new hold.
hold(j, held) ==
  /\ pc = "wait" /\ pc' = "loop" /\ left' = 0
  /\ (IF held THEN "pause" ELSE "resume") \in Requests
  /\ paused' = [paused EXCEPT ![j] = held]
  /\ save_state(last_fire, paused')
  /\ next_fire' = [next_fire EXCEPT ![j] =
       plan(j, last_fire[j], held, clock, FALSE)]
  /\ UNCHANGED <<clock, now, due, current, job_running, queued, last_fire,
                 running, stopping, exiting, runs, sent, history>>

\* Mutant: trigger does not look at the run limit.
trigger_no_limit(j) ==
  /\ pc = "wait" /\ pc' = "loop" /\ left' = 0
  /\ "trigger" \in Requests
  /\ j \notin Broken /\ ~job_running[j]
  /\ start(j)
  /\ UNCHANGED <<clock, now, due, current, next_fire, last_fire, paused,
                 stopping, exiting, sent, disk, history>>

\* `trigger`: refused for a broken or running job and at the run limit. A
\* paused, disabled or queued job may be triggered, also while stopping.
trigger(j) ==
  /\ pc = "wait" /\ pc' = "loop" /\ left' = 0
  /\ "trigger" \in Requests
  /\ \/ /\ j \notin Broken /\ ~job_running[j] /\ running < Limit
        /\ start(j)
     \/ /\ j \in Broken \/ job_running[j] \/ running >= Limit
        /\ UNCHANGED <<job_running, queued, running, runs>>
  /\ UNCHANGED <<clock, now, due, current, next_fire, last_fire, paused,
                 stopping, exiting, sent, disk, history>>

\* Request::Stop: begin_stopping.
stop ==
  /\ pc = "wait" /\ pc' = "loop" /\ left' = 0
  /\ "stop" \in Requests
  /\ stopping' = TRUE
  /\ UNCHANGED <<clock, now, due, current, job_running, queued, next_fire,
                 last_fire, paused, running, exiting, runs, sent, disk,
                 history>>

\* `signal`: the first one stops, the second one gives up waiting.
signal ==
  /\ pc = "wait" /\ pc' = "loop" /\ left' = 0
  /\ "signal" \in Requests
  /\ stopping' = TRUE /\ exiting' = (exiting \/ stopping)
  /\ UNCHANGED <<clock, now, due, current, job_running, queued, next_fire,
                 last_fire, paused, running, runs, sent, disk, history>>

\* Request::Status, and any request that is refused: an answer, no change.
status ==
  /\ pc = "wait" /\ pc' = "loop" /\ left' = 0
  /\ UNCHANGED <<clock, process, disk, history>>

\* Mutant: a run that ended starts no waiting fire.
finished_starts_none(r) ==
  /\ pc = "wait" /\ pc' = "loop" /\ left' = 0
  /\ r \in sent
  /\ running' = IF running > 0 THEN running - 1 ELSE 0
  /\ job_running' = [job_running EXCEPT ![runs[r]] = FALSE]
  /\ runs' = [runs EXCEPT ![r] = 0] /\ sent' = sent \ {r}
  /\ save_state(last_fire, paused)
  /\ UNCHANGED <<clock, now, due, current, queued, next_fire, last_fire,
                 paused, stopping, exiting, history>>

\* Mutant: a run that ended is still counted.
finished_still_counts(r) ==
  /\ pc = "wait" /\ pc' = "drain" /\ left' = 0
  /\ r \in sent
  /\ job_running' = [job_running EXCEPT ![runs[r]] = FALSE]
  /\ runs' = [runs EXCEPT ![r] = 0] /\ sent' = sent \ {r}
  /\ save_state(last_fire, paused)
  /\ UNCHANGED <<clock, now, due, current, queued, next_fire, last_fire,
                 paused, running, stopping, exiting, history>>

\* `finished`, up to start_queued: room for one more run.
finished(r) ==
  /\ pc = "wait" /\ pc' = "drain" /\ left' = 0
  /\ r \in sent
  /\ running' = IF running > 0 THEN running - 1 ELSE 0
  /\ job_running' = [job_running EXCEPT ![runs[r]] = FALSE]
  /\ runs' = [runs EXCEPT ![r] = 0] /\ sent' = sent \ {r}
  /\ save_state(last_fire, paused)
  /\ UNCHANGED <<clock, now, due, current, queued, next_fire, last_fire,
                 paused, stopping, exiting, history>>

\* Mutant: a job whose run goes on may start its waiting fire.
can_start_queued_running(j) == queued[j] /\ is_ready(j, paused[j])

\* The jobs start_queued may start, and the one it starts first.
can_start_queued(j) == queued[j] /\ is_ready(j, paused[j]) /\ ~job_running[j]

\* Mutant: the jobs are searched from the last one.
is_last_queued(j) ==
  can_start_queued(j) /\ \A k \in Jobs : can_start_queued(k) => k <= j

is_first_queued(j) ==
  can_start_queued(j) /\ \A k \in Jobs : can_start_queued(k) => j <= k

\* One turn of start_queued: the waiting fire starts under its last fire.
start_queued(j) ==
  /\ pc = "drain" /\ ~stopping /\ running < Limit
  /\ is_first_queued(j)
  /\ start(j)
  /\ note_scheduled_run(j, last_fire[j])
  /\ UNCHANGED <<clock, left, pc, now, due, current, next_fire, last_fire,
                 paused, stopping, exiting, sent, disk>>

drained ==
  /\ pc = "drain" /\ pc' = "loop"
  /\ \/ stopping \/ running >= Limit
     \/ \A j \in Jobs : ~can_start_queued(j)
  /\ UNCHANGED <<clock, left, process, disk, history>>

-----------------------------------------------------------------------------
\* The other parties.

\* A run thread ends and sends Event::Finished.
run_ends(r) ==
  /\ runs[r] # 0 /\ r \notin sent
  /\ sent' = sent \cup {r}
  /\ UNCHANGED <<clock, left, pc, now, due, current, job_running, queued,
                 next_fire, last_fire, paused, running, stopping, exiting,
                 runs, disk, history>>

\* Time passes for the clock and for the timer alike.
tick ==
  /\ clock < MaxTime \/ left > 0
  /\ clock' = IF clock < MaxTime THEN clock + 1 ELSE clock
  /\ left' = IF left > 0 THEN left - 1 ELSE 0
  /\ UNCHANGED <<pc, process, disk, history>>

\* The clock is set forward or back, or the machine slept: the timer of
\* recv_timeout knows nothing of it.
clock_set ==
  /\ ClockSteps
  /\ \E t \in Second..MaxTime : clock' = t
  /\ UNCHANGED <<left, pc, process, disk, history>>

Init ==
  /\ clock = Second /\ left = 0 /\ pc = "down"
  /\ now = 0 /\ due = {} /\ current = 0 /\ running = 0
  /\ job_running = [j \in Jobs |-> FALSE] /\ queued = [j \in Jobs |-> FALSE]
  /\ next_fire = [j \in Jobs |-> 0] /\ last_fire = [j \in Jobs |-> 0]
  /\ paused = [j \in Jobs |-> FALSE]
  /\ stopping = FALSE /\ exiting = FALSE
  /\ runs = [r \in RunIds |-> 0] /\ sent = {}
  /\ disk_fire = [j \in Jobs |-> 0] /\ disk_paused = [j \in Jobs |-> FALSE]
  /\ ran_to = [j \in Jobs |-> 0] /\ repeats = {} /\ opened = 0

\* The steps the daemon thread takes by itself.
Step ==
  \/ turn \/ (\E j \in Jobs : fire(j)) \/ fire_saved \/ wait \/ timeout
  \/ (\E j \in Jobs : start_queued(j)) \/ drained \/ serve_ends

Next ==
  \/ open \/ Step \/ crash
  \/ \E j \in Jobs : hold(j, TRUE) \/ hold(j, FALSE) \/ trigger(j)
  \/ stop \/ signal \/ status
  \/ \E r \in RunIds : finished(r) \/ run_ends(r)
  \/ tick \/ clock_set

Spec == Init /\ [][Next]_vars

\* The daemon thread goes on while it can; the clock and the timer run; a run
\* ends at some point (a harness that hangs forever is not modelled); and the
\* channel is first in, first out, so an event in it is taken in its turn.
Fairness ==
  /\ WF_vars(Step)
  /\ WF_vars(tick)
  /\ \A r \in RunIds : WF_vars(run_ends(r)) /\ SF_vars(finished(r))

FairSpec == Spec /\ Fairness

-----------------------------------------------------------------------------
\* Properties.

Instant == Nat

TypeOK ==
  /\ clock \in Nat /\ left \in Nat /\ now \in Nat /\ opened \in Nat
  /\ pc \in Points /\ due \subseteq Jobs /\ current \in Jobs \cup {0}
  /\ job_running \in [Jobs -> BOOLEAN] /\ queued \in [Jobs -> BOOLEAN]
  /\ next_fire \in [Jobs -> Instant] /\ last_fire \in [Jobs -> Instant]
  /\ paused \in [Jobs -> BOOLEAN]
  /\ running \in Nat /\ stopping \in BOOLEAN /\ exiting \in BOOLEAN
  /\ runs \in [RunIds -> Jobs \cup {0}] /\ sent \subseteq RunIds
  /\ disk_fire \in [Jobs -> Instant] /\ disk_paused \in [Jobs -> BOOLEAN]
  /\ ran_to \in [Jobs -> Instant] /\ repeats \subseteq Jobs

Active == {r \in RunIds : runs[r] # 0}

\* `running`, which every decision reads, counts the run threads that have
\* not been handled, and they stay within --limit: fire, start_queued and
\* trigger each look at the count before they start one.
RunLimit == running = Cardinality(Active) /\ Cardinality(Active) <= Limit

\* A job that does not ask for parallel runs never has two at once, whether
\* they come from its schedule, from the queue or from trigger.
NoOverlap ==
  \A j \in Jobs : Overlap[j] # "parallel" =>
    \A r1, r2 \in RunIds : runs[r1] = j /\ runs[r2] = j => r1 = r2

\* store.rs: state.json holds what already happened, so a restart does not
\* repeat a fire. No scheduled run stands for instants that an earlier run
\* of the job already stood for, over crashes, restarts and clock changes.
NoRepeatedFire == repeats = {}

\* `sleep` leaves out the fires that are past, so none may be past when
\* recv_timeout is called; and its timer never runs beyond the first planned
\* fire of a ready job, counted from `now`, nor beyond MAX_SLEEP.
WakesInTime ==
  pc = "wait" /\ ~stopping =>
    /\ left <= MaxSleep
    /\ \A j \in Jobs : is_ready(j, paused[j]) /\ next_fire[j] # 0 =>
         next_fire[j] > now /\ now + left <= next_fire[j]

\* A waiting fire of a ready job waits for its own job's run or for the limit,
\* so some Event::Finished is still to come and will start it.
WaitingHasReason ==
  pc \in {"loop", "fire", "save", "wait"} /\ ~stopping => \A j \in Jobs :
    can_start_queued(j) => running >= Limit

\* start_queued goes through the jobs from the first one after every run that
\* ends, so a fire that could start is passed over only for a job earlier in
\* the list: neither a fire that becomes due, nor run-now, nor the queue lets
\* a later job in before it.
NotOvertaken ==
  [][\A j \in Jobs : can_start_queued(j) /\ ~stopping =>
       \A r \in RunIds : runs[r] = 0 /\ runs'[r] # 0 => runs'[r] <= j]_vars

\* docs/schedules.md: a fire that happened while the daemon was down runs late
\* only with catch_up: the fire of any other job lies after the start of the
\* process.
MissedStaysMissed ==
  \A j \in Jobs \ CatchUp :
    pc # "down" /\ next_fire[j] # 0 => next_fire[j] > opened

\* The fire state.json remembers never moves back, whatever crashes, failed
\* writes, restarts and clock changes do.
DiskNeverGoesBack ==
  [][\A j \in Jobs : disk_fire'[j] >= disk_fire[j]]_vars

\* A fire that waits leaves the queue only as a run of its job, or with the
\* process.
QueuedFireKept ==
  [][\A j \in Jobs : queued[j] /\ ~queued'[j] =>
       pc' = "down" \/ \E r \in RunIds : runs[r] = 0 /\ runs'[r] = j]_vars

\* begin_stopping "stops firing": once the daemon is stopping no fire is
\* handled, and whatever run starts is one that a request asked for (trigger
\* does not look at `stopping`): none of the schedule and none of the queue.
StoppingFiresNothing ==
  [][stopping /\ pc' # "down" =>
       /\ UNCHANGED <<last_fire, ran_to, repeats>>
       /\ \A r \in RunIds : runs[r] = 0 /\ runs'[r] # 0 => trigger(runs'[r])]_vars

\* A fire that is due is handled: the loop comes round to it.
IsDue(j) ==
  /\ pc # "down" /\ ~stopping /\ is_ready(j, paused[j])
  /\ next_fire[j] # 0 /\ next_fire[j] <= clock
DueFireHandled == \A j \in Jobs : IsDue(j) ~> ~IsDue(j)

\* A daemon that was asked to stop does so once its runs have ended.
StopEnds == stopping ~> pc = "down"

\* A waiting fire starts when a run ends.
QueuedFireStarts ==
  \A j \in Jobs : (queued[j] /\ ~paused[j]) ~>
    (~queued[j] \/ paused[j] \/ stopping)
=============================================================================
