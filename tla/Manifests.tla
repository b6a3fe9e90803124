----------------------------- MODULE Manifests -----------------------------
(***************************************************************************)
(* The manifests the Beez daemon watches (crates/beez-daemon): how add,    *)
(* remove, reload and the rescan of every turn build the list of jobs from *)
(* files that anyone may edit at any moment, and what of a job (its run,   *)
(* its waiting fire, its planned fire, its history) lives through that.    *)
(*                                                                         *)
(* Time is module Daemon's: here a planned fire is ahead or past.          *)
(*                                                                         *)
(* A definition whose comment starts with "Mutant" is no part of the       *)
(* model: it is a mistake the definition after it could have, and shows    *)
(* that a property would notice.                                           *)
(***************************************************************************)
EXTENDS Integers, Sequences, FiniteSets, SequencesExt

CONSTANTS
  Paths,        \* manifest files
  Stem,         \* Stem[p]: the file name a manifest gives its jobs
  Contents,     \* what a manifest may hold, see Content
  First,        \* First[p]: what p holds at first
  Listed,       \* the manifests on the list at first
  RunIds,       \* run threads: as many as the run limit
  MaxEdits,     \* bound: how often files are edited
  EditPoints,   \* where in the daemon's program an edit may fall
  Requests,     \* which of "add", "remove", "reload", "pause" arrive, and "list":
                \* whether somebody writes the list by hand
  MayCrash      \* whether the process may die and start again

\* A manifest that loads has schedules, each with a name ("" for the only one
\* of a manifest that names none). All of them change together here. One that
\* does not load, or has no schedule section, has none.
Content == [names : Seq(STRING), schedule : Nat \ {0}, sandboxed : BOOLEAN]

Points == {"down", "scan", "reload", "install", "fire", "wait", "drain"}

ASSUME ManifestsAssumption ==
  /\ Stem \in [Paths -> STRING] /\ Contents \subseteq Content
  /\ First \in [Paths -> Contents] /\ MaxEdits \in Nat
  /\ Listed \in Seq(Paths) /\ IsInjective(Listed)
  /\ EditPoints \subseteq Points
  /\ Requests \subseteq {"add", "remove", "reload", "pause", "list"} /\ MayCrash \in BOOLEAN

Names == {""} \cup UNION {Range(c.names) : c \in Contents}
Ids == {Stem[p] : p \in Paths} \X Names

NoSchedule == 0
JobState == [paused : BOOLEAN, fired : BOOLEAN]
NoState == [paused |-> FALSE, fired |-> FALSE]

VARIABLES
  files, modified,   \* the files: what they hold, and when they last changed
  disk_registry,     \* manifests.json
  disk_states,       \* state.json
  pc,                \* where the daemon thread stands
  registry,          \* Daemon.registry
  states,            \* Daemon.states
  manifests,         \* Daemon.manifests: each file, and its time as last seen
  jobs,              \* Daemon.jobs
  runs,              \* runs[r]: the job run thread r works for (NoJob: free)
  todo,              \* manifests still to read again
  fresh,             \* what was read from the first of them
  back,              \* where the daemon goes on after that
  slipped            \* history, for EditSeen only: the manifests last edited
                     \* after they were read and before their time was taken

vars == <<files, modified, slipped, disk_registry, disk_states, pc, registry, states,
          manifests, jobs, runs, todo, fresh, back>>
files_vars == <<files, modified, slipped>>
reading == <<todo, fresh, back>>

NoJob == <<"", "">>
Job == [id : Ids, manifest : Paths, schedule : Nat, error : BOOLEAN,
        planned : {"none", "ahead", "due", "missed"},
        running : BOOLEAN, queued : BOOLEAN, state : JobState]

\* Vec::retain: the elements at the positions that are kept, in order.
retain(list, kept) ==
  [k \in 1..Cardinality(kept) |->
     list[CHOOSE i \in kept : Cardinality({j \in kept : j < i}) = k - 1]]
without(list, p) == retain(list, {i \in DOMAIN list : list[i] # p})

-----------------------------------------------------------------------------
\* Jobs of a manifest.

\* Job::is_ready; every schedule here is enabled.
is_ready(job) == ~job.error /\ job.schedule # NoSchedule /\ ~job.state.paused

\* Job::new.
new(id, p, schedule, error) ==
  [id |-> id, manifest |-> p, schedule |-> schedule, error |-> error,
   planned |-> "none", running |-> FALSE, queued |-> FALSE, state |-> states[id]]

\* jobs_of: one job for each schedule, or one broken job under the file's name.
jobs_of(p, content) ==
  IF content.names = <<>>
  THEN <<new(<<Stem[p], "">>, p, NoSchedule, TRUE)>>
  ELSE [i \in DOMAIN content.names |->
         new(<<Stem[p], content.names[i]>>, p, content.schedule, ~content.sandboxed)]

\* admit: the manifest loads, and no other manifest uses its job IDs.
admit(p, content) ==
  /\ content.names # <<>>
  /\ \A i \in DOMAIN jobs : jobs[i].manifest # p =>
       \A j \in DOMAIN content.names : jobs[i].id # <<Stem[p], content.names[j]>>

\* The job with an ID: the first of them.
holds(id) == \E i \in DOMAIN jobs : jobs[i].id = id
index(id) ==
  CHOOSE i \in DOMAIN jobs : jobs[i].id = id /\ \A k \in 1..(i - 1) : jobs[k].id # id

\* plan_job, for schedules that always have another fire.
plan_job(job) ==
  [job EXCEPT !.planned = IF is_ready(job) THEN "ahead" ELSE "none"]

\* save_state: into the map, and the map into state.json.
save_state(job) ==
  /\ states' = [states EXCEPT ![job.id] = job.state]
  /\ disk_states' = states'

-----------------------------------------------------------------------------
\* The process comes up and dies.

\* Daemon::open: both files, then every manifest. `build` takes the time of a
\* file before it reads the file, so an edit in between is only read twice.
open ==
  /\ pc = "down" /\ pc' = "scan"
  /\ registry' = disk_registry /\ states' = disk_states
  /\ manifests' = [i \in DOMAIN disk_registry |->
                    [path |-> disk_registry[i], modified |-> modified[disk_registry[i]]]]
  /\ jobs' = LET read == FlattenSeq([i \in DOMAIN disk_registry |->
                           jobs_of(disk_registry[i], files[disk_registry[i]])])
             IN  [i \in DOMAIN read |->
                   plan_job([read[i] EXCEPT !.state = disk_states[read[i].id]])]
  /\ slipped' = {}
  /\ UNCHANGED <<files, modified, disk_registry, disk_states, runs, reading>>

crash ==
  /\ MayCrash /\ pc = "wait" /\ pc' = "down"
  /\ registry' = <<>> /\ manifests' = <<>> /\ jobs' = <<>>
  /\ states' = [id \in Ids |-> NoState]
  /\ runs' = [r \in RunIds |-> NoJob]
  /\ UNCHANGED <<files_vars, disk_registry, disk_states, reading>>

-----------------------------------------------------------------------------
\* Reading manifests again.

\* The paths of the entries of `manifests` that differ from the files.
changed ==
  LET entries == retain(manifests, {i \in DOMAIN manifests : modified[manifests[i].path] # manifests[i].modified})
  IN  [i \in DOMAIN entries |-> entries[i].path]

\* Mutant: the jobs of a manifest that did not load are left as they are.
rescan_not_broken ==
  /\ pc = "scan" /\ pc' = "reload"
  /\ todo' = SelectSeq(changed, LAMBDA p : \A i \in DOMAIN jobs :
                jobs[i].manifest = p => jobs[i].schedule # NoSchedule)
  /\ back' = "fire"
  /\ UNCHANGED <<files_vars, disk_registry, disk_states, registry, states,
                 manifests, jobs, runs, fresh>>

\* `rescan`: the manifests that changed are read again one after the other.
rescan ==
  /\ pc = "scan" /\ pc' = "reload"
  /\ todo' = changed
  /\ back' = "fire"
  /\ UNCHANGED <<files_vars, disk_registry, disk_states, registry, states,
                 manifests, jobs, runs, fresh>>

\* `reload`, first half: the file is read.
load ==
  /\ pc = "reload" /\ todo # <<>>
  /\ pc' = "install"
  /\ fresh' = files[Head(todo)] /\ slipped' = slipped \ {Head(todo)}
  /\ UNCHANGED <<files, modified, disk_registry, disk_states, registry, states,
                 manifests, jobs, runs, todo, back>>

\* Mutant: a new job starts out without the run of the old one.
carried_not_running(job) ==
  IF ~holds(job.id) THEN job
  ELSE LET old == jobs[index(job.id)]
       IN  [job EXCEPT !.queued = old.queued,
              !.planned = IF old.schedule = job.schedule THEN old.planned ELSE "none"]

\* Mutant: a new job starts out without the waiting fire of the old one.
carried_not_queued(job) ==
  IF ~holds(job.id) THEN job
  ELSE LET old == jobs[index(job.id)]
       IN  [job EXCEPT !.running = old.running,
              !.planned = IF old.schedule = job.schedule THEN old.planned ELSE "none"]

\* Mutant: the planned fire is kept although the schedule changed.
carried_planned(job) ==
  IF ~holds(job.id) THEN job
  ELSE LET old == jobs[index(job.id)]
       IN  [job EXCEPT !.running = old.running, !.queued = old.queued,
              !.planned = old.planned]

\* What a new job takes over from the job it replaces.
carried(job) ==
  IF ~holds(job.id) THEN job
  ELSE LET old == jobs[index(job.id)]
       IN  [job EXCEPT !.running = old.running, !.queued = old.queued,
              !.planned = IF old.schedule = job.schedule THEN old.planned ELSE "none"]

\* remember_modified: the time of the file, in its place or at the end.
remember_modified(p) ==
  LET entry == [path |-> p, modified |-> modified[p]]
  IN  manifests' = IF \E i \in DOMAIN manifests : manifests[i].path = p
                   THEN [i \in DOMAIN manifests |->
                          IF manifests[i].path = p THEN entry ELSE manifests[i]]
                   ELSE Append(manifests, entry)

\* `install`: the jobs of the manifest are replaced, and the time of the file
\* is taken, after the file was read.
install ==
  /\ pc = "install" /\ pc' = "reload"
  /\ LET p == Head(todo)
         read == jobs_of(p, fresh)
         kept == retain(jobs, {i \in DOMAIN jobs : jobs[i].manifest # p})
     IN  jobs' = kept \o [i \in DOMAIN read |->
                  LET job == carried(read[i])
                  IN  IF job.planned = "none" THEN plan_job(job) ELSE job]
  /\ remember_modified(Head(todo))
  /\ todo' = Tail(todo)
  /\ UNCHANGED <<files_vars, disk_registry, disk_states, registry, states, runs,
                 fresh, back>>

\* Every manifest has been read.
reloaded ==
  /\ pc = "reload" /\ todo = <<>>
  /\ pc' = back
  /\ UNCHANGED <<files_vars, disk_registry, disk_states, registry, states,
                 manifests, jobs, runs, reading>>

-----------------------------------------------------------------------------
\* Requests.

\* Request::Add: read, checked, listed, and then installed.
add(p) ==
  /\ pc = "wait" /\ "add" \in Requests
  /\ \/ /\ admit(p, files[p])
        /\ registry' = Append(without(registry, p), p)
        /\ disk_registry' = registry'
        /\ todo' = <<p>> /\ fresh' = files[p] /\ back' = "scan"
        /\ pc' = "install" /\ slipped' = slipped \ {p}
     \/ /\ ~admit(p, files[p])
        /\ pc' = "scan" /\ UNCHANGED <<registry, disk_registry, slipped, reading>>
  /\ UNCHANGED <<files, modified, disk_states, states, manifests, jobs, runs>>

\* Mutant: the times of the files are kept.
retain_manifests_jobs(keep) ==
  /\ jobs' = retain(jobs, {i \in DOMAIN jobs : jobs[i].manifest \in keep})
  /\ UNCHANGED manifests

\* retain_manifests.
retain_manifests(keep) ==
  /\ jobs' = retain(jobs, {i \in DOMAIN jobs : jobs[i].manifest \in keep})
  /\ manifests' = retain(manifests, {i \in DOMAIN manifests : manifests[i].path \in keep})

\* prune_states, for the jobs that are left.
prune_states ==
  /\ states' = [id \in Ids |-> IF \E i \in DOMAIN jobs' : jobs'[i].id = id
                               THEN states[id] ELSE NoState]
  /\ disk_states' = states'

\* Request::Remove: off the list, out of the jobs, and its states forgotten.
remove(p) ==
  /\ pc = "wait" /\ pc' = "scan" /\ "remove" \in Requests
  /\ p \in Range(registry)
  /\ registry' = without(registry, p) /\ disk_registry' = registry'
  /\ retain_manifests(Paths \ {p})
  /\ prune_states
  /\ UNCHANGED <<files_vars, runs, reading>>

\* Mutant: the states of jobs that are gone are forgotten at once.
reload_all_prunes ==
  /\ pc = "wait" /\ pc' = "reload" /\ "reload" \in Requests
  /\ registry' = disk_registry
  /\ retain_manifests(Range(disk_registry))
  /\ prune_states
  /\ todo' = disk_registry /\ back' = "scan"
  /\ UNCHANGED <<files_vars, disk_registry, runs, fresh>>

\* reload_all: the list is read again, then every manifest on it.
reload_all ==
  /\ pc = "wait" /\ pc' = "reload" /\ "reload" \in Requests
  /\ registry' = disk_registry
  /\ retain_manifests(Range(disk_registry))
  /\ todo' = disk_registry /\ back' = "scan"
  /\ UNCHANGED <<files_vars, disk_registry, disk_states, states, runs, fresh>>

\* `hold`.
hold(id, paused) ==
  /\ pc = "wait" /\ pc' = "scan" /\ "pause" \in Requests
  /\ holds(id)
  /\ LET held == [jobs[index(id)] EXCEPT !.state.paused = paused]
     IN  /\ jobs' = [jobs EXCEPT ![index(id)] = plan_job(held)]
         /\ save_state(held)
  /\ UNCHANGED <<files_vars, disk_registry, registry, manifests, runs, reading>>

\* recv_timeout gives up.
timeout ==
  /\ pc = "wait" /\ pc' = "scan"
  /\ UNCHANGED <<files_vars, disk_registry, disk_states, registry, states,
                 manifests, jobs, runs, reading>>

-----------------------------------------------------------------------------
\* Fires and runs, of schedules with on_overlap: queue.

is_due(job) == is_ready(job) /\ job.planned \in {"due", "missed"}

\* As many runs go on as may.
at_limit == \A r \in RunIds : runs[r] # NoJob

\* A run thread for a job.
start(id) == \E r \in RunIds : runs[r] = NoJob /\ runs' = [runs EXCEPT ![r] = id]

fire(i) ==
  /\ pc = "fire" /\ i \in DOMAIN jobs
  /\ is_due(jobs[i]) /\ \A k \in 1..(i - 1) : ~is_due(jobs[k])
  /\ LET fired == [jobs[i] EXCEPT !.state.fired = TRUE]
     IN  /\ save_state(fired)
         /\ \/ /\ ~at_limit /\ ~fired.running /\ start(fired.id)
               /\ jobs' = [jobs EXCEPT ![i] =
                            plan_job([fired EXCEPT !.running = TRUE, !.queued = FALSE])]
            \/ /\ at_limit \/ fired.running
               /\ jobs' = [jobs EXCEPT ![i] = plan_job([fired EXCEPT !.queued = TRUE])]
               /\ UNCHANGED runs
  /\ UNCHANGED <<files_vars, disk_registry, pc, registry, manifests, reading>>

wait ==
  /\ pc = "fire" /\ pc' = "wait"
  /\ \A i \in DOMAIN jobs : ~is_due(jobs[i])
  /\ UNCHANGED <<files_vars, disk_registry, disk_states, registry, states,
                 manifests, jobs, runs, reading>>

\* Event::Finished of a run thread: the job may be gone by now.
finished(r) ==
  /\ pc = "wait" /\ pc' = "drain"
  /\ runs[r] # NoJob
  /\ runs' = [runs EXCEPT ![r] = NoJob]
  /\ \/ /\ holds(runs[r])
        /\ jobs' = [jobs EXCEPT ![index(runs[r])].running = FALSE]
        /\ save_state(jobs[index(runs[r])])
     \/ /\ ~holds(runs[r])
        /\ UNCHANGED <<jobs, states, disk_states>>
  /\ UNCHANGED <<files_vars, disk_registry, registry, manifests, reading>>

can_start_queued(job) == job.queued /\ is_ready(job) /\ ~job.running

start_queued(i) ==
  /\ pc = "drain" /\ ~at_limit /\ i \in DOMAIN jobs
  /\ can_start_queued(jobs[i]) /\ \A k \in 1..(i - 1) : ~can_start_queued(jobs[k])
  /\ start(jobs[i].id)
  /\ jobs' = [jobs EXCEPT ![i].running = TRUE, ![i].queued = FALSE]
  /\ UNCHANGED <<files_vars, disk_registry, disk_states, pc, registry, states,
                 manifests, reading>>

drained ==
  /\ pc = "drain" /\ pc' = "scan"
  /\ at_limit \/ \A i \in DOMAIN jobs : ~can_start_queued(jobs[i])
  /\ UNCHANGED <<files_vars, disk_registry, disk_states, registry, states,
                 manifests, jobs, runs, reading>>

-----------------------------------------------------------------------------
\* The other parties.

\* Somebody edits a manifest.
edit(p) ==
  /\ pc \in EditPoints /\ MapThenSumSet(LAMBDA q : modified[q], Paths) < MaxEdits
  /\ \E content \in Contents \ {files[p]} : files' = [files EXCEPT ![p] = content]
  /\ modified' = [modified EXCEPT ![p] = @ + 1]
  /\ slipped' = IF pc = "install" /\ p = Head(todo) THEN slipped \cup {p} ELSE slipped \ {p}
  /\ UNCHANGED <<disk_registry, disk_states, pc, registry, states, manifests,
                 jobs, runs, reading>>

\* Somebody writes the list by hand; nothing but reload_all reads it.
write_list ==
  /\ pc = "wait" /\ "list" \in Requests /\ disk_registry = registry
  /\ \E p \in Paths : disk_registry' = IF p \in Range(registry)
                        THEN without(registry, p)
                        ELSE Append(registry, p)
  /\ UNCHANGED <<files_vars, disk_states, pc, registry, states, manifests, jobs,
                 runs, reading>>

\* The planned fire of a job comes. It is missed when the job cannot run then;
\* the code does not tell the two apart.
comes(i) ==
  /\ pc = "wait" /\ i \in DOMAIN jobs /\ jobs[i].planned = "ahead"
  /\ jobs' = [jobs EXCEPT ![i].planned = IF is_ready(jobs[i]) THEN "due" ELSE "missed"]
  /\ UNCHANGED <<files_vars, disk_registry, disk_states, pc, registry, states,
                 manifests, runs, reading>>

\* Nothing has happened yet.
Init ==
  /\ files = First /\ modified = [p \in Paths |-> 0] /\ slipped = {}
  /\ disk_registry = Listed /\ disk_states = [id \in Ids |-> NoState]
  /\ pc = "down" /\ registry = <<>> /\ states = [id \in Ids |-> NoState]
  /\ manifests = <<>> /\ jobs = <<>> /\ runs = [r \in RunIds |-> NoJob]
  /\ todo = <<>> /\ fresh \in {First[p] : p \in Paths} /\ back = "scan"

\* Positions a job may have: each manifest holds at most this many jobs.
Positions == 1..(Cardinality(Paths) * Cardinality(Names))

Step ==
  \/ open \/ rescan \/ load \/ install \/ reloaded \/ wait \/ timeout \/ drained
  \/ \E i \in Positions : fire(i) \/ start_queued(i)

Next ==
  \/ Step \/ crash \/ reload_all \/ write_list
  \/ \E p \in Paths : add(p) \/ remove(p) \/ edit(p)
  \/ \E id \in Ids : hold(id, TRUE) \/ hold(id, FALSE)
  \/ \E r \in RunIds : finished(r)
  \/ \E i \in Positions : comes(i)

Spec == Init /\ [][Next]_vars

\* The daemon thread goes on, and recv_timeout ends within MAX_SLEEP.
FairSpec == Spec /\ WF_vars(Step)

-----------------------------------------------------------------------------
\* Properties.

TypeOK ==
  /\ files \in [Paths -> Contents] /\ modified \in [Paths -> 0..MaxEdits]
  /\ slipped \subseteq Paths
  /\ pc \in Points /\ back \in {"fire", "scan"}
  /\ disk_registry \in Seq(Paths) /\ registry \in Seq(Paths) /\ todo \in Seq(Paths)
  /\ states \in [Ids -> JobState] /\ disk_states \in [Ids -> JobState]
  /\ manifests \in Seq([path : Paths, modified : 0..MaxEdits])
  /\ jobs \in Seq(Job) /\ DOMAIN jobs \subseteq Positions
  /\ runs \in [RunIds -> Ids \cup {NoJob}] /\ fresh \in Contents

\* Between two reads of manifests, the list, the times of the files and the
\* jobs speak of the same manifests, each once.
JobsFollowRegistry ==
  pc \in {"scan", "fire", "wait", "drain"} =>
    /\ IsInjective(registry) /\ Len(manifests) = Len(registry)
    /\ {manifests[i].path : i \in DOMAIN manifests} = Range(registry)
    /\ {jobs[i].manifest : i \in DOMAIN jobs} = Range(registry)

\* admit: "An ID one of them already uses is refused", so no two jobs share
\* an ID, and a request that names one means one job.
UniqueIds == \A i, k \in DOMAIN jobs : jobs[i].id = jobs[k].id => i = k

\* store.rs: a restart does not "forget a paused job": what the daemon knows
\* of each job it holds is what state.json says.
StateKept == \A i \in DOMAIN jobs : disk_states[jobs[i].id] = jobs[i].state

\* docs/schedules.md: a fire that meets the same job's last run follows
\* on_overlap; with queue no job ever has two runs, across every edit, reload
\* and request.
NoOverlap ==
  \A r1, r2 \in RunIds : runs[r1] = runs[r2] /\ runs[r1] # NoJob => r1 = r2

\* `plan`: "A fire the daemon passed runs late only when the schedule asks for
\* it". A fire that came while its job could not run is due later only in one
\* way: the job lost its sandbox and got it back, with the schedule it had
\* before, so that `install` carried the fire over both times. No other edit,
\* no pause, no mended file and no restart leads there.
LateOnlyMended ==
  [][\A k \in DOMAIN jobs' : is_due(jobs'[k]) /\ jobs'[k].planned = "missed" =>
       \E i \in DOMAIN jobs :
         /\ jobs[i].id = jobs'[k].id /\ jobs[i].schedule = jobs'[k].schedule
         /\ jobs[i].planned = "missed" /\ (jobs[i].error \/ is_due(jobs[i]))]_vars

\* What a job did is forgotten only when some manifest is removed, and then of
\* an ID that no job has at that moment.
ForgottenOnRemove ==
  \A id \in Ids : disk_states[id].fired /\ ~disk_states'[id].fired =>
    /\ \E p \in Paths : remove(p)
    /\ \A i \in DOMAIN jobs' : jobs'[i].id # id

\* What the daemon knows of a job is on disk after every step (at first it holds
\* no jobs), and no edit, reload, restart, pause or run forgets it. (`install`
\* has it that the history of a manifest that stopped loading "must survive the
\* mistake"; with named schedules it does so only until a manifest is removed.)
HistoryKept == [][StateKept' /\ ForgottenOnRemove]_vars

\* `install`: "keeping what is going on": a waiting fire leaves a job that the
\* daemon goes on holding only as a run.
WaitingFireKept ==
  [][\A i \in DOMAIN jobs : \A k \in DOMAIN jobs' :
       jobs[i].queued /\ jobs'[k].id = jobs[i].id /\ ~jobs'[k].queued =>
         \E r \in RunIds : runs[r] = NoJob /\ runs'[r] = jobs[i].id]_vars

\* The jobs of a manifest are the ones its file describes now.
UpToDate(p) ==
  LET held == SelectSeq(jobs, LAMBDA job : job.manifest = p)
      read == jobs_of(p, files[p])
  IN  /\ Len(held) = Len(read)
      /\ \A i \in DOMAIN held : /\ held[i].id = read[i].id
                                /\ held[i].schedule = read[i].schedule
                                /\ held[i].error = read[i].error

\* job.rs: "An edited manifest changes the job it describes without a command":
\* the daemon catches up with the last edit of every watched manifest, unless
\* that edit fell between the read of the file and the look at its time; the
\* next edit or reload brings that one in, too.
EditSeen ==
  \A p \in Paths : []<>(p \notin Range(registry) \/ p \in slipped \/ UpToDate(p))
=============================================================================
