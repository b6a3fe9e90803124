------------------------------ MODULE Endpoint ------------------------------
(***************************************************************************)
(* The way into a daemon (crates/beez-daemon): the processes that want to  *)
(* be the daemon of one Beez root, the socket that lets one of them in,    *)
(* the clients that give a command over it, and the files that a client    *)
(* edits itself when nothing answers.                                      *)
(*                                                                         *)
(* Each client owns one manifest of its own name with one job, so that     *)
(* what it was told can be compared with what is on disk. Runs, schedules  *)
(* and the admission of jobs are Daemon's and Manifests'.                  *)
(*                                                                         *)
(* A definition whose comment starts with "Mutant" is no part of the       *)
(* model: it is a mistake the definition after it could have, and shows    *)
(* that a property would notice.                                           *)
(***************************************************************************)
EXTENDS Integers, Sequences, FiniteSets, SequencesExt

CONSTANTS
  Processes,      \* bound: processes that run `daemon run` at a time
  Clients,        \* people, each with a terminal and a manifest
  Commands,       \* Commands[c]: what the client gives
  Listed,         \* whose manifest is in the list at first
  Silent,         \* clients that connect and never write their line
  FailingFiles,   \* files whose write may fail
  Attempts,       \* bound: looks of `start` for its daemon
  MaxCommands,    \* bound: commands given in all
  MaxCrashes      \* bound: processes that are killed

Daemons == 1..Processes
None == "none"
Free == 0           \* no socket file
Dead == -1          \* the socket file of a process that is gone
Files == {"manifests", "state"}

\* Where each command leads: the file it changes, and to what.
File == [add |-> "manifests", remove |-> "manifests", pause |-> "state", resume |-> "state"]
Wanted == [add |-> TRUE, remove |-> FALSE, pause |-> TRUE, resume |-> FALSE]
Edits == DOMAIN File
Promise(k) == IF Wanted[k] THEN "in" ELSE "out"

ASSUME EndpointAssumption ==
  /\ Processes \in Nat
  /\ Commands \in [Clients -> SUBSET (Edits \cup {"reload", "stop", "start"})]
  /\ Listed \subseteq Clients /\ Silent \subseteq Clients /\ FailingFiles \subseteq Files
  /\ Attempts \in Nat /\ MaxCommands \in Nat /\ MaxCrashes \in Nat

VARIABLES
  socket,     \* daemon.sock: Free, Dead, or the process that listens on it
  disk,       \* disk[f]: manifests.json lists, state.json holds as paused
  pc,         \* where each process stands
  mem,        \* mem[d]: the daemon's copies of the files, and its jobs
  backlog,    \* backlog[d]: clients connected and not answered, in their order
  cpc,        \* where each client stands
  command,    \* the command of each client
  child,      \* the process `start` spawned
  tries,      \* looks that `start` has left
  copy,       \* the file as a client without a daemon read it
  sure,       \* sure[f][c]: what the last answer promised about the file
  given, crashes,
  together    \* history: two have started a daemon, or acted without one, at once

daemon_vars == <<pc, mem>>
client_vars == <<cpc, command, child, tries, copy, sure, given>>
vars == <<socket, disk, daemon_vars, client_vars, backlog, crashes, together>>

Memory == [manifests : SUBSET Clients, state : SUBSET Clients, jobs : SUBSET Clients]
Empty == [manifests |-> {}, state |-> {}, jobs |-> {}]
Starting == {"bind", "check", "unlink_dead", "rebind", "open"}
Serving == {"open", "serve"}
Offline == {"load", "save", "spawn", "await"}

Init ==
  /\ socket = Free
  /\ disk = [manifests |-> Listed, state |-> {}]
  /\ pc = [d \in Daemons |-> "down"]
  /\ mem = [d \in Daemons |-> Empty]
  /\ backlog = [d \in Daemons |-> <<>>]
  /\ cpc = [c \in Clients |-> "idle"]
  /\ command = [c \in Clients |-> None]
  /\ child = [c \in Clients |-> Free]
  /\ tries = [c \in Clients |-> 0]
  /\ copy = [c \in Clients |-> {}]
  /\ sure = [f \in Files |-> [c \in Clients |-> None]]
  /\ given = 0 /\ crashes = 0 /\ together = FALSE

-----------------------------------------------------------------------------
\* The socket. A connection succeeds while the process behind the file lives,
\* also before it accepts; it waits in the backlog. The connections of
\* is_running are left out: they are closed unused, and the listener answers
\* them with an error nobody reads.

is_running == socket \in Daemons

connect(c) == backlog' = [backlog EXCEPT ![socket] = Append(@, c)]

\* Nobody else is starting a daemon or editing files without one. The code does
\* not look: what comes of it is remembered, and guards nothing.
alone ==
  /\ \A d \in Daemons : pc[d] \notin Starting
  /\ \A c \in Clients : cpc[c] \notin Offline
meet == together' = (together \/ ~alone)

\* A new process. Their names are interchangeable, so it gets the first one.
is_next(d) == pc[d] = "down" /\ \A e \in 1..(d - 1) : pc[e] # "down"

goto(d, step) == pc' = [pc EXCEPT ![d] = step]
remember(d, list, state, jobs) ==
  mem' = [mem EXCEPT ![d] = [manifests |-> list, state |-> state, jobs |-> jobs]]

\* What everyone connected to d sees when its process ends: `send` reports
\* that the daemon closed the connection.
connected(d) == ToSet(backlog[d])
hang_up(d) ==
  /\ cpc' = [c \in Clients |-> IF c \in connected(d) THEN "idle" ELSE cpc[c]]
  /\ command' = [c \in Clients |-> IF c \in connected(d) THEN None ELSE command[c]]
  /\ backlog' = [backlog EXCEPT ![d] = <<>>]
  /\ UNCHANGED <<child, tries, copy, sure, given>>

-----------------------------------------------------------------------------
\* A daemon process: run, bind.

\* A service manager starts the process.
launch(d) ==
  /\ is_next(d)
  /\ goto(d, "bind") /\ meet
  /\ UNCHANGED <<socket, disk, mem, client_vars, backlog, crashes>>

bind(d) ==
  /\ pc[d] = "bind"
  /\ socket' = IF socket = Free THEN d ELSE socket
  /\ goto(d, IF socket = Free THEN "open" ELSE "check")
  /\ UNCHANGED <<disk, mem, client_vars, backlog, crashes, together>>

\* Mutant: a process that is refused cleans up on its way out.
check_cleans_up(d) ==
  /\ pc[d] = "check"
  /\ goto(d, IF is_running THEN "unlink" ELSE "unlink_dead")
  /\ UNCHANGED <<socket, disk, mem, client_vars, backlog, crashes, together>>

check(d) ==
  /\ pc[d] = "check"
  /\ goto(d, IF is_running THEN "down" ELSE "unlink_dead")
  /\ UNCHANGED <<socket, disk, mem, client_vars, backlog, crashes, together>>

\* remove_file fails when the file has gone meanwhile, and the process ends.
unlink_dead(d) ==
  /\ pc[d] = "unlink_dead"
  /\ socket' = Free
  /\ goto(d, IF socket = Free THEN "down" ELSE "rebind")
  /\ UNCHANGED <<disk, mem, client_vars, backlog, crashes, together>>

rebind(d) ==
  /\ pc[d] = "rebind"
  /\ socket' = IF socket = Free THEN d ELSE socket
  /\ goto(d, IF socket = Free THEN "open" ELSE "down")
  /\ UNCHANGED <<disk, mem, client_vars, backlog, crashes, together>>

open(d) ==
  /\ pc[d] = "open"
  /\ remember(d, disk["manifests"], disk["state"], disk["manifests"])
  /\ goto(d, "serve")
  /\ UNCHANGED <<socket, disk, client_vars, backlog, crashes, together>>

-----------------------------------------------------------------------------
\* The listener thread and the loop. The thread reads one connection at a
\* time and blocks until its line has come; the loop handles the commands in
\* that order.

listen(d) == backlog[d] # <<>> /\ cpc[Head(backlog[d])] = "wait"

\* One client gets its answer. A `done` promises what the command asked for.
respond(c, text) ==
  /\ cpc' = [cpc EXCEPT ![c] = "idle"]
  /\ command' = [command EXCEPT ![c] = None]
  /\ sure' = IF text = "done" /\ command[c] \in Edits
             THEN [sure EXCEPT ![File[command[c]]][c] = Promise(command[c])] ELSE sure
  /\ child' = [child EXCEPT ![c] = Free]
  /\ tries' = [tries EXCEPT ![c] = 0]
  /\ copy' = [copy EXCEPT ![c] = {}]
  /\ UNCHANGED given

with(S, c, on) == IF on THEN S \cup {c} ELSE S \ {c}

\* A write of the file; it may fail and leave the file.
save(f, content, saved) ==
  /\ saved \/ f \in FailingFiles
  /\ disk' = IF saved THEN [disk EXCEPT ![f] = content] ELSE disk

\* Mutant: the answer is given before the list is on disk.
watch_unsaved(d, c) ==
  /\ remember(d, mem[d].manifests \cup {c}, mem[d].state, mem[d].jobs \cup {c})
  /\ UNCHANGED disk
  /\ respond(c, "done")

\* add: the list changes in memory, then on disk; the jobs follow only then.
watch(d, c) ==
  LET list == mem[d].manifests \cup {c} IN
  \E saved \in BOOLEAN :
    /\ save("manifests", list, saved)
    /\ remember(d, list, mem[d].state, IF saved THEN mem[d].jobs \cup {c} ELSE mem[d].jobs)
    /\ respond(c, IF saved THEN "done" ELSE "error")

\* remove: the state of a job that is gone goes too (prune_states).
unwatch(d, c) ==
  LET list == mem[d].manifests \ {c}
      jobs == mem[d].jobs \ {c}
  IN
  \/ /\ c \notin mem[d].manifests
     /\ UNCHANGED <<mem, disk>> /\ respond(c, "error")
  \/ /\ c \in mem[d].manifests
     /\ \E saved, pruned \in BOOLEAN :
          /\ ~saved => "manifests" \in FailingFiles /\ ~pruned
          /\ saved /\ ~pruned => "state" \in FailingFiles
          /\ disk' = [manifests |-> IF saved THEN list ELSE disk["manifests"],
                      state |-> IF pruned THEN mem[d].state \cap jobs ELSE disk["state"]]
          /\ IF saved THEN remember(d, list, mem[d].state \cap jobs, jobs)
             ELSE remember(d, list, mem[d].state, mem[d].jobs)
          /\ respond(c, IF saved THEN "done" ELSE "error")

\* pause and resume: a failed write only goes in the log.
hold(d, c) ==
  LET paused == with(mem[d].state, c, Wanted[command[c]]) IN
  \/ c \notin mem[d].jobs /\ UNCHANGED <<mem, disk>> /\ respond(c, "error")
  \/ /\ c \in mem[d].jobs
     /\ remember(d, mem[d].manifests, paused, mem[d].jobs)
     /\ \E saved \in BOOLEAN : save("state", paused, saved)
     /\ respond(c, "done")

reload_all(d, c) ==
  /\ remember(d, disk["manifests"], mem[d].state, disk["manifests"])
  /\ UNCHANGED disk
  /\ respond(c, "done")

\* handle: one command off the channel. A stop is answered before the loop ends.
handle(d) ==
  /\ pc[d] = "serve" /\ listen(d)
  /\ LET c == Head(backlog[d]) IN
     \/ command[c] = "add" /\ watch(d, c) /\ UNCHANGED pc
     \/ command[c] = "remove" /\ unwatch(d, c) /\ UNCHANGED pc
     \/ command[c] \in {"pause", "resume"} /\ hold(d, c) /\ UNCHANGED pc
     \/ command[c] = "reload" /\ reload_all(d, c) /\ UNCHANGED pc
     \/ command[c] = "stop" /\ respond(c, "done") /\ goto(d, "unlink") /\ UNCHANGED <<mem, disk>>
  /\ backlog' = [backlog EXCEPT ![d] = Tail(@)]
  /\ UNCHANGED <<socket, crashes, together>>

signal(d) ==
  /\ pc[d] = "serve"
  /\ goto(d, "unlink")
  /\ UNCHANGED <<socket, disk, mem, client_vars, backlog, crashes, together>>

\* The end of run: the socket file goes, whoever it belongs to by now, then
\* daemon.json, which nothing reads, and the process.
unlink(d) ==
  /\ pc[d] = "unlink"
  /\ socket' = Free
  /\ goto(d, "leave")
  /\ UNCHANGED <<disk, mem, client_vars, backlog, crashes, together>>

leave(d) ==
  /\ pc[d] = "leave"
  /\ goto(d, "down")
  /\ mem' = [mem EXCEPT ![d] = Empty]
  /\ hang_up(d)
  /\ UNCHANGED <<socket, disk, crashes, together>>

\* The process is killed, or ends with an error of open or write_record, which
\* leaves the socket file behind as well.
crash(d) ==
  /\ pc[d] # "down" /\ crashes < MaxCrashes
  /\ crashes' = crashes + 1
  /\ socket' = IF socket = d THEN Dead ELSE socket
  /\ goto(d, "down")
  /\ mem' = [mem EXCEPT ![d] = Empty]
  /\ hang_up(d)
  /\ UNCHANGED <<disk, together>>

-----------------------------------------------------------------------------
\* A client: command, add, start.

\* A client gives a command. What it was told before holds no longer for what
\* it is about to change, and about its job if it adds or removes the manifest.
give(c) ==
  /\ cpc[c] = "idle" /\ given < MaxCommands
  /\ given' = given + 1
  /\ \E k \in Commands[c] :
       /\ command' = [command EXCEPT ![c] = k]
       /\ sure' = [f \in Files |-> [sure[f] EXCEPT ![c] =
            IF k \in {"add", "remove"} \/ (k \in Edits /\ File[k] = f) THEN None ELSE @]]
  /\ cpc' = [cpc EXCEPT ![c] = "look"]
  /\ UNCHANGED <<socket, disk, daemon_vars, child, tries, copy, backlog, crashes, together>>

step(c, to) == cpc' = [cpc EXCEPT ![c] = to] /\ UNCHANGED <<command, child, tries, copy, sure, given>>

\* is_running decides once; what follows acts on it.
look(c) ==
  /\ cpc[c] = "look"
  /\ \/ /\ \/ is_running /\ command[c] = "start" /\ respond(c, "error")
           \/ is_running /\ command[c] # "start" /\ step(c, "send")
           \/ ~is_running /\ command[c] \in {"reload", "stop"} /\ respond(c, "error")
        /\ UNCHANGED together
     \/ /\ ~is_running /\ meet
        /\ \/ command[c] = "start" /\ step(c, "spawn")
           \/ command[c] \in Edits /\ step(c, "load")
  /\ UNCHANGED <<socket, disk, daemon_vars, backlog, crashes>>

\* send: the daemon may be gone since the look.
send(c) ==
  /\ cpc[c] = "send"
  /\ \/ is_running /\ connect(c) /\ step(c, IF c \in Silent THEN "silent" ELSE "wait")
     \/ ~is_running /\ respond(c, "error") /\ UNCHANGED backlog
  /\ UNCHANGED <<socket, disk, daemon_vars, crashes, together>>

\* Without a daemon the client reads the files into a copy of its own ...
load(c) ==
  /\ cpc[c] = "load"
  /\ \/ /\ command[c] = "add" \/ c \in disk["manifests"]
        /\ cpc' = [cpc EXCEPT ![c] = "save"]
        /\ copy' = [copy EXCEPT ![c] = disk[File[command[c]]]]
        /\ UNCHANGED <<command, child, tries, sure, given>>
     \/ /\ command[c] # "add" /\ c \notin disk["manifests"]
        /\ respond(c, "error")
  /\ UNCHANGED <<socket, disk, daemon_vars, backlog, crashes, together>>

\* ... and writes it back with its change.
save_copy(c) ==
  LET f == File[command[c]] IN
  /\ cpc[c] = "save"
  /\ \E saved \in BOOLEAN :
       /\ save(f, with(copy[c], c, Wanted[command[c]]), saved)
       /\ respond(c, IF saved THEN "done" ELSE "error")
  /\ UNCHANGED <<socket, daemon_vars, backlog, crashes, together>>

spawn(c) ==
  /\ cpc[c] = "spawn"
  /\ \E d \in Daemons :
       /\ is_next(d) /\ goto(d, "bind")
       /\ child' = [child EXCEPT ![c] = d]
  /\ cpc' = [cpc EXCEPT ![c] = "await"]
  /\ tries' = [tries EXCEPT ![c] = Attempts]
  /\ UNCHANGED <<socket, disk, mem, command, copy, sure, given, backlog, crashes, together>>

\* Mutant: start waits until something answers.
await_for_ever(c) ==
  /\ cpc[c] = "await" /\ is_running /\ respond(c, "done")
  /\ UNCHANGED <<socket, disk, daemon_vars, backlog, crashes, together>>

\* The child is named as soon as anything answers.
await(c) ==
  /\ cpc[c] = "await"
  /\ \/ is_running /\ respond(c, "done")
     \/ ~is_running /\ tries[c] > 0 /\ tries' = [tries EXCEPT ![c] = @ - 1]
        /\ UNCHANGED <<cpc, command, child, copy, sure, given>>
     \/ ~is_running /\ tries[c] = 0 /\ respond(c, "error")
  /\ UNCHANGED <<socket, disk, daemon_vars, backlog, crashes, together>>

-----------------------------------------------------------------------------
daemon_step(d) ==
  \/ bind(d) \/ check(d) \/ unlink_dead(d) \/ rebind(d) \/ open(d)
  \/ handle(d) \/ unlink(d) \/ leave(d)
client_step(c) ==
  look(c) \/ send(c) \/ load(c) \/ save_copy(c) \/ spawn(c) \/ await(c)

Next ==
  \/ \E d \in Daemons : launch(d) \/ daemon_step(d) \/ signal(d) \/ crash(d)
  \/ \E c \in Clients : give(c) \/ client_step(c)

\* A process and a client at work go on.
Fairness ==
  /\ \A d \in Daemons : WF_vars(daemon_step(d))
  /\ \A c \in Clients : WF_vars(client_step(c))

Spec == Init /\ [][Next]_vars /\ Fairness

-----------------------------------------------------------------------------
\* Properties.

\* Every variable keeps its type (the fields of the daemon and of its clients).
TypeOK ==
  /\ socket \in Daemons \cup {Free, Dead}
  /\ disk \in [Files -> SUBSET Clients]
  /\ pc \in [Daemons -> Starting \cup {"down", "serve", "unlink", "leave"}]
  /\ mem \in [Daemons -> Memory]
  /\ backlog \in [Daemons -> Seq(Clients)]
  /\ cpc \in [Clients -> Offline \cup {"idle", "look", "send", "silent", "wait"}]
  /\ command \in [Clients -> Edits \cup {"reload", "stop", "start", None}]
  /\ child \in [Clients -> Daemons \cup {Free}]
  /\ tries \in [Clients -> 0..Attempts] /\ copy \in [Clients -> SUBSET Clients]
  /\ sure \in [Files -> [Clients -> {"in", "out", None}]]
  /\ \A c \in Clients : /\ cpc[c] \in {"load", "save"} => command[c] \in Edits
                        /\ cpc[c] \in {"spawn", "await"} => command[c] = "start"

\* `run` (daemon.rs:84): "One Beez root holds one daemon, and the socket itself
\* keeps a second one out". The socket leads to every daemon that serves, so
\* there is one, and no exit, refusal or start of another process takes it out
\* of reach (bind and the end of run), until two have started at once.
Reachable == ~together => \A d \in Daemons : pc[d] \in Serving => socket = d

\* What a client was told is done is on disk and stays there: over exits,
\* kills and restarts of the daemon, over the edits of others, and over writes
\* of the list that fail (apply::watch, apply::unwatch, client::write_registry,
\* hold). A pause is kept as long as its manifest is on the list.
AnsweredIsKept ==
  \A f \in Files, c \in Clients :
    /\ sure[f][c] = "in" => c \in disk[f] \/ (f = "state" /\ c \notin disk["manifests"])
    /\ sure[f][c] = "out" => c \notin disk[f]

\* `start` answers with the process ID of its child when something answers:
\* it is then the child that answers, and no other daemon.
StartNamesDaemon ==
  \A c \in Clients :
    cpc[c] = "await" /\ cpc'[c] = "idle" /\ is_running => socket = child[c]

\* What a client is told is so, and stays so (at first nobody was told anything),
\* until two have acted without a daemon at once.
AnswersHold == [][~together' => AnsweredIsKept' /\ StartNamesDaemon]_vars

\* Every client that writes its command gets an answer or an error, whatever
\* daemons start, stop and die meanwhile, also when two serve at once. A spawn
\* that finds all Processes in use has met a bound of the model.
CommandAnswered ==
  \A c \in Clients \ Silent :
    cpc[c] # "idle" ~> cpc[c] = "idle" \/ (cpc[c] = "spawn" /\ \A d \in Daemons : pc[d] # "down")
=============================================================================
