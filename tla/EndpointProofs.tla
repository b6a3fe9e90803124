--------------------------- MODULE EndpointProofs ---------------------------
(***************************************************************************)
(* Theorems about Endpoint, for any number of processes, clients and       *)
(* commands, with kills at any moment.                                     *)
(***************************************************************************)
EXTENDS Endpoint, TLAPS

-----------------------------------------------------------------------------
\* Lemmas about the operators of the model.

\* The commands that change a file, and the files they change.
LEMMA EditsAre == Edits = {"add", "remove", "pause", "resume"}
BY DEF Edits, File

\* An answer frees its client and says something about one file at most.
LEMMA RespondType ==
  ASSUME TypeOK, NEW c \in Clients, NEW text, respond(c, text)
  PROVE  /\ cpc' \in [Clients -> Offline \cup {"idle", "look", "send", "silent", "wait"}]
         /\ command' \in [Clients -> Edits \cup {"reload", "stop", "start", None}]
         /\ child' \in [Clients -> Daemons \cup {Free}]
         /\ tries' \in [Clients -> 0..Attempts] /\ copy' \in [Clients -> SUBSET Clients]
         /\ sure' \in [Files -> [Clients -> {"in", "out", None}]]
         /\ \A b \in Clients : /\ cpc'[b] \in {"load", "save"} => command'[b] \in Edits
                               /\ cpc'[b] \in {"spawn", "await"} => command'[b] = "start"
<1>1. /\ cpc' \in [Clients -> Offline \cup {"idle", "look", "send", "silent", "wait"}]
      /\ command' \in [Clients -> Edits \cup {"reload", "stop", "start", None}]
      /\ child' \in [Clients -> Daemons \cup {Free}]
      /\ copy' \in [Clients -> SUBSET Clients]
  BY DEF respond, TypeOK
<1>2. tries' \in [Clients -> 0..Attempts]
  BY EndpointAssumption DEF respond, TypeOK
<1>3. sure' \in [Files -> [Clients -> {"in", "out", None}]]
  <2>1. CASE ~(text = "done" /\ command[c] \in Edits)
    BY <2>1 DEF respond, TypeOK
  <2>2. CASE text = "done" /\ command[c] \in Edits
    <3>1. File[command[c]] \in Files /\ Promise(command[c]) \in {"in", "out"}
      BY <2>2 DEF Edits, File, Files, Promise
    <3>2. sure' = [sure EXCEPT ![File[command[c]]][c] = Promise(command[c])]
      BY <2>2 DEF respond
    <3> QED BY <3>1, <3>2 DEF TypeOK
  <2> QED BY <2>1, <2>2
<1>4. ASSUME NEW b \in Clients
      PROVE  /\ cpc'[b] \in {"load", "save"} => command'[b] \in Edits
             /\ cpc'[b] \in {"spawn", "await"} => command'[b] = "start"
  BY DEF respond, TypeOK
<1> QED BY <1>1, <1>2, <1>3, <1>4

\* A process that ends frees the clients that wait for it.
LEMMA HangUpType ==
  ASSUME TypeOK, NEW d \in Daemons, hang_up(d)
  PROVE  /\ cpc' \in [Clients -> Offline \cup {"idle", "look", "send", "silent", "wait"}]
         /\ command' \in [Clients -> Edits \cup {"reload", "stop", "start", None}]
         /\ backlog' \in [Daemons -> Seq(Clients)]
         /\ UNCHANGED <<child, tries, copy, sure>>
         /\ \A b \in Clients : /\ cpc'[b] \in {"load", "save"} => command'[b] \in Edits
                               /\ cpc'[b] \in {"spawn", "await"} => command'[b] = "start"
BY DEF hang_up, TypeOK

\* A handler changes the files and the copies of its own daemon only.
Handled(d, c) ==
  \/ command[c] = "add" /\ watch(d, c) /\ UNCHANGED pc
  \/ command[c] = "remove" /\ unwatch(d, c) /\ UNCHANGED pc
  \/ command[c] \in {"pause", "resume"} /\ hold(d, c) /\ UNCHANGED pc
  \/ command[c] = "reload" /\ reload_all(d, c) /\ UNCHANGED pc
  \/ command[c] = "stop" /\ respond(c, "done") /\ goto(d, "unlink") /\ UNCHANGED <<mem, disk>>

\* The client whose command is handled is the first of the queue.
LEMMA HandleClient ==
  ASSUME TypeOK, NEW d \in Daemons, handle(d)
  PROVE  /\ Head(backlog[d]) \in Clients /\ Handled(d, Head(backlog[d]))
         /\ pc[d] = "serve" /\ cpc[Head(backlog[d])] = "wait"
         /\ backlog' = [backlog EXCEPT ![d] = Tail(@)]
         /\ UNCHANGED <<socket, crashes>>
BY DEF handle, listen, Handled, TypeOK

\* Every handler answers its client.
LEMMA HandledResponds ==
  ASSUME NEW d, NEW c, Handled(d, c)
  PROVE  \E text \in {"done", "error"} : respond(c, text)
BY DEF Handled, watch, unwatch, hold, reload_all

\* The initial state is well typed.
LEMMA TypeInit == Init => TypeOK
<1> SUFFICES ASSUME Init PROVE TypeOK
  OBVIOUS
<1>1. tries \in [Clients -> 0..Attempts]
  BY EndpointAssumption DEF Init
<1>2. mem \in [Daemons -> Memory]
  BY DEF Init, Empty, Memory
<1> QED BY <1>1, <1>2, EndpointAssumption DEF Init, TypeOK, Files

\* What a handler leaves in memory and on disk is well typed.
LEMMA HandledType ==
  ASSUME TypeOK, NEW d \in Daemons, NEW c \in Clients, Handled(d, c)
  PROVE  /\ disk' \in [Files -> SUBSET Clients]
         /\ mem' \in [Daemons -> Memory]
         /\ pc' \in [Daemons -> Starting \cup {"down", "serve", "unlink", "leave"}]
<1>1. pc' \in [Daemons -> Starting \cup {"down", "serve", "unlink", "leave"}]
  BY DEF Handled, TypeOK, goto
<1>2. /\ mem[d].manifests \in SUBSET Clients /\ mem[d].state \in SUBSET Clients
      /\ mem[d].jobs \in SUBSET Clients
      /\ disk["manifests"] \in SUBSET Clients /\ disk["state"] \in SUBSET Clients
  BY DEF TypeOK, Files, Memory
<1>3. ASSUME NEW list \in SUBSET Clients, NEW state \in SUBSET Clients, NEW jobs \in SUBSET Clients,
             remember(d, list, state, jobs)
      PROVE  mem' \in [Daemons -> Memory]
  BY <1>3 DEF remember, Memory, TypeOK
<1>4. ASSUME NEW f \in Files, NEW content \in SUBSET Clients, NEW saved \in BOOLEAN, save(f, content, saved)
      PROVE  disk' \in [Files -> SUBSET Clients]
  BY <1>4 DEF save, TypeOK
<1>5. "manifests" \in Files /\ "state" \in Files
  BY DEF Files
<1>6. CASE watch(d, c)
  <2>1. PICK saved \in BOOLEAN :
          /\ save("manifests", mem[d].manifests \cup {c}, saved)
          /\ remember(d, mem[d].manifests \cup {c}, mem[d].state,
                      IF saved THEN mem[d].jobs \cup {c} ELSE mem[d].jobs)
    BY <1>6 DEF watch
  <2>2. /\ mem[d].manifests \cup {c} \in SUBSET Clients
        /\ (IF saved THEN mem[d].jobs \cup {c} ELSE mem[d].jobs) \in SUBSET Clients
    BY <1>2
  <2>3. disk' \in [Files -> SUBSET Clients]
    BY <1>4, <1>5, <2>1, <2>2
  <2>4. mem' \in [Daemons -> Memory]
    BY <1>2, <1>3, <2>1, <2>2
  <2> QED BY <1>1, <2>3, <2>4
<1>7. CASE unwatch(d, c) /\ ~UNCHANGED <<mem, disk>>
  <2> DEFINE list == mem[d].manifests \ {c}
             jobs == mem[d].jobs \ {c}
             left == mem[d].state \cap jobs
  <2>1. PICK saved, pruned \in BOOLEAN :
          /\ disk' = [manifests |-> IF saved THEN list ELSE disk["manifests"],
                      state |-> IF pruned THEN left ELSE disk["state"]]
          /\ IF saved THEN remember(d, list, left, jobs)
             ELSE remember(d, list, mem[d].state, mem[d].jobs)
    BY <1>7 DEF unwatch
  <2>2. list \in SUBSET Clients /\ jobs \in SUBSET Clients /\ left \in SUBSET Clients
    BY <1>2
  <2> HIDE DEF list, jobs, left
  <2>3. disk' \in [Files -> SUBSET Clients]
    BY <1>2, <2>1, <2>2 DEF Files
  <2>4. mem' \in [Daemons -> Memory]
    BY <1>2, <1>3, <2>1, <2>2
  <2> QED BY <1>1, <2>3, <2>4
<1>8. CASE hold(d, c) /\ ~UNCHANGED <<mem, disk>>
  <2> DEFINE paused == with(mem[d].state, c, Wanted[command[c]])
  <2>1. PICK saved \in BOOLEAN :
          /\ remember(d, mem[d].manifests, paused, mem[d].jobs)
          /\ save("state", paused, saved)
    BY <1>8 DEF hold
  <2>2. paused \in SUBSET Clients
    BY <1>2 DEF with
  <2> HIDE DEF paused
  <2> QED BY <1>1, <1>2, <1>3, <1>4, <1>5, <2>1, <2>2
<1>9. CASE reload_all(d, c)
  <2>1. mem' \in [Daemons -> Memory]
    BY <1>2, <1>3, <1>9 DEF reload_all
  <2>2. disk' \in [Files -> SUBSET Clients]
    BY <1>9 DEF reload_all, TypeOK
  <2> QED BY <1>1, <2>1, <2>2
<1>10. CASE UNCHANGED <<mem, disk>>
  BY <1>1, <1>10 DEF TypeOK
<1> QED BY <1>6, <1>7, <1>8, <1>9, <1>10 DEF Handled

\* Every step keeps the types.
LEMMA TypeStep == TypeOK /\ [Next]_vars => TypeOK'
<1> SUFFICES ASSUME TypeOK, [Next]_vars PROVE TypeOK'
  OBVIOUS
<1>1. ASSUME NEW d \in Daemons,
             launch(d) \/ bind(d) \/ check(d) \/ unlink_dead(d) \/ rebind(d) \/ signal(d) \/ unlink(d)
      PROVE  TypeOK'
  BY <1>1 DEF launch, bind, check, unlink_dead, rebind, signal, unlink, goto, Starting,
              client_vars, TypeOK
<1>2. ASSUME NEW d \in Daemons, open(d) PROVE TypeOK'
  BY <1>2 DEF open, remember, goto, client_vars, Memory, TypeOK, Files
<1>3. ASSUME NEW d \in Daemons, handle(d) PROVE TypeOK'
  <2> DEFINE c == Head(backlog[d])
  <2>1. /\ c \in Clients /\ Handled(d, c) /\ backlog[d] # <<>>
        /\ backlog' = [backlog EXCEPT ![d] = Tail(@)]
        /\ UNCHANGED socket
    BY <1>3, HandleClient DEF handle, listen
  <2>2. PICK text \in {"done", "error"} : respond(c, text)
    BY <2>1, HandledResponds
  <2>3. backlog' \in [Daemons -> Seq(Clients)]
    BY <2>1 DEF TypeOK
  <2> HIDE DEF c
  <2> QED BY <2>1, <2>2, <2>3, RespondType, HandledType DEF TypeOK
<1>4. ASSUME NEW d \in Daemons, leave(d) \/ crash(d) PROVE TypeOK'
  <2>1. hang_up(d) /\ mem' = [mem EXCEPT ![d] = Empty]
    BY <1>4 DEF leave, crash
  <2>2. mem' \in [Daemons -> Memory]
    BY <2>1 DEF Empty, Memory, TypeOK
  <2>3. /\ pc' \in [Daemons -> Starting \cup {"down", "serve", "unlink", "leave"}]
        /\ socket' \in Daemons \cup {Free, Dead} /\ UNCHANGED disk
    BY <1>4 DEF leave, crash, goto, TypeOK
  <2> QED BY <2>1, <2>2, <2>3, HangUpType DEF TypeOK
<1>5. ASSUME NEW c \in Clients, give(c) PROVE TypeOK'
  <2>1. PICK k \in Commands[c] :
          /\ command' = [command EXCEPT ![c] = k]
          /\ sure' = [f \in Files |-> [sure[f] EXCEPT ![c] =
               IF k \in {"add", "remove"} \/ (k \in Edits /\ File[k] = f) THEN None ELSE @]]
    BY <1>5 DEF give
  <2>2. k \in Edits \cup {"reload", "stop", "start"}
    BY EndpointAssumption
  <2>3. sure' \in [Files -> [Clients -> {"in", "out", None}]]
    BY <2>1 DEF TypeOK
  <2> QED BY <1>5, <2>1, <2>2, <2>3 DEF give, daemon_vars, TypeOK
<1>6. ASSUME NEW c \in Clients, look(c) \/ load(c) \/ await(c) PROVE TypeOK'
  <2>1. UNCHANGED <<socket, disk, daemon_vars, backlog>>
    BY <1>6 DEF look, load, await
  <2>2. CASE \E text \in {"done", "error"} : respond(c, text)
    BY <2>1, <2>2, RespondType DEF daemon_vars, TypeOK
  <2>3. CASE look(c) /\ ~\E text \in {"done", "error"} : respond(c, text)
    <3>1. /\ UNCHANGED <<command, child, tries, copy, sure>>
          /\ \/ cpc' = [cpc EXCEPT ![c] = "send"]
             \/ cpc' = [cpc EXCEPT ![c] = "spawn"] /\ command[c] = "start"
             \/ cpc' = [cpc EXCEPT ![c] = "load"] /\ command[c] \in Edits
      BY <2>3 DEF look, step
    <3> QED BY <2>1, <3>1 DEF daemon_vars, Offline, TypeOK
  <2>4. CASE load(c) /\ ~\E text \in {"done", "error"} : respond(c, text)
    <3>1. command[c] \in Edits => File[command[c]] \in Files
      BY DEF Edits, File, Files
    <3>2. copy' \in [Clients -> SUBSET Clients]
      BY <2>4, <3>1 DEF load, TypeOK
    <3>3. /\ cpc[c] = "load" /\ cpc' = [cpc EXCEPT ![c] = "save"]
          /\ UNCHANGED <<command, child, tries, sure>>
      BY <2>4 DEF load
    <3> QED BY <2>1, <3>2, <3>3 DEF daemon_vars, Offline, TypeOK
  <2>5. CASE await(c) /\ ~\E text \in {"done", "error"} : respond(c, text)
    <3>1. /\ tries[c] > 0 /\ tries' = [tries EXCEPT ![c] = @ - 1]
          /\ UNCHANGED <<cpc, command, child, copy, sure>>
      BY <2>5 DEF await
    <3>2. tries' \in [Clients -> 0..Attempts]
      BY <3>1, EndpointAssumption DEF TypeOK
    <3> QED BY <2>1, <3>1, <3>2 DEF daemon_vars, TypeOK
  <2> QED BY <1>6, <2>2, <2>3, <2>4, <2>5
<1>7. ASSUME NEW c \in Clients, send(c) PROVE TypeOK'
  <2>1. UNCHANGED <<socket, disk, daemon_vars>>
    BY <1>7 DEF send
  <2>2. CASE respond(c, "error") /\ UNCHANGED backlog
    BY <2>1, <2>2, RespondType DEF daemon_vars, TypeOK
  <2>3. CASE is_running /\ connect(c) /\ step(c, IF c \in Silent THEN "silent" ELSE "wait")
    BY <2>1, <2>3 DEF is_running, connect, step, daemon_vars, TypeOK
  <2> QED BY <1>7, <2>2, <2>3 DEF send
<1>8. ASSUME NEW c \in Clients, save_copy(c) PROVE TypeOK'
  <2>1. PICK saved \in BOOLEAN :
          /\ save(File[command[c]], with(copy[c], c, Wanted[command[c]]), saved)
          /\ respond(c, IF saved THEN "done" ELSE "error")
    BY <1>8 DEF save_copy
  <2>2. disk' \in [Files -> SUBSET Clients]
    BY <2>1 DEF save, with, TypeOK
  <2> QED BY <1>8, <2>1, <2>2, RespondType DEF save_copy, daemon_vars, TypeOK
<1>9. ASSUME NEW c \in Clients, spawn(c) PROVE TypeOK'
  BY <1>9, EndpointAssumption DEF spawn, goto, Starting, Offline, TypeOK
<1>10. CASE UNCHANGED vars
  BY <1>10 DEF vars, daemon_vars, client_vars, TypeOK
<1> QED BY <1>1, <1>2, <1>3, <1>4, <1>5, <1>6, <1>7, <1>8, <1>9, <1>10
        DEF Next, daemon_step, client_step

\* Every state of the processes and clients of a root is well typed.
THEOREM TypeCorrect == Spec => []TypeOK
BY TypeInit, TypeStep, PTL DEF Spec

-----------------------------------------------------------------------------
\* The door. Until two act without an answering daemon at once, at most one
\* process is starting, and the process behind the socket is the one that
\* serves or is about to take the file away.

Holding == Serving \cup {"unlink"}

AloneInv ==
  /\ \A d, e \in Daemons : pc[d] \in Starting /\ pc[e] \in Starting => d = e
  /\ \A b, c \in Clients : cpc[b] \in Offline /\ cpc[c] \in Offline => b = c
  /\ \A c \in Clients, d \in Daemons : pc[d] \in Starting \cup Holding =>
       /\ cpc[c] \notin {"load", "save", "spawn"}
       /\ cpc[c] = "await" => child[c] = d

SocketInv ==
  /\ \A d \in Daemons : pc[d] \in Holding <=> socket = d
  /\ \A d \in Daemons : pc[d] = "unlink_dead" => ~is_running
  /\ \A d \in Daemons : pc[d] = "rebind" => socket = Free

DoorInv == TypeOK /\ AloneInv /\ SocketInv

\* Process IDs are told apart from the states of the socket file.
LEMMA DaemonsAreNot == Free \notin Daemons /\ Dead \notin Daemons
BY EndpointAssumption DEF Free, Dead, Daemons

LEMMA DoorInit == Init => DoorInv
BY TypeInit, DaemonsAreNot DEF Init, DoorInv, AloneInv, SocketInv, Starting, Holding, Serving, Offline

\* When nobody acts without a daemon and none listens, none holds the socket.
LEMMA AloneMeans ==
  ASSUME DoorInv, alone, ~is_running
  PROVE  \A d \in Daemons : pc[d] \notin Starting \cup Holding
BY DEF DoorInv, SocketInv, alone, is_running

\* A step that only lets clients go back to idle keeps them apart.
LEMMA FewerOffline ==
  ASSUME DoorInv, UNCHANGED <<socket, pc>>,
         \A c \in Clients : cpc'[c] \in Offline => cpc'[c] = cpc[c] /\ child'[c] = child[c]
  PROVE  AloneInv' /\ SocketInv'
<1>1. SocketInv'
  BY DEF DoorInv, SocketInv, is_running
<1>2. AloneInv'
  BY DEF DoorInv, AloneInv, Offline
<1> QED BY <1>1, <1>2

\* The steps of a process keep the door.
LEMMA DoorDaemon ==
  ASSUME DoorInv, ~together', NEW d \in Daemons,
         launch(d) \/ daemon_step(d) \/ signal(d) \/ crash(d)
  PROVE  AloneInv' /\ SocketInv'
<1> USE DEF DoorInv
<1>1. CASE launch(d)
  <2>1. AloneInv'
    <3>1. alone
      BY <1>1 DEF launch, meet
    <3> QED BY <1>1, <3>1 DEF launch, alone, goto, client_vars, TypeOK, AloneInv, Starting, Offline, Holding, Serving
  <2>2. SocketInv'
    BY <1>1 DEF launch, is_next, goto, is_running, TypeOK, SocketInv, Starting, Holding, Serving
  <2> QED BY <2>1, <2>2
<1>2. CASE bind(d) \/ check(d) \/ unlink_dead(d) \/ rebind(d) \/ open(d) \/ unlink(d) \/ signal(d)
  <2>1. AloneInv'
    <3>1. UNCHANGED <<cpc, child>>
      BY <1>2 DEF bind, check, unlink_dead, rebind, open, unlink, signal, client_vars
    <3>2. \A e \in Daemons : /\ pc'[e] \in Starting => pc[e] \in Starting
                             /\ pc'[e] \in Starting \cup Holding => pc[e] \in Starting \cup Holding
      BY <1>2 DEF bind, check, unlink_dead, rebind, open, unlink, signal, goto,
                  TypeOK, Starting, Holding, Serving
    <3> QED BY <3>1, <3>2 DEF AloneInv
  <2>2. SocketInv'
    <3>1. CASE bind(d) \/ rebind(d)
      <4>1. \A e \in Daemons : e # d => pc'[e] = pc[e] /\ pc[e] \notin Starting
        BY <3>1 DEF bind, rebind, goto, TypeOK, AloneInv, Starting
      <4>2. CASE socket = Free
        <5>1. socket' = d /\ pc'[d] = "open"
          BY <3>1, <4>2 DEF bind, rebind, goto, TypeOK
        <5> QED BY <4>1, <4>2, <5>1, DaemonsAreNot DEF SocketInv, is_running, Starting, Holding, Serving
      <4>3. CASE socket # Free
        <5>1. socket' = socket /\ pc'[d] \in {"check", "down"} /\ pc[d] \in {"bind", "rebind"}
          BY <3>1, <4>3 DEF bind, rebind, goto, TypeOK
        <5> QED BY <4>1, <5>1 DEF SocketInv, is_running, Starting, Holding, Serving
      <4> QED BY <4>2, <4>3
    <3>2. CASE check(d) \/ open(d) \/ signal(d)
      BY <3>2 DEF check, open, signal, goto, is_running, TypeOK, SocketInv, Holding, Serving
    <3>3. CASE unlink_dead(d) \/ unlink(d)
      BY <3>3, DaemonsAreNot DEF unlink_dead, unlink, goto, is_running, TypeOK, AloneInv, SocketInv,
                                 Starting, Holding, Serving
    <3> QED BY <1>2, <3>1, <3>2, <3>3
  <2> QED BY <2>1, <2>2
<1>3. CASE handle(d)
  <2>1. PICK c \in Clients : Handled(d, c) /\ pc[d] = "serve" /\ UNCHANGED socket
    BY <1>3, HandleClient
  <2>2. PICK text \in {"done", "error"} : respond(c, text)
    BY <2>1, HandledResponds
  <2>3. \A b \in Clients : cpc'[b] \in Offline => cpc'[b] = cpc[b] /\ child'[b] = child[b]
    BY <2>2 DEF respond, Offline, TypeOK
  <2>4. CASE UNCHANGED pc
    BY <2>1, <2>3, <2>4, FewerOffline
  <2>5. CASE pc' = [pc EXCEPT ![d] = "unlink"]
    <3>1. AloneInv'
      BY <2>1, <2>3, <2>5 DEF AloneInv, TypeOK, Starting, Holding, Serving, Offline
    <3>2. SocketInv'
      BY <2>1, <2>5 DEF SocketInv, TypeOK, is_running, Holding, Serving
    <3> QED BY <3>1, <3>2
  <2> QED BY <2>1, <2>4, <2>5 DEF Handled, goto
<1>4. CASE leave(d) \/ crash(d)
  <2>1. /\ \A b \in Clients : cpc'[b] \in Offline => cpc'[b] = cpc[b] /\ child'[b] = child[b]
        /\ pc' = [pc EXCEPT ![d] = "down"]
    BY <1>4 DEF leave, crash, hang_up, goto, Offline, TypeOK
  <2>2. AloneInv'
    BY <2>1 DEF AloneInv, TypeOK, Starting, Holding, Serving, Offline
  <2>3. SocketInv'
    BY <1>4, <2>1, DaemonsAreNot DEF leave, crash, SocketInv, is_running, TypeOK, Holding, Serving
  <2> QED BY <2>2, <2>3
<1> QED BY <1>1, <1>2, <1>3, <1>4 DEF daemon_step

\* The steps of a client keep the door.
LEMMA DoorClient ==
  ASSUME DoorInv, ~together', NEW c \in Clients, give(c) \/ client_step(c)
  PROVE  AloneInv' /\ SocketInv'
<1>0. TypeOK
  BY DEF DoorInv
<1>1. CASE UNCHANGED <<socket, pc>> /\ \E text \in {"done", "error"} : respond(c, text)
  <2>1. \A b \in Clients : cpc'[b] \in Offline => cpc'[b] = cpc[b] /\ child'[b] = child[b]
    BY <1>0, <1>1 DEF respond, Offline, TypeOK
  <2> QED BY <1>1, <2>1, FewerOffline
<1>2. CASE give(c) \/ send(c) \/ save_copy(c)
  <2>1. UNCHANGED <<socket, pc>>
    BY <1>2 DEF give, send, save_copy, daemon_vars
  <2>2. CASE give(c) \/ (send(c) /\ step(c, IF c \in Silent THEN "silent" ELSE "wait"))
    <3>1. \A b \in Clients : cpc'[b] \in Offline => cpc'[b] = cpc[b] /\ child'[b] = child[b]
      BY <1>0, <2>2 DEF give, step, Offline, TypeOK
    <3> QED BY <2>1, <3>1, FewerOffline
  <2> QED BY <1>1, <1>2, <2>1, <2>2 DEF send, save_copy
<1>3. CASE look(c)
  <2>1. UNCHANGED <<socket, pc>>
    BY <1>3 DEF look, daemon_vars
  <2>2. CASE step(c, "send")
    <3>1. \A b \in Clients : cpc'[b] \in Offline => cpc'[b] = cpc[b] /\ child'[b] = child[b]
      BY <1>0, <2>2 DEF step, Offline, TypeOK
    <3> QED BY <2>1, <3>1, FewerOffline
  <2>3. CASE ~is_running /\ alone /\ (step(c, "spawn") \/ step(c, "load"))
    <3>1. SocketInv'
      BY <2>1 DEF DoorInv, SocketInv, is_running
    <3>2. \A d \in Daemons : pc'[d] \notin Starting \cup Holding
      BY <2>1, <2>3, AloneMeans
    <3>3. \A b \in Clients : cpc'[b] \in Offline => b = c
      BY <1>0, <2>3 DEF alone, step, TypeOK
    <3> QED BY <3>1, <3>2, <3>3 DEF AloneInv
  <2>4. meet => alone
    BY DEF meet
  <2> QED BY <1>1, <1>3, <2>1, <2>2, <2>3, <2>4 DEF look
<1>4. CASE load(c)
  <2>1. UNCHANGED <<socket, pc>>
    BY <1>4 DEF load, daemon_vars
  <2>2. CASE cpc' = [cpc EXCEPT ![c] = "save"] /\ UNCHANGED child
    <3>1. SocketInv'
      BY <2>1 DEF DoorInv, SocketInv, is_running
    <3>2. AloneInv'
      BY <1>0, <1>4, <2>1, <2>2 DEF DoorInv, AloneInv, load, Offline, TypeOK
    <3> QED BY <3>1, <3>2
  <2> QED BY <1>1, <1>4, <2>1, <2>2 DEF load
<1>5. CASE spawn(c)
  <2>1. PICK d \in Daemons : pc[d] = "down" /\ pc' = [pc EXCEPT ![d] = "bind"] /\ child' = [child EXCEPT ![c] = d]
    BY <1>5 DEF spawn, is_next, goto
  <2>2. cpc[c] = "spawn" /\ cpc' = [cpc EXCEPT ![c] = "await"] /\ UNCHANGED socket
    BY <1>5 DEF spawn
  <2>3. \A e \in Daemons : pc[e] \notin Starting \cup Holding
    BY <2>2 DEF DoorInv, AloneInv
  <2>4. \A b \in Clients : cpc'[b] \in Offline => b = c
    BY <1>0, <2>2 DEF DoorInv, AloneInv, Offline, TypeOK
  <2>5. AloneInv'
    <3>1. \A e \in Daemons : pc'[e] \in Starting \cup Holding => e = d
      BY <1>0, <2>1, <2>3 DEF TypeOK
    <3>2. cpc'[c] = "await" /\ child'[c] = d
      BY <1>0, <2>1, <2>2 DEF TypeOK
    <3> QED BY <2>4, <3>1, <3>2 DEF AloneInv, Offline
  <2>6. SocketInv'
    BY <1>0, <2>1, <2>2 DEF DoorInv, SocketInv, is_running, TypeOK, Holding, Serving
  <2> QED BY <2>5, <2>6
<1>6. CASE await(c)
  <2>1. UNCHANGED <<socket, pc>>
    BY <1>6 DEF await, daemon_vars
  <2>2. CASE UNCHANGED <<cpc, child>>
    BY <2>1, <2>2, FewerOffline
  <2> QED BY <1>1, <1>6, <2>1, <2>2 DEF await
<1> QED BY <1>2, <1>3, <1>4, <1>5, <1>6 DEF client_step

\* Who has met has met for ever.
LEMMA MetForEver == ASSUME [Next]_vars, together PROVE together'
<1>1. ASSUME NEW d \in Daemons, launch(d) \/ daemon_step(d) \/ signal(d) \/ crash(d) PROVE together'
  BY <1>1 DEF launch, meet, daemon_step, bind, check, unlink_dead, rebind, open, handle, unlink, leave,
              signal, crash
<1>2. ASSUME NEW c \in Clients, give(c) \/ client_step(c) PROVE together'
  BY <1>2 DEF give, client_step, look, meet, send, load, save_copy, spawn, await
<1> QED BY <1>1, <1>2 DEF Next, vars

\* Every step keeps the door.
LEMMA DoorStep == ASSUME ~together' PROVE DoorInv /\ [Next]_vars => DoorInv'
<1> SUFFICES ASSUME DoorInv, [Next]_vars PROVE AloneInv' /\ SocketInv'
  BY TypeStep DEF DoorInv
<1>1. CASE UNCHANGED vars
  BY <1>1, FewerOffline DEF vars, daemon_vars, client_vars
<1> QED BY <1>1, DoorDaemon, DoorClient DEF Next

\* The door is kept until two meet.
LEMMA DoorCorrect == Spec => [](~together => DoorInv)
<1>1. (~together => DoorInv) /\ [Next]_vars => (~together => DoorInv)'
  BY DoorStep, MetForEver
<1> QED BY <1>1, DoorInit, PTL DEF Spec

\* One Beez root holds one daemon, and its socket leads to it (bind and the end
\* of run): however many processes are launched, refused, stopped or killed,
\* until somebody acts without a daemon while another does.
THEOREM ReachableHolds == Spec => []Reachable
<1>1. (~together => DoorInv) => Reachable
  BY DEF DoorInv, SocketInv, Reachable, Holding
<1> QED BY <1>1, DoorCorrect, PTL

-----------------------------------------------------------------------------
\* The answers. A client that has given a command was promised nothing about
\* what it changes, a client that edits a file itself has read what is on disk,
\* and a daemon that serves knows what it promised: its copy of the list may
\* differ from the file after a failed write, but never about a promise.

CommandInv ==
  \A c \in Clients :
    /\ command[c] \in {"add", "remove"} => \A f \in Files : sure[f][c] = None
    /\ command[c] \in {"pause", "resume"} => sure["state"][c] = None
    /\ cpc[c] = "save" => copy[c] = disk[File[command[c]]]

Agrees(d) ==
  /\ mem[d].state = disk["state"]
  /\ \A c \in Clients :
       /\ sure["manifests"][c] = "in" => c \in mem[d].manifests
       /\ sure["manifests"][c] = "out" => c \notin mem[d].manifests
       /\ sure["state"][c] = "in" /\ c \in mem[d].jobs => c \in mem[d].state
       /\ sure["state"][c] = "in" /\ c \in mem[d].manifests \cup disk["manifests"] => c \in mem[d].jobs

AnswerInv == CommandInv /\ AnsweredIsKept /\ \A d \in Daemons : pc[d] = "serve" => Agrees(d)

LEMMA AnswerInit == Init => AnswerInv
BY DEF Init, AnswerInv, CommandInv, AnsweredIsKept, None, Files

\* At most one daemon serves, and while it does nobody edits the files.
LEMMA ServesAlone ==
  ASSUME DoorInv, NEW d \in Daemons, pc[d] = "serve"
  PROVE  /\ \A e \in Daemons : pc[e] = "serve" => e = d
         /\ \A c \in Clients : cpc[c] # "save"
BY DEF DoorInv, AloneInv, SocketInv, Holding, Serving

\* What an answer says, and to whom.
LEMMA RespondSays ==
  ASSUME TypeOK, NEW c \in Clients, NEW text \in {"done", "error"}, respond(c, text)
  PROVE  /\ \A b \in Clients, f \in Files : b # c => sure'[f][b] = sure[f][b]
         /\ text = "error" \/ command[c] \notin Edits => sure' = sure
         /\ text = "done" /\ command[c] \in {"add", "remove"} =>
              /\ sure'["state"][c] = sure["state"][c]
              /\ sure'["manifests"][c] = IF command[c] = "add" THEN "in" ELSE "out"
         /\ text = "done" /\ command[c] \in {"pause", "resume"} =>
              /\ sure'["manifests"][c] = sure["manifests"][c]
              /\ sure'["state"][c] = IF command[c] = "pause" THEN "in" ELSE "out"
<1>1. text = "error" \/ command[c] \notin Edits => sure' = sure
  BY DEF respond
<1>2. CASE text = "done" /\ command[c] \in Edits
  <2> DEFINE g == File[command[c]]
             p == Promise(command[c])
  <2>1. /\ command[c] \in {"add", "remove"} => g = "manifests"
        /\ command[c] \in {"pause", "resume"} => g = "state"
        /\ command[c] \in {"add", "pause"} => p = "in"
        /\ command[c] \in {"remove", "resume"} => p = "out"
        /\ g \in Files /\ "manifests" \in Files /\ "state" \in Files
    BY <1>2 DEF Edits, File, Files, Promise, Wanted
  <2>2. sure' = [sure EXCEPT ![g][c] = p]
    BY <1>2 DEF respond
  <2> HIDE DEF g, p
  <2>3. sure'[g][c] = p
    BY <2>1, <2>2 DEF TypeOK
  <2>4. \A f \in Files, b \in Clients : f # g \/ b # c => sure'[f][b] = sure[f][b]
    BY <2>1, <2>2 DEF TypeOK
  <2> QED BY <1>1, <1>2, <2>1, <2>3, <2>4
<1> QED BY <1>1, <1>2, EditsAre

\* An answer leaves the others' commands and copies, and takes its client's.
LEMMA RespondCommands ==
  ASSUME TypeOK, AnswerInv, NEW c \in Clients, NEW text \in {"done", "error"}, respond(c, text),
         \A b \in Clients : b # c /\ cpc[b] = "save" => UNCHANGED disk
  PROVE  CommandInv'
<1>1. cpc'[c] = "idle" /\ command'[c] = None
  BY DEF respond, TypeOK
<1>2. \A b \in Clients : b # c => cpc'[b] = cpc[b] /\ command'[b] = command[b] /\ copy'[b] = copy[b]
  BY DEF respond, TypeOK
<1>3. \A b \in Clients, f \in Files : b # c => sure'[f][b] = sure[f][b]
  BY RespondSays
<1> QED BY <1>1, <1>2, <1>3 DEF AnswerInv, CommandInv, None, Files

\* A step that promises nothing, writes nothing and makes no daemon serve
\* keeps what was promised.
LEMMA Quiet ==
  ASSUME AnswerInv, UNCHANGED <<disk, sure>>,
         \A c \in Clients : /\ command'[c] \in {command[c], None}
                            /\ cpc'[c] = "save" => /\ cpc[c] = "save"
                                                  /\ command'[c] = command[c] /\ copy'[c] = copy[c],
         \A d \in Daemons : pc'[d] = "serve" => pc[d] = "serve" /\ mem'[d] = mem[d]
  PROVE  AnswerInv'
<1>1. CommandInv'
  BY DEF AnswerInv, CommandInv, None
<1>2. AnsweredIsKept'
  BY DEF AnswerInv, AnsweredIsKept
<1>3. ASSUME NEW d \in Daemons, pc'[d] = "serve" PROVE Agrees(d)'
  BY <1>3 DEF AnswerInv, Agrees
<1> QED BY <1>1, <1>2, <1>3 DEF AnswerInv

\* add: the list, and the promise about it, go together.
LEMMA WatchKeeps ==
  ASSUME DoorInv, AnswerInv, NEW d \in Daemons, NEW c \in Clients,
         pc[d] = "serve", command[c] = "add", watch(d, c)
  PROVE  Agrees(d)' /\ AnsweredIsKept'
<1>0. TypeOK /\ Agrees(d) /\ AnsweredIsKept /\ "manifests" \in Files /\ "state" \in Files
  BY DEF DoorInv, AnswerInv, Files
<1>1. PICK saved \in BOOLEAN :
        /\ save("manifests", mem[d].manifests \cup {c}, saved)
        /\ remember(d, mem[d].manifests \cup {c}, mem[d].state,
                    IF saved THEN mem[d].jobs \cup {c} ELSE mem[d].jobs)
        /\ respond(c, IF saved THEN "done" ELSE "error")
  BY DEF watch
<1>2. /\ mem'[d].manifests = mem[d].manifests \cup {c} /\ mem'[d].state = mem[d].state
      /\ mem'[d].jobs = IF saved THEN mem[d].jobs \cup {c} ELSE mem[d].jobs
  BY <1>0, <1>1 DEF remember, TypeOK
<1>3. /\ disk'["manifests"] = IF saved THEN mem[d].manifests \cup {c} ELSE disk["manifests"]
      /\ disk'["state"] = disk["state"]
  BY <1>0, <1>1 DEF save, TypeOK
<1>4. /\ sure["manifests"][c] = None /\ sure["state"][c] = None
      /\ \A b \in Clients, f \in Files : b # c => sure'[f][b] = sure[f][b]
      /\ sure'["state"][c] = None
      /\ sure'["manifests"][c] = IF saved THEN "in" ELSE None
  <2>1. sure["manifests"][c] = None /\ sure["state"][c] = None
    BY <1>0 DEF AnswerInv, CommandInv
  <2> QED BY <1>0, <1>1, <2>1, RespondSays
<1>5. Agrees(d)'
  BY <1>0, <1>2, <1>3, <1>4 DEF Agrees, None
<1>6. AnsweredIsKept'
  BY <1>0, <1>2, <1>3, <1>4 DEF Agrees, AnsweredIsKept, Files, None
<1> QED BY <1>5, <1>6

\* remove: the list and the states of the jobs that are left, no matter which
\* of the two writes fails, as long as the state itself can be written.
LEMMA UnwatchKeeps ==
  ASSUME DoorInv, AnswerInv, "state" \notin FailingFiles, NEW d \in Daemons, NEW c \in Clients,
         pc[d] = "serve", command[c] = "remove", unwatch(d, c)
  PROVE  Agrees(d)' /\ AnsweredIsKept'
<1>0. TypeOK /\ Agrees(d) /\ AnsweredIsKept /\ "manifests" \in Files /\ "state" \in Files
  BY DEF DoorInv, AnswerInv, Files
<1>1. sure["manifests"][c] = None /\ sure["state"][c] = None
  BY <1>0 DEF AnswerInv, CommandInv
<1>2. CASE UNCHANGED <<mem, disk>> /\ respond(c, "error")
  BY <1>0, <1>2, RespondSays DEF Agrees, AnsweredIsKept
<1>3. CASE ~(UNCHANGED <<mem, disk>> /\ respond(c, "error"))
  <2> DEFINE list == mem[d].manifests \ {c}
             jobs == mem[d].jobs \ {c}
             left == mem[d].state \cap jobs
  <2>1. PICK saved, pruned \in BOOLEAN :
          /\ saved <=> pruned
          /\ disk' = [manifests |-> IF saved THEN list ELSE disk["manifests"],
                      state |-> IF pruned THEN left ELSE disk["state"]]
          /\ IF saved THEN remember(d, list, left, jobs)
             ELSE remember(d, list, mem[d].state, mem[d].jobs)
          /\ respond(c, IF saved THEN "done" ELSE "error")
    BY <1>3 DEF unwatch
  <2> HIDE DEF list, jobs, left
  <2>2. /\ mem'[d].manifests = list
        /\ mem'[d].state = IF saved THEN left ELSE mem[d].state
        /\ mem'[d].jobs = IF saved THEN jobs ELSE mem[d].jobs
    BY <1>0, <2>1 DEF remember, TypeOK
  <2>3. /\ disk'["manifests"] = IF saved THEN list ELSE disk["manifests"]
        /\ disk'["state"] = IF saved THEN left ELSE disk["state"]
    BY <2>1
  <2>4. /\ \A b \in Clients, f \in Files : b # c => sure'[f][b] = sure[f][b]
        /\ sure'["state"][c] = None
        /\ sure'["manifests"][c] = IF saved THEN "out" ELSE None
    BY <1>0, <1>1, <2>1, RespondSays
  <2>5. Agrees(d)'
    BY <1>0, <1>1, <2>2, <2>3, <2>4 DEF Agrees, None, list, jobs, left
  <2>6. AnsweredIsKept'
    BY <1>0, <1>1, <2>2, <2>3, <2>4 DEF Agrees, AnsweredIsKept, Files, None, list, jobs, left
  <2> QED BY <2>5, <2>6
<1> QED BY <1>2, <1>3

\* pause and resume: the daemon holds a job it has, so the promise outlives it
\* only if the write of the state cannot fail, which nobody would be told.
LEMMA HoldKeeps ==
  ASSUME DoorInv, AnswerInv, "state" \notin FailingFiles, NEW d \in Daemons, NEW c \in Clients,
         pc[d] = "serve", command[c] \in {"pause", "resume"}, hold(d, c)
  PROVE  Agrees(d)' /\ AnsweredIsKept'
<1>0. TypeOK /\ Agrees(d) /\ AnsweredIsKept /\ "manifests" \in Files /\ "state" \in Files
  BY DEF DoorInv, AnswerInv, Files
<1>1. sure["state"][c] = None
  BY <1>0 DEF AnswerInv, CommandInv
<1>2. CASE UNCHANGED <<mem, disk>> /\ respond(c, "error")
  BY <1>0, <1>2, RespondSays DEF Agrees, AnsweredIsKept
<1>3. CASE ~(UNCHANGED <<mem, disk>> /\ respond(c, "error"))
  <2> DEFINE paused == with(mem[d].state, c, Wanted[command[c]])
  <2>1. /\ c \in mem[d].jobs
        /\ remember(d, mem[d].manifests, paused, mem[d].jobs)
        /\ save("state", paused, TRUE)
        /\ respond(c, "done")
    BY <1>3 DEF hold, save
  <2>2. /\ mem'[d].manifests = mem[d].manifests /\ mem'[d].state = paused
        /\ mem'[d].jobs = mem[d].jobs
    BY <1>0, <2>1 DEF remember, TypeOK
  <2>3. disk'["manifests"] = disk["manifests"] /\ disk'["state"] = paused
    BY <1>0, <2>1 DEF save, TypeOK
  <2>4. /\ \A b \in Clients, f \in Files : b # c => sure'[f][b] = sure[f][b]
        /\ sure'["state"][c] = IF command[c] = "pause" THEN "in" ELSE "out"
        /\ sure'["manifests"][c] = sure["manifests"][c]
    BY <1>0, <2>1, RespondSays
  <2>5. paused = IF command[c] = "pause" THEN mem[d].state \cup {c} ELSE mem[d].state \ {c}
    BY DEF with, Wanted
  <2> HIDE DEF paused
  <2>6. Agrees(d)'
    BY <1>0, <1>1, <2>1, <2>2, <2>3, <2>4, <2>5 DEF Agrees
  <2>7. AnsweredIsKept'
    BY <1>0, <1>1, <2>1, <2>3, <2>4, <2>5 DEF Agrees, AnsweredIsKept, Files
  <2> QED BY <2>6, <2>7
<1> QED BY <1>2, <1>3

\* reload and the opening of a daemon read the list, where every promise is.
LEMMA ReadsPromises ==
  ASSUME DoorInv, AnsweredIsKept, NEW d \in Daemons,
         remember(d, disk["manifests"], disk["state"], disk["manifests"]),
         UNCHANGED <<disk, sure>>
  PROVE  Agrees(d)'
<1>1. mem'[d] = [manifests |-> disk["manifests"], state |-> disk["state"], jobs |-> disk["manifests"]]
  BY DEF remember, DoorInv, TypeOK
<1> QED BY <1>1 DEF Agrees, AnsweredIsKept, Files

\* The steps of a process keep what was promised.
LEMMA AnswerDaemon ==
  ASSUME DoorInv, AnswerInv, "state" \notin FailingFiles, NEW d \in Daemons,
         launch(d) \/ daemon_step(d) \/ signal(d) \/ crash(d)
  PROVE  AnswerInv'
<1>0. TypeOK
  BY DEF DoorInv
<1>1. CASE launch(d) \/ bind(d) \/ check(d) \/ unlink_dead(d) \/ rebind(d) \/ signal(d) \/ unlink(d)
  <2>1. \A e \in Daemons : pc'[e] = "serve" => pc[e] = "serve"
    BY <1>0, <1>1 DEF launch, bind, check, unlink_dead, rebind, signal, unlink, goto, TypeOK
  <2>2. UNCHANGED <<disk, mem, sure, cpc, command, copy>>
    BY <1>1 DEF launch, bind, check, unlink_dead, rebind, signal, unlink, client_vars
  <2> QED BY <2>1, <2>2, Quiet
<1>2. CASE open(d)
  <2>1. UNCHANGED <<disk, sure, cpc, command, copy>>
    BY <1>2 DEF open, client_vars
  <2>2. CommandInv' /\ AnsweredIsKept'
    BY <2>1 DEF AnswerInv, CommandInv, AnsweredIsKept
  <2>3. Agrees(d)'
    BY <1>2, <2>1, ReadsPromises DEF open, AnswerInv
  <2>4. ASSUME NEW e \in Daemons, e # d, pc'[e] = "serve" PROVE Agrees(e)'
    <3>1. pc[e] = "serve" /\ mem'[e] = mem[e]
      BY <1>0, <1>2, <2>4 DEF open, goto, remember, TypeOK
    <3> QED BY <2>1, <3>1 DEF AnswerInv, Agrees
  <2> QED BY <2>2, <2>3, <2>4 DEF AnswerInv
<1>3. CASE handle(d)
  <2>1. PICK c \in Clients : Handled(d, c) /\ pc[d] = "serve"
    BY <1>0, <1>3, HandleClient
  <2>2. PICK text \in {"done", "error"} : respond(c, text)
    BY <2>1, HandledResponds
  <2>3. CommandInv'
    BY <1>0, <2>1, <2>2, ServesAlone, RespondCommands
  <2>4. Agrees(d)' /\ AnsweredIsKept'
    <3>1. CASE command[c] = "reload" /\ reload_all(d, c)
      <4>1. UNCHANGED <<disk, sure>>
        BY <1>0, <3>1, RespondSays, EditsAre DEF reload_all
      <4>2. mem[d].state = disk["state"]
        BY <2>1 DEF AnswerInv, Agrees
      <4>3. AnsweredIsKept'
        BY <4>1 DEF AnswerInv, AnsweredIsKept
      <4> QED BY <3>1, <4>1, <4>2, <4>3, ReadsPromises DEF reload_all, AnswerInv
    <3>2. CASE command[c] = "stop" /\ respond(c, "done") /\ UNCHANGED <<mem, disk>>
      <4>1. sure' = sure
        BY <1>0, <3>2, RespondSays, EditsAre
      <4> QED BY <2>1, <3>2, <4>1 DEF AnswerInv, Agrees, AnsweredIsKept
    <3> QED BY <2>1, <3>1, <3>2, WatchKeeps, UnwatchKeeps, HoldKeeps DEF Handled
  <2>5. ASSUME NEW e \in Daemons, pc'[e] = "serve" PROVE e = d
    BY <1>0, <2>1, <2>5, ServesAlone DEF Handled, goto, TypeOK
  <2> QED BY <2>3, <2>4, <2>5 DEF AnswerInv
<1>4. CASE leave(d) \/ crash(d)
  <2>1. UNCHANGED <<disk, sure>>
    BY <1>4 DEF leave, crash, hang_up
  <2>2. \A c \in Clients : /\ command'[c] \in {command[c], None}
                           /\ cpc'[c] = "save" => /\ cpc[c] = "save"
                                                 /\ command'[c] = command[c] /\ copy'[c] = copy[c]
    BY <1>4 DEF leave, crash, hang_up
  <2>3. \A e \in Daemons : pc'[e] = "serve" => pc[e] = "serve" /\ mem'[e] = mem[e]
    BY <1>0, <1>4 DEF leave, crash, goto, TypeOK
  <2> QED BY <2>1, <2>2, <2>3, Quiet
<1> QED BY <1>1, <1>2, <1>3, <1>4 DEF daemon_step

\* The steps of a client keep what was promised.
LEMMA AnswerClient ==
  ASSUME DoorInv, AnswerInv, NEW c \in Clients, give(c) \/ client_step(c)
  PROVE  AnswerInv'
<1>0. TypeOK /\ "manifests" \in Files /\ "state" \in Files
  BY DEF DoorInv, Files
<1>1. CASE UNCHANGED <<disk, mem, pc>> /\ \E text \in {"done", "error"} : respond(c, text) /\ sure' = sure
  <2>1. \A b \in Clients : /\ command'[b] \in {command[b], None}
                           /\ cpc'[b] = "save" => /\ cpc[b] = "save"
                                                 /\ command'[b] = command[b] /\ copy'[b] = copy[b]
    BY <1>0, <1>1 DEF respond, TypeOK
  <2> QED BY <1>1, <2>1, Quiet
<1>2. ASSUME NEW to, to # "save", step(c, to), UNCHANGED <<disk, mem, pc>> PROVE AnswerInv'
  <2>1. \A b \in Clients : /\ command'[b] \in {command[b], None}
                           /\ cpc'[b] = "save" => /\ cpc[b] = "save"
                                                 /\ command'[b] = command[b] /\ copy'[b] = copy[b]
    BY <1>0, <1>2 DEF step, TypeOK
  <2> QED BY <1>2, <2>1, Quiet DEF step
<1>3. CASE give(c)
  <2>1. PICK k \in Commands[c] :
          /\ command' = [command EXCEPT ![c] = k]
          /\ sure' = [f \in Files |-> [sure[f] EXCEPT ![c] =
               IF k \in {"add", "remove"} \/ (k \in Edits /\ File[k] = f) THEN None ELSE @]]
    BY <1>3 DEF give
  <2>2. \A f \in Files, b \in Clients : sure'[f][b] \in {sure[f][b], None}
    BY <1>0, <2>1 DEF TypeOK
  <2>3. /\ k \in {"add", "remove"} => \A f \in Files : sure'[f][c] = None
        /\ k \in {"pause", "resume"} => sure'["state"][c] = None
    <3>1. k \in {"pause", "resume"} => k \in Edits /\ File[k] = "state"
      BY DEF Edits, File
    <3> QED BY <1>0, <2>1, <3>1 DEF TypeOK
  <2>4. UNCHANGED <<disk, mem, pc, copy>> /\ cpc' = [cpc EXCEPT ![c] = "look"]
    BY <1>3 DEF give, daemon_vars
  <2>5. CommandInv'
    <3>1. command'[c] = k /\ cpc'[c] = "look"
      BY <1>0, <2>1, <2>4 DEF TypeOK
    <3>2. \A b \in Clients : b # c => command'[b] = command[b] /\ cpc'[b] = cpc[b]
      BY <1>0, <2>1, <2>4 DEF TypeOK
    <3> QED BY <1>0, <2>2, <2>3, <2>4, <3>1, <3>2 DEF AnswerInv, CommandInv
  <2>6. AnsweredIsKept'
    BY <2>2, <2>4 DEF AnswerInv, AnsweredIsKept, None
  <2>7. ASSUME NEW e \in Daemons, pc'[e] = "serve" PROVE Agrees(e)'
    BY <1>0, <2>2, <2>4, <2>7 DEF AnswerInv, Agrees, None
  <2> QED BY <2>5, <2>6, <2>7 DEF AnswerInv
<1>4. CASE look(c)
  <2>1. UNCHANGED <<disk, mem, pc>>
    BY <1>4 DEF look, daemon_vars
  <2>2. CASE respond(c, "error")
    BY <1>0, <1>1, <2>1, <2>2, RespondSays
  <2> QED BY <1>2, <1>4, <2>1, <2>2 DEF look
<1>5. CASE send(c)
  <2>1. UNCHANGED <<disk, mem, pc>>
    BY <1>5 DEF send, daemon_vars
  <2>2. CASE respond(c, "error")
    BY <1>0, <1>1, <2>1, <2>2, RespondSays
  <2> QED BY <1>2, <1>5, <2>1, <2>2 DEF send
<1>6. CASE load(c)
  <2>1. UNCHANGED <<disk, mem, pc>>
    BY <1>6 DEF load, daemon_vars
  <2>2. CASE respond(c, "error")
    BY <1>0, <1>1, <2>1, <2>2, RespondSays
  <2>3. CASE ~respond(c, "error")
    <3>1. /\ copy' = [copy EXCEPT ![c] = disk[File[command[c]]]]
          /\ cpc' = [cpc EXCEPT ![c] = "save"]
          /\ UNCHANGED <<command, sure>>
      BY <1>6, <2>3 DEF load
    <3>2. CommandInv'
      BY <1>0, <2>1, <3>1 DEF AnswerInv, CommandInv, TypeOK
    <3>3. AnsweredIsKept'
      BY <2>1, <3>1 DEF AnswerInv, AnsweredIsKept
    <3>4. ASSUME NEW e \in Daemons, pc'[e] = "serve" PROVE Agrees(e)'
      BY <2>1, <3>1, <3>4 DEF AnswerInv, Agrees
    <3> QED BY <3>2, <3>3, <3>4 DEF AnswerInv
  <2> QED BY <2>2, <2>3
<1>7. CASE save_copy(c)
  <2> DEFINE f == File[command[c]]
             content == with(copy[c], c, Wanted[command[c]])
  <2>1. PICK saved \in BOOLEAN :
          save(f, content, saved) /\ respond(c, IF saved THEN "done" ELSE "error")
    BY <1>7 DEF save_copy
  <2>2. cpc[c] = "save" /\ UNCHANGED <<mem, pc>> /\ command[c] \in Edits
    BY <1>0, <1>7 DEF save_copy, daemon_vars, TypeOK
  <2>3. (\A e \in Daemons : pc'[e] # "serve") /\ (\A b \in Clients : cpc[b] = "save" => b = c)
    BY <2>2 DEF DoorInv, AloneInv, Holding, Serving, Offline
  <2>4. CommandInv'
    BY <1>0, <2>1, <2>3, RespondCommands
  <2>5. CASE ~saved
    BY <1>0, <1>1, <2>1, <2>2, <2>5, RespondSays DEF save
  <2>6. CASE saved
    <3>1. copy[c] = disk[f]
      BY <2>2 DEF AnswerInv, CommandInv
    <3>2. disk' = [disk EXCEPT ![f] = with(disk[f], c, Wanted[command[c]])]
      BY <2>1, <2>6, <3>1 DEF save
    <3>3. AnsweredIsKept'
      <4>1. CASE command[c] \in {"add", "remove"}
        <5>1. f = "manifests" /\ (Wanted[command[c]] <=> command[c] = "add")
          BY <4>1 DEF File, Wanted
        <5>2. /\ disk'["manifests"] = IF command[c] = "add" THEN disk["manifests"] \cup {c}
                                                            ELSE disk["manifests"] \ {c}
              /\ disk'["state"] = disk["state"]
          BY <1>0, <3>2, <5>1 DEF with, TypeOK
        <5>3. sure'["state"][c] = None /\ sure'["manifests"][c] = IF command[c] = "add" THEN "in" ELSE "out"
          <6>1. sure["state"][c] = None
            BY <1>0, <4>1 DEF AnswerInv, CommandInv
          <6> QED BY <1>0, <2>1, <2>6, <4>1, <6>1, RespondSays
        <5>4. \A b \in Clients, g \in Files : b # c => sure'[g][b] = sure[g][b]
          BY <1>0, <2>1, <2>6, RespondSays
        <5> QED BY <5>2, <5>3, <5>4 DEF AnswerInv, AnsweredIsKept, Files, None
      <4>2. CASE command[c] \in {"pause", "resume"}
        <5>1. f = "state" /\ (Wanted[command[c]] <=> command[c] = "pause")
          BY <4>2 DEF File, Wanted
        <5>2. /\ disk'["state"] = IF command[c] = "pause" THEN disk["state"] \cup {c}
                                                          ELSE disk["state"] \ {c}
              /\ disk'["manifests"] = disk["manifests"]
          BY <1>0, <3>2, <5>1 DEF with, TypeOK
        <5>3. /\ sure'["state"][c] = IF command[c] = "pause" THEN "in" ELSE "out"
              /\ sure'["manifests"][c] = sure["manifests"][c]
          BY <1>0, <2>1, <2>6, <4>2, RespondSays
        <5>4. \A b \in Clients, g \in Files : b # c => sure'[g][b] = sure[g][b]
          BY <1>0, <2>1, <2>6, RespondSays
        <5> QED BY <1>0, <5>2, <5>3, <5>4 DEF AnswerInv, AnsweredIsKept, Files
      <4> QED BY <2>2, <4>1, <4>2, EditsAre
    <3> QED BY <2>3, <2>4, <3>3 DEF AnswerInv
  <2> QED BY <2>5, <2>6
<1>8. CASE spawn(c)
  <2>1. UNCHANGED <<disk, mem, sure, command, copy>>
    BY <1>8 DEF spawn
  <2>2. \A b \in Clients : cpc'[b] = "save" => cpc[b] = "save"
    BY <1>0, <1>8 DEF spawn, TypeOK
  <2>3. \A e \in Daemons : pc'[e] = "serve" => pc[e] = "serve"
    BY <1>0, <1>8 DEF spawn, goto, TypeOK
  <2> QED BY <2>1, <2>2, <2>3, Quiet
<1>9. CASE await(c)
  <2>1. UNCHANGED <<disk, mem, pc>>
    BY <1>9 DEF await, daemon_vars
  <2>2. CASE UNCHANGED <<cpc, command, copy, sure>>
    BY <2>1, <2>2, Quiet
  <2>3. CASE \E text \in {"done", "error"} : respond(c, text)
    <3>1. PICK text \in {"done", "error"} : respond(c, text)
      BY <2>3
    <3>2. command[c] \notin Edits
      BY <1>0, <1>9, EditsAre DEF await, TypeOK
    <3> QED BY <1>0, <1>1, <2>1, <3>1, <3>2, RespondSays
  <2> QED BY <1>9, <2>2, <2>3 DEF await
<1> QED BY <1>3, <1>4, <1>5, <1>6, <1>7, <1>8, <1>9 DEF client_step

\* Every step keeps what was promised.
LEMMA AnswerStep ==
  ASSUME "state" \notin FailingFiles
  PROVE  DoorInv /\ AnswerInv /\ [Next]_vars => AnswerInv'
<1> SUFFICES ASSUME DoorInv, AnswerInv, [Next]_vars PROVE AnswerInv'
  OBVIOUS
<1>1. CASE UNCHANGED vars
  BY <1>1, Quiet DEF vars, daemon_vars, client_vars
<1> QED BY <1>1, AnswerDaemon, AnswerClient DEF Next

\* What a client was told is done is on disk and stays there, and `start`
\* names the process that answers (apply::watch, apply::unwatch, hold,
\* client::write_registry, client::start): over exits, kills, restarts and
\* failed writes of the list. A failed write of the state is excepted, which
\* hold only logs, and all ends when two have acted without a daemon at once.
THEOREM AnswersHoldHolds ==
  ASSUME "state" \notin FailingFiles
  PROVE  Spec => AnswersHold
<1>1. DoorInv => StartNamesDaemon
  BY DEF DoorInv, AloneInv, SocketInv, StartNamesDaemon, is_running, Holding
<1>2. (~together => DoorInv) /\ (~together => AnswerInv) /\ [Next]_vars =>
        /\ (~together => AnswerInv)'
        /\ ~together' => AnsweredIsKept' /\ StartNamesDaemon
  BY <1>1, AnswerStep, MetForEver DEF AnswerInv
<1>3. Spec => [](~together => AnswerInv)
  BY <1>2, AnswerInit, DoorCorrect, PTL DEF Spec
<1> QED BY <1>2, <1>3, DoorCorrect, PTL DEF Spec, AnswersHold
=============================================================================
