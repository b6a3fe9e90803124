---------------------------- MODULE RunnerProofs ----------------------------
(***************************************************************************)
(* Theorems about Runner, for any acyclic workflow and any way its         *)
(* programs end.                                                           *)
(***************************************************************************)
EXTENDS Runner, FiniteSetTheorems, WellFoundedInduction, TLAPS

Message == [kind : {"line", "done"}, task : Tasks]

-----------------------------------------------------------------------------
\* Types.

\* The initial state is well typed.
LEMMA TypeInit == Init => TypeOK
<1> SUFFICES ASSUME Init PROVE TypeOK
  OBVIOUS
<1>1. failed \in BOOLEAN
  BY Zenon DEF Init
<1>2. tally \in [{"passed", "failed", "blocked"} -> Nat]
  BY DEF Init
<1> QED BY <1>1, <1>2 DEF Init, TypeOK, TaskStatus

\* A reported event keeps the types of the report and the tally.
LEMMA ReportType ==
  ASSUME TypeOK, NEW t \in Tasks,
         NEW e \in {"running", "passed", "failed", "blocked"}, report(t, e)
  PROVE  /\ reported' \in [Tasks -> {"none", "running", "passed", "failed", "blocked"}]
         /\ tally' \in [{"passed", "failed", "blocked"} -> Nat]
BY DEF report, TypeOK

\* A message sent keeps the type of the channel.
LEMMA SendType ==
  ASSUME TypeOK, NEW m \in Message, send(m)
  PROVE  channel' \in Seq(Message)
<1>1. channel \in Seq(Message)
  BY DEF TypeOK, Message
<1>2. Append(channel, m) \in Seq(Message)
  BY <1>1
<1> QED BY <1>1, <1>2 DEF send

\* Every step keeps the types.
LEMMA TypeStep == TypeOK /\ [Next]_vars => TypeOK'
<1> SUFFICES ASSUME TypeOK, [Next]_vars PROVE TypeOK'
  OBVIOUS
<1> USE DEF TaskStatus
<1>1. CASE next_wave
  BY <1>1 DEF next_wave, TypeOK, results, ready, pending
<1>2. ASSUME NEW t \in Tasks, start_task(t) PROVE TypeOK'
  <2>1. statuses' \in [Tasks -> {"Pending", "Running", "Succeeded", "Failed"}]
    BY <1>2 DEF start_task, start, TypeOK
  <2>2. CASE report(t, "running")
    BY <1>2, <2>1, <2>2, ReportType DEF start_task, TypeOK, results
  <2>3. CASE UNCHANGED <<reported, tally>>
    BY <1>2, <2>1, <2>3 DEF start_task, TypeOK, results
  <2> QED BY <1>2, <2>2, <2>3 DEF start_task
<1>3. CASE spawn
  <2>1. threads' \subseteq Tasks
    BY <1>3 DEF spawn, TypeOK
  <2>2. readers' \in [Tasks -> SUBSET Streams]
    BY <1>3 DEF spawn
  <2>3. lines' \in [Tasks -> [Streams -> Nat]]
    <3>1. PICK n \in [threads' -> [Streams -> 0..MaxLines]] :
               lines' = [t \in Tasks |-> IF t \in threads' THEN n[t] ELSE lines[t]]
      BY <1>3 DEF spawn
    <3>2. 0..MaxLines \subseteq Nat
      BY RunnerAssumption
    <3>3. \A t \in threads' : n[t] \in [Streams -> Nat]
      BY <3>2
    <3> QED BY <3>1, <3>3 DEF TypeOK
  <2> QED BY <1>3, <2>1, <2>2, <2>3 DEF spawn, TypeOK, results
<1>4. ASSUME NEW t \in Tasks, block(t) PROVE TypeOK'
  BY <1>4, ReportType DEF block, TypeOK, run, results
<1>5. ASSUME NEW t \in Tasks, NEW s \in Streams, forward(t, s) PROVE TypeOK'
  <2>1. channel' \in Seq(Message)
    BY <1>5, SendType DEF forward, Message
  <2>2. lines' \in [Tasks -> [Streams -> Nat]]
    BY <1>5 DEF forward, TypeOK
  <2> QED BY <1>5, <2>1, <2>2 DEF forward, TypeOK, results, Message
<1>6. ASSUME NEW t \in Tasks, NEW s \in Streams, reader_ends(t, s) PROVE TypeOK'
  <2>1. lines' \in [Tasks -> [Streams -> Nat]] /\ readers' \in [Tasks -> SUBSET Streams]
    BY <1>6 DEF reader_ends, TypeOK
  <2> QED BY <1>6, <2>1 DEF reader_ends, TypeOK, results
<1>7. ASSUME NEW t \in Tasks, task_done(t) PROVE TypeOK'
  <2>1. channel' \in Seq(Message)
    BY <1>7, SendType DEF task_done, Message
  <2> QED BY <1>7, <2>1 DEF task_done, TypeOK, results, Message
<1>8. CASE receive
  <2>1. channel \in Seq(Message) /\ channel # <<>>
    BY <1>8 DEF receive, TypeOK, Message
  <2>2. Head(channel) \in Message /\ Tail(channel) \in Seq(Message)
    BY <2>1
  <2>3. Head(channel).task \in Tasks
    BY <2>2 DEF Message
  <2>4. channel' \in Seq(Message)
    <3>1. channel' = Tail(channel) \/ channel' = <<>>
      BY <1>8 DEF receive
    <3>2. <<>> \in Seq(Message)
      OBVIOUS
    <3> QED BY <2>2, <3>1, <3>2
  <2>5. /\ reported' \in [Tasks -> {"none", "running", "passed", "failed", "blocked"}]
        /\ tally' \in [{"passed", "failed", "blocked"} -> Nat]
    BY <1>8, <2>3, ReportType DEF receive, TypeOK
  <2>6. outcomes' \subseteq Tasks
    BY <1>8, <2>3 DEF receive, TypeOK
  <2> QED BY <1>8, <2>4, <2>5, <2>6 DEF receive, TypeOK, Message
<1>9. CASE join
  BY <1>9 DEF join, TypeOK, run, results
<1>10. ASSUME NEW t \in Tasks, record(t) PROVE TypeOK'
  <2>1. statuses' \in [Tasks -> {"Pending", "Running", "Succeeded", "Failed"}]
    BY <1>10 DEF record, complete, TypeOK
  <2>2. fate[t] \in Nat \cup {Signal, Error}
    BY RunnerAssumption DEF TypeOK
  <2>3. exit_status' \in Nat
    BY <1>10, <2>2 DEF record, TypeOK, task_status, Signal, Error
  <2>4. failed' \in BOOLEAN
    BY <1>10, Zenon DEF record
  <2>5. outputs' \subseteq Tasks /\ outcomes' \subseteq Tasks
    BY <1>10 DEF record, TypeOK
  <2> QED BY <1>10, <2>1, <2>3, <2>4, <2>5 DEF record, TypeOK, run
<1>11. CASE recorded
  BY <1>11 DEF recorded, TypeOK, run, results
<1>12. CASE UNCHANGED vars
  BY <1>12 DEF vars, TypeOK
<1> QED BY <1>1, <1>2, <1>3, <1>4, <1>5, <1>6, <1>7, <1>8, <1>9, <1>10, <1>11, <1>12
        DEF Next, Caller, Thread, Done

\* Every state of a run is well typed.
THEOREM TypeCorrect == Spec => []TypeOK
BY TypeInit, TypeStep, PTL DEF Spec

-----------------------------------------------------------------------------
\* Threads.

\* A reader belongs to a thread, a thread to a wave that is being collected or
\* given up, and a message to a wave that is being collected.
ThreadsInv ==
  /\ threads # {} => pc \in {"collect", "abort"}
  /\ channel # <<>> => pc = "collect"
  /\ \A t \in Tasks : readers[t] # {} => t \in threads

\* Every step keeps ThreadsInv.
LEMMA ThreadsStep == TypeOK /\ ThreadsInv /\ [Next]_vars => ThreadsInv'
<1> SUFFICES ASSUME TypeOK, ThreadsInv, [Next]_vars PROVE ThreadsInv'
  OBVIOUS
<1> USE DEF ThreadsInv
<1>1. CASE next_wave
  BY <1>1 DEF next_wave
<1>2. ASSUME NEW t \in Tasks, start_task(t) PROVE ThreadsInv'
  BY <1>2 DEF start_task
<1>3. CASE spawn
  BY <1>3 DEF spawn, TypeOK
<1>4. ASSUME NEW t \in Tasks, block(t) PROVE ThreadsInv'
  BY <1>4 DEF block, run
<1>5. ASSUME NEW t \in Tasks, NEW s \in Streams, forward(t, s) PROVE ThreadsInv'
  BY <1>5 DEF forward, send
<1>6. ASSUME NEW t \in Tasks, NEW s \in Streams, reader_ends(t, s) PROVE ThreadsInv'
  BY <1>6 DEF reader_ends, TypeOK
<1>7. ASSUME NEW t \in Tasks, task_done(t) PROVE ThreadsInv'
  BY <1>7 DEF task_done, send
<1>8. CASE receive
  BY <1>8 DEF receive
<1>9. CASE join
  BY <1>9 DEF join, run
<1>10. ASSUME NEW t \in Tasks, record(t) PROVE ThreadsInv'
  BY <1>10 DEF record, run
<1>11. CASE recorded
  BY <1>11 DEF recorded, run
<1>12. CASE UNCHANGED vars
  BY <1>12 DEF vars
<1> QED BY <1>1, <1>2, <1>3, <1>4, <1>5, <1>6, <1>7, <1>8, <1>9, <1>10, <1>11, <1>12
        DEF Next, Caller, Thread, Done

\* ThreadsInv holds throughout.
LEMMA ThreadsHold == Spec => []ThreadsInv
<1>1. Init => ThreadsInv
  BY DEF Init, ThreadsInv
<1> QED BY <1>1, TypeCorrect, ThreadsStep, PTL DEF Spec

\* run_workflow leaves no thread and no message behind, also when an event
\* cannot be reported and the wave is given up.
THEOREM NoThreadLeftHolds == Spec => []NoThreadLeft
<1>1. ThreadsInv => NoThreadLeft
  BY DEF ThreadsInv, NoThreadLeft
<1> QED BY <1>1, ThreadsHold, PTL

-----------------------------------------------------------------------------
\* What the runner hands to WorkflowExecution: the tasks it has still to start
\* are ready, and those of a wave, of its threads, messages and results run.
RunningInv ==
  /\ outcomes # {} => pc \in {"collect", "record", "abort", "error"}
  /\ pc = "start" => \A t \in starting : is_ready(t)
  /\ pc = "start" => \A t \in wave : statuses[t] = "Running"
  /\ pc = "collect" => \A t \in threads : statuses[t] = "Running"
  /\ \A i \in 1..Len(channel) : statuses[channel[i].task] = "Running"
  /\ pc \in {"collect", "record"} => \A t \in outcomes : statuses[t] = "Running"

\* start is never refused.
LEMMA StartsReady ==
  ASSUME RunningInv, NEW t \in Tasks, start_task(t)
  PROVE  /\ is_ready(t) /\ statuses[t] = "Pending"
         /\ statuses' = [statuses EXCEPT ![t] = "Running"]
BY DEF start_task, start, is_first, RunningInv, is_ready

\* complete is never refused.
LEMMA RecordsRunning ==
  ASSUME RunningInv, NEW t \in Tasks, record(t)
  PROVE  /\ pc = "record" /\ pc' = "record" /\ statuses[t] = "Running"
         /\ statuses' = [statuses EXCEPT ![t] =
              IF task_status(fate[t]) = 0 THEN "Succeeded" ELSE "Failed"]
BY DEF record, complete, is_first, RunningInv

\* Every step keeps RunningInv.
LEMMA RunningStep == TypeOK /\ ThreadsInv /\ RunningInv /\ [Next]_vars => RunningInv'
<1> SUFFICES ASSUME TypeOK, ThreadsInv, RunningInv, [Next]_vars PROVE RunningInv'
  OBVIOUS
<1> USE TasksAssumption
<1>0. channel \in Seq(Message)
  BY DEF TypeOK, Message
<1>1. CASE next_wave
  <2>1. channel = <<>> /\ UNCHANGED <<statuses, channel, outcomes>>
        /\ outcomes = {} /\ wave' = {} /\ pc' \in {"start", "block", "done"}
    BY <1>1 DEF next_wave, results, ThreadsInv, RunningInv
  <2>2. pc' = "start" => starting' = ready
    BY <1>1 DEF next_wave
  <2> QED BY <2>1, <2>2 DEF RunningInv, ready, is_ready
<1>2. ASSUME NEW t \in Tasks, start_task(t) PROVE RunningInv'
  <2>1. statuses' = [statuses EXCEPT ![t] = "Running"] /\ statuses[t] = "Pending"
    BY <1>2, StartsReady
  <2>2. statuses'[t] = "Running" /\ \A u \in Tasks : u # t => statuses'[u] = statuses[u]
    BY <2>1 DEF TypeOK
  <2>3. /\ starting' = starting \ {t} /\ pc = "start" /\ pc' \in {"start", "error"}
        /\ pc' = "start" => wave' = wave \cup {t}
        /\ outcomes' = {} /\ channel' = <<>>
    BY <1>2 DEF start_task, results, ThreadsInv, RunningInv
  <2>4. ASSUME NEW u \in starting' PROVE is_ready(u)'
    <3>1. u \in Tasks /\ u # t /\ is_ready(u) /\ Deps[u] \subseteq Tasks
      BY <2>3 DEF TypeOK, RunningInv
    <3> QED BY <2>1, <2>2, <3>1 DEF is_ready
  <2>5. pc' = "start" => \A u \in wave' : statuses'[u] = "Running"
    BY <2>2, <2>3 DEF TypeOK, RunningInv
  <2> QED BY <2>3, <2>4, <2>5 DEF RunningInv
<1>3. CASE spawn
  <2>1. /\ pc = "start" /\ UNCHANGED <<statuses, channel, outcomes>> /\ outcomes = {}
        /\ channel = <<>> /\ pc' \in {"collect", "error"} /\ threads' \subseteq wave
    BY <1>3 DEF spawn, results, ThreadsInv, RunningInv
  <2> QED BY <2>1 DEF RunningInv
<1>4. ASSUME NEW t \in Tasks, block(t) PROVE RunningInv'
  <2>1. /\ pc = "block" /\ UNCHANGED <<statuses, channel, outcomes>> /\ outcomes = {}
        /\ channel = <<>> /\ pc' \in {"block", "done", "error"}
    BY <1>4 DEF block, run, results, ThreadsInv, RunningInv
  <2> QED BY <2>1 DEF RunningInv
<1>5. ASSUME NEW m \in Message, send(m), m.task \in threads, threads' \subseteq threads,
             UNCHANGED <<pc, statuses, starting, wave, outcomes>>
      PROVE  RunningInv'
  <2>1. pc \in {"collect", "abort"}
    BY <1>5 DEF ThreadsInv
  <2>2. CASE pc = "abort"
    BY <1>5, <2>2 DEF RunningInv, send
  <2>3. CASE pc = "collect"
    <3>1. channel' = Append(channel, m)
      BY <1>5, <2>3 DEF send
    <3>2. /\ Len(channel') = Len(channel) + 1 /\ channel'[Len(channel) + 1] = m
          /\ Len(channel) \in Nat
          /\ \A i \in 1..Len(channel) : channel'[i] = channel[i]
      BY <1>0, <3>1
    <3>3. statuses[m.task] = "Running"
      BY <1>5, <2>3 DEF RunningInv
    <3>4. \A i \in 1..Len(channel') : statuses'[channel'[i].task] = "Running"
      BY <1>5, <3>2, <3>3 DEF RunningInv
    <3> QED BY <1>5, <2>3, <3>4 DEF RunningInv
  <2> QED BY <2>1, <2>2, <2>3
<1>6. ASSUME NEW t \in Tasks, NEW s \in Streams, forward(t, s) PROVE RunningInv'
  <2>1. t \in threads /\ [kind |-> "line", task |-> t] \in Message
    BY <1>6 DEF forward, ThreadsInv, Message
  <2> QED BY <1>5, <1>6, <2>1 DEF forward, results
<1>7. ASSUME NEW t \in Tasks, task_done(t) PROVE RunningInv'
  <2>1. t \in threads /\ [kind |-> "done", task |-> t] \in Message
    BY <1>7 DEF task_done, Message
  <2> QED BY <1>5, <1>7, <2>1 DEF task_done, results
<1>8. ASSUME NEW t \in Tasks, NEW s \in Streams, reader_ends(t, s) PROVE RunningInv'
  BY <1>8 DEF reader_ends, results, RunningInv, is_ready
<1>9. CASE receive
  <2>1. /\ pc = "collect" /\ channel # <<>> /\ UNCHANGED <<statuses, threads>>
        /\ pc' \in {"collect", "abort"}
    BY <1>9 DEF receive
  <2>2. CASE channel' = <<>>
    <3>1. outcomes' = outcomes \/ outcomes' = outcomes \cup {channel[1].task}
      BY <1>9, <1>0, <2>1 DEF receive
    <3>2. statuses[channel[1].task] = "Running"
      BY <1>0, <2>1 DEF RunningInv
    <3> QED BY <2>1, <2>2, <3>1, <3>2 DEF RunningInv
  <2>3. CASE channel' = Tail(channel)
    <3>1. /\ Len(channel) \in Nat \ {0} /\ Len(channel') = Len(channel) - 1
          /\ \A i \in 1..Len(channel') : channel'[i] = channel[i + 1]
      BY <1>0, <2>1, <2>3
    <3>2. \A i \in 1..Len(channel') : statuses'[channel'[i].task] = "Running"
      <4> SUFFICES ASSUME NEW i \in 1..Len(channel') PROVE statuses'[channel'[i].task] = "Running"
        OBVIOUS
      <4>1. i + 1 \in 1..Len(channel) /\ channel'[i] = channel[i + 1]
        BY <3>1
      <4> QED BY <2>1, <4>1 DEF RunningInv
    <3>3. outcomes' = outcomes \/ outcomes' = outcomes \cup {channel[1].task}
      BY <1>9, <1>0, <2>1 DEF receive
    <3>4. statuses[channel[1].task] = "Running"
      BY <3>1 DEF RunningInv
    <3> QED BY <2>1, <3>2, <3>3, <3>4 DEF RunningInv
  <2> QED BY <1>9, <2>2, <2>3 DEF receive
<1>10. CASE join
  BY <1>10 DEF join, run, results, RunningInv
<1>11. ASSUME NEW t \in Tasks, record(t) PROVE RunningInv'
  <2>1. /\ pc = "record" /\ pc' = "record" /\ outcomes' = outcomes \ {t} /\ channel' = <<>>
    BY <1>11, RecordsRunning DEF record, run, ThreadsInv
  <2>2. \A u \in Tasks : u # t => statuses'[u] = statuses[u]
    BY <1>11, RecordsRunning DEF TypeOK
  <2>3. \A u \in outcomes' : statuses'[u] = "Running"
    BY <2>1, <2>2 DEF RunningInv, TypeOK
  <2> QED BY <2>1, <2>3 DEF RunningInv
<1>12. CASE recorded
  BY <1>12 DEF recorded, run, results, RunningInv, ThreadsInv
<1>13. CASE UNCHANGED vars
  BY <1>13 DEF vars, run, results, RunningInv, is_ready
<1> QED BY <1>1, <1>2, <1>3, <1>4, <1>6, <1>7, <1>8, <1>9, <1>10, <1>11, <1>12, <1>13
        DEF Next, Caller, Thread, Done

\* RunningInv holds throughout.
LEMMA RunningHolds == Spec => []RunningInv
<1>1. Init => RunningInv
  BY DEF Init, RunningInv
<1> QED BY <1>1, TypeCorrect, ThreadsHold, RunningStep, PTL DEF Spec

-----------------------------------------------------------------------------
\* Dependencies and outputs.

\* A step changes a status only to start a ready task or to end a running one.
LEMMA StatusesStep ==
  ASSUME [Next]_vars
  PROVE  \/ UNCHANGED statuses
         \/ \E t \in Tasks :
              \/ is_ready(t) /\ statuses' = [statuses EXCEPT ![t] = "Running"]
              \/ /\ statuses[t] = "Running"
                 /\ \E b \in {"Succeeded", "Failed"} : statuses' = [statuses EXCEPT ![t] = b]
<1>1. ASSUME NEW t \in Tasks, start_task(t)
      PROVE  \/ UNCHANGED statuses
             \/ is_ready(t) /\ statuses' = [statuses EXCEPT ![t] = "Running"]
  BY <1>1 DEF start_task, start
<1>2. ASSUME NEW t \in Tasks, record(t)
      PROVE  \/ UNCHANGED statuses
             \/ /\ statuses[t] = "Running"
                /\ \E b \in {"Succeeded", "Failed"} : statuses' = [statuses EXCEPT ![t] = b]
  BY <1>2 DEF record, complete
<1>3. CASE UNCHANGED statuses
  BY <1>3
<1> QED BY <1>1, <1>2, <1>3 DEF Next, Caller, Thread, Done, vars, results, run, next_wave,
        spawn, block, forward, reader_ends, task_done, receive, join, recorded

\* A task that succeeded stays so: only pending and running tasks change.
LEMMA DependenciesStep ==
  TypeOK /\ AfterDependencies /\ [Next]_vars => AfterDependencies'
<1> SUFFICES ASSUME TypeOK, AfterDependencies, [Next]_vars PROVE AfterDependencies'
  OBVIOUS
<1> USE TasksAssumption DEF TypeOK, TaskStatus, AfterDependencies
<1>1. ASSUME NEW t \in Tasks, is_ready(t), statuses' = [statuses EXCEPT ![t] = "Running"]
      PROVE  AfterDependencies'
  BY <1>1 DEF is_ready
<1>2. ASSUME NEW t \in Tasks, statuses[t] = "Running", NEW b \in {"Succeeded", "Failed"},
             statuses' = [statuses EXCEPT ![t] = b]
      PROVE  AfterDependencies'
  BY <1>2
<1>3. CASE UNCHANGED statuses
  BY <1>3
<1> QED BY <1>1, <1>2, <1>3, StatusesStep

\* A task runs, or has run, only after every task it depends on succeeded,
\* for every acyclic workflow.
THEOREM AfterDependenciesHolds == Spec => []AfterDependencies
<1>1. Init => AfterDependencies
  BY DEF Init, AfterDependencies
<1> QED BY <1>1, TypeCorrect, DependenciesStep, PTL DEF Spec

\* Why a request finds what it reads: the output of a task that succeeded is
\* kept when some request reads it, and until a wave is spawned its tasks
\* have started and the ones still to start are ready.
OutputsInv ==
  /\ \A t, u \in Tasks : statuses[t] = "Succeeded" /\ t \in Reads[u] => t \in outputs
  /\ pc = "start" => \A t \in wave : statuses[t] = "Running"
  /\ pc = "start" => \A t \in starting : is_ready(t)

\* Every step keeps OutputsInv.
LEMMA OutputsStep == TypeOK /\ RunningInv /\ OutputsInv /\ [Next]_vars => OutputsInv'
<1> SUFFICES ASSUME TypeOK, RunningInv, OutputsInv, [Next]_vars PROVE OutputsInv'
  OBVIOUS
<1> USE TasksAssumption DEF OutputsInv
<1>1. CASE next_wave
  BY <1>1 DEF next_wave, results, is_ready, ready
<1>2. ASSUME NEW t \in Tasks, start_task(t) PROVE OutputsInv'
  <2>1. statuses' = [statuses EXCEPT ![t] = "Running"] /\ statuses[t] = "Pending"
    BY <1>2, StartsReady
  <2>2. \A u \in Tasks : u # t => statuses'[u] = statuses[u]
    BY <2>1 DEF TypeOK
  <2>3. statuses'[t] = "Running"
    BY <2>1 DEF TypeOK
  <2>4. /\ starting' = starting \ {t} /\ outputs' = outputs /\ pc = "start"
        /\ pc' = "start" => wave' = wave \cup {t}
    BY <1>2 DEF start_task, results
  <2>5. ASSUME NEW u \in starting' PROVE is_ready(u)'
    BY <2>1, <2>2, <2>4, <2>5 DEF is_ready, TypeOK
  <2>6. pc' = "start" => \A u \in wave' : statuses'[u] = "Running"
    BY <2>2, <2>3, <2>4 DEF TypeOK
  <2> QED BY <2>2, <2>3, <2>4, <2>5, <2>6
<1>3. CASE spawn
  BY <1>3 DEF spawn, results
<1>4. ASSUME NEW t \in Tasks, block(t) PROVE OutputsInv'
  BY <1>4 DEF block, results
<1>5. ASSUME NEW t \in Tasks, NEW s \in Streams, forward(t, s) \/ reader_ends(t, s)
      PROVE  OutputsInv'
  BY <1>5 DEF forward, reader_ends, results, is_ready
<1>6. ASSUME NEW t \in Tasks, task_done(t) PROVE OutputsInv'
  BY <1>6 DEF task_done, results, is_ready
<1>7. CASE receive
  BY <1>7 DEF receive
<1>8. CASE join
  BY <1>8 DEF join, results
<1>9. ASSUME NEW t \in Tasks, record(t) PROVE OutputsInv'
  <2>1. pc' = "record" /\ outputs \subseteq outputs'
    BY <1>9, RecordsRunning DEF record
  <2>2. \A u \in Tasks : u # t => statuses'[u] = statuses[u]
    BY <1>9, RecordsRunning DEF TypeOK
  <2>3. statuses'[t] = "Succeeded" => fate[t] # Error
    <3>1. statuses'[t] = IF task_status(fate[t]) = 0 THEN "Succeeded" ELSE "Failed"
      BY <1>9, RecordsRunning DEF TypeOK
    <3>2. task_status(Error) = 1
      BY DEF task_status, Error
    <3> QED BY <3>1, <3>2
  <2>4. \A u \in Tasks : statuses'[t] = "Succeeded" /\ t \in Reads[u] => t \in outputs'
    BY <1>9, <2>3 DEF record
  <2> QED BY <2>1, <2>2, <2>4
<1>10. CASE recorded
  BY <1>10 DEF recorded, results
<1>11. CASE UNCHANGED vars
  BY <1>11 DEF vars, results, is_ready
<1> QED BY <1>1, <1>2, <1>3, <1>4, <1>5, <1>6, <1>7, <1>8, <1>9, <1>10, <1>11
        DEF Next, Caller, Thread, Done

\* render_request never fails for want of an output: a wave's requests name
\* outputs of direct dependencies, which all succeeded and are kept.
THEOREM OutputsKeptHolds == Spec => []OutputsKept
<1>1. Init => OutputsInv
  BY DEF Init, OutputsInv
<1>2. TypeOK /\ AfterDependencies /\ OutputsInv => OutputsKept
  <2> SUFFICES ASSUME TypeOK, AfterDependencies, OutputsInv, pc = "start",
                      NEW t \in wave \cup starting, NEW d \in Reads[t]
               PROVE  d \in outputs
    BY DEF OutputsKept
  <2>1. t \in Tasks /\ d \in Deps[t] /\ d \in Tasks
    BY ReadsAssumption, TasksAssumption DEF TypeOK
  <2>2. statuses[d] = "Succeeded"
    BY <2>1 DEF OutputsInv, AfterDependencies, is_ready
  <2> QED BY <2>1, <2>2 DEF OutputsInv
<1> QED BY <1>1, <1>2, TypeCorrect, AfterDependenciesHolds, RunningHolds, OutputsStep, PTL DEF Spec

-----------------------------------------------------------------------------
\* The exit status.

\* The result of t is on its way through the channel.
InChannel(t) == \E i \in 1..Len(channel) : channel[i].kind = "done" /\ channel[i].task = t

\* Where a running task is accounted for.
InWave(t) ==
  \/ pc = "start" /\ t \in wave
  \/ pc = "collect" /\ (t \in threads \/ t \in outcomes \/ InChannel(t))
  \/ pc = "record" /\ t \in outcomes
  \/ pc \in {"abort", "error"}

\* No task is lost between the waves, a failed one leaves a status or an error
\* behind, and tasks are blocked only after a failure.
StatusInv ==
  /\ failed => pc \in {"record", "error"}
  /\ \A t \in Tasks : statuses[t] = "Failed" => exit_status # 0 \/ failed
  /\ \A t \in Tasks : statuses[t] = "Running" => InWave(t)
  /\ pc \in {"block", "done"} =>
       (\A t \in Tasks : statuses[t] = "Succeeded") \/ exit_status # 0

\* At the head of the loop, a workflow with nothing to start has ended well or
\* a task has failed.
LEMMA NothingReady ==
  ASSUME TypeOK, StatusInv, pc = "loop", ready = {} \/ ~has_pending
  PROVE  (\A t \in Tasks : statuses[t] = "Succeeded") \/ exit_status # 0
<1> USE TasksAssumption DEF ready, pending, has_pending,
        is_ready
<1> DEFINE S == {t \in Tasks : statuses[t] = "Pending"}
<1>1. \A t \in Tasks : statuses[t] \in {"Pending", "Succeeded", "Failed"}
  BY DEF TypeOK, TaskStatus, StatusInv, InWave
<1>2. \A t \in Tasks : statuses[t] = "Failed" => exit_status # 0
  BY DEF StatusInv
<1>3. CASE S = {}
  BY <1>1, <1>2, <1>3
<1>4. CASE S # {}
  <2>1. PICK t \in S : Deps[t] \cap S = {}
    BY <1>4, AcyclicAssumption
  <2>2. ~is_ready(t)
    BY <1>4
  <2>3. PICK d \in Deps[t] : statuses[d] # "Succeeded"
    BY <2>2
  <2>4. statuses[d] = "Failed"
    BY <1>1, <2>1, <2>3
  <2> QED BY <1>2, <2>4
<1> QED BY <1>3, <1>4

\* Every step keeps StatusInv.
LEMMA StatusStep ==
  TypeOK /\ ThreadsInv /\ RunningInv /\ StatusInv /\ [Next]_vars => StatusInv'
<1> SUFFICES ASSUME TypeOK, ThreadsInv, RunningInv, StatusInv, [Next]_vars PROVE StatusInv'
  OBVIOUS
<1>1. CASE next_wave
  <2>1. pc' \in {"block", "done"} =>
          (\A t \in Tasks : statuses[t] = "Succeeded") \/ exit_status # 0
    BY <1>1, NothingReady DEF next_wave
  <2> QED BY <1>1, <2>1 DEF next_wave, StatusInv, InWave, results
<1>2. ASSUME NEW t \in Tasks, start_task(t) PROVE StatusInv'
  <2>1. statuses' = [statuses EXCEPT ![t] = "Running"] /\ UNCHANGED <<exit_status, failed>>
    BY <1>2, StartsReady DEF start_task, results
  <2>2. pc = "start" /\ (pc' = "error" \/ (pc' = "start" /\ wave' = wave \cup {t}))
    BY <1>2 DEF start_task
  <2> QED BY <2>1, <2>2 DEF StatusInv, InWave, TypeOK
<1>3. CASE spawn
  BY <1>3 DEF spawn, StatusInv, InWave, results
<1>4. ASSUME NEW t \in Tasks, block(t) PROVE StatusInv'
  BY <1>4 DEF block, StatusInv, InWave, results
<1>5. ASSUME NEW m \in Message, send(m), pc \in {"collect", "abort"}, pc' = pc,
             UNCHANGED <<statuses, exit_status, failed, outcomes>>,
             \A t \in threads \ threads' : m = [kind |-> "done", task |-> t]
      PROVE  StatusInv'
  <2>1. CASE pc = "abort"
    BY <1>5, <2>1 DEF StatusInv, InWave
  <2>2. CASE pc = "collect"
    <3>1. channel \in Seq(Message) /\ channel' = Append(channel, m)
      BY <1>5, <2>2 DEF TypeOK, Message, send
    <3>2. /\ Len(channel') = Len(channel) + 1 /\ channel'[Len(channel) + 1] = m
          /\ Len(channel) \in Nat
          /\ \A i \in 1..Len(channel) : channel'[i] = channel[i]
      BY <3>1
    <3>3. \A t : InChannel(t) => InChannel(t)'
      BY <3>2 DEF InChannel
    <3>4. \A t \in threads \ threads' : InChannel(t)'
      BY <1>5, <3>2 DEF InChannel
    <3> QED BY <1>5, <2>2, <3>3, <3>4 DEF StatusInv, InWave
  <2> QED BY <1>5, <2>1, <2>2
<1>6. ASSUME NEW t \in Tasks, NEW s \in Streams, forward(t, s) PROVE StatusInv'
  <2>1. pc \in {"collect", "abort"}
    BY <1>6 DEF forward, ThreadsInv
  <2>2. [kind |-> "line", task |-> t] \in Message
    BY DEF Message
  <2> QED BY <1>5, <1>6, <2>1, <2>2 DEF forward, results
<1>7. ASSUME NEW t \in Tasks, task_done(t) PROVE StatusInv'
  <2>1. pc \in {"collect", "abort"}
    BY <1>7 DEF task_done, ThreadsInv
  <2>2. [kind |-> "done", task |-> t] \in Message
    BY DEF Message
  <2> QED BY <1>5, <1>7, <2>1, <2>2 DEF task_done, results
<1>8. ASSUME NEW t \in Tasks, NEW s \in Streams, reader_ends(t, s) PROVE StatusInv'
  BY <1>8 DEF reader_ends, StatusInv, InWave, InChannel, results
<1>9. CASE receive
  <2>1. CASE pc' = "abort"
    BY <1>9, <2>1 DEF receive, StatusInv, InWave
  <2>2. CASE pc' = "collect"
    <3>1. /\ channel \in Seq(Message) /\ channel # <<>> /\ channel' = Tail(channel)
          /\ outcomes \subseteq outcomes'
          /\ channel[1].kind = "done" => channel[1].task \in outcomes'
      BY <1>9, <2>2 DEF receive, TypeOK, Message
    <3>2. /\ Len(channel) \in Nat \ {0} /\ Len(channel') = Len(channel) - 1
          /\ \A i \in 1..Len(channel') : channel'[i] = channel[i + 1]
      BY <3>1
    <3>3. ASSUME NEW t \in Tasks, InChannel(t) PROVE InChannel(t)' \/ t \in outcomes'
      <4>1. PICK i \in 1..Len(channel) : channel[i].kind = "done" /\ channel[i].task = t
        BY <3>3 DEF InChannel
      <4>2. CASE i = 1
        BY <3>1, <4>1, <4>2
      <4>3. CASE i # 1
        <5>1. i - 1 \in 1..Len(channel') /\ channel'[i - 1] = channel[i]
          BY <3>2, <4>3
        <5> QED BY <4>1, <5>1 DEF InChannel
      <4> QED BY <4>2, <4>3
    <3> QED BY <1>9, <2>2, <3>1, <3>3 DEF receive, StatusInv, InWave
  <2> QED BY <1>9, <2>1, <2>2 DEF receive
<1>10. CASE join
  <2>1. channel = <<>> => \A t : ~InChannel(t)
    BY DEF InChannel
  <2> QED BY <1>10, <2>1 DEF join, StatusInv, InWave, run, results
<1>11. ASSUME NEW t \in Tasks, record(t) PROVE StatusInv'
  <2>1. /\ pc = "record" /\ pc' = "record" /\ outcomes' = outcomes \ {t}
        /\ failed' = (failed \/ fate[t] = Error)
    BY <1>11, RecordsRunning DEF record
  <2>2. /\ \A u \in Tasks : u # t => statuses'[u] = statuses[u]
        /\ statuses'[t] # "Running"
        /\ statuses'[t] = "Failed" => task_status(fate[t]) # 0
    BY <1>11, RecordsRunning DEF TypeOK
  <2>3. /\ exit_status # 0 => exit_status' # 0
        /\ task_status(fate[t]) # 0 /\ fate[t] # Error => exit_status' # 0
    BY <1>11 DEF record
  <2> QED BY <2>1, <2>2, <2>3 DEF StatusInv, InWave
<1>12. CASE recorded
  BY <1>12 DEF recorded, StatusInv, InWave, run, results
<1>13. CASE UNCHANGED vars
  BY <1>13 DEF vars, results, run, StatusInv, InWave, InChannel
<1> QED BY <1>1, <1>2, <1>3, <1>4, <1>6, <1>7, <1>8, <1>9, <1>10, <1>11, <1>12, <1>13
        DEF Next, Caller, Thread, Done

\* A workflow that ends with status 0 ran every task, and each succeeded: a
\* failure is never lost between the threads, the channel and the waves.
THEOREM ZeroMeansAllPassedHolds == Spec => []ZeroMeansAllPassed
<1>1. Init => StatusInv
  BY DEF Init, StatusInv
<1>2. StatusInv => ZeroMeansAllPassed
  BY DEF StatusInv, ZeroMeansAllPassed
<1> QED BY <1>1, <1>2, TypeCorrect, ThreadsHold, RunningHolds, StatusStep, PTL DEF Spec

-----------------------------------------------------------------------------
\* The order of a task's messages.

\* A task whose thread goes on, or whose messages are on their way, is reported
\* as running; its result is its last message, and its thread sent it last.
OrderInv ==
  /\ \A t \in threads : reported[t] = "running"
  /\ pc = "start" => \A t \in wave : reported[t] = "running"
  /\ \A i \in 1..Len(channel) : reported[channel[i].task] = "running"
  /\ \A i \in 1..Len(channel) : channel[i].kind = "done" =>
       /\ channel[i].task \notin threads
       /\ \A j \in 1..Len(channel) : i < j => channel[j].task # channel[i].task

\* Every step keeps OrderInv.
LEMMA OrderStep == TypeOK /\ ThreadsInv /\ OrderInv /\ [Next]_vars => OrderInv'
<1> SUFFICES ASSUME TypeOK, ThreadsInv, OrderInv, [Next]_vars PROVE OrderInv'
  OBVIOUS
<1>1. CASE next_wave
  BY <1>1 DEF next_wave, OrderInv
<1>2. ASSUME NEW t \in Tasks, start_task(t) PROVE OrderInv'
  <2>1. threads' = {} /\ channel' = <<>>
    BY <1>2 DEF start_task, ThreadsInv
  <2>2. pc' = "start" => \A u \in wave' : reported'[u] = "running"
    BY <1>2 DEF start_task, report, OrderInv, TypeOK
  <2> QED BY <2>1, <2>2 DEF OrderInv
<1>3. CASE spawn
  <2>1. channel' = <<>> /\ pc' # "start" /\ reported' = reported
    BY <1>3 DEF spawn, ThreadsInv
  <2>2. \A t \in threads' : reported[t] = "running"
    BY <1>3 DEF spawn, OrderInv
  <2> QED BY <2>1, <2>2 DEF OrderInv
<1>4. ASSUME NEW t \in Tasks, block(t) PROVE OrderInv'
  <2>1. threads' = {} /\ channel' = <<>> /\ pc' # "start"
    BY <1>4 DEF block, ThreadsInv, run
  <2> QED BY <2>1 DEF OrderInv
<1>5. ASSUME NEW m \in Message, send(m), m.task \in threads, pc \in {"collect", "abort"},
             UNCHANGED <<pc, reported>>, threads' \subseteq threads,
             m.kind = "done" => m.task \notin threads'
      PROVE  OrderInv'
  <2>1. CASE pc = "abort"
    BY <1>5, <2>1 DEF OrderInv, send
  <2>2. CASE pc = "collect"
    <3>1. channel \in Seq(Message) /\ channel' = Append(channel, m)
      BY <1>5, <2>2 DEF TypeOK, Message, send
    <3>2. /\ Len(channel') = Len(channel) + 1 /\ channel'[Len(channel) + 1] = m
          /\ Len(channel) \in Nat
          /\ \A i \in 1..Len(channel) : channel'[i] = channel[i]
      BY <3>1
    <3>3. \A i \in 1..Len(channel) : channel[i].kind = "done" => channel[i].task # m.task
      BY <1>5 DEF OrderInv
    <3>4. \A i \in 1..Len(channel') : reported'[channel'[i].task] = "running"
      BY <1>5, <3>2 DEF OrderInv
    <3>5. ASSUME NEW i \in 1..Len(channel'), channel'[i].kind = "done"
          PROVE  /\ channel'[i].task \notin threads'
                 /\ \A j \in 1..Len(channel') : i < j => channel'[j].task # channel'[i].task
      <4>1. CASE i = Len(channel) + 1
        BY <1>5, <3>2, <3>5, <4>1
      <4>2. CASE i \in 1..Len(channel)
        <5>1. channel'[i] = channel[i] /\ channel[i].kind = "done"
          BY <3>2, <3>5, <4>2
        <5>2. channel[i].task \notin threads'
          BY <1>5, <4>2, <5>1 DEF OrderInv
        <5>3. ASSUME NEW j \in 1..Len(channel'), i < j PROVE channel'[j].task # channel[i].task
          <6>1. CASE j = Len(channel) + 1
            BY <3>2, <3>3, <4>2, <5>1, <6>1
          <6>2. CASE j \in 1..Len(channel)
            BY <3>2, <4>2, <5>1, <5>3, <6>2 DEF OrderInv
          <6> QED BY <3>2, <6>1, <6>2
        <5> QED BY <5>1, <5>2, <5>3
      <4> QED BY <3>2, <4>1, <4>2
    <3> QED BY <1>5, <2>2, <3>4, <3>5 DEF OrderInv
  <2> QED BY <1>5, <2>1, <2>2
<1>6. ASSUME NEW t \in Tasks, NEW s \in Streams, forward(t, s) PROVE OrderInv'
  <2>1. pc \in {"collect", "abort"} /\ t \in threads
    BY <1>6 DEF forward, ThreadsInv
  <2>2. [kind |-> "line", task |-> t] \in Message
    BY DEF Message
  <2> QED BY <1>5, <1>6, <2>1, <2>2 DEF forward
<1>7. ASSUME NEW t \in Tasks, task_done(t) PROVE OrderInv'
  <2>1. pc \in {"collect", "abort"} /\ t \in threads
    BY <1>7 DEF task_done, ThreadsInv
  <2>2. [kind |-> "done", task |-> t] \in Message
    BY DEF Message
  <2> QED BY <1>5, <1>7, <2>1, <2>2 DEF task_done
<1>8. ASSUME NEW t \in Tasks, NEW s \in Streams, reader_ends(t, s) PROVE OrderInv'
  BY <1>8 DEF reader_ends, OrderInv
<1>9. CASE receive
  <2>1. CASE pc' = "abort"
    <3>1. channel' = <<>> /\ UNCHANGED <<threads, reported>>
      BY <1>9, <2>1 DEF receive
    <3> QED BY <2>1, <3>1 DEF OrderInv
  <2>2. CASE pc' = "collect"
    <3>1. channel \in Seq(Message) /\ channel # <<>> /\ channel' = Tail(channel)
      BY <1>9, <2>2 DEF receive, TypeOK, Message
    <3>2. /\ Len(channel) \in Nat \ {0} /\ Len(channel') = Len(channel) - 1
          /\ \A i \in 1..Len(channel') : channel'[i] = channel[i + 1]
      BY <3>1
    <3>3. threads' = threads
      BY <1>9 DEF receive
    <3>4. \A u \in Tasks : reported'[u] = reported[u]
                          \/ (channel[1].kind = "done" /\ u = channel[1].task)
      BY <1>9, <3>1 DEF receive, report, TypeOK
    <3>5. \A i \in 1..Len(channel') : i + 1 \in 1..Len(channel) /\ 1 < i + 1
      BY <3>2
    <3>6. ASSUME NEW i \in 1..Len(channel')
          PROVE  /\ channel'[i].task \in Tasks
                 /\ channel[1].kind = "done" => channel'[i].task # channel[1].task
                 /\ reported[channel'[i].task] = "running"
      <4>1. channel'[i] = channel[i + 1] /\ i + 1 \in 1..Len(channel) /\ 1 < i + 1
            /\ 1 \in 1..Len(channel)
        BY <3>2, <3>5
      <4>2. channel[i + 1] \in Message
        BY <3>1, <4>1
      <4>3. channel[i + 1].task \in Tasks
        BY <4>2 DEF Message
      <4> QED BY <4>1, <4>3 DEF OrderInv
    <3>7. \A i \in 1..Len(channel') : reported'[channel'[i].task] = "running"
      BY <3>4, <3>6
    <3>8. ASSUME NEW t \in threads' PROVE reported'[t] = "running"
      <4>1. t \in Tasks /\ t \in threads /\ reported[t] = "running" /\ 1 \in 1..Len(channel)
        BY <3>2, <3>3 DEF OrderInv, TypeOK
      <4>2. channel[1].kind = "done" => t # channel[1].task
        BY <4>1 DEF OrderInv
      <4> QED BY <3>4, <4>1, <4>2
    <3>9. ASSUME NEW i \in 1..Len(channel'), channel'[i].kind = "done"
          PROVE  /\ channel'[i].task \notin threads'
                 /\ \A j \in 1..Len(channel') : i < j => channel'[j].task # channel'[i].task
      <4>1. channel'[i] = channel[i + 1] /\ i + 1 \in 1..Len(channel)
        BY <3>2, <3>5
      <4>2. channel'[i].task \notin threads'
        BY <3>3, <3>9, <4>1 DEF OrderInv
      <4>3. ASSUME NEW j \in 1..Len(channel'), i < j PROVE channel'[j].task # channel'[i].task
        <5>1. channel'[j] = channel[j + 1] /\ j + 1 \in 1..Len(channel)
          BY <3>2, <3>5
        <5>2. i + 1 < j + 1
          BY <4>3, <3>2
        <5> QED BY <3>9, <4>1, <5>1, <5>2 DEF OrderInv
      <4> QED BY <4>2, <4>3
    <3> QED BY <2>2, <3>7, <3>8, <3>9 DEF OrderInv
  <2> QED BY <1>9, <2>1, <2>2 DEF receive
<1>10. CASE join
  BY <1>10 DEF join, OrderInv, run
<1>11. ASSUME NEW t \in Tasks, record(t) PROVE OrderInv'
  BY <1>11 DEF record, OrderInv, run
<1>12. CASE recorded
  BY <1>12 DEF recorded, OrderInv, run
<1>13. CASE UNCHANGED vars
  BY <1>13 DEF vars, run, OrderInv
<1> QED BY <1>1, <1>2, <1>3, <1>4, <1>6, <1>7, <1>8, <1>9, <1>10, <1>11, <1>12, <1>13
        DEF Next, Caller, Thread, Done

\* No line of a task is reported after the task's result, however the threads
\* interleave.
THEOREM LinesBeforeResultHolds == Spec => []LinesBeforeResult
<1>1. Init => OrderInv
  BY DEF Init, OrderInv
<1>2. TypeOK /\ OrderInv => LinesBeforeResult
  <2> SUFFICES ASSUME TypeOK, OrderInv PROVE LinesBeforeResult
    OBVIOUS
  <2>1. channel \in Seq(Message)
    BY DEF TypeOK, Message
  <2>2. DOMAIN channel = 1..Len(channel)
    BY <2>1
  <2> QED BY <2>2 DEF OrderInv, LinesBeforeResult
<1> QED BY <1>1, <1>2, TypeCorrect, ThreadsHold, OrderStep, PTL DEF Spec

-----------------------------------------------------------------------------
\* What the recursive definitions mean: Depth and Succeeds meet their equations
\* because the workflow has no cycle.

LEMMA LeastNat ==
  ASSUME NEW T, T \subseteq Nat, T # {} PROVE \E i \in T : \A j \in T : i <= j
<1>1. PICK i \in T : \A j \in T : ~ (<<j, i>> \in OpToRel(<, Nat))
  BY NatLessThanWellFounded, WFMin, Zenon
<1>2. \A j \in T : ~ (j < i)
  BY <1>1 DEF OpToRel
<1> QED BY <1>2

\* Every set of tasks is finite.
LEMMA TasksFinite ==
  ASSUME NEW S, S \subseteq Tasks PROVE IsFiniteSet(S) /\ Cardinality(S) \in Nat
<1>1. IsFiniteSet(Tasks)
  BY TasksAssumption, FS_Interval DEF Tasks
<1>2. IsFiniteSet(S)
  BY <1>1, FS_Subset
<1> QED BY <1>2, FS_CardinalityType

\* A set of tasks without one of its members is smaller.
LEMMA SmallerSet ==
  ASSUME NEW S, S \subseteq Tasks, NEW R, R \subseteq S, NEW t \in S, t \notin R
  PROVE  Cardinality(R) < Cardinality(S)
<1>1. IsFiniteSet(S) /\ IsFiniteSet(R) /\ Cardinality(S) \in Nat /\ Cardinality(R) \in Nat
  BY TasksFinite
<1>2. Cardinality(R) <= Cardinality(S) /\ (Cardinality(R) = Cardinality(S) => R = S)
  BY <1>1, FS_Subset
<1> QED BY <1>1, <1>2

\* Some task of a set has the highest number.
LEMMA HighestTask ==
  ASSUME NEW h, NEW S, S \subseteq Tasks, S # {}, \A d \in S : h[d] \in Nat
  PROVE  \E d \in S : \A e \in S : h[e] <= h[d]
<1> DEFINE Over(d) == {e \in S : h[d] < h[e]}
           Counts == {Cardinality(Over(d)) : d \in S}
<1>1. \A d \in S : Cardinality(Over(d)) \in Nat
  BY TasksFinite
<1>2. Counts \subseteq Nat /\ Counts # {}
  BY <1>1
<1>3. PICK i \in Counts : \A j \in Counts : i <= j
  <2> HIDE DEF Counts
  <2> QED BY <1>2, LeastNat
<1>4. PICK d \in S : i = Cardinality(Over(d))
  OBVIOUS
<1>5. SUFFICES ASSUME NEW e \in S, ~(h[e] <= h[d]) PROVE FALSE
  BY <1>4
<1>6. e \in Over(d) /\ e \notin Over(e) /\ Over(e) \subseteq Over(d) /\ Over(d) \subseteq Tasks
  BY <1>5
<1>7. Cardinality(Over(e)) < Cardinality(Over(d))
  <2> HIDE DEF Over
  <2> QED BY <1>6, SmallerSet
<1>8. i <= Cardinality(Over(e))
  <2> HIDE DEF Over
  <2> QED BY <1>3
<1> QED
  <2> HIDE DEF Over
  <2> QED BY <1>1, <1>4, <1>7, <1>8

\* One more than the highest number.
Above(h, S) == IF S = {} THEN 1 ELSE 1 + CHOOSE n \in {h[d] : d \in S} : \A d \in S : h[d] <= n

LEMMA AboveIs ==
  ASSUME NEW h, NEW S, S \subseteq Tasks, \A d \in S : h[d] \in Nat
  PROVE  /\ Above(h, S) \in Nat \ {0}
         /\ \A d \in S : h[d] < Above(h, S)
         /\ S = {} => Above(h, S) = 1
         /\ S # {} => \E d \in S : Above(h, S) = h[d] + 1
<1>1. CASE S = {}
  BY <1>1 DEF Above
<1>2. CASE S # {}
  <2>1. \E n \in {h[d] : d \in S} : \A d \in S : h[d] <= n
    <3>1. PICK d \in S : \A e \in S : h[e] <= h[d]
      BY <1>2, HighestTask
    <3> QED BY <3>1
  <2>2. PICK n : n = CHOOSE m \in {h[d] : d \in S} : \A d \in S : h[d] <= m
    OBVIOUS
  <2>3. n \in {h[d] : d \in S} /\ \A d \in S : h[d] <= n
    BY <2>1, <2>2
  <2>4. Above(h, S) = 1 + n
    BY <1>2, <2>2 DEF Above
  <2> QED BY <1>2, <2>3, <2>4
<1> QED BY <1>1, <1>2

\* It depends on the numbers of the set alone.
LEMMA AboveSame ==
  ASSUME NEW g, NEW h, NEW S, S \subseteq Tasks, \A d \in S : h[d] \in Nat /\ g[d] = h[d]
  PROVE  Above(g, S) = Above(h, S)
<1>1. /\ Above(h, S) \in Nat
      /\ \A d \in S : h[d] < Above(h, S)
      /\ S = {} => Above(h, S) = 1
      /\ S # {} => \E d \in S : Above(h, S) = h[d] + 1
  BY AboveIs
<1>2. /\ Above(g, S) \in Nat
      /\ \A d \in S : g[d] < Above(g, S)
      /\ S = {} => Above(g, S) = 1
      /\ S # {} => \E d \in S : Above(g, S) = g[d] + 1
  BY AboveIs
<1> QED BY <1>1, <1>2

\* Numbers that are right for a set of tasks that needs no others.
Ranked(h, D) == \A t \in D : Deps[t] \subseteq D /\ h[t] = Above(h, Deps[t])

LEMMA RankingExists == \E h \in [Tasks -> Nat] : Ranked(h, Tasks)
<1> DEFINE Good(D) == \E h \in [Tasks -> Nat] : Ranked(h, D)
           Left == {Cardinality(Tasks \ D) : D \in {D \in SUBSET Tasks : Good(D)}}
<1>1. Good({})
  <2>1. [t \in Tasks |-> 0] \in [Tasks -> Nat] /\ Ranked([t \in Tasks |-> 0], {})
    BY DEF Ranked
  <2> QED BY <2>1
<1>2. Left \subseteq Nat /\ Left # {}
  <2> HIDE DEF Good
  <2>1. \A D \in SUBSET Tasks : Cardinality(Tasks \ D) \in Nat
    BY TasksFinite
  <2> QED BY <1>1, <2>1
<1>3. PICK i \in Left : \A j \in Left : i <= j
  <2> HIDE DEF Left
  <2> QED BY <1>2, LeastNat
<1>4. PICK D \in SUBSET Tasks : Good(D) /\ i = Cardinality(Tasks \ D)
  <2> HIDE DEF Good
  <2> QED BY <1>3
<1>5. PICK h \in [Tasks -> Nat] : Ranked(h, D)
  BY <1>4
<1>6. CASE D = Tasks
  BY <1>5, <1>6
<1>7. CASE D # Tasks
  <2>1. Tasks \ D # {} /\ Tasks \ D \in SUBSET Tasks
    BY <1>7
  <2>2. PICK t \in Tasks \ D : Deps[t] \cap (Tasks \ D) = {}
    BY <2>1, AcyclicAssumption
  <2>3. Deps[t] \subseteq D /\ t \in Tasks /\ t \notin D /\ Deps[t] \subseteq Tasks
    BY <2>2, TasksAssumption
  <2>4. Above(h, Deps[t]) \in Nat
    BY <2>3, AboveIs
  <2>5. PICK g \in [Tasks -> Nat] : g[t] = Above(h, Deps[t]) /\ \A d \in Tasks : d # t => g[d] = h[d]
    <3> DEFINE k == [h EXCEPT ![t] = Above(h, Deps[t])]
    <3>1. k \in [Tasks -> Nat] /\ k[t] = Above(h, Deps[t]) /\ \A d \in Tasks : d # t => k[d] = h[d]
      BY <2>3, <2>4
    <3> QED BY <3>1
  <2>6. ASSUME NEW x \in D \cup {t} PROVE Deps[x] \subseteq D /\ g[x] = Above(g, Deps[x])
    <3>1. Deps[x] \subseteq D /\ Deps[x] \subseteq Tasks
      BY <1>5, <2>3 DEF Ranked
    <3>2. g[x] = Above(h, Deps[x])
      BY <1>5, <2>3, <2>5 DEF Ranked
    <3>3. \A d \in Deps[x] : h[d] \in Nat /\ g[d] = h[d]
      BY <2>3, <2>5, <3>1
    <3>4. Above(g, Deps[x]) = Above(h, Deps[x])
      BY <3>1, <3>3, AboveSame
    <3> QED BY <3>1, <3>2, <3>4
  <2>7. D \cup {t} \in SUBSET Tasks /\ Good(D \cup {t})
    BY <2>3, <2>6 DEF Ranked
  <2>8. Cardinality(Tasks \ (D \cup {t})) \in Left
    <3> HIDE DEF Good
    <3> QED BY <2>7
  <2>9. Cardinality(Tasks \ (D \cup {t})) < Cardinality(Tasks \ D)
    <3>1. PICK R : R = Tasks \ (D \cup {t})
      OBVIOUS
    <3>2. Tasks \ D \subseteq Tasks /\ R \subseteq Tasks \ D /\ t \in Tasks \ D /\ t \notin R
      BY <2>3, <3>1
    <3> QED BY <3>1, <3>2, SmallerSet
  <2>10. i <= Cardinality(Tasks \ (D \cup {t}))
    <3> HIDE DEF Left
    <3> QED BY <1>3, <2>8
  <2>11. Cardinality(Tasks \ (D \cup {t})) \in Nat /\ Cardinality(Tasks \ D) \in Nat
    BY TasksFinite
  <2> QED BY <1>4, <2>9, <2>10, <2>11
<1> QED BY <1>6, <1>7

\* A task is one wave after the last task that it depends on.
LEMMA DepthIs ==
  /\ Depth \in [Tasks -> Nat]
  /\ \A t \in Tasks : /\ Depth[t] > 0 /\ \A d \in Deps[t] : Depth[d] < Depth[t]
                      /\ Depth[t] > 1 => \E d \in Deps[t] : Depth[t] = Depth[d] + 1
<1>1. PICK h \in [Tasks -> Nat] : Ranked(h, Tasks)
  BY RankingExists
<1>2. h = [t \in Tasks |-> Above(h, Deps[t])]
  BY <1>1 DEF Ranked
<1>3. Depth = [t \in Tasks |-> Above(Depth, Deps[t])]
  BY <1>2, Zenon DEF Depth, Above
<1>4. DOMAIN Depth = Tasks /\ \A t \in Tasks : Depth[t] = Above(Depth, Deps[t])
  BY <1>3
<1> DEFINE S == {t \in Tasks : Depth[t] # h[t]}
<1>5. S = {}
  <2> SUFFICES ASSUME S # {} PROVE FALSE
    OBVIOUS
  <2>1. S \in SUBSET Tasks
    OBVIOUS
  <2>2. PICK t \in S : Deps[t] \cap S = {}
    <3> HIDE DEF S
    <3> QED BY <2>1, AcyclicAssumption
  <2>3. t \in Tasks /\ Depth[t] # h[t] /\ Deps[t] \subseteq Tasks
    BY <2>2, TasksAssumption
  <2>4. \A d \in Deps[t] : h[d] \in Nat /\ Depth[d] = h[d]
    BY <2>2, <2>3
  <2>5. Above(Depth, Deps[t]) = Above(h, Deps[t])
    BY <2>3, <2>4, AboveSame
  <2>6. h[t] = Above(h, Deps[t])
    BY <1>1, <2>3 DEF Ranked
  <2> QED BY <1>4, <2>3, <2>5, <2>6
<1>6. \A t \in Tasks : Depth[t] = h[t]
  BY <1>5
<1>7. Depth \in [Tasks -> Nat]
  <2>1. Depth = [t \in Tasks |-> Depth[t]]
    BY <1>3
  <2> HIDE DEF Depth
  <2> QED BY <1>6, <2>1
<1>8. ASSUME NEW t \in Tasks
      PROVE  /\ Depth[t] > 0 /\ \A d \in Deps[t] : Depth[d] < Depth[t]
             /\ Depth[t] > 1 => \E d \in Deps[t] : Depth[t] = Depth[d] + 1
  <2>1. Deps[t] \subseteq Tasks /\ \A d \in Deps[t] : Depth[d] \in Nat
    BY <1>7, TasksAssumption
  <2>2. /\ Above(Depth, Deps[t]) \in Nat \ {0}
        /\ \A d \in Deps[t] : Depth[d] < Above(Depth, Deps[t])
        /\ Deps[t] = {} => Above(Depth, Deps[t]) = 1
        /\ Deps[t] # {} => \E d \in Deps[t] : Above(Depth, Deps[t]) = Depth[d] + 1
    BY <2>1, AboveIs
  <2> QED BY <1>4, <2>2
<1> QED BY <1>7, <1>8

\* The tasks that succeed: the largest set of tasks whose programs end well and
\* that need no others.
Lasting(f) == UNION {S \in SUBSET Tasks : \A t \in S : f[t] = 0 /\ Deps[t] \subseteq S}
\* The tasks that run.
Ran(f) == {t \in Tasks : Deps[t] \subseteq Lasting(f)}

LEMMA LastingIs ==
  ASSUME NEW f
  PROVE  /\ Lasting(f) \subseteq Tasks
         /\ \A t \in Tasks : t \in Lasting(f) <=> f[t] = 0 /\ Deps[t] \subseteq Lasting(f)
<1>1. Lasting(f) \subseteq Tasks
  BY DEF Lasting
<1>2. ASSUME NEW t \in Lasting(f) PROVE f[t] = 0 /\ Deps[t] \subseteq Lasting(f)
  BY <1>2 DEF Lasting
<1>3. ASSUME NEW t \in Tasks, f[t] = 0, Deps[t] \subseteq Lasting(f) PROVE t \in Lasting(f)
  <2>1. Lasting(f) \cup {t} \in {S \in SUBSET Tasks : \A x \in S : f[x] = 0 /\ Deps[x] \subseteq S}
    BY <1>1, <1>2, <1>3
  <2> QED BY <2>1 DEF Lasting
<1> QED BY <1>1, <1>2, <1>3

\* Succeeds and Runs say the same.
LEMMA SucceedsIs ==
  /\ \A t \in Tasks : Succeeds[t] <=> t \in Lasting(fate)
  /\ \A t \in Tasks : Runs(t) <=> t \in Ran(fate)
<1> DEFINE g == [t \in Tasks |-> t \in Lasting(fate)]
<1>1. \A t \in Tasks : t \in Lasting(fate) <=> fate[t] = 0 /\ \A d \in Deps[t] : d \in Lasting(fate)
  BY LastingIs
<1>2. \A t \in Tasks : Deps[t] \subseteq Tasks
  BY TasksAssumption
<1>3. ASSUME NEW t \in Tasks
      PROVE  (t \in Lasting(fate)) = (fate[t] = 0 /\ \A d \in Deps[t] : g[d])
  <2>1. \A d \in Deps[t] : g[d] = (d \in Lasting(fate))
    BY <1>2, Zenon
  <2>2. (\A d \in Deps[t] : g[d]) <=> (\A d \in Deps[t] : d \in Lasting(fate))
    BY <2>1, Zenon
  <2>3. t \in Lasting(fate) <=> (fate[t] = 0 /\ \A d \in Deps[t] : g[d])
    BY <1>1, <2>2, Zenon
  <2> HIDE DEF g
  <2> QED BY <2>3
<1>4. g = [t \in Tasks |-> fate[t] = 0 /\ \A d \in Deps[t] : g[d]]
  BY <1>3, Zenon
<1>5. Succeeds = [t \in Tasks |-> fate[t] = 0 /\ \A d \in Deps[t] : Succeeds[d]]
  <2> HIDE DEF g
  <2> QED BY <1>4, Zenon DEF Succeeds
<1>6. \A t \in Tasks : Succeeds[t] <=> fate[t] = 0 /\ \A d \in Deps[t] : Succeeds[d]
  BY <1>5, Zenon
<1> DEFINE S == {t \in Tasks : ~(Succeeds[t] <=> t \in Lasting(fate))}
<1>7. S = {}
  <2> SUFFICES ASSUME S # {} PROVE FALSE
    OBVIOUS
  <2>1. S \in SUBSET Tasks
    OBVIOUS
  <2>2. PICK t \in S : Deps[t] \cap S = {}
    <3> HIDE DEF S
    <3> QED BY <2>1, AcyclicAssumption
  <2>3. t \in Tasks /\ ~(Succeeds[t] <=> t \in Lasting(fate))
    BY <2>2, Zenon
  <2>4. \A d \in Deps[t] : d \in Tasks /\ d \notin S
    BY <1>2, <2>2, <2>3
  <2>5. \A d \in Deps[t] : Succeeds[d] <=> d \in Lasting(fate)
    BY <2>4, Zenon
  <2> QED BY <1>1, <1>6, <2>3, <2>5, Zenon
<1>8. \A t \in Tasks : Succeeds[t] <=> t \in Lasting(fate)
  BY <1>7, Zenon
<1>9. ASSUME NEW t \in Tasks PROVE Runs(t) <=> t \in Ran(fate)
  BY <1>2, <1>8, Zenon DEF Runs, Ran
<1> QED BY <1>8, <1>9

-----------------------------------------------------------------------------
\* The tally.

\* The event that ends a task.
Result(f, t) == IF f[t] = 0 THEN "passed" ELSE "failed"
Ends == {"passed", "failed", "blocked"}
Count(r, e) == Cardinality({t \in Tasks : r[t] = e})

\* Every event that ends a task is counted; a task is reported as its program
\* ended before that is recorded, and nothing is reported of a task that is
\* pending until all that are left are blocked.
ReportInv ==
  /\ \A e \in Ends : tally[e] = Count(reported, e)
  /\ outcomes # {} => pc \in {"collect", "record", "abort", "error"}
  /\ pc = "block" => \A t \in starting : statuses[t] = "Pending"
  /\ pc # "error" => \A t \in Tasks :
       /\ statuses[t] = "Succeeded" => reported[t] = "passed" /\ fate[t] = 0
       /\ statuses[t] = "Failed" => reported[t] = "failed" /\ fate[t] # 0
       /\ t \in outcomes => reported[t] = Result(fate, t)
       /\ statuses[t] = "Pending" =>
            reported[t] = IF pc = "done" \/ (pc = "block" /\ t \notin starting) THEN "blocked" ELSE "none"

\* A report counts once.
LEMMA ReportCounts ==
  ASSUME TypeOK, NEW t \in Tasks, reported[t] \notin Ends,
         NEW e \in {"running", "passed", "failed", "blocked"}, report(t, e),
         \A x \in Ends : tally[x] = Count(reported, x)
  PROVE  \A x \in Ends : tally'[x] = Count(reported', x)
<1> SUFFICES ASSUME NEW x \in Ends PROVE tally'[x] = Count(reported', x)
  OBVIOUS
<1>1. /\ reported'[t] = e /\ \A u \in Tasks : u # t => reported'[u] = reported[u]
      /\ tally' = IF e \in DOMAIN tally THEN [tally EXCEPT ![e] = @ + 1] ELSE tally
      /\ DOMAIN tally = Ends
  BY DEF report, TypeOK, Ends
<1>2. reported[t] # x
  OBVIOUS
<1>3. CASE x = e
  <2> DEFINE S == {u \in Tasks : reported[u] = x}
  <2>1. {u \in Tasks : reported'[u] = x} = S \cup {t}
    BY <1>1, <1>3
  <2>2. t \notin S /\ S \subseteq Tasks
    BY <1>2
  <2>3. IsFiniteSet(S) /\ Cardinality(S) \in Nat
    BY <2>2, TasksFinite
  <2>4. Cardinality(S \cup {t}) = Cardinality(S) + 1
    <3> HIDE DEF S
    <3> QED BY <2>2, <2>3, FS_AddElement
  <2>5. tally'[x] = tally[x] + 1
    BY <1>1, <1>3
  <2> QED BY <2>1, <2>4, <2>5 DEF Count
<1>4. CASE x # e
  <2>1. {u \in Tasks : reported'[u] = x} = {u \in Tasks : reported[u] = x}
    BY <1>1, <1>2, <1>4
  <2>2. tally'[x] = tally[x]
    BY <1>1, <1>4
  <2> QED BY <2>1, <2>2 DEF Count
<1> QED BY <1>3, <1>4

\* Every step keeps ReportInv.
LEMMA ReportStep ==
  TypeOK /\ RunningInv /\ ThreadsInv /\ OrderInv /\ ReportInv /\ [Next]_vars => ReportInv'
<1> SUFFICES ASSUME TypeOK, RunningInv, ThreadsInv, OrderInv, ReportInv, [Next]_vars PROVE ReportInv'
  OBVIOUS
<1>1. CASE next_wave
  BY <1>1 DEF next_wave, ReportInv, Count, Result, results, has_pending, pending
<1>2. ASSUME NEW t \in Tasks, start_task(t) PROVE ReportInv'
  <2>1. /\ statuses' = [statuses EXCEPT ![t] = "Running"] /\ statuses[t] = "Pending"
        /\ pc = "start" /\ pc' \in {"start", "error"} /\ UNCHANGED <<outcomes, fate>>
    BY <1>2, StartsReady DEF start_task, results
  <2>2. reported[t] = "none" /\ outcomes = {}
    BY <2>1 DEF ReportInv
  <2>3. CASE report(t, "running") /\ UNCHANGED pc
    <3>1. \A x \in Ends : tally'[x] = Count(reported', x)
      BY <2>2, <2>3, ReportCounts DEF ReportInv, Ends
    <3>2. \A u \in Tasks : u # t => reported'[u] = reported[u] /\ statuses'[u] = statuses[u]
      BY <2>1, <2>3 DEF report, TypeOK
    <3>3. statuses'[t] = "Running"
      BY <2>1 DEF TypeOK
    <3> QED BY <2>1, <2>2, <2>3, <3>1, <3>2, <3>3 DEF ReportInv
  <2>4. CASE pc' = "error" /\ UNCHANGED <<reported, tally>>
    BY <2>1, <2>2, <2>4 DEF ReportInv, Count
  <2> QED BY <1>2, <2>3, <2>4 DEF start_task
<1>3. CASE spawn
  BY <1>3 DEF spawn, ReportInv, Count, Result, results
<1>4. ASSUME NEW t \in Tasks, block(t) PROVE ReportInv'
  <2>1. /\ pc = "block" /\ t \in starting /\ starting' = starting \ {t}
        /\ UNCHANGED <<statuses, outcomes, fate>>
    BY <1>4 DEF block, results, is_first
  <2>2. reported[t] = "none" /\ outcomes = {} /\ statuses[t] = "Pending"
    BY <2>1 DEF ReportInv
  <2>3. CASE report(t, "blocked") /\ pc' = IF starting = {t} THEN "done" ELSE "block"
    <3>1. \A x \in Ends : tally'[x] = Count(reported', x)
      BY <2>2, <2>3, ReportCounts DEF ReportInv, Ends
    <3>2. reported'[t] = "blocked" /\ \A u \in Tasks : u # t => reported'[u] = reported[u]
      BY <2>3 DEF report, TypeOK
    <3> QED BY <2>1, <2>2, <2>3, <3>1, <3>2 DEF ReportInv
  <2>4. CASE pc' = "error" /\ UNCHANGED <<reported, tally>>
    BY <2>1, <2>2, <2>4 DEF ReportInv, Count
  <2> QED BY <1>4, <2>3, <2>4 DEF block
<1>5. ASSUME NEW t \in Tasks, NEW s \in Streams, forward(t, s) PROVE ReportInv'
  BY <1>5 DEF forward, ReportInv, Count, Result, results
<1>6. ASSUME NEW t \in Tasks, NEW s \in Streams, reader_ends(t, s) PROVE ReportInv'
  BY <1>6 DEF reader_ends, ReportInv, Count, Result, results
<1>7. ASSUME NEW t \in Tasks, task_done(t) PROVE ReportInv'
  BY <1>7 DEF task_done, ReportInv, Count, Result, results
<1>8. CASE receive
  <2>1. channel \in Seq(Message) /\ channel # <<>> /\ pc = "collect"
    BY <1>8 DEF receive, TypeOK, Message
  <2>2. PICK t \in Tasks : t = Head(channel).task /\ reported[t] = "running"
    <3>1. Head(channel) = channel[1] /\ channel[1] \in Message /\ 1 \in 1..Len(channel)
      BY <2>1
    <3> QED BY <3>1 DEF Message, OrderInv
  <2>3. UNCHANGED <<statuses, starting, fate>>
    BY <1>8 DEF receive
  <2>4. CASE pc' \in {"collect", "abort"} /\ UNCHANGED <<outcomes, reported, tally>>
    BY <2>1, <2>3, <2>4 DEF ReportInv, Count, Result
  <2>5. CASE UNCHANGED pc /\ outcomes' = outcomes \cup {t} /\ report(t, Result(fate, t))
    <3>1. \A x \in Ends : tally'[x] = Count(reported', x)
      BY <2>2, <2>5, ReportCounts DEF ReportInv, Ends, Result
    <3>2. reported'[t] = Result(fate, t) /\ \A u \in Tasks : u # t => reported'[u] = reported[u]
      BY <2>5 DEF report, TypeOK
    <3>3. statuses[t] = "Running"
      BY <2>1, <2>2 DEF ReportInv, TypeOK, TaskStatus
    <3> QED BY <2>1, <2>3, <2>5, <3>1, <3>2, <3>3 DEF ReportInv, Result
  <2> QED BY <1>8, <2>2, <2>4, <2>5 DEF receive, Result
<1>9. CASE join
  BY <1>9 DEF join, ReportInv, Count, Result, results
<1>10. ASSUME NEW t \in Tasks, record(t) PROVE ReportInv'
  <2>1. /\ pc = "record" /\ pc' = "record" /\ t \in outcomes /\ outcomes' = outcomes \ {t}
        /\ UNCHANGED <<starting, reported, tally, fate>>
    BY <1>10, RecordsRunning DEF record, is_first
  <2>2. fate[t] \in Nat \cup {Signal, Error}
    BY RunnerAssumption DEF TypeOK
  <2>3. /\ statuses'[t] = IF fate[t] = 0 THEN "Succeeded" ELSE "Failed"
        /\ \A u \in Tasks : u # t => statuses'[u] = statuses[u]
    BY <1>10, <2>2, RecordsRunning DEF task_status, Signal, Error, TypeOK
  <2> QED BY <2>1, <2>3 DEF ReportInv, Count, Result
<1>11. CASE recorded
  BY <1>11 DEF recorded, ReportInv, Count, Result, results
<1>12. CASE UNCHANGED vars
  BY <1>12 DEF vars, results, ReportInv, Count, Result
<1> QED BY <1>1, <1>2, <1>3, <1>4, <1>5, <1>6, <1>7, <1>8, <1>9, <1>10, <1>11, <1>12
        DEF Next, Caller, Thread, Done

\* Nothing is reported at first.
LEMMA ReportInit == Init => ReportInv
<1> SUFFICES ASSUME Init PROVE ReportInv
  OBVIOUS
<1>1. \A e \in Ends : {t \in Tasks : reported[t] = e} = {}
  BY DEF Init, Ends
<1>2. ASSUME NEW e \in Ends PROVE tally[e] = Count(reported, e)
  <2>1. Count(reported, e) = 0
    BY <1>1, FS_EmptySet DEF Count
  <2> QED BY <2>1 DEF Init, Ends
<1> QED BY <1>2 DEF Init, ReportInv

\* OrderInv and ReportInv hold throughout.
LEMMA ReportHolds == Spec => [](OrderInv /\ ReportInv)
<1>1. Init => OrderInv
  BY DEF Init, OrderInv
<1> QED BY <1>1, ReportInit, TypeCorrect, ThreadsHold, RunningHolds, OrderStep,
           ReportStep, PTL DEF Spec

-----------------------------------------------------------------------------
\* Refinement.

\* While tasks are blocked, none is ready.
BlockInv == pc = "block" => ready = {}

LEMMA BlockStep == BlockInv /\ [Next]_vars => BlockInv'
<1> SUFFICES ASSUME BlockInv, [Next]_vars, pc' = "block" PROVE ready' = {}
  BY DEF BlockInv
<1>1. CASE next_wave
  BY <1>1 DEF next_wave, ready, is_ready
<1>2. ASSUME NEW t \in Tasks, block(t) PROVE ready' = {}
  BY <1>2 DEF block, BlockInv, ready, is_ready
<1>3. CASE UNCHANGED <<pc, statuses>>
  BY <1>3 DEF BlockInv, ready, is_ready
<1>4. ASSUME NEW t \in Tasks, start_task(t) \/ record(t) PROVE FALSE
  BY <1>4 DEF start_task, record
<1>5. ASSUME spawn \/ receive \/ join \/ recorded PROVE FALSE
  BY <1>5 DEF spawn, receive, join, recorded
<1>6. ASSUME NEW t \in Tasks, Thread(t) PROVE UNCHANGED <<pc, statuses>>
  BY <1>6 DEF Thread, forward, reader_ends, task_done
<1> QED BY <1>1, <1>2, <1>3, <1>4, <1>5, <1>6 DEF Next, Caller, Done, vars

\* Every event that is reported is one that Execution allows: the statuses
\* behind a start are those of dependencies whose success was reported.
LEMMA EventStep ==
  ASSUME TypeOK, ThreadsInv, RunningInv, StatusInv, OrderInv, ReportInv, BlockInv,
         [Next]_vars
  PROVE  [Execution!Next]_reported
<1> USE TasksAssumption
<1>1. ASSUME NEW t \in Tasks, start_task(t) PROVE [Execution!Next]_reported
  <2>1. /\ is_ready(t) /\ pc = "start"
        /\ UNCHANGED reported \/ reported' = [reported EXCEPT ![t] = "running"]
    BY <1>1, StartsReady DEF start_task, report
  <2>2. reported[t] = "none"
    BY <2>1 DEF is_ready, ReportInv
  <2>3. \A d \in Deps[t] : reported[d] = "passed"
    BY <2>1 DEF is_ready, ReportInv
  <2> QED BY <2>1, <2>2, <2>3
          DEF Execution!Next, Execution!Started, Execution!Startable, Execution!Tasks, Tasks
<1>2. CASE receive
  <2>1. channel \in Seq(Message) /\ channel # <<>>
    BY <1>2 DEF receive, TypeOK, Message
  <2>2. Head(channel) = channel[1] /\ channel[1] \in Message /\ 1 \in 1..Len(channel)
    BY <2>1
  <2>3. PICK t \in Tasks : t = Head(channel).task /\ reported[t] = "running"
    BY <2>2 DEF Message, OrderInv
  <2>4. \/ UNCHANGED reported
        \/ \E result \in {"passed", "failed"} : reported' = [reported EXCEPT ![t] = result]
    BY <1>2, <2>3 DEF receive, report
  <2> QED BY <2>3, <2>4 DEF Execution!Next, Execution!Ended, Execution!Tasks, Tasks
<1>3. ASSUME NEW t \in Tasks, block(t) PROVE [Execution!Next]_reported
  <2>1. /\ pc = "block" /\ t \in starting
        /\ UNCHANGED reported \/ reported' = [reported EXCEPT ![t] = "blocked"]
    BY <1>3 DEF block, report, is_first
  <2>2. reported[t] = "none"
    BY <2>1 DEF ReportInv
  <2>3. ASSUME NEW u \in Tasks
        PROVE  reported[u] # "running" /\ ~Execution!Startable(u)
    <3>1. statuses[u] \in {"Pending", "Succeeded", "Failed"}
      BY <2>1 DEF StatusInv, InWave, TypeOK, TaskStatus
    <3>2. reported[u] # "running" /\ (reported[u] = "none" => statuses[u] = "Pending")
      BY <2>1, <3>1 DEF ReportInv
    <3>3. ASSUME reported[u] = "none", \A d \in Deps[u] : reported[d] = "passed"
          PROVE  FALSE
      <4>1. ASSUME NEW d \in Deps[u] PROVE statuses[d] = "Succeeded"
        <5>1. d \in Tasks /\ reported[d] = "passed"
          BY <3>3
        <5>2. statuses[d] \in {"Pending", "Succeeded", "Failed"}
          BY <2>1, <5>1 DEF StatusInv, InWave, TypeOK, TaskStatus
        <5> QED BY <2>1, <5>1, <5>2 DEF ReportInv
      <4>2. u \in ready
        BY <3>2, <3>3, <4>1 DEF ready, is_ready
      <4> QED BY <2>1, <4>2 DEF BlockInv
    <3> QED BY <3>2, <3>3 DEF Execution!Startable
  <2> QED BY <2>1, <2>2, <2>3 DEF Execution!Next, Execution!Blocked, Execution!Tasks, Tasks
<1>4. CASE UNCHANGED reported
  BY <1>4
<1> QED BY <1>1, <1>2, <1>3, <1>4 DEF Next, Caller, Thread, Done, vars, next_wave, spawn,
        forward, reader_ends, task_done, join, record, recorded

\* run_workflow keeps what Execution promises to whoever follows its events:
\* whatever its threads do and wherever it gives up, a task is said to start
\* only when its dependencies were said to have passed, to end once, and to
\* be blocked only when nothing runs and nothing can start.
THEOREM ImplementsExecution == Spec => ExecutionSpec
<1>1. Init => Execution!Init
  BY DEF Init, Execution!Init, Execution!Tasks, Tasks
<1>2. Init => StatusInv /\ BlockInv
  BY DEF Init, StatusInv, BlockInv
<1>3. TypeOK /\ ThreadsInv /\ RunningInv /\ StatusInv /\ (OrderInv /\ ReportInv) /\ BlockInv
        /\ [Next]_vars => [Execution!Next]_reported
  BY EventStep
<1> QED BY <1>1, <1>2, <1>3, TypeCorrect, ThreadsHold, RunningHolds, ReportHolds,
           StatusStep, BlockStep, PTL DEF Spec, ExecutionSpec, Execution!Spec

-----------------------------------------------------------------------------
\* The waves.

Ended(t) == statuses[t] \in {"Succeeded", "Failed"}
\* The tasks of the wave that goes on.
Now(t) == statuses[t] = "Running" \/ (pc = "start" /\ t \in starting)

\* After w waves exactly those tasks have run, or run now, that can run and are
\* at most w deep. A wave is as deep as its tasks, and when its results are
\* recorded, earlier ones in it are declared before those still to come.
Level(w) ==
  /\ \A t \in Tasks : Ended(t) \/ Now(t) <=> t \in Ran(fate) /\ Depth[t] <= w
  /\ \A t \in Tasks : Now(t) => Depth[t] = w
  /\ pc \in {"start", "collect"} => \A t \in Tasks : Ended(t) => Depth[t] < w
  /\ pc = "record" => \A t, u \in Tasks : Ended(t) /\ statuses[u] = "Running" /\ Depth[t] = w => t < u

\* The exit status is that of the first task that failed.
FirstFailed(f) ==
  LET F == {t \in Tasks : statuses[t] = "Failed"}
  IN  IF F = {} THEN exit_status = 0
      ELSE \E t \in F : (\A u \in F : Earlier(t, u)) /\ exit_status = task_status(f[t])

\* Until the run is given up, it is at some level, its exit status is right,
\* and it blocks only tasks that cannot run.
WavesInv ==
  pc \notin {"abort", "error"} =>
    /\ \E w \in Nat : Level(w)
    /\ pc \in {"block", "done"} => \A t \in Ran(fate) : statuses[t] # "Pending"
    /\ ~failed => FirstFailed(fate)

\* At the head of the loop nothing runs, and what has ended has ended as its
\* program did.
LEMMA LoopSettled ==
  ASSUME TypeOK, StatusInv, ReportInv, pc = "loop", NEW w \in Nat, Level(w), NEW t \in Tasks
  PROVE  /\ statuses[t] \in {"Pending", "Succeeded", "Failed"}
         /\ statuses[t] # "Pending" <=> t \in Ran(fate) /\ Depth[t] <= w
         /\ statuses[t] = "Succeeded" <=> t \in Lasting(fate) /\ Depth[t] <= w
<1>1. statuses[t] \in {"Pending", "Succeeded", "Failed"}
  BY DEF TypeOK, TaskStatus, StatusInv, InWave
<1>2. statuses[t] # "Pending" <=> t \in Ran(fate) /\ Depth[t] <= w
  BY <1>1 DEF Level, Ended, Now
<1>3. t \in Lasting(fate) <=> fate[t] = 0 /\ t \in Ran(fate)
  BY LastingIs DEF Ran
<1>4. (statuses[t] = "Succeeded" => fate[t] = 0) /\ (statuses[t] = "Failed" => fate[t] # 0)
  BY DEF ReportInv
<1> QED BY <1>1, <1>2, <1>3, <1>4

\* The tasks that are ready after w waves are the ones that run and are one
\* deeper.
LEMMA ReadyIsNext ==
  ASSUME TypeOK, StatusInv, ReportInv, pc = "loop", NEW w \in Nat, Level(w), NEW t \in Tasks
  PROVE  is_ready(t) <=> t \in Ran(fate) /\ Depth[t] = w + 1
<1>1. Depth[t] \in Nat /\ Depth[t] > 0 /\ Deps[t] \subseteq Tasks
      /\ \A d \in Deps[t] : Depth[d] \in Nat /\ Depth[d] < Depth[t]
  BY DepthIs, TasksAssumption
<1>2. \A d \in Deps[t] : statuses[d] = "Succeeded" <=> d \in Lasting(fate) /\ Depth[d] <= w
  BY <1>1, LoopSettled
<1>3. statuses[t] # "Pending" <=> t \in Ran(fate) /\ Depth[t] <= w
  BY LoopSettled
<1>4. ASSUME is_ready(t) PROVE t \in Ran(fate) /\ Depth[t] = w + 1
  <2>1. \A d \in Deps[t] : d \in Lasting(fate) /\ Depth[d] <= w
    BY <1>2, <1>4 DEF is_ready
  <2>2. t \in Ran(fate)
    BY <2>1 DEF Ran
  <2>3. ~(Depth[t] <= w)
    BY <1>3, <1>4, <2>2 DEF is_ready
  <2>4. Depth[t] > 1 => \E d \in Deps[t] : Depth[t] = Depth[d] + 1
    BY DepthIs
  <2> QED BY <1>1, <2>1, <2>2, <2>3, <2>4
<1>5. ASSUME t \in Ran(fate), Depth[t] = w + 1 PROVE is_ready(t)
  <2>1. statuses[t] = "Pending"
    BY <1>3, <1>5
  <2>2. \A d \in Deps[t] : Depth[d] <= w
    BY <1>1, <1>5
  <2> QED BY <1>2, <1>5, <2>1, <2>2 DEF Ran, is_ready
<1> QED BY <1>4, <1>5

\* When nothing is ready, every task that can run has run.
LEMMA AllHaveRun ==
  ASSUME TypeOK, StatusInv, ReportInv, pc = "loop", NEW w \in Nat, Level(w), ready = {}
  PROVE  \A t \in Ran(fate) : statuses[t] # "Pending"
<1> DEFINE S == {t \in Ran(fate) : statuses[t] = "Pending"}
<1> SUFFICES ASSUME S # {} PROVE FALSE
  OBVIOUS
<1>1. S \in SUBSET Tasks
  BY DEF Ran
<1>2. PICK t \in S : Deps[t] \cap S = {}
  <2> HIDE DEF S
  <2> QED BY <1>1, AcyclicAssumption
<1>3. t \in Tasks /\ t \in Ran(fate) /\ statuses[t] = "Pending" /\ Deps[t] \subseteq Tasks
  BY <1>1, <1>2, TasksAssumption
<1>4. ASSUME NEW d \in Deps[t] PROVE statuses[d] = "Succeeded"
  <2>1. d \in Tasks /\ d \in Lasting(fate)
    BY <1>3 DEF Ran
  <2>2. d \in Ran(fate)
    BY <2>1, LastingIs DEF Ran
  <2>3. statuses[d] # "Pending"
    BY <1>2, <2>2
  <2> QED BY <2>1, <2>2, <2>3, LoopSettled
<1>5. t \in ready
  BY <1>3, <1>4 DEF ready, is_ready
<1> QED BY <1>5

\* Steps that change no status keep a level, and the first failure.
LEMMA LevelKept ==
  ASSUME UNCHANGED <<statuses, fate>>, NEW w, Level(w),
         \A t \in Tasks : Now(t)' <=> Now(t),
         pc' = pc \/ pc' \in {"loop", "block", "done"} \/ (pc = "start" /\ pc' = "collect")
           \/ (pc = "collect" /\ pc' = "record" /\ Depth \in [Tasks -> Nat] /\ w \in Nat)
  PROVE  Level(w)'
<1>1. \A t \in Tasks : Ended(t)' <=> Ended(t)
  BY DEF Ended
<1>2. Ran(fate)' = Ran(fate)
  BY DEF Ran, Lasting
<1>3. \A t \in Tasks : Ended(t)' \/ Now(t)' <=> t \in Ran(fate)' /\ Depth[t] <= w
  BY <1>1, <1>2 DEF Level
<1>4. \A t \in Tasks : Now(t)' => Depth[t] = w
  BY DEF Level
<1>5. pc' \in {"start", "collect"} => \A t \in Tasks : Ended(t)' => Depth[t] < w
  BY <1>1 DEF Level
<1>6. pc' = "record" => \A t, u \in Tasks : Ended(t)' /\ statuses'[u] = "Running" /\ Depth[t] = w => t < u
  BY <1>1 DEF Level
<1> QED BY <1>3, <1>4, <1>5, <1>6 DEF Level

\* Every step keeps WavesInv.
LEMMA WavesStep ==
  /\ TypeOK /\ RunningInv /\ ThreadsInv /\ StatusInv /\ ReportInv
  /\ WavesInv /\ [Next]_vars
  => WavesInv'
<1> SUFFICES ASSUME TypeOK, RunningInv, ThreadsInv, StatusInv, ReportInv, WavesInv, [Next]_vars,
                    pc' \notin {"abort", "error"}
             PROVE  /\ (\E w \in Nat : Level(w))'
                    /\ pc' \in {"block", "done"} => \A t \in Ran(fate)' : statuses'[t] # "Pending"
                    /\ ~failed' => FirstFailed(fate)'
  BY DEF WavesInv
<1>0. fate' = fate /\ Ran(fate)' = Ran(fate)
  <2>1. fate' = fate
    BY DEF Next, Caller, Thread, Done, vars, next_wave, start_task, spawn, block, forward, reader_ends,
           task_done, receive, join, record, recorded
  <2> QED BY <2>1 DEF Ran, Lasting
<1>1. pc \notin {"abort", "error"}
  BY DEF Next, Caller, Thread, Done, vars, next_wave, start_task, spawn, block, forward, reader_ends,
         task_done, receive, join, record, recorded
<1>2. PICK w \in Nat : Level(w)
  BY <1>1 DEF WavesInv
<1>3. ~failed => FirstFailed(fate)
  BY <1>1 DEF WavesInv
<1>4. pc \in {"block", "done"} => \A t \in Ran(fate) : statuses[t] # "Pending"
  BY <1>1 DEF WavesInv
<1>5. Depth \in [Tasks -> Nat]
  BY DepthIs
<1> DEFINE Goal == /\ \E v \in Nat : Level(v)'
                   /\ pc' \in {"block", "done"} => \A t \in Ran(fate) : statuses'[t] # "Pending"
                   /\ ~failed' => FirstFailed(fate)'
<1> SUFFICES Goal
  BY <1>0
<1>6. UNCHANGED <<statuses, exit_status, failed>> => (~failed' => FirstFailed(fate)')
  BY <1>0, <1>3 DEF FirstFailed
<1>7. CASE UNCHANGED <<pc, statuses, starting, exit_status, failed>>
  <2>1. \A t \in Tasks : Now(t)' <=> Now(t)
    BY <1>7 DEF Now
  <2>2. Level(w)'
    BY <1>0, <1>2, <1>7, <2>1, LevelKept
  <2> QED BY <1>4, <1>6, <1>7, <2>2
<1>8. CASE next_wave
  <2>1. pc = "loop" /\ UNCHANGED <<statuses, exit_status, failed>>
    BY <1>8 DEF next_wave, results
  <2>2. \A t \in Tasks : statuses[t] # "Running"
    BY <1>2, <2>1, LoopSettled
  <2>3. CASE pc' = "start" /\ starting' = ready
    <3>1. ASSUME NEW t \in Tasks PROVE Now(t)' <=> t \in Ran(fate) /\ Depth[t] = w + 1
      <4>1. Now(t)' <=> t \in ready
        BY <2>1, <2>2, <2>3 DEF Now
      <4>2. t \in ready <=> is_ready(t)
        BY DEF ready
      <4> QED BY <1>2, <2>1, <4>1, <4>2, ReadyIsNext
    <3>2. ASSUME NEW t \in Tasks PROVE Ended(t)' <=> t \in Ran(fate) /\ Depth[t] <= w
      BY <1>2, <2>1, LoopSettled DEF Ended
    <3>3. \A t \in Tasks : Depth[t] \in Nat
      BY <1>5
    <3>4. \A t \in Tasks : Ended(t)' \/ Now(t)' <=> t \in Ran(fate)' /\ Depth[t] <= w + 1
      BY <1>0, <3>1, <3>2, <3>3
    <3>5. \A t \in Tasks : Now(t)' => Depth[t] = w + 1
      BY <3>1
    <3>6. \A t \in Tasks : Ended(t)' => Depth[t] < w + 1
      BY <3>2, <3>3
    <3>7. Level(w + 1)'
      BY <2>3, <3>4, <3>5, <3>6 DEF Level
    <3> QED BY <1>6, <2>1, <2>3, <3>7
  <2>4. CASE pc' \in {"block", "done"}
    <3>1. \A t \in Tasks : Now(t)' <=> Now(t)
      BY <2>1, <2>4 DEF Now
    <3>2. Level(w)'
      BY <1>0, <1>2, <2>1, <2>4, <3>1, LevelKept
    <3>3. \A t \in Ran(fate) : statuses[t] # "Pending"
      <4>1. CASE ready = {}
        BY <1>2, <2>1, <4>1, AllHaveRun
      <4>2. CASE ~has_pending
        BY <4>2 DEF has_pending, pending, Ran
      <4> QED BY <1>8, <2>4, <4>1, <4>2 DEF next_wave
    <3> QED BY <1>6, <2>1, <3>2, <3>3
  <2> QED BY <1>8, <2>3, <2>4 DEF next_wave
<1>9. ASSUME NEW t \in Tasks, start_task(t) PROVE Goal
  <2>1. /\ pc = "start" /\ pc' = "start" /\ starting' = starting \ {t} /\ t \in starting
        /\ statuses' = [statuses EXCEPT ![t] = "Running"] /\ statuses[t] = "Pending"
        /\ UNCHANGED <<exit_status, failed>>
    BY <1>9, StartsReady DEF start_task, results, is_first
  <2>2. statuses'[t] = "Running" /\ \A u \in Tasks : u # t => statuses'[u] = statuses[u]
    BY <2>1 DEF TypeOK
  <2>3. \A u \in Tasks : (Now(u)' <=> Now(u)) /\ (Ended(u)' <=> Ended(u))
    BY <2>1, <2>2 DEF Now, Ended
  <2>4. Level(w)'
    BY <1>0, <1>2, <2>1, <2>3 DEF Level
  <2>5. {u \in Tasks : statuses'[u] = "Failed"} = {u \in Tasks : statuses[u] = "Failed"}
    BY <2>1, <2>2
  <2>6. ~failed' => FirstFailed(fate)'
    BY <1>0, <1>3, <2>1, <2>5 DEF FirstFailed
  <2> QED BY <2>1, <2>4, <2>6
<1>10. CASE spawn
  <2>1. /\ pc = "start" /\ starting = {} /\ pc' = "collect"
        /\ UNCHANGED <<statuses, starting, exit_status, failed>>
    BY <1>10 DEF spawn, results
  <2>2. \A t \in Tasks : Now(t)' <=> Now(t)
    BY <2>1 DEF Now
  <2>3. Level(w)'
    BY <1>0, <1>2, <2>1, <2>2, LevelKept
  <2> QED BY <1>6, <2>1, <2>3
<1>11. ASSUME NEW t \in Tasks, block(t) PROVE Goal
  <2>1. /\ pc = "block" /\ pc' \in {"block", "done"} /\ UNCHANGED <<statuses, exit_status, failed>>
    BY <1>11 DEF block, results
  <2>2. \A u \in Tasks : Now(u)' <=> Now(u)
    BY <2>1 DEF Now
  <2>3. Level(w)'
    BY <1>0, <1>2, <2>1, <2>2, LevelKept
  <2> QED BY <1>4, <1>6, <2>1, <2>3
<1>12. CASE join
  <2>1. /\ pc = "collect" /\ pc' = "record" /\ UNCHANGED <<statuses, starting, exit_status, failed>>
    BY <1>1, <1>12 DEF join, results
  <2>2. \A t \in Tasks : Now(t)' <=> Now(t)
    BY <2>1 DEF Now
  <2>3. Level(w)'
    BY <1>0, <1>2, <1>5, <2>1, <2>2, LevelKept
  <2> QED BY <1>6, <2>1, <2>3
<1>13. ASSUME NEW t \in Tasks, record(t) PROVE Goal
  <2>1. /\ pc = "record" /\ pc' = "record" /\ t \in outcomes /\ \A u \in outcomes : t <= u
        /\ statuses[t] = "Running" /\ UNCHANGED starting
        /\ failed' = (failed \/ fate[t] = Error)
        /\ exit_status' = IF fate[t] # Error /\ exit_status = 0 THEN task_status(fate[t]) ELSE exit_status
    BY <1>13, RecordsRunning DEF record, is_first
  <2>2. fate[t] \in Nat \cup {Signal, Error}
    BY RunnerAssumption DEF TypeOK
  <2>3. /\ statuses'[t] = IF fate[t] = 0 THEN "Succeeded" ELSE "Failed"
        /\ \A u \in Tasks : u # t => statuses'[u] = statuses[u]
    BY <1>13, <2>2, RecordsRunning DEF task_status, Signal, Error, TypeOK
  <2>4. Depth[t] = w /\ \A u \in Tasks : Depth[u] \in Nat
    BY <1>2, <1>5, <2>1 DEF Level, Now
  <2>5. \A u \in Tasks : /\ Ended(u)' \/ Now(u)' <=> Ended(u) \/ Now(u)
                         /\ Now(u)' => Now(u)
                         /\ Ended(u)' <=> Ended(u) \/ u = t
    BY <2>1, <2>3 DEF Ended, Now
  <2>6. \A u, v \in Tasks : Ended(u)' /\ statuses'[v] = "Running" /\ Depth[u] = w => u < v
    <3> SUFFICES ASSUME NEW u \in Tasks, NEW v \in Tasks, Ended(u)', statuses'[v] = "Running", Depth[u] = w
                 PROVE  u < v
      OBVIOUS
    <3>1. v # t /\ statuses[v] = "Running"
      BY <2>3
    <3>2. v \in outcomes
      BY <2>1, <3>1 DEF StatusInv, InWave
    <3>3. CASE u = t
      BY <2>1, <3>1, <3>2, <3>3, TasksAssumption DEF Tasks
    <3>4. CASE Ended(u)
      BY <1>2, <2>1, <3>1, <3>4 DEF Level
    <3> QED BY <2>5, <3>3, <3>4
  <2>7. Level(w)'
    BY <1>0, <1>2, <2>1, <2>5, <2>6 DEF Level
  <2>8. ASSUME ~failed' PROVE FirstFailed(fate)'
    <3> DEFINE F == {u \in Tasks : statuses[u] = "Failed"}
    <3>1. ~failed /\ fate[t] # Error
      BY <2>1, <2>8
    <3>2. CASE fate[t] = 0
      <4>1. {u \in Tasks : statuses'[u] = "Failed"} = F
        BY <2>1, <2>3, <3>2
      <4>2. exit_status' = exit_status
        BY <2>1, <3>2 DEF task_status
      <4> QED BY <1>0, <1>3, <3>1, <4>1, <4>2 DEF FirstFailed
    <3>3. CASE fate[t] # 0
      <4>1. {u \in Tasks : statuses'[u] = "Failed"} = F \cup {t}
        BY <2>1, <2>3, <3>3
      <4>2. CASE F = {}
        <5>1. exit_status = 0
          BY <1>3, <3>1, <4>2 DEF FirstFailed
        <5>2. exit_status' = task_status(fate[t])
          BY <2>1, <3>1, <5>1
        <5>3. Earlier(t, t)
          BY <2>4, TasksAssumption DEF Earlier, Tasks
        <5> QED BY <1>0, <4>1, <4>2, <5>2, <5>3 DEF FirstFailed
      <4>3. CASE F # {}
        <5>1. PICK u \in F : (\A v \in F : Earlier(u, v)) /\ exit_status = task_status(fate[u])
          BY <1>3, <3>1, <4>3 DEF FirstFailed
        <5>2. u \in Tasks /\ statuses[u] = "Failed" /\ fate[u] # 0 /\ fate[u] \in Nat \cup {Signal, Error}
          BY <2>1, <5>1, RunnerAssumption DEF ReportInv, TypeOK
        <5>3. exit_status # 0
          BY <5>1, <5>2 DEF task_status
        <5>4. exit_status' = task_status(fate[u])
          BY <2>1, <5>1, <5>3
        <5>5. Depth[u] <= w /\ (Depth[u] = w => u < t)
          BY <1>2, <2>1, <5>2 DEF Level, Ended
        <5>6. Earlier(u, t)
          BY <2>4, <5>2, <5>5, TasksAssumption DEF Earlier, Tasks
        <5>7. \A v \in F \cup {t} : Earlier(u, v)
          BY <5>1, <5>6
        <5> QED BY <1>0, <4>1, <5>1, <5>4, <5>7 DEF FirstFailed
      <4> QED BY <4>2, <4>3
    <3> QED BY <3>2, <3>3
  <2> QED BY <2>1, <2>7, <2>8
<1>14. CASE recorded
  <2>1. pc = "record" /\ pc' = "loop" /\ UNCHANGED <<statuses, starting, exit_status, failed>>
    BY <1>14 DEF recorded, results
  <2>2. \A t \in Tasks : Now(t)' <=> Now(t)
    BY <2>1 DEF Now
  <2>3. Level(w)'
    BY <1>0, <1>2, <2>1, <2>2, LevelKept
  <2> QED BY <1>6, <2>1, <2>3
<1>15. CASE receive
  BY <1>7, <1>15 DEF receive
<1>16. ASSUME NEW t \in Tasks, Thread(t) PROVE Goal
  <2>1. UNCHANGED <<pc, statuses, starting, exit_status, failed>>
    BY <1>16 DEF Thread, forward, reader_ends, task_done, results
  <2> QED BY <1>7, <2>1
<1>17. CASE UNCHANGED vars
  BY <1>7, <1>17 DEF vars, results
<1> HIDE DEF Goal
<1> QED BY <1>8, <1>9, <1>10, <1>11, <1>12, <1>13, <1>14, <1>15, <1>16, <1>17
        DEF Next, Caller, Done

\* At the end every task is recorded and counted as the workflow and the
\* programs settle it.
LEMMA DeterminedAtEnd ==
  TypeOK /\ StatusInv /\ ReportInv /\ WavesInv => Deterministic
<1> SUFFICES ASSUME TypeOK, StatusInv, ReportInv, WavesInv, pc = "done" PROVE Deterministic
  BY DEF Deterministic
<1>1. PICK w \in Nat : Level(w)
  BY DEF WavesInv
<1>2. \A t \in Ran(fate) : statuses[t] # "Pending"
  BY DEF WavesInv
<1>3. FirstFailed(fate)
  BY DEF WavesInv, StatusInv
<1>4. ASSUME NEW t \in Tasks
      PROVE  /\ t \in Lasting(fate) <=> statuses[t] = "Succeeded"
             /\ t \in Ran(fate) /\ fate[t] # 0 <=> statuses[t] = "Failed"
             /\ t \notin Ran(fate) <=> statuses[t] = "Pending"
  <2>1. statuses[t] \in {"Pending", "Succeeded", "Failed"}
    BY DEF TypeOK, TaskStatus, StatusInv, InWave
  <2>2. t \in Ran(fate) <=> statuses[t] # "Pending"
    BY <1>1, <1>2, <2>1 DEF Level, Ended
  <2>3. t \in Lasting(fate) <=> fate[t] = 0 /\ t \in Ran(fate)
    BY LastingIs DEF Ran
  <2>4. (statuses[t] = "Succeeded" => fate[t] = 0) /\ (statuses[t] = "Failed" => fate[t] # 0)
    BY DEF ReportInv
  <2> QED BY <2>1, <2>2, <2>3, <2>4
<1>5. ASSUME NEW t \in Tasks
      PROVE  /\ Succeeds[t] <=> statuses[t] = "Succeeded"
             /\ Runs(t) /\ fate[t] # 0 <=> statuses[t] = "Failed"
             /\ ~Runs(t) <=> statuses[t] = "Pending"
  BY <1>4, SucceedsIs, Zenon
<1>6. \A t \in Tasks : /\ statuses[t] = "Succeeded" <=> reported[t] = "passed"
                       /\ statuses[t] = "Failed" <=> reported[t] = "failed"
                       /\ statuses[t] = "Pending" <=> reported[t] = "blocked"
  <2>1. \A t \in Tasks : statuses[t] \in {"Pending", "Succeeded", "Failed"}
    BY DEF TypeOK, TaskStatus, StatusInv, InWave
  <2> QED BY <2>1 DEF ReportInv
<1>7. /\ {t \in Tasks : Succeeds[t]} = {t \in Tasks : reported[t] = "passed"}
      /\ FailedTasks = {t \in Tasks : statuses[t] = "Failed"}
      /\ FailedTasks = {t \in Tasks : reported[t] = "failed"}
      /\ {t \in Tasks : ~Runs(t)} = {t \in Tasks : reported[t] = "blocked"}
  <2>1. {t \in Tasks : Succeeds[t]} = {t \in Tasks : reported[t] = "passed"}
    BY <1>5, <1>6, Zenon
  <2>2. FailedTasks = {t \in Tasks : statuses[t] = "Failed"}
    BY <1>5, Zenon DEF FailedTasks
  <2>3. {t \in Tasks : statuses[t] = "Failed"} = {t \in Tasks : reported[t] = "failed"}
    BY <1>6, Zenon
  <2>4. {t \in Tasks : ~Runs(t)} = {t \in Tasks : reported[t] = "blocked"}
    BY <1>5, <1>6, Zenon
  <2> QED BY <2>1, <2>2, <2>3, <2>4, Zenon
<1>8. tally = [passed |-> Cardinality({t \in Tasks : Succeeds[t]}),
               failed |-> Cardinality(FailedTasks),
               blocked |-> Cardinality({t \in Tasks : ~Runs(t)})]
  <2>1. /\ tally["passed"] = Cardinality({t \in Tasks : reported[t] = "passed"})
        /\ tally["failed"] = Cardinality({t \in Tasks : reported[t] = "failed"})
        /\ tally["blocked"] = Cardinality({t \in Tasks : reported[t] = "blocked"})
    BY DEF ReportInv, Ends, Count
  <2>2. ASSUME NEW a, NEW b, NEW c, tally["passed"] = a, tally["failed"] = b, tally["blocked"] = c
        PROVE  tally = [passed |-> a, failed |-> b, blocked |-> c]
    BY <2>2 DEF TypeOK
  <2>3. /\ tally["passed"] = Cardinality({t \in Tasks : Succeeds[t]})
        /\ tally["failed"] = Cardinality(FailedTasks)
        /\ tally["blocked"] = Cardinality({t \in Tasks : ~Runs(t)})
    BY <1>7, <2>1, Zenon
  <2> QED BY <2>2, <2>3, Zenon
<1>9. ASSUME NEW t \in Tasks
      PROVE  statuses[t] = IF Succeeds[t] THEN "Succeeded" ELSE IF Runs(t) THEN "Failed" ELSE "Pending"
  <2>1. statuses[t] \in {"Pending", "Succeeded", "Failed"}
    BY DEF TypeOK, TaskStatus, StatusInv, InWave
  <2>2. CASE Succeeds[t]
    BY <1>5, <2>2, Zenon
  <2>3. CASE ~Succeeds[t]
    <3>1. statuses[t] = "Pending" \/ statuses[t] = "Failed"
      <4>1. statuses[t] # "Succeeded"
        BY <1>5, <2>3, Zenon
      <4> QED BY <2>1, <4>1
    <3>2. "Pending" # "Failed"
      OBVIOUS
    <3> QED BY <1>5, <2>3, <3>1, <3>2, Zenon
  <2> QED BY <2>2, <2>3, Zenon
<1>10. IF FailedTasks = {} THEN exit_status = 0
       ELSE \E t \in FailedTasks :
              (\A u \in FailedTasks : Earlier(t, u)) /\ exit_status = task_status(fate[t])
  BY <1>3, <1>7, Zenon DEF FirstFailed
<1> QED BY <1>8, <1>9, <1>10, Zenon DEF Deterministic

\* A workflow that ends ends the same way in whatever order its threads finish:
\* the tasks that run and the tasks that succeed, the tally, and the exit
\* status, which is that of the first failed task by wave and declaration,
\* are settled by the workflow and by how its programs end.
THEOREM DeterministicHolds == Spec => []Deterministic
<1>1. Init => StatusInv
  BY DEF Init, StatusInv
<1>2. Init => WavesInv
  <2> SUFFICES ASSUME Init PROVE WavesInv
    OBVIOUS
  <2>1. \A t \in Tasks : Depth[t] \in Nat /\ Depth[t] > 0
    BY DepthIs
  <2>2. Level(0)
    BY <2>1 DEF Init, Level, Ended, Now
  <2>3. FirstFailed(fate)
    BY DEF Init, FirstFailed
  <2> QED BY <2>2, <2>3 DEF Init, WavesInv
<1> QED BY <1>1, <1>2, TypeCorrect, ThreadsHold, RunningHolds, ReportHolds, StatusStep,
        WavesStep, DeterminedAtEnd, PTL DEF Spec
=============================================================================
