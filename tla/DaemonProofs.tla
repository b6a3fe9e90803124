---------------------------- MODULE DaemonProofs ----------------------------
(***************************************************************************)
(* Theorems about Daemon, for any number of jobs, any run limit and any    *)
(* schedules.                                                              *)
(***************************************************************************)
EXTENDS Daemon, FiniteSetTheorems, WellFoundedInduction, TLAPS

-----------------------------------------------------------------------------
\* Lemmas about the operators of planning.

\* A nonempty set of naturals has a least element.
LEMMA LeastNat ==
  ASSUME NEW S \in SUBSET Nat, S # {}
  PROVE  \E s \in S : \A u \in S : s <= u
<1>1. PICK s \in S : \A u \in S : ~ (<<u, s>> \in OpToRel(<, Nat))
  BY NatLessThanWellFounded, WFMin, Zenon
<1>2. \A u \in S : ~ (u < s)
  BY <1>1 DEF OpToRel
<1> QED BY <1>2

\* next_after gives an instant of the schedule after t, or none.
LEMMA NextAfterLater ==
  ASSUME NEW j \in Jobs, NEW t \in Nat
  PROVE  /\ next_after(j, t) \in Nat
         /\ next_after(j, t) # 0 =>
              next_after(j, t) \in Sched[j] /\ next_after(j, t) > t
<1> DEFINE later == {s \in Sched[j] : s > t}
<1>1. later \in SUBSET Nat
  BY SchedAssumption
<1>2. CASE later = {}
  BY <1>2 DEF next_after
<1>3. CASE later # {}
  <2>1. \E s \in later : \A u \in later : s <= u
    BY <1>1, <1>3, LeastNat
  <2>2. next_after(j, t) \in later
    BY <1>3, <2>1 DEF next_after
  <2> QED BY <2>2, <1>1
<1> QED BY <1>2, <1>3

\* The instants of a schedule are not 0, which stands for none.
LEMMA SchedPositive ==
  ASSUME NEW j \in Jobs, NEW s \in Sched[j]
  PROVE  s \in Nat /\ s > 0
BY SchedAssumption, ClockAssumption

\* A planned fire stands for an instant of the schedule after the last fire.
LEMMA PlanAhead ==
  ASSUME NEW j \in Jobs, NEW last \in Nat, NEW p \in BOOLEAN, NEW t \in Nat,
         NEW c \in BOOLEAN
  PROVE  /\ plan(j, last, p, t, c) \in Nat
         /\ plan(j, last, p, t, c) # 0 =>
              \E s \in Sched[j] : last < s /\ s <= plan(j, last, p, t, c)
<1> DEFINE base == IF last # 0 THEN last ELSE IF j \in Recurring THEN t ELSE 0
           next == next_after(j, base)
<1>1. base \in Nat /\ last <= base
  OBVIOUS
<1>2. next \in Nat /\ (next # 0 => next \in Sched[j] /\ next > base)
  BY <1>1, NextAfterLater
<1>3. /\ next_after(j, t) \in Nat
      /\ next_after(j, t) # 0 => next_after(j, t) \in Sched[j] /\ next_after(j, t) > t
  BY NextAfterLater
<1> HIDE DEF base
<1>4. plan(j, last, p, t, c) \in {0, next, t, next_after(j, t)}
  BY DEF plan, base
<1>5. CASE ~is_ready(j, p) \/ next = 0
  BY <1>5 DEF plan, base
<1>6. CASE is_ready(j, p) /\ next # 0 /\ next > t
  BY <1>6, <1>1, <1>2 DEF plan, base
<1>7. CASE is_ready(j, p) /\ next # 0 /\ ~(next > t)
  <2>1. next <= t /\ last < next
    BY <1>7, <1>1, <1>2
  <2>2. plan(j, last, p, t, c) = t \/ plan(j, last, p, t, c) = next_after(j, t)
    BY <1>7 DEF plan, base
  <2> QED BY <2>1, <2>2, <1>2, <1>3
<1> QED BY <1>5, <1>6, <1>7

\* Without a catch-up, a planned fire lies ahead.
LEMMA PlanFuture ==
  ASSUME NEW j \in Jobs, NEW last \in Nat, NEW p \in BOOLEAN, NEW t \in Nat,
         NEW c \in BOOLEAN, ~(c /\ j \in CatchUp),
         plan(j, last, p, t, c) # 0
  PROVE  plan(j, last, p, t, c) > t /\ is_ready(j, p)
<1> DEFINE base == IF last # 0 THEN last ELSE IF j \in Recurring THEN t ELSE 0
           next == next_after(j, base)
<1>1. base \in Nat
  OBVIOUS
<1>2. next \in Nat
  BY <1>1, NextAfterLater
<1>3. next_after(j, t) # 0 => next_after(j, t) > t
  BY NextAfterLater
<1> HIDE DEF base
<1>4. CASE next > t
  BY <1>4, <1>2 DEF plan, base
<1>5. CASE ~(next > t)
  BY <1>5, <1>2, <1>3 DEF plan, base
<1> QED BY <1>4, <1>5

\* to_second drops a fraction of a second and keeps whole seconds.
LEMMA ToSecond ==
  ASSUME NEW t \in Nat
  PROVE  /\ to_second(t) \in Nat /\ to_second(t) <= t
         /\ to_second(t) % Second = 0
         /\ \A s \in Nat : s % Second = 0 /\ s <= t => s <= to_second(t)
<1> DEFINE q == t \div Second
<1>1. q \in Nat /\ t % Second \in 0..(Second - 1) /\ t = Second * q + (t % Second)
  BY ClockAssumption
<1>2. to_second(t) = Second * q
  BY <1>1, ClockAssumption DEF to_second
<1> QED BY <1>1, <1>2, ClockAssumption

-----------------------------------------------------------------------------
\* Type correctness.

\* The timer is set to a natural number of ticks, MAX_SLEEP at most, and not
\* beyond a planned fire of a ready job that lies ahead.
LEMMA SleepNat ==
  ASSUME TypeOK
  PROVE  /\ sleep(next_fire, now) \in Nat
         /\ sleep(next_fire, now) <= MaxSleep
         /\ \A j \in Jobs :
              is_ready(j, paused[j]) /\ next_fire[j] # 0 /\ next_fire[j] >= now =>
                now + sleep(next_fire, now) <= next_fire[j]
<1> DEFINE ahead == {next_fire[j] - now : j \in {k \in Jobs :
              is_ready(k, paused[k]) /\ next_fire[k] # 0 /\ next_fire[k] >= now}}
                 \cup {MaxSleep}
<1>1. ahead \in SUBSET Nat /\ ahead # {}
  BY ClockAssumption DEF TypeOK, Instant
<1>2. \E s \in ahead : \A u \in ahead : s <= u
  BY <1>1, LeastNat
<1> DEFINE least == sleep(next_fire, now)
<1>3. least \in ahead /\ \A u \in ahead : least <= u
  BY <1>2 DEF sleep
<1>4. ASSUME NEW j \in Jobs, is_ready(j, paused[j]), next_fire[j] # 0,
             next_fire[j] >= now
      PROVE  next_fire[j] - now \in ahead
  BY <1>4
<1>5. MaxSleep \in ahead
  OBVIOUS
<1> HIDE DEF ahead, least
<1>6. least \in Nat /\ least <= MaxSleep
  BY <1>1, <1>3, <1>5
<1>7. ASSUME NEW j \in Jobs, is_ready(j, paused[j]), next_fire[j] # 0,
             next_fire[j] >= now
      PROVE  now + least <= next_fire[j]
  <2>1. least <= next_fire[j] - now
    BY <1>3, <1>4, <1>7
  <2> QED BY <1>6, <2>1 DEF TypeOK, Instant
<1> QED BY <1>6, <1>7 DEF least

\* A save keeps the type of state.json.
LEMMA SaveType ==
  ASSUME TypeOK, NEW holds \in [Jobs -> BOOLEAN], save_state(last_fire, holds)
  PROVE  disk_fire' \in [Jobs -> Instant] /\ disk_paused' \in [Jobs -> BOOLEAN]
<1>1. \A j \in Jobs : to_second(last_fire[j]) \in Nat
  BY ToSecond DEF TypeOK, Instant
<1> QED BY <1>1 DEF save_state, TypeOK, Instant, disk

\* start keeps the types of what it changes.
LEMMA StartType ==
  ASSUME TypeOK, NEW j \in Jobs, start(j)
  PROVE  /\ job_running' \in [Jobs -> BOOLEAN] /\ queued' \in [Jobs -> BOOLEAN]
         /\ running' \in Nat /\ runs' \in [RunIds -> Jobs \cup {0}]
BY DEF start, TypeOK

\* note_scheduled_run keeps the types of the history.
LEMMA NoteType ==
  ASSUME TypeOK, NEW j \in Jobs, NEW f \in Nat, note_scheduled_run(j, f)
  PROVE  ran_to' \in [Jobs -> Instant] /\ repeats' \subseteq Jobs /\ opened' = opened
BY DEF note_scheduled_run, TypeOK, Instant

\* The initial state is well typed.
LEMMA TypeInit == Init => TypeOK
<1> SUFFICES ASSUME Init PROVE TypeOK
  OBVIOUS
<1>1. stopping \in BOOLEAN /\ exiting \in BOOLEAN
  BY Zenon DEF Init
<1>2. /\ job_running \in [Jobs -> BOOLEAN] /\ queued \in [Jobs -> BOOLEAN]
      /\ paused \in [Jobs -> BOOLEAN] /\ disk_paused \in [Jobs -> BOOLEAN]
  BY DEF Init
<1> QED BY <1>1, <1>2, ClockAssumption DEF Init, TypeOK, Instant, Points

\* Without a process, what the process held is well typed.
LEMMA NoProcessType ==
  ASSUME NoProcess
  PROVE  /\ stopping' \in BOOLEAN /\ exiting' \in BOOLEAN
         /\ job_running' \in [Jobs -> BOOLEAN] /\ queued' \in [Jobs -> BOOLEAN]
         /\ paused' \in [Jobs -> BOOLEAN]
         /\ next_fire' \in [Jobs -> Instant] /\ last_fire' \in [Jobs -> Instant]
         /\ runs' \in [RunIds -> Jobs \cup {0}]
<1>1. stopping' \in BOOLEAN /\ exiting' \in BOOLEAN
  BY Zenon DEF NoProcess
<1> QED BY <1>1 DEF NoProcess, Instant

\* Every step keeps the types.
LEMMA TypeStep == TypeOK /\ [Next]_vars => TypeOK'
<1> SUFFICES ASSUME TypeOK, [Next]_vars PROVE TypeOK'
  OBVIOUS
<1>1. CASE open
  <2>1. \A j \in Jobs : plan(j, disk_fire[j], disk_paused[j], clock, TRUE) \in Nat
    BY PlanAhead DEF TypeOK, Instant
  <2> QED BY <1>1, <2>1 DEF open, TypeOK, Instant, Points, disk
<1>2. CASE serve_ends \/ crash
  <2>1. NoProcess
    BY <1>2 DEF serve_ends, crash
  <2>2. now' = 0 /\ due' = {} /\ current' = 0 /\ running' = 0 /\ sent' = {}
    BY <2>1 DEF NoProcess
  <2> QED BY <1>2, <2>1, <2>2, NoProcessType
        DEF serve_ends, crash, TypeOK, Instant, Points, disk, history
<1>3. CASE turn
  BY <1>3 DEF turn, TypeOK, Instant, Points, disk, history
<1>4. ASSUME NEW j \in Jobs, fire(j) PROVE TypeOK'
  <2>1. next_fire[j] \in Nat
    BY DEF TypeOK, Instant
  <2>2. CASE start(j) /\ note_scheduled_run(j, next_fire[j])
    BY <1>4, <2>1, <2>2, StartType, NoteType DEF fire, TypeOK, Instant, Points, disk
  <2>3. CASE /\ queued' = [queued EXCEPT ![j] = TRUE]
             /\ UNCHANGED <<job_running, running, runs, history>>
    BY <1>4, <2>1, <2>3 DEF fire, TypeOK, Instant, Points, disk, history
  <2>4. CASE UNCHANGED <<job_running, queued, running, runs, history>>
    BY <1>4, <2>1, <2>4 DEF fire, TypeOK, Instant, Points, disk, history
  <2> QED BY <1>4, <2>2, <2>3, <2>4 DEF fire
<1>5. CASE fire_saved
  <2>1. disk_fire' \in [Jobs -> Instant] /\ disk_paused' \in [Jobs -> BOOLEAN]
    BY <1>5, SaveType DEF fire_saved, TypeOK
  <2>2. current \in Jobs =>
          plan(current, last_fire[current], paused[current], now, FALSE) \in Nat
    BY PlanAhead DEF TypeOK, Instant
  <2> QED BY <1>5, <2>1, <2>2 DEF fire_saved, TypeOK, Instant, Points, history
<1>6. CASE wait
  BY <1>6, SleepNat DEF wait, TypeOK, Instant, Points, process, disk, history
<1>7. CASE timeout \/ drained
  BY <1>7 DEF timeout, drained, TypeOK, Instant, Points, process, disk, history
<1>8. ASSUME NEW j \in Jobs, NEW held \in BOOLEAN, hold(j, held) PROVE TypeOK'
  <2>1. paused' \in [Jobs -> BOOLEAN]
    BY <1>8 DEF hold, TypeOK
  <2>2. disk_fire' \in [Jobs -> Instant] /\ disk_paused' \in [Jobs -> BOOLEAN]
    BY <1>8, <2>1, SaveType DEF hold
  <2>3. plan(j, last_fire[j], held, clock, FALSE) \in Nat
    BY PlanAhead DEF TypeOK, Instant
  <2> QED BY <1>8, <2>1, <2>2, <2>3 DEF hold, TypeOK, Instant, Points, history
<1>9. ASSUME NEW j \in Jobs, trigger(j) PROVE TypeOK'
  BY <1>9, StartType DEF trigger, TypeOK, Instant, Points, disk, history
<1>10. CASE stop \/ signal \/ status
  <2>1. stopping' \in BOOLEAN /\ exiting' \in BOOLEAN
    BY <1>10, Zenon DEF stop, signal, status, process, TypeOK
  <2> QED BY <1>10, <2>1 DEF stop, signal, status, TypeOK, Instant, Points, process, disk, history
<1>11. ASSUME NEW r \in RunIds, finished(r) PROVE TypeOK'
  <2>1. disk_fire' \in [Jobs -> Instant] /\ disk_paused' \in [Jobs -> BOOLEAN]
    BY <1>11, SaveType DEF finished, TypeOK
  <2>2. job_running' \in [Jobs -> BOOLEAN]
    BY <1>11 DEF finished, TypeOK
  <2>3. running' \in Nat /\ runs' \in [RunIds -> Jobs \cup {0}] /\ sent' \subseteq RunIds
    BY <1>11 DEF finished, TypeOK
  <2> QED BY <1>11, <2>1, <2>2, <2>3 DEF finished, TypeOK, Instant, Points, history
<1>12. ASSUME NEW j \in Jobs, start_queued(j) PROVE TypeOK'
  <2>1. last_fire[j] \in Nat
    BY DEF TypeOK, Instant
  <2> QED BY <1>12, <2>1, StartType, NoteType DEF start_queued, TypeOK, Instant, Points, disk
<1>13. ASSUME NEW r \in RunIds, run_ends(r) PROVE TypeOK'
  BY <1>13 DEF run_ends, TypeOK, Instant, Points, disk, history
<1>14. CASE tick \/ clock_set
  BY <1>14, ClockAssumption DEF tick, clock_set, TypeOK, Instant, Points, process, disk, history
<1>15. CASE UNCHANGED vars
  BY <1>15 DEF vars, TypeOK, Instant, process, disk, history
<1> QED BY <1>1, <1>2, <1>3, <1>4, <1>5, <1>6, <1>7, <1>8, <1>9, <1>10, <1>11,
           <1>12, <1>13, <1>14, <1>15 DEF Next, Step

\* Every state of the daemon is well typed.
THEOREM TypeCorrect == Spec => []TypeOK
BY TypeInit, TypeStep, PTL DEF Spec

-----------------------------------------------------------------------------
\* The inductive invariants behind the theorems. Each is kept by every step
\* on its own or with the ones above it.

\* The counter and the channel agree with the threads.
CountInv ==
  /\ sent \subseteq Active
  /\ running = Cardinality(Active) /\ running <= Limit

\* The flag of a job tells the truth when its runs never overlap.
OverlapInv ==
  /\ NoOverlap
  /\ \A j \in Jobs : Overlap[j] # "parallel" =>
       \A r \in RunIds : runs[r] = j => job_running[j]

\* Where the thread stands and what its variables hold there.
ControlInv ==
  /\ pc = "save" <=> current # 0
  /\ due # {} => pc \in {"fire", "save"}
  /\ current \notin due
  /\ \A j \in due : next_fire[j] # 0
  /\ stopping => due = {} /\ pc # "save"
  /\ pc = "down" => /\ \A j \in Jobs : ~queued[j]
                    /\ due = {} /\ ~stopping

\* The fire on disk is whole and not ahead of the one in memory; a planned
\* fire stands for an instant of the schedule after the last fire.
FireInv ==
  /\ \A j \in Jobs : disk_fire[j] % Second = 0
  /\ pc # "down" => \A j \in Jobs :
       /\ disk_fire[j] <= last_fire[j]
       /\ j # current /\ next_fire[j] # 0 =>
            \E s \in Sched[j] : last_fire[j] < s /\ s <= next_fire[j]

\* Every instant a run stood for is behind the fire on disk, but for the job
\* whose fire is being saved; a queued fire stands for an instant of its own.
RepeatInv ==
  /\ \A j \in Jobs : j # current =>
       \A s \in Sched[j] : s <= ran_to[j] => s <= disk_fire[j]
  /\ pc # "down" => \A j \in Jobs : j # current =>
       \A s \in Sched[j] : s <= last_fire[j] => s <= disk_fire[j]
  /\ pc = "save" =>
       \A s \in Sched[current] : s <= ran_to[current] => s <= last_fire[current]
  /\ \A j \in Jobs : queued[j] =>
       \E s \in Sched[j] : ran_to[j] < s /\ s <= last_fire[j]
  /\ repeats = {}

\* Every job this turn is done with has its next fire ahead of `now`, and the
\* timer of a waiting thread ends with the first of them.
FiresAhead ==
  pc \in {"fire", "save", "wait"} /\ ~stopping => \A j \in Jobs :
    is_ready(j, paused[j]) /\ next_fire[j] # 0 /\ j \notin due /\ j # current
      => next_fire[j] > now
TimerInTime ==
  pc = "wait" =>
    /\ left <= MaxSleep
    /\ \A j \in Jobs :
         is_ready(j, paused[j]) /\ next_fire[j] # 0 /\ next_fire[j] >= now =>
           now + left <= next_fire[j]
WakeInv == FiresAhead /\ TimerInTime

\* The clock does not fall behind the start of the process.
MissedInv ==
  /\ MissedStaysMissed
  /\ pc # "down" => opened <= clock
  /\ pc \in {"fire", "save"} => opened <= now

-----------------------------------------------------------------------------
\* The run limit.

\* Run threads are finite in number.
LEMMA ActiveFinite == IsFiniteSet(Active) /\ Cardinality(Active) \in Nat
<1>1. Active \in SUBSET RunIds
  BY DEF Active
<1> QED BY <1>1, RunIdsAssumption, FS_Subset, FS_CardinalityType

\* A start below the limit adds one thread and one to the count.
LEMMA StartCount ==
  ASSUME TypeOK, CountInv, NEW j \in Jobs, start(j), running < Limit, sent' = sent
  PROVE  CountInv'
<1>1. PICK r \in RunIds : runs[r] = 0 /\ runs' = [runs EXCEPT ![r] = j]
  BY DEF start
<1>2. j # 0
  BY CountAssumption DEF Jobs
<1>3. Active' = Active \cup {r} /\ r \notin Active
  BY <1>1, <1>2 DEF Active, TypeOK
<1>4. Cardinality(Active') = Cardinality(Active) + 1
  BY <1>3, ActiveFinite, FS_AddElement
<1> QED BY <1>3, <1>4, ActiveFinite, CountAssumption DEF CountInv, start

\* An action that touches neither threads nor count keeps them in agreement.
LEMMA SameCount ==
  ASSUME CountInv, UNCHANGED <<runs, sent, running>>
  PROVE  CountInv'
BY DEF CountInv, Active

\* The count agrees with the threads in the initial state.
LEMMA CountInit == Init => CountInv
<1> SUFFICES ASSUME Init PROVE CountInv
  OBVIOUS
<1>1. Active = {}
  BY DEF Init, Active
<1> QED BY <1>1, FS_EmptySet, CountAssumption DEF Init, CountInv

\* Every step keeps the count in agreement with the threads.
LEMMA CountStep == TypeOK /\ CountInv /\ [Next]_vars => CountInv'
<1> SUFFICES ASSUME TypeOK, CountInv, [Next]_vars PROVE CountInv'
  OBVIOUS
<1>1. CASE serve_ends \/ crash
  <2>1. runs' = [r \in RunIds |-> 0] /\ sent' = {} /\ running' = 0
    BY <1>1 DEF serve_ends, crash, NoProcess
  <2>2. Active' = {}
    BY <2>1 DEF Active
  <2> QED BY <2>1, <2>2, FS_EmptySet, CountAssumption DEF CountInv
<1>2. ASSUME NEW j \in Jobs, fire(j) PROVE CountInv'
  <2>1. CASE action_for(j) = "start" /\ start(j)
    <3>1. running < Limit
      BY <2>1, CountAssumption DEF action_for, TypeOK
    <3> QED BY <1>2, <2>1, <3>1, StartCount DEF fire
  <2>2. CASE UNCHANGED <<running, runs>>
    BY <1>2, <2>2, SameCount DEF fire
  <2> QED BY <1>2, <2>1, <2>2 DEF fire
<1>3. ASSUME NEW j \in Jobs, trigger(j) PROVE CountInv'
  BY <1>3, StartCount, SameCount DEF trigger
<1>4. ASSUME NEW j \in Jobs, start_queued(j) PROVE CountInv'
  BY <1>4, StartCount DEF start_queued
<1>5. ASSUME NEW r \in RunIds, finished(r) PROVE CountInv'
  <2>1. r \in Active /\ running = Cardinality(Active)
    BY <1>5 DEF finished, CountInv
  <2>2. Active' = Active \ {r}
    BY <1>5 DEF finished, Active, TypeOK
  <2>3. Cardinality(Active') = Cardinality(Active) - 1
    BY <2>1, <2>2, ActiveFinite, FS_RemoveElement
  <2>4. Cardinality(Active) # 0
    BY <2>1, ActiveFinite, FS_EmptySet
  <2>5. running' = running - 1
    BY <1>5, <2>1, <2>4, ActiveFinite DEF finished
  <2> QED BY <1>5, <2>1, <2>2, <2>3, <2>5, ActiveFinite, CountAssumption
        DEF finished, CountInv
<1>6. ASSUME NEW r \in RunIds, run_ends(r) PROVE CountInv'
  BY <1>6 DEF run_ends, CountInv, Active
<1>7. CASE open \/ turn \/ fire_saved \/ wait \/ timeout \/ drained
  BY <1>7, SameCount DEF open, turn, fire_saved, wait, timeout, drained, process
<1>8. ASSUME NEW j \in Jobs, NEW held \in BOOLEAN, hold(j, held) PROVE CountInv'
  BY <1>8, SameCount DEF hold
<1>9. CASE stop \/ signal \/ status \/ tick \/ clock_set
  BY <1>9, SameCount DEF stop, signal, status, tick, clock_set, process
<1>10. CASE UNCHANGED vars
  BY <1>10, SameCount DEF vars, process
<1> QED BY <1>1, <1>2, <1>3, <1>4, <1>5, <1>6, <1>7, <1>8, <1>9, <1>10 DEF Next, Step

\* The daemon's count of runs is right and never above the limit, for any
\* number of jobs and any limit.
THEOREM RunLimitHolds == Spec => []RunLimit
<1>1. CountInv => RunLimit
  BY DEF CountInv, RunLimit
<1> QED BY <1>1, TypeInit, TypeStep, CountInit, CountStep, PTL DEF Spec

-----------------------------------------------------------------------------
\* No overlap.

\* A start of a job that has no run, or that runs in parallel, overlaps none.
LEMMA StartOverlap ==
  ASSUME TypeOK, OverlapInv, NEW j \in Jobs, start(j),
         ~job_running[j] \/ Overlap[j] = "parallel"
  PROVE  OverlapInv'
<1>1. PICK r \in RunIds : runs[r] = 0 /\ runs' = [runs EXCEPT ![r] = j]
  BY DEF start
<1>2. job_running' = [job_running EXCEPT ![j] = TRUE]
  BY DEF start
<1> QED BY <1>1, <1>2 DEF OverlapInv, NoOverlap, TypeOK

\* An action that touches neither threads nor flags overlaps none.
LEMMA SameOverlap ==
  ASSUME OverlapInv, UNCHANGED <<runs, job_running>>
  PROVE  OverlapInv'
BY DEF OverlapInv, NoOverlap

\* There is no run in the initial state.
LEMMA OverlapInit == Init => OverlapInv
BY CountAssumption DEF Init, OverlapInv, NoOverlap, Jobs

\* Every step keeps the runs of a job apart.
LEMMA OverlapStep == TypeOK /\ CountInv /\ OverlapInv /\ [Next]_vars => OverlapInv'
<1> SUFFICES ASSUME TypeOK, CountInv, OverlapInv, [Next]_vars PROVE OverlapInv'
  OBVIOUS
<1>1. CASE serve_ends \/ crash
  BY <1>1, CountAssumption DEF serve_ends, crash, NoProcess, OverlapInv, NoOverlap, Jobs
<1>2. ASSUME NEW j \in Jobs, fire(j) PROVE OverlapInv'
  <2>1. CASE action_for(j) = "start" /\ start(j)
    <3>1. ~job_running[j] \/ Overlap[j] = "parallel"
      BY <2>1, JobAssumption DEF action_for
    <3> QED BY <2>1, <3>1, StartOverlap
  <2>2. CASE UNCHANGED <<job_running, runs>>
    BY <2>2, SameOverlap
  <2> QED BY <1>2, <2>1, <2>2 DEF fire
<1>3. ASSUME NEW j \in Jobs, trigger(j) PROVE OverlapInv'
  BY <1>3, StartOverlap, SameOverlap DEF trigger
<1>4. ASSUME NEW j \in Jobs, start_queued(j) PROVE OverlapInv'
  BY <1>4, StartOverlap DEF start_queued, is_first_queued, can_start_queued
<1>5. ASSUME NEW r \in RunIds, finished(r) PROVE OverlapInv'
  <2>1. runs[r] \in Jobs
    BY <1>5 DEF finished, CountInv, Active, TypeOK
  <2>2. /\ runs' = [runs EXCEPT ![r] = 0]
        /\ job_running' = [job_running EXCEPT ![runs[r]] = FALSE]
    BY <1>5 DEF finished
  <2>3. \A j \in Jobs : j # 0
    BY CountAssumption DEF Jobs
  <2> QED BY <2>1, <2>2, <2>3 DEF OverlapInv, NoOverlap, TypeOK
<1>6. ASSUME NEW r \in RunIds, run_ends(r) PROVE OverlapInv'
  BY <1>6, SameOverlap DEF run_ends
<1>7. CASE open \/ turn \/ fire_saved \/ wait \/ timeout \/ drained
  BY <1>7, SameOverlap DEF open, turn, fire_saved, wait, timeout, drained, process
<1>8. ASSUME NEW j \in Jobs, NEW held \in BOOLEAN, hold(j, held) PROVE OverlapInv'
  BY <1>8, SameOverlap DEF hold
<1>9. CASE stop \/ signal \/ status \/ tick \/ clock_set
  BY <1>9, SameOverlap DEF stop, signal, status, tick, clock_set, process
<1>10. CASE UNCHANGED vars
  BY <1>10, SameOverlap DEF vars, process
<1> QED BY <1>1, <1>2, <1>3, <1>4, <1>5, <1>6, <1>7, <1>8, <1>9, <1>10 DEF Next, Step

\* A job that does not ask for it never runs twice at the same time.
THEOREM NoOverlapHolds == Spec => []NoOverlap
<1>1. OverlapInv => NoOverlap
  BY DEF OverlapInv
<1> QED BY <1>1, TypeInit, TypeStep, CountInit, CountStep, OverlapInit, OverlapStep,
           PTL DEF Spec

-----------------------------------------------------------------------------
\* Where the thread stands.

\* The initial state has nothing due, queued or stopping.
LEMMA ControlInit == Init => ControlInv
BY DEF Init, ControlInv

\* Every step keeps the thread's variables in line with where it stands.
LEMMA ControlStep == TypeOK /\ ControlInv /\ [Next]_vars => ControlInv'
<1> SUFFICES ASSUME TypeOK, ControlInv, [Next]_vars PROVE ControlInv'
  OBVIOUS
<1> USE DEF ControlInv
<1>0. 0 \notin Jobs
  BY CountAssumption DEF Jobs
<1>1. CASE serve_ends \/ crash
  BY <1>1 DEF serve_ends, crash, NoProcess
<1>2. CASE open
  BY <1>2 DEF open
<1>3. CASE turn
  BY <1>3, <1>0 DEF turn, TypeOK
<1>4. ASSUME NEW j \in Jobs, fire(j) PROVE ControlInv'
  BY <1>4, <1>0 DEF fire, is_first_due, TypeOK
<1>5. CASE fire_saved
  <2>1. \A j \in due : next_fire'[j] # 0
    BY <1>5 DEF fire_saved, TypeOK
  <2> QED BY <1>5, <1>0, <2>1 DEF fire_saved, TypeOK
<1>6. CASE wait \/ timeout \/ drained
  BY <1>6 DEF wait, timeout, drained, process
<1>7. ASSUME NEW j \in Jobs, NEW held \in BOOLEAN, hold(j, held) PROVE ControlInv'
  BY <1>7 DEF hold, TypeOK
<1>8. ASSUME NEW j \in Jobs, trigger(j) PROVE ControlInv'
  BY <1>8 DEF trigger
<1>9. CASE stop \/ signal \/ status
  BY <1>9 DEF stop, signal, status, process
<1>10. ASSUME NEW r \in RunIds, finished(r) \/ run_ends(r) PROVE ControlInv'
  BY <1>10 DEF finished, run_ends
<1>11. ASSUME NEW j \in Jobs, start_queued(j) PROVE ControlInv'
  BY <1>11 DEF start_queued, start
<1>12. CASE tick \/ clock_set
  BY <1>12 DEF tick, clock_set, process
<1>13. CASE UNCHANGED vars
  BY <1>13 DEF vars, process
<1> QED BY <1>1, <1>2, <1>3, <1>4, <1>5, <1>6, <1>7, <1>8, <1>9, <1>10, <1>11,
           <1>12, <1>13 DEF Next, Step

-----------------------------------------------------------------------------
\* Fires in memory and on disk.

\* The state.json of the initial state names no fire.
LEMMA FireInit == Init => FireInv
BY ClockAssumption DEF Init, FireInv

\* What a save writes: whole seconds, not after the fires in memory, and not
\* before what the file held.
LEMMA SaveKeeps ==
  ASSUME TypeOK, FireInv, pc # "down", NEW holds, save_state(last_fire, holds)
  PROVE  \A j \in Jobs : /\ disk_fire'[j] % Second = 0
                          /\ disk_fire'[j] <= last_fire[j]
                          /\ disk_fire'[j] >= disk_fire[j]
<1> TAKE j \in Jobs
<1>1. last_fire[j] \in Nat /\ disk_fire[j] \in Nat
  BY DEF TypeOK, Instant
<1>2. disk_fire[j] % Second = 0 /\ disk_fire[j] <= last_fire[j]
  BY DEF FireInv
<1>3. to_second(last_fire[j]) >= disk_fire[j]
  BY <1>1, <1>2, ToSecond
<1>4. CASE UNCHANGED disk
  BY <1>1, <1>2, <1>4 DEF disk
<1>5. CASE disk_fire' = [k \in Jobs |-> to_second(last_fire[k])]
  BY <1>1, <1>3, <1>5, ToSecond
<1> QED BY <1>4, <1>5 DEF save_state

\* Every step keeps fires, plans and state.json in order.
LEMMA FireStep == TypeOK /\ ControlInv /\ FireInv /\ [Next]_vars => FireInv'
<1> SUFFICES ASSUME TypeOK, ControlInv, FireInv, [Next]_vars PROVE FireInv'
  OBVIOUS
<1>a. ASSUME UNCHANGED <<disk, last_fire, next_fire>>,
             pc' = "down" \/ (pc # "down" /\ current' = current)
      PROVE  FireInv'
  BY <1>a DEF FireInv, disk
<1>1. CASE serve_ends \/ crash
  BY <1>1 DEF serve_ends, crash, FireInv, disk
<1>2. CASE open
  <2>1. \A j \in Jobs :
          LET p == plan(j, disk_fire[j], disk_paused[j], clock, TRUE)
          IN  p # 0 => \E s \in Sched[j] : disk_fire[j] < s /\ s <= p
    BY PlanAhead DEF TypeOK, Instant
  <2>2. \A j \in Jobs : disk_fire[j] <= disk_fire[j]
    BY DEF TypeOK, Instant
  <2>3. /\ last_fire' = disk_fire /\ disk_fire' = disk_fire
        /\ \A j \in Jobs : next_fire'[j] =
             plan(j, disk_fire[j], disk_paused[j], clock, TRUE)
    BY <1>2 DEF open, disk
  <2> QED BY <2>1, <2>2, <2>3 DEF FireInv
<1>3. CASE turn
  BY <1>3, <1>a DEF turn
<1>4. ASSUME NEW j \in Jobs, fire(j) PROVE FireInv'
  <2>1. next_fire[j] # 0 /\ j # current /\ pc # "down" /\ current = 0
    BY <1>4 DEF fire, is_first_due, ControlInv
  <2>2. PICK s \in Sched[j] : last_fire[j] < s /\ s <= next_fire[j]
    BY <2>1 DEF FireInv
  <2>3. /\ last_fire' = [last_fire EXCEPT ![j] = next_fire[j]]
        /\ next_fire' = next_fire /\ disk_fire' = disk_fire /\ current' = j
    BY <1>4 DEF fire, disk
  <2>4. disk_fire[j] <= next_fire[j]
    BY <2>1, <2>2, SchedPositive DEF FireInv, TypeOK, Instant
  <2> QED BY <2>1, <2>3, <2>4, CountAssumption DEF FireInv, TypeOK, Instant, Jobs
<1>5. CASE fire_saved
  <2>1. current \in Jobs /\ pc = "save"
    BY <1>5 DEF fire_saved, ControlInv, TypeOK
  <2> DEFINE p == plan(current, last_fire[current], paused[current], now, FALSE)
  <2>2. p # 0 => \E s \in Sched[current] : last_fire[current] < s /\ s <= p
    BY <2>1, PlanAhead DEF TypeOK, Instant
  <2>3. \A j \in Jobs : disk_fire'[j] % Second = 0 /\ disk_fire'[j] <= last_fire[j]
    BY <1>5, <2>1, SaveKeeps DEF fire_saved
  <2>4. next_fire' = [next_fire EXCEPT ![current] = p] /\ last_fire' = last_fire
    BY <1>5 DEF fire_saved
  <2> HIDE DEF p
  <2> QED BY <2>1, <2>2, <2>3, <2>4 DEF FireInv, TypeOK
<1>6. CASE wait \/ timeout \/ drained
  BY <1>6, <1>a DEF wait, timeout, drained, process
<1>7. ASSUME NEW j \in Jobs, NEW held \in BOOLEAN, hold(j, held) PROVE FireInv'
  <2> DEFINE p == plan(j, last_fire[j], held, clock, FALSE)
  <2>1. p # 0 => \E s \in Sched[j] : last_fire[j] < s /\ s <= p
    BY PlanAhead DEF TypeOK, Instant
  <2>2. \A k \in Jobs : disk_fire'[k] % Second = 0 /\ disk_fire'[k] <= last_fire[k]
    BY <1>7, SaveKeeps DEF hold
  <2>3. /\ next_fire' = [next_fire EXCEPT ![j] = p]
        /\ last_fire' = last_fire /\ current' = current /\ pc = "wait"
    BY <1>7 DEF hold
  <2> HIDE DEF p
  <2> QED BY <2>1, <2>2, <2>3 DEF FireInv, TypeOK
<1>8. ASSUME NEW j \in Jobs, trigger(j) PROVE FireInv'
  BY <1>8, <1>a DEF trigger
<1>9. CASE stop \/ signal \/ status
  BY <1>9, <1>a DEF stop, signal, status, process
<1>10. ASSUME NEW r \in RunIds, finished(r) PROVE FireInv'
  <2>1. \A k \in Jobs : disk_fire'[k] % Second = 0 /\ disk_fire'[k] <= last_fire[k]
    BY <1>10, SaveKeeps DEF finished
  <2> QED BY <1>10, <2>1 DEF finished, FireInv
<1>11. ASSUME NEW r \in RunIds, run_ends(r) PROVE FireInv'
  BY <1>11 DEF run_ends, FireInv, disk
<1>12. ASSUME NEW j \in Jobs, start_queued(j) PROVE FireInv'
  BY <1>12, <1>a DEF start_queued
<1>13. CASE tick \/ clock_set \/ UNCHANGED vars
  BY <1>13 DEF tick, clock_set, vars, process, FireInv, disk
<1> QED BY <1>1, <1>2, <1>3, <1>4, <1>5, <1>6, <1>7, <1>8, <1>9, <1>10, <1>11,
           <1>12, <1>13 DEF Next, Step

\* A step that changes the file saves, and a save moves no fire back.
LEMMA DiskStep ==
  TypeOK /\ FireInv /\ [Next]_vars => \A j \in Jobs : disk_fire'[j] >= disk_fire[j]
<1> SUFFICES ASSUME TypeOK, FireInv, [Next]_vars
             PROVE  \A j \in Jobs : disk_fire'[j] >= disk_fire[j]
  OBVIOUS
<1>1. CASE pc # "down" /\ \E holds : save_state(last_fire, holds)
  BY <1>1, SaveKeeps
<1>2. CASE disk_fire' = disk_fire
  BY <1>2 DEF TypeOK, Instant
<1>3. ASSUME NEW j \in Jobs, NEW held \in BOOLEAN, hold(j, held)
      PROVE  pc # "down" /\ \E holds : save_state(last_fire, holds)
  BY <1>3 DEF hold
<1>4. ASSUME NEW r \in RunIds, finished(r)
      PROVE  pc # "down" /\ \E holds : save_state(last_fire, holds)
  BY <1>4 DEF finished
<1>5. ASSUME fire_saved
      PROVE  pc # "down" /\ \E holds : save_state(last_fire, holds)
  BY <1>5 DEF fire_saved
<1> QED BY <1>1, <1>2, <1>3, <1>4, <1>5 DEF Next, Step, vars, disk, open, serve_ends,
        crash, turn, fire, wait, timeout, trigger, stop, signal, status, run_ends,
        start_queued, drained, tick, clock_set

\* The fire that state.json remembers never moves back, whatever crashes,
\* failed writes, restarts and clock changes there are.
THEOREM DiskNeverGoesBackHolds == Spec => DiskNeverGoesBack
BY TypeInit, TypeStep, ControlInit, ControlStep, FireInit, FireStep, DiskStep, PTL
   DEF Spec, DiskNeverGoesBack

-----------------------------------------------------------------------------
\* No fire is repeated, when every schedule names whole seconds, every write
\* of state.json succeeds and no crash falls between a start and its save.

WholeSeconds == \A j \in Jobs : \A s \in Sched[j] : s % Second = 0
SavesHold == "save" \notin CrashPoints /\ ~SaveMayFail

\* A save brings the file up to every instant the last fire has passed.
LEMMA SaveCatchesUp ==
  ASSUME TypeOK, WholeSeconds, ~SaveMayFail, NEW holds, save_state(last_fire, holds)
  PROVE  \A j \in Jobs : \A s \in Sched[j] : s <= last_fire[j] => s <= disk_fire'[j]
<1> TAKE j \in Jobs
<1> TAKE s \in Sched[j]
<1>1. s \in Nat /\ s % Second = 0
  BY SchedPositive DEF WholeSeconds
<1>2. last_fire[j] \in Nat
  BY DEF TypeOK, Instant
<1>3. disk_fire'[j] = to_second(last_fire[j])
  BY DEF save_state
<1> QED BY <1>1, <1>2, <1>3, ToSecond

\* What a run at the fire f does to the history when it stands for the
\* instant s: no repeat, and the instants run for are those up to f.
LEMMA NewInstant ==
  ASSUME TypeOK, NEW j \in Jobs, NEW f \in Nat, note_scheduled_run(j, f),
         \E s \in Sched[j] : ran_to[j] < s /\ s <= f
  PROVE  /\ repeats' = repeats
         /\ ran_to' = [ran_to EXCEPT ![j] = f]
<1>1. PICK s \in Sched[j] : ran_to[j] < s /\ s <= f
  OBVIOUS
<1>2. f > ran_to[j]
  BY <1>1, SchedPositive DEF TypeOK, Instant
<1>3. repeats' = repeats
  BY <1>1 DEF note_scheduled_run
<1>4. ran_to' = [ran_to EXCEPT ![j] = f]
  BY <1>2 DEF note_scheduled_run
<1> QED BY <1>3, <1>4

\* Nothing has run in the initial state.
LEMMA RepeatInit == Init => RepeatInv
BY SchedPositive, CountAssumption DEF Init, RepeatInv, Jobs

\* Every step keeps the instants run for behind the file.
LEMMA RepeatStep ==
  ASSUME WholeSeconds, SavesHold
  PROVE  TypeOK /\ ControlInv /\ FireInv /\ RepeatInv /\ [Next]_vars => RepeatInv'
<1> SUFFICES ASSUME TypeOK, ControlInv, FireInv, RepeatInv, [Next]_vars
             PROVE  RepeatInv'
  OBVIOUS
<1>0. 0 \notin Jobs
  BY CountAssumption DEF Jobs
<1>a. ASSUME UNCHANGED <<disk_fire, last_fire, queued, ran_to, repeats, current>>,
             pc # "down", pc' = "save" => pc = "save"
      PROVE  RepeatInv'
  BY <1>a DEF RepeatInv
<1>b. ASSUME NEW holds, save_state(last_fire, holds), pc # "down", pc # "save",
             pc' # "save", UNCHANGED <<last_fire, queued, ran_to, repeats, current>>
      PROVE  RepeatInv'
  <2>1. \A j \in Jobs : \A s \in Sched[j] : s <= last_fire[j] => s <= disk_fire'[j]
    BY <1>b, SaveCatchesUp DEF SavesHold
  <2>2. \A j \in Jobs : disk_fire'[j] >= disk_fire[j] /\ disk_fire'[j] \in Nat
    BY <1>b, SaveKeeps, ToSecond DEF save_state, TypeOK, Instant, disk
  <2>3. \A j \in Jobs : j # current =>
          \A s \in Sched[j] : s <= ran_to[j] => s <= disk_fire'[j]
    <3> TAKE j \in Jobs
    <3> HAVE j # current
    <3> TAKE s \in Sched[j]
    <3> HAVE s <= ran_to[j]
    <3>1. s <= disk_fire[j]
      BY DEF RepeatInv
    <3> QED BY <3>1, <2>2, SchedPositive DEF TypeOK, Instant
  <2> QED BY <1>b, <2>1, <2>3 DEF RepeatInv
<1>1. CASE serve_ends \/ crash
  <2>1. current = 0 /\ current' = 0 /\ pc' = "down"
    BY <1>1 DEF serve_ends, crash, NoProcess, ControlInv, SavesHold
  <2>2. \A j \in Jobs : ~queued'[j]
    BY <1>1 DEF serve_ends, crash, NoProcess
  <2>3. UNCHANGED <<disk_fire, ran_to, repeats>>
    BY <1>1 DEF serve_ends, crash, disk, history
  <2> QED BY <2>1, <2>2, <2>3 DEF RepeatInv
<1>2. CASE open
  <2>1. \A j \in Jobs : ~queued'[j]
    BY <1>2 DEF open, ControlInv
  <2>2. /\ UNCHANGED <<disk_fire, ran_to, repeats, current>>
        /\ last_fire' = disk_fire /\ pc' = "loop"
    BY <1>2 DEF open, disk
  <2> QED BY <2>1, <2>2 DEF RepeatInv
<1>3. CASE turn
  BY <1>3, <1>a DEF turn, disk, history
<1>4. ASSUME NEW j \in Jobs, fire(j) PROVE RepeatInv'
  <2>1. next_fire[j] # 0 /\ j # current /\ pc # "down" /\ current = 0
    BY <1>4 DEF fire, is_first_due, ControlInv
  <2>2. PICK s \in Sched[j] : last_fire[j] < s /\ s <= next_fire[j]
    BY <2>1 DEF FireInv
  <2>3. /\ last_fire' = [last_fire EXCEPT ![j] = next_fire[j]]
        /\ disk_fire' = disk_fire /\ current' = j /\ pc' = "save"
    BY <1>4 DEF fire, disk
  <2>4. s \in Nat /\ last_fire[j] \in Nat /\ next_fire[j] \in Nat
        /\ disk_fire[j] \in Nat /\ ran_to[j] \in Nat
    BY SchedPositive DEF TypeOK, Instant
  <2>5. ran_to[j] < s
    BY <2>1, <2>2, <2>4 DEF RepeatInv, FireInv
  <2>6. \A u \in Sched[j] : u <= ran_to[j] => u <= next_fire[j]
    <3> TAKE u \in Sched[j]
    <3> HAVE u <= ran_to[j]
    <3>1. u \in Nat
      BY SchedPositive
    <3> QED BY <3>1, <2>2, <2>4, <2>5
  <2>7. /\ \A k \in Jobs : k # j =>
             \A u \in Sched[k] : u <= ran_to[k] => u <= disk_fire[k]
        /\ \A k \in Jobs : k # j =>
             \A u \in Sched[k] : u <= last_fire[k] => u <= disk_fire[k]
    BY <2>1, <1>0 DEF RepeatInv
  <2>8. CASE start(j) /\ note_scheduled_run(j, next_fire[j])
    <3>1. repeats' = repeats /\ ran_to' = [ran_to EXCEPT ![j] = next_fire[j]]
      BY <2>2, <2>4, <2>5, <2>8, NewInstant
    <3>2. queued' = [queued EXCEPT ![j] = FALSE]
      BY <2>8 DEF start
    <3> QED BY <2>3, <2>7, <3>1, <3>2 DEF RepeatInv, TypeOK, Instant
  <2>9. CASE queued' = [queued EXCEPT ![j] = TRUE] /\ UNCHANGED <<ran_to, repeats>>
    <3>1. ran_to[j] < s /\ s <= last_fire'[j]
      BY <2>2, <2>3, <2>5 DEF TypeOK
    <3> QED BY <2>3, <2>6, <2>7, <2>9, <3>1 DEF RepeatInv, TypeOK, Instant
  <2>10. CASE UNCHANGED <<queued, ran_to, repeats>>
    <3>1. ran_to[j] < s /\ s <= last_fire'[j]
      BY <2>2, <2>3, <2>5 DEF TypeOK
    <3> QED BY <2>3, <2>6, <2>7, <2>10, <3>1 DEF RepeatInv, TypeOK, Instant
  <2> QED BY <1>4, <2>8, <2>9, <2>10 DEF fire, history
<1>5. CASE fire_saved
  <2>1. current \in Jobs /\ pc = "save"
    BY <1>5 DEF fire_saved, ControlInv, TypeOK
  <2>2. \A j \in Jobs : \A s \in Sched[j] : s <= last_fire[j] => s <= disk_fire'[j]
    BY <1>5, SaveCatchesUp DEF fire_saved, SavesHold
  <2>3. \A j \in Jobs : \A s \in Sched[j] : s <= ran_to[j] => s <= last_fire[j]
    <3> TAKE j \in Jobs
    <3> TAKE s \in Sched[j]
    <3>1. CASE j = current
      BY <2>1, <3>1 DEF RepeatInv
    <3>2. CASE j # current
      BY <2>1, <3>2, SchedPositive DEF RepeatInv, FireInv, TypeOK, Instant
    <3> QED BY <3>1, <3>2
  <2>4. UNCHANGED <<last_fire, queued, ran_to, repeats>> /\ current' = 0 /\ pc' = "fire"
    BY <1>5 DEF fire_saved, history
  <2> QED BY <2>2, <2>3, <2>4 DEF RepeatInv
<1>6. CASE wait \/ timeout \/ drained
  BY <1>6, <1>a DEF wait, timeout, drained, process, disk, history
<1>7. ASSUME NEW j \in Jobs, NEW held \in BOOLEAN, hold(j, held) PROVE RepeatInv'
  BY <1>7, <1>b DEF hold, history
<1>8. ASSUME NEW j \in Jobs, trigger(j) PROVE RepeatInv'
  <2>1. CASE UNCHANGED queued
    BY <1>8, <2>1, <1>a DEF trigger, disk, history
  <2>2. CASE start(j)
    <3>1. queued' = [queued EXCEPT ![j] = FALSE]
      BY <2>2 DEF start
    <3>2. /\ UNCHANGED <<disk_fire, last_fire, ran_to, repeats, current>>
          /\ pc = "wait" /\ pc' = "loop"
      BY <1>8 DEF trigger, disk, history
    <3> QED BY <3>1, <3>2 DEF RepeatInv, TypeOK
  <2> QED BY <1>8, <2>1, <2>2 DEF trigger
<1>9. CASE stop \/ signal \/ status
  BY <1>9, <1>a DEF stop, signal, status, process, disk, history
<1>10. ASSUME NEW r \in RunIds, finished(r) PROVE RepeatInv'
  BY <1>10, <1>b DEF finished, history
<1>11. ASSUME NEW r \in RunIds, run_ends(r) PROVE RepeatInv'
  BY <1>11 DEF run_ends, RepeatInv, disk, history
<1>12. ASSUME NEW j \in Jobs, start_queued(j) PROVE RepeatInv'
  <2>1. /\ UNCHANGED <<disk_fire, last_fire, current, pc>> /\ pc = "drain"
        /\ queued[j] /\ queued' = [queued EXCEPT ![j] = FALSE]
        /\ note_scheduled_run(j, last_fire[j])
    BY <1>12 DEF start_queued, start, is_first_queued, can_start_queued, disk
  <2>2. last_fire[j] \in Nat /\ j # current
    BY <2>1, <1>0 DEF TypeOK, Instant, ControlInv
  <2>3. repeats' = repeats /\ ran_to' = [ran_to EXCEPT ![j] = last_fire[j]]
    BY <2>1, <2>2, NewInstant DEF RepeatInv
  <2> QED BY <2>1, <2>2, <2>3 DEF RepeatInv, TypeOK, Instant
<1>13. CASE tick \/ clock_set \/ UNCHANGED vars
  BY <1>13 DEF tick, clock_set, vars, process, RepeatInv, disk, history
<1> QED BY <1>1, <1>2, <1>3, <1>4, <1>5, <1>6, <1>7, <1>8, <1>9, <1>10, <1>11,
           <1>12, <1>13 DEF Next, Step

\* Over any restarts, crashes and clock changes, no two scheduled runs of a
\* job stand for the same instants: what store.rs promises of a restart, from
\* the three conditions it takes.
THEOREM NoRepeatedFireHolds ==
  ASSUME WholeSeconds, SavesHold
  PROVE  Spec => []NoRepeatedFire
<1>1. RepeatInv => NoRepeatedFire
  BY DEF RepeatInv, NoRepeatedFire
<1>2. TypeOK /\ ControlInv /\ FireInv /\ RepeatInv /\ [Next]_vars => RepeatInv'
  BY RepeatStep
<1> QED BY <1>1, <1>2, TypeInit, TypeStep, ControlInit, ControlStep, FireInit,
           FireStep, RepeatInit, PTL DEF Spec

-----------------------------------------------------------------------------
\* The timer.

\* The thread does not wait in the initial state.
LEMMA WakeInit == Init => WakeInv
BY DEF Init, WakeInv, FiresAhead, TimerInTime

\* Every step keeps the fires a turn is done with ahead of its `now`.
LEMMA AheadStep ==
  TypeOK /\ ControlInv /\ FiresAhead /\ [Next]_vars => FiresAhead'
<1> SUFFICES ASSUME TypeOK, ControlInv, FiresAhead, [Next]_vars PROVE FiresAhead'
  OBVIOUS
<1>1. CASE turn
  BY <1>1 DEF turn, FiresAhead, TypeOK, Instant
<1>2. ASSUME NEW j \in Jobs, fire(j) PROVE FiresAhead'
  <2>1. CASE stopping
    BY <1>2, <2>1 DEF fire, is_first_due, ControlInv
  <2>2. CASE ~stopping
    <3>1. /\ UNCHANGED <<next_fire, paused, now, stopping>> /\ pc = "fire"
          /\ due' = due \ {j} /\ current' = j /\ current = 0
      BY <1>2 DEF fire, ControlInv
    <3>2. 0 \notin Jobs
      BY CountAssumption DEF Jobs
    <3> QED BY <2>2, <3>1, <3>2 DEF FiresAhead
  <2> QED BY <2>1, <2>2
<1>3. CASE fire_saved
  <2>1. current \in Jobs /\ pc = "save"
    BY <1>3 DEF fire_saved, ControlInv, TypeOK
  <2> DEFINE p == plan(current, last_fire[current], paused[current], now, FALSE)
  <2>2. p # 0 => p > now
    BY <2>1, PlanFuture DEF TypeOK, Instant
  <2>3. /\ next_fire' = [next_fire EXCEPT ![current] = p]
        /\ UNCHANGED <<paused, now, stopping, due>> /\ pc' = "fire"
    BY <1>3 DEF fire_saved
  <2> HIDE DEF p
  <2>4. current \notin due
    BY DEF ControlInv
  <2> QED BY <2>1, <2>2, <2>3, <2>4 DEF FiresAhead, TypeOK
<1>4. CASE wait
  BY <1>4 DEF wait, FiresAhead, process
<1>5. CASE pc' \in {"down", "loop", "drain"}
  BY <1>5 DEF FiresAhead
<1>6. ASSUME NEW r \in RunIds, run_ends(r) PROVE FiresAhead'
  BY <1>6 DEF run_ends, FiresAhead
<1>7. CASE tick \/ clock_set \/ UNCHANGED vars
  BY <1>7 DEF tick, clock_set, vars, process, FiresAhead
<1>8. ASSUME NEW j \in Jobs, NEW held \in BOOLEAN,
             hold(j, held) \/ trigger(j) \/ start_queued(j)
      PROVE  pc' \in {"down", "loop", "drain"}
  BY <1>8 DEF hold, trigger, start_queued
<1>9. ASSUME NEW r \in RunIds, finished(r) PROVE pc' \in {"down", "loop", "drain"}
  BY <1>9 DEF finished
<1>10. CASE open \/ serve_ends \/ crash \/ timeout \/ drained \/ stop \/ signal \/ status
  BY <1>10, <1>5 DEF open, serve_ends, crash, timeout, drained, stop, signal, status
<1> QED BY <1>1, <1>2, <1>3, <1>4, <1>5, <1>6, <1>7, <1>8, <1>9, <1>10 DEF Next, Step

\* Every step keeps the timer within the first planned fire: it only runs
\* down, and whatever changes a plan also ends the wait.
LEMMA TimerStep == TypeOK /\ TimerInTime /\ [Next]_vars => TimerInTime'
<1> SUFFICES ASSUME TypeOK, TimerInTime, [Next]_vars PROVE TimerInTime'
  OBVIOUS
<1>1. CASE wait
  <2>1. UNCHANGED <<next_fire, now, paused>> /\ left' = sleep(next_fire, now)
    BY <1>1 DEF wait, process
  <2> QED BY <2>1, SleepNat DEF TimerInTime, is_ready
<1>2. CASE tick
  <2>1. left' \in Nat /\ left' <= left
    BY <1>2 DEF tick, TypeOK
  <2>2. UNCHANGED <<pc, next_fire, now, paused>>
    BY <1>2 DEF tick, process
  <2> QED BY <2>1, <2>2, ClockAssumption DEF TimerInTime, TypeOK, Instant, is_ready
<1>3. CASE UNCHANGED <<pc, left, next_fire, now, paused>>
  BY <1>3 DEF TimerInTime, is_ready
<1>4. CASE pc' # "wait"
  BY <1>4 DEF TimerInTime
<1>5. ASSUME NEW j \in Jobs, NEW held \in BOOLEAN,
             fire(j) \/ hold(j, held) \/ trigger(j)
      PROVE  pc' # "wait"
  BY <1>5 DEF fire, hold, trigger
<1>6. ASSUME NEW j \in Jobs, start_queued(j) PROVE pc' # "wait"
  BY <1>6 DEF start_queued
<1>7. ASSUME NEW r \in RunIds, finished(r) PROVE pc' # "wait"
  BY <1>7 DEF finished
<1>8. ASSUME NEW r \in RunIds, run_ends(r)
      PROVE  UNCHANGED <<pc, left, next_fire, now, paused>>
  BY <1>8 DEF run_ends
<1>9. CASE \/ open \/ turn \/ fire_saved \/ timeout \/ drained \/ serve_ends
           \/ crash \/ stop \/ signal \/ status
  BY <1>9, <1>4 DEF open, turn, fire_saved, timeout, drained, serve_ends, crash,
                    stop, signal, status
<1>10. CASE clock_set \/ UNCHANGED vars
  BY <1>10, <1>3 DEF clock_set, vars, process
<1> QED BY <1>1, <1>2, <1>3, <1>4, <1>5, <1>6, <1>7, <1>8, <1>9, <1>10 DEF Next, Step

\* Whenever the thread goes to sleep, every planned fire lies ahead, and the
\* sleep ends in time for the earliest.
THEOREM WakesInTimeHolds == Spec => []WakesInTime
<1>1. ControlInv /\ WakeInv /\ TypeOK => WakesInTime
  <2> SUFFICES ASSUME ControlInv, WakeInv, TypeOK, pc = "wait", ~stopping
               PROVE  WakesInTime
    BY DEF WakesInTime
  <2>1. left <= MaxSleep
    BY DEF WakeInv, TimerInTime
  <2>2. ASSUME NEW j \in Jobs, is_ready(j, paused[j]), next_fire[j] # 0
        PROVE  next_fire[j] > now /\ now + left <= next_fire[j]
    <3>1. j \notin due /\ j # current
      BY CountAssumption DEF ControlInv, Jobs
    <3>2. next_fire[j] > now
      BY <2>2, <3>1 DEF WakeInv, FiresAhead
    <3>3. next_fire[j] \in Nat /\ now \in Nat
      BY DEF TypeOK, Instant
    <3> QED BY <2>2, <3>2, <3>3 DEF WakeInv, TimerInTime
  <2> QED BY <2>1, <2>2 DEF WakesInTime
<1>2. TypeOK /\ ControlInv /\ WakeInv /\ [Next]_vars => WakeInv'
  BY AheadStep, TimerStep DEF WakeInv
<1> QED BY <1>1, <1>2, TypeInit, TypeStep, ControlInit, ControlStep, WakeInit,
           PTL DEF Spec

-----------------------------------------------------------------------------
\* The queue.

\* Every step keeps the reason of a waiting fire, as long as no request
\* resumes a paused job.
LEMMA WaitingStep ==
  ASSUME "resume" \notin Requests
  PROVE  TypeOK /\ ControlInv /\ WaitingHasReason /\ [Next]_vars => WaitingHasReason'
<1> SUFFICES ASSUME TypeOK, ControlInv, WaitingHasReason, [Next]_vars
             PROVE  WaitingHasReason'
  OBVIOUS
<1> USE DEF WaitingHasReason, can_start_queued
<1>a. ASSUME NEW j \in Jobs, start(j), UNCHANGED <<paused, stopping>>,
             pc \in {"loop", "fire", "save", "wait"}
      PROVE  WaitingHasReason'
  <2>1. /\ queued' = [queued EXCEPT ![j] = FALSE] /\ running' = running + 1
        /\ job_running' = [job_running EXCEPT ![j] = TRUE]
    BY <1>a DEF start
  <2> QED BY <1>a, <2>1, CountAssumption DEF TypeOK
<1>1. CASE serve_ends \/ crash
  BY <1>1 DEF serve_ends, crash
<1>2. CASE open
  BY <1>2 DEF open, ControlInv
<1>3. CASE turn
  BY <1>3 DEF turn
<1>4. ASSUME NEW j \in Jobs, fire(j) PROVE WaitingHasReason'
  <2>1. CASE start(j)
    BY <1>4, <2>1, <1>a DEF fire
  <2>2. CASE /\ action_for(j) = "queue" /\ queued' = [queued EXCEPT ![j] = TRUE]
             /\ UNCHANGED <<job_running, running>>
    <3>1. running >= Limit \/ job_running[j]
      BY <2>2 DEF action_for
    <3> QED BY <1>4, <2>2, <3>1 DEF fire, TypeOK
  <2>3. CASE UNCHANGED <<job_running, queued, running>>
    BY <1>4, <2>3 DEF fire
  <2> QED BY <1>4, <2>1, <2>2, <2>3 DEF fire
<1>5. CASE fire_saved
  BY <1>5 DEF fire_saved
<1>6. CASE wait \/ timeout
  BY <1>6 DEF wait, timeout, process
<1>7. CASE drained
  BY <1>7 DEF drained, process
<1>8. ASSUME NEW j \in Jobs, hold(j, TRUE) PROVE WaitingHasReason'
  BY <1>8 DEF hold, is_ready, TypeOK
<1>9. ASSUME NEW j \in Jobs, hold(j, FALSE) PROVE FALSE
  <2>1. (IF FALSE THEN "pause" ELSE "resume") \in Requests
    BY <1>9, Zenon DEF hold
  <2> QED BY <2>1
<1>10. ASSUME NEW j \in Jobs, trigger(j) PROVE WaitingHasReason'
  BY <1>10, <1>a DEF trigger
<1>11. CASE stop \/ signal \/ status
  BY <1>11 DEF stop, signal, status, process
<1>12. ASSUME NEW r \in RunIds, finished(r) PROVE WaitingHasReason'
  BY <1>12 DEF finished
<1>13. ASSUME NEW r \in RunIds, run_ends(r) PROVE WaitingHasReason'
  BY <1>13 DEF run_ends
<1>14. ASSUME NEW j \in Jobs, start_queued(j) PROVE WaitingHasReason'
  BY <1>14 DEF start_queued
<1>15. CASE tick \/ clock_set \/ UNCHANGED vars
  BY <1>15 DEF tick, clock_set, vars, process
<1> QED BY <1>1, <1>2, <1>3, <1>4, <1>5, <1>6, <1>7, <1>8, <1>9, <1>10, <1>11,
           <1>12, <1>13, <1>14, <1>15 DEF Next, Step

\* No wakeup is lost: while nothing is resumed, a fire that waits and could
\* run waits only because the daemon is at its limit.
THEOREM WaitingHasReasonHolds ==
  ASSUME "resume" \notin Requests
  PROVE  Spec => []WaitingHasReason
<1>1. Init => WaitingHasReason
  BY DEF Init, WaitingHasReason
<1>2. TypeOK /\ ControlInv /\ WaitingHasReason /\ [Next]_vars => WaitingHasReason'
  BY WaitingStep
<1> QED BY <1>1, <1>2, TypeInit, TypeStep, ControlInit, ControlStep, PTL DEF Spec

\* Only a start takes a fire out of the queue.
LEMMA QueuedStep ==
  TypeOK /\ [Next]_vars =>
    \A j \in Jobs : queued[j] /\ ~queued'[j] =>
      pc' = "down" \/ \E r \in RunIds : runs[r] = 0 /\ runs'[r] = j
<1> SUFFICES ASSUME TypeOK, [Next]_vars, NEW j \in Jobs, queued[j], ~queued'[j]
             PROVE  pc' = "down" \/ \E r \in RunIds : runs[r] = 0 /\ runs'[r] = j
  OBVIOUS
<1>1. CASE \E k \in Jobs : start(k)
  <2>1. PICK k \in Jobs : start(k)
    BY <1>1
  <2>2. k = j
    BY <2>1 DEF start, TypeOK
  <2> QED BY <2>1, <2>2 DEF start, TypeOK
<1>2. CASE pc' = "down"
  BY <1>2
<1>3. ASSUME NEW k \in Jobs, fire(k) PROVE start(k)
  BY <1>3 DEF fire, TypeOK
<1>4. ASSUME NEW k \in Jobs, trigger(k) PROVE start(k)
  BY <1>4 DEF trigger
<1>5. ASSUME NEW k \in Jobs, start_queued(k) PROVE start(k)
  BY <1>5 DEF start_queued
<1>6. CASE queued' = queued
  BY <1>6
<1> QED BY <1>1, <1>2, <1>3, <1>4, <1>5, <1>6 DEF Next, Step, vars, process, open,
        serve_ends, crash, turn, fire_saved, wait, timeout, hold, stop, signal,
        status, finished, run_ends, drained, tick, clock_set

\* A fire that waits is not lost while the process lives.
THEOREM QueuedFireKeptHolds == Spec => QueuedFireKept
BY TypeInit, TypeStep, QueuedStep, PTL DEF Spec, QueuedFireKept

\* Whoever starts while a fire that could start waits is the first such job.
LEMMA OvertakenStep ==
  ASSUME TypeOK, WaitingHasReason, ControlInv, [Next]_vars, ~stopping,
         NEW j \in Jobs, can_start_queued(j),
         NEW r \in RunIds, runs[r] = 0, runs'[r] # 0
  PROVE  runs'[r] <= j
<1>1. pc # "down"
  BY DEF can_start_queued, ControlInv
<1>2. pc \in {"loop", "fire", "save", "wait"} => running >= Limit
  BY DEF WaitingHasReason
<1>3. running \in Nat /\ Limit \in Nat
  BY CountAssumption DEF TypeOK
<1>4. ASSUME NEW k \in Jobs, fire(k) PROVE FALSE
  <2>1. action_for(k) = "queue"
    BY <1>2, <1>4 DEF fire, action_for
  <2> QED BY <1>4, <2>1 DEF fire
<1>5. ASSUME NEW k \in Jobs, trigger(k) PROVE FALSE
  BY <1>2, <1>3, <1>5 DEF trigger
<1>6. ASSUME NEW k \in Jobs, start_queued(k) PROVE runs'[r] <= j
  <2>1. is_first_queued(k) /\ start(k)
    BY <1>6 DEF start_queued
  <2>2. runs'[r] = k
    BY <2>1 DEF start, TypeOK
  <2> QED BY <2>1, <2>2 DEF is_first_queued
<1>7. ASSUME NEW q \in RunIds, finished(q) PROVE FALSE
  BY <1>7 DEF finished, TypeOK
<1>8. ASSUME NEW q \in RunIds, run_ends(q) PROVE FALSE
  BY <1>8 DEF run_ends
<1>9. ASSUME NEW k \in Jobs, NEW held \in BOOLEAN, hold(k, held) PROVE FALSE
  BY <1>9 DEF hold
<1>10. CASE serve_ends \/ crash
  BY <1>10 DEF serve_ends, crash, NoProcess
<1>11. CASE \/ open \/ turn \/ fire_saved \/ wait \/ timeout \/ drained
            \/ stop \/ signal \/ status \/ tick \/ clock_set \/ UNCHANGED vars
  BY <1>11 DEF open, turn, fire_saved, wait, timeout, drained, stop, signal,
               status, tick, clock_set, vars, process
<1> QED BY <1>4, <1>5, <1>6, <1>7, <1>8, <1>9, <1>10, <1>11 DEF Next, Step

\* While nothing is resumed, only jobs earlier in the list start before a
\* fire that waits and could start.
THEOREM NotOvertakenHolds ==
  ASSUME "resume" \notin Requests
  PROVE  Spec => NotOvertaken
<1>1. Init => WaitingHasReason
  BY DEF Init, WaitingHasReason
<1>2. TypeOK /\ ControlInv /\ WaitingHasReason /\ [Next]_vars => WaitingHasReason'
  BY WaitingStep
<1>3. TypeOK /\ ControlInv /\ WaitingHasReason /\ [Next]_vars =>
        \A j \in Jobs : can_start_queued(j) /\ ~stopping =>
          \A r \in RunIds : runs[r] = 0 /\ runs'[r] # 0 => runs'[r] <= j
  BY OvertakenStep
<1> QED BY <1>1, <1>2, <1>3, TypeInit, TypeStep, ControlInit, ControlStep, PTL
        DEF Spec, NotOvertaken

-----------------------------------------------------------------------------
\* Stopping, and what was missed.

\* A stopping daemon handles no fire and starts no run but on request.
LEMMA StoppingStep ==
  ASSUME TypeOK, ControlInv, [Next]_vars, stopping, pc' # "down"
  PROVE  /\ UNCHANGED <<last_fire, ran_to, repeats>>
         /\ \A r \in RunIds : runs[r] = 0 /\ runs'[r] # 0 => trigger(runs'[r])
<1> DEFINE Asked == \A r \in RunIds : runs[r] = 0 /\ runs'[r] # 0 => trigger(runs'[r])
<1>1. ASSUME NEW j \in Jobs, fire(j) PROVE FALSE
  BY <1>1 DEF fire, is_first_due, ControlInv
<1>2. ASSUME NEW j \in Jobs, start_queued(j) PROVE FALSE
  BY <1>2 DEF start_queued
<1>3. ASSUME open \/ serve_ends \/ crash PROVE FALSE
  BY <1>3 DEF open, serve_ends, crash, ControlInv
<1>4. ASSUME NEW j \in Jobs, trigger(j)
      PROVE  UNCHANGED <<last_fire, ran_to, repeats>> /\ Asked
  <2>1. UNCHANGED <<last_fire, ran_to, repeats>>
    BY <1>4 DEF trigger, history
  <2>2. ASSUME NEW r \in RunIds, runs[r] = 0, runs'[r] # 0 PROVE runs'[r] = j
    BY <1>4, <2>2 DEF trigger, start, TypeOK
  <2> QED BY <1>4, <2>1, <2>2
<1>5. ASSUME NEW r \in RunIds, finished(r)
      PROVE  UNCHANGED <<last_fire, ran_to, repeats>> /\ Asked
  BY <1>5 DEF finished, history, TypeOK
<1>6. CASE UNCHANGED <<last_fire, history, runs>>
  BY <1>6 DEF history
<1> HIDE DEF Asked
<1>7. ASSUME NEW j \in Jobs, NEW held \in BOOLEAN, hold(j, held)
      PROVE  UNCHANGED <<last_fire, history, runs>>
  BY <1>7 DEF hold
<1>8. ASSUME NEW r \in RunIds, run_ends(r) PROVE UNCHANGED <<last_fire, history, runs>>
  BY <1>8 DEF run_ends
<1>9. CASE \/ turn \/ fire_saved \/ wait \/ timeout \/ drained \/ stop \/ signal
           \/ status \/ tick \/ clock_set \/ UNCHANGED vars
  BY <1>9, <1>6 DEF turn, fire_saved, wait, timeout, drained, stop, signal,
                    status, tick, clock_set, vars, process
<1> QED BY <1>1, <1>2, <1>3, <1>4, <1>5, <1>6, <1>7, <1>8, <1>9 DEF Next, Step, Asked

\* Once stopping, the daemon fires nothing, and starts only what a request
\* asks for.
THEOREM StoppingFiresNothingHolds == Spec => StoppingFiresNothing
<1>1. TypeOK /\ ControlInv /\ [Next]_vars =>
        (stopping /\ pc' # "down" =>
           /\ UNCHANGED <<last_fire, ran_to, repeats>>
           /\ \A r \in RunIds : runs[r] = 0 /\ runs'[r] # 0 => trigger(runs'[r]))
  BY StoppingStep
<1> QED BY <1>1, TypeInit, TypeStep, ControlInit, ControlStep, PTL
        DEF Spec, StoppingFiresNothing

\* There is no process in the initial state.
LEMMA MissedInit == Init => MissedInv
BY DEF Init, MissedInv, MissedStaysMissed

\* Every step plans the jobs without catch_up after the start of the process,
\* as long as the clock only goes forward.
LEMMA MissedStep ==
  ASSUME ~ClockSteps
  PROVE  TypeOK /\ ControlInv /\ MissedInv /\ [Next]_vars => MissedInv'
<1> SUFFICES ASSUME TypeOK, ControlInv, MissedInv, [Next]_vars PROVE MissedInv'
  OBVIOUS
<1> USE DEF MissedInv, MissedStaysMissed
<1>a. ASSUME UNCHANGED <<next_fire, opened, now, clock>>,
             pc' # "down" => pc # "down",
             pc' \in {"fire", "save"} => pc \in {"fire", "save"}
      PROVE  MissedInv'
  BY <1>a
<1>1. CASE open
  <2>1. \A j \in Jobs \ CatchUp :
          LET p == plan(j, disk_fire[j], disk_paused[j], clock, TRUE)
          IN  p # 0 => p > clock
    BY PlanFuture DEF TypeOK, Instant
  <2>2. /\ opened' = clock /\ clock' = clock /\ pc' = "loop"
        /\ \A j \in Jobs : next_fire'[j] =
             plan(j, disk_fire[j], disk_paused[j], clock, TRUE)
    BY <1>1 DEF open
  <2>3. clock <= clock
    BY DEF TypeOK
  <2> QED BY <2>1, <2>2, <2>3
<1>2. CASE serve_ends \/ crash
  BY <1>2 DEF serve_ends, crash
<1>3. CASE turn
  BY <1>3 DEF turn, history
<1>4. ASSUME NEW j \in Jobs, fire(j) PROVE MissedInv'
  BY <1>4, <1>a DEF fire, note_scheduled_run, history
<1>5. CASE fire_saved
  <2>1. current \in Jobs
    BY <1>5 DEF fire_saved, ControlInv, TypeOK
  <2> DEFINE p == plan(current, last_fire[current], paused[current], now, FALSE)
  <2>2. p \in Nat /\ (p # 0 => p > now)
    BY <2>1, PlanFuture, PlanAhead DEF TypeOK, Instant
  <2>3. /\ next_fire' = [next_fire EXCEPT ![current] = p]
        /\ UNCHANGED <<opened, now, clock>> /\ pc = "save" /\ pc' = "fire"
    BY <1>5 DEF fire_saved, history
  <2> HIDE DEF p
  <2> QED BY <2>1, <2>2, <2>3 DEF TypeOK, Instant
<1>6. CASE wait \/ timeout \/ drained
  BY <1>6, <1>a DEF wait, timeout, drained, process, history
<1>7. ASSUME NEW j \in Jobs, NEW held \in BOOLEAN, hold(j, held) PROVE MissedInv'
  <2> DEFINE p == plan(j, last_fire[j], held, clock, FALSE)
  <2>1. p \in Nat /\ (p # 0 => p > clock)
    BY PlanFuture, PlanAhead DEF TypeOK, Instant
  <2>2. /\ next_fire' = [next_fire EXCEPT ![j] = p]
        /\ UNCHANGED <<opened, now, clock>> /\ pc = "wait" /\ pc' = "loop"
    BY <1>7 DEF hold, history
  <2> HIDE DEF p
  <2> QED BY <2>1, <2>2 DEF TypeOK, Instant
<1>8. ASSUME NEW j \in Jobs, trigger(j) PROVE MissedInv'
  BY <1>8, <1>a DEF trigger, history
<1>9. CASE stop \/ signal \/ status
  BY <1>9, <1>a DEF stop, signal, status, process, history
<1>10. ASSUME NEW r \in RunIds, finished(r) \/ run_ends(r) PROVE MissedInv'
  BY <1>10, <1>a DEF finished, run_ends, history
<1>11. ASSUME NEW j \in Jobs, start_queued(j) PROVE MissedInv'
  BY <1>11, <1>a DEF start_queued, note_scheduled_run
<1>12. CASE tick
  BY <1>12 DEF tick, process, history, TypeOK
<1>13. CASE clock_set
  BY <1>13 DEF clock_set
<1>14. CASE UNCHANGED vars
  BY <1>14, <1>a DEF vars, process, history
<1> QED BY <1>1, <1>2, <1>3, <1>4, <1>5, <1>6, <1>7, <1>8, <1>9, <1>10, <1>11,
           <1>12, <1>13, <1>14 DEF Next, Step

\* A fire that fell into a time without a daemon runs late only with
\* catch_up, as long as the clock only goes forward.
THEOREM MissedStaysMissedHolds ==
  ASSUME ~ClockSteps
  PROVE  Spec => []MissedStaysMissed
<1>1. MissedInv => MissedStaysMissed
  BY DEF MissedInv
<1>2. TypeOK /\ ControlInv /\ MissedInv /\ [Next]_vars => MissedInv'
  BY MissedStep
<1> QED BY <1>1, <1>2, TypeInit, TypeStep, ControlInit, ControlStep, MissedInit,
           PTL DEF Spec
=============================================================================
