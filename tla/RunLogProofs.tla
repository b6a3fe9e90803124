---------------------------- MODULE RunLogProofs ----------------------------
(***************************************************************************)
(* Theorems about RunLog, for any number of runs and tasks, any --keep-runs *)
(* and any old runs in the directory.                                      *)
(***************************************************************************)
EXTENDS RunLog, FiniteSetTheorems, WellFoundedInduction, TLAPS

-----------------------------------------------------------------------------
\* Lemmas about the operators of the model.

\* What a change of one cell of a table of tables leaves alone.
LEMMA CellChanged ==
  ASSUME NEW S, NEW r \in S, NEW f, DOMAIN f = S,
         NEW D, NEW t \in D, NEW X, f[r] \in [D -> X], NEW v \in X,
         NEW g, g = [f EXCEPT ![r][t] = v]
  PROVE  /\ DOMAIN g = S /\ g[r] \in [D -> X] /\ g[r][t] = v
         /\ \A q \in S \ {r} : g[q] = f[q]
         /\ \A u \in D \ {t} : g[r][u] = f[r][u]
<1>1. g = [q \in S |-> IF q = r THEN [f[r] EXCEPT ![t] = v] ELSE f[q]]
  OBVIOUS
<1>2. g[r] = [f[r] EXCEPT ![t] = v]
  BY <1>1
<1> QED BY <1>1, <1>2



-----------------------------------------------------------------------------
\* Types.

LEMMA InitType == Init => TypeOK
<1> SUFFICES ASSUME Init PROVE TypeOK
  OBVIOUS
<1>1. PathTypeOK
  BY RunLogAssumption DEF Init, PathTypeOK, NoName
<1>2. TaskTypeOK
  BY RunLogAssumption DEF Init, TaskTypeOK, each, Tasks, Ends
<1> QED BY <1>1, <1>2 DEF TypeOK

\* The files of a run keep their type when another run empties them.
LEMMA OpenTasksType ==
  ASSUME TypeOK, NEW r \in Runs, open_tasks(r) PROVE TypeOK'
<1>1. PICK ok \in BOOLEAN :
        /\ log' = [log EXCEPT ![r] = IF ok THEN "open" ELSE "none"]
        /\ files' = [q \in Runs |->
             IF ok /\ q # r /\ name[q] = name[r] THEN each(q, 0) ELSE files[q]]
  BY DEF open_tasks
<1>2. PathTypeOK'
  BY <1>1 DEF open_tasks, goto, paths, TypeOK, PathTypeOK
<1>3. \A q \in Runs : files'[q] \in [Tasks(q) -> Nat]
  BY <1>1 DEF TypeOK, TaskTypeOK, each
<1>4. TaskTypeOK'
  BY <1>1, <1>3 DEF open_tasks, progress, TypeOK, TaskTypeOK
<1> QED BY <1>2, <1>4 DEF TypeOK

\* A terminal that fails is gone for its run.
LEMMA TerminalStep ==
  ASSUME TypeOK, NEW r \in Runs, NEW event, NEW ok \in BOOLEAN, terminal(r, event, ok)
  PROVE  /\ DOMAIN gone' = Runs /\ \A q \in Runs : gone'[q] \in BOOLEAN
         /\ \A q \in Runs \ {r} : gone'[q] = gone[q]
         /\ gone'[r] = gone[r] \/ gone'[r] = TRUE
         /\ ok \/ gone'[r] = TRUE
<1>1. DOMAIN gone = Runs /\ \A q \in Runs : gone[q] \in BOOLEAN
  BY DEF TypeOK, TaskTypeOK
<1>2. CASE ok
  BY <1>1, <1>2 DEF terminal
<1>3. CASE ~ok
  <2>1. gone' = [gone EXCEPT ![r] = TRUE]
    BY <1>3 DEF terminal
  <2>2. gone' = [q \in Runs |-> IF q = r THEN TRUE ELSE gone[q]]
    BY <1>1, <2>1
  <2> QED BY <1>1, <2>2
<1> QED BY <1>2, <1>3

\* The terminal's counters keep their type.
LEMMA ShowLineType ==
  ASSUME TypeOK, NEW r \in Runs, NEW t \in Tasks(r), show_line(r, t)
  PROVE  /\ DOMAIN shown' = Runs /\ DOMAIN buffers' = Runs
         /\ \A q \in Runs : shown'[q] \in [Tasks(q) -> Nat] /\ buffers'[q] \in [Tasks(q) -> Nat]
         /\ \A q \in Runs \ {r} : shown'[q] = shown[q] /\ buffers'[q] = buffers[q]
         /\ \A u \in Tasks(r) \ {t} : shown'[r][u] = shown[r][u] /\ buffers'[r][u] = buffers[r][u]
         /\ \/ shown'[r][t] = IF layout(r) = "stream" THEN shown[r][t] + 1 ELSE shown[r][t]
            \/ gone'[r] = TRUE /\ shown'[r][t] = shown[r][t]
         /\ buffers'[r][t] = IF layout(r) = "grouped" THEN buffers[r][t] + 1 ELSE buffers[r][t]
         /\ DOMAIN gone' = Runs /\ \A q \in Runs : gone'[q] \in BOOLEAN
         /\ \A q \in Runs \ {r} : gone'[q] = gone[q]
         /\ gone'[r] = gone[r] \/ gone'[r] = TRUE
<1>0. PICK ok \in BOOLEAN :
        /\ terminal(r, "line", ok)
        /\ shown' = IF ok /\ layout(r) = "stream" THEN [shown EXCEPT ![r][t] = @ + 1] ELSE shown
  BY DEF show_line
<1>1. /\ DOMAIN shown = Runs /\ DOMAIN buffers = Runs
      /\ \A q \in Runs : shown[q] \in [Tasks(q) -> Nat] /\ buffers[q] \in [Tasks(q) -> Nat]
  BY DEF TypeOK, TaskTypeOK
<1>2. shown[r][t] + 1 \in Nat /\ buffers[r][t] + 1 \in Nat
  BY <1>1
<1>3. /\ DOMAIN shown' = Runs
      /\ \A q \in Runs : shown'[q] \in [Tasks(q) -> Nat]
      /\ \A q \in Runs \ {r} : shown'[q] = shown[q]
      /\ \A u \in Tasks(r) \ {t} : shown'[r][u] = shown[r][u]
      /\ shown'[r][t] = IF ok /\ layout(r) = "stream" THEN shown[r][t] + 1 ELSE shown[r][t]
  <2>1. CASE ok /\ layout(r) = "stream"
    <3> DEFINE g == [shown EXCEPT ![r][t] = shown[r][t] + 1]
    <3>1. shown' = g
      BY <1>0, <2>1
    <3>2. /\ DOMAIN g = Runs /\ g[r] \in [Tasks(r) -> Nat] /\ g[r][t] = shown[r][t] + 1
          /\ \A q \in Runs \ {r} : g[q] = shown[q]
          /\ \A u \in Tasks(r) \ {t} : g[r][u] = shown[r][u]
      BY <1>1, <1>2, CellChanged
    <3> HIDE DEF g
    <3> QED BY <1>1, <2>1, <3>1, <3>2
  <2>2. CASE ~(ok /\ layout(r) = "stream")
    BY <1>0, <1>1, <2>2
  <2> QED BY <2>1, <2>2
<1>4. /\ DOMAIN buffers' = Runs
      /\ \A q \in Runs : buffers'[q] \in [Tasks(q) -> Nat]
      /\ \A q \in Runs \ {r} : buffers'[q] = buffers[q]
      /\ \A u \in Tasks(r) \ {t} : buffers'[r][u] = buffers[r][u]
      /\ buffers'[r][t] = IF layout(r) = "grouped" THEN buffers[r][t] + 1 ELSE buffers[r][t]
  <2>1. CASE layout(r) = "grouped"
    <3> DEFINE g == [buffers EXCEPT ![r][t] = buffers[r][t] + 1]
    <3>1. buffers' = g
      BY <2>1 DEF show_line
    <3>2. /\ DOMAIN g = Runs /\ g[r] \in [Tasks(r) -> Nat] /\ g[r][t] = buffers[r][t] + 1
          /\ \A q \in Runs \ {r} : g[q] = buffers[q]
          /\ \A u \in Tasks(r) \ {t} : g[r][u] = buffers[r][u]
      BY <1>1, <1>2, CellChanged
    <3> HIDE DEF g
    <3> QED BY <1>1, <2>1, <3>1, <3>2
  <2>2. CASE layout(r) # "grouped"
    BY <1>1, <2>2 DEF show_line
  <2> QED BY <2>1, <2>2
<1>5. /\ DOMAIN gone' = Runs /\ \A q \in Runs : gone'[q] \in BOOLEAN
      /\ \A q \in Runs \ {r} : gone'[q] = gone[q]
      /\ gone'[r] = gone[r] \/ gone'[r] = TRUE
      /\ ok \/ gone'[r] = TRUE
  BY <1>0, TerminalStep
<1> QED BY <1>3, <1>4, <1>5

\* What a line changes: one count of lines, and one of lines in the files
\* unless the log is closed or the write fails and closes it.
LEMMA OutputStep ==
  ASSUME TypeOK, NEW r \in Runs, NEW t \in Tasks(r), output(r, t)
  PROVE  /\ TypeOK'
         /\ \A q \in Runs \ {r} : lines'[q] = lines[q] /\ files'[q] = files[q] /\ log'[q] = log[q]
         /\ \A u \in Tasks(r) \ {t} : lines'[r][u] = lines[r][u] /\ files'[r][u] = files[r][u]
         /\ lines'[r][t] = lines[r][t] + 1
         /\ log'[r] = "open" => log[r] = "open" /\ files'[r][t] = files[r][t] + 1
         /\ pc[r] = "run" /\ seen[r][t] = "started"
         /\ \A q \in Runs \ {r} : gone'[q] = gone[q]
         /\ UNCHANGED <<clock, pc, paths, seen, tally, record, json, victims>>
<1>1. /\ DOMAIN lines = Runs /\ DOMAIN files = Runs
      /\ \A q \in Runs : lines[q] \in [Tasks(q) -> Nat] /\ files[q] \in [Tasks(q) -> Nat]
  BY DEF TypeOK, TaskTypeOK
<1>2. lines[r][t] + 1 \in Nat /\ files[r][t] + 1 \in Nat
  BY <1>1
<1>3. /\ DOMAIN lines' = Runs
      /\ \A q \in Runs : lines'[q] \in [Tasks(q) -> Nat]
      /\ \A q \in Runs \ {r} : lines'[q] = lines[q]
      /\ \A u \in Tasks(r) \ {t} : lines'[r][u] = lines[r][u]
      /\ lines'[r][t] = lines[r][t] + 1
  <2> DEFINE g == [lines EXCEPT ![r][t] = lines[r][t] + 1]
  <2>1. lines' = g
    BY DEF output
  <2>2. /\ DOMAIN g = Runs /\ g[r] \in [Tasks(r) -> Nat] /\ g[r][t] = lines[r][t] + 1
        /\ \A q \in Runs \ {r} : g[q] = lines[q]
        /\ \A u \in Tasks(r) \ {t} : g[r][u] = lines[r][u]
    BY <1>1, <1>2, CellChanged
  <2> HIDE DEF g
  <2> QED BY <1>1, <2>1, <2>2
<1>4. /\ log' \in [Runs -> {"none", "open", "closed"}]
      /\ DOMAIN files' = Runs
      /\ \A q \in Runs : files'[q] \in [Tasks(q) -> Nat]
      /\ \A q \in Runs \ {r} : files'[q] = files[q] /\ log'[q] = log[q]
      /\ \A u \in Tasks(r) \ {t} : files'[r][u] = files[r][u]
      /\ log'[r] = "open" => log[r] = "open" /\ files'[r][t] = files[r][t] + 1
  <2>0. log \in [Runs -> {"none", "open", "closed"}]
    BY DEF TypeOK, PathTypeOK
  <2>1. CASE log[r] # "open"
    BY <1>1, <2>0, <2>1 DEF output
  <2>2. CASE log[r] = "open"
    <3>1. PICK ok \in BOOLEAN : write(r, ok) /\ files' = IF ok THEN [files EXCEPT ![r][t] = files[r][t] + 1] ELSE files
      BY <2>2 DEF output
    <3>2. CASE ~ok
      BY <1>1, <2>0, <3>1, <3>2 DEF write
    <3>3. CASE ok
      <4> DEFINE g == [files EXCEPT ![r][t] = files[r][t] + 1]
      <4>1. files' = g /\ log' = log
        BY <3>1, <3>3 DEF write
      <4>2. /\ DOMAIN g = Runs /\ g[r] \in [Tasks(r) -> Nat] /\ g[r][t] = files[r][t] + 1
            /\ \A q \in Runs \ {r} : g[q] = files[q]
            /\ \A u \in Tasks(r) \ {t} : g[r][u] = files[r][u]
        BY <1>1, <1>2, CellChanged
      <4> HIDE DEF g
      <4> QED BY <1>1, <2>0, <2>2, <4>1, <4>2
    <3> QED BY <3>2, <3>3
  <2> QED BY <2>1, <2>2
<1>5. /\ pc[r] = "run" /\ seen[r][t] = "started" /\ show_line(r, t)
      /\ UNCHANGED <<clock, pc, paths, seen, tally, record, json, victims>>
  BY DEF output
<1>6. PathTypeOK'
  BY <1>4, <1>5 DEF TypeOK, PathTypeOK, paths
<1>7. /\ DOMAIN shown' = Runs /\ DOMAIN buffers' = Runs
      /\ \A q \in Runs : shown'[q] \in [Tasks(q) -> Nat] /\ buffers'[q] \in [Tasks(q) -> Nat]
      /\ DOMAIN gone' = Runs /\ \A q \in Runs : gone'[q] \in BOOLEAN
      /\ \A q \in Runs \ {r} : gone'[q] = gone[q]
  BY <1>5, ShowLineType
<1>8. TaskTypeOK'
  BY <1>3, <1>4, <1>5, <1>7 DEF TypeOK, TaskTypeOK
<1> QED BY <1>3, <1>4, <1>5, <1>6, <1>7, <1>8 DEF TypeOK

\* What any other event changes: the state of its task, its record unless the
\* log is closed, one count of the tally, and the terminal.
Outcomes(r, t, event) ==
  /\ pc[r] = "run"
  /\ \/ seen[r][t] = "pending" /\ event \in {"started", "blocked"}
     \/ seen[r][t] = "started" /\ event \in {"ok", "bad", "error"}
  /\ \A q \in Runs \ {r} : /\ seen'[q] = seen[q] /\ record'[q] = record[q] /\ log'[q] = log[q]
                           /\ tally'[q] = tally[q] /\ shown'[q] = shown[q]
  /\ \A u \in Tasks(r) \ {t} : /\ seen'[r][u] = seen[r][u] /\ record'[r][u] = record[r][u]
                               /\ shown'[r][u] = shown[r][u]
  /\ seen'[r][t] = event
  /\ log'[r] = "open" => log[r] = "open" /\ record'[r][t] = state(event)
  /\ \A k \in {"passed", "failed", "blocked"} :
       tally'[r][k] = IF k = count(event) THEN tally[r][k] + 1 ELSE tally[r][k]
  /\ \/ shown'[r][t] = IF layout(r) = "plain" /\ event \in {"ok", "bad"} THEN lines[r][t]
                       ELSE IF layout(r) = "grouped" /\ event \in {"ok", "bad"} THEN buffers[r][t]
                       ELSE shown[r][t]
     \/ gone'[r] = TRUE /\ shown'[r][t] = shown[r][t]
  /\ \A q \in Runs \ {r} : gone'[q] = gone[q]
  /\ gone'[r] = gone[r] \/ gone'[r] = TRUE
  /\ UNCHANGED <<clock, pc, paths, lines, files, json, victims, buffers>>

LEMMA OutcomeStep ==
  ASSUME TypeOK, NEW r \in Runs, NEW t \in Tasks(r), NEW event \in Ends \cup {"started"},
         outcome(r, t, event)
  PROVE  TypeOK' /\ Outcomes(r, t, event)
<1> DEFINE Counts == {"passed", "failed", "blocked"}
           States == {"pending", "running", "finished", "failed", "blocked"}
           Seen == Ends \cup {"pending", "started"}
<1>1. /\ DOMAIN seen = Runs /\ DOMAIN record = Runs /\ DOMAIN tally = Runs /\ DOMAIN shown = Runs
      /\ \A q \in Runs : /\ seen[q] \in [Tasks(q) -> Seen] /\ record[q] \in [Tasks(q) -> States]
                         /\ tally[q] \in [Counts -> Nat] /\ shown[q] \in [Tasks(q) -> Nat]
                         /\ lines[q] \in [Tasks(q) -> Nat] /\ buffers[q] \in [Tasks(q) -> Nat]
  BY DEF TypeOK, TaskTypeOK
<1>2. log \in [Runs -> {"none", "open", "closed"}]
  BY DEF TypeOK, PathTypeOK
<1>3. event \in Seen /\ state(event) \in States
  BY DEF state, Ends
<1>4. /\ DOMAIN seen' = Runs /\ seen'[r] \in [Tasks(r) -> Seen] /\ seen'[r][t] = event
      /\ \A q \in Runs \ {r} : seen'[q] = seen[q]
      /\ \A u \in Tasks(r) \ {t} : seen'[r][u] = seen[r][u]
  <2> DEFINE g == [seen EXCEPT ![r][t] = event]
  <2>1. seen' = g
    BY DEF outcome
  <2>2. /\ DOMAIN g = Runs /\ g[r] \in [Tasks(r) -> Seen] /\ g[r][t] = event
        /\ \A q \in Runs \ {r} : g[q] = seen[q]
        /\ \A u \in Tasks(r) \ {t} : g[r][u] = seen[r][u]
    BY <1>1, <1>3, CellChanged
  <2> HIDE DEF g, Seen
  <2> QED BY <2>1, <2>2
<1>5. /\ log' \in [Runs -> {"none", "open", "closed"}]
      /\ DOMAIN record' = Runs /\ record'[r] \in [Tasks(r) -> States]
      /\ \A q \in Runs \ {r} : record'[q] = record[q] /\ log'[q] = log[q]
      /\ \A u \in Tasks(r) \ {t} : record'[r][u] = record[r][u]
      /\ log'[r] = "open" => log[r] = "open" /\ record'[r][t] = state(event)
  <2>1. CASE log[r] # "open"
    BY <1>1, <1>2, <2>1 DEF outcome
  <2>2. CASE log[r] = "open"
    <3> DEFINE g == [record EXCEPT ![r][t] = state(event)]
    <3>1. record' = g
      BY <2>2 DEF outcome
    <3>2. \E ok \in BOOLEAN : write(r, ok)
      BY <2>2 DEF outcome
    <3>3. log' \in [Runs -> {"none", "open", "closed"}] /\ \A q \in Runs \ {r} : log'[q] = log[q]
      BY <1>2, <3>2 DEF write
    <3>4. /\ DOMAIN g = Runs /\ g[r] \in [Tasks(r) -> States] /\ g[r][t] = state(event)
          /\ \A q \in Runs \ {r} : g[q] = record[q]
          /\ \A u \in Tasks(r) \ {t} : g[r][u] = record[r][u]
      BY <1>1, <1>3, CellChanged
    <3> HIDE DEF g, States
    <3> QED BY <2>2, <3>1, <3>3, <3>4
  <2> QED BY <2>1, <2>2
<1>6. /\ DOMAIN tally' = Runs /\ tally'[r] \in [Counts -> Nat]
      /\ \A q \in Runs \ {r} : tally'[q] = tally[q]
      /\ \A k \in Counts : tally'[r][k] = IF k = count(event) THEN tally[r][k] + 1 ELSE tally[r][k]
  <2>1. CASE count(event) \notin Counts
    BY <1>1, <2>1 DEF outcome
  <2>2. CASE count(event) \in Counts
    <3> DEFINE k0 == count(event)
               g == [tally EXCEPT ![r][k0] = tally[r][k0] + 1]
    <3>1. tally' = g
      BY <1>1, <2>2 DEF outcome
    <3>2. tally[r][k0] + 1 \in Nat
      BY <1>1, <2>2
    <3>3. /\ DOMAIN g = Runs /\ g[r] \in [Counts -> Nat] /\ g[r][k0] = tally[r][k0] + 1
          /\ \A q \in Runs \ {r} : g[q] = tally[q]
          /\ \A k \in Counts \ {k0} : g[r][k] = tally[r][k]
      BY <1>1, <2>2, <3>2, CellChanged
    <3> HIDE DEF g, Counts
    <3> QED BY <3>1, <3>3
  <2> QED BY <2>1, <2>2
<1>70. PICK ok \in BOOLEAN, brought \in BOOLEAN :
         /\ terminal(r, event, ok) /\ (ok => brought)
         /\ shown' = IF brought /\ layout(r) \in {"plain", "grouped"} /\ event \in {"ok", "bad"}
                     THEN [shown EXCEPT ![r][t] = IF layout(r) = "plain" THEN lines[r][t] ELSE buffers[r][t]]
                     ELSE shown
  BY DEF outcome, show
<1>71. /\ DOMAIN gone' = Runs /\ \A q \in Runs : gone'[q] \in BOOLEAN
       /\ \A q \in Runs \ {r} : gone'[q] = gone[q]
       /\ gone'[r] = gone[r] \/ gone'[r] = TRUE
       /\ ok \/ gone'[r] = TRUE
  BY <1>70, TerminalStep
<1>7. /\ DOMAIN shown' = Runs /\ shown'[r] \in [Tasks(r) -> Nat]
      /\ \A q \in Runs \ {r} : shown'[q] = shown[q]
      /\ \A u \in Tasks(r) \ {t} : shown'[r][u] = shown[r][u]
      /\ shown'[r][t] = IF brought /\ layout(r) = "plain" /\ event \in {"ok", "bad"} THEN lines[r][t]
                        ELSE IF brought /\ layout(r) = "grouped" /\ event \in {"ok", "bad"} THEN buffers[r][t]
                        ELSE shown[r][t]
  <2>1. CASE ~(brought /\ layout(r) \in {"plain", "grouped"} /\ event \in {"ok", "bad"})
    BY <1>1, <1>70, <2>1
  <2>2. CASE brought /\ layout(r) \in {"plain", "grouped"} /\ event \in {"ok", "bad"}
    <3> DEFINE v == IF layout(r) = "plain" THEN lines[r][t] ELSE buffers[r][t]
               g == [shown EXCEPT ![r][t] = v]
    <3>1. shown' = g
      BY <1>70, <2>2
    <3>2. v \in Nat
      BY <1>1
    <3> HIDE DEF v
    <3>3. /\ DOMAIN g = Runs /\ g[r] \in [Tasks(r) -> Nat] /\ g[r][t] = v
          /\ \A q \in Runs \ {r} : g[q] = shown[q]
          /\ \A u \in Tasks(r) \ {t} : g[r][u] = shown[r][u]
      BY <1>1, <3>2, CellChanged
    <3> HIDE DEF g
    <3> QED BY <2>2, <3>1, <3>3 DEF v
  <2> QED BY <2>1, <2>2
<1>8. /\ pc[r] = "run"
      /\ \/ seen[r][t] = "pending" /\ event \in {"started", "blocked"}
         \/ seen[r][t] = "started" /\ event \in {"ok", "bad", "error"}
      /\ UNCHANGED <<clock, pc, paths, lines, files, json, victims, buffers>>
  BY DEF outcome, show
<1>9. PathTypeOK'
  BY <1>5, <1>8 DEF TypeOK, PathTypeOK, paths
<1>10. TaskTypeOK'
  BY <1>1, <1>4, <1>5, <1>6, <1>7, <1>71, <1>8 DEF TypeOK, TaskTypeOK
<1>11. \/ shown'[r][t] = IF layout(r) = "plain" /\ event \in {"ok", "bad"} THEN lines[r][t]
                         ELSE IF layout(r) = "grouped" /\ event \in {"ok", "bad"} THEN buffers[r][t]
                         ELSE shown[r][t]
       \/ gone'[r] = TRUE /\ shown'[r][t] = shown[r][t]
  BY <1>7, <1>70, <1>71
<1>12. Outcomes(r, t, event)
  BY <1>4, <1>5, <1>6, <1>7, <1>71, <1>8, <1>11 DEF Outcomes
<1> QED BY <1>9, <1>10, <1>12 DEF TypeOK

LEMMA TypeStep == TypeOK /\ [Next]_vars => TypeOK'
<1> SUFFICES ASSUME TypeOK, [Next]_vars PROVE TypeOK'
  OBVIOUS
<1>1. CASE tick
  BY <1>1, RunLogAssumption DEF tick, TypeOK, PathTypeOK, TaskTypeOK, paths, progress, artifacts
<1>2. CASE sweep_at_start
  BY <1>2 DEF sweep_at_start, prune, run_names, TypeOK, PathTypeOK, TaskTypeOK, paths, progress, artifacts
<1>3. ASSUME NEW r \in Runs, create(r) PROVE TypeOK'
  <2>1. run_id(r) \in Nat \X Nat
    BY RunLogAssumption DEF run_id, TypeOK, PathTypeOK
  <2>2. PathTypeOK'
    <3>1. started_alone' \in BOOLEAN
      BY <1>3, ZenonT(30) DEF create, TypeOK, PathTypeOK
    <3> QED BY <1>3, <2>1, <3>1 DEF create, goto, TypeOK, PathTypeOK, artifacts
  <2>3. TaskTypeOK'
    BY <1>3 DEF create, TypeOK, TaskTypeOK, progress, artifacts
  <2> QED BY <2>2, <2>3 DEF TypeOK
<1>4. ASSUME NEW r \in Runs, unlink_latest(r) \/ link_latest(r) PROVE TypeOK'
  <2>1. PathTypeOK'
    BY <1>4 DEF unlink_latest, link_latest, goto, NoName, TypeOK, PathTypeOK, artifacts
  <2>2. TaskTypeOK'
    BY <1>4 DEF unlink_latest, link_latest, TypeOK, TaskTypeOK, progress, artifacts
  <2> QED BY <2>1, <2>2 DEF TypeOK
<1>5. ASSUME NEW r \in Runs, open_tasks(r) PROVE TypeOK'
  BY <1>5, OpenTasksType
<1>6. ASSUME NEW r \in Runs, NEW t \in Tasks(r), output(r, t) PROVE TypeOK'
  BY <1>6, OutputStep
<1>7. ASSUME NEW r \in Runs, NEW t \in Tasks(r), NEW event \in Ends \cup {"started"}, outcome(r, t, event)
      PROVE  TypeOK'
  BY <1>7, OutcomeStep
<1>8. ASSUME NEW r \in Runs, finish(r) PROVE TypeOK'
  <2>1. /\ log' \in [Runs -> {"none", "open", "closed"}] /\ DOMAIN json' = Runs
    BY <1>8 DEF finish, TypeOK, PathTypeOK, TaskTypeOK
  <2>2. PathTypeOK'
    BY <1>8, <2>1 DEF finish, goto, paths, TypeOK, PathTypeOK
  <2>3. TaskTypeOK'
    BY <1>8, <2>1 DEF finish, progress, TypeOK, TaskTypeOK
  <2> QED BY <2>2, <2>3 DEF TypeOK
<1>9. ASSUME NEW r \in Runs, finished(r) PROVE TypeOK'
  BY <1>9 DEF finished, goto, prune, run_names, TypeOK, PathTypeOK, TaskTypeOK, paths, progress, artifacts
<1>10. ASSUME NEW n \in victims, remove_dir(n) PROVE TypeOK'
  BY <1>10 DEF remove_dir, TypeOK, PathTypeOK, TaskTypeOK, progress, artifacts
<1>11. CASE UNCHANGED vars
  BY <1>11 DEF vars, TypeOK, PathTypeOK, TaskTypeOK, paths, progress, artifacts
<1> QED BY <1>1, <1>2, <1>3, <1>4, <1>5, <1>6, <1>7, <1>8, <1>9, <1>10, <1>11 DEF Next, Over

\* Every variable keeps its type, for every number of runs and tasks.
THEOREM TypeCorrect == Spec => []TypeOK
<1> QED BY InitType, TypeStep, PTL DEF Spec

-----------------------------------------------------------------------------
\* Names, logs and records.

\* Two runs of one process start in different milliseconds, or there is only
\* one run of the daemon.
Apart == SameTick => \A r, q \in Daemon : r = q

Before == {"off", "unlink_latest", "link_latest", "open_tasks"}

\* A run has a name from its creation on, made of a time that has been and its
\* process; an open log is the log of a run that has a name.
NameInv ==
  \A r \in Runs :
    /\ name[r] # NoName => name[r][2] = Pid[r] /\ 2 <= name[r][1] /\ name[r][1] <= clock
    /\ pc[r] = "off" => name[r] = NoName
    /\ pc[r] \in Before \ {"off"} => name[r] # NoName
    /\ log[r] = "open" => name[r] # NoName /\ pc[r] \in {"run", "ended", "over"}

\* The tasks of r that count as k in the tally.
Counted(r, k) == {t \in Tasks(r) : seen[r][t] \in Ends /\ count(seen[r][t]) = k}

\* While its log is open, the files and the record of a run are what its events
\* said; the tally counts, whether there is a log or not; a run.json is the last
\* thing that a run writes.
FreshInv ==
  \A r \in Runs : pc[r] \in Before =>
    /\ log[r] # "open"
    /\ \A t \in Tasks(r) : /\ seen[r][t] = "pending" /\ record[r][t] = "pending"
                           /\ lines[r][t] = 0 /\ files[r][t] = 0
OpenInv ==
  \A r \in Runs : log[r] = "open" =>
    \A t \in Tasks(r) :
      /\ files[r][t] = lines[r][t]
      /\ record[r][t] = state(seen[r][t])
JsonInv ==
  \A r \in Runs : json[r].status # "none" =>
    /\ log[r] = "open" /\ pc[r] \in {"ended", "over"}
    /\ json[r].tasks = record[r] /\ json[r].status = exit_status(r) /\ returned(r)
TallyInv ==
  \A r \in Runs : \A k \in {"passed", "failed", "blocked"} :
    tally[r][k] = Cardinality(Counted(r, k))
RecordInv == NameInv /\ OwnDirectory /\ FreshInv /\ OpenInv /\ JsonInv /\ TallyInv

\* What a layout holds back or shows of a task, at any moment.
ShownInv ==
  \A r \in Runs \ Daemon : \A t \in Tasks(r) :
    /\ shown[r][t] <= lines[r][t]
    /\ layout(r) = "stream" /\ ~gone[r] => shown[r][t] = lines[r][t]
    /\ layout(r) = "grouped" => buffers[r][t] = lines[r][t]
    /\ seen[r][t] \in {"ok", "bad"} /\ ~gone[r] => shown[r][t] = lines[r][t]

LEMMA InitRecord == Init => RecordInv /\ ShownInv
<1> SUFFICES ASSUME Init PROVE RecordInv /\ ShownInv
  OBVIOUS
<1>1. NameInv /\ OwnDirectory /\ OpenInv /\ JsonInv
  BY DEF Init, NameInv, OwnDirectory, OpenInv, JsonInv, Before, None
<1>2. FreshInv
  BY DEF Init, FreshInv, each
<1>3. TallyInv
  <2> SUFFICES ASSUME NEW r \in Runs, NEW k \in {"passed", "failed", "blocked"}
               PROVE  tally[r][k] = Cardinality(Counted(r, k))
    BY DEF TallyInv
  <2>1. Counted(r, k) = {}
    BY DEF Counted, Init, each, Ends
  <2>2. tally[r][k] = 0
    BY DEF Init
  <2> QED BY <2>1, <2>2, FS_EmptySet
<1>4. ShownInv
  BY DEF Init, ShownInv, each
<1> QED BY <1>1, <1>2, <1>3, <1>4 DEF RecordInv

\* A new run takes a name that no other run has.
LEMMA NewName ==
  ASSUME Apart, TypeOK, NameInv, NEW r \in Runs, create(r), NEW q \in Runs \ {r}
  PROVE  name[q] # run_id(r)
<1> SUFFICES ASSUME name[q] = run_id(r) PROVE FALSE
  OBVIOUS
<1>1. SameTick
  BY DEF create
<1>2. name[q] = <<clock, Pid[r]>> /\ clock \in Nat /\ clock >= 2
  BY RunLogAssumption DEF run_id, TypeOK, PathTypeOK
<1>3. name[q] # NoName
  BY <1>2 DEF NoName
<1>4. Pid[q] = Pid[r]
  <2>1. name[q][2] = Pid[r]
    BY <1>2
  <2>2. name[q][2] = Pid[q]
    BY <1>3 DEF NameInv
  <2> QED BY <2>1, <2>2
<1>5. r \in Daemon /\ q \in Daemon
  BY <1>4, RunLogAssumption
<1> QED BY <1>1, <1>5 DEF Apart

LEMMA NameStep ==
  ASSUME TypeOK, NameInv, [Next]_vars PROVE NameInv'
<1>0. /\ pc \in [Runs -> {"off", "unlink_latest", "link_latest", "open_tasks", "run", "ended", "over"}]
      /\ name \in [Runs -> Nat \X Nat] /\ clock \in Nat /\ clock >= 2
      /\ log \in [Runs -> {"none", "open", "closed"}]
  BY RunLogAssumption DEF TypeOK, PathTypeOK
<1>1. CASE tick
  BY <1>0, <1>1 DEF tick, NameInv, paths, artifacts
<1>2. CASE sweep_at_start
  BY <1>2 DEF sweep_at_start, NameInv, paths, artifacts
<1>3. ASSUME NEW r \in Runs, create(r) PROVE NameInv'
  <2>0. clock' = clock /\ log' = log /\ pc[r] = "off"
    BY <1>3 DEF create, artifacts
  <2>1. CASE name' = [name EXCEPT ![r] = run_id(r)] /\ goto(r, "unlink_latest")
    <3>1. name'[r] = <<clock, Pid[r]>> /\ name'[r] # NoName /\ \A q \in Runs \ {r} : name'[q] = name[q]
      BY <1>0, <2>1, RunLogAssumption DEF run_id, NoName
    <3>2. pc'[r] = "unlink_latest" /\ \A q \in Runs \ {r} : pc'[q] = pc[q]
      BY <1>0, <2>1 DEF goto
    <3>3. name'[r][1] = clock /\ name'[r][2] = Pid[r]
      BY <3>1
    <3> QED BY <1>0, <2>0, <3>1, <3>2, <3>3 DEF NameInv, Before
  <2>2. CASE goto(r, "run") /\ UNCHANGED name
    BY <1>0, <2>0, <2>2 DEF goto, NameInv, Before
  <2> QED BY <1>3, <2>1, <2>2 DEF create
<1>4. ASSUME NEW r \in Runs, unlink_latest(r) \/ link_latest(r) PROVE NameInv'
  BY <1>0, <1>4 DEF unlink_latest, link_latest, goto, NameInv, Before, artifacts
<1>5. ASSUME NEW r \in Runs, open_tasks(r) PROVE NameInv'
  BY <1>0, <1>5 DEF open_tasks, goto, NameInv, Before, paths
<1>6. ASSUME NEW r \in Runs, NEW t \in Tasks(r), output(r, t) PROVE NameInv'
  <2>1. (\A q \in Runs : log'[q] = "open" => log[q] = "open") /\ UNCHANGED <<clock, pc, name>>
    BY <1>6, OutputStep DEF paths
  <2> QED BY <2>1 DEF NameInv
<1>7. ASSUME NEW r \in Runs, NEW t \in Tasks(r), NEW event \in Ends \cup {"started"}, outcome(r, t, event)
      PROVE  NameInv'
  <2>1. (\A q \in Runs : log'[q] = "open" => log[q] = "open") /\ UNCHANGED <<clock, pc, name>>
    BY <1>7, OutcomeStep DEF Outcomes, paths
  <2> QED BY <2>1 DEF NameInv
<1>8. ASSUME NEW r \in Runs, finish(r) PROVE NameInv'
  <2>1. (\A q \in Runs : log'[q] = "open" => log[q] = "open") /\ UNCHANGED <<clock, name>>
    BY <1>0, <1>8 DEF finish, paths
  <2> QED BY <1>0, <1>8, <2>1 DEF finish, goto, NameInv, Before
<1>9. ASSUME NEW r \in Runs, finished(r) PROVE NameInv'
  BY <1>0, <1>9 DEF finished, goto, NameInv, Before, paths, artifacts
<1>10. ASSUME NEW n \in victims, remove_dir(n) PROVE NameInv'
  BY <1>10 DEF remove_dir, NameInv, artifacts
<1>11. CASE UNCHANGED vars
  BY <1>11 DEF vars, NameInv, paths, artifacts
<1> QED BY <1>1, <1>2, <1>3, <1>4, <1>5, <1>6, <1>7, <1>8, <1>9, <1>10, <1>11 DEF Next, Over

\* Only a creation gives a name.
LEMMA OtherNames ==
  ASSUME [Next]_vars, \A r \in Runs : ~create(r)
  PROVE  name' = name /\ started_alone' = started_alone
BY DEF Next, Over, vars, tick, sweep_at_start, unlink_latest, link_latest, open_tasks, output, outcome,
       finish, finished, remove_dir, paths

LEMMA OwnStep ==
  ASSUME Apart, TypeOK, NameInv, OwnDirectory, [Next]_vars PROVE OwnDirectory'
<1>1. CASE \A r \in Runs : ~create(r)
  BY <1>1, OtherNames DEF OwnDirectory
<1>2. ASSUME NEW r \in Runs, create(r) PROVE OwnDirectory'
  <2>1. CASE name' = [name EXCEPT ![r] = run_id(r)]
    <3>1. name'[r] = run_id(r) /\ \A q \in Runs \ {r} : name'[q] = name[q]
      BY <2>1 DEF TypeOK, PathTypeOK
    <3>2. \A q \in Runs \ {r} : name[q] # run_id(r)
      BY <1>2, NewName
    <3> QED BY <3>1, <3>2 DEF OwnDirectory
  <2> QED BY <1>2, <2>1 DEF create, OwnDirectory
<1> QED BY <1>1, <1>2

\* An event moves its task from no count to one, at most.
LEMMA TallyStep ==
  ASSUME TypeOK, TallyInv, NEW r \in Runs, NEW t \in Tasks(r), NEW event \in Ends \cup {"started"},
         outcome(r, t, event)
  PROVE  TallyInv'
<1> SUFFICES ASSUME NEW q \in Runs, NEW k \in {"passed", "failed", "blocked"}
             PROVE  tally'[q][k] = Cardinality(Counted(q, k)')
  BY DEF TallyInv
<1>1. tally[q][k] = Cardinality(Counted(q, k)) /\ tally[q][k] \in Nat
  BY DEF TallyInv, TypeOK, TaskTypeOK
<1>2. /\ \A p \in Runs \ {r} : seen'[p] = seen[p] /\ tally'[p] = tally[p]
      /\ \A u \in Tasks(r) \ {t} : seen'[r][u] = seen[r][u]
      /\ seen'[r][t] = event /\ seen[r][t] \notin Ends
      /\ tally'[r][k] = IF k = count(event) THEN tally[r][k] + 1 ELSE tally[r][k]
  <2>1. Outcomes(r, t, event)
    BY OutcomeStep
  <2> QED BY <2>1 DEF Outcomes, Ends
<1>3. CASE q # r
  BY <1>1, <1>2, <1>3 DEF Counted
<1>4. CASE q = r
  <2>1. CASE k # count(event)
    <3>1. Counted(q, k)' = Counted(q, k)
      BY <1>2, <1>4, <2>1 DEF Counted
    <3> QED BY <1>1, <1>2, <1>4, <2>1, <3>1
  <2>2. CASE k = count(event)
    <3>1. event \in Ends
      BY <2>2 DEF count
    <3>2. Counted(q, k)' = Counted(q, k) \cup {t} /\ t \notin Counted(q, k)
      BY <1>2, <1>4, <2>2, <3>1 DEF Counted
    <3>3. IsFiniteSet(Counted(q, k))
      <4>1. IsFiniteSet(Tasks(q))
        BY RunLogAssumption, FS_Interval DEF Tasks
      <4>2. Counted(q, k) \subseteq Tasks(q)
        BY DEF Counted
      <4> QED BY <4>1, <4>2, FS_Subset
    <3>4. Cardinality(Counted(q, k) \cup {t}) = Cardinality(Counted(q, k)) + 1
      BY <3>2, <3>3, FS_AddElement
    <3> QED BY <1>1, <1>2, <1>4, <2>2, <3>2, <3>4
  <2> QED BY <2>1, <2>2
<1> QED BY <1>3, <1>4

LEMMA TallySame ==
  ASSUME TallyInv, UNCHANGED <<seen, tally>> PROVE TallyInv'
<1>1. \A r \in Runs : \A k \in {"passed", "failed", "blocked"} : Counted(r, k)' = Counted(r, k)
  BY DEF Counted
<1> QED BY <1>1 DEF TallyInv

\* How a run ended does not change afterwards.
LEMMA EndKept ==
  ASSUME NEW r \in Runs, seen'[r] = seen[r], gone'[r] = gone[r]
  PROVE  (exit_status(r)' = exit_status(r)) /\ (returned(r)' <=> returned(r))
<1>1. unrunnable(r)' <=> unrunnable(r)
  BY DEF unrunnable
<1> QED BY <1>1 DEF exit_status, returned

\* Steps that leave tasks, logs and records alone.
LEMMA QuietStep ==
  ASSUME TypeOK, RecordInv, UNCHANGED <<progress, artifacts>>,
         \A r \in Runs : /\ pc'[r] \in Before => pc[r] \in Before
                         /\ pc[r] \in {"ended", "over"} => pc'[r] \in {"ended", "over"}
  PROVE  FreshInv' /\ OpenInv' /\ JsonInv' /\ TallyInv'
<1>1. FreshInv' /\ OpenInv'
  BY DEF RecordInv, FreshInv, OpenInv, progress, artifacts
<1>2. JsonInv'
  <2>1. \A r \in Runs : (exit_status(r)' = exit_status(r)) /\ (returned(r)' <=> returned(r))
    BY EndKept DEF progress
  <2> QED BY <2>1 DEF RecordInv, JsonInv, progress, artifacts
<1>3. TallyInv'
  BY TallySame DEF RecordInv, progress
<1> QED BY <1>1, <1>2, <1>3

\* The files that a new run creates are its own: no other run loses a line.
LEMMA OpenTasksKeeps ==
  ASSUME TypeOK, RecordInv, NEW r \in Runs, open_tasks(r)
  PROVE  FreshInv' /\ OpenInv' /\ JsonInv' /\ TallyInv'
<1>0. /\ pc \in [Runs -> {"off", "unlink_latest", "link_latest", "open_tasks", "run", "ended", "over"}]
      /\ log \in [Runs -> {"none", "open", "closed"}] /\ DOMAIN files = Runs
  BY DEF TypeOK, PathTypeOK, TaskTypeOK
<1>1. /\ pc[r] = "open_tasks" /\ pc' = [pc EXCEPT ![r] = "run"]
      /\ \A q \in Runs \ {r} : log'[q] = log[q]
      /\ UNCHANGED <<seen, gone, lines, tally, record, json>>
  BY <1>0 DEF open_tasks, goto, progress
<1>2. \A q \in Runs : files'[q] = files[q]
  <2>1. name[r] # NoName
    BY <1>1 DEF RecordInv, NameInv, Before
  <2>2. \A q \in Runs \ {r} : name[q] # name[r]
    BY <2>1 DEF RecordInv, OwnDirectory
  <2> QED BY <2>2 DEF open_tasks
<1>3. FreshInv'
  BY <1>0, <1>1, <1>2 DEF RecordInv, FreshInv, Before
<1>4. OpenInv'
  BY <1>0, <1>1, <1>2 DEF RecordInv, FreshInv, OpenInv, Before, state
<1>5. JsonInv'
  <2>1. \A q \in Runs : (exit_status(q)' = exit_status(q)) /\ (returned(q)' <=> returned(q))
    BY <1>1, EndKept
  <2> QED BY <1>0, <1>1, <2>1 DEF RecordInv, JsonInv
<1>6. TallyInv'
  BY <1>1, TallySame DEF RecordInv
<1> QED BY <1>3, <1>4, <1>5, <1>6

LEMMA OutputKeeps ==
  ASSUME TypeOK, RecordInv, NEW r \in Runs, NEW t \in Tasks(r), output(r, t)
  PROVE  FreshInv' /\ OpenInv' /\ JsonInv' /\ TallyInv'
<1>1. /\ \A q \in Runs \ {r} : lines'[q] = lines[q] /\ files'[q] = files[q] /\ log'[q] = log[q]
      /\ \A u \in Tasks(r) \ {t} : lines'[r][u] = lines[r][u] /\ files'[r][u] = files[r][u]
      /\ lines'[r][t] = lines[r][t] + 1
      /\ log'[r] = "open" => log[r] = "open" /\ files'[r][t] = files[r][t] + 1
      /\ pc[r] = "run" /\ seen[r][t] = "started" /\ \A q \in Runs \ {r} : gone'[q] = gone[q]
      /\ UNCHANGED <<pc, seen, tally, record, json>>
  BY OutputStep
<1>2. FreshInv'
  BY <1>1 DEF RecordInv, FreshInv, Before
<1>3. OpenInv'
  BY <1>1 DEF RecordInv, OpenInv
<1>4. JsonInv'
  <2>1. \A q \in Runs \ {r} : (exit_status(q)' = exit_status(q)) /\ (returned(q)' <=> returned(q))
    BY <1>1, EndKept
  <2> QED BY <1>1, <2>1 DEF RecordInv, JsonInv
<1>5. TallyInv'
  BY <1>1, TallySame DEF RecordInv
<1> QED BY <1>2, <1>3, <1>4, <1>5

LEMMA OutcomeKeeps ==
  ASSUME TypeOK, RecordInv, NEW r \in Runs, NEW t \in Tasks(r), NEW event \in Ends \cup {"started"},
         outcome(r, t, event)
  PROVE  FreshInv' /\ OpenInv' /\ JsonInv' /\ TallyInv'
<1>1. /\ pc[r] = "run" /\ event # "pending"
      /\ \A q \in Runs \ {r} : seen'[q] = seen[q] /\ record'[q] = record[q] /\ log'[q] = log[q]
      /\ \A u \in Tasks(r) \ {t} : seen'[r][u] = seen[r][u] /\ record'[r][u] = record[r][u]
      /\ seen'[r][t] = event
      /\ log'[r] = "open" => log[r] = "open" /\ record'[r][t] = state(event)
      /\ \A q \in Runs \ {r} : gone'[q] = gone[q]
      /\ UNCHANGED <<pc, lines, files, json>>
  <2>1. Outcomes(r, t, event)
    BY OutcomeStep
  <2> QED BY <2>1 DEF Outcomes, Ends
<1>2. FreshInv'
  BY <1>1 DEF RecordInv, FreshInv, Before
<1>3. OpenInv'
  BY <1>1 DEF RecordInv, OpenInv
<1>4. JsonInv'
  <2>1. \A q \in Runs \ {r} : (exit_status(q)' = exit_status(q)) /\ (returned(q)' <=> returned(q))
    BY <1>1, EndKept
  <2> QED BY <1>1, <2>1 DEF RecordInv, JsonInv
<1>5. TallyInv'
  BY TallyStep DEF RecordInv
<1> QED BY <1>2, <1>3, <1>4, <1>5

\* run.json is the record as it stands, and the run does nothing after it.
LEMMA FinishKeeps ==
  ASSUME TypeOK, RecordInv, NEW r \in Runs, finish(r)
  PROVE  FreshInv' /\ OpenInv' /\ JsonInv' /\ TallyInv'
<1>0. /\ pc \in [Runs -> {"off", "unlink_latest", "link_latest", "open_tasks", "run", "ended", "over"}]
      /\ log \in [Runs -> {"none", "open", "closed"}] /\ DOMAIN json = Runs
  BY DEF TypeOK, PathTypeOK, TaskTypeOK
<1>1. /\ pc[r] = "run" /\ pc' \in [Runs -> {"off", "unlink_latest", "link_latest", "open_tasks", "run", "ended", "over"}]
      /\ pc'[r] \in {"ended", "over"} /\ \A q \in Runs \ {r} : pc'[q] = pc[q]
      /\ returned(r)
      /\ \A q \in Runs \ {r} : log'[q] = log[q]
      /\ log'[r] = "open" => log[r] = "open"
      /\ UNCHANGED <<seen, gone, lines, tally, record, files>>
  BY <1>0 DEF finish, goto, progress
<1>2. FreshInv'
  BY <1>1 DEF RecordInv, FreshInv, Before
<1>3. OpenInv'
  BY <1>1 DEF RecordInv, OpenInv
<1>4. JsonInv'
  <2> DEFINE written == [tasks |-> record[r], status |-> exit_status(r)]
             Writes == /\ log[r] = "open" /\ log' = [log EXCEPT ![r] = "open"]
                       /\ json' = [q \in Runs |-> IF q = r THEN written
                                                  ELSE IF name[q] = name[r] THEN None ELSE json[q]]
  <2>0. \A q \in Runs : (exit_status(q)' = exit_status(q)) /\ (returned(q)' <=> returned(q))
    BY <1>1, EndKept
  <2>1. CASE UNCHANGED json
    <3>1. json[r].status = "none"
      BY <1>1 DEF RecordInv, JsonInv
    <3> QED BY <1>1, <2>0, <2>1, <3>1 DEF RecordInv, JsonInv
  <2>2. CASE Writes
    <3>1. json'[r].tasks = record[r] /\ json'[r].status = exit_status(r) /\ log'[r] = "open"
      BY <1>0, <2>2
    <3>2. \A q \in Runs \ {r} : json'[q].status # "none" => json'[q] = json[q]
      BY <2>2 DEF None
    <3> QED BY <1>1, <2>0, <3>1, <3>2 DEF RecordInv, JsonInv
  <2>3. UNCHANGED json \/ Writes
    BY DEF finish
  <2> QED BY <2>1, <2>2, <2>3
<1>5. TallyInv'
  BY <1>1, TallySame DEF RecordInv
<1> QED BY <1>2, <1>3, <1>4, <1>5

LEMMA RecordStep ==
  ASSUME Apart, TypeOK, RecordInv, [Next]_vars
  PROVE  RecordInv'
<1>0. pc \in [Runs -> {"off", "unlink_latest", "link_latest", "open_tasks", "run", "ended", "over"}]
  BY DEF TypeOK, PathTypeOK
<1> DEFINE Quiet == /\ UNCHANGED <<progress, artifacts>>
                    /\ \A r \in Runs : /\ pc'[r] \in Before => pc[r] \in Before
                                       /\ pc[r] \in {"ended", "over"} => pc'[r] \in {"ended", "over"}
           Keeps == FreshInv' /\ OpenInv' /\ JsonInv' /\ TallyInv'
<1>1. ASSUME tick PROVE Keeps
  BY <1>1, QuietStep DEF tick, Before
<1>2. ASSUME sweep_at_start PROVE Keeps
  BY <1>2, QuietStep DEF sweep_at_start
<1>3. ASSUME NEW r \in Runs, create(r) \/ unlink_latest(r) \/ link_latest(r) PROVE Keeps
  <2>1. Quiet
    BY <1>0, <1>3 DEF create, unlink_latest, link_latest, goto, Before
  <2> QED BY <2>1, QuietStep
<1>4. ASSUME NEW r \in Runs, open_tasks(r) PROVE Keeps
  BY <1>4, OpenTasksKeeps
<1>5. ASSUME NEW r \in Runs, NEW t \in Tasks(r), output(r, t) PROVE Keeps
  BY <1>5, OutputKeeps
<1>6. ASSUME NEW r \in Runs, NEW t \in Tasks(r), NEW event \in Ends \cup {"started"}, outcome(r, t, event)
      PROVE  Keeps
  BY <1>6, OutcomeKeeps
<1>7. ASSUME NEW r \in Runs, finish(r) PROVE Keeps
  BY <1>7, FinishKeeps
<1>8. ASSUME NEW r \in Runs, finished(r) PROVE Keeps
  <2>1. Quiet
    BY <1>0, <1>8 DEF finished, goto, Before
  <2> QED BY <2>1, QuietStep
<1>9. ASSUME NEW n \in victims, remove_dir(n) PROVE Keeps
  BY <1>9, QuietStep DEF remove_dir
<1>10. ASSUME UNCHANGED vars PROVE Keeps
  BY <1>10, QuietStep DEF vars
<1>11. Keeps
  BY <1>1, <1>2, <1>3, <1>4, <1>5, <1>6, <1>7, <1>8, <1>9, <1>10 DEF Next, Over
<1> QED BY <1>11, NameStep, OwnStep DEF RecordInv

\* The counts of the record are those of the tally.
LEMMA RecordCounted ==
  ASSUME TypeOK, RecordInv PROVE RecordVouches
<1> SUFFICES ASSUME NEW r \in Runs, json[r].status # "none"
             PROVE  /\ files[r] = lines[r]
                    /\ \A t \in Tasks(r) : json[r].tasks[t] = state(seen[r][t])
                    /\ \A p \in {<<"finished", "passed">>, <<"failed", "failed">>, <<"blocked", "blocked">>} :
                         Cardinality({t \in Tasks(r) : json[r].tasks[t] = p[1]}) = tally[r][p[2]]
                    /\ json[r].status = "given" <=>
                         ~gone[r] /\ \A t \in Tasks(r) : seen[r][t] \in Ends \ {"error"}
  BY DEF RecordVouches
<1>1. log[r] = "open" /\ json[r].tasks = record[r] /\ json[r].status = exit_status(r) /\ returned(r)
  BY DEF RecordInv, JsonInv
<1>2. \A t \in Tasks(r) : files[r][t] = lines[r][t] /\ json[r].tasks[t] = state(seen[r][t])
  BY <1>1 DEF RecordInv, OpenInv
<1>3. files[r] = lines[r]
  <2>1. files[r] \in [Tasks(r) -> Nat] /\ lines[r] \in [Tasks(r) -> Nat]
    BY DEF TypeOK, TaskTypeOK
  <2> QED BY <1>2, <2>1
<1>4. /\ {t \in Tasks(r) : json[r].tasks[t] = "finished"} = Counted(r, "passed")
      /\ {t \in Tasks(r) : json[r].tasks[t] = "failed"} = Counted(r, "failed")
      /\ {t \in Tasks(r) : json[r].tasks[t] = "blocked"} = Counted(r, "blocked")
  <2>1. \A t \in Tasks(r) : seen[r][t] \in Ends \cup {"pending", "started"}
    BY DEF TypeOK, TaskTypeOK
  <2> QED BY <1>2, <2>1 DEF Counted, state, count, Ends
<1>5. /\ Cardinality({t \in Tasks(r) : json[r].tasks[t] = "finished"}) = tally[r]["passed"]
      /\ Cardinality({t \in Tasks(r) : json[r].tasks[t] = "failed"}) = tally[r]["failed"]
      /\ Cardinality({t \in Tasks(r) : json[r].tasks[t] = "blocked"}) = tally[r]["blocked"]
  BY <1>4 DEF RecordInv, TallyInv
<1>6. \A p \in {<<"finished", "passed">>, <<"failed", "failed">>, <<"blocked", "blocked">>} :
        Cardinality({t \in Tasks(r) : json[r].tasks[t] = p[1]}) = tally[r][p[2]]
  BY <1>5
<1>7. json[r].status = "given" <=> ~gone[r] /\ \A t \in Tasks(r) : seen[r][t] \in Ends \ {"error"}
  BY <1>1 DEF exit_status, returned, unrunnable
<1> QED BY <1>2, <1>3, <1>6, <1>7

LEMMA ShownStep ==
  ASSUME TypeOK, ShownInv, [Next]_vars PROVE ShownInv'
<1> DEFINE Same == UNCHANGED <<seen, gone, lines, buffers, shown>>
<1>1. ASSUME Same PROVE ShownInv'
  BY <1>1 DEF ShownInv
<1>2. ASSUME NEW r \in Runs, NEW t \in Tasks(r), output(r, t) PROVE ShownInv'
  <2>1. /\ \A q \in Runs \ {r} : lines'[q] = lines[q]
        /\ \A u \in Tasks(r) \ {t} : lines'[r][u] = lines[r][u]
        /\ lines'[r][t] = lines[r][t] + 1 /\ seen[r][t] = "started" /\ UNCHANGED seen
    BY <1>2, OutputStep
  <2>2. show_line(r, t)
    BY <1>2 DEF output
  <2>3. /\ \A q \in Runs \ {r} : shown'[q] = shown[q] /\ buffers'[q] = buffers[q]
        /\ \A u \in Tasks(r) \ {t} : shown'[r][u] = shown[r][u] /\ buffers'[r][u] = buffers[r][u]
        /\ \/ shown'[r][t] = IF layout(r) = "stream" THEN shown[r][t] + 1 ELSE shown[r][t]
           \/ gone'[r] = TRUE /\ shown'[r][t] = shown[r][t]
        /\ buffers'[r][t] = IF layout(r) = "grouped" THEN buffers[r][t] + 1 ELSE buffers[r][t]
        /\ \A q \in Runs \ {r} : gone'[q] = gone[q]
        /\ gone'[r] = gone[r] \/ gone'[r] = TRUE
    BY <2>2, ShowLineType
  <2>4. shown[r][t] \in Nat /\ lines[r][t] \in Nat
    BY DEF TypeOK, TaskTypeOK
  <2> QED BY <2>1, <2>3, <2>4 DEF ShownInv
<1>3. ASSUME NEW r \in Runs, NEW t \in Tasks(r), NEW event \in Ends \cup {"started"}, outcome(r, t, event)
      PROVE  ShownInv'
  <2>1. /\ \A q \in Runs \ {r} : seen'[q] = seen[q] /\ shown'[q] = shown[q]
        /\ \A u \in Tasks(r) \ {t} : seen'[r][u] = seen[r][u] /\ shown'[r][u] = shown[r][u]
        /\ seen'[r][t] = event
        /\ \/ shown'[r][t] = IF layout(r) = "plain" /\ event \in {"ok", "bad"} THEN lines[r][t]
                             ELSE IF layout(r) = "grouped" /\ event \in {"ok", "bad"} THEN buffers[r][t]
                             ELSE shown[r][t]
           \/ gone'[r] = TRUE /\ shown'[r][t] = shown[r][t]
        /\ \A q \in Runs \ {r} : gone'[q] = gone[q]
        /\ gone'[r] = gone[r] \/ gone'[r] = TRUE
        /\ UNCHANGED <<lines, buffers>>
    <3>1. Outcomes(r, t, event)
      BY <1>3, OutcomeStep
    <3> QED BY <3>1 DEF Outcomes
  <2>2. r \notin Daemon => layout(r) \in {"plain", "grouped", "stream"}
    BY DEF layout
  <2>3. lines[r][t] \in Nat
    BY DEF TypeOK, TaskTypeOK
  <2> QED BY <2>1, <2>2, <2>3 DEF ShownInv
<1>4. ASSUME NEW r \in Runs,
             create(r) \/ unlink_latest(r) \/ link_latest(r) \/ open_tasks(r) \/ finish(r) \/ finished(r)
      PROVE  ShownInv'
  BY <1>1, <1>4 DEF create, unlink_latest, link_latest, open_tasks, finish, finished, progress
<1>5. ASSUME NEW n \in victims, remove_dir(n) PROVE ShownInv'
  BY <1>1, <1>5 DEF remove_dir, progress
<1>6. CASE tick \/ sweep_at_start \/ UNCHANGED vars
  BY <1>1, <1>6 DEF tick, sweep_at_start, vars, progress
<1> QED BY <1>2, <1>3, <1>4, <1>5, <1>6 DEF Next, Over

\* Whatever fails, is swept away or runs next to it, and however early the run
\* breaks off, a run.json vouches for what was reported of its run, and the
\* terminal, unless it failed, has shown every line of a finished task: for any
\* number of runs, of which no two have one name.
THEOREM NothingLostHolds == ASSUME Apart PROVE Spec => []NothingLost
<1>1. Init => TypeOK /\ RecordInv /\ ShownInv
  BY InitType, InitRecord
<1>2. TypeOK /\ RecordInv /\ ShownInv /\ [Next]_vars => (TypeOK /\ RecordInv /\ ShownInv)'
  BY TypeStep, RecordStep, ShownStep
<1>3. TypeOK /\ RecordInv /\ ShownInv => NothingLost
  <2>1. ShownInv => LinesShown
    BY DEF ShownInv, LinesShown
  <2> QED BY <2>1, RecordCounted DEF NothingLost
<1> QED BY <1>1, <1>2, <1>3, PTL DEF Spec

-----------------------------------------------------------------------------
\* The sweep.

LEMMA BeforeOrder ==
  ASSUME NEW l \in Nat \X Nat, NEW m \in Nat \X Nat, NEW n \in Nat \X Nat
  PROVE  ~before(l, l) /\ (before(l, m) /\ before(m, n) => before(l, n))
BY DEF before

\* A set of naturals that is not empty has a least member.
LEMMA LeastNat ==
  ASSUME NEW T, T \subseteq Nat, T # {} PROVE \E i \in T : \A j \in T : i <= j
<1>1. PICK i \in T : \A j \in T : ~ (<<j, i>> \in OpToRel(<, Nat))
  BY NatLessThanWellFounded, WFMin, Zenon
<1>2. \A j \in T : ~ (j < i)
  BY <1>1 DEF OpToRel
<1> QED BY <1>2

\* What prune leaves is enough: a name with Keep newer ones has Keep newer ones
\* among those that are kept.
LEMMA KeptAreEnough ==
  ASSUME NEW S, S \subseteq Nat \X Nat, IsFiniteSet(S), NEW K \in Nat,
         NEW V, V = {m \in S : Cardinality(newer(m, S)) >= K},
         NEW n \in V
  PROVE  Cardinality(newer(n, S \ V)) >= K
<1> DEFINE C == {m \in V : m = n \/ before(n, m)}
           T == {Cardinality(newer(m, S)) : m \in C}
<1>1. \A m \in S : IsFiniteSet(newer(m, S)) /\ Cardinality(newer(m, S)) \in Nat
  <2> TAKE m \in S
  <2>1. newer(m, S) \in SUBSET S
    BY DEF newer
  <2> QED BY <2>1, FS_Subset, FS_CardinalityType
<1>2. T \subseteq Nat /\ T # {}
  <2>1. n \in C
    OBVIOUS
  <2> QED BY <1>1, <2>1
<1>3. PICK i \in T : \A j \in T : i <= j
  <2> HIDE DEF T
  <2> QED BY <1>2, LeastNat
<1>4. PICK m \in C : i = Cardinality(newer(m, S))
  BY <1>3
<1>5. newer(m, S) \subseteq newer(n, S \ V)
  <2> SUFFICES ASSUME NEW x \in newer(m, S) PROVE x \in S \ V /\ before(n, x)
    BY DEF newer
  <2>0. x \in S /\ before(m, x) /\ m \in S /\ n \in S
    BY DEF newer
  <2>1. before(n, x)
    BY <2>0, BeforeOrder
  <2>2. ASSUME x \in V PROVE FALSE
    <3>1. Cardinality(newer(x, S)) \in T
      BY <2>1, <2>2
    <3>2. newer(x, S) \subseteq newer(m, S) /\ newer(x, S) # newer(m, S)
      <4>1. ASSUME NEW y \in newer(x, S) PROVE y \in newer(m, S)
        <5>1. y \in S /\ before(x, y)
          BY DEF newer
        <5>2. before(m, y)
          BY <2>0, <5>1, BeforeOrder
        <5> QED BY <5>1, <5>2 DEF newer
      <4>2. x \notin newer(x, S)
        BY <2>0, BeforeOrder DEF newer
      <4> QED BY <4>1, <4>2
    <3>3. Cardinality(newer(x, S)) <= Cardinality(newer(m, S))
          /\ Cardinality(newer(x, S)) # Cardinality(newer(m, S))
      BY <1>1, <2>0, <3>2, FS_Subset
    <3>4. Cardinality(newer(m, S)) <= Cardinality(newer(x, S))
      BY <1>3, <1>4, <3>1
    <3> QED BY <1>1, <2>0, <3>3, <3>4
  <2> QED BY <2>0, <2>1, <2>2
<1>6. IsFiniteSet(newer(n, S \ V))
  <2>1. newer(n, S \ V) \in SUBSET S
    BY DEF newer
  <2> QED BY <2>1, FS_Subset
<1>7. Cardinality(newer(m, S)) <= Cardinality(newer(n, S \ V))
  BY <1>5, <1>6, FS_Subset
<1> QED BY <1>1, <1>6, <1>7, FS_CardinalityType

\* What a sweep has still to remove: runs, each with Keep newer ones that it
\* will not remove.
SweepInv ==
  /\ IsFiniteSet(dirs)
  /\ \A n \in victims : is_run_name(n) /\ Cardinality(newer(n, run_names \ victims)) >= Keep
  /\ Keep = 0 => victims = {}

LEMMA InitSweep == Init => SweepInv
BY RunLogAssumption DEF Init, SweepInv

\* What a sweep chooses.
LEMMA PruneChooses ==
  ASSUME TypeOK, IsFiniteSet(dirs), victims' = prune, dirs' = dirs PROVE SweepInv'
<1>1. run_names \subseteq Nat \X Nat /\ IsFiniteSet(run_names)
  <2>1. run_names \in SUBSET dirs
    BY DEF run_names
  <2> QED BY <2>1, FS_Subset DEF TypeOK, PathTypeOK
<1>2. CASE Keep = 0
  BY <1>2 DEF prune, SweepInv
<1>3. CASE Keep # 0
  <2>1. prune = {n \in run_names : Cardinality(newer(n, run_names)) >= Keep}
    BY <1>3 DEF prune
  <2>2. \A n \in prune : Cardinality(newer(n, run_names \ prune)) >= Keep
    BY <1>1, <2>1, KeptAreEnough, RunLogAssumption
  <2>3. \A n \in prune : is_run_name(n)
    BY <2>1 DEF run_names
  <2>4. run_names' = run_names
    BY DEF run_names
  <2> QED BY <1>3, <2>2, <2>3, <2>4 DEF SweepInv
<1> QED BY <1>2, <1>3

\* More kept names never make a victim one that should be kept.
LEMMA MoreKept ==
  ASSUME TypeOK, SweepInv, IsFiniteSet(dirs'), victims' \subseteq victims,
         run_names \ victims \subseteq (run_names \ victims)'
  PROVE  SweepInv'
<1>1. ASSUME NEW n \in victims' PROVE Cardinality(newer(n, (run_names \ victims)')) >= Keep
  <2>1. newer(n, run_names \ victims) \subseteq newer(n, (run_names \ victims)')
    BY DEF newer
  <2>2. newer(n, (run_names \ victims)') \in SUBSET dirs'
    BY DEF newer, run_names
  <2>3. IsFiniteSet(newer(n, (run_names \ victims)')) /\ Cardinality(newer(n, (run_names \ victims)')) \in Nat
    BY <2>2, FS_Subset, FS_CardinalityType
  <2>4. /\ Cardinality(newer(n, run_names \ victims)) <= Cardinality(newer(n, (run_names \ victims)'))
        /\ IsFiniteSet(newer(n, run_names \ victims))
    BY <2>1, <2>3, FS_Subset
  <2>5. Cardinality(newer(n, run_names \ victims)) >= Keep
    BY DEF SweepInv
  <2> QED BY <2>3, <2>4, <2>5, FS_CardinalityType, RunLogAssumption
<1> QED BY <1>1 DEF SweepInv, newer

LEMMA SweepStep ==
  ASSUME TypeOK, SweepInv, [Next]_vars PROVE SweepInv'
<1>1. CASE sweep_at_start
  BY <1>1, PruneChooses DEF sweep_at_start, paths, SweepInv
<1>2. ASSUME NEW r \in Runs, finished(r) PROVE SweepInv'
  BY <1>2, PruneChooses DEF finished, paths, SweepInv
<1>3. ASSUME NEW r \in Runs, create(r) PROVE SweepInv'
  <2>1. IsFiniteSet(dirs') /\ victims' = victims /\ dirs \subseteq dirs'
    BY <1>3, FS_AddElement DEF create, SweepInv
  <2> QED BY <2>1, MoreKept DEF run_names
<1>4. ASSUME NEW n \in victims, remove_dir(n) PROVE SweepInv'
  <2>1. IsFiniteSet(dirs') /\ victims' = victims \ {n} /\ dirs' \in {dirs, dirs \ {n}}
    BY <1>4, FS_RemoveElement DEF remove_dir, SweepInv
  <2> QED BY <2>1, MoreKept DEF run_names
<1>5. CASE UNCHANGED <<dirs, victims>>
  BY <1>5, MoreKept DEF run_names, SweepInv
<1>6. CASE tick \/ UNCHANGED vars
  BY <1>5, <1>6 DEF tick, vars, paths
<1>7. ASSUME NEW r \in Runs, unlink_latest(r) \/ link_latest(r) \/ open_tasks(r) \/ finish(r) PROVE SweepInv'
  BY <1>5, <1>7 DEF unlink_latest, link_latest, open_tasks, finish, paths
<1>8. ASSUME NEW r \in Runs, NEW t \in Tasks(r),
             output(r, t) \/ \E event \in Ends \cup {"started"} : outcome(r, t, event)
      PROVE  SweepInv'
  BY <1>5, <1>8 DEF output, outcome, paths
<1> QED BY <1>1, <1>2, <1>3, <1>4, <1>6, <1>7, <1>8 DEF Next, Over

\* Only a sweep removes directories, one at a time.
LEMMA OnlySweepRemoves ==
  ASSUME [Next]_vars, NEW n \in dirs \ dirs' PROVE n \in victims
BY DEF Next, Over, vars, paths, tick, sweep_at_start, create, unlink_latest, link_latest, open_tasks,
       output, outcome, finish, finished, remove_dir

\* A sweep removes a run only while Keep newer ones are there, whatever starts
\* or is swept between its look at the directory and the removal, and never
\* anything that is not a run: for any --keep-runs and any number of runs.
THEOREM NewestKeptHolds == Spec => NewestKept
<1>1. Init => TypeOK /\ SweepInv
  BY InitType, InitSweep
<1>2. TypeOK /\ SweepInv /\ [Next]_vars => (TypeOK /\ SweepInv)'
  BY TypeStep, SweepStep
<1>3. TypeOK /\ SweepInv /\ [Next]_vars =>
        [\A n \in dirs \ dirs' : is_run_name(n) /\ Cardinality(newer(n, run_names)) >= Keep]_vars
  <2> SUFFICES ASSUME TypeOK, SweepInv, [Next]_vars, NEW n \in dirs \ dirs'
               PROVE  is_run_name(n) /\ Cardinality(newer(n, run_names)) >= Keep
    OBVIOUS
  <2>1. n \in victims
    BY OnlySweepRemoves
  <2>2. is_run_name(n) /\ Cardinality(newer(n, run_names \ victims)) >= Keep
    BY <2>1 DEF SweepInv
  <2>3. newer(n, run_names \ victims) \subseteq newer(n, run_names)
    BY DEF newer
  <2>4. IsFiniteSet(newer(n, run_names))
    <3>1. newer(n, run_names) \in SUBSET dirs
      BY DEF newer, run_names
    <3> QED BY <3>1, FS_Subset DEF SweepInv
  <2>5. /\ Cardinality(newer(n, run_names \ victims)) <= Cardinality(newer(n, run_names))
        /\ IsFiniteSet(newer(n, run_names \ victims))
    BY <2>3, <2>4, FS_Subset
  <2> QED BY <2>2, <2>4, <2>5, FS_CardinalityType, RunLogAssumption
<1> QED BY <1>1, <1>2, <1>3, PTL DEF Spec, NewestKept

-----------------------------------------------------------------------------
\* The link to the newest run.

\* n is there, and neither a directory nor a run is newer.
Newest(n) == /\ n \in dirs
             /\ \A m \in run_names : ~before(n, m)
             /\ \A r \in Runs : ~before(n, name[r])

\* Nothing lies in the future, and where a run has been swept a newer one is.
TimeInv ==
  /\ \A n \in dirs : n[1] <= clock
  /\ \A r \in Runs : name[r] # NoName => \E n \in run_names : n = name[r] \/ before(name[r], n)

\* As long as runs start one by one, the one that starts is the newest, and
\* nobody else puts up a link while it does.
AloneInv ==
  started_alone =>
    /\ \A r, q \in starting : r = q
    /\ \A r \in starting : Newest(name[r])
    /\ linking # {} => latest = NoName
    /\ starting = {} /\ latest # NoName => Newest(latest)

LEMMA InitLatest == Init => LinkStands /\ TimeInv /\ AloneInv
BY RunLogAssumption DEF Init, LinkStands, TimeInv, AloneInv, linking, starting, NoName

\* A victim is older than a run that stays.
LEMMA VictimOlder ==
  ASSUME TypeOK, SweepInv, NEW n \in victims
  PROVE  \E m \in run_names : before(n, m) /\ m # n
<1>1. Keep \in Nat \ {0}
  BY RunLogAssumption DEF SweepInv
<1>2. newer(n, run_names \ victims) # {}
  <2>1. Cardinality(newer(n, run_names \ victims)) >= Keep
    BY DEF SweepInv
  <2> QED BY <1>1, <2>1, FS_EmptySet
<1>3. PICK m \in newer(n, run_names \ victims) : TRUE
  BY <1>2
<1> QED BY <1>3 DEF newer

LEMMA PathTypes ==
  ASSUME TypeOK
  PROVE  /\ clock \in Nat /\ clock >= 2 /\ dirs \subseteq Nat \X Nat /\ name \in [Runs -> Nat \X Nat]
         /\ Pid \in [Runs -> Nat \ {0, 1}]
BY RunLogAssumption DEF TypeOK, PathTypeOK

LEMMA TimeStep ==
  ASSUME TypeOK, NameInv, SweepInv, TimeInv, [Next]_vars PROVE TimeInv'
<1>0. /\ clock \in Nat /\ clock >= 2 /\ dirs \subseteq Nat \X Nat /\ name \in [Runs -> Nat \X Nat]
      /\ Pid \in [Runs -> Nat \ {0, 1}]
  BY PathTypes
<1>1. CASE tick
  BY <1>0, <1>1 DEF tick, paths, TimeInv, run_names
<1>2. ASSUME NEW r \in Runs, create(r) PROVE TimeInv'
  <2>1. CASE UNCHANGED <<name, dirs>>
    BY <1>2, <2>1 DEF create, TimeInv, run_names
  <2>2. CASE name' = [name EXCEPT ![r] = run_id(r)] /\ dirs' = dirs \cup {run_id(r)}
    <3>1. run_id(r)[1] = clock /\ is_run_name(run_id(r)) /\ clock' = clock
      BY <1>0, <1>2 DEF run_id, is_run_name, create
    <3>2. name'[r] = run_id(r) /\ \A q \in Runs \ {r} : name'[q] = name[q]
      BY <1>0, <2>2
    <3>3. run_names \subseteq run_names' /\ run_id(r) \in run_names'
      BY <2>2, <3>1 DEF run_names
    <3>4. \A n \in dirs' : n[1] <= clock'
      BY <1>0, <2>2, <3>1 DEF TimeInv
    <3>5. \A q \in Runs : name'[q] # NoName => \E n \in run_names' : n = name'[q] \/ before(name'[q], n)
      BY <3>2, <3>3 DEF TimeInv
    <3> QED BY <3>4, <3>5 DEF TimeInv
  <2> QED BY <1>2, <2>1, <2>2 DEF create
<1>3. ASSUME NEW v \in victims, remove_dir(v) PROVE TimeInv'
  <2>1. UNCHANGED <<clock, name>> /\ dirs' \in {dirs, dirs \ {v}}
    BY <1>3 DEF remove_dir
  <2>2. PICK m \in run_names : before(v, m) /\ m # v
    BY VictimOlder
  <2>3. m \in run_names' /\ run_names \ {v} \subseteq run_names'
    BY <2>1, <2>2 DEF run_names
  <2>4. ASSUME NEW r \in Runs, name[r] # NoName
        PROVE  \E n \in run_names' : n = name[r] \/ before(name[r], n)
    <3>1. PICK n \in run_names : n = name[r] \/ before(name[r], n)
      BY <2>4 DEF TimeInv
    <3>2. CASE n # v
      BY <2>3, <3>1, <3>2
    <3>3. CASE n = v
      <4>1. name[r] = v \/ before(name[r], v)
        BY <3>1, <3>3
      <4>2. v \in Nat \X Nat /\ m \in Nat \X Nat /\ name[r] \in Nat \X Nat
        BY <1>0, <3>3 DEF run_names
      <4>3. before(name[r], m)
        BY <2>2, <4>1, <4>2, BeforeOrder
      <4> QED BY <2>3, <4>3
    <3> QED BY <3>2, <3>3
  <2> QED BY <1>0, <2>1, <2>4 DEF TimeInv
<1>4. CASE UNCHANGED <<clock, name, dirs>>
  BY <1>4 DEF TimeInv, run_names
<1>5. CASE sweep_at_start \/ UNCHANGED vars
  BY <1>4, <1>5 DEF sweep_at_start, vars, paths
<1>6. ASSUME NEW r \in Runs, unlink_latest(r) \/ link_latest(r) \/ open_tasks(r) \/ finish(r) \/ finished(r)
      PROVE  TimeInv'
  BY <1>4, <1>6 DEF unlink_latest, link_latest, open_tasks, finish, finished, paths
<1>7. ASSUME NEW r \in Runs, NEW t \in Tasks(r),
             output(r, t) \/ \E event \in Ends \cup {"started"} : outcome(r, t, event)
      PROVE  TimeInv'
  BY <1>4, <1>7 DEF output, outcome, paths
<1> QED BY <1>1, <1>2, <1>3, <1>5, <1>6, <1>7 DEF Next, Over

\* A run that starts alone is the newest.
LEMMA CreatedNewest ==
  ASSUME TypeOK, NameInv, TimeInv, NEW r \in Runs, create(r),
         name' = [name EXCEPT ![r] = run_id(r)], dirs' = dirs \cup {run_id(r)},
         \A n \in dirs : n[1] # clock
  PROVE  Newest(name[r])'
<1>0. /\ clock \in Nat /\ clock >= 2 /\ dirs \subseteq Nat \X Nat /\ name \in [Runs -> Nat \X Nat]
      /\ Pid \in [Runs -> Nat \ {0, 1}]
  BY PathTypes
<1>1. name'[r] = run_id(r) /\ \A q \in Runs \ {r} : name'[q] = name[q]
  BY <1>0
<1>2. run_id(r) \in Nat \X Nat /\ run_id(r)[1] = clock
  BY <1>0 DEF run_id
<1>3. \A n \in dirs : n[1] < clock
  BY <1>0 DEF TimeInv
<1>4. ~before(run_id(r), run_id(r))
  BY <1>2, BeforeOrder
<1>5. ASSUME NEW m \in run_names' PROVE ~before(run_id(r), m)
  <2>1. CASE m \in dirs
    BY <1>0, <1>2, <1>3, <2>1 DEF before
  <2>2. CASE m = run_id(r)
    BY <1>4, <2>2
  <2> QED BY <2>1, <2>2 DEF run_names
<1>6. ASSUME NEW q \in Runs PROVE ~before(run_id(r), name'[q])
  <2>1. CASE q = r
    BY <1>1, <1>4, <2>1
  <2>2. CASE q # r /\ name[q] = NoName
    <3>1. name'[q] = <<0, 0>>
      BY <1>1, <2>2 DEF NoName
    <3> QED BY <1>0, <1>2, <3>1 DEF before
  <2>3. CASE q # r /\ name[q] # NoName
    <3>1. PICK n \in run_names : n = name[q] \/ before(name[q], n)
      BY <2>3 DEF TimeInv
    <3>2. n \in Nat \X Nat /\ n[1] < clock /\ name[q] \in Nat \X Nat
      BY <1>0, <1>3 DEF run_names
    <3>3. name[q][1] < clock
      BY <1>0, <3>1, <3>2 DEF before
    <3> QED BY <1>0, <1>1, <1>2, <2>3, <3>2, <3>3 DEF before
  <2> QED BY <2>1, <2>2, <2>3
<1> QED BY <1>1, <1>5, <1>6 DEF Newest

LEMMA AloneStep ==
  ASSUME TypeOK, NameInv, SweepInv, TimeInv, AloneInv, [Next]_vars PROVE AloneInv'
<1>0. pc \in [Runs -> {"off", "unlink_latest", "link_latest", "open_tasks", "run", "ended", "over"}]
  BY DEF TypeOK, PathTypeOK
<1> DEFINE Same == /\ UNCHANGED <<dirs, name, latest, started_alone>>
                   /\ \A r \in Runs : pc[r] \in {"unlink_latest", "link_latest"} \/ pc'[r] \in {"unlink_latest", "link_latest"}
                                        => pc'[r] = pc[r]
<1>1. ASSUME Same PROVE AloneInv'
  <2>1. starting' = starting /\ linking' = linking
    BY <1>1 DEF starting, linking
  <2>2. \A n : Newest(n)' <=> Newest(n)
    BY <1>1 DEF Newest, run_names
  <2> QED BY <1>1, <2>1, <2>2 DEF AloneInv
<1>2. ASSUME NEW r \in Runs, create(r) PROVE AloneInv'
  <2>1. CASE UNCHANGED <<name, dirs, started_alone>> /\ goto(r, "run")
    BY <1>0, <1>1, <1>2, <2>1 DEF create, goto
  <2>2. CASE /\ name' = [name EXCEPT ![r] = run_id(r)] /\ dirs' = dirs \cup {run_id(r)}
             /\ started_alone' = (started_alone /\ starting = {} /\ \A n \in dirs : n[1] # clock)
             /\ goto(r, "unlink_latest")
    <3> SUFFICES ASSUME started_alone'
                 PROVE  /\ \A p, q \in starting' : p = q
                        /\ \A q \in starting' : Newest(name[q])'
                        /\ linking' # {} => latest' = NoName
                        /\ starting' = {} /\ latest' # NoName => Newest(latest)'
      BY DEF AloneInv
    <3>1. starting = {} /\ \A n \in dirs : n[1] # clock
      BY <2>2
    <3>2. starting' = {r} /\ linking' = {}
      BY <1>0, <2>2, <3>1 DEF goto, starting, linking
    <3>3. Newest(name[r])'
      BY <1>2, <2>2, <3>1, CreatedNewest
    <3> QED BY <3>2, <3>3
  <2> QED BY <1>2, <2>1, <2>2 DEF create
<1>3. ASSUME NEW r \in Runs, unlink_latest(r) PROVE AloneInv'
  <2>1. starting' = starting /\ r \in starting
    BY <1>0, <1>3 DEF unlink_latest, goto, starting, linking
  <2>2. \A q \in Runs : Newest(name[q])' <=> Newest(name[q])
    BY <1>3 DEF unlink_latest, Newest, run_names
  <2>3. latest' = NoName /\ started_alone' = started_alone
    BY <1>3 DEF unlink_latest
  <2>4. starting \subseteq Runs
    BY DEF starting, linking
  <2> QED BY <2>1, <2>2, <2>3, <2>4 DEF AloneInv
<1>4. ASSUME NEW r \in Runs, link_latest(r) PROVE AloneInv'
  <2> SUFFICES ASSUME started_alone'
               PROVE  /\ \A p, q \in starting' : p = q
                      /\ \A q \in starting' : Newest(name[q])'
                      /\ linking' # {} => latest' = NoName
                      /\ starting' = {} /\ latest' # NoName => Newest(latest)'
    BY DEF AloneInv
  <2>1. r \in linking /\ r \in starting /\ started_alone /\ UNCHANGED <<dirs, name>>
    BY <1>4 DEF link_latest, linking, starting
  <2>2. starting' = starting \ {r} /\ linking' \subseteq starting'
    BY <1>0, <1>4 DEF link_latest, goto, starting, linking
  <2>3. starting' = {}
    BY <2>1, <2>2 DEF AloneInv
  <2>4. latest' = name[r] /\ Newest(name[r])
    BY <1>4, <2>1 DEF AloneInv, link_latest
  <2>5. Newest(latest)'
    BY <2>1, <2>4 DEF Newest, run_names
  <2> QED BY <2>2, <2>3, <2>5
<1>5. ASSUME NEW v \in victims, remove_dir(v) PROVE AloneInv'
  <2>1. UNCHANGED <<name, pc, latest, started_alone>> /\ dirs' \in {dirs, dirs \ {v}}
    BY <1>5 DEF remove_dir
  <2>2. \E m \in run_names : before(v, m)
    BY VictimOlder
  <2>3. \A n : Newest(n) => Newest(n)'
    BY <2>1, <2>2 DEF Newest, run_names
  <2>4. starting' = starting /\ linking' = linking
    BY <2>1 DEF starting, linking
  <2> QED BY <2>1, <2>3, <2>4 DEF AloneInv
<1>6. CASE tick \/ sweep_at_start \/ UNCHANGED vars
  BY <1>1, <1>6 DEF tick, sweep_at_start, vars, paths
<1>7. ASSUME NEW r \in Runs, open_tasks(r) \/ finish(r) \/ finished(r) PROVE AloneInv'
  BY <1>0, <1>1, <1>7 DEF open_tasks, finish, finished, goto, paths
<1>8. ASSUME NEW r \in Runs, NEW t \in Tasks(r),
             output(r, t) \/ \E event \in Ends \cup {"started"} : outcome(r, t, event)
      PROVE  AloneInv'
  BY <1>1, <1>8 DEF output, outcome, paths
<1> QED BY <1>2, <1>3, <1>4, <1>5, <1>6, <1>7, <1>8 DEF Next, Over

LEMMA LinkStep ==
  ASSUME TypeOK, NameInv, LinkStands, [Next]_vars PROVE LinkStands'
<1>0. /\ pc \in [Runs -> {"off", "unlink_latest", "link_latest", "open_tasks", "run", "ended", "over"}]
      /\ name \in [Runs -> Nat \X Nat]
  BY DEF TypeOK, PathTypeOK
<1> DEFINE Past == {"open_tasks", "run", "ended", "over"}
           Same == /\ UNCHANGED latest
                   /\ \A r \in Runs : /\ pc[r] = "link_latest" <=> pc'[r] = "link_latest"
                                      /\ name'[r] # NoName /\ pc'[r] \in Past => name[r] # NoName /\ pc[r] \in Past
<1>1. ASSUME Same PROVE LinkStands'
  BY <1>1 DEF LinkStands, linking
<1>2. ASSUME NEW r \in Runs, create(r) PROVE LinkStands'
  <2>1. pc[r] = "off" /\ name[r] = NoName /\ latest' = latest
    BY <1>2 DEF create, NameInv
  <2> QED BY <1>0, <1>1, <1>2, <2>1 DEF create, goto
<1>3. ASSUME NEW r \in Runs, unlink_latest(r) PROVE LinkStands'
  <2>1. r \in linking'
    BY <1>0, <1>3 DEF unlink_latest, goto, linking
  <2> QED BY <2>1 DEF LinkStands
<1>4. ASSUME NEW r \in Runs, link_latest(r) PROVE LinkStands'
  BY <1>4 DEF link_latest, NameInv, LinkStands, Before
<1>5. ASSUME NEW v \in victims, remove_dir(v) PROVE LinkStands'
  BY <1>1, <1>5 DEF remove_dir
<1>6. CASE tick \/ sweep_at_start \/ UNCHANGED vars
  BY <1>1, <1>6 DEF tick, sweep_at_start, vars, paths
<1>7. ASSUME NEW r \in Runs, open_tasks(r) \/ finish(r) \/ finished(r) PROVE LinkStands'
  BY <1>0, <1>1, <1>7 DEF open_tasks, finish, finished, goto, paths
<1>8. ASSUME NEW r \in Runs, NEW t \in Tasks(r),
             output(r, t) \/ \E event \in Ends \cup {"started"} : outcome(r, t, event)
      PROVE  LinkStands'
  BY <1>1, <1>8 DEF output, outcome, paths
<1> QED BY <1>2, <1>3, <1>4, <1>5, <1>6, <1>7, <1>8 DEF Next, Over

\* `latest` is there whenever nobody is putting it up, and leads to the newest
\* run, which no sweep takes, as long as runs start one by one: for any number
\* of runs and any --keep-runs.
THEOREM LatestKeptHolds == Spec => []LatestKept
<1> DEFINE Inv == TypeOK /\ NameInv /\ SweepInv /\ TimeInv /\ AloneInv /\ LinkStands
<1>1. Init => Inv
  BY InitType, InitRecord, InitSweep, InitLatest DEF RecordInv
<1>2. Inv /\ [Next]_vars => Inv'
  BY TypeStep, NameStep, SweepStep, TimeStep, AloneStep, LinkStep
<1>3. Inv => LatestKept
  BY DEF AloneInv, Newest, LatestKept, LatestIsNewest
<1> QED BY <1>1, <1>2, <1>3, PTL DEF Spec
=============================================================================
