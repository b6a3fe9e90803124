----------------------------- MODULE Execution -----------------------------
(***************************************************************************)
(* What a workflow promises to whoever follows its events (RunEvent of     *)
(* crates/beez-runner): a task is said to start only after every task it   *)
(* depends on was said to have passed, it is said to end once, and it is   *)
(* said to be blocked only when nothing runs and nothing can start any     *)
(* more. There are no threads, no channel, no waves and no record of task  *)
(* statuses here: how the runner keeps the promise is Runner's business.   *)
(***************************************************************************)
EXTENDS Naturals

CONSTANTS
  N,     \* how many tasks the workflow has, in declaration order
  Deps   \* Deps[t]: the tasks that t depends on

Tasks == 1..N

VARIABLE events   \* events[t]: the last event of t that was reported

Startable(t) == events[t] = "none" /\ \A d \in Deps[t] : events[d] = "passed"

Started(t) ==
  /\ Startable(t)
  /\ events' = [events EXCEPT ![t] = "running"]

Ended(t) ==
  /\ events[t] = "running"
  /\ \E result \in {"passed", "failed"} : events' = [events EXCEPT ![t] = result]

Blocked(t) ==
  /\ events[t] = "none"
  /\ \A u \in Tasks : events[u] # "running" /\ ~Startable(u)
  /\ events' = [events EXCEPT ![t] = "blocked"]

Init == events = [t \in Tasks |-> "none"]
Next == \E t \in Tasks : Started(t) \/ Ended(t) \/ Blocked(t)
Spec == Init /\ [][Next]_events
=============================================================================
