------------------------------ MODULE Workflow ------------------------------
(***************************************************************************)
(* Workflow::try_from (crates/beez-core/src/workflow.rs): which task       *)
(* definitions make a workflow. It looks for duplicate IDs, for unknown    *)
(* and self dependencies, for a cycle (a depth-first search that reports   *)
(* the first one it meets), and for output references that no direct       *)
(* dependency answers, in this order, and stops at the first error.        *)
(*                                                                         *)
(* The search is a state machine: `trail` is the call stack of `visit`,    *)
(* and next[t] the dependency of t that its loop is at.                    *)
(*                                                                         *)
(* A definition whose comment starts with "Mutant" is no part of the       *)
(* model: it is a mistake the definition after it could have, and shows    *)
(* that a property would notice.                                           *)
(***************************************************************************)
EXTENDS Integers, Sequences, FiniteSets, SequencesExt

CONSTANT
  Bad          \* a placeholder that names no task output

VARIABLES
  definitions, \* [id, depends_on, texts] for each task; a text of a request is
               \* the list of the IDs whose output it names
  pc,
  states,      \* states[t]: Visit
  trail,       \* the tasks being visited, outermost first
  next,
  root,        \* the position validate_acyclic is at
  error        \* what try_from answers: NoError for a workflow

vars == <<definitions, pc, states, trail, next, root, error>>

Tasks == DOMAIN definitions
id(t) == definitions[t].id
IdSet == {id(t) : t \in Tasks}

NoError == [kind |-> "none", tasks |-> <<>>]
Error(kind, tasks) == [kind |-> kind, tasks |-> tasks]

\* The first of a list of answers that is not `none`, or `none`.
first_but(none, answers) ==
  LET wrong == {i \in DOMAIN answers : answers[i] # none}
  IN  IF wrong = {} THEN none ELSE answers[CHOOSE i \in wrong : \A j \in wrong : i <= j]
first_error(answers) == first_but(NoError, answers)

-----------------------------------------------------------------------------
\* The checks that need no search.

\* task_indexes.
duplicates ==
  first_error([t \in Tasks |->
    IF \E u \in 1..(t - 1) : id(u) = id(t) THEN Error("DuplicateTask", <<id(t)>>) ELSE NoError])

index(name) == CHOOSE t \in Tasks : id(t) = name
dependencies(t) ==
  [k \in DOMAIN definitions[t].depends_on |-> index(definitions[t].depends_on[k])]

\* resolve_dependencies, for the dependency named `name` of task t.
resolve_dependency(t, name) ==
  IF name \notin IdSet THEN Error("UnknownDependency", <<id(t), name>>)
  ELSE IF name = id(t) THEN Error("SelfDependency", <<name>>)
  ELSE NoError

resolve_all_dependencies ==
  first_error([t \in Tasks |-> first_error([k \in DOMAIN definitions[t].depends_on |->
    resolve_dependency(t, definitions[t].depends_on[k])])])

\* resolve_output_sources, for one reference of task t.
resolve_reference(t, name) ==
  IF name = id(t) THEN Error("SelfOutput", <<name>>)
  ELSE IF name \notin IdSet THEN Error("OutputOfUnknownTask", <<id(t), name>>)
  ELSE IF name \notin Range(definitions[t].depends_on)
       THEN Error("OutputWithoutDependency", <<id(t), name>>)
  ELSE NoError

\* A text is parsed as a whole before its references are looked at.
resolve_text(t, text) ==
  IF Bad \in Range(text) THEN Error("InvalidTemplate", <<id(t)>>)
  ELSE first_error([k \in DOMAIN text |-> resolve_reference(t, text[k])])

resolve_output_sources ==
  first_error([t \in Tasks |-> first_error([k \in DOMAIN definitions[t].texts |->
    resolve_text(t, definitions[t].texts[k])])])

-----------------------------------------------------------------------------
\* try_from.

Init ==
  /\ definitions = <<>> /\ pc = "off" /\ error = NoError
  /\ states = <<>> /\ next = <<>> /\ trail = <<>> /\ root = 1

\* try_from is called.
begin(list) ==
  /\ pc = "off" /\ pc' = "start" /\ definitions' = list
  /\ states' = [t \in DOMAIN list |-> "Unseen"] /\ next' = [t \in DOMAIN list |-> 1]
  /\ UNCHANGED <<trail, root, error>>

\* The checks before the search.
start ==
  /\ pc = "start"
  /\ LET found == IF definitions = <<>> THEN Error("Empty", <<>>)
                  ELSE IF duplicates # NoError THEN duplicates
                  ELSE resolve_all_dependencies
     IN  /\ pc' = IF found = NoError THEN "visit" ELSE "done"
         /\ error' = found
  /\ UNCHANGED <<definitions, states, trail, next, root>>

\* `visit` is called for t: what it does before its loop.
enter(t) ==
  /\ states' = [states EXCEPT ![t] = "Visiting"]
  /\ trail' = Append(trail, t)

\* Mutant: the cycle is reported from the start of the trail.
visit_whole_trail(t) ==
  \/ /\ states[t] = "Complete"
     /\ UNCHANGED <<states, trail, pc, error>>
  \/ /\ states[t] = "Visiting"
     /\ LET cycle == trail \o <<t>>
        IN  error' = Error("Cycle", [k \in DOMAIN cycle |-> id(cycle[k])])
     /\ pc' = "done" /\ UNCHANGED <<states, trail>>
  \/ /\ states[t] = "Unseen"
     /\ enter(t)
     /\ UNCHANGED <<pc, error>>

\* A call of `visit` for t: a complete task returns at once, one that is being
\* visited closes a cycle, any other is entered.
visit(t) ==
  \/ /\ states[t] = "Complete"
     /\ UNCHANGED <<states, trail, pc, error>>
  \/ /\ states[t] = "Visiting"
     /\ LET first == CHOOSE k \in DOMAIN trail : trail[k] = t /\ \A m \in 1..(k - 1) : trail[m] # t
            cycle == SubSeq(trail, first, Len(trail)) \o <<t>>
        IN  error' = Error("Cycle", [k \in DOMAIN cycle |-> id(cycle[k])])
     /\ pc' = "done" /\ UNCHANGED <<states, trail>>
  \/ /\ states[t] = "Unseen"
     /\ enter(t)
     /\ UNCHANGED <<pc, error>>

\* validate_acyclic calls `visit` for the next position.
visit_root ==
  /\ pc = "visit" /\ trail = <<>> /\ root \in Tasks
  /\ visit(root) /\ root' = root + 1
  /\ UNCHANGED <<definitions, next>>

\* The loop of `visit` goes on to the next dependency.
visit_dependency ==
  /\ pc = "visit" /\ trail # <<>>
  /\ LET t == Last(trail)
     IN  /\ next[t] \in DOMAIN dependencies(t)
         /\ visit(dependencies(t)[next[t]])
         /\ next' = [next EXCEPT ![t] = @ + 1]
  /\ UNCHANGED <<definitions, root>>

\* The loop of `visit` is done.
leave ==
  /\ pc = "visit" /\ trail # <<>>
  /\ next[Last(trail)] \notin DOMAIN dependencies(Last(trail))
  /\ states' = [states EXCEPT ![Last(trail)] = "Complete"]
  /\ trail' = Front(trail)
  /\ UNCHANGED <<definitions, pc, next, root, error>>

\* No cycle: the output references, and then the workflow is there.
finish ==
  /\ pc = "visit" /\ trail = <<>> /\ root \notin Tasks
  /\ pc' = "done"
  /\ error' = resolve_output_sources
  /\ UNCHANGED <<definitions, states, trail, next, root>>

try_from == start \/ visit_root \/ visit_dependency \/ leave \/ finish

-----------------------------------------------------------------------------
\* Properties.

TypeOK ==
  /\ pc \in {"off", "start", "visit", "done"} /\ root \in 1..(Len(definitions) + 1)
  /\ states \in [Tasks -> {"Unseen", "Visiting", "Complete"}]
  /\ trail \in Seq(Tasks) /\ DOMAIN next = Tasks
  /\ \A t \in Tasks : next[t] \in 1..(Len(definitions[t].depends_on) + 1)
  /\ error.kind \in {"none", "Empty", "DuplicateTask", "UnknownDependency",
       "SelfDependency", "Cycle", "InvalidTemplate", "SelfOutput",
       "OutputOfUnknownTask", "OutputWithoutDependency"}

\* The stack holds the tasks being visited, each once, each a dependency of
\* the one below it, and a visited task has only visited dependencies.
SearchInOrder ==
  pc = "visit" =>
    /\ IsInjective(trail) /\ Range(trail) = {t \in Tasks : states[t] = "Visiting"}
    /\ \A k \in 1..(Len(trail) - 1) : trail[k + 1] \in Range(dependencies(trail[k]))
    /\ \A t \in Tasks : states[t] = "Complete" =>
         \A d \in Range(dependencies(t)) : states[d] = "Complete"

\* What module Runner assumes of a workflow: IDs and dependencies that mean
\* one task each, no cycle (every group of tasks has one that depends on none
\* of them), and outputs of direct dependencies only.
WellFormed ==
  /\ Tasks # {} /\ Cardinality(IdSet) = Cardinality(Tasks)
  /\ \A t \in Tasks : Range(definitions[t].depends_on) \subseteq IdSet
  /\ \A S \in SUBSET Tasks : S # {} =>
       \E t \in S : \A u \in S : id(u) \notin Range(definitions[t].depends_on)
  /\ \A t \in Tasks : \A k \in DOMAIN definitions[t].texts :
       Range(definitions[t].texts[k]) \subseteq Range(definitions[t].depends_on)

\* "A validated, acyclic collection of workflow tasks": try_from accepts
\* exactly the well-formed definitions.
AcceptsWellFormed == pc = "done" => (error = NoError <=> WellFormed)

\* WorkflowError::Cycle: "A dependency cycle, with the first ID repeated last":
\* the reported tasks are a cycle, each of them once.
CycleIsReal ==
  error.kind = "Cycle" =>
    LET cycle == error.tasks
    IN  /\ Len(cycle) > 2 /\ cycle[1] = Last(cycle) /\ IsInjective(Front(cycle))
        /\ \A k \in 1..(Len(cycle) - 1) :
             cycle[k + 1] \in Range(definitions[index(cycle[k])].depends_on)

\* The verdict of try_from is right, and so is every step towards it.
ValidationSound == SearchInOrder /\ AcceptsWellFormed /\ CycleIsReal
=============================================================================
