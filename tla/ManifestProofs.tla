--------------------------- MODULE ManifestProofs ---------------------------
(***************************************************************************)
(* Theorems about Manifest: whatever the documents, Workflow::try_from     *)
(* accepts exactly the task definitions that make a workflow, and reports  *)
(* only cycles that are there.                                             *)
(***************************************************************************)
EXTENDS Manifest, FiniteSetTheorems, WellFoundedInduction, TLAPS

-----------------------------------------------------------------------------
\* Lemmas about the operators of the model.

\* A set of positions that is not empty has a first one.
LEMMA FirstPosition ==
  ASSUME NEW T, T \subseteq Nat, T # {} PROVE \E i \in T : \A j \in T : i <= j
<1>1. PICK i \in T : \A j \in T : ~ (<<j, i>> \in OpToRel(<, Nat))
  BY NatLessThanWellFounded, WFMin, Zenon
<1>2. \A j \in T : ~ (j < i)
  BY <1>1 DEF OpToRel
<1> QED BY <1>2

\* The first answer that is not `none` is `none` only if every answer is, and
\* else one of the answers.
LEMMA FirstBut ==
  ASSUME NEW none, NEW answers, DOMAIN answers \subseteq Nat
  PROVE  /\ first_but(none, answers) = none <=> \A i \in DOMAIN answers : answers[i] = none
         /\ first_but(none, answers) = none \/ \E i \in DOMAIN answers : first_but(none, answers) = answers[i]
<1> DEFINE wrong == {i \in DOMAIN answers : answers[i] # none}
           least == CHOOSE i \in wrong : \A j \in wrong : i <= j
<1>1. first_but(none, answers) = IF wrong = {} THEN none ELSE answers[least]
  BY DEF first_but
<1>2. CASE wrong = {}
  BY <1>1, <1>2
<1>3. CASE wrong # {}
  <2>1. \E i \in wrong : \A j \in wrong : i <= j
    <3>1. wrong \subseteq Nat
      OBVIOUS
    <3> HIDE DEF wrong
    <3> QED BY <1>3, <3>1, FirstPosition
  <2>2. least \in wrong
    <3> HIDE DEF wrong
    <3> QED BY <2>1
  <2>3. first_but(none, answers) = answers[least] /\ least \in DOMAIN answers /\ answers[least] # none
    <3> HIDE DEF least
    <3> QED BY <1>1, <1>3, <2>2
  <2> QED BY <2>3
<1> QED BY <1>2, <1>3

LEMMA FirstError ==
  ASSUME NEW answers, DOMAIN answers \subseteq Nat
  PROVE  /\ first_error(answers) = NoError <=> \A i \in DOMAIN answers : answers[i] = NoError
         /\ first_error(answers) = NoError \/ \E i \in DOMAIN answers : first_error(answers) = answers[i]
BY FirstBut DEF first_error

\* A vector is a function over the positions up to its length.
LEMMA VecShape ==
  ASSUME NEW s, IsVec(s)
  PROVE  Len(s) \in Nat /\ DOMAIN s = 1..Len(s) /\ DOMAIN s \subseteq Nat
BY DEF IsVec

-----------------------------------------------------------------------------
\* What a list of task definitions is like.

Shape ==
  /\ IsVec(definitions)
  /\ \A t \in Tasks : /\ id(t) # Bad /\ IsVec(definitions[t].depends_on)
                      /\ IsTexts(definitions[t].texts)
IdsOnce == \A t, u \in Tasks : id(t) = id(u) => t = u
DependenciesKnown ==
  \A t \in Tasks : \A k \in DOMAIN definitions[t].depends_on :
    definitions[t].depends_on[k] \in IdSet /\ definitions[t].depends_on[k] # id(t)
Reads ==
  \A t \in Tasks : \A k \in DOMAIN definitions[t].texts :
    Range(definitions[t].texts[k]) \subseteq Range(definitions[t].depends_on)
\* Every group of tasks has one that depends on none of them.
Acyclic(among) ==
  \A S \in SUBSET among : S # {} => \E t \in S : \A u \in S : u \notin Range(dependencies(t))

LEMMA ShapeTasks ==
  ASSUME Shape PROVE Len(definitions) \in Nat /\ Tasks = 1..Len(definitions) /\ Tasks \subseteq Nat
BY VecShape DEF Shape, Tasks

\* Every dependency is a task, and not the task itself.
LEMMA Dependency ==
  ASSUME Shape, IdsOnce, DependenciesKnown, NEW t \in Tasks, NEW k \in DOMAIN definitions[t].depends_on
  PROVE  /\ k \in DOMAIN dependencies(t) /\ dependencies(t)[k] \in Tasks /\ dependencies(t)[k] # t
         /\ id(dependencies(t)[k]) = definitions[t].depends_on[k]
<1> DEFINE name == definitions[t].depends_on[k]
<1>1. dependencies(t)[k] = index(name) /\ k \in DOMAIN dependencies(t)
  BY DEF dependencies
<1>2. \E u \in Tasks : id(u) = name
  BY DEF DependenciesKnown, IdSet
<1>3. index(name) \in Tasks /\ id(index(name)) = name
  BY <1>2 DEF index
<1>4. name # id(t)
  BY DEF DependenciesKnown
<1> QED BY <1>1, <1>3, <1>4

LEMMA IndexOfId ==
  ASSUME IdsOnce, NEW t \in Tasks PROVE index(id(t)) = t
<1>1. index(id(t)) \in Tasks /\ id(index(id(t))) = id(t)
  BY DEF index
<1> QED BY <1>1 DEF IdsOnce

\* The dependencies of a task as names, and as tasks.
LEMMA DependsOn ==
  ASSUME Shape, IdsOnce, DependenciesKnown, NEW t \in Tasks, NEW u \in Tasks
  PROVE  u \in Range(dependencies(t)) <=> id(u) \in Range(definitions[t].depends_on)
<1>1. DOMAIN dependencies(t) = DOMAIN definitions[t].depends_on
  BY DEF dependencies
<1>2. ASSUME u \in Range(dependencies(t)) PROVE id(u) \in Range(definitions[t].depends_on)
  <2>1. PICK k \in DOMAIN definitions[t].depends_on : u = dependencies(t)[k]
    BY <1>1, <1>2 DEF Range
  <2>2. id(u) = definitions[t].depends_on[k]
    BY <2>1, Dependency
  <2> QED BY <2>2 DEF Range
<1>3. ASSUME id(u) \in Range(definitions[t].depends_on) PROVE u \in Range(dependencies(t))
  <2>1. PICK k \in DOMAIN definitions[t].depends_on : id(u) = definitions[t].depends_on[k]
    BY <1>3 DEF Range
  <2>2. dependencies(t)[k] \in Tasks /\ id(dependencies(t)[k]) = id(u)
    BY <2>1, Dependency
  <2>3. dependencies(t)[k] = u
    BY <2>2 DEF IdsOnce
  <2> QED BY <1>1, <2>3 DEF Range
<1> QED BY <1>2, <1>3

\* There are as many IDs as tasks exactly if no two tasks share one.
LEMMA IdsCounted ==
  ASSUME Shape PROVE Cardinality(IdSet) = Cardinality(Tasks) <=> IdsOnce
<1> DEFINE f == [t \in Tasks |-> id(t)]
<1>1. IsFiniteSet(Tasks)
  BY ShapeTasks, FS_Interval
<1>2. f \in Surjection(Tasks, IdSet)
  BY DEF Surjection, IdSet
<1>3. Cardinality(IdSet) = Cardinality(Tasks) <=> f \in Injection(Tasks, IdSet)
  <2> HIDE DEF f
  <2> QED BY <1>1, <1>2, FS_Surjection
<1>4. f \in Injection(Tasks, IdSet) <=> IdsOnce
  BY <1>2 DEF Injection, Surjection, IdsOnce, IsInjective
<1> QED BY <1>3, <1>4

\* A workflow, in the words of the search.
LEMMA WellFormedMeans ==
  ASSUME Shape
  PROVE  WellFormed <=> Tasks # {} /\ IdsOnce /\ DependenciesKnown /\ Acyclic(Tasks) /\ Reads
<1>1. ASSUME WellFormed PROVE Tasks # {} /\ IdsOnce /\ DependenciesKnown /\ Acyclic(Tasks) /\ Reads
  <2>1. Tasks # {} /\ IdsOnce /\ Reads
    BY <1>1, IdsCounted DEF WellFormed, Reads
  <2>2. DependenciesKnown
    <3> SUFFICES ASSUME NEW t \in Tasks, NEW k \in DOMAIN definitions[t].depends_on
                 PROVE  definitions[t].depends_on[k] \in IdSet /\ definitions[t].depends_on[k] # id(t)
      BY DEF DependenciesKnown
    <3>1. definitions[t].depends_on[k] \in Range(definitions[t].depends_on)
      BY DEF Range
    <3>2. Range(definitions[t].depends_on) \subseteq IdSet
      BY <1>1 DEF WellFormed
    <3>3. {t} \in SUBSET Tasks /\ {t} # {}
      OBVIOUS
    <3>4. \E v \in {t} : \A u \in {t} : id(u) \notin Range(definitions[v].depends_on)
      BY <1>1, <3>3 DEF WellFormed
    <3>5. id(t) \notin Range(definitions[t].depends_on)
      BY <3>4
    <3> QED BY <3>1, <3>2, <3>5
  <2>3. Acyclic(Tasks)
    <3> SUFFICES ASSUME NEW S \in SUBSET Tasks, S # {}
                 PROVE  \E t \in S : \A u \in S : u \notin Range(dependencies(t))
      BY DEF Acyclic
    <3>1. PICK t \in S : \A u \in S : id(u) \notin Range(definitions[t].depends_on)
      BY <1>1 DEF WellFormed
    <3>2. \A u \in S : u \notin Range(dependencies(t))
      BY <2>1, <2>2, <3>1, DependsOn
    <3> QED BY <3>2
  <2> QED BY <2>1, <2>2, <2>3
<1>2. ASSUME Tasks # {}, IdsOnce, DependenciesKnown, Acyclic(Tasks), Reads PROVE WellFormed
  <2>1. Cardinality(IdSet) = Cardinality(Tasks)
    BY <1>2, IdsCounted
  <2>2. \A t \in Tasks : Range(definitions[t].depends_on) \subseteq IdSet
    BY <1>2 DEF DependenciesKnown, Range
  <2>3. ASSUME NEW S \in SUBSET Tasks, S # {}
        PROVE  \E t \in S : \A u \in S : id(u) \notin Range(definitions[t].depends_on)
    <3>1. PICK t \in S : \A u \in S : u \notin Range(dependencies(t))
      BY <1>2, <2>3 DEF Acyclic
    <3>2. \A u \in S : id(u) \notin Range(definitions[t].depends_on)
      BY <1>2, <3>1, DependsOn
    <3> QED BY <3>2
  <2> QED BY <1>2, <2>1, <2>2, <2>3 DEF WellFormed, Reads
<1> QED BY <1>1, <1>2

-----------------------------------------------------------------------------
\* What the checks before and after the search answer.

LEMMA DuplicatesAnswer ==
  ASSUME Shape PROVE (duplicates = NoError <=> IdsOnce) /\ duplicates.kind # "Cycle"
<1> DEFINE answers == [t \in Tasks |->
      IF \E u \in 1..(t - 1) : id(u) = id(t) THEN Error("DuplicateTask", <<id(t)>>) ELSE NoError]
<1>1. DOMAIN answers = Tasks /\ Tasks \subseteq Nat /\ duplicates = first_error(answers)
  BY ShapeTasks DEF duplicates
<1>2. /\ duplicates = NoError <=> \A t \in Tasks : answers[t] = NoError
      /\ duplicates = NoError \/ \E t \in Tasks : duplicates = answers[t]
  <2> HIDE DEF answers
  <2> QED BY <1>1, FirstError
<1>3. \A t \in Tasks : answers[t].kind # "Cycle"
  BY DEF Error, NoError
<1>4. \A t \in Tasks : answers[t] = NoError <=> \A u \in 1..(t - 1) : id(u) # id(t)
  BY DEF Error, NoError
<1> HIDE DEF answers
<1>5. (\A t \in Tasks : \A u \in 1..(t - 1) : id(u) # id(t)) <=> IdsOnce
  <2>1. ASSUME IdsOnce, NEW t \in Tasks, NEW u \in 1..(t - 1) PROVE id(u) # id(t)
    <3>1. t \in 1..Len(definitions) /\ Len(definitions) \in Nat /\ Tasks = 1..Len(definitions)
      BY ShapeTasks
    <3>2. u \in Tasks /\ u # t
      BY <3>1
    <3> QED BY <2>1, <3>2 DEF IdsOnce
  <2>2. ASSUME \A t \in Tasks : \A u \in 1..(t - 1) : id(u) # id(t), NEW t \in Tasks, NEW u \in Tasks, id(t) = id(u), t # u
        PROVE  FALSE
    <3>1. t \in 1..Len(definitions) /\ u \in 1..Len(definitions) /\ Len(definitions) \in Nat
      BY ShapeTasks
    <3>2. t \in 1..(u - 1) \/ u \in 1..(t - 1)
      BY <2>2, <3>1
    <3> QED BY <2>2, <3>2
  <2> QED BY <2>1, <2>2 DEF IdsOnce
<1>6. NoError.kind # "Cycle"
  BY DEF NoError
<1> QED BY <1>2, <1>3, <1>4, <1>5, <1>6

LEMMA DependenciesAnswer ==
  ASSUME Shape
  PROVE  /\ resolve_all_dependencies = NoError <=> DependenciesKnown
         /\ resolve_all_dependencies.kind # "Cycle"
<1> DEFINE inner(t) == [k \in DOMAIN definitions[t].depends_on |-> resolve_dependency(t, definitions[t].depends_on[k])]
           answers == [t \in Tasks |-> first_error(inner(t))]
<1>1. DOMAIN answers = Tasks /\ Tasks \subseteq Nat /\ resolve_all_dependencies = first_error(answers)
  BY ShapeTasks DEF resolve_all_dependencies
<1>2. /\ resolve_all_dependencies = NoError <=> \A t \in Tasks : answers[t] = NoError
      /\ resolve_all_dependencies = NoError \/ \E t \in Tasks : resolve_all_dependencies = answers[t]
  <2> HIDE DEF answers
  <2> QED BY <1>1, FirstError
<1>3. NoError.kind # "Cycle"
  BY DEF NoError
<1>4. ASSUME NEW t \in Tasks
      PROVE  /\ answers[t] = NoError <=> \A k \in DOMAIN definitions[t].depends_on :
                  definitions[t].depends_on[k] \in IdSet /\ definitions[t].depends_on[k] # id(t)
             /\ answers[t].kind # "Cycle"
  <2>1. DOMAIN inner(t) = DOMAIN definitions[t].depends_on /\ DOMAIN inner(t) \subseteq Nat /\ answers[t] = first_error(inner(t))
    BY VecShape DEF Shape
  <2>2. \A k \in DOMAIN inner(t) : inner(t)[k].kind # "Cycle"
    BY DEF resolve_dependency, Error, NoError
  <2>3. \A k \in DOMAIN inner(t) : inner(t)[k] = NoError <=>
          definitions[t].depends_on[k] \in IdSet /\ definitions[t].depends_on[k] # id(t)
    BY DEF resolve_dependency, Error, NoError
  <2> HIDE DEF inner, answers
  <2>4. /\ answers[t] = NoError <=> \A k \in DOMAIN inner(t) : inner(t)[k] = NoError
        /\ answers[t] = NoError \/ \E k \in DOMAIN inner(t) : answers[t] = inner(t)[k]
    BY <2>1, FirstError
  <2> QED BY <1>3, <2>1, <2>2, <2>3, <2>4
<1> HIDE DEF answers
<1> QED BY <1>2, <1>3, <1>4 DEF DependenciesKnown

LEMMA ReferencesAnswer ==
  ASSUME Shape, IdsOnce, DependenciesKnown
  PROVE  /\ resolve_output_sources = NoError <=> Reads
         /\ resolve_output_sources.kind # "Cycle"
<1> DEFINE named(t, text) == [k \in DOMAIN text |-> resolve_reference(t, text[k])]
           inner(t) == [k \in DOMAIN definitions[t].texts |-> resolve_text(t, definitions[t].texts[k])]
           answers == [t \in Tasks |-> first_error(inner(t))]
<1>1. DOMAIN answers = Tasks /\ Tasks \subseteq Nat /\ resolve_output_sources = first_error(answers)
  BY ShapeTasks DEF resolve_output_sources
<1>2. /\ resolve_output_sources = NoError <=> \A t \in Tasks : answers[t] = NoError
      /\ resolve_output_sources = NoError \/ \E t \in Tasks : resolve_output_sources = answers[t]
  <2> HIDE DEF answers
  <2> QED BY <1>1, FirstError
<1>3. NoError.kind # "Cycle"
  BY DEF NoError
<1>4. ASSUME NEW t \in Tasks PROVE Range(definitions[t].depends_on) \subseteq IdSet \ {id(t)}
  BY DEF DependenciesKnown, Range
<1>5. Bad \notin IdSet
  BY DEF Shape, IdSet
<1>6. ASSUME NEW t \in Tasks, NEW text, IsVec(text)
      PROVE  /\ resolve_text(t, text) = NoError <=> Range(text) \subseteq Range(definitions[t].depends_on)
             /\ resolve_text(t, text).kind # "Cycle"
  <2>1. CASE Bad \in Range(text)
    <3>1. resolve_text(t, text) = Error("InvalidTemplate", <<id(t)>>)
      BY <2>1 DEF resolve_text
    <3>2. resolve_text(t, text) # NoError /\ resolve_text(t, text).kind # "Cycle"
      BY <3>1 DEF Error, NoError
    <3> QED BY <1>4, <1>5, <2>1, <3>2
  <2>2. CASE Bad \notin Range(text)
    <3>1. resolve_text(t, text) = first_error(named(t, text)) /\ DOMAIN named(t, text) = DOMAIN text /\ DOMAIN text \subseteq Nat
      BY <1>6, <2>2, VecShape DEF resolve_text
    <3>2. \A k \in DOMAIN text : named(t, text)[k].kind # "Cycle"
      BY DEF resolve_reference, Error, NoError
    <3>3. \A k \in DOMAIN text : named(t, text)[k] = NoError <=>
            text[k] # id(t) /\ text[k] \in IdSet /\ text[k] \in Range(definitions[t].depends_on)
      BY DEF resolve_reference, Error, NoError
    <3> HIDE DEF named
    <3>4. /\ resolve_text(t, text) = NoError <=> \A k \in DOMAIN text : named(t, text)[k] = NoError
          /\ resolve_text(t, text) = NoError \/ \E k \in DOMAIN text : resolve_text(t, text) = named(t, text)[k]
      BY <3>1, FirstError
    <3>5. Range(text) \subseteq Range(definitions[t].depends_on) <=>
            \A k \in DOMAIN text : text[k] \in Range(definitions[t].depends_on)
      BY DEF Range
    <3>6. resolve_text(t, text).kind # "Cycle"
      BY <1>3, <3>2, <3>4
    <3> QED BY <1>4, <3>3, <3>4, <3>5, <3>6
  <2> QED BY <2>1, <2>2
<1>7. ASSUME NEW t \in Tasks
      PROVE  /\ answers[t] = NoError <=> \A k \in DOMAIN definitions[t].texts :
                  Range(definitions[t].texts[k]) \subseteq Range(definitions[t].depends_on)
             /\ answers[t].kind # "Cycle"
  <2>1. DOMAIN inner(t) = DOMAIN definitions[t].texts /\ DOMAIN inner(t) \subseteq Nat /\ answers[t] = first_error(inner(t))
    BY VecShape DEF Shape, IsTexts
  <2>2. \A k \in DOMAIN definitions[t].texts : IsVec(definitions[t].texts[k])
    BY DEF Shape, IsTexts
  <2>3. \A k \in DOMAIN inner(t) : inner(t)[k].kind # "Cycle"
    BY <1>6, <2>2
  <2>4. \A k \in DOMAIN inner(t) : inner(t)[k] = NoError <=>
          Range(definitions[t].texts[k]) \subseteq Range(definitions[t].depends_on)
    BY <1>6, <2>2
  <2> HIDE DEF inner, answers
  <2>5. /\ answers[t] = NoError <=> \A k \in DOMAIN inner(t) : inner(t)[k] = NoError
        /\ answers[t] = NoError \/ \E k \in DOMAIN inner(t) : answers[t] = inner(t)[k]
    BY <2>1, FirstError
  <2> QED BY <1>3, <2>1, <2>3, <2>4, <2>5
<1> HIDE DEF answers
<1> QED BY <1>2, <1>3, <1>7 DEF Reads

-----------------------------------------------------------------------------
\* The inductive invariant.

\* The stack is a path of the tasks being visited. A dependency that a loop is
\* past is complete, or is the next task of the stack.
TypeSearch ==
  /\ states \in [Tasks -> {"Unseen", "Visiting", "Complete"}]
  /\ trail \in Seq(Tasks) /\ next \in [Tasks -> Nat \ {0}] /\ root \in Nat \ {0}
Stack ==
  /\ \A k, m \in DOMAIN trail : trail[k] = trail[m] => k = m
  /\ \A t \in Tasks : states[t] = "Visiting" <=> \E k \in DOMAIN trail : trail[k] = t
  /\ \A k \in DOMAIN trail : k + 1 \in DOMAIN trail => trail[k + 1] \in Range(dependencies(trail[k]))
Passed ==
  \A p \in DOMAIN trail : \A k \in DOMAIN dependencies(trail[p]) : k < next[trail[p]] =>
    \/ states[dependencies(trail[p])[k]] = "Complete"
    \/ p + 1 \in DOMAIN trail /\ dependencies(trail[p])[k] = trail[p + 1]
Completed ==
  \A t \in Tasks : states[t] = "Complete" => \A d \in Range(dependencies(t)) : states[d] = "Complete"
Roots == \A t \in Tasks : t < root => states[t] # "Unseen"
Fresh == \A t \in Tasks : states[t] = "Unseen" => next[t] = 1
Search ==
  /\ TypeSearch /\ Stack /\ Passed /\ Completed /\ Roots /\ Fresh
  /\ Acyclic({t \in Tasks : states[t] = "Complete"})

Before ==
  /\ trail = <<>> /\ root = 1 /\ error = NoError
  /\ states = [t \in Tasks |-> "Unseen"] /\ next = [t \in Tasks |-> 1]
Verdict == (error = NoError <=> WellFormed) /\ CycleIsReal

Validation ==
  /\ pc \in {"off", "start", "visit", "done"}
  /\ Shape
  /\ pc \in {"off", "start"} => Before
  /\ pc = "visit" => error = NoError /\ Tasks # {} /\ IdsOnce /\ DependenciesKnown /\ Search
  /\ pc = "done" => Verdict

\* The definitions stay what they are during try_from, and so does all that is
\* said of them alone.
LEMMA SameDefinitions ==
  ASSUME definitions' = definitions
  PROVE  /\ Tasks' = Tasks /\ IdSet' = IdSet /\ \A t : id(t)' = id(t)
         /\ \A t : dependencies(t)' = dependencies(t)
         /\ Shape' = Shape /\ IdsOnce' = IdsOnce /\ DependenciesKnown' = DependenciesKnown
         /\ WellFormed' = WellFormed
         /\ \A S : Acyclic(S)' = Acyclic(S)
<1>1. Tasks' = Tasks
  BY DEF Tasks
<1>2. \A t : id(t)' = id(t)
  BY DEF id
<1>3. IdSet' = IdSet
  BY <1>1, <1>2 DEF IdSet
<1>4. \A name : index(name)' = index(name)
  BY <1>1, <1>2 DEF index
<1>5. \A t : dependencies(t)' = dependencies(t)
  BY <1>4 DEF dependencies
<1>6. Shape' = Shape
  BY <1>1, <1>2 DEF Shape
<1>7. IdsOnce' = IdsOnce /\ DependenciesKnown' = DependenciesKnown
  BY <1>1, <1>2, <1>3 DEF IdsOnce, DependenciesKnown
<1>8. WellFormed' = WellFormed
  BY <1>1, <1>2, <1>3 DEF WellFormed
<1>9. \A S : Acyclic(S)' = Acyclic(S)
  BY <1>5 DEF Acyclic
<1> QED BY <1>1, <1>2, <1>3, <1>5, <1>6, <1>7, <1>8, <1>9

\* The dependencies of a task, as a set.
LEMMA DependencySet ==
  ASSUME Shape, IdsOnce, DependenciesKnown, NEW t \in Tasks
  PROVE  Range(dependencies(t)) \subseteq Tasks \ {t}
<1>1. DOMAIN dependencies(t) = DOMAIN definitions[t].depends_on
  BY DEF dependencies
<1> QED BY <1>1, Dependency DEF Range

LEMMA StartStep ==
  ASSUME Validation, start PROVE Validation'
<1>1. definitions' = definitions /\ states' = states /\ trail' = trail /\ next' = next /\ root' = root /\ pc = "start"
  BY DEF start
<1> DEFINE found == IF definitions = <<>> THEN Error("Empty", <<>>)
                    ELSE IF duplicates # NoError THEN duplicates ELSE resolve_all_dependencies
<1>2. pc' = (IF found = NoError THEN "visit" ELSE "done") /\ error' = found
  BY DEF start
<1>3. Shape /\ Before
  BY <1>1 DEF Validation
<1>4. definitions = <<>> <=> Tasks = {}
  <2>1. definitions \in Seq(Range(definitions))
    BY <1>3 DEF Shape, IsVec
  <2> QED BY <2>1 DEF Tasks
<1>5. found = NoError <=> Tasks # {} /\ IdsOnce /\ DependenciesKnown
  BY <1>3, <1>4, DuplicatesAnswer, DependenciesAnswer DEF Error, NoError
<1>6. found.kind # "Cycle"
  BY <1>3, DuplicatesAnswer, DependenciesAnswer DEF Error
<1> HIDE DEF found
<1>7. Shape' /\ WellFormed' = WellFormed /\ (IdsOnce' = IdsOnce) /\ (DependenciesKnown' = DependenciesKnown) /\ Tasks' = Tasks
  BY <1>1, <1>3, SameDefinitions
<1>8. CASE found = NoError
  <2>1. Tasks # {} /\ IdsOnce /\ DependenciesKnown /\ error' = NoError /\ pc' = "visit"
    BY <1>2, <1>5, <1>8
  <2>2. TypeSearch /\ Stack /\ Passed /\ Completed /\ Roots /\ Fresh
    <3>1. Tasks \subseteq Nat /\ Tasks = 1..Len(definitions)
      BY <1>3, ShapeTasks
    <3>2. TypeSearch
      BY <1>3 DEF Before, TypeSearch
    <3>3. Stack /\ Passed /\ Completed
      BY <1>3 DEF Before, Stack, Passed, Completed
    <3>4. Roots /\ Fresh
      BY <1>3, <3>1 DEF Before, Roots, Fresh
    <3> QED BY <3>2, <3>3, <3>4
  <2>3. Acyclic({t \in Tasks : states[t] = "Complete"})
    <3>1. {t \in Tasks : states[t] = "Complete"} = {}
      BY <1>3 DEF Before
    <3> QED BY <3>1 DEF Acyclic
  <2>4. Search
    BY <2>2, <2>3 DEF Search
  <2>5. Search'
    <3>1. /\ TypeSearch' = TypeSearch /\ Stack' = Stack /\ Passed' = Passed /\ Completed' = Completed /\ Roots' = Roots
          /\ Fresh' = Fresh
      BY <1>1, SameDefinitions DEF TypeSearch, Stack, Passed, Completed, Roots, Fresh
    <3>2. {t \in Tasks : states[t] = "Complete"}' = {t \in Tasks : states[t] = "Complete"}
      BY <1>1, SameDefinitions
    <3>3. Acyclic({t \in Tasks : states[t] = "Complete"})'
      BY <1>1, <2>3, <3>2, SameDefinitions DEF Acyclic
    <3> QED BY <2>2, <3>1, <3>3 DEF Search
  <2> QED BY <1>7, <2>1, <2>5 DEF Validation
<1>9. CASE found # NoError
  <2>1. pc' = "done" /\ error' # NoError /\ ~WellFormed'
    BY <1>2, <1>3, <1>5, <1>7, <1>9, WellFormedMeans
  <2>2. CycleIsReal'
    BY <1>2, <1>6 DEF CycleIsReal
  <2> QED BY <1>7, <2>1, <2>2 DEF Validation, Verdict
<1> QED BY <1>8, <1>9

\* What is the same for every step of the search that reports nothing.
LEMMA SearchOn ==
  ASSUME Validation, pc = "visit", definitions' = definitions, pc' = pc, error' = error, Search'
  PROVE  Validation'
BY SameDefinitions DEF Validation

\* A task enters the stack: from the loop of the last task of the stack, past
\* the dependency that it is at, or from validate_acyclic.
LEMMA Enter ==
  ASSUME Shape, IdsOnce, DependenciesKnown, Search, definitions' = definitions,
         NEW t \in Tasks, states[t] = "Unseen", enter(t),
         root' \in Nat \ {0}, root' = root \/ (root' = root + 1 /\ t = root),
         \/ trail = <<>> /\ next' = next
         \/ /\ trail # <<>> /\ next[Last(trail)] \in DOMAIN dependencies(Last(trail))
            /\ dependencies(Last(trail))[next[Last(trail)]] = t
            /\ next' = [next EXCEPT ![Last(trail)] = @ + 1]
  PROVE  Search'
<1> DEFINE n == Len(trail)
           last == trail[n]
<1>1. trail \in Seq(Tasks) /\ n \in Nat /\ DOMAIN trail = 1..n /\ \A k \in 1..n : trail[k] \in Tasks
  BY DEF Search, TypeSearch
<1>2. states \in [Tasks -> {"Unseen", "Visiting", "Complete"}] /\ states' = [states EXCEPT ![t] = "Visiting"]
  BY DEF Search, TypeSearch, enter
<1>3. /\ trail' \in Seq(Tasks) /\ Len(trail') = n + 1 /\ DOMAIN trail' = 1..(n + 1)
      /\ \A k \in 1..n : trail'[k] = trail[k] /\ trail'[n + 1] = t
  BY <1>1 DEF enter
<1>4. trail'[n + 1] = t
  BY <1>1 DEF enter
<1>5. Tasks' = Tasks /\ \A u : dependencies(u)' = dependencies(u)
  BY SameDefinitions
<1>6. \A k \in 1..n : trail[k] # t /\ states[trail[k]] = "Visiting"
  BY <1>1 DEF Search, Stack
<1>7. n > 0 => Last(trail) = last /\ trail # <<>> /\ last \in Tasks
  BY <1>1 DEF Last
<1>8. n = 0 => trail = <<>>
  BY <1>1
<1>9. TypeSearch'
  <2>1. next' \in [Tasks -> Nat \ {0}]
    BY <1>7, <1>8, <1>1 DEF Search, TypeSearch
  <2> QED BY <1>2, <1>3, <1>5, <2>1 DEF TypeSearch
<1>10. Stack'
  <2>1. \A k, m \in DOMAIN trail' : trail'[k] = trail'[m] => k = m
    BY <1>1, <1>3, <1>4, <1>6 DEF Search, Stack
  <2>2. \A u \in Tasks : states'[u] = "Visiting" <=> \E k \in DOMAIN trail' : trail'[k] = u
    <3> SUFFICES ASSUME NEW u \in Tasks PROVE states'[u] = "Visiting" <=> \E k \in DOMAIN trail' : trail'[k] = u
      OBVIOUS
    <3>1. CASE u = t
      BY <1>1, <1>2, <1>3, <1>4, <3>1
    <3>2. CASE u # t
      <4>1. states'[u] = states[u]
        BY <1>2, <3>2
      <4>2. (\E k \in DOMAIN trail' : trail'[k] = u) <=> \E k \in DOMAIN trail : trail[k] = u
        BY <1>1, <1>3, <1>4, <3>2
      <4> QED BY <4>1, <4>2 DEF Search, Stack
    <3> QED BY <3>1, <3>2
  <2>3. ASSUME NEW k \in DOMAIN trail', k + 1 \in DOMAIN trail'
        PROVE  trail'[k + 1] \in Range(dependencies(trail'[k]))
    <3>1. CASE k = n
      <4>1. n > 0 /\ trail'[k] = last
        BY <1>1, <1>3, <2>3, <3>1
      <4>2. t \in Range(dependencies(last))
        BY <1>7, <4>1 DEF Range
      <4> QED BY <1>4, <3>1, <4>1, <4>2
    <3>2. CASE k # n
      <4>1. k \in 1..n /\ k + 1 \in 1..n
        BY <1>1, <1>3, <2>3, <3>2
      <4>2. trail'[k] = trail[k] /\ trail'[k + 1] = trail[k + 1]
        BY <1>3, <4>1
      <4>3. trail[k + 1] \in Range(dependencies(trail[k]))
        BY <1>1, <4>1 DEF Search, Stack
      <4> QED BY <4>2, <4>3
    <3> QED BY <3>1, <3>2
  <2> QED BY <1>5, <2>1, <2>2, <2>3 DEF Stack
<1>11. Passed'
  <2> SUFFICES ASSUME NEW p \in DOMAIN trail', NEW k \in DOMAIN dependencies(trail'[p]), k < next'[trail'[p]]
               PROVE  \/ states'[dependencies(trail'[p])[k]] = "Complete"
                      \/ p + 1 \in DOMAIN trail' /\ dependencies(trail'[p])[k] = trail'[p + 1]
    BY <1>5 DEF Passed
  <2>0. DOMAIN dependencies(trail'[p]) = DOMAIN definitions[trail'[p]].depends_on
    BY DEF dependencies
  <2>1. trail'[p] \in Tasks
    BY <1>3
  <2>2. k \in Nat \ {0} /\ dependencies(trail'[p])[k] \in Tasks
    BY <2>0, <2>1, Dependency, VecShape DEF Shape
  <2>3. CASE p = n + 1
    <3>1. n > 0 => last # t
      BY <1>1, <1>6
    <3>2. next'[t] = next[t]
      BY <1>1, <1>7, <1>8, <3>1 DEF Search, TypeSearch
    <3>3. next[t] = 1 /\ trail'[p] = t
      BY <1>4, <2>3 DEF Search, Fresh
    <3> QED BY <2>2, <3>2, <3>3
  <2>4. CASE p # n + 1
    <3>1. p \in 1..n /\ trail'[p] = trail[p] /\ p + 1 \in DOMAIN trail'
      BY <1>1, <1>3, <2>4
    <3>2. CASE p = n /\ k = next[last]
      <4>1. dependencies(trail'[p])[k] = t
        BY <1>7, <3>1, <3>2
      <4> QED BY <1>4, <3>1, <3>2, <4>1
    <3>3. CASE ~(p = n /\ k = next[last])
      <4>1. k < next[trail[p]]
        <5>1. CASE p = n
          BY <1>7, <2>2, <3>1, <3>3, <5>1 DEF Search, TypeSearch
        <5>2. CASE p # n
          <6>1. trail[p] # last
            BY <1>1, <3>1, <5>2 DEF Search, Stack
          <6>2. next'[trail[p]] = next[trail[p]]
            BY <1>1, <1>7, <1>8, <3>1, <6>1 DEF Search, TypeSearch
          <6> QED BY <3>1, <6>2
        <5> QED BY <5>1, <5>2
      <4>2. \/ states[dependencies(trail[p])[k]] = "Complete"
            \/ p + 1 \in DOMAIN trail /\ dependencies(trail[p])[k] = trail[p + 1]
        BY <1>1, <3>1, <4>1 DEF Search, Passed
      <4>3. CASE states[dependencies(trail[p])[k]] = "Complete"
        BY <1>2, <2>2, <3>1, <4>3
      <4>4. CASE p + 1 \in DOMAIN trail /\ dependencies(trail[p])[k] = trail[p + 1]
        BY <1>1, <1>3, <3>1, <4>4
      <4> QED BY <4>2, <4>3, <4>4
    <3> QED BY <3>2, <3>3
  <2> QED BY <2>3, <2>4
<1>12. Completed'
  <2> SUFFICES ASSUME NEW u \in Tasks, states'[u] = "Complete", NEW d \in Range(dependencies(u))
               PROVE  states'[d] = "Complete"
    BY <1>5 DEF Completed
  <2>1. states[u] = "Complete" /\ d \in Tasks
    BY <1>2, DependencySet
  <2>2. states[d] = "Complete"
    BY <2>1 DEF Search, Completed
  <2> QED BY <1>2, <2>1, <2>2
<1>13. Roots'
  BY <1>2, <1>5, ShapeTasks DEF Search, TypeSearch, Roots
<1>14. Fresh'
  <2> SUFFICES ASSUME NEW u \in Tasks, states'[u] = "Unseen" PROVE next'[u] = 1
    BY <1>5 DEF Fresh
  <2>1. states[u] = "Unseen"
    BY <1>2
  <2>2. n > 0 => last # u
    BY <1>1, <1>6, <2>1
  <2>3. next'[u] = next[u]
    BY <1>1, <1>7, <1>8, <2>2 DEF Search, TypeSearch
  <2> QED BY <2>1, <2>3 DEF Search, Fresh
<1>15. Acyclic({u \in Tasks : states[u] = "Complete"})'
  <2>1. {u \in Tasks : states[u] = "Complete"}' = {u \in Tasks : states[u] = "Complete"}
    BY <1>2, <1>5
  <2> QED BY <1>5, <2>1 DEF Search, Acyclic
<1> QED BY <1>9, <1>10, <1>11, <1>12, <1>13, <1>14, <1>15 DEF Search

\* A dependency that is visited already is passed.
LEMMA Skip ==
  ASSUME Shape, IdsOnce, DependenciesKnown, Search, definitions' = definitions,
         states' = states, trail' = trail, root' = root, trail # <<>>,
         next[Last(trail)] \in DOMAIN dependencies(Last(trail)),
         states[dependencies(Last(trail))[next[Last(trail)]]] = "Complete",
         next' = [next EXCEPT ![Last(trail)] = @ + 1]
  PROVE  Search'
<1> DEFINE last == Last(trail)
<1>1. trail \in Seq(Tasks) /\ Len(trail) \in DOMAIN trail /\ last = trail[Len(trail)] /\ last \in Tasks
  BY DEF Search, TypeSearch, Last
<1>2. Tasks' = Tasks /\ \A u : dependencies(u)' = dependencies(u)
  BY SameDefinitions
<1>3. states[last] = "Visiting"
  BY <1>1 DEF Search, Stack
<1>4. TypeSearch'
  BY <1>1, <1>2 DEF Search, TypeSearch
<1>5. Stack' /\ Completed' /\ Roots'
  BY <1>2 DEF Search, Stack, Completed, Roots
<1>6. Passed'
  <2> SUFFICES ASSUME NEW p \in DOMAIN trail, NEW k \in DOMAIN dependencies(trail[p]), k < next'[trail[p]]
               PROVE  \/ states[dependencies(trail[p])[k]] = "Complete"
                      \/ p + 1 \in DOMAIN trail /\ dependencies(trail[p])[k] = trail[p + 1]
    BY <1>2 DEF Passed
  <2>1. trail[p] \in Tasks /\ k \in Nat
    BY <1>1, VecShape DEF Shape, dependencies
  <2>2. CASE trail[p] = last /\ k = next[last]
    BY <2>2
  <2>3. CASE ~(trail[p] = last /\ k = next[last])
    <3>1. k < next[trail[p]]
      BY <1>1, <2>1, <2>3 DEF Search, TypeSearch
    <3> QED BY <3>1 DEF Search, Passed
  <2> QED BY <2>2, <2>3
<1>7. Fresh'
  BY <1>1, <1>2, <1>3 DEF Search, TypeSearch, Fresh
<1>8. Acyclic({u \in Tasks : states[u] = "Complete"})'
  <2>1. {u \in Tasks : states[u] = "Complete"}' = {u \in Tasks : states[u] = "Complete"}
    BY <1>2
  <2> QED BY <1>2, <2>1 DEF Search, Acyclic
<1> QED BY <1>4, <1>5, <1>6, <1>7, <1>8 DEF Search

\* The loop of `visit` ends: every dependency of the task is complete.
LEMMA LeaveStep ==
  ASSUME Validation, leave PROVE Validation'
<1>1. /\ pc = "visit" /\ trail # <<>> /\ next[Last(trail)] \notin DOMAIN dependencies(Last(trail))
      /\ states' = [states EXCEPT ![Last(trail)] = "Complete"] /\ trail' = Front(trail)
      /\ definitions' = definitions /\ pc' = pc /\ next' = next /\ root' = root /\ error' = error
  BY DEF leave
<1>2. Shape /\ IdsOnce /\ DependenciesKnown /\ Search
  BY <1>1 DEF Validation
<1> DEFINE n == Len(trail)
           t == trail[n]
<1>3. /\ trail \in Seq(Tasks) /\ n \in Nat \ {0} /\ DOMAIN trail = 1..n /\ n \in DOMAIN trail
      /\ Last(trail) = t /\ t \in Tasks
  BY <1>1, <1>2 DEF Search, TypeSearch, Last
<1>4. /\ trail' \in Seq(Tasks) /\ DOMAIN trail' = 1..(n - 1) /\ \A k \in 1..(n - 1) : trail'[k] = trail[k]
  BY <1>1, <1>3 DEF Front
<1>5. Tasks' = Tasks /\ \A u : dependencies(u)' = dependencies(u)
  BY <1>1, SameDefinitions
<1>6. states \in [Tasks -> {"Unseen", "Visiting", "Complete"}] /\ states' = [states EXCEPT ![t] = "Complete"]
  BY <1>1, <1>2, <1>3 DEF Search, TypeSearch
<1>7. states[t] = "Visiting"
  BY <1>2, <1>3 DEF Search, Stack
<1>8. \A d \in Range(dependencies(t)) : d \in Tasks \ {t} /\ states[d] = "Complete"
  <2> SUFFICES ASSUME NEW k \in DOMAIN dependencies(t)
               PROVE  dependencies(t)[k] \in Tasks \ {t} /\ states[dependencies(t)[k]] = "Complete"
    BY DEF Range
  <2>1. DOMAIN dependencies(t) = DOMAIN definitions[t].depends_on
    BY DEF dependencies
  <2>2. PICK m \in Nat : DOMAIN dependencies(t) = 1..m
    BY <1>2, <1>3, <2>1, VecShape DEF Shape
  <2>3. k < next[t]
    BY <1>1, <1>2, <1>3, <2>2 DEF Search, TypeSearch
  <2>4. n + 1 \notin DOMAIN trail
    BY <1>3
  <2>5. states[dependencies(t)[k]] = "Complete"
    BY <1>2, <1>3, <2>3, <2>4 DEF Search, Passed
  <2> QED BY <1>2, <1>3, <2>1, <2>5, Dependency
<1>9. TypeSearch'
  BY <1>1, <1>2, <1>3, <1>4, <1>5, <1>6 DEF Search, TypeSearch
<1>10. Stack'
  <2>1. \A k, m \in DOMAIN trail' : trail'[k] = trail'[m] => k = m
    BY <1>2, <1>3, <1>4 DEF Search, Stack
  <2>2. ASSUME NEW u \in Tasks PROVE states'[u] = "Visiting" <=> \E k \in DOMAIN trail' : trail'[k] = u
    <3>1. CASE u = t
      <4>1. states'[u] # "Visiting"
        BY <1>6, <3>1
      <4>2. \A k \in 1..(n - 1) : trail[k] # t
        BY <1>2, <1>3 DEF Search, Stack
      <4> QED BY <1>4, <3>1, <4>1, <4>2
    <3>2. CASE u # t
      <4>1. states'[u] = states[u]
        BY <1>6, <3>2
      <4>2. (\E k \in DOMAIN trail' : trail'[k] = u) <=> \E k \in DOMAIN trail : trail[k] = u
        BY <1>3, <1>4, <3>2
      <4> QED BY <1>2, <4>1, <4>2 DEF Search, Stack
    <3> QED BY <3>1, <3>2
  <2>3. ASSUME NEW k \in DOMAIN trail', k + 1 \in DOMAIN trail'
        PROVE  trail'[k + 1] \in Range(dependencies(trail'[k]))
    <3>1. k \in DOMAIN trail /\ k + 1 \in DOMAIN trail /\ trail'[k] = trail[k] /\ trail'[k + 1] = trail[k + 1]
      BY <1>3, <1>4, <2>3
    <3> QED BY <1>2, <3>1 DEF Search, Stack
  <2> QED BY <1>5, <2>1, <2>2, <2>3 DEF Stack
<1>11. Passed'
  <2> SUFFICES ASSUME NEW p \in DOMAIN trail', NEW k \in DOMAIN dependencies(trail'[p]), k < next[trail'[p]]
               PROVE  \/ states'[dependencies(trail'[p])[k]] = "Complete"
                      \/ p + 1 \in DOMAIN trail' /\ dependencies(trail'[p])[k] = trail'[p + 1]
    BY <1>1, <1>5 DEF Passed
  <2>1. p \in 1..(n - 1) /\ p \in DOMAIN trail /\ trail'[p] = trail[p] /\ trail[p] \in Tasks
    BY <1>3, <1>4
  <2>2. dependencies(trail[p])[k] \in Tasks
    BY <1>2, <2>1, Dependency DEF dependencies
  <2>3. \/ states[dependencies(trail[p])[k]] = "Complete"
        \/ p + 1 \in DOMAIN trail /\ dependencies(trail[p])[k] = trail[p + 1]
    BY <1>2, <2>1 DEF Search, Passed
  <2>4. CASE states[dependencies(trail[p])[k]] = "Complete" \/ dependencies(trail[p])[k] = t
    <3>1. states'[dependencies(trail[p])[k]] = "Complete"
      BY <1>6, <2>2, <2>4
    <3> QED BY <2>1, <3>1
  <2>5. CASE p + 1 \in DOMAIN trail /\ p + 1 # n /\ dependencies(trail[p])[k] = trail[p + 1]
    BY <1>3, <1>4, <2>1, <2>5
  <2> QED BY <2>3, <2>4, <2>5
<1>12. Completed'
  <2> SUFFICES ASSUME NEW u \in Tasks, states'[u] = "Complete", NEW d \in Range(dependencies(u))
               PROVE  states'[d] = "Complete"
    BY <1>5 DEF Completed
  <2>1. d \in Tasks
    BY <1>2, DependencySet
  <2>2. states[d] = "Complete"
    <3>1. CASE u = t
      BY <1>8, <3>1
    <3>2. CASE u # t
      <4>1. states[u] = "Complete"
        BY <1>6, <3>2
      <4> QED BY <1>2, <4>1 DEF Search, Completed
    <3> QED BY <3>1, <3>2
  <2> QED BY <1>6, <2>1, <2>2
<1>13. Roots' /\ Fresh'
  BY <1>1, <1>2, <1>5, <1>6 DEF Search, Roots, Fresh
<1>14. Acyclic({u \in Tasks : states[u] = "Complete"})'
  <2> DEFINE C == {u \in Tasks : states[u] = "Complete"}
  <2>1. {u \in Tasks : states[u] = "Complete"}' = C \cup {t}
    BY <1>3, <1>5, <1>6
  <2>2. Acyclic(C) /\ t \notin C
    BY <1>2, <1>7 DEF Search
  <2>3. ASSUME NEW S \in SUBSET (C \cup {t}), S # {}
        PROVE  \E u \in S : \A v \in S : v \notin Range(dependencies(u))
    <3>1. CASE S \ {t} = {}
      <4>1. S = {t}
        BY <2>3, <3>1
      <4>2. t \notin Range(dependencies(t))
        BY <1>8
      <4> QED BY <4>1, <4>2
    <3>2. CASE S \ {t} # {}
      <4>1. S \ {t} \in SUBSET C
        BY <2>3
      <4>2. PICK u \in S \ {t} : \A v \in S \ {t} : v \notin Range(dependencies(u))
        BY <2>2, <3>2, <4>1 DEF Acyclic
      <4>3. u \in Tasks /\ states[u] = "Complete"
        BY <4>1, <4>2
      <4>4. t \notin Range(dependencies(u))
        BY <1>2, <1>7, <4>3 DEF Search, Completed
      <4> QED BY <4>2, <4>4
    <3> QED BY <3>1, <3>2
  <2>4. Acyclic(C \cup {t})
    BY <2>3 DEF Acyclic
  <2> HIDE DEF C
  <2> QED BY <1>5, <2>1, <2>4 DEF Acyclic
<1>15. Search'
  BY <1>9, <1>10, <1>11, <1>12, <1>13, <1>14 DEF Search
<1> QED BY <1>1, <1>15, SearchOn

\* The end of a sequence, closed with one more element.
LEMMA ClosedPart ==
  ASSUME NEW S, NEW s \in Seq(S), NEW i \in 1..Len(s), i # Len(s), NEW t \in S, NEW l, l = Len(s) - i + 1,
         NEW part, part = SubSeq(s, i, Len(s)) \o <<t>>
  PROVE  /\ l \in Nat /\ l > 1 /\ part \in Seq(S) /\ Len(part) = l + 1
         /\ \A k \in 1..l : part[k] = s[i + k - 1] /\ i + k - 1 \in 1..Len(s)
         /\ part[l + 1] = t
<1>1. Len(s) \in Nat /\ l \in Nat /\ l > 1
  OBVIOUS
<1> DEFINE end == SubSeq(s, i, Len(s))
<1>2. end \in Seq(S) /\ Len(end) = l /\ \A k \in 1..l : end[k] = s[i + k - 1]
  OBVIOUS
<1>3. \A k \in 1..l : i + k - 1 \in 1..Len(s)
  OBVIOUS
<1>4. part = end \o <<t>>
  OBVIOUS
<1> HIDE DEF end
<1>5. part \in Seq(S) /\ Len(part) = l + 1
  <2>1. <<t>> \in Seq(S) /\ Len(<<t>>) = 1
    OBVIOUS
  <2>2. \A p, q \in Seq(S) : p \o q \in Seq(S) /\ Len(p \o q) = Len(p) + Len(q)
    OBVIOUS
  <2> QED BY <1>1, <1>2, <1>4, <2>1, <2>2
<1>6. /\ \A k \in 1..l : part[k] = end[k]
      /\ part[l + 1] = t
  BY <1>1, <1>2, <1>4
<1> QED BY <1>1, <1>2, <1>3, <1>5, <1>6

\* A closed walk of dependencies is a cycle as CycleIsReal says, and its tasks
\* are a group in which every task depends on another.
LEMMA ClosedWalk ==
  ASSUME Shape, IdsOnce, DependenciesKnown,
         NEW l \in Nat, l > 1, NEW walk \in Seq(Tasks), Len(walk) = l + 1, walk[l + 1] = walk[1],
         \A k, m \in 1..l : walk[k] = walk[m] => k = m,
         \A k \in 1..l : walk[k + 1] \in Range(dependencies(walk[k])),
         NEW names, names = [k \in DOMAIN walk |-> id(walk[k])]
  PROVE  /\ ~WellFormed
         /\ Len(names) > 2 /\ names[1] = Last(names) /\ IsInjective(Front(names))
         /\ \A k \in 1..(Len(names) - 1) : names[k + 1] \in Range(definitions[index(names[k])].depends_on)
<1>1. DOMAIN walk = 1..(l + 1) /\ \A k \in 1..(l + 1) : walk[k] \in Tasks
  OBVIOUS
<1>2. names \in [1..(l + 1) -> IdSet] /\ \A k \in 1..(l + 1) : names[k] = id(walk[k])
  BY <1>1 DEF IdSet
<1>3. names \in Seq(IdSet) /\ Len(names) = l + 1
  BY <1>2
<1>4. ASSUME NEW k \in 1..l
      PROVE  /\ id(walk[k + 1]) \in Range(definitions[walk[k]].depends_on)
             /\ index(names[k]) = walk[k] /\ names[k + 1] = id(walk[k + 1])
  <2>1. walk[k] \in Tasks /\ walk[k + 1] \in Tasks /\ names[k] = id(walk[k]) /\ names[k + 1] = id(walk[k + 1])
    BY <1>1, <1>2
  <2>2. id(walk[k + 1]) \in Range(definitions[walk[k]].depends_on)
    BY <2>1, DependsOn
  <2> QED BY <2>1, <2>2, IndexOfId
<1>5. ~WellFormed
  <2> DEFINE S == {walk[k] : k \in 1..l}
  <2>1. S \in SUBSET Tasks /\ S # {}
    BY <1>1
  <2>2. ASSUME NEW u \in S PROVE \E v \in S : id(v) \in Range(definitions[u].depends_on)
    <3>1. PICK k \in 1..l : u = walk[k]
      OBVIOUS
    <3>2. walk[k + 1] \in S
      <4>1. CASE k = l
        <5>1. walk[k + 1] = walk[1] /\ 1 \in 1..l
          BY <4>1
        <5> QED BY <5>1
      <4>2. CASE k # l
        <5>1. k + 1 \in 1..l
          BY <4>2
        <5> QED BY <5>1
      <4> QED BY <4>1, <4>2
    <3> QED BY <1>4, <3>1, <3>2
  <2> HIDE DEF S
  <2> QED BY <2>1, <2>2 DEF WellFormed
<1>6. Len(names) > 2
  BY <1>3
<1>7. names[1] = Last(names)
  BY <1>2, <1>3 DEF Last
<1>8. IsInjective(Front(names))
  <2>1. DOMAIN Front(names) = 1..l /\ \A k \in 1..l : Front(names)[k] = names[k]
    BY <1>3 DEF Front
  <2>2. ASSUME NEW k \in 1..l, NEW m \in 1..l, names[k] = names[m] PROVE k = m
    <3>1. walk[k] = walk[m]
      BY <1>1, <1>2, <2>2 DEF IdsOnce
    <3> QED BY <3>1
  <2> DEFINE front == Front(names)
  <2> HIDE DEF front
  <2>3. \A k, m \in DOMAIN front : front[k] = front[m] => k = m
    <3>1. DOMAIN front = 1..l /\ \A k \in 1..l : front[k] = names[k]
      BY <2>1 DEF front
    <3>2. ASSUME NEW k \in DOMAIN front, NEW m \in DOMAIN front, front[k] = front[m] PROVE k = m
      <4>1. k \in 1..l /\ m \in 1..l
        BY <3>1, Zenon
      <4>2. names[k] = names[m]
        BY <3>1, <3>2, <4>1, Zenon
      <4> QED BY <2>2, <4>1, <4>2, Zenon
    <3> QED BY <3>2, Zenon
  <2>4. IsInjective(front)
    BY <2>3 DEF IsInjective
  <2> QED BY <2>4 DEF front
<1>9. ASSUME NEW k \in 1..(Len(names) - 1)
      PROVE  names[k + 1] \in Range(definitions[index(names[k])].depends_on)
  <2>1. k \in 1..l
    BY <1>3, <1>9
  <2> QED BY <1>4, <2>1
<1> QED BY <1>5, <1>6, <1>7, <1>8, <1>9

\* A dependency that is being visited closes a cycle, from where it is on the
\* stack.
LEMMA CycleStep ==
  ASSUME Validation, pc = "visit", trail # <<>>, definitions' = definitions,
         next[Last(trail)] \in DOMAIN dependencies(Last(trail)),
         NEW t, t = dependencies(Last(trail))[next[Last(trail)]], states[t] = "Visiting",
         visit(t)
  PROVE  Validation'
<1>1. Shape /\ IdsOnce /\ DependenciesKnown /\ Search
  BY DEF Validation
<1> DEFINE n == Len(trail)
           first == CHOOSE k \in DOMAIN trail : trail[k] = t /\ \A m \in 1..(k - 1) : trail[m] # t
           part(i) == SubSeq(trail, i, Len(trail)) \o <<t>>
           named(walk) == [k \in DOMAIN walk |-> id(walk[k])]
<1>2. pc' = "done" /\ error' = Error("Cycle", named(part(first)))
  BY DEF visit
<1>3. /\ trail \in Seq(Tasks) /\ n \in Nat \ {0} /\ DOMAIN trail = 1..n /\ n \in DOMAIN trail
      /\ Last(trail) = trail[n] /\ \A k \in 1..n : trail[k] \in Tasks
  BY <1>1 DEF Search, TypeSearch, Last
<1>4. t \in Tasks /\ t # trail[n] /\ t \in Range(dependencies(trail[n]))
  <2>1. DOMAIN dependencies(trail[n]) = DOMAIN definitions[trail[n]].depends_on
    BY DEF dependencies
  <2> QED BY <1>1, <1>3, <2>1, Dependency DEF Range
<1>5. PICK i \in 1..n : i = first /\ trail[i] = t /\ i # n
  <2>1. PICK k \in DOMAIN trail : trail[k] = t
    BY <1>1, <1>4 DEF Search, Stack
  <2>2. \A m \in 1..(k - 1) : trail[m] # t
    BY <1>1, <1>3, <2>1 DEF Search, Stack
  <2>3. first \in DOMAIN trail /\ trail[first] = t
    BY <2>1, <2>2
  <2> QED BY <1>3, <1>4, <2>3
<1>6. PICK l : l = n - i + 1
  OBVIOUS
<1>7. PICK walk : walk = part(i)
  OBVIOUS
<1>8. /\ l \in Nat /\ l > 1 /\ walk \in Seq(Tasks) /\ Len(walk) = l + 1 /\ walk[l + 1] = t
      /\ \A k \in 1..l : walk[k] = trail[i + k - 1] /\ i + k - 1 \in 1..n
  <2>1. trail \in Seq(Tasks) /\ t \in Tasks /\ i \in 1..Len(trail) /\ i # Len(trail) /\ l = Len(trail) - i + 1
    BY <1>3, <1>4, <1>5, <1>6
  <2>2. walk = SubSeq(trail, i, Len(trail)) \o <<t>>
    BY <1>7
  <2> QED BY <2>1, <2>2, ClosedPart
<1>9. error' = Error("Cycle", named(walk))
  BY <1>2, <1>5, <1>7
<1> HIDE DEF first, part, n
<1>10. n \in Nat /\ i \in Nat /\ i + l - 1 = n
  BY <1>3, <1>5, <1>6
<1>11. ASSUME NEW k \in 1..l, NEW m \in 1..l, walk[k] = walk[m] PROVE k = m
  <2>1. /\ i + k - 1 \in DOMAIN trail /\ i + m - 1 \in DOMAIN trail
        /\ trail[i + k - 1] = trail[i + m - 1]
    BY <1>3, <1>8, <1>11
  <2>2. i + k - 1 = i + m - 1
    BY <1>1, <2>1 DEF Search, Stack
  <2> QED BY <1>10, <2>2
<1>12. ASSUME NEW k \in 1..l PROVE walk[k + 1] \in Range(dependencies(walk[k]))
  <2>1. CASE k = l
    <3>1. walk[k] = trail[n] /\ walk[k + 1] = t
      BY <1>8, <1>10, <2>1
    <3> QED BY <1>4, <3>1
  <2>2. CASE k # l
    <3>1. k + 1 \in 1..l /\ i + (k + 1) - 1 = (i + k - 1) + 1
      BY <1>8, <1>10, <2>2
    <3>2. walk[k + 1] = trail[i + (k + 1) - 1] /\ i + (k + 1) - 1 \in 1..n
      BY <1>8, <3>1
    <3>3. walk[k] = trail[i + k - 1] /\ i + k - 1 \in 1..n
      BY <1>8
    <3>4. trail[(i + k - 1) + 1] \in Range(dependencies(trail[i + k - 1]))
      BY <1>1, <1>3, <3>1, <3>2, <3>3 DEF Search, Stack
    <3> QED BY <3>1, <3>2, <3>3, <3>4
  <2> QED BY <2>1, <2>2
<1>13. walk[l + 1] = walk[1]
  <2>1. 1 \in 1..l /\ i + 1 - 1 = i
    BY <1>8, <1>10
  <2>2. walk[1] = trail[i + 1 - 1]
    BY <1>8, <2>1
  <2> QED BY <1>5, <1>8, <2>1, <2>2
<1> DEFINE names == named(walk)
<1>14. /\ ~WellFormed
       /\ Len(names) > 2 /\ names[1] = Last(names) /\ IsInjective(Front(names))
       /\ \A k \in 1..(Len(names) - 1) : names[k + 1] \in Range(definitions[index(names[k])].depends_on)
  BY <1>1, <1>8, <1>11, <1>12, <1>13, ClosedWalk
<1>15. error'.kind = "Cycle" /\ error'.tasks = names /\ error' # NoError
  BY <1>9 DEF Error, NoError
<1> HIDE DEF names
<1>16. Shape' /\ ~WellFormed'
  BY <1>1, <1>14, SameDefinitions
<1>17. CycleIsReal'
  <2>1. \A name : index(name)' = index(name)
    BY SameDefinitions DEF index
  <2> QED BY <1>14, <1>15, <2>1 DEF CycleIsReal
<1> QED BY <1>2, <1>15, <1>16, <1>17 DEF Validation, Verdict

\* validate_acyclic calls `visit`: no task is being visited.
LEMMA RootStep ==
  ASSUME Validation, visit_root PROVE Validation'
<1>1. /\ pc = "visit" /\ trail = <<>> /\ root \in Tasks /\ visit(root) /\ root' = root + 1
      /\ definitions' = definitions /\ next' = next
  BY DEF visit_root
<1>2. Shape /\ IdsOnce /\ DependenciesKnown /\ Search
  BY <1>1 DEF Validation
<1>3. root' \in Nat \ {0}
  BY <1>1, <1>2 DEF Search, TypeSearch
<1>4. states[root] # "Visiting"
  BY <1>1, <1>2 DEF Search, Stack
<1>5. CASE states[root] = "Complete"
  <2>1. states' = states /\ trail' = trail /\ pc' = pc /\ error' = error
    BY <1>1, <1>5 DEF visit
  <2>2. Tasks' = Tasks /\ \A u : dependencies(u)' = dependencies(u)
    BY <1>1, SameDefinitions
  <2>3. TypeSearch' /\ Stack' /\ Passed' /\ Completed' /\ Fresh'
    BY <1>1, <1>2, <1>3, <2>1, <2>2 DEF Search, TypeSearch, Stack, Passed, Completed, Fresh
  <2>4. Roots'
    BY <1>1, <1>2, <1>5, <2>1, <2>2, ShapeTasks DEF Search, Roots
  <2>5. Acyclic({u \in Tasks : states[u] = "Complete"})'
    <3>1. {u \in Tasks : states[u] = "Complete"}' = {u \in Tasks : states[u] = "Complete"}
      BY <2>1, <2>2
    <3> QED BY <1>2, <2>2, <3>1 DEF Search, Acyclic
  <2>6. Search'
    BY <2>3, <2>4, <2>5 DEF Search
  <2> QED BY <1>1, <2>1, <2>6, SearchOn
<1>6. CASE states[root] = "Unseen"
  <2>1. enter(root) /\ pc' = pc /\ error' = error
    BY <1>1, <1>6 DEF visit
  <2>2. Search'
    BY <1>1, <1>2, <1>3, <1>6, <2>1, Enter
  <2> QED BY <1>1, <2>1, <2>2, SearchOn
<1> QED BY <1>1, <1>2, <1>4, <1>5, <1>6 DEF Search, TypeSearch

\* The loop of `visit` goes on.
LEMMA DependencyStep ==
  ASSUME Validation, visit_dependency PROVE Validation'
<1> DEFINE last == Last(trail)
           d == dependencies(last)[next[last]]
<1>1. /\ pc = "visit" /\ trail # <<>> /\ next[last] \in DOMAIN dependencies(last) /\ visit(d)
      /\ next' = [next EXCEPT ![last] = @ + 1]
      /\ definitions' = definitions /\ root' = root
  BY DEF visit_dependency
<1>2. Shape /\ IdsOnce /\ DependenciesKnown /\ Search
  BY <1>1 DEF Validation
<1>3. last \in Tasks
  BY <1>1, <1>2 DEF Search, TypeSearch, Last
<1>4. d \in Tasks
  BY <1>1, <1>2, <1>3, Dependency DEF dependencies
<1>5. CASE states[d] = "Complete"
  <2>1. states' = states /\ trail' = trail /\ pc' = pc /\ error' = error
    BY <1>1, <1>5 DEF visit
  <2>2. Search'
    BY <1>1, <1>2, <1>5, <2>1, Skip
  <2> QED BY <1>1, <2>1, <2>2, SearchOn
<1>6. CASE states[d] = "Unseen"
  <2>1. enter(d) /\ pc' = pc /\ error' = error
    BY <1>1, <1>6 DEF visit
  <2>2. root' \in Nat \ {0}
    BY <1>1, <1>2 DEF Search, TypeSearch
  <2>3. Search'
    BY <1>1, <1>2, <1>4, <1>6, <2>1, <2>2, Enter
  <2> QED BY <1>1, <2>1, <2>3, SearchOn
<1>7. CASE states[d] = "Visiting"
  BY <1>1, <1>7, CycleStep
<1> QED BY <1>2, <1>4, <1>5, <1>6, <1>7 DEF Search, TypeSearch

\* Every task is complete when the roots are: no group of tasks is a cycle.
LEMMA FinishStep ==
  ASSUME Validation, finish PROVE Validation'
<1>1. /\ pc = "visit" /\ trail = <<>> /\ root \notin Tasks /\ pc' = "done"
      /\ error' = resolve_output_sources /\ definitions' = definitions
  BY DEF finish
<1>2. Shape /\ IdsOnce /\ DependenciesKnown /\ Search /\ Tasks # {}
  BY <1>1 DEF Validation
<1>3. \A t \in Tasks : t < root
  <2>1. Tasks = 1..Len(definitions) /\ Len(definitions) \in Nat /\ root \in Nat \ {0}
    BY <1>2, ShapeTasks DEF Search, TypeSearch
  <2> QED BY <1>1, <2>1
<1>4. \A t \in Tasks : states[t] = "Complete"
  <2>1. \A t \in Tasks : states[t] # "Unseen" /\ states[t] # "Visiting"
    BY <1>1, <1>2, <1>3 DEF Search, Roots, Stack
  <2> QED BY <1>2, <2>1 DEF Search, TypeSearch
<1>5. Acyclic(Tasks)
  <2>1. {t \in Tasks : states[t] = "Complete"} = Tasks
    BY <1>4
  <2> QED BY <1>2, <2>1 DEF Search
<1>6. error' = NoError <=> WellFormed
  BY <1>1, <1>2, <1>5, ReferencesAnswer, WellFormedMeans
<1>7. error'.kind # "Cycle"
  BY <1>1, <1>2, ReferencesAnswer
<1>8. Shape' /\ WellFormed' = WellFormed
  BY <1>1, <1>2, SameDefinitions
<1>9. CycleIsReal'
  BY <1>7 DEF CycleIsReal
<1> QED BY <1>1, <1>6, <1>8, <1>9 DEF Validation, Verdict

-----------------------------------------------------------------------------
\* What is handed to try_from.

\* The tasks of a document: what the kinds of documents say of them.
Written ==
  /\ IsVec(document.tasks)
  /\ \A t \in DOMAIN document.tasks :
       /\ document.tasks[t].id # Bad /\ IsVec(document.tasks[t].depends_on)
       /\ IsRequest(document.tasks[t])

\* A function over the positions of a vector is one, too.
LEMMA VecOver ==
  ASSUME NEW s, IsVec(s), NEW f, DOMAIN f = DOMAIN s, f = [x \in DOMAIN s |-> f[x]] PROVE IsVec(f)
<1>1. Len(s) \in Nat /\ DOMAIN s = 1..Len(s)
  BY VecShape
<1>2. f \in [1..Len(s) -> Range(f)]
  BY <1>1 DEF Range
<1> QED BY <1>1, <1>2 DEF IsVec

LEMMA WrittenInit ==
  ASSUME MInit PROVE Written
<1>1. PICK kind \in Kinds :
        \E readable \in kind.readable, format \in kind.format, schedule \in kind.schedule, sandbox \in kind.sandbox :
        \E depends_on \in [DOMAIN kind.ids -> kind.depends_on], request \in [DOMAIN kind.ids -> kind.request],
           setting \in [DOMAIN kind.ids -> kind.setting] :
          document = [readable |-> readable, format |-> format, schedule |-> schedule, sandbox |-> sandbox,
            tasks |-> [t \in DOMAIN kind.ids |->
              [id |-> kind.ids[t], depends_on |-> depends_on[t], sandbox |-> setting[t],
               harness |-> request[t].harness, prompt |-> request[t].prompt, prompt_file |-> request[t].prompt_file,
               command |-> request[t].command, options |-> request[t].options]]]
  BY Zenon DEF MInit
<1>2. PICK depends_on \in [DOMAIN kind.ids -> kind.depends_on], request \in [DOMAIN kind.ids -> kind.request],
           setting \in [DOMAIN kind.ids -> kind.setting] :
          document.tasks = [t \in DOMAIN kind.ids |->
              [id |-> kind.ids[t], depends_on |-> depends_on[t], sandbox |-> setting[t],
               harness |-> request[t].harness, prompt |-> request[t].prompt, prompt_file |-> request[t].prompt_file,
               command |-> request[t].command, options |-> request[t].options]]
  <2> DEFINE Tasked(depends_on, request, setting) == [t \in DOMAIN kind.ids |->
                [id |-> kind.ids[t], depends_on |-> depends_on[t], sandbox |-> setting[t],
                 harness |-> request[t].harness, prompt |-> request[t].prompt, prompt_file |-> request[t].prompt_file,
                 command |-> request[t].command, options |-> request[t].options]]
  <2>1. PICK readable \in kind.readable, format \in kind.format, schedule \in kind.schedule, sandbox \in kind.sandbox :
        \E depends_on \in [DOMAIN kind.ids -> kind.depends_on], request \in [DOMAIN kind.ids -> kind.request],
           setting \in [DOMAIN kind.ids -> kind.setting] :
          document = [readable |-> readable, format |-> format, schedule |-> schedule, sandbox |-> sandbox,
            tasks |-> Tasked(depends_on, request, setting)]
    BY <1>1, Zenon
  <2> HIDE DEF Tasked
  <2>2. \E depends_on \in [DOMAIN kind.ids -> kind.depends_on], request \in [DOMAIN kind.ids -> kind.request],
           setting \in [DOMAIN kind.ids -> kind.setting] : document.tasks = Tasked(depends_on, request, setting)
    BY <2>1
  <2> QED BY <2>2, Zenon DEF Tasked
<1>3. /\ IsVec(kind.ids) /\ Bad \notin Range(kind.ids)
      /\ \A names \in kind.depends_on : IsVec(names)
      /\ \A r \in kind.request : IsRequest(r)
  BY KindsAssumption
<1>4. DOMAIN document.tasks = DOMAIN kind.ids
  BY <1>2
<1>5. IsVec(document.tasks)
  BY <1>2, <1>3, <1>4, VecOver
<1>6. ASSUME NEW t \in DOMAIN document.tasks
      PROVE  /\ document.tasks[t].id # Bad /\ IsVec(document.tasks[t].depends_on)
             /\ IsRequest(document.tasks[t])
  <2>1. /\ document.tasks[t].id = kind.ids[t] /\ document.tasks[t].depends_on = depends_on[t]
        /\ document.tasks[t].prompt = request[t].prompt /\ document.tasks[t].prompt_file = request[t].prompt_file
        /\ document.tasks[t].command = request[t].command
    BY <1>2, <1>4
  <2>2. kind.ids[t] \in Range(kind.ids) /\ depends_on[t] \in kind.depends_on /\ request[t] \in kind.request
    BY <1>2, <1>4 DEF Range
  <2>3. IsRequest(request[t])
    BY <1>3, <2>2
  <2> QED BY <1>3, <2>1, <2>2, <2>3 DEF IsRequest
<1> QED BY <1>5, <1>6 DEF Written

\* A vector is one over any set that holds its elements.
LEMMA VecOfSeq ==
  ASSUME NEW S, NEW s \in Seq(S) PROVE IsVec(s)
<1>1. Len(s) \in Nat /\ s \in [1..Len(s) -> S] /\ DOMAIN s = 1..Len(s)
  OBVIOUS
<1>2. s \in [1..Len(s) -> Range(s)]
  BY <1>1 DEF Range
<1>3. s \in Seq(Range(s))
  BY <1>1, <1>2
<1> QED BY <1>3 DEF IsVec

LEMMA SingleOf ==
  ASSUME NEW S, NEW x \in S
  PROVE  <<x>> \in Seq(S) /\ \A k \in DOMAIN <<x>> : <<x>>[k] = x
OBVIOUS

LEMMA TailOf ==
  ASSUME NEW S, NEW s \in Seq(S), s # <<>>
  PROVE  /\ Tail(s) \in Seq(S) /\ DOMAIN Tail(s) = 1..(Len(s) - 1)
         /\ \A k \in DOMAIN Tail(s) : k + 1 \in DOMAIN s /\ Tail(s)[k] = s[k + 1]
OBVIOUS

\* A request that has no error is texts, in which every placeholder is a name.
LEMMA DefinitionShape ==
  ASSUME NEW task, IsRequest(task), task_error(task) = ""
  PROVE  IsTexts(into_definition(task).texts)
<1> DEFINE texts == into_definition(task).texts
<1>1. request_error(task) = ""
  BY DEF task_error
<1>2. CASE task.harness # <<>>
  <2>1. texts = prompt(task)
    BY <1>2 DEF into_definition
  <2>2. CASE task.prompt_file # <<>>
    <3>1. texts = <<task.prompt_file[1].text>> /\ IsVec(task.prompt_file[1].text)
      BY <2>1, <2>2 DEF prompt, IsRequest
    <3> DEFINE text == task.prompt_file[1].text
    <3> HIDE DEF text
    <3>2. <<text>> \in Seq({text}) /\ \A k \in DOMAIN <<text>> : <<text>>[k] = text
      <4>1. text \in {text}
        OBVIOUS
      <4> QED BY <4>1, SingleOf
    <3>3. IsVec(<<text>>)
      BY <3>2, VecOfSeq
    <3>4. IsTexts(<<text>>)
      BY <3>1, <3>2, <3>3 DEF IsTexts, text
    <3> QED BY <3>1, <3>4 DEF text
  <2>3. CASE task.prompt_file = <<>>
    BY <2>1, <2>3 DEF prompt, IsRequest
  <2> QED BY <2>2, <2>3
<1>3. CASE task.harness = <<>>
  <2>1. task.command # <<>> /\ task.command[1] # <<>>
    BY <1>1, <1>3 DEF request_error
  <2> DEFINE words == task.command[1]
  <2>2. texts = Tail(words) /\ IsTexts(words) /\ words # <<>>
    BY <1>3, <2>1 DEF into_definition, IsRequest
  <2> HIDE DEF words, texts
  <2>3. IsVec(words) /\ \A k \in DOMAIN words : IsVec(words[k])
    BY <2>2 DEF IsTexts
  <2>4. words \in Seq(Range(words))
    BY <2>3 DEF IsVec
  <2>5. /\ Tail(words) \in Seq(Range(words))
        /\ \A k \in DOMAIN Tail(words) : k + 1 \in DOMAIN words /\ Tail(words)[k] = words[k + 1]
    BY <2>2, <2>4, TailOf
  <2>6. IsVec(texts)
    BY <2>2, <2>5, VecOfSeq
  <2>7. \A k \in DOMAIN texts : IsVec(texts[k])
    BY <2>2, <2>3, <2>5
  <2>8. IsTexts(texts)
    BY <2>6, <2>7 DEF IsTexts
  <2> QED BY <2>8 DEF texts
<1> QED BY <1>2, <1>3

\* load hands over what the document says of each task, once no task has an
\* error.
LEMMA LoadStep ==
  ASSUME Validation, Written, load PROVE Validation'
<1>1. pc = "off" /\ document' = document
  BY Zenon DEF load
<1>2. CASE UNCHANGED vars
  <2>1. definitions' = definitions /\ pc' = pc /\ trail' = trail /\ root' = root /\ error' = error
        /\ states' = states /\ next' = next
    BY <1>2 DEF vars
  <2>2. Shape' /\ Tasks' = Tasks
    BY <2>1, SameDefinitions DEF Validation
  <2> QED BY <1>1, <2>1, <2>2 DEF Validation, Before
<1>3. CASE load_error = "" /\ begin([t \in DOMAIN document.tasks |-> into_definition(document.tasks[t])])
  <2>1. /\ definitions' = [t \in DOMAIN document.tasks |-> into_definition(document.tasks[t])]
        /\ pc' = "start" /\ trail' = trail /\ root' = root /\ error' = error
        /\ states' = [t \in DOMAIN definitions' |-> "Unseen"] /\ next' = [t \in DOMAIN definitions' |-> 1]
    BY <1>3 DEF begin
  <2>2. DOMAIN definitions' = DOMAIN document.tasks /\ Tasks' = DOMAIN document.tasks
    BY <2>1 DEF Tasks
  <2>3. \A t \in DOMAIN document.tasks : task_error(document.tasks[t]) = ""
    <3> DEFINE answers == [t \in DOMAIN document.tasks |-> task_error(document.tasks[t])]
    <3>1. DOMAIN answers = DOMAIN document.tasks /\ DOMAIN answers \subseteq Nat
      BY VecShape DEF Written
    <3>2. \A t \in DOMAIN document.tasks : answers[t] = task_error(document.tasks[t])
      OBVIOUS
    <3> HIDE DEF answers
    <3>3. first_but("", answers) = ""
      BY <1>3 DEF load_error, answers
    <3>4. \A t \in DOMAIN answers : answers[t] = ""
      BY <3>1, <3>3, FirstBut, Zenon
    <3> QED BY <3>1, <3>2, <3>4, Zenon
  <2>4. IsVec(definitions')
    BY <2>1, <2>2, VecOver DEF Written
  <2>5. ASSUME NEW t \in DOMAIN document.tasks
        PROVE  /\ definitions'[t].id # Bad /\ IsVec(definitions'[t].depends_on)
               /\ IsTexts(definitions'[t].texts)
    <3>1. definitions'[t] = into_definition(document.tasks[t])
      BY <2>1
    <3>2. IsTexts(definitions'[t].texts)
      BY <2>3, <3>1, DefinitionShape DEF Written
    <3>3. definitions'[t].id = document.tasks[t].id /\ definitions'[t].depends_on = document.tasks[t].depends_on
      BY <3>1 DEF into_definition
    <3> QED BY <3>2, <3>3 DEF Written
  <2>6. Shape'
    BY <2>2, <2>4, <2>5 DEF Shape, id, IsVec
  <2>7. Before'
    BY <1>1, <2>1, <2>2 DEF Validation, Before
  <2> QED BY <2>1, <2>6, <2>7 DEF Validation
<1> QED BY <1>2, <1>3, Zenon DEF load

-----------------------------------------------------------------------------
\* The theorem.

LEMMA InitValidation == MInit => Validation /\ Written
<1> SUFFICES ASSUME MInit PROVE Validation
  BY WrittenInit
<1>1. /\ definitions = <<>> /\ pc = "off" /\ error = NoError
      /\ states = <<>> /\ next = <<>> /\ trail = <<>> /\ root = 1
  BY Zenon DEF MInit, Init
<1>2. Tasks = {} /\ Range(definitions) = {}
  BY <1>1 DEF Tasks, Range
<1>3. Shape
  <2>1. IsVec(definitions)
    BY <1>1 DEF IsVec
  <2> QED BY <1>2, <2>1 DEF Shape
<1>4. Before
  <2>1. \A f : DOMAIN f = {} /\ f = [x \in DOMAIN f |-> f[x]] => f = <<>>
    OBVIOUS
  <2>2. states = [t \in Tasks |-> "Unseen"] /\ next = [t \in Tasks |-> 1]
    BY <1>1, <1>2
  <2> QED BY <1>1, <2>2 DEF Before
<1> QED BY <1>1, <1>3, <1>4 DEF Validation

LEMMA ValidationStep ==
  ASSUME Validation, Written, [Next]_mvars PROVE Validation' /\ Written'
<1>1. document' = document /\ Written'
  <2>1. document' = document
    BY Zenon DEF Next, load, validate, Over, mvars
  <2> QED BY <2>1 DEF Written
<1>2. CASE UNCHANGED vars
  <2>1. definitions' = definitions /\ pc' = pc /\ trail' = trail /\ root' = root /\ error' = error
        /\ states' = states /\ next' = next
    BY <1>2 DEF vars
  <2>2. /\ Shape' = Shape /\ Tasks' = Tasks /\ IdsOnce' = IdsOnce /\ DependenciesKnown' = DependenciesKnown
        /\ WellFormed' = WellFormed
    BY <2>1, SameDefinitions
  <2>3. Before' = Before /\ CycleIsReal' = CycleIsReal
    BY <2>1, <2>2 DEF Before, CycleIsReal, index, id, Tasks
  <2>4. Search' = Search
    <3>1. /\ TypeSearch' = TypeSearch /\ Stack' = Stack /\ Passed' = Passed /\ Completed' = Completed
          /\ Roots' = Roots /\ Fresh' = Fresh
      BY <2>1, SameDefinitions DEF TypeSearch, Stack, Passed, Completed, Roots, Fresh
    <3>2. {t \in Tasks : states[t] = "Complete"}' = {t \in Tasks : states[t] = "Complete"}
      BY <2>1, <2>2
    <3>3. Acyclic({t \in Tasks : states[t] = "Complete"})' = Acyclic({t \in Tasks : states[t] = "Complete"})
      BY <2>1, <3>2, SameDefinitions DEF Acyclic
    <3> QED BY <3>1, <3>3 DEF Search
  <2> QED BY <1>1, <2>1, <2>2, <2>3, <2>4 DEF Validation, Verdict
<1>3. CASE load
  BY <1>1, <1>3, LoadStep
<1>4. CASE try_from
  BY <1>1, <1>4, StartStep, RootStep, DependencyStep, LeaveStep, FinishStep DEF try_from
<1> QED BY <1>2, <1>3, <1>4 DEF Next, validate, Over, mvars

LEMMA ValidationIsSound == Validation => ValidationSound
<1> SUFFICES ASSUME Validation PROVE ValidationSound
  OBVIOUS
<1>1. SearchInOrder
  <2> SUFFICES ASSUME pc = "visit"
               PROVE  /\ IsInjective(trail) /\ Range(trail) = {t \in Tasks : states[t] = "Visiting"}
                      /\ \A k \in 1..(Len(trail) - 1) : trail[k + 1] \in Range(dependencies(trail[k]))
                      /\ Completed
    BY DEF SearchInOrder, Completed
  <2>1. Search
    BY DEF Validation
  <2>2. trail \in Seq(Tasks) /\ DOMAIN trail = 1..Len(trail)
    BY <2>1 DEF Search, TypeSearch
  <2>3. IsInjective(trail)
    BY <2>1 DEF Search, Stack, IsInjective
  <2>4. Range(trail) = {t \in Tasks : states[t] = "Visiting"}
    BY <2>1, <2>2 DEF Search, Stack, Range
  <2>5. \A k \in 1..(Len(trail) - 1) : trail[k + 1] \in Range(dependencies(trail[k]))
    BY <2>1, <2>2 DEF Search, Stack
  <2> QED BY <2>1, <2>3, <2>4, <2>5 DEF Search
<1>2. AcceptsWellFormed
  BY DEF Validation, Verdict, AcceptsWellFormed
<1>3. CycleIsReal
  <2>1. pc # "done" => error = NoError
    BY DEF Validation, Before
  <2> QED BY <2>1 DEF Validation, Verdict, CycleIsReal, NoError
<1> QED BY <1>1, <1>2, <1>3 DEF ValidationSound

\* Whatever the document, Workflow::try_from accepts exactly the definitions
\* that make a workflow (IDs that mean one task each, dependencies that are
\* there, no cycle, outputs of direct dependencies only), the cycle it reports
\* is one, and its search visits a task after all its dependencies.
THEOREM ValidationIsRight == Spec => []ValidationSound
<1>1. MInit => Validation /\ Written
  BY InitValidation
<1>2. Validation /\ Written /\ [Next]_mvars => (Validation /\ Written)'
  BY ValidationStep
<1>3. Validation => ValidationSound
  BY ValidationIsSound
<1> QED BY <1>1, <1>2, <1>3, PTL DEF Spec
=============================================================================
