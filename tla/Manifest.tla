------------------------------ MODULE Manifest ------------------------------
(***************************************************************************)
(* Reading a manifest (crates/beez-manifest): its schedules, its sandbox,  *)
(* and each task in turn, up to the first error; what is left is for       *)
(* Workflow::try_from. A part of a document that may be missing is a       *)
(* sequence of at most one element.                                        *)
(*                                                                         *)
(* A definition whose comment starts with "Mutant" is no part of the       *)
(* model: it is a mistake the definition after it could have, and shows    *)
(* that a property would notice.                                           *)
(***************************************************************************)
EXTENDS Workflow, Cron, Policy

CONSTANTS
  Kinds,     \* kinds of documents: what each part of a document may be
  BadIds,    \* texts that are no task ID
  BadText,   \* a text that is no rule, group or path
  BadTime,   \* a text that is no instant
  Harnesses  \* the harnesses there are

\* Tasks and their lists are vectors, and a placeholder that names no task output
\* is no task ID.
IsVec(s) == s \in Seq(Range(s))
IsTexts(texts) == IsVec(texts) /\ \A k \in DOMAIN texts : IsVec(texts[k])
IsRequest(request) ==
  /\ IsTexts(request.prompt)
  /\ request.prompt_file # <<>> => IsVec(request.prompt_file[1].text)
  /\ request.command # <<>> => IsTexts(request.command[1])
ASSUME KindsAssumption ==
  \A kind \in Kinds :
    /\ IsVec(kind.ids) /\ Bad \notin Range(kind.ids)
    /\ \A names \in kind.depends_on : IsVec(names)
    /\ \A request \in kind.request : IsRequest(request)

VARIABLES
  document,  \* the manifest: [readable, format, schedule, sandbox, tasks]
  schedules, \* the schedules of the manifest
  sandboxes, \* the sandbox of each task
  failure    \* why load gave up, or ""

mvars == <<vars, document, schedules, sandboxes, failure>>

-----------------------------------------------------------------------------
\* schedule::resolve

\* JobSchedule::try_from, of [name, cron, at, offset].
try_from_fields(fields) ==
  IF fields.offset # <<>> /\ ~is_offset(fields.offset[1]) THEN Unread("Offset")
  ELSE IF fields.cron # <<>> /\ fields.at # <<>> THEN Unread("CronAndAt")
  ELSE IF fields.cron = <<>> /\ fields.at = <<>> THEN Unread("NoTime")
  ELSE IF fields.cron # <<>>
       THEN new(fields.cron[1], IF fields.offset = <<>> THEN 0 ELSE from_str_offset(fields.offset[1]))
  ELSE IF fields.offset # <<>> THEN Unread("AtWithOffset")
  ELSE IF fields.at[1] = BadTime THEN Unread("Instant")
  ELSE [Unread("none") EXCEPT !.primary = {fields.at[1]}]

repeated_name(list) == \E i, j \in DOMAIN list : i < j /\ list[i].name # <<>> /\ list[i].name = list[j].name

\* The first error, or "".
resolve_schedules(list) ==
  LET read == first_but("none", [i \in DOMAIN list |-> try_from_fields(list[i]).error])
  IN  IF read # "none" THEN read
      ELSE IF Len(list) > 1 /\ \E i \in DOMAIN list : list[i].name = <<>> THEN "Unnamed"
      ELSE IF repeated_name(list) THEN "NameTwice" ELSE ""

-----------------------------------------------------------------------------
\* sandbox::resolve. A table has three sections, each of which may be Missing.

Section == [defaults |-> Unset, groups |-> {}, disable |-> {}, allow |-> {}]
Default == [network |-> Section, filesystem |-> Section, executables |-> Missing]
Unsandboxed == [network |-> Missing, filesystem |-> Missing, executables |-> Missing]

\* parse_all, over every list of a table.
is_parsed(table) ==
  \A part \in DOMAIN table : table[part] # Missing => \A list \in {"groups", "disable", "allow"} : BadText \notin table[part][list]

apply_to(table, base) == [part \in DOMAIN base |-> merge_section(base[part], table[part])]

workflow_sandbox == IF document.sandbox = <<>> THEN Default ELSE apply_to(document.sandbox[1], Default)

\* Mutant: the table of a task stands for itself.
resolve_sandbox_own(setting) ==
  IF setting.kind = "no" THEN Unsandboxed
  ELSE IF setting.kind = "table" THEN apply_to(setting.table, Default) ELSE workflow_sandbox

\* A task runs sandboxed unless it sets `sandbox: false`.
resolve_sandbox(setting) ==
  IF setting.kind = "no" THEN Unsandboxed
  ELSE IF setting.kind = "table" THEN apply_to(setting.table, workflow_sandbox) ELSE workflow_sandbox

-----------------------------------------------------------------------------
\* read_prompt_file and into_definition. A prompt file is the text it holds, or
\* cannot be read.

is_task_id(text) == text \notin BadIds
prompt(task) == IF task.prompt_file # <<>> THEN <<task.prompt_file[1].text>> ELSE task.prompt

request_error(task) ==
  IF task.harness # <<>> /\ prompt(task) # <<>> /\ task.command = <<>>
  THEN IF task.harness[1] \in Harnesses THEN "" ELSE "Harness"
  ELSE IF task.harness = <<>> /\ prompt(task) = <<>> /\ task.command # <<>>
  THEN IF task.options THEN "Options" ELSE IF task.command[1] = <<>> THEN "NoProgram" ELSE ""
  ELSE "NoRequest"

task_error(task) ==
  IF task.prompt_file # <<>> /\ task.prompt # <<>> THEN "PromptTwice"
  ELSE IF task.prompt_file # <<>> /\ ~task.prompt_file[1].readable THEN "PromptFile"
  ELSE IF task.sandbox.kind = "table" /\ ~is_parsed(task.sandbox.table) THEN "Sandbox"
  ELSE IF \E name \in {task.id} \cup ToSet(task.depends_on) : ~is_task_id(name) THEN "TaskId"
  ELSE request_error(task)

\* TaskRequest::texts: the prompt, or the arguments of the program.
into_definition(task) ==
  [id |-> task.id, depends_on |-> task.depends_on,
   texts |-> IF task.harness # <<>> THEN prompt(task) ELSE Tail(task.command[1])]

-----------------------------------------------------------------------------
MInit ==
  /\ \E kind \in Kinds :
     \E readable \in kind.readable, format \in kind.format, schedule \in kind.schedule, sandbox \in kind.sandbox :
     \E depends_on \in [DOMAIN kind.ids -> kind.depends_on], request \in [DOMAIN kind.ids -> kind.request],
        setting \in [DOMAIN kind.ids -> kind.setting] :
       document = [readable |-> readable, format |-> format, schedule |-> schedule, sandbox |-> sandbox,
         tasks |-> [t \in DOMAIN kind.ids |->
           [id |-> kind.ids[t], depends_on |-> depends_on[t], sandbox |-> setting[t],
            harness |-> request[t].harness, prompt |-> request[t].prompt, prompt_file |-> request[t].prompt_file,
            command |-> request[t].command, options |-> request[t].options]]]
  /\ Init /\ schedules = <<>> /\ sandboxes = <<>> /\ failure = ""

\* What load meets first.
load_error ==
  LET timing == resolve_schedules(document.schedule)
      tasks == first_but("", [t \in DOMAIN document.tasks |-> task_error(document.tasks[t])])
  IN  IF ~document.readable THEN "Io"
      ELSE IF document.format \notin {"yaml", "yml", "json"} THEN "UnsupportedFormat"
      ELSE IF timing # "" THEN timing
      ELSE IF document.sandbox # <<>> /\ ~is_parsed(document.sandbox[1]) THEN "Sandbox"
      ELSE tasks

load ==
  /\ pc = "off" /\ failure = ""
  /\ LET found == load_error IN
     \/ /\ found # "" /\ failure' = found
        /\ UNCHANGED <<vars, schedules, sandboxes>>
     \/ /\ found = ""
        /\ schedules' = [i \in DOMAIN document.schedule |-> try_from_fields(document.schedule[i])]
        /\ sandboxes' = [t \in DOMAIN document.tasks |-> resolve_sandbox(document.tasks[t].sandbox)]
        /\ begin([t \in DOMAIN document.tasks |-> into_definition(document.tasks[t])])
        /\ UNCHANGED failure
  /\ UNCHANGED document

validate == try_from /\ UNCHANGED <<document, schedules, sandboxes, failure>>
Over == (failure # "" \/ pc = "done") /\ UNCHANGED mvars

Next == load \/ validate \/ Over
Spec == MInit /\ [][Next]_mvars

-----------------------------------------------------------------------------
\* Properties.

\* What docs/schedules.md says of an expression: the fields of a crontab, with
\* days of week from Sunday as 0 (and 7), at a fixed second, of values in range.
Whole(text) == IF Len(text.fields) = 5 THEN <<Zero>> \o text.fields ELSE text.fields
WeekDays(term) ==
  LET day(d) == IF d.kind = "name" THEN d.n - 1 ELSE d.n
      any == term.days[1].kind = "any"
      first == IF any THEN 0 ELSE day(term.days[1])
      last == IF any \/ (Len(term.days) = 1 /\ term.step # 0) THEN 6 ELSE day(Last(term.days))
  IN  {n % 7 : n \in {n \in first..last : term.step = 0 \/ (n - first) % term.step = 0}}
IsCrontab(text) ==
  LET all == Whole(text)
  IN  \/ text.macro
      \/ /\ Len(text.fields) \in 5..7 /\ Cardinality({n \in 0..59 : admits(all[SECONDS], SECONDS, n)}) = 1
         /\ is_read([all EXCEPT ![DAY_OF_WEEK] = Star])
         /\ \A i \in DOMAIN all[DAY_OF_WEEK] : \A k \in DOMAIN all[DAY_OF_WEEK][i].days :
              LET day == all[DAY_OF_WEEK][i].days[k]
              IN  day.kind # "odd" /\ (day.kind = "number" => day.n \in 0..7)
\* The instants at which a crontab of `text` starts a job, in local time.
Crontab(text) ==
  LET all == Whole(text)
      week == {t \in (-LIMIT)..(Horizon + LIMIT) :
                 \E i \in DOMAIN all[DAY_OF_WEEK] : (t \div Hours) % 7 \in WeekDays(all[DAY_OF_WEEK][i])}
      month == parse([all EXCEPT ![DAY_OF_WEEK] = Star])
      others == parse([all EXCEPT ![DAY_OF_WEEK] = Star, ![DAY_OF_MONTH] = Star])
  IN  IF text.macro THEN parse(text.fields)
      ELSE IF restricts(all[DAY_OF_MONTH]) /\ restricts(all[DAY_OF_WEEK])
      THEN month \cup (week \cap others) ELSE month \cap week

\* Every instant of a schedule's expression, and no other, is a fire: none is
\* passed over by the other half of an "either day", by the count of the days,
\* or by the offset (CronSchedule::new, CronSchedule::next_after).
FiresAsCrontab ==
  pc = "done" => \A i \in DOMAIN schedules : document.schedule[i].cron # <<>> =>
    LET fields == document.schedule[i]
        offset == IF fields.offset = <<>> THEN 0 ELSE fields.offset[1].sign * fields.offset[1].hours
        instants == {t - offset : t \in Crontab(fields.cron[1])} \cap (0..Horizon)
    IN  \A t \in -1..Horizon : next_after(schedules[i], t) = First({u \in instants : u > t})

\* A task has exactly one thing to do, and nothing that does not belong to it.
IsTask(task) ==
  LET has(part) == IF task[part] = <<>> THEN 0 ELSE 1
  IN  /\ has("prompt") + has("prompt_file") = has("harness")
      /\ has("harness") + has("command") = 1
      /\ has("command") = 1 => ~task.options /\ task.command[1] # <<>>
      /\ has("harness") = 1 => task.harness[1] \in Harnesses
      /\ has("prompt_file") = 1 => task.prompt_file[1].readable
      /\ \A name \in {task.id} \cup ToSet(task.depends_on) : name \notin BadIds
      /\ task.sandbox.kind = "table" => is_parsed(task.sandbox.table)
IsSchedule(fields) ==
  \/ /\ fields.cron # <<>> /\ fields.at = <<>> /\ IsCrontab(fields.cron[1])
     /\ fields.offset # <<>> => fields.offset[1].sign # 0 /\ fields.offset[1].hours \in 0..LIMIT
  \/ fields.cron = <<>> /\ fields.offset = <<>> /\ fields.at # <<>> /\ fields.at[1] # BadTime

\* load hands exactly the documents to try_from whose every part is what the
\* docs ask for, with schedules that their names tell apart (load).
LoadsWellFormed ==
  (pc # "off" \/ failure # "") =>
    (failure = "" <=>
      /\ document.readable /\ document.format \in {"yaml", "yml", "json"}
      /\ \A i \in DOMAIN document.schedule : IsSchedule(document.schedule[i])
      /\ \A i, j \in DOMAIN document.schedule : i # j =>
           document.schedule[i].name # <<>> /\ document.schedule[i].name # document.schedule[j].name
      /\ document.sandbox # <<>> => is_parsed(document.sandbox[1])
      /\ \A t \in DOMAIN document.tasks : IsTask(document.tasks[t]))

\* A task of a workflow runs sandboxed unless it says `sandbox: false`, with
\* what the workflow grants and what it grants itself, and it executes anything
\* only when neither lists executables (resolve, apply_to).
SandboxAsWritten ==
  pc = "done" => \A t \in DOMAIN document.tasks :
    LET setting == document.tasks[t].sandbox
        tables == ToSet(document.sandbox) \cup (IF setting.kind = "table" THEN {setting.table} ELSE {})
    IN  IF setting.kind = "no" THEN sandboxes[t] = Unsandboxed
        ELSE \A part \in DOMAIN Default :
          LET written == {table[part] : table \in tables} \ {Missing}
          IN  /\ sandboxes[t][part] = Missing <=> part = "executables" /\ written = {}
              /\ written # {} => sandboxes[t][part].allow = UNION {section.allow : section \in written}

\* What load hands on is what was written, and was fit to be.
LoadsAsWritten == LoadsWellFormed /\ SandboxAsWritten
=============================================================================
