------------------------------ MODULE Sandbox -------------------------------
(***************************************************************************)
(* What a sandbox does with files (crates/beez-sandbox): a policy turned   *)
(* into paths of this host, the paths into mounts (bubblewrap.rs) or rules *)
(* (seatbelt.rs), the files that may be executed, and the directories that *)
(* stand in for denied paths which do not exist. Runs that share a working *)
(* directory share those: each run puts a marker of its own into every one *)
(* it needs, and the last to leave removes it.                             *)
(*                                                                         *)
(* A path is a sequence of names, and a run stands for the name of its own *)
(* socket directory. A definition whose comment starts with "Mutant" is no *)
(* part of the model: it is a mistake the definition after it could have,  *)
(* and shows that a property would notice.                                 *)
(***************************************************************************)
EXTENDS Policy, FiniteSets

CONSTANTS
  Runs, Pid,         \* Pid[r]: the process of the run
  Policies,          \* the filesystem and executables sections of a workflow and
                     \* of a task, and the program to run
  Defaults,          \* the default paths of each list of a section
  StatePaths,        \* HarnessProfile::state_paths
  PathDirs,          \* PATH
  Files,             \* the files that may execute
  Shebang,           \* Shebang[f]: the interpreter of a script, and the program
                     \* that it is to look up if it is `env`
  HARNESS_PROGRAMS, DEFAULT_EXECUTABLE_GROUPS, GIT_HELPER_DIRECTORIES,
  Loaders,           \* the dynamic loaders
  WorkingDirectory, Home,
  Tmp,               \* where std::env::temp_dir() leads
  Tree,              \* every path there is, or could be
  Links,             \* symbolic links: Links[p] is where p leads
  Existing,          \* Existing: the sets of paths that may exist at first
  MARK_ATTEMPTS,
  CrashPoints        \* where a run may be killed

Path == Seq(STRING \cup Runs)
SlashTmp == <<"tmp">>

\* Paths are absolute, links lead to paths, and a policy denies finitely many.
ASSUME SandboxAssumption ==
  /\ {WorkingDirectory, Home, Tmp, SlashTmp} \subseteq Path
  /\ Links \in [DOMAIN Links -> Path] /\ DOMAIN Links \subseteq Path
  /\ Existing \subseteq SUBSET Path /\ Tree \subseteq Path /\ MARK_ATTEMPTS \in Nat
  /\ \A p \in Policies :
       /\ "write_deny" \in DOMAIN p.workflow
       /\ \A rules \in {Defaults["write_deny"], p.workflow["write_deny"], p.task["write_deny"]} :
            IsFiniteSet(rules) /\ \A rule \in rules : rule.rest \in Path
\* Sections as they are read: the lists of a `filesystem`, the groups of an
\* `executables` that is there, and what either may say of its defaults.
ASSUME SectionsAssumption ==
  \A p \in Policies :
    /\ \A section \in {p.workflow, p.task} :
         /\ DOMAIN section = {"defaults", "read_deny", "write_allow", "write_deny"}
         /\ section.defaults \in {Unset, "yes", "no"}
    /\ \A section \in {p.executables.workflow, p.executables.task} \ {Missing} :
         /\ DOMAIN section = {"defaults", "groups", "disable", "allow"}
         /\ section.defaults \in {Unset, "yes", "no"}
\* A file has nothing in it, and only files are scripts.
ASSUME FilesAssumption ==
  /\ PathDirs \in Seq(Path) /\ Files \subseteq Path /\ DOMAIN Shebang \subseteq Files
  /\ \A f, g \in Files : IsPrefix(f, g) => f = g

VARIABLES
  policy, first,     \* what was chosen at first
  dirs,              \* the paths that exist
  markers,           \* pairs of a directory and the run that marked it
  pc,
  resolved,          \* ResolvedSandbox of each run
  masks,             \* MaskPlan: paths with the directories they need
  mounts,            \* the mounts bwrap is asked for, in order
  todo,              \* masks that hold has still to build
  step, attempt,     \* where mark_in_use stands
  held,              \* HeldMasks
  dead,              \* processes that were killed
  raced,             \* history: runs that planned their masks while another one
                     \* was building or removing them, or gave up
  since              \* history: runs that planned since a process was last killed

run_vars == <<resolved, masks, mounts, todo, step, attempt, held>>
vars == <<policy, first, dirs, markers, pc, run_vars, dead, raced, since>>

under(path, directory) == IsPrefix(directory, path)
parent(path) == Front(path)
ancestors(path) == {SubSeq(path, 1, n) : n \in 0..(Len(path) - 1)}
\* Sorted: a parent comes before its children.
sorted(paths) ==
  CHOOSE order \in SetToSeqs(paths) : \A i, j \in DOMAIN order : i < j => Len(order[i]) <= Len(order[j])

-----------------------------------------------------------------------------
\* ResolvedSandbox::resolve

\* fs::canonicalize: where a path leads, whether it exists or not, and whether
\* it does.
follow(path) ==
  LET links == {l \in DOMAIN Links : under(path, l)}
  IN  IF links = {} THEN path
      ELSE LET l == CHOOSE l \in links : TRUE
           IN  Links[l] \o SubSeq(path, Len(l) + 1, Len(path))
exists(path, fs) == follow(path) \in fs

\* SandboxPath::resolve
absolute(rule) ==
  (IF rule.base = "~" THEN Home ELSE IF rule.base = "." THEN WorkingDirectory ELSE <<>>) \o rule.rest

existing(rules, fs) == {follow(absolute(rule)) : rule \in {x \in rules : exists(absolute(x), fs)}}

\* The longest prefix that exists is canonicalized, and the rest appended.
canonicalize_lenient(path, fs) ==
  LET known == {n \in 0..Len(path) : n = 0 \/ exists(SubSeq(path, 1, n), fs)}
      n == CHOOSE n \in known : \A m \in known : m <= n
  IN  follow(SubSeq(path, 1, n)) \o SubSeq(path, n + 1, Len(path))

-----------------------------------------------------------------------------
\* The files that may be executed: those of a name are found as a shell would.

is_executable_file(path) == follow(path) \in Files
find_on_path(name) ==
  LET candidates == [i \in DOMAIN PathDirs |-> Append(PathDirs[i], name)]
      n == SelectInSeq(candidates, is_executable_file)
  IN  IF n = 0 THEN {} ELSE {candidates[n]}

\* Mutant: the path where the name was found is kept, and may be a link.
program_locations_link(name) == find_on_path(name)

program_locations(name) == {follow(path) : path \in find_on_path(name)}

is_bare_name(rule) == rule.base = "name"
locate_program(program) ==
  IF is_bare_name(program) THEN program_locations(program.rest)
  ELSE {follow(absolute(program))} \cap Files

git_helper_directories(git) ==
  {d \in {parent(parent(git)) \o helper : helper \in GIT_HELPER_DIRECTORIES} :
     Len(git) > 1 /\ d \notin Files /\ \E f \in Files : under(f, d)}

shebang_interpreters(script) ==
  IF script \notin DOMAIN Shebang THEN {}
  ELSE LET line == Shebang[script]
       IN  {follow(line.interpreter)}
             \cup (IF Last(line.interpreter) = "env" THEN program_locations(line.program) ELSE {})

\* The program, what is named, the helpers of git, and the interpreter of every
\* script among them.
resolve_executables(section, program) ==
  LET groups == selected(section, DEFAULT_EXECUTABLE_GROUPS)
      names == HARNESS_PROGRAMS \cup {rule.rest : rule \in {x \in section.allow : is_bare_name(x)}}
                 \cup UNION {group.programs : group \in groups}
      named == {program} \cup {p \in {follow(absolute(rule)) : rule \in {x \in section.allow : ~is_bare_name(x)}} :
                                 \E f \in Files : under(f, p)}
                 \cup UNION {program_locations(name) : name \in names}
      paths == named \cup IF \E group \in groups : group.is_git
                          THEN UNION {git_helper_directories(git) : git \in {p \in named : Last(p) = "git"}}
                          ELSE {}
  IN  paths \cup Loaders \cup UNION {shebang_interpreters(p) : p \in paths}

\* ResolvedSandbox::resolve. The groups bring the state of their tools.
resolve(fs, program) ==
  LET filesystem == merge(policy.workflow, policy.task)
      section == merge_section(policy.executables.workflow, policy.executables.task)
      groups == IF section = Missing THEN {} ELSE selected(section, DEFAULT_EXECUTABLE_GROUPS)
      listed(list) == with_defaults(filesystem, Defaults[list], list)
  IN  [read_deny   |-> existing(listed("read_deny"), fs),
       write_allow |-> existing(listed("write_allow") \cup StatePaths \cup UNION {group.state : group \in groups}, fs)
                         \cup (IF or(filesystem.defaults, "yes") = "yes" THEN {Tmp} ELSE {}),
       write_deny  |-> {canonicalize_lenient(absolute(rule), fs) : rule \in listed("write_deny")},
       restricted  |-> section # Missing,
       executables |-> IF section = Missing THEN {} ELSE resolve_executables(section, program)]

inside_write_allow(sandbox, path) == \E a \in sandbox.write_allow : under(path, a) /\ path # a
protected_ancestors(sandbox) ==
  {a \in UNION {ancestors(p) : p \in sandbox.write_deny} : inside_write_allow(sandbox, a)}

-----------------------------------------------------------------------------
\* The two backends.

\* Landlock rules and Seatbelt's literal and subpath filters allow a listed file
\* and what is in a listed directory. Without a section anything may execute.
restrict_execution(sandbox, file) ==
  sandbox.restricted => \E p \in sandbox.executables : under(file, p)

mount(mode, target) == [mode |-> mode, target |-> target]
all(mode, paths) == LET order == sorted(paths) IN [i \in DOMAIN order |-> mount(mode, order[i])]

\* Bridge::start: the sockets of a run are in a directory of its own, which is
\* made before its masks are planned and goes with the run.
bridge_directory(r) == Append(Tmp, r)

\* Mutant: the parents are bound after what is denied in them.
bwrap_arguments_late(sandbox, plan, fs, bridge) ==
  LET denied == {p \in sandbox.write_deny : p \in plan \/ p \in fs}
  IN  <<mount("ro", <<>>)>>
      \o (IF SlashTmp \in sandbox.write_allow THEN <<>> ELSE <<mount("tmpfs", SlashTmp)>>)
      \o all("bind", sandbox.write_allow)
      \o all("ro", denied)
      \o all("bind", protected_ancestors(sandbox) \cap fs)
      \o all("tmpfs", sandbox.read_deny)
      \o <<mount("bind", bridge)>>

\* Everything is read-only; then what may be written, the parents of what is
\* denied in it, so that they cannot be moved, what is denied, what must not be
\* read, and at last the sockets. A mask is an empty directory, and hides as a
\* file does.
bwrap_arguments(sandbox, plan, fs, bridge) ==
  LET denied == {p \in sandbox.write_deny : p \in plan \/ p \in fs}
  IN  <<mount("ro", <<>>)>>
      \o (IF SlashTmp \in sandbox.write_allow THEN <<>> ELSE <<mount("tmpfs", SlashTmp)>>)
      \o all("bind", sandbox.write_allow)
      \o all("bind", protected_ancestors(sandbox) \cap fs)
      \o all("ro", denied)
      \o all("tmpfs", sandbox.read_deny)
      \o <<mount("bind", bridge)>>

\* The last mount on the way to a path decides (external: bwrap, the kernel).
mode_of(arguments, path) ==
  arguments[SelectLastInSeq(arguments, LAMBDA m : under(path, m.target))].mode

\* The rules of a Seatbelt profile about writing.
profile(sandbox) ==
  <<[allow |-> TRUE, paths |-> sandbox.write_allow], [allow |-> FALSE, paths |-> sandbox.write_deny]>>

\* The last rule that names a path decides (external: Seatbelt).
profile_allows(rules, path) ==
  LET n == SelectLastInSeq(rules, LAMBDA rule : \E p \in rule.paths : under(path, p))
  IN  n # 0 /\ rules[n].allow

-----------------------------------------------------------------------------
Unresolved == [read_deny |-> {}, write_allow |-> {}, write_deny |-> {}, restricted |-> FALSE, executables |-> {}]
Init ==
  /\ policy \in Policies /\ first \in Existing /\ dirs = first /\ markers = {}
  /\ pc = [r \in Runs |-> "off"]
  /\ resolved = [r \in Runs |-> Unresolved]
  /\ masks = [r \in Runs |-> <<>>] /\ mounts = [r \in Runs |-> <<>>]
  /\ todo = [r \in Runs |-> <<>>]
  /\ step = [r \in Runs |-> 0] /\ attempt = [r \in Runs |-> 0]
  /\ held = [r \in Runs |-> [markers |-> <<>>, directories |-> <<>>]]
  /\ dead = {} /\ raced = {} /\ since = {}

goto(r, where) == pc' = [pc EXCEPT ![r] = where]
alive(r) == Pid[r] \notin dead
Unsettled == {"create", "mark", "unmark", "rmdir"}
alone(r) == \A q \in Runs \ {r} : pc[q] \notin Unsettled

is_marked(path) == \E m \in markers : m[1] = path

\* The path and its parents, deepest first, as long as they are missing or
\* held by masks.
mask_directories(path) ==
  LET mine(n) == SubSeq(path, 1, n)
      free(n) == mine(n) \notin dirs \/ is_marked(mine(n))
      top == {n \in 1..Len(path) : ~free(n)}
      last == IF top = {} THEN 0 ELSE CHOOSE n \in top : \A m \in top : m <= n
  IN  [i \in 1..(Len(path) - last) |-> mine(Len(path) - i + 1)]

\* Sandbox::new resolves the policy. A program that is not there ends the run.
prepare(r) ==
  /\ pc[r] = "off" /\ alive(r)
  /\ \/ \E program \in locate_program(policy.program) :
          resolved' = [resolved EXCEPT ![r] = resolve(dirs, program)] /\ goto(r, "plan")
     \/ locate_program(policy.program) = {} /\ goto(r, "over") /\ UNCHANGED resolved
  /\ UNCHANGED <<policy, first, dirs, markers, masks, mounts, todo, step, attempt, held, dead, raced, since>>

\* MaskPlan::of, for the denied paths that are missing by now. The proxy and the
\* bridge were started before it; if they cannot start the run ends.
plan_masks(r) ==
  /\ pc[r] = "plan"
  /\ \/ /\ LET sandbox == resolved[r]
               missing == {p \in sandbox.write_deny : inside_write_allow(sandbox, p) /\ mask_directories(p) # <<>>}
               order == sorted(missing)
           IN  masks' = [masks EXCEPT ![r] = [i \in DOMAIN order |-> mask_directories(order[i])]]
        /\ goto(r, "arguments") /\ since' = since \cup {r}
        /\ raced' = IF alone(r) THEN raced ELSE raced \cup {r}
        /\ UNCHANGED resolved
     \/ /\ goto(r, "over") /\ resolved' = [resolved EXCEPT ![r] = Unresolved]
        /\ UNCHANGED <<masks, raced, since>>
  /\ UNCHANGED <<policy, first, dirs, markers, mounts, todo, step, attempt, held, dead>>

planned(r) == {Head(m) : m \in ToSet(masks[r])}

\* The arguments are put together before the masks are built.
arguments(r) ==
  /\ pc[r] = "arguments"
  /\ mounts' = [mounts EXCEPT ![r] = bwrap_arguments(resolved[r], planned(r), dirs, bridge_directory(r))]
  /\ todo' = [todo EXCEPT ![r] = masks[r]]
  /\ step' = [step EXCEPT ![r] = 1] /\ attempt' = [attempt EXCEPT ![r] = 1]
  /\ goto(r, IF masks[r] = <<>> THEN "spawn" ELSE "create")
  /\ UNCHANGED <<policy, first, dirs, markers, resolved, masks, held, dead, raced, since>>

-----------------------------------------------------------------------------
\* mark_in_use, for one mask after the other. `step` counts directories from
\* the top one.

needed(r) == Reverse(Head(todo[r]))

next_mask(r) ==
  /\ todo' = [todo EXCEPT ![r] = Tail(@)]
  /\ step' = [step EXCEPT ![r] = 1] /\ attempt' = [attempt EXCEPT ![r] = 1]
  /\ goto(r, IF Len(todo[r]) = 1 THEN "spawn" ELSE "create")

\* create_dir_all: a parent that another run takes away makes it fail.
create(r) ==
  /\ pc[r] = "create"
  /\ LET path == needed(r)[step[r]] IN
     \/ /\ path \in dirs \/ parent(path) \in dirs
        /\ dirs' = dirs \cup {path}
        /\ IF step[r] < Len(needed(r))
           THEN step' = [step EXCEPT ![r] = @ + 1] /\ UNCHANGED pc
           ELSE step' = [step EXCEPT ![r] = 1] /\ goto(r, "mark")
        /\ UNCHANGED <<todo, attempt, raced>>
     \/ /\ path \notin dirs /\ parent(path) \notin dirs
        /\ next_mask(r) /\ raced' = raced \cup {r} /\ UNCHANGED dirs
  /\ UNCHANGED <<policy, first, markers, resolved, masks, mounts, held, dead, since>>

\* Mutant: the directories are marked as they stand, and nobody looks whether
\* a marker could be written.
mark_blind(r) ==
  /\ pc[r] = "mark"
  /\ LET path == needed(r)[step[r]] IN
     /\ markers' = IF path \in dirs THEN markers \cup {<<path, r>>} ELSE markers
     /\ IF step[r] < Len(needed(r))
        THEN step' = [step EXCEPT ![r] = @ + 1] /\ UNCHANGED <<pc, held, todo, attempt>>
        ELSE /\ held' = [held EXCEPT ![r] = [markers |-> @.markers \o needed(r),
                                             directories |-> @.directories \o Head(todo[r])]]
             /\ next_mask(r)
  /\ UNCHANGED <<policy, first, dirs, resolved, masks, mounts, dead, raced, since>>

\* Mutant: the markers of dead processes stay.
mark_keeps_dead(r) ==
  /\ pc[r] = "mark" /\ needed(r)[step[r]] \in dirs
  /\ markers' = markers \cup {<<needed(r)[step[r]], r>>}
  /\ IF step[r] < Len(needed(r))
     THEN step' = [step EXCEPT ![r] = @ + 1] /\ UNCHANGED <<pc, held, todo, attempt>>
     ELSE /\ held' = [held EXCEPT ![r] = [markers |-> @.markers \o needed(r),
                                          directories |-> @.directories \o Head(todo[r])]]
          /\ next_mask(r)
  /\ UNCHANGED <<policy, first, dirs, resolved, masks, mounts, dead, raced, since>>

\* Parents are marked first. A directory that is gone again means another
\* attempt; at the end the markers of dead processes go.
mark(r) ==
  /\ pc[r] = "mark"
  /\ LET path == needed(r)[step[r]] IN
     \/ /\ path \in dirs /\ step[r] < Len(needed(r))
        /\ markers' = markers \cup {<<path, r>>}
        /\ step' = [step EXCEPT ![r] = @ + 1]
        /\ UNCHANGED <<pc, held, todo, attempt, raced>>
     \/ /\ path \in dirs /\ step[r] = Len(needed(r))
        /\ markers' = {m \in markers \cup {<<path, r>>} : m[1] \in ToSet(needed(r)) => alive(m[2])}
        /\ held' = [held EXCEPT ![r] = [markers |-> @.markers \o needed(r),
                                        directories |-> @.directories \o Head(todo[r])]]
        /\ next_mask(r) /\ UNCHANGED raced
     \/ /\ path \notin dirs /\ attempt[r] < MARK_ATTEMPTS
        /\ attempt' = [attempt EXCEPT ![r] = @ + 1] /\ step' = [step EXCEPT ![r] = 1]
        /\ goto(r, "create") /\ UNCHANGED <<markers, held, todo, raced>>
     \/ /\ path \notin dirs /\ attempt[r] = MARK_ATTEMPTS
        /\ next_mask(r) /\ raced' = raced \cup {r} /\ UNCHANGED <<markers, held>>
  /\ UNCHANGED <<policy, first, dirs, resolved, masks, mounts, dead, since>>

-----------------------------------------------------------------------------
\* bwrap sets up the mounts (external). It makes a mount point that is missing,
\* and fails where a directory it is to bind is not there. The directory of its
\* sockets is the run's own.

sources(r) ==
  {m.target : m \in {x \in ToSet(mounts[r]) : x.mode # "tmpfs"}} \ (planned(r) \cup {bridge_directory(r)})
spawn(r) ==
  /\ pc[r] = "spawn"
  /\ \/ /\ sources(r) \subseteq dirs
        /\ dirs' = dirs \cup planned(r) \cup UNION {ancestors(p) : p \in planned(r)}
        /\ goto(r, "run")
     \/ ~(sources(r) \subseteq dirs) /\ goto(r, "unmark") /\ UNCHANGED dirs
  /\ UNCHANGED <<policy, first, markers, run_vars, dead, raced, since>>

end(r) ==
  /\ pc[r] = "run" /\ goto(r, "unmark")
  /\ UNCHANGED <<policy, first, dirs, markers, run_vars, dead, raced, since>>

\* Drop for HeldMasks: the markers of the run, then the directories, of which
\* only empty ones go.
unmark(r) ==
  /\ pc[r] = "unmark"
  /\ \/ /\ held[r].markers # <<>>
        /\ markers' = markers \ {<<Head(held[r].markers), r>>}
        /\ held' = [held EXCEPT ![r].markers = Tail(@)] /\ UNCHANGED pc
     \/ held[r].markers = <<>> /\ goto(r, "rmdir") /\ UNCHANGED <<markers, held>>
  /\ UNCHANGED <<policy, first, dirs, resolved, masks, mounts, todo, step, attempt, dead, raced, since>>

empty(path) == ~is_marked(path) /\ \A p \in dirs : p = <<>> \/ parent(p) # path

rmdir(r) ==
  /\ pc[r] = "rmdir"
  /\ \/ /\ held[r].directories # <<>>
        /\ dirs' = IF empty(Head(held[r].directories)) THEN dirs \ {Head(held[r].directories)} ELSE dirs
        /\ held' = [held EXCEPT ![r].directories = Tail(@)] /\ UNCHANGED pc
        /\ UNCHANGED <<resolved, masks, mounts>>
     \/ /\ held[r].directories = <<>> /\ goto(r, "over") /\ UNCHANGED <<dirs, held>>
        /\ resolved' = [resolved EXCEPT ![r] = Unresolved]
        /\ masks' = [masks EXCEPT ![r] = <<>>] /\ mounts' = [mounts EXCEPT ![r] = <<>>]
  /\ UNCHANGED <<policy, first, markers, todo, step, attempt, dead, raced, since>>

\* A process is killed, with every run it has.
kill(p) ==
  /\ p \notin dead /\ \E r \in Runs : Pid[r] = p /\ pc[r] \in CrashPoints
  /\ \A r \in Runs : Pid[r] = p => pc[r] \in CrashPoints \cup {"off", "over"}
  /\ dead' = dead \cup {p} /\ since' = {}
  /\ pc' = [r \in Runs |-> IF Pid[r] = p THEN "over" ELSE pc[r]]
  /\ UNCHANGED <<policy, first, dirs, markers, run_vars, raced>>

Over == (\A r \in Runs : pc[r] = "over") /\ UNCHANGED vars

Next ==
  \/ \E r \in Runs :
       \/ prepare(r) \/ plan_masks(r) \/ arguments(r) \/ create(r) \/ mark(r) \/ spawn(r)
       \/ end(r) \/ unmark(r) \/ rmdir(r)
  \/ \E r \in Runs : kill(Pid[r])
  \/ Over

Spec == Init /\ [][Next]_vars

-----------------------------------------------------------------------------
\* Properties.

\* Every variable keeps its type.
TypeOK ==
  /\ policy \in Policies /\ first \in Existing /\ dirs \subseteq Path /\ markers \subseteq Path \X Runs
  /\ pc \in [Runs -> {"off", "plan", "arguments", "create", "mark", "spawn", "run", "unmark", "rmdir", "over"}]
  /\ masks \in [Runs -> Seq(Seq(Path))] /\ todo \in [Runs -> Seq(Seq(Path))]
  /\ held \in [Runs -> [markers : Seq(Path), directories : Seq(Path)]]
  /\ step \in [Runs -> Nat] /\ attempt \in [Runs -> Nat]
  /\ dead \subseteq {Pid[r] : r \in Runs} /\ raced \subseteq Runs /\ since \subseteq Runs

\* What the policies mean: writes are denied unless allowed, and a deny wins
\* over an allow (FilesystemPolicy), wherever links lead, also for a path that
\* does not exist yet (ResolvedSandbox::resolve).
Lists(list) == policy.workflow[list] \cup policy.task[list]
                 \cup (IF merge(policy.workflow, policy.task).defaults = "no" THEN {} ELSE Defaults[list])
Targets(rules) == {follow(absolute(rule)) : rule \in rules}
Within(targets) == {p \in Tree : \E t \in targets : under(p, t)}
Hidden == Within(Targets(Lists("read_deny")) \cap first)
Sections == <<policy.executables.workflow, policy.executables.task>>
Chosen ==
  LET sections == ToSet(Sections) \ {Missing}
      says == {i \in DOMAIN Sections : Sections[i] # Missing /\ Sections[i].defaults # Unset}
  IN  {g \in DEFAULT_EXECUTABLE_GROUPS :
         /\ sections # {} /\ \A i \in says : (\A j \in says : j <= i) => Sections[i].defaults = "yes"
         /\ \A section \in sections : g \notin section.disable}
        \cup UNION {section.groups : section \in sections}
Writable ==
  LET allowed == (Targets(Lists("write_allow") \cup StatePaths \cup UNION {g.state : g \in Chosen}) \cap first)
                   \cup (IF merge(policy.workflow, policy.task).defaults # "no" THEN {Tmp} ELSE {})
  IN  (Within(allowed) \ Within(Targets(Lists("write_deny")))) \ Hidden

\* The paths that the mounts of a run let it write.
Bound(r) == {p \in Tree : mode_of(mounts[r], p) = "bind"}

\* While a run goes on, its mounts let it write exactly what its policy says and
\* the directory of its own sockets, whatever the policy says of that one, unless
\* another run was building or removing masks when it planned its own
\* (bwrap_arguments, MaskPlan).
WritesAsMeant ==
  LET writable == Writable
  IN  \A r \in Runs \ raced : pc[r] = "run" => Bound(r) = writable \cup Within({bridge_directory(r)})

\* Both backends agree about every other path that may be read.
SameOnBoth ==
  LET hidden == Hidden
  IN  \A r \in Runs \ raced : pc[r] = "run" =>
        LET seen == (Tree \ hidden) \ Within({bridge_directory(r)})
        IN  Bound(r) \cap seen = {p \in seen : profile_allows(profile(resolved[r]), p)}

\* Either backend holds a run to its policy.
WritesHeld == WritesAsMeant /\ SameOnBoth

\* The file that a call of `name` in the sandbox would run.
Called(name) == {follow(p) : p \in {Append(PathDirs[i], name) : i \in
  {i \in DOMAIN PathDirs : /\ follow(Append(PathDirs[i], name)) \in Files
                          /\ \A j \in 1..(i - 1) : follow(Append(PathDirs[j], name)) \notin Files}}}
\* What the kernel must be allowed to execute for a file to start.
Executed(file) ==
  {file} \cup Loaders \cup IF file \notin DOMAIN Shebang THEN {}
            ELSE {follow(Shebang[file].interpreter)} \cup
                 IF Last(Shebang[file].interpreter) = "env" THEN Called(Shebang[file].program) ELSE {}
\* What a policy with an `executables` section lists by path and as it is named:
\* the program, and the programs whose names it has or brings.
Listed == Targets({x \in UNION {section.allow : section \in ToSet(Sections) \ {Missing}} : x.base # "name"})
NamedFiles ==
  LET allow == UNION {section.allow : section \in ToSet(Sections) \ {Missing}}
  IN  locate_program(policy.program)
        \cup UNION {Called(name) : name \in HARNESS_PROGRAMS \cup {x.rest : x \in {y \in allow : y.base = "name"}}
                                             \cup UNION {g.programs : g \in Chosen}}

\* With a list of executables, the program and every file that is named start,
\* through links, interpreters and `env`; so may the files in a listed directory,
\* but a script there finds its interpreter only if that is named as well; and
\* nothing else may, but the helpers next to git (resolve_executables).
ExecutesAsMeant ==
  LET files == NamedFiles \cup (Listed \cap Files)
      meant == (UNION {Executed(f) : f \in files}) \cup {f \in Files : \E p \in Listed : under(f, p)}
      gits == {p \in NamedFiles \cup Listed : Last(p) = "git" /\ \E g \in Chosen : g.is_git}
      helpers == {f \in Files : \E git \in gits : \E d \in GIT_HELPER_DIRECTORIES : under(f, parent(parent(git)) \o d)}
  IN  \A r \in Runs : pc[r] = "run" /\ resolved[r].restricted =>
        LET may == {f \in Files : restrict_execution(resolved[r], f)}
        IN  meant \subseteq may /\ may \subseteq meant \cup helpers

\* A run that holds its masks has them until it ends, whatever other runs build
\* and remove (mark_in_use, Drop for HeldMasks): a mask that went would take
\* its mount with it.
HeldMasksStay ==
  \A r \in Runs : pc[r] \in {"spawn", "run"} => ToSet(held[r].directories) \subseteq dirs

\* Every directory that a mount takes is still there when bwrap starts.
SourcesThere == \A r \in Runs \ raced : pc[r] = "spawn" => sources(r) \subseteq dirs

\* What a run is masked by is there from its start to its end.
MasksStay == HeldMasksStay /\ SourcesThere

\* No run takes away what was there before.
NothingTaken == first \subseteq dirs

\* Once every run has ended nothing is left of the masks. Those of a run that was
\* killed are gone too as soon as a run planned the same ones after that, and came
\* to its end (remove_dead_markers).
NothingLeft ==
  (\A r \in Runs : pc[r] = "over") /\ raced = {} /\ (dead = {} \/ since # {}) => dirs = first

\* The host is as it was.
HostRestored == NothingTaken /\ NothingLeft
=============================================================================
