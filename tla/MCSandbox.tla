----------------------------- MODULE MCSandbox ------------------------------
(* Instances of Sandbox for TLC. *)
EXTENDS Sandbox, TLC

CONSTANTS r1, r2, r3

W == <<"w">>
H == <<"h">>
T == <<"t">>
\* d or e/x may be missing; l is a link to e; k must not be read; t is the temporary
\* directory, where the sockets of the runs are.
Paths == {<<>>, W, W \o <<"d">>, W \o <<"d", "p">>, W \o <<"d", "q">>, W \o <<"e">>, W \o <<"e", "x">>,
          H, H \o <<"s">>, H \o <<"s", "k">>, H \o <<"c">>, SlashTmp, T} \cup {bridge_directory(r) : r \in Runs}
There == {<<>>, W, W \o <<"e">>, H, H \o <<"s">>, H \o <<"s", "k">>, H \o <<"c">>, SlashTmp, T}
\* A mask of two directories is missing, or two masks of one each.
WithOrWithoutD == {There \cup {W \o <<"e", "x">>}, There \cup {W \o <<"d">>}}

rule(base, rest) == [base |-> base, rest |-> rest]
named(name) == rule("name", name)

\* tool is a script for node, by way of env, and node is a link; run is a script
\* for sh in the working directory; hook is one for odd in a directory that is
\* listed, and nobody asks for odd.
Bin == <<"b">>
TwoLinks == ((W \o <<"l">>) :> (W \o <<"e">>)) @@ ((Bin \o <<"node">>) :> (Bin \o <<"node18">>))
Search == <<W \o <<"e">>, Bin>>
AllFiles == {Bin \o <<n>> : n \in {"sh", "env", "node18", "tool", "git", "odd", "ld"}}
              \cup {<<"g", "fetch">>, <<"g", "hook">>, <<"x", "odd">>, W \o <<"e", "run">>}
Scripts == ((Bin \o <<"tool">>) :> [interpreter |-> Bin \o <<"env">>, program |-> "node"])
             @@ (<<"g", "hook">> :> [interpreter |-> <<"x", "odd">>, program |-> ""])
             @@ ((W \o <<"e", "run">>) :> [interpreter |-> Bin \o <<"sh">>, program |-> ""])
group(programs, state, is_git) == [programs |-> programs, state |-> state, is_git |-> is_git]
Git == group({"git"}, {}, TRUE)
Node == group({"node", "lost"}, {rule("~", <<"c">>)}, FALSE)
JustGit == {Git}
Helpers == {<<"g">>, <<"h">>}
Loader == {Bin \o <<"ld">>}
executables(defaults, groups, disable, allow) ==
  [defaults |-> defaults, groups |-> groups, disable |-> disable, allow |-> allow]

DefaultPaths ==
  [read_deny |-> {rule("~", <<"s", "k">>)}, write_allow |-> {rule(".", <<>>)},
   write_deny |-> {rule(".", <<"d", "p">>)}]
State == {rule("~", <<"s">>)}

section(defaults, read_deny, write_allow, write_deny) ==
  [defaults |-> defaults, read_deny |-> read_deny, write_allow |-> write_allow, write_deny |-> write_deny]
Nothing == section(Unset, {}, {}, {})
\* A task denies a path behind a link and brings a toolchain; a workflow drops
\* the defaults, allows three paths, of which one is inside what it denies, and
\* lists what may execute, and the task adds a deny that does not exist; and a
\* program that is not there.
ThreePolicies ==
  {[workflow |-> Nothing, task |-> section(Unset, {}, {}, {rule(".", <<"l", "x">>)}), program |-> named("tool"),
    executables |-> [workflow |-> Missing, task |-> executables(Unset, {Node}, {}, {})]],
   [workflow |-> section("no", {}, {rule(".", <<"d">>), rule("~", <<"s", "k">>), rule("/", SlashTmp)}, {rule("~", <<"s">>)}),
    task |-> section(Unset, {}, {}, {rule(".", <<"d", "p">>)}), program |-> rule(".", <<"e", "run">>),
    executables |-> [workflow |-> executables(Unset, {}, {}, {named("tool")}),
                     task |-> executables(Unset, {}, {Git}, {rule("/", <<"g">>)})]],
   [workflow |-> Nothing, task |-> Nothing, program |-> named("lost"),
    executables |-> [workflow |-> Missing, task |-> Missing]]}

\* r2 and r3 are runs of the daemon.
TwoProcesses == (r1 :> 1) @@ (r2 :> 2) @@ (r3 :> 2)
DaemonSymmetry == Permutations({r2, r3})
=============================================================================
