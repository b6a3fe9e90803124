------------------------------ MODULE MCRunLog ------------------------------
(* Instances of RunLog for TLC. *)
EXTENDS RunLog, TLC

CONSTANTS a, b, c

\* a is a run of the daemon, c a person's, with two tasks.
Pids == (a :> 3) @@ (c :> 2)
Counts == (a :> 1) @@ (c :> 2)
Lines == (a :> 0) @@ (c :> 1)
AllFates == (a :> {"ok"}) @@ (c :> Ends)
TwoOld == {Foreign, <<1, 2>>, <<1, 4>>}

\* a and b are threads of one daemon.
DaemonPid == (a :> 3) @@ (b :> 3)
OneTask == (a :> 1) @@ (b :> 1)
OneLine == (a :> 1) @@ (b :> 1)
JustOk == (a :> {"ok"}) @@ (b :> {"ok"})
NoOld == {}
=============================================================================
