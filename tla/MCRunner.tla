------------------------------ MODULE MCRunner ------------------------------
(***************************************************************************)
(* Workflows for TLC.                                                      *)
(***************************************************************************)
EXTENDS Runner, TLC

\* 2 and 3 come first, 1 needs 3, 4 needs both: two waves in which a task can
\* run beside one that is blocked, and a task that is declared first and runs
\* late.
Wide == (1 :> {3}) @@ (2 :> {}) @@ (3 :> {}) @@ (4 :> {2, 3})
WideReads == (1 :> {3}) @@ (2 :> {}) @@ (3 :> {}) @@ (4 :> {2})

\* Success, an exit code, a signal, and a program that cannot run.
SomeFates == {0, 2, Signal, Error}
=============================================================================
