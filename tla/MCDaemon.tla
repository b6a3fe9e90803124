------------------------------ MODULE MCDaemon ------------------------------
(***************************************************************************)
(* Instances of Daemon for TLC: which jobs there are, and when they fire.  *)
(* A second has two ticks, so the clock and an `at` can fall between       *)
(* seconds.                                                                *)
(***************************************************************************)
EXTENDS Daemon, TLC

\* Two cron jobs that fire at the same seconds.
TwoCrons == (1 :> {4, 6}) @@ (2 :> {4, 8})
\* Two one-time jobs at the same instant.
TwoOnces == (1 :> {4}) @@ (2 :> {4})

SkipQueue == (1 :> "skip") @@ (2 :> "queue")
ParallelQueue == (1 :> "parallel") @@ (2 :> "queue")

\* Run threads are interchangeable.
RunSymmetry == Permutations(RunIds)
=============================================================================
