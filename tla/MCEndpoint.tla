----------------------------- MODULE MCEndpoint -----------------------------
(* Instances of Endpoint for TLC. *)
EXTENDS Endpoint, TLC

CONSTANTS c1, c2

\* One client starts and stops daemons and adds its manifest, the other
\* holds, removes and reloads.
TwoClients == (c1 :> {"add", "stop", "start"}) @@ (c2 :> {"remove", "pause", "reload"})
=============================================================================
