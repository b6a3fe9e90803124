---------------------------- MODULE MCManifests ----------------------------
(***************************************************************************)
(* Manifests for TLC.                                                      *)
(***************************************************************************)
EXTENDS Manifests, TLC

\* Two manifests with file names of their own.
TwoStems == ("a" :> "a") @@ ("b" :> "b")
Both == <<"a", "b">>
JustA == <<"a">>

Loads(names, schedule) == [names |-> names, schedule |-> schedule, sandboxed |-> TRUE]
Unsandboxed(names) == [names |-> names, schedule |-> 1, sandboxed |-> FALSE]
Unloadable == [names |-> <<>>, schedule |-> 1, sandboxed |-> TRUE]

\* A named schedule in a file that stops loading.
NamedOrBroken == {Loads(<<"x">>, 1), Unloadable}
\* One schedule without a name, edited, and a file whose task loses its
\* sandbox or that does not load.
SandboxLost == {Loads(<<"">>, 1), Loads(<<"">>, 2), Unsandboxed(<<"">>), Unloadable}

FirstPlain == [p \in {"a", "b"} |-> Loads(<<"">>, 1)]
FirstNamed == [p \in {"a", "b"} |-> Loads(<<"x">>, 1)]

\* Run threads are interchangeable.
RunSymmetry == Permutations(RunIds)
=============================================================================
