------------------------ MODULE MCServiceRunnerServer ------------------------
(***************************************************************************)
(* Instances of ServiceRunnerServer for TLC.                               *)
(***************************************************************************)
EXTENDS ServiceRunnerServer

CONSTANTS geth, other, main, test, own

EnvironmentOf(name, of) == [name |-> name, of |-> of]
ServiceOf(name, version, os, environments) ==
    [name |-> name, version |-> version, os |-> os, environments |-> environments]

\* One service in its second version, with two environments.
OneService ==
    <<ServiceOf(geth, 2, {"linux"},
              <<EnvironmentOf(main, "default"), EnvironmentOf(test, "default")>>)>>

\* Environments of a user: new ones, those of the default, both in either order, and
\* one that has no name.
Ours == EnvironmentOf(own, "user")
Theirs == EnvironmentOf(main, "user")
Environments == {<<Ours>>, <<Theirs>>, <<Ours, Theirs>>, <<EnvironmentOf(None, "user")>>}

\* More environments of the default service; the service in another version, with and
\* without what its operating system needs; another service, for this operating system
\* or for another, and without a version.
Entries ==
    {ServiceOf(geth, 2, {}, es) : es \in Environments}
    \cup {ServiceOf(geth, 1, os, <<Ours>>) : os \in {{}, {"linux"}}}
    \cup {ServiceOf(other, 1, os, <<Theirs, Ours>>) : os \in {{"linux"}, {"osx"}}}
    \cup {ServiceOf(other, None, {"linux"}, <<Ours>>)}

UpToTwo == {<<>>} \cup {<<a>> : a \in Entries} \cup {<<a, b>> : a \in Entries, b \in Entries}
=============================================================================
