-------------------------- MODULE MCSonarQubePlugin --------------------------
(* Instances of SonarQubePlugin for TLC. *)
EXTENDS SonarQubePlugin

OwnKeys == [p \in Plugins |-> p]

\* A version that is edited or deleted later, with a fault or with a stale
\* decision; and, with neither, no resource yet, whatever the marketplace has, or
\* a source.  A plugin that SonarQube brings along, with neither too.
From(wish, brought, faults, lags) ==
    [wishes |-> [p \in Plugins |-> wish], shipped |-> brought,
     faults |-> faults, lags |-> lags]
BroughtAlong == {From(wish, Keys, 0, 0) : wish \in {"v1", Latest}}
OneMishap == {From("v1", {}, 1, 0), From("v1", {}, 0, 1)} \cup
             {From(wish, {}, 0, 0) : wish \in {None, Latest, FromURL}} \cup
             BroughtAlong

=============================================================================
