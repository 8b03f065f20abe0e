-------------------------- MODULE MCSonarQubeObject --------------------------
(* Values for TLC: a spec that asks for all there is, and one for nothing. *)
EXTENDS SonarQubeObject

All == [details |-> Details, default |-> TRUE]
Bare == [details |-> {}, default |-> FALSE]
AllOrNothing == {All, Bare}

=============================================================================
