-------------------------- MODULE MCInstanceRefGate --------------------------
(* Values for TLC, as in MCSonarQubeObject. *)
EXTENDS InstanceRefGate

All == [details |-> Details, default |-> TRUE]
Bare == [details |-> {}, default |-> FALSE]
AllOrNothing == {All, Bare}

=============================================================================
