------------------------- MODULE MCSonarQubeProject -------------------------
(* Values for TLC: what users may ask for. *)
EXTENDS SonarQubeProject

Bare(ci) == [ci |-> ci, branch |-> "unset", want |-> {}]

All == [Bare(TRUE) EXCEPT !.branch = "main", !.want = Grants]

AllOrLittle == {All, Bare(TRUE)}
OnlyToken == {Bare(TRUE)}
NoToken == {Bare(FALSE)}

=============================================================================
