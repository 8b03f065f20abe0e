------------------------- MODULE MCSonarQubeWorkload -------------------------
(* Values for TLC: an old version, its tag and a new one, an Ingress, and a   *)
(* cluster asked for with and without the edition it needs.                   *)
EXTENDS SonarQubeWorkload

Releases ==
    [v \in {"9.9", "9.9-lts", "10.3"} |->
        [major |-> IF v = "10.3" THEN 10 ELSE 9, minor |-> IF v = "10.3" THEN 3 ELSE 9,
         numeric |-> v # "9.9-lts"]]

Plain(version) ==
    [version |-> version, enterprise |-> FALSE, cluster |-> FALSE, host |-> Disabled]

Specs == {Plain("9.9"), Plain("9.9-lts"), [Plain("9.9") EXCEPT !.cluster = TRUE],
          [Plain("10.3") EXCEPT !.enterprise = TRUE, !.cluster = TRUE, !.host = "host"]}

\* Two edits of the instance, or one and something that goes wrong.
EditsOrFaults == {[faults |-> 0, lags |-> 1, edits |-> 2], [faults |-> 1, lags |-> 1, edits |-> 1]}

=============================================================================
