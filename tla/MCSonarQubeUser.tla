--------------------------- MODULE MCSonarQubeUser ---------------------------
(* Values for TLC: a spec that asks for all there is, and one for nothing. *)
EXTENDS SonarQubeUser

Full == [name |-> "p", email |-> "p@example.org"]
Bare == [name |-> "q", email |-> NoEmail]
FullAndBare == {Full, Bare}

All == [profile |-> Full,
        grant |-> [groups |-> Groups, perms |-> Permissions, token |-> TRUE]]

AllOrNothing == {All, [profile |-> Bare, grant |-> Nothing]}

\* An account that is there or was deactivated, in a version of SonarQube that
\* refuses to grant what is granted, with fewer edits, and in one that does not.
Account(isActive, profile, refuses, edits) ==
    [active |-> isActive, identity |-> profile, scm |-> profile,
     strict |-> refuses, edits |-> edits]

ThereOrNot == {Account(TRUE, Full, TRUE, 1), Account(FALSE, Full, TRUE, 1),
               Account(TRUE, Bare, FALSE, MaxEdits), Account(FALSE, Bare, FALSE, MaxEdits)}

=============================================================================
