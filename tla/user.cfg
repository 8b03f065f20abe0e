SPECIFICATION FairSpec
CONSTANTS
    Groups = {"g"}
    Permissions = {"p1", "p2"}
    Profiles <- FullAndBare
    Wishes <- AllOrNothing
    Starts <- ThereOrNot
    MaxFaults = 1
    MaxLags = 1
    MaxEdits = 2
    MaxTurns = 1
INVARIANT UserTypeOK
PROPERTIES CreatedUnderFinalizer GrantsApplied RecordedRevoked NothingForgotten DeletionCompletes
    DeletionDeactivates TokenStoredUnlessTaken ProfileSettles
CHECK_DEADLOCK FALSE
