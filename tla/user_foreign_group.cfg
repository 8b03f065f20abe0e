SPECIFICATION Spec
CONSTANTS
    Groups = {"g"}
    Permissions = {}
    Profiles <- FullAndBare
    Wishes <- AllOrNothing
    Starts <- ThereOrNot
    MaxFaults = 0
    MaxLags = 0
    MaxEdits = 2
    MaxTurns = 0
PROPERTIES ForeignGroupsKept
CHECK_DEADLOCK FALSE
