SPECIFICATION FairSpec
CONSTANTS
    Grants = {}
    Branches = {"main"}
    Wishes <- NoToken
    MaxFaults = 1
    MaxLags = 0
    MaxEdits = 1
    MaxTurns = 0
PROPERTIES DeletionCompletes
CHECK_DEADLOCK FALSE
