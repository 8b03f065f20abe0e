SPECIFICATION FairSpec
CONSTANTS
    Grants = {}
    Branches = {"main"}
    Wishes <- OnlyToken
    MaxFaults = 0
    MaxLags = 1
    MaxEdits = 0
    MaxTurns = 0
PROPERTIES TokenUpToDate
CHECK_DEADLOCK FALSE
