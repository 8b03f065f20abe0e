SPECIFICATION FairSpec
CONSTANTS
    Grants = {"g"}
    Branches = {"main", "dev"}
    Wishes <- AllOrLittle
    MaxFaults = 1
    MaxLags = 1
    MaxEdits = 2
    MaxTurns = 1
INVARIANT ProjectTypeOK
PROPERTIES CreatedUnderFinalizer KeepsPromise OneTokenPerRequest TokenStored DeletionReachesSonarQube
    GrantsFollowSpec BranchSettles NothingForgotten
CHECK_DEADLOCK FALSE
