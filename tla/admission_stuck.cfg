SPECIFICATION GatedSpec
CONSTANTS
    Details = {}
    Wishes <- AllOrNothing
    MaxFaults = 0
    MaxLags = 0
    MaxEdits = 1
    MaxTurns = 1
PROPERTIES DeletionCompletes
CHECK_DEADLOCK FALSE
