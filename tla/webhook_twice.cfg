SPECIFICATION FairSpec
CONSTANTS
    Details = {}
    Wishes <- AllOrNothing
    MaxFaults = 0
    MaxLags = 1
    MaxEdits = 0
    MaxTurns = 0
PROPERTIES WebhookIdempotent
CHECK_DEADLOCK FALSE
