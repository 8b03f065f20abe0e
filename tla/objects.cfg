SPECIFICATION GatedSpec
CONSTANTS
    Details = {"d"}
    Wishes <- AllOrNothing
    MaxFaults = 1
    MaxLags = 1
    MaxEdits = 2
    MaxTurns = 1
INVARIANT GateTypeOK
PROPERTIES CreatedUnderFinalizer RecordedDeleted NothingForUnlisted ConvergesIfAdmitted DeletionCompletesIfAdmitted
CHECK_DEADLOCK FALSE
