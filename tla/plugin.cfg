SPECIFICATION FairSystemSpec
CONSTANTS
    Passwords = {"p1"}
    Plugins = {"java"}
    Keys = {"java"}
    KeyOf <- OwnKeys
    Versions = {"v1", "v2"}
    Wishes = {"v2"}
    Starts <- OneMishap
    MaxFaults = 1
    MaxLags = 1
    MaxEdits = 1
    MaxSignals = 0
INVARIANTS PluginTypeOK InstallUnderFinalizer
PROPERTIES InstallTakesEffect DeletionCompletes RestartsCease
CHECK_DEADLOCK FALSE
