SPECIFICATION FairSpec
CONSTANTS
    Passwords = {"p1", "p2"}
    MaxFaults = 2
    MaxLags = 1
    MaxEdits = 1
    MaxSignals = 1
INVARIANTS TypeOK ReadyMeansBootstrapped
PROPERTIES OnlyRestartClearsFlag RefinesBootstrap SettlesUnlessWedged RestartServed
CHECK_DEADLOCK FALSE
