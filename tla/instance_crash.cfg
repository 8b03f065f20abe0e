SPECIFICATION FairSpec
CONSTANTS
    Passwords = {"p1"}
    MaxFaults = 1
    MaxLags = 0
    MaxEdits = 0
    MaxSignals = 0
PROPERTIES BootstrapResumes
