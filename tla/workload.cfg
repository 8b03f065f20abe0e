SPECIFICATION Spec
CONSTANTS
    Versions = {"9.9", "9.9-lts", "10.3"}
    PartsOf <- Releases
    Hosts = {"host"}
    Wishes <- Specs
    Bounds <- EditsOrFaults
INVARIANTS WorkloadTypeOK NoDowngrade
PROPERTIES FollowsSpec StatusFollowsSpec NothingLeftBehind
CHECK_DEADLOCK FALSE
