SPECIFICATION FairSpec
CONSTANTS
    Host = Host
    Students = {student}
    MaxActs = 3
    MaxEnds = 1
    MaxFaults = 1
INVARIANTS CallKnownWhenSettled PagesAgreeWhenSettled
PROPERTY RemovedLeavesTheCall
CHECK_DEADLOCK FALSE
