SPECIFICATION FairSpec
CONSTANTS
    Nodes = {1, 2, 3}
    NoNode = 0
    Fanout = 2
    MaxAttempts = 1
    MaxRadius = 2
    StartsAfter <- MC_InOrder
    Restartable = {2}
    MaxCrashes = 1
    MaxVersion = 5
    MaxTimers = 2
    MaxEvents = 4
    OneThread = TRUE
    MaxPosition = 8
CHECK_DEADLOCK FALSE
INVARIANTS TypeOK Forest  IteratorVisitsAll
PROPERTIES OneSearch  AllKnown
