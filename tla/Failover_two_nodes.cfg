\* Crashes, broken connections and power failures of two nodes.
CONSTANTS
    Nodes <- MCNodes
    NoNode = 0
    Home = 1
    MaxFailures <- MCMaxFailures
SPECIFICATION FairSpec
INVARIANTS OneWithoutFailure
PROPERTIES CopySurvives PowerFailureSurvived
\* A principal that has finished leaves nothing to do.
CHECK_DEADLOCK FALSE
