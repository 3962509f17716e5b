SPECIFICATION Spec
CONSTANTS
    Nodes = {1, 2, 3}
    NoNode = 0
    MaxWeight = 3
    MaxInteger = 7
    Superior <- MC_Star
    Node <- MC_Node
    Kernels = {"plain", "tagged", "filed"}
    Home <- MC_Home
    WeightOf <- MC_WeightOf
    FilterOf <- MC_FilterOf
    NoFilter <- MC_NoFilter
    Carries = {}
    FilesOf <- MC_FilesOf
    Local = TRUE
    Expressions <- MC_Expressions
    MaxBreaks = 1
CHECK_DEADLOCK FALSE
INVARIANTS LoadNeverOver FiltersTravel
PROPERTY BestPlacement
