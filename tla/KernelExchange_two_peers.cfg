SPECIFICATION FairSpec
CONSTANTS
    ada = ada
    bob = bob
    p1 = p1
    p2 = p2
    none = none
    k1 = k1
    k2 = k2
    k3 = k3
    Kernels = {k1, k3}
    Parents <- MC_Parents
    Peers = {p1, p2}
    NoPeer = none
    ParentOf <- MC_ParentOf
    Destination <- MC_Destination
    PointToPoint <- MC_PointToPoint
    Weight <- MC_Weight
    MaxLosses = 2
    MaxSessions = 0
CHECK_DEADLOCK FALSE
INVARIANTS TypeOK SingleOwner AnswersOwnSession 
PROPERTIES ImplementsService 
