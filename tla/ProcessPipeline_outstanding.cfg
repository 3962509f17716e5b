SPECIFICATION FairSpec
CONSTANTS
    a1 = a1
    a2 = a2
    a3 = a3
    t1 = t1
    t2 = t2
    t3 = t3
    t4 = t4
    r1 = r1
    r2 = r2
    none = none
    AppOf <- MC_AppOf
    TaskOf <- MC_TaskOf
    Weight <- MC_Weight
    NoProcess = none
    Setups <- MC_Outstanding
    Apps = {a1, a2}
    Tasks = {t1, t2}
    Requests = {r1, r2}
    MaxThreads = 4
    MaxProcesses = 2
CHECK_DEADLOCK FALSE
PROPERTY OutstandingLeaves
