SPECIFICATION FairSpec
CONSTANTS
    main = main
    a = a
    b = b
    c = c
    none = none
    u1 = u1
    u2 = u2
    d1 = d1
    d2 = d2
    timer_thread = timer_thread
    Kernels = {main, a, b, c}
    NoKernel = none
    ParentOf <- MC_ParentOf
    Scheduled = {b}
    At <- MC_At
    Never = 2
    NewThread = {main}
    MayThrow = {c}
    Remote = {a}
    UpThreads = {u1, u2}
    Layouts <- MC_Layouts
    Timer = timer_thread
    SlotByAddress <- MC_SlotByAddress
    SlotById <- MC_SlotById
CHECK_DEADLOCK FALSE
INVARIANTS TypeOK NoLostWakeup ReactsSerial OnePlace NoLeak
PROPERTIES ImplementsService  StopTerminates
