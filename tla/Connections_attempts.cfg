\* One and two attempts to connect, with and without a neighbour in the cache.
CONSTANTS
    a = a
    b = b
    Peers = {a, b}
    Kernels = {1, 2}
    MaxConnections = 3
    Setups <- MCSetups
SPECIFICATION FairSpec
INVARIANTS TypeOK SocketsServed
PROPERTIES EveryKernelReturns
\* Once everything is sent and answered there may be nothing to do.
CHECK_DEADLOCK FALSE
