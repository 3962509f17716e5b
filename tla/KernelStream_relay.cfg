\* A kernel with a node filter that carries its parent comes through the pipe,
\* another whose parent has a node filter joins it on the socket.
SPECIFICATION Spec
CONSTANTS
    k1 = k1
    k2 = k2
    pipe = pipe
    socket = socket
    far = far
    daemon = daemon
    Kernels = {k1, k2}
    Connections = {pipe, socket}
    Applications = {far, daemon}
    Target <- MCTarget
    First <- MCFirst
    Reader <- MCReader
    Forward <- MCForward
    Filtered = {k1}
    Carrying = {k1, k2}
    FilteredParent = {k2}
    MaxBreaks = 2
INVARIANT Aligned
 
CHECK_DEADLOCK FALSE
