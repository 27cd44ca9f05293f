\* The reference that the "[Package Invalid]" path keeps.
CONSTANTS
    Receivers = {r1}
    Loaders = {l1}
    Conns = {c1}
    Fds = {f1}
    Workers = {w1}
    ListenFd = ListenFd
    PipeFd = PipeFd
    MaxSend = 1
    MaxEvents = 1
    None = None
SPECIFICATION Spec
INVARIANT ErroredSocketDisconnected
