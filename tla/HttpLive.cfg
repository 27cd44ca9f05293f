\* Liveness with two receivers, two loaders of which one or both may get stuck,
\* two pipelined requests, and a worker for reading what follows them.  One
\* event at a time: NoLostEdge looks at the shared array in http_server.  No
\* symmetry.
CONSTANTS
    Receivers = {r1, r2}
    Loaders = {l1, l2}
    Conns = {c1}
    Fds = {f1}
    Workers = {w1, w2, w3}
    ListenFd = ListenFd
    PipeFd = PipeFd
    MaxSend = 2
    MaxEvents = 1
    None = None
SPECIFICATION FairSpec
ACTION_CONSTRAINT Interchangeable
PROPERTIES StopCompletes EveryWorkerReleased EverythingRead
