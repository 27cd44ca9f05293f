\* Two connections with two descriptor numbers, each given out again after a
\* close, and pipelined requests answered by two loaders.
CONSTANTS
    Receivers = {r1, r2}
    Loaders = {l1, l2}
    Conns = {c1, c2}
    Fds = {f1, f2}
    Workers = {w1, w2}
    ListenFd = ListenFd
    PipeFd = PipeFd
    MaxSend = 2
    MaxEvents = 2
    None = None
SPECIFICATION Spec
CONSTRAINT FewRequests
SYMMETRY Symmetry
INVARIANTS
    HandleFound ExclusiveReceive HeldHandleIsLive BodyFollowsHeader
    NoLostEdge BacklogNoticed NoSubmitAfterFlush
