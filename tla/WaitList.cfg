\* All three forms of get; no symmetry, liveness is checked.
CONSTANTS
    Producers = {p1, p2}
    Consumers = {c1, c2, c3}
    Nodes = {n1, n2}
    Kinds = {"get", "get_timed", "get_from_head"}
    NULL = NULL
    NoNode = NoNode
SPECIFICATION FairSpec
INVARIANTS NoLostWakeup NobodySleepsOnDeadList
PROPERTIES RefinesTaskQueue EveryTaskTaken FlushReleasesAll
