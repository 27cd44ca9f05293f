\* Two loaders, and a limit that documents can exceed by one.
SPECIFICATION Spec
CONSTANTS
    Loaders = {l1, l2}
    StackLimit = 2
    MaxLevel = 3
INVARIANT DepthLimited
CHECK_DEADLOCK FALSE
