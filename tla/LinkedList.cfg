\* Three nodes, with arbitrary uninitialised pointers.
CONSTANTS
    Node = {n1, n2, n3}
    Root = Root
SPECIFICATION Spec
INVARIANT LinksAgree
PROPERTY RefinesList
