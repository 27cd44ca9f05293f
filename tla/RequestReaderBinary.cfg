\* Bodies with NUL bytes.
CONSTANTS
    Alphabet <- Binary
    MaxBody = 2
    MaxRequests = 1
    READ_BUF_SIZE = 3
SPECIFICATION Spec
INVARIANT DeliveredInOrder
