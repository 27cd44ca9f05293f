\* Three requests, pipelined or not, every split into reads; bodies with line
\* ends and with text that GetInfo looks for.
CONSTANTS
    Alphabet <- Text
    MaxBody = 2
    MaxRequests = 3
    READ_BUF_SIZE = 4
SPECIFICATION FairSpec
CONSTRAINT FewTokens
INVARIANTS DeliveredInOrder StreamConserved
PROPERTY EveryRequestDelivered
