\* Page loads and other requests, whose workers answer at once, when they have
\* read what came with the head, or when they have read everything.
SPECIFICATION FairSpec
CONSTANTS
    Needs = {0, 2, 4}
    ReqLen = 1
    Lead = 2
    HeadLen = 2
    MaxIn = 4
    MaxOut = 4
    Total <- MCTotal
    Capacity = 2
    Chunk = 2
INVARIANTS TypeOK Conserved WholeAnswer CountedIsSent
PROPERTY EveryByteArrives
\* A connection ends.
CHECK_DEADLOCK FALSE
