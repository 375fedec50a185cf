SPECIFICATION FairSpec
CONSTANTS
    MaxIn = 1
    MaxOut = 1
PROPERTY HandlerEndEndsLoops
\* The connection ends.
CHECK_DEADLOCK FALSE
