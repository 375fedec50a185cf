SPECIFICATION FairSpec
CONSTANTS
    MaxIn = 2
    MaxOut = 2
PROPERTIES
    InboundPipe
    OutboundPipe
    ServerCloseLosesNothing
    ReceiveUnblocks
    ServerCloseEndsLoops
\* The connection ends.
CHECK_DEADLOCK FALSE
