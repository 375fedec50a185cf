\* An async handler of the ASGI server awaits the body of its request.
CONSTANTS
    None = None
    asgi = asgi
    native = native
    cAsgi = cAsgi
    cBare = cBare
    cFail = cFail
    cIo = cIo
    Threads <- MCServerThreads
    LoopThreads <- MCLoopThreads
    Calls <- MCServerCalls
    ThreadOf <- MCServerThreadOf
    Body <- MCServerBody
SPECIFICATION FairCallSpec
PROPERTY CallsReturn
\* The process ends up blocked.
CHECK_DEADLOCK FALSE
