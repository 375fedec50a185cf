\* Two threads make their first calls at once, and more calls after them.
CONSTANTS
    None = None
    asgi = asgi
    native = native
    cAsgi = cAsgi
    cBare = cBare
    cFail = cFail
    cIo = cIo
    Threads <- MCThreads
    LoopThreads <- MCLoopThreads
    Calls <- MCCalls
    ThreadOf <- MCThreadOf
    Body <- MCBody
SPECIFICATION FairCallSpec
INVARIANTS
    ReturnedLoopIsReady
    OneLoopPerLock
    OneFrame
    OnlyPrefixRunsTwice
    AskedLoopIsWorkers
PROPERTY CallsReturn
