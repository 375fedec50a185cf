\* A handler of the native server that awaits asyncio.sleep(1), among others.
CONSTANTS
    None = None
    asgi = asgi
    native = native
    cAsgi = cAsgi
    cBare = cBare
    cFail = cFail
    cIo = cIo
    Threads <- MCThreads
    LoopThreads <- MCLoopThreads
    Calls <- MCCalls
    ThreadOf <- MCThreadOf
    Body <- MCBody
SPECIFICATION CallSpec
INVARIANT RealAwaitsAreRerun
