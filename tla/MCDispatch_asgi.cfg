\* The event-loop thread serves every request through _dispatch_async.
CONSTANTS
    None = None
    t1 = t1
    t2 = t2
    rGens = rGens
    rSlots = rSlots
    rTrivial = rTrivial
    Requests <- MCRequests
    Threads <- OneThread
    Entry = "asgi"
    MaxDeps = 4
    Plan <- MCPlan
    Class <- MCClass
SPECIFICATION FairSpec
INVARIANTS
    TeardownAfterHandler
    LastOpenedFirstClosed
    
    FailureReachesEveryDependency
    ReleasedWhenDone
    SlotsAreOwn
PROPERTY EveryRequestLeaves
