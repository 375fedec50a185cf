\* Two native workers: one request tears down what the other still uses.
CONSTANTS
    None = None
    t1 = t1
    t2 = t2
    rGens = rGens
    rSlots = rSlots
    rTrivial = rTrivial
    Requests <- MCRequests
    Threads <- TwoThreads
    Entry = "native"
    MaxDeps = 4
    Plan <- MCNativePlan
    Class <- MCClass
SPECIFICATION Spec
INVARIANT TeardownAfterHandler
