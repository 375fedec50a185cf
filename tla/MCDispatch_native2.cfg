\* run_native with two workers, which share the globals of _bg; rSlots is on a route
\* that a static route shadows.
CONSTANTS
    None = None
    t1 = t1
    t2 = t2
    rGens = rGens
    rSlots = rSlots
    rTrivial = rTrivial
    Requests <- MCRequests
    Threads <- TwoThreads
    Entry = "native"
    MaxDeps = 4
    Plan <- MCNativePlan
    Class <- MCShadowedClass
SPECIFICATION Spec
INVARIANTS
    TornDownOnce
