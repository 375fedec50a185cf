SPECIFICATION Spec
CONSTANTS
    None = None
    A = A
    B = B
    C = C
    Scheme = Scheme
    Callables <- AllCallables
    Schemes <- TheScheme
    Scenarios <- MCScenarios
    Dashed <- MCDashed
    Lower <- MCLower
    MaxDepth = 6
INVARIANTS
    CachedOnce
    ValuesAreTheirs
    NobodyLacksAnArgument
    EveryFaultReported
PROPERTY ResolutionEnds
\* A request is prepared once.
CHECK_DEADLOCK FALSE
