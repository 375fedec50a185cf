\* Every server, every kind of route.
CONSTANTS
    Servers = {"asgi", "h1", "h3"}
    Chunks = 2
    Parts = 2
    Tasks <- TwoTasks
    None = None
SPECIFICATION FairSpec
INVARIANTS
    OneResponse
    BodyIsWhole
    TasksAfterBody
    ExceptionsAreAnswered
PROPERTY Answered
