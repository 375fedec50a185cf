SPECIFICATION Spec
CONSTANTS
    Classes = {"error"}
    Defaults = {"WebSocketException"}
    Middlewares = {"m"}
    Events = {"e", "f"}
    MountPaths <- TheMountPaths
    Connections = {1}
    Paths <- RequestPaths
    SocketPaths <- Sockets
    None = None
    MaxRegistered = 3
INVARIANTS
    StackIsCurrent
    StopsOnlyWhatStarted
    SocketsAreClosed
PROPERTIES
    CompleteMeansAll
    KeepsProtocol
    LifespanAnswered
\* An application that is not used any more.
CHECK_DEADLOCK FALSE
