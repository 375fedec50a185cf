SPECIFICATION ScopedSpec
CONSTANTS
    App = App
    Outer = Outer
    Inner = Inner
    Leaf = Leaf
    Routers = {Outer, Inner, Leaf}
    None = None
    Methods = {"GET", "HEAD"}
    Templates <- MCTemplates
    IncludePrefixes <- MCPrefixes
    Paths <- MCPaths
    Shapes <- MCShapes
    Classes = {"html"}
    RouterPrefix <- MCRouterPrefix
    RouterDeps <- MCRouterDeps
    RouterClass <- NoClass
    AppDeps <- NoDeps
    AppClass = None
    DocsPaths <- DocsPath
    MaxRoutes = 3
    Literals = {"", "a", "b"}
    MaxSegments = 4
INVARIANTS
    ShortcutAgrees
    GuardsInherited
    MatchIsExact
PROPERTY FirstRegisteredWins
\* The tables fill up.
CHECK_DEADLOCK FALSE
