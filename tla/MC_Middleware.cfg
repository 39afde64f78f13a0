CONSTANTS
    logger = logger
    plain = plain
    auth = auth
    late = late
    twice = twice
    Handlers <- MCHandlers
    Prog <- MCProg
    Comps <- MCComps
    Paths <- MCPaths
    MaxGroups = 3
    MaxUses = 3
SPECIFICATION Spec
INVARIANT ChainInOrder
PROPERTY NoHandlerAfterFail
PROPERTY ChainCompletes
