\* Routes added in every order: the pass run checks routing on every
\* path while no insert was absorbed by a wild node.
CONSTANTS
    get = get
    none = none
    Methods = {get}
    Statics <- MCStatics
    ParamParts = {":x"}
    WildParts = {"*f"}
    Patterns <- MCPatterns
    Paths <- MCPaths
    None = none
SPECIFICATION Spec

INVARIANT TypeOK
INVARIANT RoutedPathFitsUnlessAbsorbed
INVARIANT FittingPathRoutedUnlessAbsorbed
