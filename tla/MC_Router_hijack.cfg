\* Routes added in every order, routing checked on every path with no
\* condition on the order.
CONSTANTS
    get = get
    none = none
    Methods = {get}
    Statics <- MCStatics
    ParamParts = {":x"}
    WildParts = {"*f"}
    Patterns <- MCPatterns
    Paths <- MCPaths
    None = none
SPECIFICATION Spec
INVARIANT RoutedPathFits
