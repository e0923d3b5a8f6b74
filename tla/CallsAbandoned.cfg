SPECIFICATION Spec
CONSTANTS
    MaxCalls = 2
    Kinds = {"unary", "stream"}
    Nests = {}
INVARIANT ReportsMostRecent
