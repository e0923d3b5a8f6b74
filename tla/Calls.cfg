SPECIFICATION Spec
CONSTANTS
    MaxCalls = 2
    Kinds = {"unary", "stream"}
    Nests = {1}
INVARIANTS
    ReportsLastEnded
    NestedIsIsolated
    VerdictIsHandlers
