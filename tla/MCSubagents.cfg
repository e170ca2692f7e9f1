SPECIFICATION Spec
CONSTANTS
    Children = {a, b}
    a = a
    b = b
    Root = Root
    NoAgent = NoAgent
    Outcomes = {"succeeded"}
    Cancels = 1
    Timeouts = 1
    Mishaps = 1
    Shutdowns = 1
SYMMETRY Symmetry
CHECK_DEADLOCK FALSE
INVARIANTS
    AgentsAreOwned
    CancelledTreesStaySettled
PROPERTIES
    SettledOnce
