SPECIFICATION Spec
CONSTANTS
    Callers = {a, b}
    a = a
    b = b
    NoCaller = NoCaller
    Attempts = 2
    Limit = 3
    Cap = 5
    Reserve = 2
    Bills = {1, 2}
    Modes = {TRUE, FALSE}
    SealFaults = 1
    Crashes = 1
    MaxSteps = 2
    Window = 6
    Prompt = 1
    ResultSizes = {1, 2}
    SummarySizes = {1, 5}
    Histories <- MCHistories
    Summaries = 1
SYMMETRY Symmetry
INVARIANTS
    BudgetsHold
    RequestsAreSound
    ContextIsKept
