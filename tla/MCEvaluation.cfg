SPECIFICATION EvaluationSpec
CONSTANTS
    MaxKids = 2
    Roles = 2
    Suites <- MCSuites
CHECK_DEADLOCK FALSE
INVARIANTS
    ReportsAreEarned
    AttemptsAreClean
PROPERTIES
    SuiteEnds
