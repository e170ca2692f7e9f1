\* One run of a one-shot session: every way its process can end, twice, and its recovery.
SPECIFICATION FairSpec
CONSTANTS
    Sessions = {s1}
    Runs = {r1}
    Callers = {c1, c2}
    Keys = {}
    Tools = {write}
    SideEffecting = {write}
    OneShot = {s1}
    Stops = 2
    Cancellable = {r1}
    Hasty = {r1}
    NoRun = NoRun
    NoSession = NoSession
    NoKey = NoKey
CHECK_DEADLOCK FALSE
INVARIANTS
    StoppedRunsAreSettled
PROPERTIES
    ContractSpec
    EverythingEnds
