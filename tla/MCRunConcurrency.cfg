\* Two concurrent clients, one session, two runs: submissions, retries, cancellations, closes.
SPECIFICATION Spec
CONSTANTS
    Sessions = {s1}
    Runs = {r1, r2}
    Callers = {c1, c2}
    Keys = {k1}
    Tools = {write}
    SideEffecting = {write}
    OneShot = {}
    Stops = 0
    Cancellable = {r1, r2}
    Hasty = {}
    NoRun = NoRun
    NoSession = NoSession
    NoKey = NoKey
SYMMETRY Symmetry
CHECK_DEADLOCK FALSE
INVARIANTS
    SlotsMatchRuns
    UnfinishedRunsAreOwned
    AnnouncedOnce
    SettledRunsAreOver
    TurnsAreSound
PROPERTIES
    CancelReturnsSettled
