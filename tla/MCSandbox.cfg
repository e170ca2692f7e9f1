SPECIFICATION FairSpec
CONSTANTS
    Runs = {r1, r2}
    r1 = r1
    r2 = r2
    NoRun = NoRun
    Modes = {TRUE, FALSE}
    Mishaps = 4
    Stops = 2
CHECK_DEADLOCK FALSE
INVARIANTS
    ContainersAreRecorded
    WritersAreExclusive
PROPERTIES
    ContractSpec
    CallsReturn
