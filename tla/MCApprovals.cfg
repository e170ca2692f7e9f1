SPECIFICATION FairSpec
CONSTANTS
    Calls = {c1, c2}
    c1 = c1
    c2 = c2
    Root = c1
    Kinds <- MCKinds
    MaxAttempts = 2
    HostFallback = TRUE
    Drops = 2
    Scenes <- MCScenes
CHECK_DEADLOCK FALSE
INVARIANTS
    CallsRunAsGranted
    RequestsAreLive
PROPERTIES
    InputComesBack
