\* Three launches, two of one home, a stop in that home, one process killed from outside.
SPECIFICATION Spec
CONSTANTS
    l1 = l1
    l2 = l2
    l3 = l3
    s1 = s1
    h1 = h1
    h2 = h2
    None = None
    Launches = {l1, l2, l3}
    Stops = {s1}
    Homes = {h1, h2}
    HomeOf <- MCHomeOf
    MaxKills = 1
SYMMETRY Symmetry
CHECK_DEADLOCK FALSE
INVARIANTS
    OneCorePerHome
    ShutdownsAreMeant
PROPERTIES
    CommandsTellTheTruth
