\* One client, a terminal, a browser or a command line; queues of the smallest size.
SPECIFICATION FairCommandSpec
CONSTANTS
    Kinds = {"shown", "hidden", "foreign", "ask", "resolved", "failure"}
    Produced = {"shown", "hidden", "foreign"}
    Scope = {"shown", "hidden", "ask", "resolved", "failure"}
    Clients = {"client"}
    Topics = {"shown"}
    Fronts <- MCFronts
    Me = "client"
    Ask = "ask"
    Resolved = "resolved"
    Failure = "failure"
    Hows <- MCHows
    MaxActs = 1
    LiveCap = 1
    ReplayLimit = 1
    WireCap = 1
    InboxCap = 1
    BatchSize = 2
    MaxLog = 3
    Losses = 1
    Stops = 1
CHECK_DEADLOCK FALSE
INVARIANTS
    NothingIsSkipped
    ExitsAreEarned
PROPERTIES
    StreamSpec
    ClientsGetOn
