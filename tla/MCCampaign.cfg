\* Two tasks run by two coroutines, one repetition, the controller killed in a run and again while it resumes.
SPECIFICATION CampaignSpec
CONSTANTS
    t1 = t1
    t2 = t2
    l1 = l1
    l2 = l2
    Tasks = {t1, t2}
    Lanes = {l1, l2}
    Retries = 1
    MaxCrashes = 1
    MaxFaults = 1
SYMMETRY Symmetry
INVARIANTS
    WorkersAreKnown
    ScoredWorkIsKept
    ControllerGoesOn
