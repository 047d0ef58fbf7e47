CONSTANTS
    w1 = w1  w2 = w2  shift = shift  dienst = dienst
    Workers <- TwoWorkers
    Rules = {1}
    Events = {1}
    Times = {600}
    EventLength = 30
    Titles <- BothTitles
    Summary <- MCSummary
    Trigger <- MCTrigger
    Title <- MCTitle
    Offset <- MCOffset
    Duration <- MCDuration
    PageSize = 9
    Scenarios <- NothingFails
    MaxReminders = 2
    MaxUpsets = 0
SPECIFICATION Spec
INVARIANTS NoCrowdedReminders
