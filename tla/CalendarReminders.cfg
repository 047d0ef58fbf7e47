CONSTANTS
    w1 = w1  w2 = w2  shift = shift  dienst = dienst
    Workers <- JustOne
    Rules = {1, 2}
    Events = {1, 2}
    Times = {600, 662}
    EventLength = 30
    Titles <- BothTitles
    Summary <- MCSummary
    Trigger <- MCTrigger
    Title <- MCTitle
    Offset <- MCOffset
    Duration <- MCDuration
    PageSize = 9
    Scenarios <- FourScenarios
    MaxReminders = 3
    MaxUpsets = 2
SPECIFICATION FairSpec
INVARIANTS TypeOK InsertedOnce NoCrowdedReminders SuccessMeansCreated NoReminderOfReminder
PROPERTIES PromiseKept WantedIsReminded
