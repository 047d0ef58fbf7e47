CONSTANTS
    Rules = {1, 2}
    TriggerType <- MCTriggerType
    ActionType <- MCActionType
    PageSize = 1
    Scenarios <- TwoScenarios
    MaxMessages = 2
    MaxHistory = 4
    MaxActed = 2
SPECIFICATION FairSpec
INVARIANTS TypeOK ActedOnStored ActedOncePerChange NothingForgotten
PROPERTIES CursorMovesForward SyncedMailIsHandled RowCatchesUp
