CONSTANTS
    Rules = {1, 2}
    TriggerType <- MCTriggerType
    ActionType <- MCActionType
    PageSize = 1
    Scenarios <- NothingFails
    MaxMessages = 2
    MaxHistory = 4
    MaxActed = 2
SPECIFICATION Spec
INVARIANTS ActedOnce
