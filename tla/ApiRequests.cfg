CONSTANTS
    Clients = {c1, c2}
    Users = {u1, u2}
    GoogleIds = {g1, g2}
    Accounts = {a1, a2}
    Rules = {r1}
    Messages = {m1}
    NoRule = NoRule
SPECIFICATION Spec
INVARIANTS TypeOK EveryToggleCounts NothingOrphaned LogsWithinAccount
           RemovedOnce OneRowPerConnection AnswersShowOwn FailureCostsItself
PROPERTIES ActsAtomically
SYMMETRY Symmetry
