\* The worker's goroutine alone with one login.
CONSTANTS
    a1 = a1  h1 = h1  l1 = l1  l2 = l2  none = none
    Accounts <- OneAccount
    Handlers <- NoHandler
    Logins <- OneLogin
    MaxGrant = 2
    NoAccount <- none
SPECIFICATION Spec
INVARIANTS RevokedMeansWithdrawn
