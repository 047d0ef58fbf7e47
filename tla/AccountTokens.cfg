\* One account, its goroutine, one API request, two overlapping logins.
CONSTANTS
    a1 = a1  h1 = h1  l1 = l1  l2 = l2  none = none
    Accounts <- OneAccount
    Handlers <- OneHandler
    Logins <- TwoLogins
    MaxGrant = 3
    NoAccount <- none
SPECIFICATION FairSpec
INVARIANTS TypeOK StoredPairOfOneGrant
PROPERTIES RevokedOnlyOnRefusal ConnectionKept SavedBeforeReturned DeadGrantDetected TokenKeptFresh
