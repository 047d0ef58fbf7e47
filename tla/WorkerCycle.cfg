CONSTANTS
    a1 = a1  a2 = a2
    Accounts <- TwoAccounts
    Period = 3
    Timeout = 2
    MaxCrashes = 1
SPECIFICATION FairSpec
INVARIANTS TypeOK OneGoroutinePerAccount StampedWithToken
PROPERTIES ActiveAccountIsChecked
