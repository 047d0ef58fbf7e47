CONSTANTS
    a1 = a1  a2 = a2
    Accounts <- OneAccount
    Period = 3
    Timeout = 2
    MaxCrashes = 0
SPECIFICATION FairSpec
PROPERTIES GmailIsProcessed
