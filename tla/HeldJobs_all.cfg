\* One hold with every handler racing for it and one crash, or two holds of one job.
SPECIFICATION FairSpec
CONSTANTS
    Job = {1, 2}
    CupsJob = {c1}
    c1 = c1
    p1 = p1
    r1 = r1
    r2 = r2
    Printer = {p1}
    QueueOf <- OnePrinter
    Request = {r1, r2}
    Check = {k1}
    Poll = poll
    MaxCrashes = 1
    MaxSent = 1
CHECK_DEADLOCK FALSE
CONSTRAINT Small
INVARIANTS
    TypeOK
    HeldDocumentSurvives
    HeldHasPath
    ForwardedWasSent
    HeldMeansUnsent
PROPERTIES
    CustodySpec
    SettledForGood
    OfflineHoldGoes
    ExpiringHoldGoes
    DocumentReclaimed
