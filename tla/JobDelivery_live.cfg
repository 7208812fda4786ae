\* Every row is resolved; one restart, one crash of the API.
SPECIFICATION FairSpec
CONSTANTS
    Job = {1, 2}
    CupsJob = {c1}
    p1 = p1
    c1 = c1
    c2 = c2
    Printer = {p1}
    QueueOf <- OnePrinter
    Number <- Distinct
    Reasons = {"quota"}
    Admin = {}
    MaxRestarts = 1
    MaxKills = 1
    MaxClears = 0
    MaxCrashes = 0
CHECK_DEADLOCK FALSE
PROPERTIES ForwardingResolves
