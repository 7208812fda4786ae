\* One print job and an administrator, one restart, one crash of the API; or two
\* print jobs on one queue, the spool cleared once and numbers that do not repeat.
SPECIFICATION Spec
CONSTANTS
    Job = {1, 2}
    CupsJob = {c1, c2}
    p1 = p1
    c1 = c1
    c2 = c2
    Printer = {p1}
    QueueOf <- OnePrinter
    Number <- Distinct
    Reasons = {"quota"}
    Admin = {a1}
    MaxRestarts = 1
    MaxKills = 1
    MaxClears = 1
    MaxCrashes = 1
CHECK_DEADLOCK FALSE
CONSTRAINT Small
INVARIANTS
    TypeOK
    CountedOnce
    OneFailurePerJob
    TrailLeadsOn
PROPERTIES
    InFlightLeftAlone
    ForwardedForGood
