\* A report arrives while the sweep is working.
SPECIFICATION Spec
CONSTANTS
    Job = {1}
    CupsJob = {c1}
    p1 = p1
    c1 = c1
    c2 = c2
    Printer = {p1}
    QueueOf <- OnePrinter
    Number <- Distinct
    Reasons = {"quota"}
    Admin = {}
    MaxRestarts = 0
    MaxKills = 0
    MaxClears = 0
    MaxCrashes = 0
CHECK_DEADLOCK FALSE
PROPERTIES SweepRespectsReports
