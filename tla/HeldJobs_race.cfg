\* Two requests about one hold.
SPECIFICATION Spec
CONSTANTS
    Job = {1}
    CupsJob = {c1}
    p1 = p1
    c1 = c1
    r1 = r1
    r2 = r2
    Printer = {p1}
    QueueOf <- OnePrinter
    Request = {r1, r2}
    Check = {}
    Poll = poll
    MaxCrashes = 0
    MaxSent = 1
CHECK_DEADLOCK FALSE
PROPERTIES FirstMoverWins
