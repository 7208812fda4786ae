\* Two administrators and two schedules; two starters, two jobs and two people;
\* one account and three polls; one meter, read twice; one queued job and
\* two tabs; one device that moves once; one job and four rounds of the counter
\* loop; one person, one job and two editors; one line in two files; two years
\* of two days; three jobs and one loop.
SPECIFICATION Spec
CONSTANTS
    Admin = {x, y}
    NumSchedules = 2
    Horizon = 1
    MaxLostReports = 1
    Starter = {request, loop}
    NumStaff = 2
    MAX_ACCOUNTS = 2
    NumJobs = 2
    MaxBreaks = 1
    Account = {n1}
    MaxPages = 1
    NumPolls = 3
    MaxByHand = 1
    OwnerSession = {w1, w2}
    Owner = {amy}
    NoOwner = nobody
    NumReadings = 3
    MaxCopies = 1
    MaxResets = 1
    QueuedJob = {j1}
    Reprioritiser = {r1, r2}
    NORMAL_PRIORITY = 3
    YIELDED_PRIORITY = 1
    LowPriority = 2
    SyncSession = {s1, s2}
    DeviceAddress = {a1, a2}
    MaxMoves = 1
    SentJob = {j1}
    MaxJobPages = 2
    Window = 3
    StaleAfter = 1
    MinShortfall = 2
    NumRounds = 4
    MaxWalkUps = 1
    Address = {old, new}
    Username = {matt}
    NoName = noName
    Writer = {w1, w2}
    PrintJob = {j1}
    MaxDirectories = 1
    MaxEdits = 1
    Line = {l1}
    Batch = {b1, b2}
    ImportSession = {s1, s2}
    MaxForced = 1
    DaysInYear = 2
    StatedYear = {0, 1}
    NumTerms = 2
    Editor = {e1, e2}
    MaxChanges = 3
    NumInkJobs = 3
    SETTLE = 1
    HORIZON = 2
    BATCH = 1
    MATCH_WINDOW = 1
    LastTime = 3
    MaxCleared = 1
CHECK_DEADLOCK FALSE
INVARIANTS
    TypeOK
    StuckIsExplained
    RecordIsTrue
    ChargesAreTrue
    CreditedFromHereOn
    NoQueueJump
    EditReachesQueue
    WarningIsFresh
    AlarmIsEarned
    NoJobLeftBehind
    CountedOncePerLine
    OneTermADay
    GapIsExplained
    MeasuredIsOwn
