\* One printer checked by one session; one condition and two sessions; two
\* channels and two events.
SPECIFICATION Spec
CONSTANTS
    Checker = {poll}
    Cooldown = 2
    MaxBackoff = 2
    MaxDoublings = 1
    HealthyPeriod = 1
    MaxRestarts = 1
    Observer = {o1, o2}
    RowId = {i1, i2}
    NoId = noId
    Settle = 1
    MaxUpsets = 1
    Channel = {a, b}
    NumEvents = 2
    MaxAttempts = 2
    BackoffCap = 1
    BatchLimit = 2
    MaxLost = 1
    MaxEdits = 1
CHECK_DEADLOCK FALSE
INVARIANTS
    TypeOK
    OneEventPerEpisode
    CrashRepeatsOne
    NoChannelIsSkipped
PROPERTIES
    QueueComesBack
    ConditionIsReported
    EventIsSettled
