\* The smallest instance with a run at work while an owner is named.
SPECIFICATION DeviceOwnerSpec
CONSTANTS
    OwnerSession = {w1, w2}
    Owner = {amy}
    NoOwner = nobody
    NumReadings = 3
    MaxCopies = 2
    MaxResets = 1
CHECK_DEADLOCK FALSE
INVARIANT NamingStartsAfresh
