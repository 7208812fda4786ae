\* Two sessions, two addresses, one move of the device.
SPECIFICATION QueueSyncSpec
CONSTANTS
    SyncSession = {s1, s2}
    DeviceAddress = {a1, a2}
    MaxMoves = 1
CHECK_DEADLOCK FALSE
INVARIANT QueueFollowsRow
