\* Three messages per window of three instants, and two failures within two
\* instants that earn a lockout of three; two handshakes of the address at a
\* time, over nine instants, and seven failures in a row.
SPECIFICATION BothSpec
CONSTANTS
    Messages = 3
    RateWidth = 3
    Threshold = 2
    Width = 2
    Duration = 3
    MaxPending = 2
    Horizon = 9
    NotLocked = NotLocked
    MaxFailed = 7
CONSTRAINTS
    OneBusy
    FewFailed
INVARIANTS
    RateHolds
    LimitedJustly
PROPERTIES
    LockEarned
    LockHolds
