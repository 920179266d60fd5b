\* Two clients one after the other, three events a turn of the pump.  The
\* application stops when it quits, or when the last client is used up.
SPECIFICATION FairSpec
CONSTANTS
    MaxClients = 2
    MaxQueued = 4
    Batch = 3
INVARIANTS
    TypeOK
    ConnectedMeans
    EndMeant
PROPERTIES
    BusyEnds
    WayOut
    DroppedEnds
    EofEnds
    EndNoticed
CHECK_DEADLOCK FALSE
