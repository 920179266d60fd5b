\* Two connections, both sending, that ask for one name, capacity one, stop
\* signals.  No symmetry: some of the properties are liveness.
SPECIFICATION FairSpec
CONSTANTS
    c1 = c1  c2 = c2
    B = B  B2 = B2  B3 = B3  B4 = B4  U = U
    Conns = {c1, c2}
    Names <- AllNames
    Requested = {B2}
    Fallbacks = {U}
    MaxClients = 1
    Tag <- MCTag
    NoName = NoName
    NoOne = NoOne
    NoTask = NoTask
INVARIANTS
    UniqueNames
    LeaveAnnouncedOnce
    RosterConverges
    CleanExit
PROPERTIES
    DeadLeave
    BroadcastReturns
    StopCompletes
    ImplementsRoom
