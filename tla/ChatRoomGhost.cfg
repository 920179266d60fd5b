\* The code against its documentation: NoGhost is violated.
SPECIFICATION Spec
CONSTANTS
    c1 = c1  c2 = c2
    B = B  B2 = B2  B3 = B3  B4 = B4  U = U
    Conns = {c1, c2}
    Names = {U}
    Requested = {U}
    Fallbacks = {U}
    MaxClients = 1
    Tag <- MCTag
    NoName = NoName
    NoOne = NoOne
    NoTask = NoTask
INVARIANT NoGhost
