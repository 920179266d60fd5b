\* Two connections one after the other, room for one member.
SPECIFICATION FairSpec
CONSTANTS
    c1 = c1  c2 = c2  U = U  A = A
    Conns = {c1, c2}
    Names = {U}
    Requested = {U}
    Fallbacks = {U}
    MaxClients = 1
    Tag <- MCTag
    NoName = NoName
    NoOne = NoOne
    NoTask = NoTask
    Certs = {A}
    NoCert = NoCert
    MaxAttempts = 2
    MaxPosted = 1
INVARIANTS
    TypeOK
    InRoom
    ProofFirst
    WrongPasswordMeant
ACTION_CONSTRAINT Representative
PROPERTIES
    OldSessionsLeave
