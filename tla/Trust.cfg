\* Two clients of one user, our server and one other, two generations.
SPECIFICATION Spec
CONSTANTS
    Clients = {p1, p2}
    Hosts = {ours, other}
    Ours = ours
    Ids = {id1, id2}
    Foreign = foreign
    Certs = {id1, id2, foreign}
    Absent = Absent
    Torn = Torn
    NoCert = NoCert
    Unpinned = Unpinned
    NoFile = NoFile
    Empty = Empty
    Garbage = Garbage
INVARIANTS
    ServedStarts
    NoFalseAlarm
PROPERTIES
    IdentityStable
    PinsKept
