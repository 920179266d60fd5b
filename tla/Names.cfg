\* Three users for a capacity of two: one handshake too many.
SPECIFICATION Spec
CONSTANTS
    Users = {1, 2, 3}
    Anybody = 1
    Foreign = {3}
    MaxTyped = 4
    Typed <- MCTyped
    MaxName = 3
    MaxClients = 2
INVARIANTS
    TypeOK
    NamesDistinct
    AsAccepted
    TagsSuffice
