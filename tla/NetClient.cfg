\* Two server identities, two pending callbacks, three failures to give up.
SPECIFICATION FairSpec
CONSTANTS
    A = A  B = B
    Certs = {A, B}
    NoCert = NoCert
    MaxAttempts = 3
    MaxPosted = 2
INVARIANTS
    TypeOK
    PinnedUnlessLost
    ShownWhileConnected
PROPERTIES
    PinOnlyAsked
    StopWithSocket
    RetryEnds
    ImplementsFlow
