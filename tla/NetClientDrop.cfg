\* The code against the comments on failed attempts in _main().
SPECIFICATION Spec
CONSTANTS
    A = A  B = B
    Certs = {A, B}
    NoCert = NoCert
    MaxAttempts = 2
    MaxPosted = 2
INVARIANT DropRetried
