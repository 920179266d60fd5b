\* The code against stop()'s docstring.
SPECIFICATION FairSpec
CONSTANTS
    A = A  B = B
    Certs = {A, B}
    NoCert = NoCert
    MaxAttempts = 2
    MaxPosted = 2
PROPERTY StopFinishes
