\* The code against the docstring on verification by fingerprint.
SPECIFICATION Spec
CONSTANTS
    A = A  B = B
    Certs = {A, B}
    NoCert = NoCert
    MaxAttempts = 2
    MaxPosted = 2
INVARIANT PinnedBeforeSecrets
