\* The constants of the protocol; names of three Latin letters, of four
\* characters of three bytes, and of 24 characters of four.
SPECIFICATION Spec
CONSTANTS
    MaxFrame = 8192
    MaxChars = 2000
    MaxClients = 50
    NameSizes = {3, 12, 96}
    Lengths = {1, 1500, 2000, 2001}
    TsBytes = 18
INVARIANT FramesFit
