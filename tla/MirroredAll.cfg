SPECIFICATION Spec
CONSTANTS
    a = a
    c = c
    b = b
    x = x
    None = None
    Blank = Blank
    Callers <- MCCallers
    Contents <- MCContents
    i = i
    j = j
    Certs <- MCCerts
    MaxMishaps = 2
SYMMETRY Symmetry
CHECK_DEADLOCK FALSE
INVARIANTS DivergenceHasCause RemovalIsFinal LoneCallMends
