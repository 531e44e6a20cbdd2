SPECIFICATION Spec
CONSTANTS
    r1 = r1
    r2 = r2
    r3 = r3
    r4 = r4
    p1 = p1
    p2 = p2
    b1 = b1
    b2 = b2
    None = None
    Request = {r1, r2, r3, r4}
    Browser = {b1, b2}
    Password = {p1, p2}
    FirstPassword = p1
    MaxAttempts = 3
    Body <- MCBody
SYMMETRY Symmetry
CHECK_DEADLOCK FALSE
INVARIANTS
    OneLiveToken
    SessionsMatchPassword
    LockEarned
    JarCurrent
PROPERTIES
    EndedForGood
    ResetsOnce
    LockHolds
