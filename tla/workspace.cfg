SPECIFICATION Spec
CONSTANTS
    u1 = u1
    u2 = u2
    pay1 = pay1
    None = None
    User = {u1, u2}
    List = {"students", "payments", "expenses"}
    Kept = {"expenses"}
    Assignments <- MCAssignments
    Row = {pay1}
    ListOf <- MCListOf
    LoadSlots = 1
CHECK_DEADLOCK FALSE
INVARIANTS
    TypeOK
    ShownToPermitted
    IdentityIsSession
