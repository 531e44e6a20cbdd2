SPECIFICATION Spec
CONSTANTS
    r1 = r1
    r2 = r2
    r3 = r3
    m1 = m1
    m2 = m2
    None = None
    Request = {r1, r2, r3}
    Member = {m1, m2}
    Name = {"Administrator", "Accountant", "Principal", "Bursar", "Clerk"}
    RolesOf <- MCRolesOf
    Body <- MCBody
CHECK_DEADLOCK FALSE
INVARIANTS
    GrantsOfOneSave
    PresentedAsSaved
    AuditChains
