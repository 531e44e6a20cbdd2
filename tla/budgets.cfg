SPECIFICATION Spec
CONSTANTS
    r1 = r1
    r2 = r2
    r3 = r3
    b1 = b1
    b2 = b2
    b3 = b3
    n1 = n1
    n2 = n2
    n3 = n3
    c1 = c1
    c2 = c2
    t1 = t1
    t2 = t2
    None = None
    Request = {r1, r2, r3}
    Budget = {b1, b2, b3}
    Name = {n1, n2, n3}
    Category = {c1, c2}
    Term = {t1, t2}
    SaveDto <- MCSaveDto
    ReviewDto <- MCReviewDto
    InitialBudgets <- MCInitialBudgets
CHECK_DEADLOCK FALSE
INVARIANTS
    SavesAtomic
    SerialOneApproved
    ArchivedHasSuccessor
PROPERTY
    ApprovedImmutable
