SPECIFICATION Spec
CONSTANTS
    r1 = r1
    r2 = r2
    r3 = r3
    a1 = a1
    a2 = a2
    g1 = g1
    g2 = g2
    y1 = y1
    y2 = y2
    k1 = k1
    k2 = k2
    None = None
    Request = {r1, r2, r3}
    Key = {k1, k2}
    YearName = {y1, y2}
    TermName = {"Term 1"}
    ClassName = {"Grade 1", "Grade 2"}
    Admission = {a1, a2}
    Guardian = {g1, g2}
    Phone = {"p1", "p2"}
    Registration <- MCRegistration
    Change <- MCChange
    Placement <- MCPlacement
    Saved = {"ACTIVE", "ARCHIVED"}
    Seed <- MCSeed
SYMMETRY Symmetry
CHECK_DEADLOCK FALSE
INVARIANTS
    KeyBillsOnce
    StructureOfOneSave
PROPERTIES
    BatchMatchesRegister
    ArchivedFrozen
