SPECIFICATION Spec
CONSTANTS
    s1 = s1
    i1 = i1
    i2 = i2
    r1 = r1
    r2 = r2
    r3 = r3
    k1 = k1
    k2 = k2
    k3 = k3
    f1 = f1
    f2 = f2
    None = None
    Student = {s1}
    Invoice = {i1, i2}
    Request = {r1, r2, r3}
    Key = {k1, k2, k3}
    Reference = {f1, f2}
    Owner <- MCOwner
    IssueOrder <- MCIssueOrder
    CaptureDto <- MCCaptureDto
    ReverseDto <- MCReverseDto
    InitialInvoices <- MCInitialInvoices
INVARIANT ReverseReplayReturnsOriginal
