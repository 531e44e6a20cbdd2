SPECIFICATION BillingSpec
CONSTANTS
    s1 = s1
    s2 = s2
    i1 = i1
    i2 = i2
    i3 = i3
    r1 = r1
    r2 = r2
    g1 = g1
    g2 = g2
    k1 = k1
    k2 = k2
    t1 = t1
    t2 = t2
    None = None
    Student = {s1, s2}
    Invoice = {i1, i2, i3}
    Request = {r1}
    FeesRequest = {g1}
    Key = {k1, k2}
    Reference = {t1, t2}
    Owner <- MCOwner
    IssueOrder <- MCIssueOrder
    CaptureDto <- MCCaptureDto
    ReverseDto <- MCReverseDto
    FeesDto <- MCFeesDto
    InitialInvoices <- MCInitialInvoices
INVARIANT OverdueReminded
