SPECIFICATION Spec
CONSTANTS
    r1 = r1
    r2 = r2
    r3 = r3
    r4 = r4
    v1 = v1
    None = None
    Request = {r1, r2, r3, r4}
    Vendor = {v1}
    CreateDto <- MCCreateDto
    ReviewDto <- MCReviewDto
    LastYear = 1
INVARIANTS
    Numbering
    SerialDecidedOnce
