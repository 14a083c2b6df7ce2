SPECIFICATION Spec
CONSTANTS
    Rows = {r1, r2, r3}
    PoolPages = 4
    PageTokens = 2
    MaxCtx = 6
SYMMETRY RowSymmetry
INVARIANTS
    PagesExclusive
    NoPageLost
