SPECIFICATION Spec
CONSTANTS
    Emails = {e1}
    Passwords = {p1, p2}
    Workers = {w1, w2}
    AccessTtl = 1
    RefreshTtl = 2
    MaxTime = 2
    MaxRequests = 5
SYMMETRY Symmetry
INVARIANTS
    TypeOK
    OneAccountPerEmail
    TokenRotates
    RevokeAllLocksOut
    OneTenantPerOperator
    WorkspaceHasKeys
PROPERTIES
    SavedStaysSaved
CHECK_DEADLOCK FALSE
