SPECIFICATION EdgeSpec
CONSTANTS
    c1 = c1
    Calls <- OneCall
    MaxFaults = 2
    RowRules = {"read_only", "scope"}
    RowKinds = {"timeout", "syntax"}
    Sources = {"sales", "stock"}
    Callers <- TwoPeople
    Nobody = Nobody
    t1 = t1
    Threads = {t1}
    NoThread = NoThread
    NumCalls = 3
    Idle = 1
    Skew = 1
    MaxClock = 3
    p1 = p1  p2 = p2
    l1 = l1
    o1 = o1  o2 = o2
    m1 = m1
    google = google  microsoft = microsoft
    anna = anna  ben = ben
    Original = Original
    None = None
    Posts <- TwoPosts
    Logins <- OneLogin
    OidcLogins <- TwoOidcLogins
    Migrations <- OneMove
    Providers <- TwoProviders
    Subjects <- TwoSubjects
INVARIANTS
    NothingRunsUnvetted
    NoAnswerUnrecorded
    RowTellsTheCall
    ConversationsHold
    OneResetPerCredential
    ClaimedOnce
CHECK_DEADLOCK FALSE
