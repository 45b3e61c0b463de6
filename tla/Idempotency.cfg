SPECIFICATION FairSpec
CONSTANTS
    t1 = t1
    t2 = t2
    k1 = k1
    k2 = k2
    draft = draft
    scheduled = scheduled
    upload = upload
    Null = Null
    Threads = {t1, t2}
    Keys = {k1, k2}
    Bodies = {draft, scheduled, upload}
    MediaBodies = {upload}
    ScheduleBodies = {scheduled}
    TTL = 1
    Limit = 1
    FaultKinds = {"crash", "db_error"}
    MaxFaults = 1
    MaxCalls = 3
CHECK_DEADLOCK FALSE
INVARIANTS
    OwnerKeepsClaim
    CreatedOnce
    AnswersAreTrue
    QuotaOverrunBounded
PROPERTIES
    PendingEnds
