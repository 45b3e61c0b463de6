SPECIFICATION Spec
CONSTANTS
    t1 = t1
    t2 = t2
    k1 = k1
    k2 = k2
    draft = draft
    scheduled = scheduled
    upload = upload
    Null = Null
    Threads = {t1, t2}
    Keys = {k1, k2}
    Bodies = {draft, scheduled, upload}
    MediaBodies = {upload}
    ScheduleBodies = {scheduled}
    TTL = 1
    Limit = 1
    FaultKinds = {}
    MaxFaults = 0
    MaxCalls = 3
CHECK_DEADLOCK FALSE
INVARIANTS
    ClaimsAreSettled
