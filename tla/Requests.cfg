SPECIFICATION Spec
CONSTANTS
    p1 = p1
    p2 = p2
    post1 = post1
    post2 = post2
    w1 = w1
    e1 = e1
    w2 = w2
    PlatformPosts = {p1, p2}
    Posts = {post1}
    PostOf <- Siblings
    Workers = {w1}
    Editors = {e1}
    BatchSize = 2
    MaxRetries = 2
    Backoff <- MCBackoff
    BackoffLast = 1
    StartStatuses = {"draft","approved","on_hold","scheduled"}
    StartTimes = {0}
    MaxTime = 1
    FaultKinds = {"crash", "lost_ack", "db_error"}
    MaxFaults = 1
    EditKinds = {"reschedule","schedule","cancel","dequeue","hold","resume","retime","chip","composer"}
    ChipTargets = {"scheduled", "published"}
    MaxEdits = 1
SYMMETRY Symmetry
INVARIANTS
    TypeOK
    DuplicatesAccountedFor
    OneCommentPerPublication
    PublishingRowOwned
PROPERTIES
    PublishesOnce
    HoldStopsAllButClearedRetry
    EngineObeysStateMachine
