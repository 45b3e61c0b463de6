SPECIFICATION FairSpec
CONSTANTS
    p1 = p1
    p2 = p2
    post1 = post1
    post2 = post2
    w1 = w1
    w2 = w2
    e1 = e1
    PlatformPosts = {p1, p2}
    Posts = {post1, post2}
    PostOf <- Separate
    Workers = {w1}
    Editors = {e1}
    BatchSize = 1
    MaxRetries = 1
    Backoff <- MCBackoff
    BackoffLast = 1
    StartStatuses = {"scheduled"}
    StartTimes = {0}
    MaxTime = 1
    FaultKinds = {"crash"}
    MaxFaults = 1
    EditKinds = {"reschedule","cancel"}
    ChipTargets = {}
    MaxEdits = 1
PROPERTIES
    DueRowIsServed
    ClaimedRowResolves
