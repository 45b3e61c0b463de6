SPECIFICATION Spec
CONSTANTS
    p1 = p1
    p2 = p2
    post1 = post1
    post2 = post2
    w1 = w1
    w2 = w2
    e1 = e1
    PlatformPosts = {p1, p2}
    Posts = {post1}
    PostOf <- Siblings
    Workers = {w1}
    Editors = {}
    BatchSize = 2
    MaxRetries = 2
    Backoff <- MCBackoff
    BackoffLast = 1
    StartStatuses = {"scheduled"}
    StartTimes = {0}
    MaxTime = 2
    FaultKinds = {}
    MaxFaults = 0
    EditKinds = {}
    ChipTargets = {}
    MaxEdits = 0
INVARIANTS
    FirstCommentFollows
