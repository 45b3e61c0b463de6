SPECIFICATION EditorialSpec
CONSTANTS
    p1 = p1
    p2 = p2
    t1 = t1
    t2 = t2
    Rows = {p1, p2}
    Threads = {t1, t2}
    Modes = {"optional", "required_internal", "required_internal_and_client"}
    StartStatuses = {"pending_review", "approved"}
    ChipTargets = {"draft", "approved", "scheduled"}
    MaxEdits = 1
    MaxRequests = 3
PROPERTIES
    DraftsPassTheGate
CHECK_DEADLOCK FALSE
