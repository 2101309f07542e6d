SPECIFICATION SlackFairSpec
CONSTANTS
    e1 = e1
    e2 = e2
    e3 = e3
    m1 = m1
    m2 = m2
    p1 = p1
    p2 = p2
    Events = {e1, e2, e3}
    Threads = {m1}
    Messages = {m1, m2}
    Msg <- MsgOf
    ThreadOf <- InThread
    Processes = {p1, p2}
    MaxTroubles = 2
CHECK_DEADLOCK FALSE
INVARIANTS ThreadIsAnswered
PROPERTIES LatestReportIsTrue
