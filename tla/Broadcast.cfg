SPECIFICATION FairSpec
CONSTANTS
    Sockets = {s1, s2}
    NULL = NULL
INVARIANTS SentOnce ReachedUnlessSomeoneLeft
PROPERTIES GoneAreRemoved MonitorSurvives
