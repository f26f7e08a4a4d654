SPECIFICATION LiveSpec
CONSTANTS
    a = a
    b = b
    c = c
    Objs <- MCObjs
    Listers = 2
    ListerOf <- MCListerOf
    PageSize = 1
    MaxAttempts = 2
    MaxRelists = 1
CHECK_DEADLOCK FALSE
INVARIANTS
    TypeOK
    SentOnce
    CompleteWhenOk
    StaleListerHarmless
PROPERTIES
    StopsWhenClosed
