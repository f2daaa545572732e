\* Three requests of every kind, most of one name, and a watch.
SPECIFICATION FairSpec
CONSTANTS
    c1 = c1   c2 = c2   c3 = c3   w1 = w1   pod = pod   other = other
    Callers = {c1, c2, c3}
    Watchers = {w1}
    Names = {pod, other}
    Duties <- MCDuties
    Wants <- MCWants
    Nobody = Nobody
INVARIANTS TypeOK CreatedOnce ReadsRegular InOrder SeesChanges NothingLostByWaiting
PROPERTY RequestsReturn
CHECK_DEADLOCK FALSE
