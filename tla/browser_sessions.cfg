SPECIFICATION FairSpec
CONSTANTS
    None = None
    Sessions = {s1, s2}
    Sids = {z1,z2}
    Idle = 2
    Absolute = 2
    Liveness = 1
    Retry = 0
    MaxServed = 1
    MaxRare = 1
INVARIANTS TypeOK NoneLeftBehind DeadIsChecked
PROPERTY SessionsEnd
