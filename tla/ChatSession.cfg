SPECIFICATION FairSpec
CONSTANTS
    s1 = s1
    s2 = s2
    u1 = u1
    u2 = u2
    l1 = l1
    l2 = l2
    l3 = l3
    None = None
    Sessions = {s1, s2}
    Users = {u1, u2}
    Logins = {l1, l2, l3}
    SessionOf <- Through
    UserOf <- Claims
    Arrivals <- Scenarios
INVARIANTS
    NoticeReachesItsUser
    ClearedIsGone
    LoggedInReachable
PROPERTIES
    
    LoginIsAnswered
CHECK_DEADLOCK FALSE
