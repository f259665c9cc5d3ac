SPECIFICATION FairSpec
CONSTANTS
    ann = ann
    bob = bob
    cid = cid
    ask = ask
    askBack = askBack
    confirm = confirm
    confirmBack = confirmBack
    enter = enter
    s1 = s1
    s2 = s2
    Servers = {s1, s2}
    Users = {ann, bob, cid}
    Requests = {ask, confirm, confirmBack, enter}
    Kind <- MCKind
    From <- MCFrom
    To <- MCTo
    Home <- MCHome
    Readers = {s2}
    PoolSize = 2
    ListLimit = 1
    Earlier <- MCEarlier
    NoReq = NoReq
    NoConn = NoConn
    MaxFaults = 1
INVARIANTS
    FriendsBothWays
    DurableUntilFriendship
    ConnectionsConserved
PROPERTIES
    ListsAreCurrent
    RequestsEnd
CHECK_DEADLOCK FALSE
