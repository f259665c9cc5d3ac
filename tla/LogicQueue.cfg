SPECIFICATION FairSpec
CONSTANTS
    Posters = {p1, p2}
    Registered = {1, 3, 4}
    MaxPosts = 4
INVARIANTS
    NoMissedMessage
PROPERTIES
    ImplementsDispatcher
    EventuallyHandled
CHECK_DEADLOCK FALSE
