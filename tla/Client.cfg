SPECIFICATION Spec
CONSTANTS
    ann = ann
    bob = bob
    cat = cat
    Users = {ann, bob, cat}
    NoOne = NoOne
    PageSize = 1
    FriendLists <- MCFriendLists
    Applies <- MCApplies
    MaxMsgs = 2
    MaxBubbles = 1
    MaxAuths = 2
INVARIANTS
    RecordsAgree
    PageShowsCurrent
    ContactsOnce
    ItemsOnce
PROPERTIES
    RecordsKept
CHECK_DEADLOCK FALSE
