SPECIFICATION FairSpec
CONSTANTS
    s1 = s1
    s2 = s2
    ann = ann
    bob = bob
    apply = apply
    text = text
    reply = reply
    None = None
    Servers = {s1, s2}
    Users = {ann, bob}
    Requests = {text, reply}
    From <- MCFrom
    To <- MCTo
    Rows = {}
    Applies = {}
    ListLimit = 1
    Earlier <- NoneEarlier
    MaxConns <- One
PROPERTY
    HandlersEnd
CHECK_DEADLOCK FALSE
