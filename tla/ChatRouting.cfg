SPECIFICATION Spec
CONSTANTS
    s1 = s1
    s2 = s2
    ann = ann
    bob = bob
    apply = apply
    text = text
    reply = reply
    None = None
    Servers = {s1, s2}
    Users = {ann, bob}
    Requests = {apply, text}
    From <- MCFrom
    To <- MCTo
    Rows = {apply}
    Applies = {apply}
    ListLimit = 1
    Earlier <- MCEarlier
    MaxConns <- MCMaxConns
SYMMETRY Symmetry
INVARIANTS
    
    
    
    NotifiedInOrder
CHECK_DEADLOCK FALSE
