SPECIFICATION Spec
CONSTANTS
    ann = ann
    bob = bob
    annMail = annMail
    bobMail = bobMail
    p1 = p1
    d1 = d1
    d2 = d2
    d3 = d3
    s1 = s1
    s2 = s2
    t1 = t1
    t2 = t2
    Devices = {d1, d2, d3}
    Names = {ann, bob}
    Emails = {annMail, bobMail}
    Passwords = {p1}
    Threads = {t1, t2}
    SqlPool = 1
    RedisPool = 2
    StatusPool = 2
    Tables <- MCTables
    Budgets <- MCBudgets
    Order <- MCOrder
    NoRow = NoRow
    NoThread = NoThread
    NoAsk = NoAsk
    NoCount = NoCount
    NoTicket = NoTicket
INVARIANTS
    CodesExpire
    ReplacedOnlyByRace
    PasswordByOwner
    GateConnections
    TicketHonoured
    CountersTrue
    Balanced
    RequestsGoOn
SYMMETRY Symmetry
CHECK_DEADLOCK FALSE
