SPECIFICATION Spec
CONSTANTS
    u1 = u1
    u2 = u2
    p1 = p1
    p2 = p2
    r1 = r1
    r2 = r2
    r3 = r3
    r4 = r4
    Users = {u1, u2}
    Passwords = {p1, p2}
    Requests = {r1, r2, r3, r4}
    EventualReads = TRUE
    NoUser = NoUser
    NoReq = NoReq
    NoInvite = NoInvite
    NoAuth = NoAuth
SYMMETRY MCSymmetry
CHECK_DEADLOCK FALSE
INVARIANTS
    TypeOK
    CookiesMatchUsers
    AdminsOwnTeams
    RegisteredIsStored
PROPERTY UsersKept
