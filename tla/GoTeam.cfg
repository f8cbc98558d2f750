SPECIFICATION Spec
CONSTANTS
    u1 = u1
    u2 = u2
    p1 = p1
    b1 = b1
    b2 = b2
    c1 = c1
    c2 = c2
    c3 = c3
    r1 = r1
    r2 = r2
    r3 = r3
    Users = {u1, u2}
    Passwords = {p1}
    BoardIDs = {b1}
    Names = {"New Board"}
    NewName = "New Board"
    MemberLists <- MCMemberLists
    MaxBoards = 1
    UserRequests = {c1, c2, c3}
    TeamRequests = {r1, r2}
    EventualReads = TRUE
    NoItem = NoItem
    NoReq = NoReq
    NoInvite = NoInvite
    NoCookie = NoCookie
SYMMETRY MCSymmetry
CHECK_DEADLOCK FALSE
INVARIANTS
    CookiesAreClaims
    MembersAreUsers
    InvitesLeadToTeams
PROPERTY
    UserServiceKept
