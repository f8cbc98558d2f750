SPECIFICATION FairSpec
CONSTANTS
    t1 = t1
    u1 = u1
    b1 = b1
    b2 = b2
    b3 = b3
    r1 = r1
    r2 = r2
    r3 = r3
    Users = {t1}
    TeamIDs = {t1}
    BoardIDs = {b1, b2}
    Names = {"New Board"}
    NewName = "New Board"
    MemberLists <- MCNoMembers
    MaxBoards = 2
    NoItem = NoItem
    Requests = {r1, r2, r3}
    EventualReads = TRUE
    NoReq = NoReq
CHECK_DEADLOCK FALSE
PROPERTIES
    Served
