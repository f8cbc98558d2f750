SPECIFICATION FairSpec
CONSTANTS
    t1 = t1
    t2 = t2
    k1 = k1
    k2 = k2
    k3 = k3
    b1 = b1
    b2 = b2
    r1 = r1
    r2 = r2
    r3 = r3
    TeamIDs = {t1, t2}
    TaskIDs = {k1, k2}
    BoardIDs = {b1, NoBoard}
    ColNos = {0, 4}
    Contents = {"text"}
    NoBoard = NoBoard
    NoItem = NoItem
    Requests = {r1, r2}
    EventualReads = FALSE
    CallsFail = TRUE
    NoReq = NoReq
CHECK_DEADLOCK FALSE
INVARIANTS
    GetShowsOneBoard
PROPERTIES
    Served
    StoreRefined
