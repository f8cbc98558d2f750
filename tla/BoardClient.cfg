SPECIFICATION Spec
CONSTANTS
    k1 = k1
    k2 = k2
    k3 = k3
    g1 = g1
    g2 = g2
    g3 = g3
    x = x
    y = y
    TaskIDs = {k1, k2}
    NoID = NoID
    UndefinedID = UndefinedID
    NoItem = NoItem
    Cols = {0, 1}
    Contents = {x, y}
    NoContent = NoContent
    Gestures = {g1, g2}
SYMMETRY MCSymmetry
CHECK_DEADLOCK FALSE
INVARIANTS
    TypeOK
    QuietShowsStored
    ShownOnce
    DragMovesTheDragged
    SpinnerStops
PROPERTIES
    StoreStepsOnly
