\* The options switchDelay and switchDoubleTap, under the fairness of the event loop.
CONSTANTS
    s1 = s1  s2 = s2  s3 = s3
    desk = desk  left = left  right = right
    Sessions = {s1, s2}
    Primary = Primary
    NoScreen = NoScreen
    NoName = NoName
    NoEdge = NoEdge
    Names <- MCNames
    PrimaryName = desk
    Configs <- OneConfig
    HEdges = {"Right"}
    VEdges = {}
    SwitchDelay = TRUE
    TwoTap = TRUE
    SwitchDuringSaver = FALSE
SPECIFICATION FairSpec
PROPERTIES LockHoldsPointer SessionsEnd
CHECK_DEADLOCK FALSE
