\* A pending switch and the loss of its target.
CONSTANTS
    s1 = s1  s2 = s2  s3 = s3
    desk = desk  left = left  right = right
    Sessions = {s1, s2}
    Primary = Primary
    NoScreen = NoScreen
    NoName = NoName
    NoEdge = NoEdge
    Names <- MCNames
    PrimaryName = desk
    Configs <- PlainConfigs
    HEdges = {"Right"}
    VEdges = {"Top"}
    SwitchDelay = TRUE
    TwoTap = FALSE
    SwitchDuringSaver = FALSE
SPECIFICATION Spec
INVARIANT FocusIsConnected
CHECK_DEADLOCK FALSE
