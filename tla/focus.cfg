\* Three sessions compete for two names.
CONSTANTS
    s1 = s1  s2 = s2  s3 = s3
    desk = desk  left = left  right = right
    Sessions = {s1, s2, s3}
    Primary = Primary
    NoScreen = NoScreen
    NoName = NoName
    NoEdge = NoEdge
    Names <- MCNames
    PrimaryName = desk
    Configs <- PlainConfigs
    HEdges = {"Right"}
    VEdges = {"Top"}
    SwitchDelay = FALSE
    TwoTap = FALSE
    SwitchDuringSaver = FALSE
SPECIFICATION Spec
SYMMETRY SessionSymmetry
INVARIANTS TypeOK TablesAgree FocusIsConnected OnlyFocusIsEntered SaverReturnsToConnected
CHECK_DEADLOCK FALSE
