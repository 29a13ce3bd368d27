SPECIFICATION Spec

CONSTANTS
    c1 = c1
    c2 = c2
    Off = Off
    Geometries <- CatalogGeometries
    MaxOutline = 4
    ReceivedAt <- FeedTimes
    NameOf <- FeedNames
    Eligible = {1}
    MaxExamples = 1

SYMMETRY Symmetry
CHECK_DEADLOCK FALSE

INVARIANTS
    LadderIsExact
    GateIsFair
    AttemptIsRetold
    MapIsConsistent
    ChartsAgree
    PagesAreWhole
    CatalogIsWhole
PROPERTIES
    RevisionsStay
    IneligibleLeavesNoSample
