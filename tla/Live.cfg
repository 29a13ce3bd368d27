SPECIFICATION Spec

CONSTANTS
    Off = Off

CHECK_DEADLOCK FALSE

INVARIANTS
    RecordedIffEffective
    ReloginRecovers
PROPERTIES
    EveryoneIsServed
    MonitorConverges
    SchemaCatchesUp
    FeedSettles
