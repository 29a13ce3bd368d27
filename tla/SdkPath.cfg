SPECIFICATION Spec

CONSTANTS
    p1 = p1
    p2 = p2
    f1 = f1
    Off = Off
    Unit = 2
    Rate <- Refill
    Burst <- Capacity
    MaxSkew = 2
    MaxAge = 5
    Fields <- PolicyFields
    TestProjects = {"game"}
    Drafts <- Named
    RuleOf <- Drafted
    Dims <- Carried

SYMMETRY Symmetry
CHECK_DEADLOCK FALSE

INVARIANTS
    RequestContract
    RateHolds
    FiledNearTheTruth
    AnswersFollowPolicy
