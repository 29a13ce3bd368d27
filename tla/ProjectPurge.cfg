SPECIFICATION Spec
CONSTANTS
    Owners = {o1}
    Writers = {w1, w2}
    InUse = {"admin_user_projects"}
INVARIANTS NothingLeftBehind
PROPERTIES PurgedFromArchive PurgeEnds
