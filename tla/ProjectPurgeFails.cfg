SPECIFICATION Spec
CONSTANTS
    Owners = {o1}
    Writers = {w1}
    InUse = {"admin_user_projects"}
INVARIANTS PurgeRemovesAllData
