SPECIFICATION Spec
CONSTANTS
    Handlers = {h1, h2}
    i1 = i1  i2 = i2
    e1 = e1  e2 = e2  e3 = e3  e4 = e4
    Installs = {i1, i2}
    Events = {e1, e2, e3, e4}
    Owner <- OwnerCross
    Name <- NameCross
    EffectiveAt <- TimeCross
    ReservedSystemEvents = {}
    Malformed = {}
    Declared = {}
    MaxBatch = 2
    MaxFaults = 0
    None = None
PROPERTIES EventuallyAcked
