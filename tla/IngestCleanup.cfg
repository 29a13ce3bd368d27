SPECIFICATION Spec
CONSTANTS
    Handlers = {h1, h2}
    i1 = i1  i2 = i2
    e1 = e1  e2 = e2  e3 = e3  e4 = e4
    Installs = {i1}
    Events = {e1, e2}
    Owner <- OwnerOne
    Name <- NameOne
    EffectiveAt <- TimeOne
    ReservedSystemEvents = {"sys"}
    Malformed = {}
    Declared = {}
    MaxBatch = 2
    MaxFaults = 2
    None = None
SYMMETRY MCSymmetry
PROPERTIES SweepTakesAllWithoutProduct
