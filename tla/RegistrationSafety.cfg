SPECIFICATION Spec
CONSTANTS
    Requests = {r1, r2}
    Installs = {i1, i2}
    Credentials = {c1, c2}
    None = None
    DailyRegistrationCap = 1
    LastDay = 1
INVARIANTS CapRespected
PROPERTIES CommitsOnlyForOwner CredentialImmutable EveryRequestAnswered
