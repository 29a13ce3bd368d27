SPECIFICATION Spec
CONSTANTS
    Requests = {r1, r2}
    Installs = {i1}
    Credentials = {c1}
    None = None
    DailyRegistrationCap = 2
    LastDay = 0
PROPERTIES MatchingRetrySucceeds
