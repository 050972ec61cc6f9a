SPECIFICATION FairSpec
CONSTANTS
    f1 = f1
    FeatureIds = {}
    Urbs = {u1, u2}
    Sessions = {s1}
    NoUrb = NoUrb
    NoReport = NoReport
    Requests <- ServiceRequests
    MaxEvents = 1
    HidInterval = 1
    IsoDuration = 2
    PortClears = {}
    Removable = TRUE
    MaxReports = 0
    MaxEpochs = 1
CHECK_DEADLOCK FALSE
PROPERTY ServiceSpec
PROPERTY TeardownEnds
