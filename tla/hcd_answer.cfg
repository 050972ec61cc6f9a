SPECIFICATION FairSpec
CONSTANTS
    f1 = f1
    FeatureIds = {f1}
    Urbs = {u1, u2}
    Sessions = {s1}
    NoUrb = NoUrb
    NoReport = NoReport
    Requests <- DeferRequests
    MaxEvents = 1
    HidInterval = 1
    IsoDuration = 1
    PortClears = {}
    Removable = FALSE
    MaxReports = 0
    MaxEpochs = 1
CHECK_DEADLOCK FALSE
PROPERTY ServiceSafe
PROPERTY DeferredGetReturns
