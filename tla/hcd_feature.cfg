SPECIFICATION Spec
CONSTANTS
    f1 = f1
    FeatureIds = {f1}
    Urbs = {u1, u2}
    Sessions = {s1}
    NoUrb = NoUrb
    NoReport = NoReport
    Requests <- FeatureRequests
    MaxEvents = 1
    HidInterval = 1
    IsoDuration = 1
    PortClears = {}
    Removable = FALSE
    MaxReports = 0
    MaxEpochs = 3
SYMMETRY UrbSymmetry
CHECK_DEADLOCK FALSE
INVARIANT OnePlace
INVARIANT DeferredIsRequested
