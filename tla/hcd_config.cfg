SPECIFICATION Spec
CONSTANTS
    f1 = f1
    FeatureIds = {}
    Urbs = {u1, u2}
    Sessions = {s1, s2}
    NoUrb = NoUrb
    NoReport = NoReport
    Requests <- ConfigRequests
    MaxEvents = 1
    HidInterval = 1
    IsoDuration = 1
    PortClears = {"ENABLE"}
    Removable = FALSE
    MaxReports = 0
    MaxEpochs = 3
SYMMETRY Symmetry
CHECK_DEADLOCK FALSE
INVARIANT AudioFlagSettles
INVARIANT StaleDeviceIsFlagged
