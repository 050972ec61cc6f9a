SPECIFICATION Spec
CONSTANTS
    f1 = f1
    FeatureIds = {}
    Urbs = {u1, u2}
    Sessions = {s1}
    NoUrb = NoUrb
    NoReport = NoReport
    Requests <- PacedRequests
    MaxEvents = 1
    HidInterval = 1
    IsoDuration = 2
    PortClears = {}
    Removable = FALSE
    MaxReports = 2
    MaxEpochs = 1
SYMMETRY UrbSymmetry
CHECK_DEADLOCK FALSE
INVARIANT TypeOK
INVARIANT CompletionOrder
INVARIANT Paced
INVARIANT NoReportWaits
INVARIANT HidInInOrder
