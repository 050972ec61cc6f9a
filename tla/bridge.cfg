SPECIFICATION Spec
CONSTANTS
    Watched <- MCWatched
    MaxActs = 2
    MaxCalls = 2
    MaxEvents = 1
    MaxFailures = 1
INVARIANT ControllerMatches
INVARIANT MirrorStops
PROPERTY Settles
