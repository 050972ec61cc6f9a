SPECIFICATION MCSpec
CONSTANTS
    Games = {g1, g2}
    Default = default
    None = None
    TypedNames <- MCTyped
    OfferedNames <- MCOffered
    PlainWords <- MCPlainWords
    Operators = {1, 2}
    MaxProfiles = 2
    MaxEvents = 4
    MaxRejects = 1
    MaxCrashes = 1
CHECK_DEADLOCK FALSE
INVARIANT PadIsCurrent
INVARIANT NoWriteAfterReset
INVARIANT EngineFollowsStore
INVARIANT PinHolds
INVARIANT OutsideAgrees
PROPERTY Settles
INVARIANT ProfilesHold
INVARIANT RendererAgrees
