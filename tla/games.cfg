SPECIFICATION Spec
CONSTANTS
    Games = {g1, g2}
    None = None
    UserIds = {default, mine}
    Default = default
    MaxEvents = 4
    MaxCrashes = 1
    MaxRejects = 1
CHECK_DEADLOCK FALSE
INVARIANT GlobalsComeBack
INVARIANT CrashSafe
INVARIANT ScopeConverges
INVARIANT SelectedIsOwned
PROPERTY Settles
