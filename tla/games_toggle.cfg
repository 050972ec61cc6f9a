SPECIFICATION Spec
CONSTANTS
    Games = {g1, g2}
    None = None
    UserIds = {default, mine}
    Default = default
    MaxEvents = 5
    MaxCrashes = 0
    MaxRejects = 0
CHECK_DEADLOCK FALSE
INVARIANT GlobalsAlwaysComeBack
