SPECIFICATION MCSpec
CONSTANTS
    game = "game"
    long = "long"
    cut = "cut"
    saved = "saved"
    Ids <- MCIds
    Default = "default"
    CustomId = "custom"
    SavedIds = {"saved"}
    GameIds <- MCGameIds
    Cut <- MCCut
    Feels <- MCFeels
    BaseFeel = "base"
    Rests = {"r0"}
    BaseRest = "r0"
    Mappings = {"identity", "swapped"}
    Identity = "identity"
    Others = {"o0"}
    BaseOther = "o0"
    Presets <- MCPresets
    PresetFeel <- MCPresetFeel
    FirstPreset = "balanced"
    Functions = {"f1", "f2"}
    MaxFunctions = 1
    MaxAssignments = 1
    MaxProfiles = 2
    Old = "1"
    New = "2"
    MaxKills = 1
    MaxCalls = 3
    MaxOpens = 2
    MaxLookups = 3
    MaxWorkers = 2
    Sources = {"a", "b"}
    Callers = {1, 2}
    MaxHelpers = 2
    HostPersonas = {"dualsense", "xbox"}
    MaxSwitches = 2
    MaxLosses = 1
    PadStarters = {"ps"}
    PadButtons = {"cross", "circle"}
    Bindings <- MCBindings
    ShortcutFunctions <- MCShortcutFunctions
    Switched = {"volume", "sleep", "muted"}
    FirmwareEvents = {"volume", "sleep", "muted"}
    KeyKinds <- MCKeyKinds
    FirstLevel = 50
    TopLevel = 100
    MaxPending = 1
    MaxPresses = 2
    MaxEdits = 1
INVARIANT ReferencesHold
PROPERTY RestartIsInvisible
PROPERTY ListsKept
INVARIANT UpdateSafe
INVARIANT RequestsMatch
INVARIANT MirrorMatches
INVARIANT WireAgrees
INVARIANT ShortcutsMatch
INVARIANT ChordsAgree
INVARIANT SwitchIsInvisible
INVARIANT InputTracked
CHECK_DEADLOCK FALSE
