------------------------------ MODULE MCTriggers ------------------------------
(* Instances for TLC of the engine of the trigger profiles and of four       *)
(* parts of the renderer that do not influence it in these models: the       *)
(* profiles in their files and in the renderer's list, the draft of one      *)
(* profile, one effect in it, and the settings on the screen.  A behaviour   *)
(* explores one of them (focus) and leaves the others in one initial state.  *)
EXTENDS TriggerEngine, TriggerParts, FiniteSets, TLC

VARIABLE focus

-----------------------------------------------------------------------------
MCTyped == {<<"a!">>, <<"engine-state">>}
MCOffered == {<<"a">>}
MCPlainWords ==
    [w \in {"#", "1", "a", "a!", "Copy", "Default", "New", "engine-state"} |->
        IF w = "a!" THEN "a" ELSE w]

\* Bounds: the second caller only where the first has begun, one excuse at a time, and
\* the reserved name only where no operations overlap.
ProfilesNext ==
    /\ Profiles!Next
    /\ ops'[2].pc = "idle" \/ ops'[1].pc # "idle" \/ ops[1].pc # "idle"
    /\ Cardinality(excused') <= 1
    /\ "overlap" \in excused => selected'.name[1] # "engine-state"

-----------------------------------------------------------------------------
VARIABLES edited, editing, linked, capture, edits

NoName == <<"none">>
MCState(name, left) == [name |-> name, feel |-> <<left, 0>>]
MCPlain ==
    [name |-> <<"P">>, triggers |-> <<1, 0>>, states |-> <<>>, rules |-> <<>>, default |-> NoName,
     menu |-> "none", wheel |-> [button |-> "none", sectors |-> <<>>, spans |-> <<>>]]
MCSwitched ==
    [MCPlain EXCEPT !.name = <<"Q">>, !.default = <<"Long">>, !.menu = "x",
        !.states = <<MCState(<<"A">>, 1), MCState(<<"Long">>, 0)>>,
        !.rules = <<[button |-> "x", with |-> "none", target |-> <<"A">>],
                    [button |-> "triangle", with |-> "x", target |-> NoName]>>,
        !.wheel = [button |-> "triangle", sectors |-> <<<<"A">>, <<"Long">>>>, spans |-> <<>>]]

Editor == INSTANCE TriggerProfileEditor WITH
    draft <- edited, Drafts <- {MCPlain, MCSwitched}, Typed <- {<<>>, <<"A">>, <<"A", " ">>},
    Buttons <- {"x", "triangle"}, Feels <- {0, 1}, Widths <- {200}, MaxStates <- 3, MaxRules <- 2,
    MaxSectors <- 3, MaxEdits <- 3

\* Bounds: another profile or state is chosen, values and names of profiles are edited
\* first, sectors are resized last, and the last edit changes the states or a size.
EditorNext ==
    /\ Editor!Next
    /\ linked' # linked \/ edited'.name # edited.name => edits = 0
    /\ editing' # editing => edits' > edits \/ edits = 0
    /\ edited' \in {MCPlain, MCSwitched} => edits = 0
    /\ IF edits = 2 THEN edited'.states # edited.states \/ edited'.wheel.spans # edited.wheel.spans
       ELSE edited'.wheel.spans \in {edited.wheel.spans, <<>>}

-----------------------------------------------------------------------------
VARIABLES effect, before, when

MCSlope(start, end) ==
    [mode |-> "slope", startPercent |-> start, endPercent |-> end, startForcePercent |-> 0,
     endForcePercent |-> 7]
MCVibration == [mode |-> "vibration", startPercent |-> 3, forcePercent |-> 100]
MCOff == [mode |-> "off"]
MCLoaded ==
    {MCOff, MCSlope(0, 1), MCSlope(99, 100), MCSlope(98, 3),
     [mode |-> "multi-vibration", frequencyHz |-> 255, zones |-> [i \in 1..10 |-> 0]]}
    \cup {MCVibration @@ (key :> 50) : key \in {"wallPercent", "frequencyHz", "other"}}

Editing == INSTANCE TriggerEffects WITH
    Loaded <- MCLoaded, Percents <- {0, 5, 100}, Frequencies <- {-1, 300}, Zones <- {10},
    Amounts <- {-1, 300}

\* Bounds: the condition is edited where the effect is off and stays so, and an
\* effect with zones is edited once.
EffectNext ==
    /\ Editing!Next
    /\ IF when' # when THEN effect = MCOff /\ before = MCOff
       ELSE when = [condition |-> "trigger-held-over", threshold |-> 50, ms |-> 200]
    /\ {effect.mode, before.mode, effect'.mode} # {"multi-feedback"}
    /\ {effect.mode, before.mode, effect'.mode} # {"multi-vibration"}

-----------------------------------------------------------------------------
VARIABLES control, bridge, lamp, polled, sent, asked, channel, tasks, window, pointer, wish, tint,
          reasons, acts, faults

Screen == INSTANCE SettingsScreen WITH
    Controls <- {"haptics", "rumble", "speaker", "mic", "buffer", "triggers", "lightbar", "remap"},
    Values <- {40, 80, 300}, Start <- 80, Swatches <- {"red"}, Customs <- {"teal"},
    Tasks <- {1, 2}, MaxActs <- 3, MaxFaults <- 1

\* Bounds: one excuse at a time; a behaviour about the lightbar keeps the connection, and
\* no request fails while a poll is under way.
ScreenNext ==
    /\ Screen!Next
    /\ Cardinality(reasons') <= 1
    /\ control = "lightbar" => bridge'.connected
    /\ polled # "none" => faults' = faults

\* What the renderer has is what the stores and the controller take: see
\* TriggerProfileEditor, TriggerEffects and SettingsScreen.
RendererAgrees ==
    /\ focus = "editor" => Editor!DraftHolds
    /\ focus = "effects" => Editing!EffectHolds
    /\ focus = "screen" => Screen!ScreenAgrees

-----------------------------------------------------------------------------
MCInit ==
    /\ focus \in {"engine", "profiles", "editor", "effects", "screen"}
    /\ Init /\ Profiles!Init /\ Editor!Init /\ Editing!Init /\ Screen!Init
    /\ focus # "engine" => newest = CHOOSE g \in Games : TRUE
    /\ focus # "profiles" => DOMAIN kept = {}
    /\ focus # "editor" => edited = MCPlain
    /\ focus # "effects" => effect = MCSlope(0, 1)
    /\ focus # "screen" => control = "mic"

profileVars == <<kept, list, selected, ops, made, unsaved, excused, lost>>
editorVars == <<edited, editing, linked, capture, edits>>
effectVars == <<effect, before, when>>
screenVars == <<control, bridge, lamp, polled, sent, asked, channel, tasks, window, pointer,
                wish, tint, reasons, acts, faults>>

MCNext ==
    /\ UNCHANGED focus
    /\ \/ /\ focus = "engine" /\ Next
          /\ UNCHANGED <<profileVars, editorVars, effectVars, screenVars>>
       \/ /\ focus = "profiles" /\ ProfilesNext
          /\ UNCHANGED <<vars, editorVars, effectVars, screenVars>>
       \/ /\ focus = "editor" /\ EditorNext
          /\ UNCHANGED <<vars, profileVars, effectVars, screenVars>>
       \/ /\ focus = "effects" /\ EffectNext
          /\ UNCHANGED <<vars, profileVars, editorVars, screenVars>>
       \/ /\ focus = "screen" /\ ScreenNext
          /\ UNCHANGED <<vars, profileVars, editorVars, effectVars>>

MCSpec ==
    /\ MCInit
    /\ [][MCNext]_<<focus, vars, profileVars, editorVars, effectVars, screenVars>>
    /\ Fairness
=============================================================================
