--------------------------- MODULE SettingsStore ---------------------------
(***************************************************************************)
(* The companion's settings: main/settings-store.ts.                       *)
(*                                                                         *)
(* The store keeps the live settings, a snapshot of the last settings the  *)
(* user had under the preset "custom" (customSettings), and settings.json, *)
(* which holds both.  Every operation changes memory and rewrites the      *)
(* file; a crash in the middle of the write leaves a file that cannot be   *)
(* parsed, and the next start begins with the defaults.                    *)
(*                                                                         *)
(* A tuning stands for the 36 fields a controller profile stores.  It has  *)
(* two parts: feel, the fields a preset sets, and rest, the others.  A     *)
(* mapping stands for a button remap table, other for the settings no      *)
(* profile stores.  Profile names are left out.                            *)
(***************************************************************************)
EXTENDS Integers, Sequences, SequencesExt

CONSTANTS
    Ids,            \* ids of controller and button remapping profiles
    Default,        \* DEFAULT_CONTROLLER_PROFILE_ID, "default" in both lists
    CustomId,       \* "custom", the profile an edit of Default forks to
    SavedIds,       \* ids made from the time by saveControllerProfile
    GameIds,        \* ids chosen by the caller: game:<trigger profile>
    Cut,            \* Cut[id]: id.trim().slice(0, 64)
    Feels, BaseFeel, Rests, BaseRest,
    Mappings, Identity,
    Others, BaseOther,
    Presets,        \* the presets other than "custom"
    PresetFeel,     \* PresetFeel[p][f]: the feel after preset p on feel f
    FirstPreset,    \* "balanced"
    Functions,      \* chord functions, each standing for its id
    MaxFunctions,   \* 64 in the code
    MaxAssignments  \* 16 in the code

ASSUME StoreAssumption ==
    /\ Default \in Ids /\ CustomId \in Ids /\ Default # CustomId
    /\ SavedIds \subseteq Ids \ {Default, CustomId}
    /\ GameIds \subseteq Ids \ {Default, CustomId}
    /\ Cut \in [GameIds -> Ids \ {Default, CustomId}]
    /\ BaseFeel \in Feels /\ BaseRest \in Rests
    /\ Identity \in Mappings /\ BaseOther \in Others
    /\ FirstPreset \in Presets /\ "custom" \notin Presets
    /\ PresetFeel \in [Presets -> [Feels -> Feels]]
    /\ MaxFunctions \in Nat /\ MaxAssignments \in Nat

VARIABLES
    settings,        \* SettingsStore.settings
    customSettings,  \* SettingsStore.customSettings
    file             \* what settings.json holds

vars == <<settings, customSettings, file>>

-----------------------------------------------------------------------------
(* Settings and their normalisation.  Definitions named ...Mutant are       *)
(* defective forms of the definition that follows them; only the mutation   *)
(* tests use them.                                                          *)

Tunings == [feel : Feels, rest : Rests]
Pristine == [feel |-> BaseFeel, rest |-> BaseRest]

\* A profile list is a function from the ids it has: normalizeControllerProfiles
\* and normalizeRemapProfiles keep one profile per id and put Default first.
Lists(S) == UNION {[I -> S] : I \in SUBSET Ids}

Put(list, id, x) == [i \in DOMAIN list \cup {id} |-> IF i = id THEN x ELSE list[i]]
Without(list, id) == [i \in DOMAIN list \ {id} |-> list[i]]

Settings == [preset : Presets \cup {"custom"}, tuning : Tunings, other : Others,
             sel : Ids, profiles : Lists(Tunings),
             remapSel : Ids, remaps : Lists(Mappings), draft : Mappings,
             functions : Seq(Functions), assignments : Seq(Functions)]

Defaults ==
    [preset |-> FirstPreset, tuning |-> Pristine, other |-> BaseOther,
     sel |-> Default, profiles |-> [i \in {Default} |-> Pristine],
     remapSel |-> Default, remaps |-> [i \in {Default} |-> Identity], draft |-> Identity,
     functions |-> <<>>, assignments |-> <<>>]

NormalizedProfiles(list) == Put(list, Default, Pristine)
NormalizedRemaps(list) == Put(list, Default, Identity)
SelectedIn(list, id) == IF id \in DOMAIN list THEN id ELSE Default
FirstOf(s, n) == SubSeq(s, 1, IF Len(s) < n THEN Len(s) ELSE n)
NormalizedFunctions(fs) == FirstOf(fs, MaxFunctions)

\* The chords whose function exists, in the order they had.
Resolving(bound, fs) ==
    LET kept[n \in 0..Len(bound)] ==
            IF n = 0 THEN <<>>
            ELSE IF bound[n] \in Range(fs) THEN Append(kept[n - 1], bound[n]) ELSE kept[n - 1]
    IN  kept[Len(bound)]
NormalizedAssignments(bound, fs) == FirstOf(Resolving(bound, fs), MaxAssignments)

Normalize(s) ==
    [s EXCEPT !.profiles = NormalizedProfiles(s.profiles),
              !.sel = SelectedIn(NormalizedProfiles(s.profiles), s.sel),
              !.remaps = NormalizedRemaps(s.remaps),
              !.remapSel = SelectedIn(NormalizedRemaps(s.remaps), s.remapSel),
              !.functions = NormalizedFunctions(s.functions),
              !.assignments = NormalizedAssignments(s.assignments,
                                                    NormalizedFunctions(s.functions))]

\* The live tuning becomes that of the selected profile; an edit under Default
\* forks, or overwrites, the profile "custom" and selects it.
SyncController(s) ==
    LET id == IF s.sel = Default THEN CustomId ELSE s.sel
    IN  Normalize([s EXCEPT !.sel = id, !.profiles = Put(@, id, s.tuning)])

SyncRemap(s) ==
    LET id == IF s.remapSel = Default THEN CustomId ELSE s.remapSel
    IN  Normalize([s EXCEPT !.remapSel = id, !.remaps = Put(@, id, s.draft)])

CustomSettingsFrom(s) == Normalize([s EXCEPT !.preset = "custom"])

-----------------------------------------------------------------------------
(* Files                                                                   *)

NoFile == [kind |-> "absent"]
TornFile == [kind |-> "torn"]
Written(s, c) == [kind |-> "json", settings |-> s, customProfile |-> c]

ReadSettings(f) == IF f.kind = "json" THEN Normalize(f.settings) ELSE Defaults
ReadCustom(f) == CustomSettingsFrom(IF f.kind = "json" THEN f.customProfile ELSE Defaults)

WriteStaleSnapshotMutant(s, c) ==
    /\ settings' = s
    /\ customSettings' = c
    /\ file' = Written(s, customSettings)

Write(s, c) ==
    /\ settings' = s
    /\ customSettings' = c
    /\ file' = Written(s, c)

\* The end of update and of setButtonRemap: customSettings follows the live
\* settings while the preset is "custom".
Commit(s) == Write(s, IF s.preset = "custom" THEN s ELSE customSettings)

Init ==
    /\ file \in {NoFile, TornFile}
    /\ settings = ReadSettings(file)
    /\ customSettings = ReadCustom(file)

-----------------------------------------------------------------------------
(* Operations on the live settings and on presets                          *)

\* update with keys of the tuning: SyncController follows.  Most setters also
\* select the preset "custom" (customSettingUpdate in bridge-service.ts).
UpdateTuning(t, custom) ==
    LET live == Normalize([settings EXCEPT !.tuning = t,
                                           !.preset = IF custom THEN "custom" ELSE @])
    IN  Commit(SyncController(live))

UpdateOther(x) == Commit(Normalize([settings EXCEPT !.other = x]))

ApplyPreset(p) ==
    LET custom == IF settings.preset = "custom" THEN settings ELSE customSettings
    IN  \/ /\ p = "custom"
           /\ Write([custom EXCEPT !.preset = "custom"], custom)
        \/ /\ p \in Presets
           /\ Write(Normalize([settings EXCEPT !.preset = p,
                                               !.tuning.feel = PresetFeel[p][@]]), custom)

RestoreDefaults ==
    LET s == Normalize([Defaults EXCEPT !.profiles = NormalizedProfiles(settings.profiles)])
    IN  Write(s, CustomSettingsFrom(s))

-----------------------------------------------------------------------------
(* Controller profiles                                                     *)

\* update with a selection and the tuning of its profile: nothing to synchronise.
ChooseController(s, id) ==
    Commit(Normalize([s EXCEPT !.sel = id, !.tuning = NormalizedProfiles(s.profiles)[id]]))

SelectControllerProfileSyncMutant(id) ==
    Commit(SyncController([settings EXCEPT !.sel = SelectedIn(settings.profiles, id)]))

SelectControllerProfile(id) ==
    ChooseController(settings, SelectedIn(settings.profiles, id))

SaveControllerProfile(id) ==
    /\ id \in SavedIds \ DOMAIN settings.profiles
    /\ Commit(Normalize([settings EXCEPT !.profiles = Put(@, id, settings.tuning), !.sel = id]))

UpdateControllerProfile(id) ==
    /\ id \in DOMAIN settings.profiles \ {Default}
    /\ Commit(Normalize([settings EXCEPT !.profiles = Put(@, id, settings.tuning)]))

\* An id longer than 64 characters is stored cut, and is not found again.
EnsureControllerProfile(id) ==
    /\ id \in GameIds
    /\ Commit(Normalize([settings EXCEPT !.profiles =
                  IF id \in DOMAIN @ THEN @ ELSE Put(@, Cut[id], settings.tuning)]))

DeleteControllerProfile(id) ==
    /\ id # Default
    /\ ChooseController([settings EXCEPT !.profiles = Without(@, id)], Default)

RemoveControllerProfile(id) ==
    /\ id \in DOMAIN settings.profiles \ {Default}
    /\ IF settings.sel = id
       THEN DeleteControllerProfile(id)
       ELSE Commit(Normalize([settings EXCEPT !.profiles = Without(@, id)]))

-----------------------------------------------------------------------------
(* Button remapping profiles                                               *)

ChooseRemap(s, id) ==
    Commit(Normalize([s EXCEPT !.remapSel = id, !.draft = NormalizedRemaps(s.remaps)[id]]))

SetButtonRemap(m) ==
    /\ m # settings.draft
    /\ Commit(SyncRemap(Normalize([settings EXCEPT !.draft = m])))

SelectButtonRemappingProfile(id) == ChooseRemap(settings, SelectedIn(settings.remaps, id))

SaveButtonRemappingProfile(id) ==
    /\ id \in SavedIds \ DOMAIN settings.remaps
    /\ Commit(Normalize([settings EXCEPT !.remaps = Put(@, id, settings.draft), !.remapSel = id]))

UpdateButtonRemappingProfile(id) ==
    /\ id \in DOMAIN settings.remaps \ {Default}
    /\ Commit(Normalize([settings EXCEPT !.remaps = Put(@, id, settings.draft)]))

EnsureButtonRemappingProfile(id) ==
    /\ id \in GameIds
    /\ Commit(Normalize([settings EXCEPT !.remaps =
                  IF id \in DOMAIN @ THEN @ ELSE Put(@, Cut[id], settings.draft)]))

DeleteButtonRemappingProfile(id) ==
    /\ id # Default
    /\ ChooseRemap([settings EXCEPT !.remaps = Without(@, id)], Default)

RemoveButtonRemappingProfilePlainMutant(id) ==
    /\ id \in DOMAIN settings.remaps \ {Default}
    /\ Commit(Normalize([settings EXCEPT !.remaps = Without(@, id)]))

RemoveButtonRemappingProfile(id) ==
    /\ id \in DOMAIN settings.remaps \ {Default}
    /\ IF settings.remapSel = id
       THEN DeleteButtonRemappingProfile(id)
       ELSE Commit(Normalize([settings EXCEPT !.remaps = Without(@, id)]))

RestoreButtonRemappingDefaults == ChooseRemap(settings, Default)

-----------------------------------------------------------------------------
(* Chords                                                                  *)

SetChordConfiguration(fs, bound) ==
    Commit(Normalize([settings EXCEPT !.functions = fs, !.assignments = bound]))

SetChordFunctions(fs) == SetChordConfiguration(fs, settings.assignments)
SetChordAssignments(bound) == SetChordConfiguration(settings.functions, bound)

-----------------------------------------------------------------------------
(* The process ends and starts again                                       *)

Restart ==
    /\ settings' = ReadSettings(file)
    /\ customSettings' = ReadCustom(file)
    /\ UNCHANGED file

\* The process dies inside writeFileSync, in whatever operation it was, and
\* starts again.
TornWrite ==
    /\ file' = TornFile
    /\ settings' = ReadSettings(TornFile)
    /\ customSettings' = ReadCustom(TornFile)

TuningStep == \E t \in Tunings, custom \in BOOLEAN : UpdateTuning(t, custom)

SharedStep ==
    \/ \E x \in Others : UpdateOther(x)
    \/ \E p \in Presets \cup {"custom"} : ApplyPreset(p)
    \/ RestoreDefaults
    \/ Restart
    \/ TornWrite

ControllerStep == \E id \in Ids :
    \/ SelectControllerProfile(id)
    \/ SaveControllerProfile(id)
    \/ UpdateControllerProfile(id)
    \/ EnsureControllerProfile(id)
    \/ DeleteControllerProfile(id)
    \/ RemoveControllerProfile(id)

RemapStep ==
    \/ \E m \in Mappings : SetButtonRemap(m)
    \/ RestoreButtonRemappingDefaults
    \/ \E id \in Ids :
          \/ SelectButtonRemappingProfile(id)
          \/ SaveButtonRemappingProfile(id)
          \/ UpdateButtonRemappingProfile(id)
          \/ EnsureButtonRemappingProfile(id)
          \/ DeleteButtonRemappingProfile(id)
          \/ RemoveButtonRemappingProfile(id)

FunctionLists(n) == UNION {[1..k -> Functions] : k \in 0..n}
DistinctLists(n) == {fs \in FunctionLists(n) : IsInjective(fs)}

ChordStep ==
    \/ \E fs \in DistinctLists(MaxFunctions + 1), bound \in FunctionLists(MaxAssignments + 1) :
          SetChordConfiguration(fs, bound)
    \/ \E fs \in DistinctLists(MaxFunctions + 1) : SetChordFunctions(fs)
    \/ \E bound \in FunctionLists(MaxAssignments + 1) : SetChordAssignments(bound)

Next == TuningStep \/ SharedStep \/ ControllerStep \/ RemapStep \/ ChordStep

Spec == Init /\ [][Next]_vars

-----------------------------------------------------------------------------
(* Properties                                                              *)

Kept == {settings, customSettings}

\* Every variable has its type.
TypeOK ==
    /\ settings \in Settings
    /\ customSettings \in Settings
    /\ file.kind \in {"absent", "torn", "json"}

\* What is selected exists and is what is in force, live and in the snapshot
\* that the preset "custom" brings back long after the lists have changed: the
\* tuning is that of the selected profile under the preset "custom", the button
\* mapping that of the selected remapping profile under every preset.
LiveIsSelected ==
    /\ TypeOK
    /\ \A s \in Kept :
          /\ s.sel \in DOMAIN s.profiles /\ s.remapSel \in DOMAIN s.remaps
          /\ s.preset = "custom" => s.tuning = s.profiles[s.sel]
          /\ s.draft = s.remaps[s.remapSel]

\* A chord assignment names a function that exists, however the two lists were
\* shortened or replaced: dispatchChordFunctionSlot finds what a slot is bound to.
ChordsResolve == \A s \in Kept :
    \A i \in DOMAIN s.assignments : \E j \in DOMAIN s.functions :
        s.assignments[i] = s.functions[j]

\* Whatever is edited, deleted, cut or brought back, what one part of the
\* settings names in another exists there and agrees with it.
ReferencesHold == LiveIsSelected /\ ChordsResolve

\* A restart goes unnoticed: reading back what was written gives the settings
\* and the snapshot as they were.
RestartIsInvisible == [][UNCHANGED file => UNCHANGED <<settings, customSettings>>]_vars

\* An edit reaches the selected profile only, or "custom" when Default is
\* selected.  Any other profile keeps its tuning until it is itself updated,
\* ensured under a cut id, or a preset, a restore or a crash replaces the lists.
EditStaysLocal ==
    \A id \in DOMAIN settings.profiles \cap DOMAIN settings'.profiles :
        settings'.profiles[id] # settings.profiles[id] =>
            \/ id = settings.sel
            \/ id = CustomId /\ settings.sel = Default
            \/ UpdateControllerProfile(id)
            \/ \E g \in GameIds : Cut[g] = id /\ EnsureControllerProfile(g)
            \/ ApplyPreset("custom")
            \/ TornWrite

\* A profile of either list goes only when it is deleted, when the preset
\* "custom" brings back the lists of its snapshot, when the defaults are
\* restored (button mappings only) or when a crash tears the file.
NoProfileLost ==
    /\ \A id \in DOMAIN settings.profiles \ DOMAIN settings'.profiles :
          \/ DeleteControllerProfile(id) \/ RemoveControllerProfile(id)
          \/ ApplyPreset("custom") \/ TornWrite
    /\ \A id \in DOMAIN settings.remaps \ DOMAIN settings'.remaps :
          \/ DeleteButtonRemappingProfile(id) \/ RemoveButtonRemappingProfile(id)
          \/ ApplyPreset("custom") \/ RestoreDefaults \/ TornWrite

\* No operation on the lists of profiles touches one it does not name.
ListsKept == [][EditStaysLocal /\ NoProfileLost]_vars
=============================================================================
