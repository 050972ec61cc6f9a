---------------------------- MODULE MCCompanion ----------------------------
(* Instances for TLC of the parts of the companion that do not influence    *)
(* each other: a behaviour explores one of them (focus) and leaves the      *)
(* others in one initial state.  The lists of controller profiles, the      *)
(* lists of remapping profiles and the chords of the settings store are     *)
(* three such parts, too.                                                   *)
EXTENDS SettingsStore, FiniteSets, CompanionParts

CONSTANTS game, long, cut, saved,
          MaxProfiles   \* bound: profiles besides Default in a list

VARIABLE focus

MCIds == {"default", "custom", game, long, cut, saved}
MCGameIds == {game, long}
MCCut == [id \in MCGameIds |-> IF id = long THEN cut ELSE id]
MCPresets == {"balanced", "no-speaker"}
MCFeels == {"base", "silent"}
MCPresetFeel == [p \in MCPresets |-> [f \in MCFeels |-> IF p = "balanced" THEN "base" ELSE "silent"]]

SettingsInit == Init /\ (focus \notin {"controller", "remap", "chords"} => file = NoFile)

SettingsNext ==
    /\ \/ focus = "controller" /\ (TuningStep \/ SharedStep \/ ControllerStep)
       \/ focus = "remap" /\ (SharedStep \/ RemapStep)
       \/ focus = "chords" /\ (SharedStep \/ ChordStep)
    /\ Cardinality(DOMAIN settings'.profiles) <= MaxProfiles + 1
    /\ Cardinality(DOMAIN settings'.remaps) <= MaxProfiles + 1

-----------------------------------------------------------------------------
UpdateInit ==
    /\ Update!Init
    /\ focus # "update" => ~changed /\ driver = "none" /\ stored.hash = ""

\* Bound: two starts overlap only where no installer runs, nothing is skipped and
\* nothing was killed.
UpdateNext ==
    /\ Update!Next
    /\ overlapped' => /\ installs' = {} /\ driver # "none" /\ wizard = "closed"
                      /\ ~stored.skipped /\ ~stored.setupSkipped /\ kills' = 0 /\ changed

-----------------------------------------------------------------------------
TransportInit == Transport!Init /\ (focus # "transport" => platform = "linux")

-----------------------------------------------------------------------------
\* Bounds: the first helper is started for "a", the sources are interchangeable; the second
\* caller neither configures nor reapplies; one thing is excused at a time, and then a call
\* begins alone; a second helper comes with the controller there and nothing unheard, and
\* then nobody stores or reapplies, and the flag is down while a next try waits.
MirrorNext ==
    /\ Mirror!Next
    /\ helpers' # <<>> => helpers'[1].source = "a"
    /\ callers'[2].pc \notin {"storing", "reapplying"}
    /\ ~(overtaken' /\ unheard')
    /\ overtaken \/ unheard =>
          \A c \in Callers : Mirror!Free(c) /\ callers'[c] # callers[c] => Mirror!AllIdle
    /\ Len(helpers') = 2 =>
          /\ link' = "ready" /\ ~unheard' /\ ~(retrying' /\ passthrough')
          /\ callers'[1].pc \notin {"storing", "reapplying"}

-----------------------------------------------------------------------------
VARIABLE exchange

Wire == INSTANCE CompanionProtocol

\* See CompanionProtocol.
WireAgrees == focus = "wire" => Wire!WireAgrees

-----------------------------------------------------------------------------
MCChord(starter, button, runs) == [starter |-> starter, button |-> button, runs |-> runs]
MCChords == <<MCChord("ps", "cross", "up"), MCChord("ps", "circle", "keys")>>
MCOthers == <<MCChord("ps", "cross", "invert"), MCChord("ps", "cross", "keys"),
              MCChord("ps", "circle", "play")>>
MCKeys == <<MCChord("ps", "cross", "mute"), MCChord("ps", "circle", "odd")>>
MCBindings == {<<>>, MCChords, MCOthers, MCKeys}
MCFunctionOf(does, keys, by) == [does |-> does, keys |-> keys, by |-> by]
MCShortcutFunctions ==
    [up |-> MCFunctionOf("step", <<>>, 30), volume |-> MCFunctionOf("step", <<>>, 10),
     keys |-> MCFunctionOf("keys", <<"ctrl", "alt", "a">>, 0),
     odd |-> MCFunctionOf("keys", <<"ctrl", "numpad1">>, 0),
     mute |-> MCFunctionOf("keys", <<"volumemute">>, 0),
     play |-> MCFunctionOf("media", <<>>, 0), invert |-> MCFunctionOf("toggle", <<>>, 0),
     sleep |-> MCFunctionOf("request", <<>>, 0), muted |-> MCFunctionOf("mark", <<>>, 1)]
MCKeyKinds ==
    [ctrl |-> "modifier", alt |-> "modifier", a |-> "sym", numpad1 |-> "bare", volumemute |-> "media"]

ShortcutInit ==
    Shortcut!Init /\ blocked \in {{}, Switched} /\ (chords.list # <<>> => blocked = {})

\* Bounds: the polls ask while events wait; the firmware's shortcuts come where there are no
\* chords; a second press comes after "up", "keys" or "volume"; the list is emptied or filled
\* with MCChords while no action runs, after one press at most and no failed poll, is sent
\* again while nothing is held or queued, and polls fail before; the buttons change while no
\* action runs, no poll has asked and none has failed, with ps held or being pressed, and
\* circle in a report with all three only.
ShortcutNext ==
    /\ Shortcut!Next
    /\ \A p \in DOMAIN polls :
          polls[p].state = "idle" /\ polls'[p].state = "asked" => daemon.pending # <<>>
    /\ presses' # presses => /\ Len(presses') = 1 \/ presses'[1].runs \in {"up", "keys", "volume"}
                             /\ presses'[Len(presses')].runs \in FirmwareEvents
                                 => daemon.chords.list = <<>>
    /\ chords' # chords => /\ ~retry /\ Len(presses) <= 1 /\ stepping = Shortcut!NotRunning
                          /\ {chords.list, chords'.list} = {<<>>, MCChords}
    /\ sending = <<>> /\ sending' # <<>> /\ chords' = chords
        => held = {} /\ queue = <<>> /\ ~retry
    /\ retry' # retry => stepping = Shortcut!NotRunning /\ chords.version = 0
    /\ held' # held => /\ ~retry /\ stepping = Shortcut!NotRunning
                      /\ \A p \in DOMAIN polls : polls[p].state # "asked"
                      /\ ("circle" \in held' => held' = {"ps", "cross", "circle"})
                      /\ (held # {} => "ps" \in held \cup held')

-----------------------------------------------------------------------------
PersonaInit == Persona!Init /\ setting = "dualsense" /\ (focus # "persona" => output)

\* Bounds: a second switch only where nothing is lost, the second caller only beside the
\* first, and one excuse at a time.
PersonaNext ==
    /\ Persona!Next
    /\ switches' + losses' <= 2
    /\ switching[2] # switching'[2] /\ switching[2].pc = "idle" => switching[1].pc # "idle"
    /\ Cardinality(excused') <= 1

-----------------------------------------------------------------------------
VARIABLES pad, clock, stream, reader, loaded, live, switcher, timing, resolved, truth, astray,
          changes, breaks

MCWhen(condition, ms, threshold, effect) ==
    [condition |-> condition, ms |-> ms, threshold |-> threshold, button |-> "cross", presses |-> 2,
     effect |-> effect]
MCFeel(name, base, modifiers) == [name |-> name, slot |-> [base |-> base, modifiers |-> modifiers]]
MCStates ==
    <<MCFeel("a", "soft", <<MCWhen("trigger-held-over", 1, 128, "firm"),
                            MCWhen("rapid-fire", 0, 0, "burst"),
                            MCWhen("trigger-held-over", 2, 255, "hard")>>),
      MCFeel("b", "plain", <<>>),
      MCFeel("c", "loose", <<MCWhen("button-held", 0, 0, "tight"),
                             MCWhen("trigger-full-pull", 0, 0, "wall")>>)>>
MCRule(button, while, action, target) ==
    [button |-> button, while |-> while, action |-> action, state |-> target]
MCMenuProfile ==
    [states |-> MCStates, default |-> 1, menu |-> {"options"}, timeout |-> 2,
     buttons |-> {"cross", "l1", "options"},
     rules |-> <<MCRule("cross", "l1", "set", "c"), MCRule("cross", "", "cycle", "")>>,
     wheel |-> [button |-> "none", threshold |-> 0, offset |-> 0, spans |-> <<>>, sectors |-> <<>>]]
MCWheelProfile ==
    [states |-> MCStates, default |-> 2, menu |-> {}, timeout |-> 0, buttons |-> {"cross", "l1"},
     rules |-> <<MCRule("cross", "", "set", "b")>>,
     wheel |-> [button |-> "l1", threshold |-> 50, offset |-> 90, spans |-> <<120, 120, 120>>,
                sectors |-> <<"a", "", "c">>]]
MCPlaces == {[percent |-> 0, angle |-> 0], [percent |-> 100, angle |-> 0], [percent |-> 60, angle |-> 100]}

Input == INSTANCE TriggerInput WITH
    Profiles <- {MCMenuProfile, MCWheelProfile}, Values <- {0, 128, 255}, Places <- MCPlaces,
    Centre <- [percent |-> 0, angle |-> 0], Window <- 1,
    MaxAtOnce <- 2, MaxTime <- 2, MaxBreaks <- 1, MaxEvents <- 4

\* Bound: fewer changes once something went unseen.
InputNext == Input!Next /\ (astray' => changes' <= 2)

\* See TriggerInput.
InputTracked == focus = "input" => Input!InputTracked

-----------------------------------------------------------------------------
VARIABLES listed, page, posts, news, want, slips, steps

MCFunction(id, type, action) ==
    [id |-> id, name |-> "Task", type |-> type, key |-> IF type = "keyboard" THEN "A" ELSE "",
     modifiers |-> IF type = "keyboard" THEN {"Ctrl", "Shift", "Alt"} ELSE {},
     action |-> action, step |-> IF type = "controller-setting" THEN 20 ELSE 0]
MCAssignment(id, starter, button, functionId) ==
    [id |-> id, starter |-> starter, button |-> button, functionId |-> functionId]
MCListed ==
    [functions |-> <<MCFunction(1, "keyboard", ""),
                     MCFunction(2, "controller-setting", "speaker-down")>>,
     assignments |-> <<MCAssignment(1, "ps", "triangle", 1), MCAssignment(2, "mute", "l1", 2)>>]

Chords == INSTANCE ChordEditor WITH
    chords <- listed,
    Keys <- {"A", "Esc"}, Media <- {"mute"}, Plain <- {"sleep-controller"}, Steps <- {5},
    Buttons <- <<"triangle", "l1", "lb">>, Names <- {"N"}, Saved <- {MCListed},
    MaxFunctions <- 3, MaxAssignments <- 3, MaxSteps <- 3

\* Bound: but for the rows there are, the user goes on only while no edit may be lost.
ChordsNext == Chords!Next /\ (steps' # steps => slips = {})

\* See ChordEditor.
ChordsAgree == focus = "editor" => Chords!ChordsAgree

-----------------------------------------------------------------------------
MCInit ==
    /\ focus \in {"controller", "remap", "chords", "update", "transport", "discovery", "mirror",
                  "shortcut", "persona", "input", "editor", "wire"}
    /\ SettingsInit /\ UpdateInit /\ TransportInit /\ Discovery!Init /\ Mirror!Init
    /\ ShortcutInit /\ (focus # "shortcut" => chords.list = <<>> /\ blocked = {}) /\ PersonaInit
    /\ Input!Init /\ (focus # "input" => loaded.default = 1)
    /\ Chords!Init /\ listed.mute /\ listed.edge
    /\ IF focus = "wire" THEN Wire!Init ELSE exchange = [kind |-> "records", count |-> 0, size |-> 0]

updateVars == <<disk, content, starts, running, check, phase, toast, pending, installs, wizard,
                driver, stored, changed, overlapped, kills>>
transportVars == <<platform, opening, attempts, helper, closed, calls, lines, replies, sockets,
                   applied>>
discoveryVars == <<workers, worker, lookups, early>>
mirrorVars == <<wanted, link, process, starting, active, helpers, callers, passthrough, retrying,
                firmware, overtaken, unheard>>
shortcutVars == <<held, port, shown, chorded, daemon, chords, sending, polls, retry, queue,
                  stepping, level, flag, blocked, spawned, presses, done, lost, crossed>>
personaVars == <<usb, output, device, setting, status, state, transition, restore, connected, poll,
                 closing, switching, switches, losses, toasts, excused>>
inputVars == <<pad, clock, stream, reader, loaded, live, switcher, timing, resolved, truth, astray,
               changes, breaks>>
editorVars == <<listed, page, posts, news, want, slips, steps>>

MCNext ==
    /\ UNCHANGED <<focus, exchange>>
    /\ \/ /\ SettingsNext
          /\ UNCHANGED <<updateVars, transportVars, discoveryVars, mirrorVars, shortcutVars,
                       personaVars, inputVars, editorVars>>
       \/ /\ focus = "update" /\ UpdateNext
          /\ UNCHANGED <<vars, transportVars, discoveryVars, mirrorVars, shortcutVars, personaVars,
                       inputVars, editorVars>>
       \/ /\ focus = "transport" /\ Transport!Next
          /\ UNCHANGED <<vars, updateVars, discoveryVars, mirrorVars, shortcutVars, personaVars,
                       inputVars, editorVars>>
       \/ /\ focus = "discovery" /\ Discovery!Next
          /\ UNCHANGED <<vars, updateVars, transportVars, mirrorVars, shortcutVars, personaVars,
                       inputVars, editorVars>>
       \/ /\ focus = "mirror" /\ MirrorNext
          /\ UNCHANGED <<vars, updateVars, transportVars, discoveryVars, shortcutVars, personaVars,
                       inputVars, editorVars>>
       \/ /\ focus = "shortcut" /\ ShortcutNext
          /\ UNCHANGED <<vars, updateVars, transportVars, discoveryVars, mirrorVars, personaVars,
                       inputVars, editorVars>>
       \/ /\ focus = "persona" /\ PersonaNext
          /\ UNCHANGED <<vars, updateVars, transportVars, discoveryVars, mirrorVars, shortcutVars,
                       inputVars, editorVars>>
       \/ /\ focus = "input" /\ InputNext
          /\ UNCHANGED <<updateVars, transportVars, discoveryVars, mirrorVars, shortcutVars,
                       personaVars, vars, editorVars>>
       \/ /\ focus = "editor" /\ ChordsNext
          /\ UNCHANGED <<updateVars, transportVars, discoveryVars, mirrorVars, shortcutVars,
                       personaVars, inputVars, vars>>

MCSpec ==
    MCInit /\ [][MCNext]_<<focus, exchange, vars, updateVars, transportVars, discoveryVars,
                         mirrorVars, shortcutVars, personaVars, inputVars, editorVars>>
=============================================================================
