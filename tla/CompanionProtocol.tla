-------------------------- MODULE CompanionProtocol --------------------------
(* The reports of 64 bytes between the bridge (shared/protocol.ts and the   *)
(* encoders of bridge-service.ts) and the daemon (vds_companion.cc).  Each  *)
(* side has its own idea of every offset, code and limit; a behaviour is    *)
(* one exchange, built by one side and read by the other.                   *)
EXTENDS Integers, Sequences, FiniteSets, TLC

VARIABLE exchange

Bit(byte, n) == (byte \div 2^n) % 2 = 1
Flag(condition, n) == IF condition THEN 2^n ELSE 0
AtMost(n, value) == IF value > n THEN n ELSE value
Position(list, x) == CHOOSE i \in DOMAIN list : list[i] = x
Among(list, x) == \E i \in DOMAIN list : list[i] = x
Lookup(list, i, other) == IF i \in DOMAIN list THEN list[i] ELSE other

Last == 63
Minor == 16
Magic == <<68, 83, 53, 66>>
STATUS == 1
COMMAND == 2
ACK == 3
INPUT == 4

CommandId ==
    [SET_HAPTICS_GAIN |-> 1, SET_LED_ENABLED |-> 2, SET_IDLE_DISCONNECT_ENABLED |-> 3,
     TEST_HAPTICS |-> 4, RESTORE_DEFAULTS |-> 5, SET_SPEAKER_VOLUME |-> 7, SET_LIGHTBAR_COLOR |-> 8,
     SET_LIGHTBAR_OVERRIDE |-> 9, SET_MUTE_BUTTON_ACTION |-> 10, SET_HAPTICS_BUFFER_LENGTH |-> 11,
     SET_TRIGGER_EFFECT_INTENSITY |-> 12, TEST_ADAPTIVE_TRIGGERS |-> 13,
     RESET_ADAPTIVE_TRIGGERS |-> 14, SET_USB_SUSPEND_DISCONNECT_ENABLED |-> 15,
     SET_SLEEP_KEYBIND_ENABLED |-> 16, SLEEP_CONTROLLER |-> 17, SET_POLLING_RATE_MODE |-> 18,
     SET_CLASSIC_RUMBLE_GAIN |-> 19, TEST_CLASSIC_RUMBLE |-> 20, SET_DUPLEX_ENABLED |-> 25,
     SET_MIC_VOLUME |-> 26, SET_MIC_MUTE |-> 27, SET_IDLE_DISCONNECT_TIMEOUT |-> 28,
     SET_SPEAKER_VOLUME_SHORTCUT_ENABLED |-> 29, SET_BUTTON_REMAP |-> 30,
     PREVIEW_ADAPTIVE_TRIGGER_EFFECT |-> 31, APPLY_ADAPTIVE_TRIGGER_EFFECT |-> 32,
     SET_HOST_PERSONA |-> 33, SET_AUDIO_REACTIVE_HAPTICS |-> 34, SET_CHORD_BINDINGS |-> 35,
     SET_PLAYER_LED_ENABLED |-> 36, SET_CLASSIC_RUMBLE_V1 |-> 37,
     APPLY_ADAPTIVE_TRIGGER_EFFECT_V2 |-> 65, SET_SPEAKER_GAIN |-> 50, ENTER_BOOTLOADER |-> 51,
     SET_TOUCHPAD_POINTER |-> 64]

AckResult == [OK |-> 0, ERR_BAD_MAGIC |-> 1, ERR_BAD_VERSION |-> 2, ERR_BAD_LENGTH |-> 3,
              ERR_INVALID_VALUE |-> 4, ERR_UNKNOWN_COMMAND |-> 5, ERR_NOT_CONNECTED |-> 6,
              ERR_BUSY |-> 7]
AckResultName(result) ==
    IF \E n \in DOMAIN AckResult : AckResult[n] = result
    THEN CHOOSE n \in DOMAIN AckResult : AckResult[n] = result ELSE "UNKNOWN"
AckUserMessage(result) ==
    CASE result = AckResult.OK -> "OK"
      [] result = AckResult.ERR_NOT_CONNECTED -> "Controller not connected"
      [] result = AckResult.ERR_BUSY -> "Test is busy"
      [] result = AckResult.ERR_INVALID_VALUE -> "Invalid value"
      [] result = AckResult.ERR_BAD_VERSION -> "Firmware protocol mismatch"
      [] OTHER -> AckResultName(result)

RemapButtons ==
    <<"l2", "l1", "create", "dpad-up", "dpad-left", "dpad-down", "dpad-right", "l3", "r2", "r1",
      "options", "triangle", "circle", "cross", "square", "r3", "lb", "rb", "lfn", "rfn", "ps">>
Starters == <<"ps", "lfn", "rfn", "mute">>
ChordButtons == {RemapButtons[i] : i \in 1..21} \ {"lfn", "rfn", "ps"}
ReservedFaceButtons == {"triangle", "circle", "cross", "square"}
IsChordBindingAllowed(starter, button) == starter = "ps" \/ button \notin ReservedFaceButtons
ChordEventBase == 32
MaxChords == 16
MuteModes == <<"normal", "keyboard", "quiet", "chord">>
Personas == <<"dualsense", "xbox", "ds4">>
TestModes == <<"feedback", "weapon", "vibration">>
Targets == <<"both", "l2", "r2">>
EffectModes == <<"feedback", "weapon", "vibration", "off", "multi-feedback", "slope",
                 "multi-vibration">>
Code(list, x) == Position(list, x) - 1
ModeOrFirst(list, code) == Lookup(list, code + 1, list[1])

-----------------------------------------------------------------------------
(* What the bridge writes. *)

BuildCommandReport(command, sequence, value, extra, minor) ==
    [i \in 0..Last |->
        CASE i = 0 -> COMMAND
          [] i \in 1..4 -> Magic[i]
          [] i = 5 -> 1
          [] i = 6 -> minor
          [] i = 7 -> CommandId[command]
          [] i = 8 -> sequence % 256
          [] i \in 9..10 -> (value \div 256^(i - 9)) % 256
          [] OTHER -> Lookup(extra, i - 10, 0) % 256]

BuildButtonRemapPayload(mapping) ==
    [i \in 1..Len(RemapButtons) |->
        LET target == mapping[RemapButtons[i]]
        IN  Code(RemapButtons, IF Among(RemapButtons, target) THEN target ELSE RemapButtons[i])]

BuildChordBindingsPayload(chords) ==
    [i \in 1..3 * AtMost(MaxChords, Len(chords)) |->
        LET slot == (i - 1) \div 3
            chord == chords[slot + 1]
        IN  CASE i % 3 = 1 -> ChordEventBase + slot
              [] i % 3 = 2 -> Position(Starters, chord.starter)
              [] i % 3 = 0 -> Code(RemapButtons, chord.button)]

EncodeMuteKeyboardOptions(modifiers, behavior, chordStarter) ==
    AtMost(15, modifiers) + Flag(behavior = "hold", 7) + Flag(chordStarter, 4)

TriggerValue(modes, effect) == Code(modes, effect.mode) + 256 * Code(Targets, effect.target)

TriggerEffectV2ExtraPayload(e) ==
    CASE e.mode = "feedback" -> <<e.start, 0, e.force, 0>>
      [] e.mode = "weapon" -> <<e.start, e.wall, e.force, 0>>
      [] e.mode = "vibration" -> <<e.start, 0, e.force, e.frequency>>
      [] e.mode = "off" -> <<>>
      [] e.mode = "multi-feedback" -> e.zones
      [] e.mode = "slope" -> <<e.start, e.end, e.startForce, e.endForce>>
      [] e.mode = "multi-vibration" -> <<e.frequency>> \o e.zones

-----------------------------------------------------------------------------
(* The daemon. *)

DefaultSettings ==
    [haptics_gain_percent |-> 100, classic_rumble_gain_percent |-> 100,
     trigger_effect_intensity_percent |-> 100, player_led_enabled |-> TRUE, led_enabled |-> TRUE,
     idle_disconnect_enabled |-> FALSE, idle_disconnect_timeout_minutes |-> 10,
     speaker_volume_percent |-> 100, speaker_gain_level |-> 4, lightbar_red |-> 0,
     lightbar_green |-> 0, lightbar_blue |-> 255, lightbar_brightness_percent |-> 100,
     lightbar_override_enabled |-> FALSE, mic_muted |-> FALSE, mute_button_mode |-> 0,
     mute_keyboard_usage |-> 0, mute_keyboard_modifiers |-> 0, quiet_mode_enabled |-> FALSE,
     usb_suspend_disconnect_enabled |-> FALSE, sleep_keybind_enabled |-> FALSE,
     host_persona_mode |-> 0, touchpad_pointer_enabled |-> TRUE]

NoZones == [z \in 1..10 |-> 0]
NoEffect == [active |-> FALSE, mode |-> 0, start |-> 0, wall |-> 0, force |-> 0, frequency |-> 0,
             zones |-> NoZones, end |-> 0, endForce |-> 0]

Runtime ==
    [settings |-> DefaultSettings, left |-> NoEffect, right |-> NoEffect, test |-> NoEffect,
     rumble |-> FALSE, remap |-> [i \in 1..21 |-> 0], remapActive |-> FALSE, chords |-> <<>>,
     events |-> <<>>, revision |-> 0, command |-> 0, sequence |-> 0, result |-> 0]

Toggle ==
    2 :> "led_enabled" @@ 3 :> "idle_disconnect_enabled" @@ 9 :> "lightbar_override_enabled"
    @@ 15 :> "usb_suspend_disconnect_enabled" @@ 16 :> "sleep_keybind_enabled"
    @@ 27 :> "mic_muted" @@ 36 :> "player_led_enabled" @@ 64 :> "touchpad_pointer_enabled"
Capped ==
    1 :> <<"haptics_gain_percent", 1000>> @@ 7 :> <<"speaker_volume_percent", 100>>
    @@ 19 :> <<"classic_rumble_gain_percent", 400>>
Bounded ==
    12 :> <<"trigger_effect_intensity_percent", 0, 100>>
    @@ 28 :> <<"idle_disconnect_timeout_minutes", 1, 600>> @@ 33 :> <<"host_persona_mode", 0, 0>>
Ignored == {11, 18, 25, 26, 29, 34, 37, 50}

Done(run) == [run |-> run, result |-> AckResult.OK]
Refused(run, name) == [run |-> run, result |-> AckResult[name]]
WhenConnected(connected, run, next) ==
    IF connected THEN Done(next) ELSE Refused(run, "ERR_NOT_CONNECTED")

RemapTable(r) == [i \in 1..21 |-> r[10 + i]]
SetButtonRemap(run, r) ==
    IF \A i \in 1..21 : RemapTable(r)[i] < 21
    THEN Done([run EXCEPT !.remap = RemapTable(r),
                          !.remapActive = \E i \in 1..21 : RemapTable(r)[i] # i - 1])
    ELSE Refused(run, "ERR_INVALID_VALUE")

Binding(r, slot) == [event |-> r[11 + 3 * slot], starter |-> r[12 + 3 * slot],
                     button |-> r[13 + 3 * slot]]
SetChordBindings(run, r) ==
    LET count == CHOOSE n \in 0..16 : /\ \A slot \in 0..n - 1 : Binding(r, slot).event # 0
                                      /\ n = 16 \/ Binding(r, n).event = 0
        bindings == [i \in 1..count |-> Binding(r, i - 1)]
    IN  IF \A i \in 1..count : bindings[i].starter \in 1..4 /\ bindings[i].button < 21
        THEN Done([run EXCEPT !.chords = bindings, !.events = <<>>])
        ELSE Refused(run, "ERR_INVALID_VALUE")

Store(run, target, effect) ==
    [run EXCEPT !.left = IF target # 2 THEN effect ELSE @,
                !.right = IF target # 1 THEN effect ELSE @]

\* PREVIEW_ and APPLY_ADAPTIVE_TRIGGER_EFFECT.
TriggerEffect(run, r, connected) ==
    LET effect == [NoEffect EXCEPT !.active = (r[7] = 32 \/ r[13] > 0), !.mode = r[9],
                                   !.start = r[11], !.wall = r[12], !.force = r[13]]
    IN  IF r[9] > 2 \/ r[10] > 2 \/ \E i \in 11..13 : r[i] > 100
        THEN Refused(run, "ERR_INVALID_VALUE")
        ELSE WhenConnected(connected, run, IF r[7] = 32 THEN Store(run, r[10], effect)
                                           ELSE [run EXCEPT !.test = effect])

EffectV2(r) ==
    LET on == [NoEffect EXCEPT !.active = TRUE, !.mode = r[9]]
        first == IF r[9] = 6 THEN 12 ELSE 11
    IN  CASE r[9] \in 0..2 -> [on EXCEPT !.start = r[11], !.wall = r[12], !.force = r[13],
                                         !.frequency = r[14]]
          [] r[9] = 3 -> on
          [] r[9] \in {4, 6} -> [on EXCEPT !.frequency = IF r[9] = 6 THEN r[11] ELSE 0,
                                           !.zones = [z \in 1..10 |-> r[first + z - 1]]]
          [] r[9] = 5 -> [on EXCEPT !.start = r[11], !.end = r[12], !.force = r[13],
                                    !.endForce = r[14]]

ValidEffectV2(e) ==
    /\ e.start <= 100 /\ e.wall <= 100 /\ e.force <= 100 /\ e.end <= 100 /\ e.endForce <= 100
    /\ e.mode \in {2, 6} => e.frequency # 0
    /\ \A z \in 1..10 : e.zones[z] <= 100
    /\ e.mode = 5 => e.end > e.start

TriggerEffectV2(run, r, connected) ==
    IF r[9] > 6 \/ r[10] > 2 \/ ~ValidEffectV2(EffectV2(r))
    THEN Refused(run, "ERR_INVALID_VALUE")
    ELSE WhenConnected(connected, run, Store(run, r[10], EffectV2(r)))

TestTriggers(run, r, connected) ==
    IF r[9] > 2 \/ r[10] > 2 THEN Refused(run, "ERR_INVALID_VALUE")
    ELSE WhenConnected(connected, run,
            [run EXCEPT !.test = [NoEffect EXCEPT !.active = TRUE, !.mode = r[9], !.start = 30,
                !.wall = 70, !.force = run.settings.trigger_effect_intensity_percent]])

ApplyCommand(run, r, connected) ==
    LET id == r[7]
        value == r[9] + 256 * r[10]
    IN  CASE id \in DOMAIN Toggle -> Done([run EXCEPT !.settings[Toggle[id]] = value # 0])
          [] id \in DOMAIN Capped ->
                Done([run EXCEPT !.settings[Capped[id][1]] = AtMost(Capped[id][2], value)])
          [] id \in DOMAIN Bounded ->
                IF value \in Bounded[id][2]..Bounded[id][3]
                THEN Done([run EXCEPT !.settings[Bounded[id][1]] = value])
                ELSE Refused(run, "ERR_INVALID_VALUE")
          [] id \in Ignored -> Done(run)
          [] id = 5 -> Done([run EXCEPT !.settings = DefaultSettings, !.left = NoEffect,
                                        !.right = NoEffect, !.test = NoEffect, !.rumble = FALSE,
                                        !.remapActive = FALSE, !.chords = <<>>, !.events = <<>>])
          [] id = 8 -> Done([run EXCEPT !.settings.lightbar_red = r[11],
                                        !.settings.lightbar_green = r[12],
                                        !.settings.lightbar_blue = r[13],
                                        !.settings.lightbar_brightness_percent = AtMost(100, value)])
          [] id = 10 -> IF value > 3 THEN Refused(run, "ERR_INVALID_VALUE")
                        ELSE Done([run EXCEPT !.settings.mute_button_mode = value,
                                              !.settings.mute_keyboard_usage = r[11],
                                              !.settings.mute_keyboard_modifiers = r[12]])
          [] id = 30 -> SetButtonRemap(run, r)
          [] id = 35 -> SetChordBindings(run, r)
          [] id \in {4, 20} -> WhenConnected(connected, run, [run EXCEPT !.rumble = TRUE])
          [] id = 13 -> TestTriggers(run, r, connected)
          [] id \in {31, 32} -> TriggerEffect(run, r, connected)
          [] id = 65 -> TriggerEffectV2(run, r, connected)
          [] id = 14 -> IF value # 0 THEN Refused(run, "ERR_INVALID_VALUE")
                        ELSE Done([run EXCEPT !.left = NoEffect, !.right = NoEffect,
                                              !.test = NoEffect])
          [] id = 17 -> WhenConnected(connected, run, run)
          [] OTHER -> Refused(run, "ERR_UNKNOWN_COMMAND")

ValidateCommandReport(r) ==
    IF \E i \in 1..4 : r[i] # Magic[i] THEN "ERR_BAD_MAGIC"
    ELSE IF r[5] # 1 \/ r[6] > 16 THEN "ERR_BAD_VERSION" ELSE "OK"

\* A report of another kind is an error of the request, not of the command.
Handle(run, r, connected) ==
    LET header == ValidateCommandReport(r)
        applied == IF header = "OK" THEN ApplyCommand(run, r, connected) ELSE Refused(run, header)
    IN  [applied.run EXCEPT !.command = r[7], !.sequence = r[8], !.result = applied.result,
                            !.revision = IF applied.result = 0 THEN (@ + 1) % 65536 ELSE @]

DaemonHeader(id) == [i \in 0..Last |-> CASE i = 0 -> id [] i \in 1..4 -> Magic[i] [] i = 5 -> 1
                                         [] i = 6 -> 16 [] OTHER -> 0]
Bytes(offset, width, value) ==
    [i \in offset..offset + width - 1 |-> (value \div 256^(i - offset)) % 256]

AckReport(run, uptime) ==
    7 :> run.command @@ 8 :> run.sequence @@ 9 :> run.result @@ Bytes(11, 2, run.revision)
    @@ Bytes(13, 4, uptime) @@ DaemonHeader(ACK)

\* controller: connected, edge, battery (255: unknown), rssi, rssiValid.
StatusReport(run, controller, uptime) ==
    LET s == run.settings
        on == controller.connected
        charged == on /\ controller.battery # 255
    IN  7 :> Flag(on, 0) @@ 8 :> (IF ~on THEN 0 ELSE IF controller.edge THEN 2 ELSE 1)
        @@ 9 :> (IF charged THEN 10 * AtMost(10, controller.battery % 16) ELSE 255)
        @@ 10 :> (IF charged THEN controller.battery \div 16 ELSE 0) @@ 12 :> Flag(on, 0)
        @@ Bytes(13, 2, s.haptics_gain_percent) @@ 15 :> Flag(s.led_enabled, 0)
        @@ 16 :> Flag(s.idle_disconnect_enabled, 0) @@ Bytes(17, 2, run.revision)
        @@ 19 :> run.result
        @@ 20 :> Flag(s.usb_suspend_disconnect_enabled, 4) + Flag(s.sleep_keybind_enabled, 6)
        @@ Bytes(21, 4, uptime) @@ 25 :> 1 @@ 26 :> 6 @@ 27 :> 3
        @@ 28 :> 253 + Flag(on /\ controller.edge, 1) @@ Bytes(29, 2, s.speaker_volume_percent)
        @@ 31 :> s.lightbar_red @@ 32 :> s.lightbar_green @@ 33 :> s.lightbar_blue
        @@ 34 :> s.lightbar_brightness_percent
        @@ Bytes(43, 2, s.idle_disconnect_timeout_minutes)
        @@ 45 :> (IF on /\ controller.rssiValid THEN controller.rssi % 256 ELSE 0)
        @@ 46 :> Flag(on /\ controller.rssiValid, 0) @@ 48 :> s.host_persona_mode @@ 49 :> 1
        @@ 51 :> Flag(s.mic_muted, 0) @@ 57 :> s.speaker_gain_level
        @@ 59 :> Flag(s.lightbar_override_enabled, 0) @@ 60 :> s.mute_button_mode
        @@ 61 :> s.mute_keyboard_usage @@ 62 :> s.mute_keyboard_modifiers
        @@ 63 :> Flag(s.quiet_mode_enabled, 0) @@ DaemonHeader(STATUS)

InputReport(run) == 0 :> INPUT @@ 1 :> (IF run.events = <<>> THEN 0 ELSE run.events[1])
                    @@ [i \in 0..Last |-> 0]

-----------------------------------------------------------------------------
(* What the bridge reads. *)

SwappedU16Mutant(r, offset) == 256 * r[offset] + r[offset + 1]
U16(r, offset) == r[offset] + 256 * r[offset + 1]
\* Bound: the four bytes stay below 2^31 here, as TLC's integers do.
U32(r, offset) == U16(r, offset) + 65536 * U16(r, offset + 2)

IsReport(r, id) == r[0] = id /\ \A i \in 1..4 : r[i] = Magic[i]
CurrentVersion(r) == r[5] = 1 /\ r[6] = Minor
CurrentOrOlderVersion(r) == r[5] = 1 /\ r[6] <= Minor
AudioStatusVersion(r) == r[5] = 1 /\ r[6] \in 2..Minor
Parsed(r, id, version, payload) ==
    IF ~IsReport(r, id) THEN [error |-> "bad-report"]
    ELSE IF ~version THEN [error |-> "bad-version"] ELSE payload

SupportedPersonas(mask) ==
    LET modes == {m \in 1..3 : Bit(mask, m - 1)}
    IN  {Personas[m] : m \in IF modes = {} THEN {1} ELSE modes}

Status(r) ==
    [error |-> "none", controllerConnected |-> r[7] = 1,
     controllerType |-> Lookup(<<"dualsense", "dualsense-edge">>, r[8], "unknown"),
     batteryPercent |-> IF r[9] = 255 THEN -1 ELSE r[9], rawPowerState |-> r[10],
     audioRecent |-> r[11] = 1, hapticsReady |-> r[12] = 1, hapticsGainPercent |-> U16(r, 13),
     ledEnabled |-> r[15] = 1, idleDisconnectEnabled |-> r[16] = 1, settingsRevision |-> U16(r, 17),
     lastCommandResult |-> r[19], testHapticsBusy |-> Bit(r[20], 0),
     testHapticsCooldown |-> Bit(r[20], 1), hostOutputRecent |-> Bit(r[20], 2),
     testAdaptiveTriggersBusy |-> Bit(r[20], 3), usbSuspendDisconnectEnabled |-> Bit(r[20], 4),
     usbSuspendDisconnectControl |-> Bit(r[20], 5), sleepKeybindEnabled |-> Bit(r[20], 6),
     sleepControllerControl |-> Bit(r[20], 7), uptimeSeconds |-> U32(r, 21),
     firmwareVersion |-> <<r[25], r[26], r[27]>>,
     companion |-> Bit(r[28], 0), dse |-> Bit(r[28], 1), speakerVolumeControl |-> Bit(r[28], 2),
     lightbarControl |-> Bit(r[28], 3), lightbarOverrideControl |-> Bit(r[28], 4),
     muteButtonActions |-> Bit(r[28], 5), hapticsBufferLengthControl |-> Bit(r[28], 6),
     adaptiveTriggersControl |-> Bit(r[28], 7), speakerVolumePercent |-> U16(r, 29),
     lightbarColor |-> <<r[31], r[32], r[33], r[34]>>,
     usbHostVolumes |-> <<r[35], r[36], r[37] # 0, r[38] # 0>>,
     lastHostOutput |-> <<r[39], r[40], U16(r, 41)>>,
     idleDisconnectTimeoutMinutes |-> U16(r, 43),
     signalStrengthDbm |-> IF ~(r[7] = 1 /\ r[46] = 1) THEN 0
                           ELSE IF Bit(r[45], 7) THEN r[45] - 256 ELSE r[45],
     adaptiveTriggerOutputRecent |-> r[47] = 1, hostPersonaMode |-> ModeOrFirst(Personas, r[48]),
     hostPersonaControl |-> r[49] # 0, supportedHostPersonaModes |-> SupportedPersonas(r[49]),
     micMuted |-> r[51] = 1,
     speakerGainLevel |-> IF r[57] = 0 THEN 4 ELSE AtMost(7, r[57]),
     lightbarOverrideEnabled |-> r[59] = 1, muteButtonMode |-> ModeOrFirst(MuteModes, r[60]),
     muteKeyboardUsage |-> r[61], muteKeyboardModifiers |-> r[62] % 16,
     muteKeyboardBehavior |-> IF Bit(r[62], 7) THEN "hold" ELSE "tap",
     muteKeyboardChordStarterEnabled |-> Bit(r[62], 4), quietModeEnabled |-> r[63] = 1,
     audioReactiveHapticsControl |-> r[6] >= 7, protocolVersion |-> <<r[5], r[6]>>]

ParseStatusReport(r) == Parsed(r, STATUS, CurrentVersion(r), Status(r))

ParseAckReport(r, allowMismatch) ==
    Parsed(r, ACK, IF allowMismatch THEN CurrentOrOlderVersion(r) ELSE CurrentVersion(r),
        [error |-> "none", commandId |-> r[7], commandSequence |-> r[8], resultCode |-> r[9],
         settingsRevision |-> U16(r, 11), uptimeSeconds |-> U32(r, 13)])

\* An event of parseShortcutEvent: the slot of a chord function or one of five shortcuts.
ParseShortcutEvent(r) ==
    LET event == IF r[0] = INPUT THEN r[1] ELSE r[0]
    IN  CASE event \in ChordEventBase..ChordEventBase + MaxChords - 1 ->
                [kind |-> "chord-function", slot |-> event - ChordEventBase]
          [] event \in 1..5 -> [kind |-> "shortcut", slot |-> event]
          [] OTHER -> [kind |-> "none", slot |-> 0]

\* Where the events of a diagnostic report begin: r[7] records of r[8] bytes, of which the
\* first `least` are read.
Offsets(r, least) ==
    LET fits == {n \in 0..r[7] : n = 0 \/ 15 + (n - 1) * r[8] + least <= Last + 1}
        count == CHOOSE n \in fits : \A m \in fits : m <= n
    IN  IF r[7] = 0 THEN <<>> ELSE [n \in 1..count |-> 15 + (n - 1) * r[8]]

Trace(r, least, Event(_)) ==
    IF r[7] # 0 /\ r[8] < least THEN [error |-> "bad-record"]
    ELSE [error |-> "none", latestSequence |-> U32(r, 9), droppedCount |-> U16(r, 13),
          events |-> [n \in DOMAIN Offsets(r, least) |-> Event(Offsets(r, least)[n])]]

Span(r, first, length) == [i \in 1..length |-> r[first + i - 1]]

ParseAudioDebugReport(r) ==
    LET Event(o) == [sequence |-> U32(r, o), time |-> U32(r, o + 4), code |-> r[o + 8],
                     rest |-> Span(r, o + 9, 5)]
    IN  Parsed(r, 5, CurrentVersion(r), Trace(r, 14, Event))
ParseTriggerTraceReport(r) ==
    LET Event(o) == [sequence |-> U16(r, o), time |-> U32(r, o + 2), code |-> r[o + 6],
                     rest |-> Span(r, o + 7, 30)]
    IN  Parsed(r, 9, CurrentVersion(r), Trace(r, 38, Event))
ParseFeedbackTraceReport(r) ==
    LET Event(o) == [sequence |-> U16(r, o), time |-> U32(r, o + 2), code |-> r[o + 6],
                     rest |-> Span(r, o + 7, 16)]
    IN  Parsed(r, 10, CurrentVersion(r), Trace(r, 24, Event))

\* statsVersion and fourteen counters.
ParseAudioStatsReport(r) ==
    Parsed(r, 6, CurrentVersion(r),
        [error |-> "none", statsVersion |-> r[7], counters |-> [n \in 1..14 |-> U32(r, 4 + 4 * n)]])

ParseAudioStatusReport(r) ==
    Parsed(r, 8, AudioStatusVersion(r),
        [error |-> "none", duplexRequested |-> Bit(r[9], 4), duplexActive |-> Bit(r[9], 5),
         controllerStateReady |-> Bit(r[9], 6), micUsbStreaming |-> Bit(r[9], 7),
         headset |-> <<Bit(r[10], 0), Bit(r[10], 1)>>,
         counters |-> [n \in 1..8 |-> U32(r, 21 + 4 * n)],
         samples |-> [n \in 1..3 |-> U16(r, 55 + 2 * n)]])
-----------------------------------------------------------------------------
(* The exchanges. *)

\* A daemon that has been used: nothing is as it starts.
Used ==
    [Runtime EXCEPT
        !.settings = [haptics_gain_percent |-> 300, classic_rumble_gain_percent |-> 50,
            trigger_effect_intensity_percent |-> 60, player_led_enabled |-> FALSE,
            led_enabled |-> FALSE, idle_disconnect_enabled |-> TRUE,
            idle_disconnect_timeout_minutes |-> 300, speaker_volume_percent |-> 40,
            speaker_gain_level |-> 4, lightbar_red |-> 1, lightbar_green |-> 2,
            lightbar_blue |-> 3, lightbar_brightness_percent |-> 70,
            lightbar_override_enabled |-> TRUE, mic_muted |-> TRUE, mute_button_mode |-> 1,
            mute_keyboard_usage |-> 4, mute_keyboard_modifiers |-> 146,
            quiet_mode_enabled |-> FALSE, usb_suspend_disconnect_enabled |-> TRUE,
            sleep_keybind_enabled |-> TRUE, host_persona_mode |-> 0,
            touchpad_pointer_enabled |-> FALSE],
        !.remap = [j \in 1..21 |-> 20 - (j - 1)], !.remapActive = TRUE,
        !.chords = <<[event |-> 32, starter |-> 1, button |-> 13]>>, !.events = <<32, 1>>,
        !.left = [NoEffect EXCEPT !.active = TRUE, !.start = 20], !.revision = 65535, !.result = 4]

\* The field of the daemon a command of one value sets, and the values the bridge sends.
\* (The bridge sends a rumble gain up to 500, of which the daemon takes 400.)
Toggled == {0, 1}
Sets ==
    [SET_HAPTICS_GAIN |-> <<"haptics_gain_percent", {0, 1, 100, 255, 256, 500}>>,
     SET_CLASSIC_RUMBLE_GAIN |-> <<"classic_rumble_gain_percent", {0, 100, 256, 400}>>,
     SET_SPEAKER_VOLUME |-> <<"speaker_volume_percent", {0, 1, 99, 100}>>,
     SET_TRIGGER_EFFECT_INTENSITY |-> <<"trigger_effect_intensity_percent", {0, 1, 100}>>,
     SET_IDLE_DISCONNECT_TIMEOUT |-> <<"idle_disconnect_timeout_minutes", {1, 10, 120}>>,
     SET_HOST_PERSONA |-> <<"host_persona_mode", {0}>>,
     SET_LED_ENABLED |-> <<"led_enabled", Toggled>>,
     SET_PLAYER_LED_ENABLED |-> <<"player_led_enabled", Toggled>>,
     SET_IDLE_DISCONNECT_ENABLED |-> <<"idle_disconnect_enabled", Toggled>>,
     SET_LIGHTBAR_OVERRIDE |-> <<"lightbar_override_enabled", Toggled>>,
     SET_USB_SUSPEND_DISCONNECT_ENABLED |-> <<"usb_suspend_disconnect_enabled", Toggled>>,
     SET_SLEEP_KEYBIND_ENABLED |-> <<"sleep_keybind_enabled", Toggled>>,
     SET_MIC_MUTE |-> <<"mic_muted", Toggled>>,
     SET_TOUCHPAD_POINTER |-> <<"touchpad_pointer_enabled", Toggled>>]

Controllers ==
    {[connected |-> c, edge |-> e, battery |-> b, rssi |-> s, rssiValid |-> v] :
        c \in BOOLEAN, e \in BOOLEAN, b \in {0, 5, 26, 43, 255}, s \in {-90, -1, 0, 20},
        v \in BOOLEAN}

SameButtons == [b \in {RemapButtons[i] : i \in 1..21} |-> b]
Remappings == {[SameButtons EXCEPT ![b] = t] : b \in DOMAIN SameButtons, t \in DOMAIN SameButtons \cup {"gone"}}
Chord == [starter |-> "mute", button |-> "r3"]
ChordLists ==
    {<<>>, [n \in 1..16 |-> Chord], [n \in 1..17 |-> Chord]}
    \cup {<<c, Chord>> : c \in {x \in [starter : {"ps", "lfn", "rfn", "mute"}, button : ChordButtons] :
                                IsChordBindingAllowed(x.starter, x.button)}}

Percents == {0, 1, 100}
Zones == {NoZones, [NoZones EXCEPT ![10] = 100], [z \in 1..10 |-> z * 10]}
EffectOf(mode, target, a, b, c, zones) ==
    [mode |-> mode, target |-> target, start |-> a, wall |-> b, force |-> c, frequency |-> 1 + b,
     end |-> a + 1, startForce |-> b, endForce |-> c, zones |-> zones]

Before == {Runtime, Used}

Init ==
    \/ \E run \in Before, command \in DOMAIN Sets : \E value \in Sets[command][2] :
          exchange = [kind |-> "setting", run |-> run, command |-> command, value |-> value]
    \/ \E run \in Before, command \in DOMAIN CommandId, value \in {0, 3, 601, 771, 65535},
           on \in BOOLEAN, minor \in {7, 16, 17}, sequence \in {0, 1, 300} :
          exchange = [kind |-> "command", run |-> run, command |-> command, value |-> value,
                      on |-> on, minor |-> minor, sequence |-> sequence]
    \/ \E run \in Before, color \in {<<0, 128, 255>>, <<9, 0, 7>>}, brightness \in Percents :
          exchange = [kind |-> "color", run |-> run, color |-> color, brightness |-> brightness]
    \/ \E run \in Before, mode \in {MuteModes[i] : i \in 1..4}, usage \in {1, 115},
           modifiers \in {0, 5, 15}, behavior \in {"tap", "hold"}, starter \in BOOLEAN :
          exchange = [kind |-> "mute", run |-> run, mode |-> mode, usage |-> usage,
                      modifiers |-> modifiers, behavior |-> behavior, starter |-> starter]
    \/ \E run \in Before, mapping \in Remappings :
          exchange = [kind |-> "remap", run |-> run, mapping |-> mapping]
    \/ \E run \in Before, chords \in ChordLists :
          exchange = [kind |-> "chords", run |-> run, chords |-> chords]
    \/ \E run \in Before, preview \in BOOLEAN, mode \in 1..3, target \in 1..3, a \in Percents,
           b \in Percents, c \in Percents :
          exchange = [kind |-> "effect", run |-> run, preview |-> preview,
                      effect |-> EffectOf(TestModes[mode], Targets[target], a, b, c, NoZones)]
    \/ \E run \in Before, mode \in 1..7, target \in 1..3, a \in {0, 99}, b \in Percents,
           c \in Percents, zones \in Zones :
          exchange = [kind |-> "effectV2", run |-> run,
                      effect |-> EffectOf(EffectModes[mode], Targets[target], a, b, c, zones)]
    \/ \E run \in Before, controller \in Controllers, uptime \in {0, 65536, 20000000} :
          exchange = [kind |-> "status", run |-> run, controller |-> controller, uptime |-> uptime]
    \/ \E major \in 0..2, minor \in {1, 2, 15, 16, 17}, magic \in BOOLEAN :
          exchange = [kind |-> "version", major |-> major, minor |-> minor, magic |-> magic]
    \/ \E count \in {0, 1, 2, 3, 4, 255}, size \in {0, 13, 14, 23, 24, 38, 39, 64} :
          exchange = [kind |-> "records", count |-> count, size |-> size]

-----------------------------------------------------------------------------
Sent(command, value, extra) == BuildCommandReport(command, 7, value, extra, Minor)
After(run, report) == Handle(run, report, TRUE)
Accepted(run, command, changed) ==
    [changed EXCEPT !.command = CommandId[command], !.sequence = 7, !.result = 0,
                    !.revision = (run.revision + 1) % 65536]

SettingArrives(x) ==
    LET field == Sets[x.command][1]
        value == IF Sets[x.command][2] = Toggled THEN x.value = 1 ELSE x.value
    IN  After(x.run, Sent(x.command, x.value, <<>>)) =
            Accepted(x.run, x.command, [x.run EXCEPT !.settings[field] = value])

\* Answered whatever it asks; a refused command changes nothing.
CommandAnswered(x) ==
    LET next == Handle(x.run, BuildCommandReport(x.command, x.sequence, x.value, <<>>, x.minor), x.on)
        ack == ParseAckReport(AckReport(next, 1), FALSE)
        Settled(run) == [run EXCEPT !.command = 0, !.sequence = 0, !.result = 0]
    IN  /\ ack.error = "none" /\ ack.commandId = CommandId[x.command]
        /\ ack.commandSequence = x.sequence % 256
        /\ (x.minor > Minor) = (AckUserMessage(ack.resultCode) = "Firmware protocol mismatch")
        /\ ack.resultCode = AckResult.OK <=> ack.settingsRevision # x.run.revision
        /\ ack.resultCode # AckResult.OK => Settled(next) = Settled(x.run)
        /\ ack.resultCode = AckResult.ERR_UNKNOWN_COMMAND => x.command = "ENTER_BOOTLOADER"
        /\ ack.resultCode = AckResult.ERR_NOT_CONNECTED => ~x.on

ColorArrives(x) ==
    After(x.run, Sent("SET_LIGHTBAR_COLOR", x.brightness, x.color)) =
        Accepted(x.run, "SET_LIGHTBAR_COLOR",
            [x.run EXCEPT !.settings.lightbar_red = x.color[1],
                          !.settings.lightbar_green = x.color[2],
                          !.settings.lightbar_blue = x.color[3],
                          !.settings.lightbar_brightness_percent = x.brightness])

\* What the user chose for the mute button comes back in the status.
MuteComesBack(x) ==
    LET options == EncodeMuteKeyboardOptions(x.modifiers, x.behavior, x.starter)
        next == After(x.run, Sent("SET_MUTE_BUTTON_ACTION", Code(MuteModes, x.mode),
                                  <<x.usage, options>>))
        status == ParseStatusReport(StatusReport(next,
                    CHOOSE c \in Controllers : ~c.connected, 1))
    IN  /\ status.muteButtonMode = x.mode /\ status.muteKeyboardUsage = x.usage
        /\ status.muteKeyboardModifiers = x.modifiers
        /\ status.muteKeyboardBehavior = x.behavior
        /\ status.muteKeyboardChordStarterEnabled = x.starter

RemapArrives(x) ==
    LET next == After(x.run, Sent("SET_BUTTON_REMAP", 0, BuildButtonRemapPayload(x.mapping)))
        target(b) == IF x.mapping[b] = "gone" THEN b ELSE x.mapping[b]
    IN  /\ next.result = AckResult.OK
        /\ \A i \in 1..21 : RemapButtons[next.remap[i] + 1] = target(RemapButtons[i])
        /\ next.remapActive <=> \E b \in DOMAIN x.mapping : target(b) # b

\* The event of a chord leads back to the assignment it was made from.
ChordsArrive(x) ==
    LET next == After(x.run, Sent("SET_CHORD_BINDINGS", Len(x.chords),
                                  BuildChordBindingsPayload(x.chords)))
        Pressed(binding) ==
            ParseShortcutEvent(InputReport([next EXCEPT !.events = <<binding.event>>]))
    IN  /\ next.result = AckResult.OK /\ Len(next.chords) = AtMost(MaxChords, Len(x.chords))
        /\ \A i \in DOMAIN next.chords :
             LET event == Pressed(next.chords[i])
                 assigned == x.chords[event.slot + 1]
             IN  /\ event.kind = "chord-function"
                 /\ assigned.starter = Starters[next.chords[i].starter]
                 /\ assigned.button = RemapButtons[next.chords[i].button + 1]
        /\ ParseShortcutEvent(InputReport(next)).kind = "none"

Stored(next, run, target) ==
    [t \in {"l2", "r2"} |-> IF target \in {"both", t}
                            THEN IF t = "l2" THEN next.left ELSE next.right
                            ELSE IF (IF t = "l2" THEN next.left = run.left ELSE next.right = run.right)
                                 THEN NoEffect ELSE [NoEffect EXCEPT !.mode = 99]]

EffectArrives(x) ==
    LET e == x.effect
        command == IF x.preview THEN "PREVIEW_ADAPTIVE_TRIGGER_EFFECT"
                   ELSE "APPLY_ADAPTIVE_TRIGGER_EFFECT"
        next == After(x.run, Sent(command, TriggerValue(TestModes, e), <<e.start, e.wall, e.force>>))
        wanted == [NoEffect EXCEPT !.active = ~x.preview \/ e.force > 0,
                     !.mode = Code(TestModes, e.mode), !.start = e.start, !.wall = e.wall,
                     !.force = e.force]
    IN  /\ next.result = AckResult.OK
        /\ IF x.preview THEN next.test = wanted /\ next.left = x.run.left /\ next.right = x.run.right
           ELSE next.test = x.run.test /\ \A t \in {"l2", "r2"} :
                    Stored(next, x.run, e.target)[t] = IF e.target \in {"both", t} THEN wanted ELSE NoEffect

\* Read back as an effect of its mode, with the parameters that mode has.
EffectV2Arrives(x) ==
    LET e == x.effect
        next == After(x.run, Sent("APPLY_ADAPTIVE_TRIGGER_EFFECT_V2", TriggerValue(EffectModes, e),
                                  TriggerEffectV2ExtraPayload(e)))
        Reads(d) ==
            /\ d.active /\ EffectModes[d.mode + 1] = e.mode
            /\ e.mode \in {"feedback", "weapon", "vibration"} => d.start = e.start /\ d.force = e.force
            /\ e.mode = "weapon" => d.wall = e.wall
            /\ e.mode \in {"vibration", "multi-vibration"} => d.frequency = e.frequency
            /\ e.mode \in {"multi-feedback", "multi-vibration"} => d.zones = e.zones
            /\ e.mode = "slope" => /\ d.start = e.start /\ d.end = e.end
                                    /\ d.force = e.startForce /\ d.endForce = e.endForce
    IN  /\ next.result = AckResult.OK
        /\ \A t \in {"l2", "r2"} :
             IF e.target \in {"both", t} THEN Reads(IF t = "l2" THEN next.left ELSE next.right)
             ELSE Stored(next, x.run, e.target)[t] = NoEffect

\* The bridge sees the daemon as it is.
StatusAgrees(x) ==
    LET s == ParseStatusReport(StatusReport(x.run, x.controller, x.uptime))
        d == x.run.settings
        c == x.controller
    IN  /\ s.error = "none" /\ s.controllerConnected = c.connected
        /\ s.hapticsReady = c.connected
        /\ s.controllerType = IF ~c.connected THEN "unknown"
                              ELSE IF c.edge THEN "dualsense-edge" ELSE "dualsense"
        /\ s.dse = (s.controllerType = "dualsense-edge")
        /\ s.batteryPercent \in -1..100 /\ (~c.connected => s.batteryPercent = -1)
        /\ s.signalStrengthDbm = IF c.connected /\ c.rssiValid THEN c.rssi ELSE 0
        /\ s.settingsRevision = x.run.revision /\ s.lastCommandResult = x.run.result
        /\ s.uptimeSeconds = x.uptime /\ s.hapticsGainPercent = d.haptics_gain_percent
        /\ s.ledEnabled = d.led_enabled /\ s.idleDisconnectEnabled = d.idle_disconnect_enabled
        /\ s.usbSuspendDisconnectEnabled = d.usb_suspend_disconnect_enabled
        /\ s.sleepKeybindEnabled = d.sleep_keybind_enabled
        /\ s.speakerVolumePercent = d.speaker_volume_percent
        /\ s.lightbarColor = <<d.lightbar_red, d.lightbar_green, d.lightbar_blue,
                               d.lightbar_brightness_percent>>
        /\ s.idleDisconnectTimeoutMinutes = d.idle_disconnect_timeout_minutes
        /\ s.micMuted = d.mic_muted /\ s.speakerGainLevel = d.speaker_gain_level
        /\ s.lightbarOverrideEnabled = d.lightbar_override_enabled
        /\ s.quietModeEnabled = d.quiet_mode_enabled
        /\ s.hostPersonaMode \in s.supportedHostPersonaModes

\* One side of another version is told, by either side, and never half understood.
VersionsChecked(x) ==
    LET Of(id) == 1 :> (IF x.magic THEN 68 ELSE 0) @@ 5 :> x.major @@ 6 :> x.minor @@ DaemonHeader(id)
        same == x.magic /\ x.major = 1 /\ x.minor = Minor
        older == x.magic /\ x.major = 1 /\ x.minor <= Minor
    IN  /\ (ParseStatusReport(Of(STATUS)).error = "none") = same
        /\ (ParseAckReport(Of(ACK), FALSE).error = "none") = same
        /\ (ParseAckReport(Of(ACK), TRUE).error = "none") = older
        /\ (ParseAudioStatusReport(Of(8)).error = "none") = (older /\ x.minor >= 2)
        /\ (ParseAudioStatsReport(Of(6)).error = "none") = same
        /\ (ValidateCommandReport(Of(COMMAND)) = "OK") = older
        /\ ParseStatusReport(Of(ACK)).error = "bad-report"

\* Every record that fits is read once, none beyond the report.
RecordsFit(x) ==
    LET Of(id) == 7 :> x.count @@ 8 :> x.size @@ DaemonHeader(id)
        Fits(parsed, least) ==
            IF x.count # 0 /\ x.size < least THEN parsed.error = "bad-record"
            ELSE /\ parsed.error = "none"
                 /\ Len(parsed.events) = Cardinality({n \in 1..x.count : 15 + (n - 1) * x.size + least <= 64})
    IN  /\ Fits(ParseAudioDebugReport(Of(5)), 14)
        /\ Fits(ParseTriggerTraceReport(Of(9)), 38)
        /\ Fits(ParseFeedbackTraceReport(Of(10)), 24)

\* Bridge and daemon agree on every report: what the one writes the other reads as the
\* same thing, a command sets what it names and nothing else, a refused one sets nothing,
\* and a report of another version is refused.
WireAgrees ==
    CASE exchange.kind = "setting" -> SettingArrives(exchange)
      [] exchange.kind = "command" -> CommandAnswered(exchange)
      [] exchange.kind = "color" -> ColorArrives(exchange)
      [] exchange.kind = "mute" -> MuteComesBack(exchange)
      [] exchange.kind = "remap" -> RemapArrives(exchange)
      [] exchange.kind = "chords" -> ChordsArrive(exchange)
      [] exchange.kind = "effect" -> EffectArrives(exchange)
      [] exchange.kind = "effectV2" -> EffectV2Arrives(exchange)
      [] exchange.kind = "status" -> StatusAgrees(exchange)
      [] exchange.kind = "version" -> VersionsChecked(exchange)
      [] exchange.kind = "records" -> RecordsFit(exchange)
=============================================================================
