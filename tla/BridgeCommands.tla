--------------------------- MODULE BridgeCommands ---------------------------
(***************************************************************************)
(* The operations of main/bridge-service.ts as programs: what each asks of *)
(* the controller and what it stores, in which order.                      *)
(*                                                                         *)
(* A program is a sequence of steps.  BridgeSession runs it, an operation  *)
(* being suspended at every command until the command is acknowledged:     *)
(*   send    a command; upd is the update the operation stores afterwards   *)
(*   store   settingsStore.update                                           *)
(*   push    if the bridge is connected, commands with what the settings    *)
(*           now call for                                                   *)
(*   engine  updateSystemAudioHapticsEngine                                 *)
(*   saving  the flag for controller power saving follows the settings      *)
(* A command's value stands for its payload too.                            *)
(***************************************************************************)
EXTENDS Integers, Sequences, SequencesExt

Least(a, b) == IF a < b THEN a ELSE b

Standard == 200    \* STANDARD_FEEDBACK_GAIN_PERCENT
Boosted == 500     \* BOOSTED_FEEDBACK_GAIN_PERCENT
SavingCap == 60    \* CONTROLLER_POWER_SAVING_CAP_PERCENT

-----------------------------------------------------------------------------
(* Settings.                                                               *)

DefaultSettings ==
    [hapticsEnabled |-> TRUE, hapticsGainPercent |-> 100, feedbackBoostEnabled |-> FALSE,
     hapticsBufferLength |-> 64,
     classicRumbleEnabled |-> TRUE, classicRumbleGainPercent |-> 100,
     classicRumbleV1Enabled |-> FALSE,
     adaptiveTriggersEnabled |-> TRUE, triggerEffectIntensityPercent |-> 100,
     speakerEnabled |-> TRUE, speakerVolumePercent |-> 100, speakerGainLevel |-> 4,
     micVolumePercent |-> 100, micMuted |-> FALSE, duplexMicEnabled |-> TRUE,
     audioReactiveHapticsEnabled |-> FALSE, audioReactiveHapticsMode |-> "mix",
     lightbarEnabled |-> TRUE, lightbarColor |-> "blue", lightbarBrightnessPercent |-> 100,
     lightbarOverrideEnabled |-> FALSE,
     muteButtonMode |-> "normal", muteKeyboardBehavior |-> "tap",
     muteKeyboardChordStarterEnabled |-> FALSE,
     ledEnabled |-> TRUE, playerLedEnabled |-> TRUE, touchpadMouseEnabled |-> TRUE,
     idleDisconnectEnabled |-> TRUE, idleDisconnectTimeoutMinutes |-> 15,
     usbSuspendDisconnectEnabled |-> TRUE, sleepKeybindEnabled |-> FALSE,
     speakerVolumeShortcutEnabled |-> FALSE, pollingRateMode |-> "1000",
     controllerPowerSavingEnabled |-> FALSE,
     buttonRemappingDraft |-> "identity", chordAssignments |-> "none"]

\* s with the fields of u.
With(s, u) == [f \in DOMAIN s \cup DOMAIN u |-> IF f \in DOMAIN u THEN u[f] ELSE s[f]]

\* PRESET_SETTINGS, what applyPreset stores for a preset.
PresetSettings ==
    [balanced |-> [hapticsEnabled |-> TRUE, hapticsGainPercent |-> 100,
                   feedbackBoostEnabled |-> FALSE, classicRumbleEnabled |-> TRUE,
                   classicRumbleGainPercent |-> 100, speakerEnabled |-> TRUE,
                   speakerVolumePercent |-> 100, adaptiveTriggersEnabled |-> TRUE,
                   triggerEffectIntensityPercent |-> 100, lightbarEnabled |-> TRUE,
                   lightbarColor |-> "blue", lightbarBrightnessPercent |-> 100,
                   lightbarOverrideEnabled |-> FALSE, muteButtonMode |-> "normal",
                   muteKeyboardBehavior |-> "tap"],
     quiet |-> [hapticsEnabled |-> FALSE, classicRumbleEnabled |-> FALSE,
                speakerEnabled |-> FALSE, adaptiveTriggersEnabled |-> FALSE,
                lightbarEnabled |-> TRUE, lightbarBrightnessPercent |-> 35,
                lightbarOverrideEnabled |-> TRUE, muteButtonMode |-> "quiet"],
     noSpeaker |-> [speakerEnabled |-> FALSE],
     noHaptics |-> [hapticsEnabled |-> FALSE, classicRumbleEnabled |-> FALSE],
     noTriggers |-> [adaptiveTriggersEnabled |-> FALSE, triggerEffectIntensityPercent |-> 0],
     lightsOff |-> [lightbarEnabled |-> FALSE, lightbarOverrideEnabled |-> TRUE]]

-----------------------------------------------------------------------------
(* What the settings call for.  saving: power saving is active, that is,   *)
(* enabled, and the last audio status showed a headset.                    *)

FeedbackGainMax(s) == IF s.feedbackBoostEnabled THEN Boosted ELSE Standard
Capped(v, saving) == IF saving THEN Least(v, SavingCap) ELSE v

EffectiveHapticsGain(s, saving) ==
    IF s.hapticsEnabled
    THEN Capped(Least(s.hapticsGainPercent, FeedbackGainMax(s)), saving) ELSE 0

EffectiveClassicRumbleGain(s, saving) ==
    IF s.classicRumbleEnabled
    THEN Capped(Least(s.classicRumbleGainPercent, FeedbackGainMax(s)), saving) ELSE 0

EffectiveTriggerEffectIntensity(s, saving) ==
    IF s.adaptiveTriggersEnabled THEN Capped(s.triggerEffectIntensityPercent, saving) ELSE 0

EffectiveLightbarBrightness(s, saving) ==
    IF s.lightbarEnabled THEN Capped(s.lightbarBrightnessPercent, saving) ELSE 0

\* The controller's own audio haptics stay off: passthrough is not modelled.
AudioReactivePayload(s) ==
    [mode |-> s.audioReactiveHapticsMode,
     suppressesRumble |-> /\ s.hapticsEnabled /\ s.audioReactiveHapticsEnabled
                          /\ s.audioReactiveHapticsMode = "replace"]

SystemAudioHapticsDesired(s) == s.hapticsEnabled /\ s.audioReactiveHapticsEnabled

LightbarColor(s) == IF s.lightbarEnabled THEN s.lightbarColor ELSE "black"
LightbarOverride(s) == ~s.lightbarEnabled \/ s.lightbarOverrideEnabled
SpeakerVolume(s) == IF s.speakerEnabled THEN s.speakerVolumePercent ELSE 0
MuteButtonAction(s) ==
    <<s.muteButtonMode, s.muteKeyboardBehavior,
      s.muteButtonMode = "keyboard" /\ s.muteKeyboardChordStarterEnabled>>

\* The value of each command, in the order applyCurrentSettings sends them.
Effective(s, saving) ==
    [SET_LIGHTBAR_COLOR |-> <<LightbarColor(s), EffectiveLightbarBrightness(s, saving)>>,
     SET_LIGHTBAR_OVERRIDE |-> LightbarOverride(s),
     SET_MUTE_BUTTON_ACTION |-> MuteButtonAction(s),
     SET_HAPTICS_GAIN |-> EffectiveHapticsGain(s, saving),
     SET_HAPTICS_BUFFER_LENGTH |-> s.hapticsBufferLength,
     SET_AUDIO_REACTIVE_HAPTICS |-> AudioReactivePayload(s),
     SET_CLASSIC_RUMBLE_GAIN |-> EffectiveClassicRumbleGain(s, saving),
     SET_CLASSIC_RUMBLE_V1 |-> s.classicRumbleV1Enabled,
     SET_TRIGGER_EFFECT_INTENSITY |-> EffectiveTriggerEffectIntensity(s, saving),
     SET_SPEAKER_GAIN |-> s.speakerGainLevel,
     SET_SPEAKER_VOLUME |-> SpeakerVolume(s),
     SET_DUPLEX_ENABLED |-> s.duplexMicEnabled,
     SET_MIC_VOLUME |-> s.micVolumePercent,
     SET_MIC_MUTE |-> s.micMuted,
     SET_LED_ENABLED |-> s.ledEnabled,
     SET_PLAYER_LED_ENABLED |-> s.playerLedEnabled,
     SET_TOUCHPAD_POINTER |-> s.touchpadMouseEnabled,
     SET_IDLE_DISCONNECT_ENABLED |-> s.idleDisconnectEnabled,
     SET_IDLE_DISCONNECT_TIMEOUT |-> s.idleDisconnectTimeoutMinutes,
     SET_USB_SUSPEND_DISCONNECT_ENABLED |-> s.usbSuspendDisconnectEnabled,
     SET_SLEEP_KEYBIND_ENABLED |-> s.sleepKeybindEnabled,
     SET_SPEAKER_VOLUME_SHORTCUT_ENABLED |-> s.speakerVolumeShortcutEnabled,
     SET_BUTTON_REMAP |-> s.buttonRemappingDraft,
     SET_CHORD_BINDINGS |-> s.chordAssignments,
     SET_POLLING_RATE_MODE |-> s.pollingRateMode]

Commands == DOMAIN Effective(DefaultSettings, FALSE)

LightbarOrder == <<"SET_LIGHTBAR_COLOR", "SET_LIGHTBAR_OVERRIDE">>

\* applyControllerPowerSavingSensitiveSettings.
SavingOrder == <<"SET_HAPTICS_GAIN", "SET_CLASSIC_RUMBLE_GAIN", "SET_TRIGGER_EFFECT_INTENSITY",
                 "SET_AUDIO_REACTIVE_HAPTICS">> \o LightbarOrder

\* applyCurrentSettings; the persona command at its end is not modelled.
ReapplyOrder ==
    LightbarOrder \o
    <<"SET_MUTE_BUTTON_ACTION", "SET_HAPTICS_GAIN", "SET_HAPTICS_BUFFER_LENGTH",
      "SET_AUDIO_REACTIVE_HAPTICS", "SET_CLASSIC_RUMBLE_GAIN", "SET_CLASSIC_RUMBLE_V1",
      "SET_TRIGGER_EFFECT_INTENSITY", "SET_SPEAKER_GAIN", "SET_SPEAKER_VOLUME",
      "SET_DUPLEX_ENABLED", "SET_MIC_VOLUME", "SET_MIC_MUTE", "SET_LED_ENABLED",
      "SET_PLAYER_LED_ENABLED", "SET_TOUCHPAD_POINTER", "SET_IDLE_DISCONNECT_ENABLED",
      "SET_IDLE_DISCONNECT_TIMEOUT", "SET_USB_SUSPEND_DISCONNECT_ENABLED",
      "SET_SLEEP_KEYBIND_ENABLED", "SET_SPEAKER_VOLUME_SHORTCUT_ENABLED",
      "SET_BUTTON_REMAP", "SET_CHORD_BINDINGS", "SET_POLLING_RATE_MODE">>

-----------------------------------------------------------------------------
(* The daemon's side: the settings of CompanionRuntime after a start or a  *)
(* RESTORE_DEFAULTS, and what it keeps of a command's value.  Commands it   *)
(* acknowledges without acting on keep the value they were last given.     *)

ControllerDefaults ==
    With(Effective(DefaultSettings, FALSE),
         [SET_IDLE_DISCONNECT_ENABLED |-> FALSE, SET_IDLE_DISCONNECT_TIMEOUT |-> 10,
          SET_USB_SUSPEND_DISCONNECT_ENABLED |-> FALSE])

Accepted(c, v) ==
    CASE c = "SET_HAPTICS_GAIN" -> Least(v, 1000)
      [] c = "SET_CLASSIC_RUMBLE_GAIN" -> Least(v, 400)
      [] OTHER -> v

-----------------------------------------------------------------------------
(* Steps.                                                                  *)

NoUpdate == <<>>
Send(c, v, upd) == [do |-> "send", cmd |-> c, val |-> v, upd |-> upd]
Try(c, v, upd) == [do |-> "try", cmd |-> c, val |-> v, upd |-> upd]
Live(c) == [do |-> "live", cmd |-> c]
Restore == [do |-> "restore", cmd |-> "RESTORE_DEFAULTS"]
\* sent: commands the operation has sent before, other than the last.
StoreAfter(upd, sent) == [do |-> "store", upd |-> upd, sent |-> sent]
Store(upd) == StoreAfter(upd, {})

\* all: applyCurrentSettings.  cmds get the settings of the moment of the push,
\* live those of the moment each command is called.
PushOf(all, cmds, live) == [do |-> "push", all |-> all, cmds |-> cmds, live |-> live]
Push(cs) == PushOf(FALSE, cs, <<>>)
PushLive(cs) == PushOf(FALSE, <<>>, cs)
PushAll == PushOf(TRUE, <<>>, <<>>)

Engine == [do |-> "engine"]
Saving == [do |-> "saving"]

\* Commands with what the settings s call for, one after the other: "apply"
\* takes its value of s, with or without the cap, when it is called.
ApplyAll(cs, s) ==
    LET plain == Effective(s, FALSE)
        capped == Effective(s, TRUE)
    IN  [i \in DOMAIN cs |->
            [do |-> "apply", cmd |-> cs[i],
             of |-> [saves |-> s.controllerPowerSavingEnabled,
                     plain |-> plain[cs[i]], capped |-> capped[cs[i]]]]]

\* applyCurrentSettings: after its audio part the host's engine is brought in
\* line, unless a reapply runs.
EngineUnlessReapplying == [do |-> "engineUnlessReapplying"]
ApplyCurrentSettings(s) ==
    LET i == CHOOSE k \in DOMAIN ReapplyOrder : ReapplyOrder[k] = "SET_AUDIO_REACTIVE_HAPTICS"
    IN  InsertAt(ApplyAll(ReapplyOrder, s), i + 1, EngineUnlessReapplying)

\* sendSettingCommand: the value that the updated settings call for is sent,
\* and the update is stored when the command is acknowledged.
SendSetting(c, s, upd, saving) ==
    <<Send(c, Effective(With(s, upd), saving)[c], upd), Store(upd)>>

\* A setting that is stored first and then pushed.
StoreThenPush(upd, cs) == <<Store(upd), Push(cs)>>

-----------------------------------------------------------------------------
(* Operations.  s is what settingsStore.get returns when they are called.  *)

Bound(v, lo, hi) == IF v < lo THEN lo ELSE Least(v, hi)

setHapticsGain(s, percent, saving) ==
    LET gain == Bound(percent, 0, FeedbackGainMax(s))
        upd == IF gain > 0 /\ ~s.hapticsEnabled
               THEN [hapticsGainPercent |-> gain, hapticsEnabled |-> TRUE]
               ELSE [hapticsGainPercent |-> gain]
    IN  SendSetting("SET_HAPTICS_GAIN", s, upd, saving)

setHapticsEnabledQuietMutant(s, on, saving) ==
    SendSetting("SET_HAPTICS_GAIN", s, [hapticsEnabled |-> on], saving)
        \o <<PushLive(<<"SET_AUDIO_REACTIVE_HAPTICS">>)>>

setHapticsEnabled(s, on, saving) ==
    SendSetting("SET_HAPTICS_GAIN", s, [hapticsEnabled |-> on], saving)
        \o <<PushLive(<<"SET_AUDIO_REACTIVE_HAPTICS">>), Engine>>

setHapticsBufferLength(s, n) ==
    SendSetting("SET_HAPTICS_BUFFER_LENGTH", s, [hapticsBufferLength |-> Bound(n, 16, 128)], FALSE)

setClassicRumbleGain(s, percent, saving) ==
    SendSetting("SET_CLASSIC_RUMBLE_GAIN", s,
                [classicRumbleGainPercent |-> Bound(percent, 0, FeedbackGainMax(s))], saving)

\* Both commands take the settings of the moment they are called.
setFeedbackBoostEnabled(s, on) ==
    LET capped == [feedbackBoostEnabled |-> FALSE,
                   hapticsGainPercent |-> Least(s.hapticsGainPercent, Standard),
                   classicRumbleGainPercent |-> Least(s.classicRumbleGainPercent, Standard)]
    IN  <<Store(IF on THEN [feedbackBoostEnabled |-> TRUE] ELSE capped),
          PushLive(<<"SET_HAPTICS_GAIN", "SET_CLASSIC_RUMBLE_GAIN">>)>>

setClassicRumbleEnabled(s, on, saving) ==
    SendSetting("SET_CLASSIC_RUMBLE_GAIN", s, [classicRumbleEnabled |-> on], saving)

setClassicRumbleV1Enabled(s, on) ==
    SendSetting("SET_CLASSIC_RUMBLE_V1", s, [classicRumbleV1Enabled |-> on], FALSE)

setTriggerEffectIntensity(s, percent, saving) ==
    SendSetting("SET_TRIGGER_EFFECT_INTENSITY", s,
                [triggerEffectIntensityPercent |-> Bound(percent, 0, 100)], saving)

\* The reset of the controller's trigger effects that follows is no setting.
setAdaptiveTriggersEnabled(s, on, saving) ==
    SendSetting("SET_TRIGGER_EFFECT_INTENSITY", s, [adaptiveTriggersEnabled |-> on], saving)

setSpeakerVolume(s, percent) ==
    LET upd == [speakerVolumePercent |-> Bound(percent, 0, 100)]
    IN  (IF s.speakerEnabled
         THEN <<Send("SET_SPEAKER_VOLUME", upd.speakerVolumePercent, upd)>> ELSE <<>>)
        \o <<Store(upd)>>

setSpeakerGainLevel(s, level) ==
    SendSetting("SET_SPEAKER_GAIN", s, [speakerGainLevel |-> Bound(level, 1, 7)], FALSE)

setSpeakerEnabled(s, on) ==
    SendSetting("SET_SPEAKER_VOLUME", s, [speakerEnabled |-> on], FALSE)

setMicVolume(s, percent) ==
    SendSetting("SET_MIC_VOLUME", s, [micVolumePercent |-> Bound(percent, 0, 100)], FALSE)

setMicMute(s, on) == SendSetting("SET_MIC_MUTE", s, [micMuted |-> on], FALSE)

\* Stored, and the host's engine brought in line, whether or not the controller
\* accepts the command.
setAudioReactiveHapticsConfig(s, on, mode) ==
    LET upd == [audioReactiveHapticsEnabled |-> on, audioReactiveHapticsMode |-> mode]
    IN  <<Try("SET_AUDIO_REACTIVE_HAPTICS", AudioReactivePayload(With(s, upd)), upd),
          Store(upd), Engine>>

\* Muted before the microphone is turned off, unmuted after it is turned on.
setDuplexMicEnabled(s, on) ==
    LET upd == [duplexMicEnabled |-> on, micMuted |-> ~on]
        duplex == Send("SET_DUPLEX_ENABLED", on, upd)
        mute == Send("SET_MIC_MUTE", ~on, upd)
    IN  (IF on THEN <<duplex, mute>> ELSE <<mute, duplex>>)
        \o <<StoreAfter(upd, {"SET_DUPLEX_ENABLED", "SET_MIC_MUTE"})>>

setLightbarColor(s, color, percent, saving) ==
    LET upd == [lightbarColor |-> color, lightbarBrightnessPercent |-> Bound(percent, 0, 100)]
    IN  <<Send("SET_LIGHTBAR_COLOR",
               <<color, EffectiveLightbarBrightness(With(s, upd), saving)>>, upd),
          Store(upd)>>

setLightbarOverrideEnabled(s, on) ==
    LET upd == [lightbarOverrideEnabled |-> on]
    IN  <<Send("SET_LIGHTBAR_OVERRIDE", on, upd), Store(upd)>>

setLightbarEnabled(on) == StoreThenPush([lightbarEnabled |-> on], LightbarOrder)

setMuteButtonAction(s, mode, behavior, chords) ==
    SendSetting("SET_MUTE_BUTTON_ACTION", s,
                [muteButtonMode |-> mode, muteKeyboardBehavior |-> behavior,
                 muteKeyboardChordStarterEnabled |-> mode = "keyboard" /\ chords], FALSE)

setLedEnabled(s, on) == SendSetting("SET_LED_ENABLED", s, [ledEnabled |-> on], FALSE)
setPlayerLedEnabled(s, on) ==
    SendSetting("SET_PLAYER_LED_ENABLED", s, [playerLedEnabled |-> on], FALSE)
setIdleDisconnectEnabled(s, on) ==
    SendSetting("SET_IDLE_DISCONNECT_ENABLED", s, [idleDisconnectEnabled |-> on], FALSE)
setIdleDisconnectTimeoutMinutes(s, n) ==
    SendSetting("SET_IDLE_DISCONNECT_TIMEOUT", s, [idleDisconnectTimeoutMinutes |-> n], FALSE)
setUsbSuspendDisconnectEnabled(s, on) ==
    SendSetting("SET_USB_SUSPEND_DISCONNECT_ENABLED", s,
                [usbSuspendDisconnectEnabled |-> on], FALSE)
setSleepKeybindEnabled(s, on) ==
    SendSetting("SET_SLEEP_KEYBIND_ENABLED", s, [sleepKeybindEnabled |-> on], FALSE)
setSpeakerVolumeShortcutEnabled(s, on) ==
    SendSetting("SET_SPEAKER_VOLUME_SHORTCUT_ENABLED", s,
                [speakerVolumeShortcutEnabled |-> on], FALSE)
setPollingRateMode(s, mode) ==
    SendSetting("SET_POLLING_RATE_MODE", s, [pollingRateMode |-> mode], FALSE)
setTouchpadMouseEnabled(s, on) ==
    SendSetting("SET_TOUCHPAD_POINTER", s, [touchpadMouseEnabled |-> on], FALSE)

\* The flag is brought up to date, and the commands it matters to are sent if
\* it changed: the step "saving" does both.
setControllerPowerSavingEnabled(on) == <<Store([controllerPowerSavingEnabled |-> on]), Saving>>

\* The update stands for what settingsStore.applyPreset stores.
applyPreset(preset) == <<Store(PresetSettings[preset]), PushAll>>

\* selectControllerProfile and deleteControllerProfile: u are the settings of
\* the profile that becomes the selected one.
selectControllerProfile(u) == <<Store(u), PushAll>>
deleteControllerProfile(u) == <<Store(u), PushAll>>

\* The remapping, which applyCurrentSettings has sent, is sent again.
removeGameSettings(u) == <<Store(u), PushOf(TRUE, <<>>, <<"SET_BUTTON_REMAP">>)>>

restoreDefaults == <<Restore, Store(DefaultSettings), Engine>>

setButtonRemap(mapping) == StoreThenPush([buttonRemappingDraft |-> mapping], <<"SET_BUTTON_REMAP">>)
selectButtonRemappingProfile(mapping) == setButtonRemap(mapping)
deleteButtonRemappingProfile(mapping) == setButtonRemap(mapping)
restoreButtonRemappingDefaults == setButtonRemap("identity")

setChordConfiguration(as) == StoreThenPush([chordAssignments |-> as], <<"SET_CHORD_BINDINGS">>)
=============================================================================
