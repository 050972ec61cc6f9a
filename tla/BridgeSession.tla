---------------------------- MODULE BridgeSession ----------------------------
(***************************************************************************)
(* The bridge service at work: main/bridge-service.ts with the companion   *)
(* side of the daemon, src/vds_companion.cc.                               *)
(*                                                                         *)
(* Commands of all operations go through one queue and are acknowledged    *)
(* one at a time.  A poll reads the controller's status every 500 ms,      *)
(* notices a new session (a device just opened, or an uptime that dropped) *)
(* and starts a reapply, which sends all settings once.  The user's        *)
(* operations, the reapply, the poll's own commands and the poll's reads   *)
(* interleave at every await; the daemon may stop, start or fail a request *)
(* in between, the controller come and go, a headset be plugged in.        *)
(*                                                                         *)
(* group limits a behaviour to a few commands: commands of different       *)
(* groups share the queue and nothing else.                                *)
(***************************************************************************)
EXTENDS BridgeCommands, FiniteSets

CONSTANTS
    Watched,      \* Watched[g]: the commands of group g
    MaxCalls,     \* bound: operations the user starts
    MaxEvents,    \* bound: events of the daemon, the controller and the headset
    MaxFailures,  \* bound: requests that fail while the daemon runs
    MaxActs       \* bound: all of these together

VARIABLES
    group,
    settings,   \* what settingsStore holds
    pad,        \* the daemon's settings, by command
    daemon,     \* [up, run, uptime, controller, headset]
    app,        \* fields of BridgeService, and the status snapshot's state
    poll,       \* the poll: where it waits, the status it read, its settings
    prog,       \* what each task has still to do, the step it waits for first
    queue,      \* commandQueue: commands called and not acknowledged
    seen,       \* history: the daemon's run that the last session check saw
    excused,    \* history: commands whose value the code does not bring in line; the
                \* engine ("engine") or the note about power saving ("saving") likewise
    calls, events, failures

bounds == <<calls, events, failures>>
MayAct == calls + events + failures < MaxActs
MayFail == MayAct /\ failures < MaxFailures
vars == <<group, settings, pad, daemon, app, poll, prog, queue, seen, excused, bounds>>

-----------------------------------------------------------------------------
Groups == DOMAIN Watched
ASSUME WatchedAssumption == \A g \in Groups : Watched[g] \subseteq Commands

Users == {"user1", "user2"}
Reapplies == {"reapply1", "reapply2"}   \* bound: an old one and a new one
Tasks == Users \cup Reapplies \cup {"poll"}

None == -1
IsSaving(s) == s.controllerPowerSavingEnabled /\ app.headset
OnOff(b) == IF b THEN "on" ELSE "off"
Wanted(s) == Effective(s, IsSaving(s))

\* Commands whose value at the daemon is not what the settings call for.
Differing(p, s) ==
    LET w == Wanted(s) IN {c \in Watched[group] : p[c] # Accepted(c, w[c])}

\* The steps that concern the group.
Concerns(st) == st.do \in {"send", "try", "apply", "live"} => st.cmd \in Watched[group]
Follow(p) ==
    [q \in {p} |->    \* q is the value of p
        LET kept[n \in 0..Len(q)] ==
                IF n = 0 THEN <<>>
                ELSE IF Concerns(q[n]) THEN Append(kept[n - 1], q[n]) ELSE kept[n - 1]
        IN  kept[Len(q)]][p]

\* The daemon's settings that the group concerns, when it starts.
StartedPad == [c \in Watched[group] |-> ControllerDefaults[c]]

Busy(t) == prog[t] # <<>>
Waiting(t) == \E i \in DOMAIN queue : queue[i].task = t
\* A task that waits for nothing goes on before anything else happens.
Quiet == \A t \in Tasks : Busy(t) => Waiting(t)
Upcoming(t) == Head(prog[t])
\* The task has a step left that brings the host's engine in line.
BringsEngine(st) == st.do \in {"engine", "engineUnlessReapplying"} \/ (st.do = "push" /\ st.all)
Brings(t) == \E i \in DOMAIN prog[t] : BringsEngine(prog[t][i])
Moves(t, kind) == Busy(t) /\ ~Waiting(t) /\ Upcoming(t).do = kind
Proceed(t) == prog' = [prog EXCEPT ![t] = Tail(@)]
ReplaceWith(t, steps) == prog' = [prog EXCEPT ![t] = Follow(steps) \o Tail(@)]

Fresh == [device |-> FALSE, state |-> "no-bridge", session |-> FALSE, reapplied |-> FALSE,
          reapplying |-> FALSE, lastUptime |-> None, headset |-> FALSE, saving |-> "null",
          controller |-> FALSE, engine |-> FALSE]

\* The poll between two rounds.
NoStatus == [run |-> 0, uptime |-> 0, controller |-> FALSE, muted |-> FALSE]
IdlePoll == [pc |-> "idle", saw |-> NoStatus, of |-> DefaultSettings]

Init ==
    /\ group \in Groups
    /\ settings = DefaultSettings
    /\ pad = StartedPad
    /\ daemon = [up |-> TRUE, run |-> 1, uptime |-> 1, controller |-> TRUE, headset |-> FALSE]
    /\ app = Fresh
    /\ poll = IdlePoll
    /\ prog = [t \in Tasks |-> <<>>] /\ queue = <<>>
    /\ seen = 0 /\ excused = {}
    /\ calls = 0 /\ events = 0 /\ failures = 0

-----------------------------------------------------------------------------
(* Sessions.                                                               *)

\* openAndReadStatus with no device: a new session begins.
Opened == [app EXCEPT !.device = TRUE, !.lastUptime = None, !.session = FALSE,
                      !.reapplied = FALSE]

\* closeDevice and markBridgeUnavailableAfterDisconnect.  A reapply that still
\* waits for a command is no longer the one that counts.
Unavailable == Fresh

\* publishError.
Failed(a) == [a EXCEPT !.state = IF @ = "no-bridge" THEN @ ELSE "error"]

IsNewSessionByDeviceMutant(status) == ~app.session \/ app.lastUptime = None

IsNewSession(status) ==
    ~app.session \/ app.lastUptime = None \/ status.uptime < app.lastUptime

\* A restart that no check of the uptime can tell.
Unnoticed(status) ==
    /\ status.run # seen /\ app.session
    /\ app.lastUptime # None /\ status.uptime >= app.lastUptime

\* stopControllerAudioPolling, when no controller is connected.
EngineAfter(status) == app.engine /\ status.controller

\* The mute state the controller reports is stored once the settings are
\* reapplied, unless the microphone is off.
Adopts(status, isNew) ==
    /\ app.reapplied /\ ~isNew
    /\ settings.duplexMicEnabled
    /\ settings.micMuted # status.muted

-----------------------------------------------------------------------------
(* Steps of the tasks.                                                     *)

ValueOf(st) ==
    CASE st.do \in {"send", "try"} -> st.val
      [] st.do = "apply" -> IF st.of.saves /\ app.headset THEN st.of.capped ELSE st.of.plain
      [] st.do = "live" -> Wanted(settings)[st.cmd]
      [] OTHER -> 0

\* sendCommand: the value is settled when the command is called.
Enqueue(t) ==
    /\ \E k \in {"send", "try", "apply", "live", "restore"} : Moves(t, k)
    /\ queue' = Append(queue, [task |-> t, cmd |-> Upcoming(t).cmd, val |-> ValueOf(Upcoming(t))])
    /\ UNCHANGED <<group, settings, pad, daemon, app, poll, prog, seen, excused, bounds>>

StoreStep(t) ==
    /\ Moves(t, "store")
    /\ settings' = With(settings, Upcoming(t).upd)
    /\ excused' = excused \cup (Upcoming(t).sent \cap Differing(pad, settings'))
    /\ Proceed(t)
    /\ UNCHANGED <<group, pad, daemon, app, poll, queue, seen, bounds>>

\* A push while the bridge is not connected is left out.
PushStep(t) ==
    /\ Moves(t, "push")
    /\ IF app.state = "connected"
       THEN /\ ReplaceWith(t, (IF Upcoming(t).all THEN ApplyCurrentSettings(settings) ELSE <<>>)
                              \o ApplyAll(Upcoming(t).cmds, settings)
                              \o [i \in DOMAIN Upcoming(t).live |-> Live(Upcoming(t).live[i])])
            /\ UNCHANGED excused
       ELSE /\ Proceed(t)
            /\ excused' = excused \cup Differing(pad, settings)
                                  \cup (IF Upcoming(t).all THEN {"engine"} ELSE {})
    /\ UNCHANGED <<group, settings, pad, daemon, app, poll, queue, seen, bounds>>

\* updateSystemAudioHapticsEngine; starting the engine succeeds.
EngineWanted(s) == SystemAudioHapticsDesired(s) /\ app.device /\ app.controller

EngineStep(t) ==
    /\ Moves(t, "engine") \/ Moves(t, "engineUnlessReapplying")
    /\ Proceed(t)
    /\ IF Upcoming(t).do = "engine" \/ ~app.reapplying
       THEN /\ app' = [app EXCEPT !.engine = EngineWanted(settings)]
            /\ excused' = excused \ {"engine"}
       ELSE UNCHANGED <<app, excused>>
    /\ UNCHANGED <<group, settings, pad, daemon, poll, queue, seen, bounds>>

\* The end of setControllerPowerSavingEnabled.
SavingStep(t) ==
    /\ Moves(t, "saving")
    /\ IF app.state = "connected"
       THEN /\ app' = [app EXCEPT !.saving = OnOff(IsSaving(settings))]
            /\ IF app.saving # app'.saving
               THEN ReplaceWith(t, ApplyAll(SavingOrder, settings))
               ELSE Proceed(t)
            /\ UNCHANGED excused
       ELSE /\ Proceed(t)
            /\ excused' = excused \cup
                  (IF app.saving \in {"null", OnOff(IsSaving(settings))} THEN {} ELSE {"saving"})
            /\ UNCHANGED app
    /\ UNCHANGED <<group, settings, pad, daemon, poll, queue, seen, bounds>>

\* The end of reapplySettingsUntilSettled: the session of this moment counts as
\* reapplied, and the host's engine follows.
ReappliedStep(t) ==
    /\ Moves(t, "reapplied")
    /\ app' = [app EXCEPT !.reapplied = @ \/ app.session, !.reapplying = FALSE]
    /\ Proceed(t)
    /\ UNCHANGED <<group, settings, pad, daemon, poll, queue, seen, excused, bounds>>

ReapplyProgram ==
    Follow(ApplyCurrentSettings(settings)) \o <<[do |-> "reapplied"], Engine>>

\* The end of poll: a reapply is started if the session has had none.
PollOnStep ==
    /\ Moves("poll", "pollOn")
    /\ poll' = IdlePoll
    /\ IF /\ poll.saw.controller /\ app.session /\ ~app.reapplying /\ ~app.reapplied
          /\ \E r \in Reapplies : ~Busy(r)
       THEN \E r \in Reapplies :
                /\ ~Busy(r)
                /\ app' = [app EXCEPT !.reapplying = TRUE]
                /\ prog' = [prog EXCEPT !["poll"] = <<>>, ![r] = ReapplyProgram]
       ELSE Proceed("poll") /\ UNCHANGED app
    /\ UNCHANGED <<group, settings, pad, daemon, queue, seen, excused, bounds>>

-----------------------------------------------------------------------------
(* The command at the head of the queue.                                   *)

ReapplySticksMutant(t, a) == a
ReapplyEnds(t, a) == IF t \in Reapplies THEN [a EXCEPT !.reapplying = FALSE] ELSE a
FailureOf(t, a) == IF t \in Users THEN a ELSE ReapplyEnds(t, Failed(a))

\* The daemon has the value and it is acknowledged.
Acked(p, c, v) == IF c = "RESTORE_DEFAULTS" THEN StartedPad
                  ELSE [p EXCEPT ![c] = Accepted(c, v)]

\* What the settings call for once the operation has stored its update.
Intended(st) == With(settings, IF st.do \in {"send", "try"} THEN st.upd ELSE NoUpdate)

\* A value that the settings no longer call for when it arrives is not
\* corrected by anyone, nor is a default of the daemon that the app's defaults
\* contradict.
ExcusedAfter(t, q) ==
    LET st == Upcoming(t)
    IN  IF st.do = "restore"
        THEN (excused \ Watched[group]) \cup Differing(ControllerDefaults, DefaultSettings)
        ELSE IF \E s \in {Intended(st)} : Wanted(s)[q.cmd] = q.val THEN excused \ {q.cmd}
        ELSE excused \cup {q.cmd}

Execute ==
    /\ queue # <<>> /\ Quiet /\ daemon.up
    /\ LET q == Head(queue) IN
       /\ pad' = Acked(pad, q.cmd, q.val)
       /\ excused' = ExcusedAfter(q.task, q)
       /\ Proceed(q.task)
    /\ app' = IF app.device THEN app ELSE Opened
    /\ queue' = Tail(queue)
    /\ UNCHANGED <<group, settings, daemon, poll, seen, bounds>>

\* The request fails, before or after the daemon has taken the command.  The
\* operation ends there, except one that tries the command; its other steps
\* are not made up for.
FailAs(taken) ==
    LET q == Head(queue)
        st == Upcoming(q.task)
        p == IF taken THEN Acked(pad, q.cmd, q.val) ELSE pad
    IN  /\ pad' = p
        /\ prog' = [prog EXCEPT ![q.task] = IF st.do = "try" THEN Tail(@) ELSE <<>>]
        /\ app' = FailureOf(q.task, IF app.device \/ ~daemon.up THEN app ELSE Opened)
        /\ excused' = excused \cup Differing(p, settings)
                              \cup (IF st.do = "try" THEN {q.cmd} ELSE {})
                              \cup (IF st.do # "try" /\ Brings(q.task) THEN {"engine"} ELSE {})
        /\ poll' = IF q.task = "poll" THEN IdlePoll ELSE poll
        /\ queue' = Tail(queue)
        /\ UNCHANGED <<group, settings, daemon, seen, calls, events>>

Fail ==
    /\ queue # <<>> /\ Quiet
    /\ \/ ~daemon.up /\ FailAs(FALSE) /\ UNCHANGED failures
       \/ /\ daemon.up /\ MayFail /\ failures' = failures + 1
          /\ \E taken \in BOOLEAN : FailAs(taken)

-----------------------------------------------------------------------------
(* The poll.                                                               *)

PollUnavailable ==
    /\ app' = Unavailable
    /\ UNCHANGED poll

Muted == IF group = "mic" THEN pad["SET_MIC_MUTE"] ELSE settings.micMuted

PollReads ==
    /\ poll' = [poll EXCEPT !.pc = "read",
                            !.saw = [run |-> daemon.run, uptime |-> daemon.uptime,
                                     controller |-> daemon.controller,
                                     muted |-> Muted]]
    /\ app' = IF app.device THEN app ELSE Opened

\* Devices are listed, then the status is read; either may fail.
PollStart ==
    /\ poll.pc = "idle" /\ Quiet
    /\ \/ daemon.up /\ PollReads /\ UNCHANGED failures
       \/ ~daemon.up /\ PollUnavailable /\ UNCHANGED failures
       \/ /\ daemon.up /\ MayFail /\ failures' = failures + 1
          /\ PollUnavailable \/ (app' = Failed(app) /\ UNCHANGED poll)
    /\ UNCHANGED <<group, settings, pad, daemon, prog, queue, seen, excused, calls, events>>

\* After the diagnostics and the audio status are read: the session check, the
\* snapshot, and the settings the rest of the poll uses.
PollFinish ==
    /\ poll.pc = "read" /\ Quiet
    /\ LET isNew == IsNewSession(poll.saw)
           stored == IF Adopts(poll.saw, isNew)
                     THEN [settings EXCEPT !.micMuted = poll.saw.muted] ELSE settings
       IN  /\ app' = [app EXCEPT !.state = "connected", !.session = TRUE,
                                 !.reapplied = @ /\ ~isNew,
                                 !.lastUptime = poll.saw.uptime,
                                 !.headset = daemon.up /\ daemon.headset,
                                 !.controller = poll.saw.controller,
                                 !.engine = EngineAfter(poll.saw)]
           /\ settings' = stored
           /\ poll' = [poll EXCEPT !.pc = "synced", !.of = stored]
           /\ excused' = IF Unnoticed(poll.saw) THEN excused \cup Watched[group] ELSE excused
           /\ seen' = poll.saw.run
    /\ UNCHANGED <<group, pad, daemon, prog, queue, bounds>>

\* syncControllerPowerSavingState.  During a reapply the flag changes and what
\* the reapply has already sent stays as it is.
PollSync ==
    /\ poll.pc = "synced" /\ Quiet
    /\ LET active == OnOff(IsSaving(poll.of))
           sends == /\ app.saving # active /\ app.saving # "null"
                    /\ ~app.reapplying /\ app.state = "connected"
       IN  /\ app' = [app EXCEPT !.saving = active]
           /\ prog' = [prog EXCEPT !["poll"] =
                         (IF sends THEN Follow(ApplyAll(SavingOrder, poll.of)) ELSE <<>>)
                         \o <<[do |-> "pollOn"]>>]
           /\ excused' =
                 (IF sends THEN excused \ {"saving"} ELSE excused)
                 \cup (IF app.saving # active /\ ~sends THEN Differing(pad, settings) ELSE {})
                 \cup (IF app.saving # active /\ active # OnOff(IsSaving(settings))
                       THEN {"saving"} ELSE {})
    /\ poll' = [poll EXCEPT !.pc = "sending", !.of = DefaultSettings]
    /\ UNCHANGED <<group, settings, pad, daemon, queue, seen, bounds>>

-----------------------------------------------------------------------------
(* The user.  settings and pad are those of the moment of the call.        *)

Gains == {0, 500}

Operations ==
    LET s == settings
        on == IsSaving(settings)
    IN CASE group = "haptics" ->
              {setHapticsGain(s, g, on) : g \in Gains}
              \cup {setHapticsEnabled(s, b, on) : b \in BOOLEAN}
              \cup {setFeedbackBoostEnabled(s, b) : b \in BOOLEAN}
              \cup {applyPreset("noHaptics")}
         [] group = "audio" ->
              {setAudioReactiveHapticsConfig(s, b, "replace") : b \in BOOLEAN}
              \cup {setHapticsEnabled(s, b, on) : b \in BOOLEAN}
              \cup {applyPreset("noHaptics"), restoreDefaults}
         [] group = "rumble" ->
              {setClassicRumbleGain(s, g, on) : g \in Gains}
              \cup {setClassicRumbleEnabled(s, b, on) : b \in BOOLEAN}
              \cup {setFeedbackBoostEnabled(s, TRUE), setControllerPowerSavingEnabled(TRUE)}
         [] group = "triggers" ->
              {setTriggerEffectIntensity(s, g, on) : g \in Gains}
              \cup {setAdaptiveTriggersEnabled(s, b, on) : b \in BOOLEAN}
              \cup {setControllerPowerSavingEnabled(b) : b \in BOOLEAN}
              \cup {applyPreset("noTriggers"), applyPreset("balanced")}
         [] group = "color" ->
              {setLightbarColor(s, "red", g, on) : g \in Gains}
              \cup {setLightbarEnabled(b) : b \in BOOLEAN}
              \cup {applyPreset("lightsOff"), restoreDefaults}
         [] group = "override" ->
              {setLightbarOverrideEnabled(s, b) : b \in BOOLEAN}
              \cup {setLightbarEnabled(b) : b \in BOOLEAN}
              \cup {applyPreset("lightsOff"), restoreDefaults}
         [] group = "sound" ->
              {setSpeakerVolume(s, g) : g \in Gains}
              \cup {setSpeakerEnabled(s, b) : b \in BOOLEAN}
              \cup {applyPreset("noSpeaker"), applyPreset("quiet"),
                     deleteControllerProfile([speakerEnabled |-> FALSE])}
         [] group = "mic" ->
              {setMicMute(s, b) : b \in BOOLEAN}
              \cup {setDuplexMicEnabled(s, b) : b \in BOOLEAN}
              \cup {selectControllerProfile([duplexMicEnabled |-> FALSE, micMuted |-> TRUE])}
         [] group = "switches" ->
              {setHapticsBufferLength(s, 500), setMicVolume(s, 0),
               setClassicRumbleV1Enabled(s, TRUE), setSpeakerGainLevel(s, 500),
               setMuteButtonAction(s, "keyboard", "hold", TRUE),
               setLedEnabled(s, FALSE), setPlayerLedEnabled(s, FALSE),
               setTouchpadMouseEnabled(s, FALSE), setSpeakerVolumeShortcutEnabled(s, TRUE),
               setSleepKeybindEnabled(s, TRUE), setPollingRateMode(s, "250"),
               setIdleDisconnectTimeoutMinutes(s, 10), restoreDefaults}
              \cup {setIdleDisconnectEnabled(s, b) : b \in BOOLEAN}
              \cup {setUsbSuspendDisconnectEnabled(s, b) : b \in BOOLEAN}
         [] OTHER ->
              {setButtonRemap("swapped"), selectButtonRemappingProfile("swapped"),
               deleteButtonRemappingProfile("identity"), restoreButtonRemappingDefaults,
               removeGameSettings([buttonRemappingDraft |-> "identity"]), restoreDefaults}
              \cup {setChordConfiguration(as) : as \in {"none", "one"}}

Call(t) ==
    /\ ~Busy(t) /\ Quiet /\ (t = "user2" => Busy("user1"))
    /\ MayAct /\ calls < MaxCalls /\ calls' = calls + 1
    /\ \E p \in Operations : prog' = [prog EXCEPT ![t] = Follow(p)]
    /\ UNCHANGED <<group, settings, pad, daemon, app, poll, queue, seen, excused, events, failures>>

-----------------------------------------------------------------------------
(* The daemon, the controller and the headset.                             *)

Event == Quiet /\ MayAct /\ events < MaxEvents /\ events' = events + 1
Untouched == UNCHANGED <<group, settings, app, poll, prog, queue, seen, calls, failures>>

Stop ==
    /\ Event /\ daemon.up
    /\ daemon' = [daemon EXCEPT !.up = FALSE]
    /\ UNCHANGED <<pad, excused>> /\ Untouched

\* What a reapply under way has already sent is lost.
Start ==
    /\ Quiet /\ ~daemon.up
    /\ daemon' = [daemon EXCEPT !.up = TRUE, !.run = @ + 1, !.uptime = 0]
    /\ pad' = StartedPad
    /\ excused' = IF \E r \in Reapplies : Busy(r) THEN excused \cup Watched[group] ELSE excused
    /\ Untouched /\ UNCHANGED events

\* Uptime 1 stands for a second or more; a poll sees a new run before that.
Age ==
    /\ Quiet /\ daemon.up /\ daemon.uptime = 0 /\ seen = daemon.run
    /\ daemon' = [daemon EXCEPT !.uptime = 1]
    /\ UNCHANGED <<pad, excused, events>> /\ Untouched

ControllerComesOrGoes ==
    /\ Event
    /\ daemon' = [daemon EXCEPT !.controller = ~@]
    /\ UNCHANGED <<pad, excused>> /\ Untouched

HeadsetPlug ==
    /\ Event /\ group \in {"triggers", "rumble"}
    /\ daemon' = [daemon EXCEPT !.headset = ~@]
    /\ UNCHANGED <<pad, excused>> /\ Untouched

\* The mute button of a controller behind the bridge firmware: the daemon's own
\* mute state changes by command only.
MuteButton ==
    /\ Event /\ daemon.up /\ group = "mic"
    /\ pad' = [pad EXCEPT !["SET_MIC_MUTE"] = ~@]
    /\ excused' = excused \cup {"SET_MIC_MUTE"}
    /\ UNCHANGED daemon /\ Untouched

-----------------------------------------------------------------------------
Step ==
    \/ \E t \in Tasks : Enqueue(t) \/ StoreStep(t) \/ PushStep(t) \/ EngineStep(t)
                         \/ SavingStep(t) \/ ReappliedStep(t)
    \/ PollOnStep
Poll == PollStart \/ PollFinish \/ PollSync
Environment == Stop \/ Start \/ Age \/ ControllerComesOrGoes \/ HeadsetPlug \/ MuteButton

Next ==
    \/ Step \/ Execute \/ Fail \/ Poll
    \/ \E t \in Users : Call(t)
    \/ Environment

\* Node runs every step whose promise is settled and the poll timer fires again
\* and again.  A request in the queue of a running daemon is answered however
\* often the poll reads in between: each request has a connection of its own.
Fairness == WF_vars(Step \/ Poll) /\ SF_vars(Execute)

Spec == Init /\ [][Next]_vars /\ Fairness

-----------------------------------------------------------------------------
(* Properties.                                                             *)

\* The app is connected to the daemon that runs, has reapplied the settings and
\* has nothing under way.
Settled ==
    /\ \A t \in Tasks : ~Busy(t)
    /\ poll.pc = "idle"
    /\ daemon.up /\ app.device /\ app.session /\ app.reapplied /\ seen = daemon.run
    /\ app.headset = daemon.headset
    /\ app.saving = OnOff(IsSaving(settings))

\* The commands power saving caps.
PowerSensitive == {SavingOrder[i] : i \in DOMAIN SavingOrder}

MuteAgrees == settings.duplexMicEnabled => settings.micMuted = Muted

TypeOK ==
    /\ group \in Groups
    /\ DOMAIN settings = DOMAIN DefaultSettings
    /\ DOMAIN pad = Watched[group]
    /\ daemon \in [up : BOOLEAN, run : 1..MaxEvents + 1, uptime : 0..1,
                   controller : BOOLEAN, headset : BOOLEAN]
    /\ app \in [device : BOOLEAN, state : {"no-bridge", "connected", "error"},
                session : BOOLEAN, reapplied : BOOLEAN, reapplying : BOOLEAN,
                lastUptime : {None} \cup 0..1, headset : BOOLEAN,
                saving : {"null", "on", "off"}, controller : BOOLEAN, engine : BOOLEAN]
    /\ poll.pc \in {"idle", "read", "synced", "sending"}
    /\ \A i, j \in DOMAIN queue : queue[i].task = queue[j].task => i = j
    /\ excused \subseteq Watched[group] \cup {"engine", "saving"}

\* When all is settled, the controller has what the settings call for, but for
\* commands of which something went wrong since they were last in line: a
\* request failed, a value was sent that the settings had left behind, a push
\* was left out, the daemon restarted in the middle of a reapply or before
\* anyone could tell, power saving changed during a reapply.  Those that power
\* saving caps are left out too since a poll noted whether it is active by
\* settings that had changed under it, or a switch was stored without being
\* noted as the state was not "connected", until the next change is pushed.  The
\* mute state of a microphone that is on follows the controller instead.
ControllerMatches ==
    /\ TypeOK
    /\ Settled => \A c \in Differing(pad, settings) :
                     \/ c \in excused \/ (c \in PowerSensitive /\ "saving" \in excused)
                     \/ c = "SET_MIC_MUTE" /\ settings.duplexMicEnabled

\* When all is settled, the host's audio haptics do not run while they are
\* turned off.
MirrorStops ==
    Settled /\ app.engine => SystemAudioHapticsDesired(settings) \/ "engine" \in excused

\* While the daemon runs and a controller is connected, the app gets settled
\* again and again and then agrees with the controller about the mute state.
Settles == []<>(~daemon.up \/ ~daemon.controller \/ (Settled /\ MuteAgrees))
=============================================================================
