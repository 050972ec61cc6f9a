--------------------------- MODULE SettingsScreen ---------------------------
(* The settings as the window shows them (App.tsx), with the snapshots and   *)
(* replies the main process sends it (main.ts, bridge-service.ts).  A value  *)
(* is shown while it is dragged, sent when it is let go, and shown again as  *)
(* a snapshot has it; in between come replies to earlier values, snapshots   *)
(* of other changes, refusals and a window that is being moved.              *)
(*                                                                           *)
(* A behaviour is about one control: a slider with the switch of its feature *)
(* and one more setting beside it, or a button mapping ("remap").  Messages  *)
(* either way arrive in the order they were sent; the user moves the window, *)
(* holds a slider or does something else, one at a time; and a slider that   *)
(* is disabled while it is held still hears that it is let go.               *)
EXTENDS Integers, Sequences, FiniteSets, SequencesExt

CONSTANTS
    Controls,   \* of those below, the ones a behaviour may be about
    Values,     \* of a slider, in percent
    Start,      \* the value at the start
    Swatches,   \* the colours offered, the first one at the start
    Customs,    \* other colours
    Tasks,      \* functions of the window that may wait at a time, 1..n
    MaxActs,    \* bound: what the user does and what happens beside
    MaxFaults   \* bound: requests that fail

VARIABLES
    control,
    bridge,     \* the snapshot of the main process: [value, on, other, boost, saving,
                \* connected, color, lit], lit: the colour of the last status
    lamp,       \* the colour the controller has
    polled,     \* the colour a poll has read and not passed on, "none" if there is none
    sent,       \* the snapshot last sent to the window
    asked,      \* requests in order: [by, field, to, color, at], at "window" until they arrive
    channel,    \* messages on their way to the window: [to, ok, snapshot], to 0 for all
    tasks,      \* the functions of the window that wait: [kind, todo]
    window,     \* [screen, shown, color, custom, editing, busy, dragging, deferred, live]
    pointer,    \* where the pointer holds the slider
    wish,       \* history: the value last let go that nothing has replaced since
    tint,       \* history: the same of colours, Black if there is none
    reasons,    \* history: why a wish or what is shown may be lost, see ScreenAgrees
    acts, faults

vars == <<control, bridge, lamp, polled, sent, asked, channel, tasks, window, pointer, wish,
          tint, reasons, acts, faults>>
history == <<wish, tint, reasons>>

-----------------------------------------------------------------------------
Cap == 60
Standard == 200
Boosted == 500
Unset == -1
Black == "black"
Nothing == [none |-> TRUE]
Idle == [kind |-> "idle", todo |-> <<>>]
Gains == {"haptics", "rumble"}
Capped == Gains \cup {"triggers", "lightbar"}

Least(a, b) == IF a < b THEN a ELSE b

\* capControllerPowerSavingValue and displayHapticsValue and its like.
Allowed(v, s) == IF s.saving /\ control \in Capped THEN Least(v, Cap) ELSE v
Display(s) == Allowed(s.value, s)

GainMax(s) == IF s.boost THEN Boosted ELSE Standard

\* feedbackSliderMaxFromSnapshot; the other sliders end at 100 or at the cap.
SliderMax(s) == Allowed(IF control \in Gains THEN GainMax(s) ELSE 100, s)

\* snapHapticsValue; the other sliders do not know the cap.
Snap(v) == IF control \in Gains THEN Least(v, SliderMax(window.screen)) ELSE v

\* isPreservingPowerSavingCap.
Preserved(v) ==
    control \in Capped /\ window.screen.saving /\ window.screen.value > Cap /\ v = Cap

\* What disables a slider and makes its value stay.
Usable(s) == s # Nothing /\ s.connected /\ (control \in {"mic", "buffer", "remap"} \/ s.on)

-----------------------------------------------------------------------------
(* The main process.                                                         *)

Push(s) == [to |-> 0, ok |-> TRUE, snapshot |-> s]
Reply(t, ok, s) == [to |-> t, ok |-> ok, snapshot |-> s]

\* The snapshot with a request carried out.  A gain switches the haptics on; the status it
\* holds learns of a new colour at once, of a lightbar that is switched with the next poll.
Served(s, request) ==
    CASE request.field = "value" ->
            [s EXCEPT !.value = request.to, !.on = @ \/ control = "haptics"]
      [] request.field = "on" -> [s EXCEPT !.on = request.to = 1]
      [] request.field = "other" -> [s EXCEPT !.other = request.to = 1]
      [] request.field = "boost" ->
            [s EXCEPT !.boost = request.to = 1,
                      !.value = IF request.to = 1 THEN @ ELSE Least(@, Standard)]
      [] request.field = "light" ->
            [s EXCEPT !.color = request.color, !.lit = request.color, !.value = request.to]
      [] OTHER -> s

LampAfter(s) == IF s.on THEN s.color ELSE Black

\* setFeedbackBoostEnabled, setLightbarEnabled and setButtonRemap store first, then send.
StoredFirst(request) ==
    \/ request.field = "boost"
    \/ control = "lightbar" /\ request.field = "on"
    \/ control = "remap" /\ request.field = "value"

\* A request reaches its handler: it asks the controller when its turn comes, but a gain
\* is clamped and what is stored first is stored now.  getStatus is answered at once.
Arrive(i) ==
    LET request == asked[i]
        clamped == IF control \in Gains /\ request.field = "value"
                   THEN [request EXCEPT !.to = Least(@, GainMax(bridge))] ELSE request
    IN  /\ request.at = "window" /\ \A j \in 1..(i - 1) : asked[j].at = "queue"
        /\ bridge' = IF StoredFirst(request) THEN Served(bridge, request) ELSE bridge
        /\ IF request.field = "status"
           THEN /\ asked' = RemoveAt(asked, i)
                /\ channel' = Append(channel, Reply(request.by, TRUE, bridge))
           ELSE /\ asked' = [asked EXCEPT ![i] = [clamped EXCEPT !.at = "queue"]]
                /\ UNCHANGED channel
        /\ wish' = IF clamped # request \/ (request.field = "boost" /\ bridge'.value # bridge.value)
                   THEN Unset ELSE wish
        /\ UNCHANGED <<control, polled, lamp, sent, tasks, window, pointer, tint, reasons, acts,
                       faults>>

\* The first request of the queue: the controller carries it out, declines it or is not
\* reached; a mapping stored without a controller needs no more.  The acknowledgement
\* makes a snapshot be sent, what is stored then another, an error on the way none.
Answer ==
    LET request == Head(asked)
        after == IF StoredFirst(request) THEN bridge ELSE Served(bridge, request)
        silent == control = "speaker" /\ request.field = "value" /\ ~bridge.on
        alone == silent \/ (StoredFirst(request) /\ ~bridge.connected)
        acks == IF alone THEN <<>> ELSE <<Push(bridge)>>
        changes == IF after = (IF alone THEN sent ELSE bridge) THEN <<>> ELSE <<Push(after)>>
    IN  /\ asked # <<>> /\ request.at = "queue" /\ asked' = Tail(asked)
        /\ \/ /\ bridge.connected \/ alone
              /\ bridge' = after /\ sent' = after
              /\ lamp' = IF bridge.connected THEN LampAfter(after) ELSE lamp
              /\ channel' = channel \o acks \o changes \o <<Reply(request.by, TRUE, after)>>
              /\ UNCHANGED <<faults, reasons>>
           \/ /\ bridge.connected /\ ~silent /\ faults < MaxFaults /\ faults' = faults + 1
              /\ sent' = bridge
              /\ channel' = channel \o <<Push(bridge), Reply(request.by, FALSE, bridge)>>
              /\ UNCHANGED <<bridge, lamp, reasons>>
           \/ /\ ~alone /\ (bridge.connected => faults < MaxFaults)
              /\ faults' = IF bridge.connected THEN faults + 1 ELSE faults
              /\ channel' = Append(channel, Reply(request.by, FALSE, bridge))
              /\ reasons' = reasons \cup {"refused"}
              /\ UNCHANGED <<bridge, lamp, sent>>
        /\ wish' = IF /\ request.field \in {"value", "light"}
                       /\ request.to = wish /\ bridge'.value # wish THEN Unset ELSE wish
        /\ tint' = IF request.color = tint /\ bridge'.color # tint THEN Black ELSE tint
        /\ UNCHANGED <<control, polled, tasks, window, pointer, acts>>

\* A poll reads the status, and holds it while it reads more.  Bound: polls that find or
\* may meet another colour.
PollStart ==
    /\ bridge.connected /\ control = "lightbar" /\ polled = "none"
    /\ lamp # bridge.lit \/ asked # <<>>
    /\ polled' = lamp
    /\ UNCHANGED <<control, bridge, lamp, sent, asked, channel, tasks, window, pointer, history,
                   acts, faults>>

\* Then it sends what has changed since the last snapshot.
PollFinish ==
    /\ polled # "none" /\ polled' = "none"
    /\ bridge' = IF bridge.connected THEN [bridge EXCEPT !.lit = polled] ELSE bridge
    /\ sent' = bridge'
    /\ channel' = IF bridge' = sent THEN channel ELSE Append(channel, Push(bridge'))
    /\ reasons' = reasons \cup (IF polled = Black THEN {"dark"} ELSE {})
                          \cup (IF polled # lamp THEN {"stale"} ELSE {})
    /\ UNCHANGED <<control, lamp, asked, tasks, window, pointer, wish, tint, acts, faults>>

\* Beside the window: a shortcut steps the value, a headset begins or ends power saving,
\* the connection is lost or comes back.
Elsewhere ==
    /\ acts < MaxActs /\ acts' = acts + 1
    /\ \/ \E v \in Values :
             /\ v <= SliderMax(bridge) /\ v # bridge.value /\ bridge' = [bridge EXCEPT !.value = v]
             /\ bridge.connected /\ wish' = Unset
             /\ reasons' = IF \E t \in Tasks : tasks[t].kind = "speaker"
                           THEN reasons \cup {"settling"} ELSE reasons
       \/ bridge' = [bridge EXCEPT !.saving = ~@] /\ UNCHANGED <<wish, reasons>>
       \/ bridge' = [bridge EXCEPT !.connected = ~@] /\ UNCHANGED <<wish, reasons>>
    /\ sent' = bridge' /\ channel' = Append(channel, Push(bridge'))
    /\ UNCHANGED <<control, polled, lamp, asked, tasks, window, pointer, tint, faults>>

-----------------------------------------------------------------------------
(* What arrives at the window.                                               *)

ApplySnapshotMutant(w, s) ==
    [w EXCEPT !.screen = s, !.shown = Display(s), !.color = s.lit,
              !.custom = IF s.lit \in Swatches THEN @ ELSE s.lit]

ApplySnapshot(w, s) ==
    [w EXCEPT !.screen = s,
              !.shown = IF w.editing THEN @ ELSE Display(s),
              !.color = s.lit,
              !.custom = IF s.lit \in Swatches THEN @ ELSE s.lit]

\* onSnapshot.
ReceivePush(s) ==
    /\ window' = IF window.dragging THEN [window EXCEPT !.live = TRUE, !.deferred = s]
                 ELSE ApplySnapshot([window EXCEPT !.live = TRUE], s)
    /\ UNCHANGED <<tasks, asked>>

\* What a function does with the snapshot it gets last: actions (runAction) keep it, the
\* commits show its value, too, the configuration of audio haptics applies it all.
Finished(kind, s) ==
    LET kept == [window EXCEPT !.screen = s]
        shown == [kept EXCEPT !.shown = Display(s)]
    IN  CASE kind \in {"commit", "speaker"} ->
                [shown EXCEPT !.editing = FALSE, !.busy = @ \ {"commit"}]
          [] kind = "intensity" -> [shown EXCEPT !.editing = FALSE]
          [] kind = "boost" -> [shown EXCEPT !.busy = @ \ {"boost"}]
          [] kind \in {"test-speaker", "test-mic"} ->
                [shown EXCEPT !.editing = FALSE, !.busy = @ \ {"action"}]
          [] kind = "config" -> [ApplySnapshot(window, s) EXCEPT !.busy = @ \ {"config"}]
          [] kind = "load" -> IF window.live THEN window ELSE ApplySnapshot(window, s)
          [] kind = "quiet" -> kept
          [] OTHER -> [kept EXCEPT !.busy = @ \ {"action"}]

\* What it does with a snapshot when more is to follow.
Halfway(kind, s) ==
    IF kind \in {"speaker", "test-speaker", "test-mic"}
    THEN [window EXCEPT !.screen = s, !.shown = Display(s), !.editing = kind = "speaker"]
    ELSE window

\* toggleAudioEnabled switches the microphone off, too, if it is on by then.
AudioStep(kind, request, s) ==
    IF kind = "audio" /\ request.field = "on" /\ request.to = 0 /\ s.other
    THEN <<[request EXCEPT !.field = "other"]>> ELSE <<>>

Ask(field, to) == [field |-> field, to |-> to, color |-> Black]
Request(t, what) ==
    [by |-> t, field |-> what.field, to |-> what.to, color |-> what.color, at |-> "window"]

\* Task t goes on with the requests todo; a delay is not a request.
Continue(t, kind, todo) ==
    /\ tasks' = [tasks EXCEPT ![t] = [kind |-> kind, todo |-> todo]]
    /\ asked' = IF Head(todo).field = "delay" THEN asked ELSE Append(asked, Head(todo))

ReceiveReply(t, ok, s) ==
    LET task == tasks[t]
        rest == IF ok THEN AudioStep(task.kind, Head(task.todo), s) \o Tail(task.todo)
                ELSE <<Request(t, Ask("status", 0))>>
    IN  IF rest = <<>> THEN /\ window' = Finished(task.kind, s)
                            /\ tasks' = [tasks EXCEPT ![t] = Idle] /\ UNCHANGED asked
        ELSE /\ window' = IF ok THEN Halfway(task.kind, s) ELSE window
             /\ Continue(t, task.kind, rest)

Receive ==
    /\ channel # <<>> /\ channel' = Tail(channel)
    /\ LET m == Head(channel) IN
          IF m.to = 0 THEN ReceivePush(m.snapshot) ELSE ReceiveReply(m.to, m.ok, m.snapshot)
    /\ UNCHANGED <<control, polled, bridge, lamp, sent, pointer, history, acts, faults>>

\* A volume settles before the speaker is tested or the next is sent; the microphone is
\* listened to for a while.
DelayPasses(t) ==
    LET rest == Tail(tasks[t].todo) IN
    /\ tasks[t] # Idle /\ Head(tasks[t].todo).field = "delay"
    /\ IF rest # <<>> THEN Continue(t, tasks[t].kind, rest) /\ UNCHANGED window
       ELSE /\ window' = [window EXCEPT !.editing = FALSE,
                 !.busy = @ \ {IF tasks[t].kind = "speaker" THEN "commit" ELSE "action"}]
            /\ tasks' = [tasks EXCEPT ![t] = Idle] /\ UNCHANGED asked
    /\ UNCHANGED <<control, polled, bridge, lamp, sent, channel, pointer, history, acts, faults>>

\* beginWindowDrag and finishWindowDrag: meanwhile snapshots wait.
BeginWindowDrag ==
    /\ acts < MaxActs /\ acts' = acts + 1 /\ ~window.dragging /\ pointer = Unset
    /\ window' = [window EXCEPT !.dragging = TRUE]
    /\ UNCHANGED <<control, polled, bridge, lamp, sent, asked, channel, tasks, pointer, history,
                   faults>>

FinishWindowDrag ==
    LET released == [window EXCEPT !.dragging = FALSE, !.deferred = Nothing] IN
    /\ window.dragging
    /\ window' = IF window.deferred = Nothing THEN released
                 ELSE ApplySnapshot(released, window.deferred)
    /\ UNCHANGED <<control, polled, bridge, lamp, sent, asked, channel, tasks, pointer, history,
                   acts, faults>>

-----------------------------------------------------------------------------
(* What the user does.                                                       *)

Act ==
    /\ acts < MaxActs /\ acts' = acts + 1
    /\ window.screen # Nothing /\ pointer = Unset /\ ~window.dragging
    /\ UNCHANGED <<control, polled, bridge, lamp, sent, channel, faults>>

Settle == Ask("delay", 0)
Flag(b) == IF b THEN 1 ELSE 0

\* A function of the window starts with the requests todo; w is the window by then.
Begin(kind, todo, w) ==
    \E t \in Tasks :
        /\ tasks[t] = Idle /\ \A u \in 1..(t - 1) : tasks[u] # Idle
        /\ Continue(t, kind, [i \in DOMAIN todo |-> Request(t, todo[i])])
        /\ window' = w

\* Something that may change the value is on its way in either direction.
Unsettled ==
    \/ channel # <<>> \/ window.deferred # Nothing
    \/ \E t \in Tasks : tasks[t].kind \notin {"idle", "load"}

Losing(v) ==
    /\ wish' = IF Usable(window.screen) /\ ~Preserved(v) THEN v ELSE Unset
    /\ reasons' = reasons \cup (IF Unsettled THEN {"busy"} ELSE {})
          \cup (IF window.screen.saving /\ window.shown > Cap THEN {"capped"} ELSE {})

\* A value v is let go or a preset chosen, w is the window by then: a value that is there
\* is not sent, and neither is one while another is.
Commit(w, v, kind, todo) ==
    IF ~Usable(w.screen) \/ Preserved(v) \/ v = w.screen.value \/ "commit" \in w.busy
    THEN /\ window' = [w EXCEPT !.editing = FALSE] /\ Losing(v)
         /\ UNCHANGED <<tasks, asked>>
    ELSE /\ Begin(kind, todo, [w EXCEPT !.editing = TRUE, !.busy = @ \cup {"commit"}])
         /\ wish' = v /\ UNCHANGED reasons

CommitHapticsValue(w, value) ==
    /\ control = "haptics"
    /\ Commit(w, Snap(value), "commit", <<Ask("value", Snap(value))>>)

CommitClassicRumbleValue(w, value) ==
    /\ control = "rumble"
    /\ Commit(w, Snap(value), "commit", <<Ask("value", Snap(value))>>)

CommitSpeakerVolume(w, value) ==
    /\ control = "speaker"
    /\ Commit(w, value, "speaker", <<Ask("value", value), Settle>>)

CommitMicVolume(w, value) ==
    /\ control = "mic"
    /\ Commit(w, value, "commit", <<Ask("value", value)>>)

CommitAudioBufferLength(w, value) ==
    /\ control = "buffer"
    /\ Commit([w EXCEPT !.shown = value], value, "commit", <<Ask("value", value)>>)

\* Here nothing keeps a second value back.
CommitTriggerEffectIntensity(w, value) ==
    /\ control = "triggers"
    /\ IF ~Usable(w.screen) \/ Preserved(value) \/ value = w.screen.value
       THEN /\ window' = [w EXCEPT !.editing = FALSE] /\ Losing(value)
            /\ UNCHANGED <<tasks, asked>>
       ELSE Begin("intensity", <<Ask("value", value)>>, w) /\ wish' = value /\ UNCHANGED reasons

\* Colour and brightness go together; a brightness the cap hides is sent as it is saved.
CommitLightbar(w, color, value) ==
    LET brightness == IF Preserved(value) THEN w.screen.value ELSE value IN
    /\ control = "lightbar"
    /\ IF ~Usable(w.screen) \/ "commit" \in w.busy
          \/ (color = w.screen.color /\ brightness = w.screen.value)
       THEN /\ window' = [w EXCEPT !.editing = FALSE] /\ Losing(value)
            /\ UNCHANGED <<tasks, asked>>
       ELSE /\ Begin("commit", <<[Ask("light", brightness) EXCEPT !.color = color]>>,
                     [w EXCEPT !.busy = @ \cup {"commit"}])
            /\ wish' = brightness /\ UNCHANGED reasons

CommitValue(w, v) ==
    \/ CommitHapticsValue(w, v) \/ CommitClassicRumbleValue(w, v) \/ CommitSpeakerVolume(w, v)
    \/ CommitMicVolume(w, v) \/ CommitAudioBufferLength(w, v)
    \/ CommitTriggerEffectIntensity(w, v) \/ CommitLightbar(w, w.color, v)

\* The slider is pressed, moved and let go, with the pointer or a key.
Grab ==
    /\ Act /\ Usable(window.screen) /\ control # "remap"
    /\ window' = [window EXCEPT !.editing = TRUE] /\ pointer' = window.shown
    /\ reasons' = IF \E t \in Tasks : tasks[t].kind \notin {"idle", "load"}
                  THEN reasons \cup {"overlap"} ELSE reasons
    /\ UNCHANGED <<asked, tasks, wish, tint>>

Move ==
    /\ pointer # Unset
    /\ \E v \in Values : /\ v <= SliderMax(window.screen) /\ v # pointer
                         /\ pointer' = v /\ window' = [window EXCEPT !.shown = v]
    /\ UNCHANGED <<control, polled, bridge, lamp, sent, asked, channel, tasks, history, acts,
                   faults>>

\* A value above a cap that came meanwhile stays in sight if it is not sent.
LetGo ==
    /\ pointer # Unset /\ pointer' = Unset
    /\ CommitValue(window, window.shown)
    /\ UNCHANGED <<control, polled, bridge, lamp, sent, channel, tint, acts, faults>>

\* The slider loses the focus.
Blur ==
    /\ Act /\ window.shown # window.screen.value /\ control # "remap"
    /\ CommitValue(window, window.shown)
    /\ UNCHANGED <<pointer, tint>>

SetPreset ==
    /\ Act /\ Usable(window.screen) /\ control \notin {"buffer", "remap"}
    /\ \E value \in Values :
          LET v == Snap(Allowed(value, window.screen)) IN
          /\ value <= Standard
          /\ CommitValue([window EXCEPT !.shown = v,
                              !.editing = @ \/ control \notin {"triggers", "lightbar"}], v)
    /\ UNCHANGED <<pointer, tint>>

\* selectLightbarColor, previewCustomLightbarColor and saveCustomLightbarColor: the colour
\* is shown before it is sent, and kept if it was saved.
ChooseColor ==
    /\ Act /\ Usable(window.screen) /\ control = "lightbar"
    /\ \E color \in Swatches \cup Customs, custom \in {window.custom, "new"} :
          /\ custom = "new" => color \in Customs
          /\ CommitLightbar([window EXCEPT !.color = color,
                                !.custom = IF custom = "new" THEN color ELSE @],
                            color, window.shown)
          /\ tint' = color
    /\ UNCHANGED pointer

\* runAction: one at a time.
RunAction(kind, todo, w) ==
    IF "action" \in window.busy THEN window' = w /\ UNCHANGED <<tasks, asked>>
    ELSE Begin(kind, todo, [w EXCEPT !.busy = @ \cup {"action"}])

\* The mapping is shown before it is sent, and the menu is open while an action is under
\* way.
SetButtonRemap ==
    /\ Act /\ control = "remap" /\ window.screen.connected
    /\ \E v \in Values :
          /\ RunAction("action", <<Ask("value", v)>>, [window EXCEPT !.shown = v])
          /\ wish' = v
    /\ reasons' = IF "action" \in window.busy THEN reasons \cup {"dropped"} ELSE reasons
    /\ UNCHANGED <<pointer, tint>>

\* The switches of the feature and of another setting.
ToggleEnabled ==
    /\ Act /\ window.screen.connected /\ "action" \notin window.busy /\ control # "remap"
    /\ RunAction("action", <<Ask("on", Flag(~window.screen.on))>>, window)
    /\ UNCHANGED <<pointer, history>>

ToggleOther ==
    /\ Act /\ window.screen.connected /\ "action" \notin window.busy
    /\ RunAction("action", <<Ask("other", Flag(~window.screen.other))>>, window)
    /\ UNCHANGED <<pointer, history>>

ToggleFeedbackBoostEnabled ==
    /\ Act /\ window.screen.connected /\ "boost" \notin window.busy /\ control \in Gains
    /\ Begin("boost", <<Ask("boost", Flag(~window.screen.boost))>>,
             [window EXCEPT !.busy = @ \cup {"boost"}])
    /\ UNCHANGED <<pointer, history>>

\* runQuietAction: any number at a time.
SetSpeakerGainLevel ==
    /\ Act /\ window.screen.connected /\ control = "speaker"
    /\ Begin("quiet", <<Ask("gain", 1)>>, window)
    /\ UNCHANGED <<pointer, history>>

\* The speaker and the microphone are switched off together.
ToggleAudioEnabled ==
    LET now == window.screen IN
    /\ Act /\ control = "speaker" /\ now.connected /\ "action" \notin window.busy
    /\ RunAction("audio", IF now.on = (now.on \/ now.other) THEN <<Ask("on", Flag(~now.on))>>
                          ELSE <<Ask("other", 0)>>, window)
    /\ UNCHANGED <<pointer, history>>

CommitAudioReactiveHapticsConfig ==
    /\ Act /\ control = "haptics" /\ Usable(window.screen) /\ "config" \notin window.busy
    /\ Begin("config", <<Ask("other", Flag(~window.screen.other))>>,
             [window EXCEPT !.busy = @ \cup {"config"}])
    /\ UNCHANGED <<pointer, history>>

\* A test sends the value that is shown first, if it differs from the saved one.
Testing(kind, differs, rest, w) ==
    /\ Begin(kind, (IF differs THEN <<Ask("value", window.shown)>> ELSE <<>>) \o rest,
             [w EXCEPT !.busy = @ \cup {"action"}])
    /\ wish' = IF differs THEN window.shown ELSE wish

RunFeedbackTest ==
    /\ Act /\ control \in Gains /\ Usable(window.screen) /\ "action" \notin window.busy
    /\ Testing("action", window.shown # window.screen.value /\ ~Preserved(window.shown),
               <<Ask("test", 0)>>, window)
    /\ UNCHANGED <<pointer, tint, reasons>>

RunTestSpeaker ==
    LET differs == window.shown # window.screen.value IN
    /\ Act /\ control = "speaker" /\ Usable(window.screen) /\ "action" \notin window.busy
    /\ Testing("test-speaker", differs,
               (IF differs THEN <<Settle>> ELSE <<>>) \o <<Ask("test", 0)>>,
               [window EXCEPT !.editing = @ \/ differs])
    /\ UNCHANGED <<pointer, tint, reasons>>

RunTestMic ==
    LET differs == window.shown # window.screen.value IN
    /\ Act /\ control = "mic" /\ Usable(window.screen) /\ "action" \notin window.busy
    /\ Testing("test-mic", differs, <<Settle>>, [window EXCEPT !.editing = @ \/ differs])
    /\ UNCHANGED <<pointer, tint, reasons>>

-----------------------------------------------------------------------------
Load == Request(1, Ask("status", 0))

Init ==
    /\ control \in Controls
    /\ bridge = [value |-> Start, on |-> TRUE, other |-> TRUE, boost |-> TRUE, saving |-> FALSE,
                 connected |-> TRUE, color |-> "red", lit |-> "red"]
    /\ lamp = "red" /\ polled = "none" /\ sent = bridge
    /\ asked = <<Load>> /\ channel = <<>>
    /\ tasks = [t \in Tasks |-> IF t = 1 THEN [kind |-> "load", todo |-> <<Load>>] ELSE Idle]
    /\ window = [screen |-> Nothing, shown |-> Start, color |-> "red", custom |-> "none",
                 editing |-> FALSE, busy |-> {}, dragging |-> FALSE, deferred |-> Nothing,
                 live |-> FALSE]
    /\ pointer = Unset
    /\ wish = Unset /\ tint = Black /\ reasons = {}
    /\ acts = 0 /\ faults = 0

Next ==
    \/ \E i \in 1..Len(asked) : Arrive(i)
    \/ Answer \/ PollStart \/ PollFinish \/ Elsewhere
    \/ Receive \/ \E t \in Tasks : DelayPasses(t)
    \/ BeginWindowDrag \/ FinishWindowDrag
    \/ Grab \/ Move \/ LetGo \/ Blur \/ SetPreset \/ ChooseColor \/ SetButtonRemap
    \/ ToggleEnabled \/ ToggleOther \/ ToggleFeedbackBoostEnabled \/ SetSpeakerGainLevel
    \/ ToggleAudioEnabled \/ CommitAudioReactiveHapticsConfig
    \/ RunFeedbackTest \/ RunTestSpeaker \/ RunTestMic

-----------------------------------------------------------------------------
Quiet ==
    /\ asked = <<>> /\ channel = <<>> /\ \A t \in Tasks : tasks[t] = Idle
    /\ ~window.dragging /\ pointer = Unset /\ window.screen # Nothing

\* While the slider is held it stays where it is held; once everything has arrived the
\* window shows what the main process has, nothing waits, and the value and the colour the
\* user wanted last are the saved ones.  Excused are a slider held again before the last
\* value was answered ("overlap"), a value let go while something was under way ("busy"),
\* one above a cap that came meanwhile ("capped"), a request that never reached the
\* controller ("refused"), a mapping chosen while an action ran ("dropped"), a volume
\* that changes while another one settles ("settling"), a lightbar that is off, whose
\* black the window takes for its colour ("dark"), and a poll that read the colour before
\* it was changed ("stale").
ScreenAgrees ==
    /\ pointer \notin {Unset, window.shown} => "overlap" \in reasons
    /\ Quiet =>
          /\ window.screen # bridge => "refused" \in reasons
          /\ window.busy = {} /\ ~window.editing /\ window.deferred = Nothing
          /\ Usable(bridge) /\ window.shown # Display(bridge)
                => reasons \cap {"busy", "capped", "refused", "dropped", "settling"} # {}
          /\ window.color # bridge.lit
                => reasons \cap {"busy", "refused", "dark", "stale"} # {}
          /\ wish \notin {Unset, bridge.value}
                => reasons \cap {"busy", "capped", "refused", "dropped"} # {}
          /\ tint \notin {Black, bridge.color}
                => reasons \cap {"busy", "refused", "dark", "stale"} # {}
          /\ window.custom = Black => "dark" \in reasons
=============================================================================
