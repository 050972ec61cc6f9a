---------------------------- MODULE TriggerInput ----------------------------
(* From the controller's buttons to the state and the effect of a trigger    *)
(* profile: the reader of the kernel's events (evdev-input-reader.ts), the   *)
(* switcher of states (trigger-state-switcher.ts) and the evaluator of       *)
(* modifiers (trigger-modifier-eval.ts), as the engine's onInput drives      *)
(* them.  Switcher and evaluator see snapshots and infer what was pressed    *)
(* and for how long; truth records what was.  Time is in units, and that at  *)
(* which the reader consumes a frame; the engine's writes are in             *)
(* TriggerEngine.                                                            *)
EXTENDS Integers, Sequences, SequencesExt, FiniteSets, FiniteSetsExt

CONSTANTS
    Profiles,     \* [states, menu, timeout, rules, wheel]
    Values,       \* of L2, 0 among them
    Places,       \* of the left stick: [percent, angle]
    Centre,
    Window,       \* RAPID_FIRE_WINDOW_MS
    MaxAtOnce,    \* bound: changes of the controller in one frame
    MaxTime,      \* bound: time
    MaxBreaks,    \* bound: what is not a frame
    MaxEvents     \* bound: changes of the controller and breaks together

VARIABLES
    pad,          \* the controller: [buttons, l2, stick]
    clock,
    stream,       \* the reader's stream is open
    reader,       \* the reader's copy of the pad; buttons in the order pressed
    loaded,       \* the active profile
    live,         \* neither a draft nor suspended
    switcher,     \* [index, guard, opened, previous, armed, picked]
    timing,       \* L2's: [since, last, pressed]
    resolved,     \* the effect last resolved and when: [effect, at]
    truth,        \* history: [index, opened, picked, rose, rises, seen]
    astray,       \* history: something happened that was not seen as it happened
    changes, breaks  \* how many there were

vars == <<pad, clock, stream, reader, loaded, live, switcher, timing, resolved, truth, astray, changes, breaks>>

-----------------------------------------------------------------------------
(* The profile *)

Never == -1
NoneYet == [effect |-> "none", at |-> Never]
Threshold == 128
FullPull == 250
NoWheel == [button |-> "none", threshold |-> 0, offset |-> 0, spans |-> <<>>, sectors |-> <<>>]

DefaultIndex(p) == p.default
HasRules(p) == p.rules # <<>> /\ Len(p.states) > 1
Named(p, name) == {i \in DOMAIN p.states : p.states[i].name = name}

\* The angles at which the wheel's sectors end.
Ends(wheel) ==
    [i \in DOMAIN wheel.spans |-> FoldLeft(LAMBDA a, b : a + b, 0, SubSeq(wheel.spans, 1, i))]

\* The last sector takes what rounding leaves over.
StickWheelSector(wheel, place) ==
    IF place.percent < wheel.threshold THEN 0
    ELSE LET relative == (place.angle - wheel.offset + 360) % 360
             after == {i \in DOMAIN wheel.spans : relative < Ends(wheel)[i]}
         IN  IF after = {} THEN Len(wheel.spans) ELSE CHOOSE i \in after : \A j \in after : i <= j

PickedBy(wheel, place, picked) ==
    LET sector == StickWheelSector(wheel, place)
    IN  IF sector = 0 \/ wheel.sectors[sector] = "" THEN picked ELSE wheel.sectors[sector]

RuleFor(p, button, held) ==
    {i \in DOMAIN p.rules : /\ p.rules[i].button = button
                            /\ p.rules[i].while \in held \cup {""}}
Follow(p, rules, index) ==
    LET rule == p.rules[CHOOSE i \in rules : \A j \in rules : i <= j]
    IN  CASE rules = {} -> index
          [] rules # {} /\ rule.action = "cycle" -> (index % Len(p.states)) + 1
          [] OTHER -> CHOOSE i \in Named(p, rule.state) : TRUE

Init ==
    /\ pad = [buttons |-> {}, l2 |-> 0, stick |-> Centre] /\ clock = 0 /\ stream = TRUE
    /\ reader = [buttons |-> <<>>, l2 |-> 0, stick |-> Centre]
    /\ loaded \in Profiles /\ live = TRUE
    /\ switcher = [index |-> DefaultIndex(loaded), guard |-> FALSE, opened |-> 0, previous |-> {},
                   armed |-> FALSE, picked |-> ""]
    /\ timing = [since |-> <<>>, last |-> 0, pressed |-> <<>>] /\ resolved = NoneYet
    /\ truth = [index |-> DefaultIndex(loaded), opened |-> Never, picked |-> "",
                rose |-> [v \in Values |-> 0], rises |-> <<>>, seen |-> Never]
    /\ astray = FALSE /\ changes = 0 /\ breaks = 0

-----------------------------------------------------------------------------
(* The evaluator of modifiers *)

NoTiming == [since |-> <<>>, last |-> 0, pressed |-> <<>>]

TrackTiming(t, value) ==
    LET risen == IF value >= Threshold /\ t.last < Threshold THEN Append(t.pressed, clock) ELSE t.pressed
    IN  [t EXCEPT !.last = value, !.pressed = SelectSeq(risen, LAMBDA at : clock - at <= Window)]

\* heldSinceMsByModifier, for every modifier of the slot.
HeldSinceMutant(slot, t, value) ==
    [i \in {j \in DOMAIN slot.modifiers : /\ slot.modifiers[j].condition = "trigger-held-over"
                                          /\ value >= slot.modifiers[j].threshold \/ j \in DOMAIN t.since} |->
        IF i \in DOMAIN t.since THEN t.since[i] ELSE clock]
HeldSince(slot, t, value) ==
    [i \in {j \in DOMAIN slot.modifiers : /\ slot.modifiers[j].condition = "trigger-held-over"
                                          /\ value >= slot.modifiers[j].threshold} |->
        IF i \in DOMAIN t.since THEN t.since[i] ELSE clock]

ConditionHolds(m, i, t, snapshot) ==
    CASE m.condition = "trigger-held-over" -> i \in DOMAIN t.since /\ clock - t.since[i] >= m.ms
      [] m.condition = "trigger-full-pull" -> snapshot.l2 >= FullPull
      [] m.condition = "button-held" -> m.button \in ToSet(snapshot.buttons)
      [] m.condition = "rapid-fire" -> Len(t.pressed) >= m.presses
      [] OTHER -> FALSE

HoldOf(m) == IF m.condition = "trigger-held-over" THEN m.ms ELSE 0

\* The first modifier of those that ask for the longest hold, else the base.
ResolveSlot(slot, t, snapshot) ==
    LET Better(best, i) ==
            IF /\ ConditionHolds(slot.modifiers[i], i, t, snapshot)
               /\ HoldOf(slot.modifiers[i]) > best.ms
            THEN [effect |-> slot.modifiers[i].effect, ms |-> HoldOf(slot.modifiers[i])] ELSE best
    IN  FoldLeft(Better, [effect |-> slot.base, ms |-> -1],
                 [i \in DOMAIN slot.modifiers |-> i]).effect

-----------------------------------------------------------------------------
(* The switcher of states *)

Expired(s) == IF s.guard /\ loaded.timeout # 0 /\ clock - s.opened >= loaded.timeout
              THEN [s EXCEPT !.guard = FALSE] ELSE s

Wheel(s, snapshot) ==
    LET wheel == loaded.wheel IN
    CASE wheel = NoWheel -> s
      [] wheel # NoWheel /\ wheel.button \in ToSet(snapshot.buttons) ->
            [s EXCEPT !.armed = TRUE, !.picked = PickedBy(wheel, snapshot.stick, @)]
      [] wheel # NoWheel /\ wheel.button \notin ToSet(snapshot.buttons) ->
            [s EXCEPT !.armed = FALSE, !.picked = "",
                      !.index = IF s.armed /\ s.picked # ""
                                THEN CHOOSE i \in Named(loaded, s.picked) : TRUE ELSE @]

\* One press; the wheel owns its button, the menu's buttons guard the rules.
Pressed(s, button, held) ==
    CASE loaded.wheel # NoWheel /\ button = loaded.wheel.button -> s
      [] button \in loaded.menu ->
            [s EXCEPT !.guard = ~@, !.opened = IF s.guard THEN @ ELSE clock]
      [] s.guard -> s
      [] OTHER -> [s EXCEPT !.index = Follow(loaded, RuleFor(loaded, button, held), @)]

Update(s, snapshot) ==
    LET held == ToSet(snapshot.buttons)
        pressed == SelectSeq(snapshot.buttons, LAMBDA b : b \notin s.previous)
    IN  FoldLeft(LAMBDA t, b : Pressed(t, b, held),
                 Wheel(Expired([s EXCEPT !.previous = held]), snapshot), pressed)

\* The engine's onInput.
OnInput(snapshot) ==
    IF ~live THEN UNCHANGED <<switcher, timing, resolved>>
    ELSE LET s == IF HasRules(loaded) THEN Update(switcher, snapshot) ELSE switcher
             t == TrackTiming(IF s.index # switcher.index THEN NoTiming ELSE timing, snapshot.l2)
             slot == loaded.states[s.index].slot
             seen == [t EXCEPT !.since = HeldSince(slot, t, snapshot.l2)]
         IN  /\ switcher' = s
             /\ IF slot.modifiers = <<>>
                THEN timing' = (IF s.index # switcher.index THEN NoTiming ELSE timing)
                     /\ resolved' = NoneYet
                ELSE timing' = seen /\ resolved' = [effect |-> ResolveSlot(slot, seen, snapshot), at |-> clock]

-----------------------------------------------------------------------------
(* What happened: the same rules told frame by frame.  What changes in one    *)
(* frame happens at once; but the wheel's release comes before the presses,  *)
(* and picks what the stick pointed to before.                               *)

Event == [kind : {"press", "release"}, button : UNION {p.buttons : p \in Profiles}]
         \cup [kind : {"pull"}, to : Values] \cup [kind : {"stick"}, to : Places]

Changed(at, ev) ==
    CASE ev.kind = "press" -> [at EXCEPT !.buttons = @ \cup {ev.button}]
      [] ev.kind = "release" -> [at EXCEPT !.buttons = @ \ {ev.button}]
      [] ev.kind = "pull" -> [at EXCEPT !.l2 = ev.to]
      [] ev.kind = "stick" -> [at EXCEPT !.stick = ev.to]

\* A report of the controller: each thing changes once; the driver names the axes first.
Thing(ev) == IF ev.kind \in {"press", "release"} THEN ev.button ELSE ev.kind
Changes == {ev \in Event : Changed(pad, ev) # pad}
Axis(ev) == ev.kind \in {"pull", "stick"}
Frames ==
    {frame \in UNION {[1..n -> Changes] : n \in 1..Min({MaxAtOnce, MaxEvents - changes - breaks})} :
        \A i, j \in DOMAIN frame :
            i < j => Thing(frame[i]) # Thing(frame[j]) /\ (Axis(frame[j]) => Axis(frame[i]))}

OpenedNow == IF truth.opened # Never /\ loaded.timeout # 0 /\ clock - truth.opened >= loaded.timeout
             THEN Never ELSE truth.opened

\* A press that opens or closes a menu, or is one of the rules' while none is open.
PressTold(told, button, held) ==
    CASE button = loaded.wheel.button -> told
      [] button \in loaded.menu /\ button # loaded.wheel.button ->
            [told EXCEPT !.opened = IF @ = Never THEN clock ELSE Never]
      [] button \notin loaded.menu \cup {loaded.wheel.button} /\ told.opened # Never -> told
      [] OTHER -> [told EXCEPT !.index = Follow(loaded, RuleFor(loaded, button, held), @)]

Recent == SelectSeq(truth.rises, LAMBDA at : clock - at <= Window)

TruthAfter(frame) ==
    LET new == FoldLeft(Changed, pad, frame)
        presses == SelectSeq(frame, LAMBDA ev : ev.kind = "press")
        left == loaded.wheel.button \in pad.buttons \ new.buttons /\ truth.picked # ""
        told == FoldLeft(LAMBDA t, ev : PressTold(t, ev.button, new.buttons),
                         [index |-> IF left THEN CHOOSE i \in Named(loaded, truth.picked) : TRUE
                                    ELSE truth.index,
                          opened |-> OpenedNow], presses)
        again == told.index # truth.index \/ truth.seen = Never
    IN  [index |-> told.index,
         opened |-> told.opened,
         picked |-> IF loaded.wheel.button \in new.buttons
                    THEN PickedBy(loaded.wheel, new.stick, truth.picked) ELSE "",
         rose |-> [v \in Values |-> IF new.l2 >= v /\ pad.l2 < v THEN clock ELSE truth.rose[v]],
         rises |-> CASE again -> IF new.l2 >= Threshold THEN <<clock>> ELSE <<>>
                     [] ~again /\ new.l2 >= Threshold /\ pad.l2 < Threshold -> Append(Recent, clock)
                     [] OTHER -> Recent,
         seen |-> IF again THEN clock ELSE truth.seen]

\* The modifiers that hold: by how long L2 has been down since the state was first seen.
Later(a, b) == IF a > b THEN a ELSE b
TrulyHolds(m) ==
    CASE m.condition = "trigger-held-over" ->
            /\ pad.l2 >= m.threshold
            /\ clock - Later(truth.seen, truth.rose[m.threshold]) >= m.ms
      [] m.condition = "trigger-full-pull" -> pad.l2 >= FullPull
      [] m.condition = "button-held" -> m.button \in pad.buttons
      [] m.condition = "rapid-fire" ->
            Len(Recent) >= m.presses
      [] OTHER -> FALSE

TrueEffect(slot) ==
    LET holding == {i \in DOMAIN slot.modifiers : TrulyHolds(slot.modifiers[i])}
        best == {i \in holding : \A j \in holding : HoldOf(slot.modifiers[j]) <= HoldOf(slot.modifiers[i])}
    IN  IF holding = {} THEN slot.base
        ELSE slot.modifiers[CHOOSE i \in best : \A j \in best : i <= j].effect

-----------------------------------------------------------------------------
(* The reader and its surroundings *)

HandleEvent(copy, ev) ==
    CASE ev.kind = "press" ->
            [copy EXCEPT !.buttons = IF ev.button \in ToSet(@) THEN @ ELSE Append(@, ev.button)]
      [] ev.kind = "release" -> [copy EXCEPT !.buttons = SelectSeq(@, LAMBDA b : b # ev.button)]
      [] ev.kind = "pull" -> [copy EXCEPT !.l2 = ev.to]
      [] ev.kind = "stick" -> [copy EXCEPT !.stick = ev.to]

\* A frame of the kernel up to its EV_SYN; without a stream it is lost, while a draft is
\* shown or the engine is suspended nobody follows it.
Frame(frame) ==
    /\ changes' = changes + Len(frame)
    /\ pad' = FoldLeft(Changed, pad, frame)
    /\ IF stream THEN reader' = FoldLeft(HandleEvent, reader, frame) /\ OnInput(reader')
                 ELSE UNCHANGED <<reader, switcher, timing, resolved>>
    /\ truth' = TruthAfter(frame)
    /\ astray' = (astray \/ ~stream \/ ~live)
    /\ UNCHANGED <<clock, stream, loaded, live, breaks>>

Tick ==
    /\ clock < MaxTime /\ clock' = clock + 1
    /\ UNCHANGED <<pad, stream, reader, loaded, live, switcher, timing, resolved, truth, astray, changes, breaks>>

Break == breaks < MaxBreaks /\ changes + breaks < MaxEvents /\ breaks' = breaks + 1

\* The stream ends with an error, start opens it again; the copy of the pad stays.
StreamFails ==
    /\ Break
    /\ stream /\ stream' = FALSE
    /\ UNCHANGED <<pad, clock, reader, loaded, live, switcher, timing, resolved, truth, astray, changes>>

Start ==
    /\ ~stream /\ stream' = TRUE
    /\ UNCHANGED <<pad, clock, reader, loaded, live, switcher, timing, resolved, truth, astray, changes, breaks>>

\* A draft or a test begins or ends.
Pause ==
    /\ IF live THEN Break ELSE UNCHANGED breaks
    /\ live' = ~live
    /\ UNCHANGED <<pad, clock, stream, reader, loaded, switcher, timing, resolved, truth, astray, changes>>

\* setProfile of switcher and evaluator: a button that is down counts as pressed again.
SetProfile(p) ==
    /\ Break
    /\ loaded' = p
    /\ switcher' = [index |-> DefaultIndex(p), guard |-> FALSE, opened |-> switcher.opened,
                    previous |-> {}, armed |-> FALSE, picked |-> ""]
    /\ timing' = NoTiming /\ resolved' = NoneYet
    /\ truth' = [truth EXCEPT !.index = DefaultIndex(p), !.opened = Never, !.picked = "",
                              !.rises = <<>>, !.seen = Never]
    /\ astray' = (~stream \/ ~live \/ pad.buttons # {} \/ reader.buttons # <<>> \/ reader.l2 # pad.l2
                  \/ reader.stick # pad.stick)
    /\ UNCHANGED <<pad, clock, stream, reader, live, changes>>

\* select: the user names the state; only a change starts the modifiers afresh.
Select(name) ==
    /\ Break
    /\ \E i \in Named(loaded, name) :
          /\ i # switcher.index
          /\ switcher' = [switcher EXCEPT !.index = i]
          /\ truth' = [truth EXCEPT !.index = i, !.rises = <<>>, !.seen = Never]
    /\ timing' = NoTiming /\ resolved' = NoneYet
    /\ UNCHANGED <<pad, clock, stream, reader, loaded, live, astray, changes>>

Next ==
    \/ \E frame \in Frames : Frame(frame)
    \/ Tick \/ StreamFails \/ Start \/ Pause
    \/ \E p \in Profiles : SetProfile(p)
    \/ \E i \in DOMAIN loaded.states : Select(loaded.states[i].name)

-----------------------------------------------------------------------------
(* Unless events were lost, or came while nobody followed them, the state is *)
(* the one that presses, menus, wheel and selections lead to, the menu's     *)
(* guard is up only while a menu is open that has not timed out, and the     *)
(* effect resolved at a frame is the one whose condition the controller has  *)
(* met, for as long as it asks, since the state became active.  A wheel      *)
(* without rules is not followed (hasRules asks for rules).                  *)
InputTracked ==
    ~astray /\ HasRules(loaded) =>
        /\ switcher.index = truth.index
        /\ switcher.guard => truth.opened = switcher.opened
        /\ reader = [pad EXCEPT !.buttons = reader.buttons] /\ ToSet(reader.buttons) = pad.buttons
        /\ resolved.at = clock => resolved.effect = TrueEffect(loaded.states[switcher.index].slot)
=============================================================================
