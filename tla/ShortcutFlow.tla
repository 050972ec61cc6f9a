----------------------------- MODULE ShortcutFlow -----------------------------
(* A shortcut from the buttons of the controller to what it does: vdsd      *)
(* (vds_companion.cc) recognizes chords in the input reports and queues     *)
(* events, two polls of bridge-service.ts fetch them, one queue of actions  *)
(* runs them against the settings of the moment, while the user edits the   *)
(* list of chords.                                                          *)
EXTENDS Integers, Sequences, FiniteSets, SequencesExt

CONSTANTS
    Starters, Buttons,  \* buttons that start chords, and those they are combined with
    ChordLists,         \* lists of assignments [starter, button, runs] the user makes
    Functions,          \* by name, what chord functions and firmware shortcuts do: [does, keys, by]
    Gated,              \* the functions that a switch in the settings can turn off
    Shortcuts,          \* the functions that the firmware of a Pico names itself
    KindOf,             \* of the name of a key: "modifier", "sym", "media", "bare" (a code
                        \* without a keysym) or "none" (no code)
    Start, Top,         \* the stepped setting at the start and at most
    MaxEvents,          \* kCompanionMaxPendingInputEvents
    MaxPresses,         \* bound: shortcuts pressed
    MaxEdits            \* bound: edits of the list

\* Every chord and every event of the firmware stands for a function; none is called "".
Kinds == {"keys", "media", "step", "toggle", "mark", "request"}
ConstantsOK ==
    /\ \A f \in DOMAIN Functions :
          Functions[f] \in [does : Kinds, keys : Seq(DOMAIN KindOf), by : Int]
    /\ "" \notin DOMAIN Functions
    /\ Shortcuts \cup Gated \subseteq DOMAIN Functions
    /\ ChordLists \subseteq Seq([starter : Starters, button : Buttons, runs : DOMAIN Functions])
    /\ Top \in Nat /\ Start \in 0..Top /\ MaxEvents \in Nat

VARIABLES
    held, port, shown,  \* what is pressed, the state of the port, what the game sees
    chorded,            \* history: buttons held since they made a chord
    daemon,             \* [chords, pending]: the bindings and the input events of vdsd
    chords,             \* settings.chordAssignments
    sending,            \* lists of chords under way to the daemon
    polls,              \* of the timer and of the status poll: [state, event]
    retry,              \* shortcutFeaturePollRetryAt is not reached
    queue, running,     \* shortcutActionQueue: events to run, and the function that awaits its
                        \* command or its process, with the value it stores then
    level, flag,        \* the stepped setting and the toggled one
    blocked,            \* the functions turned off
    spawned,            \* the process started last, [program, args]
    presses,            \* history: the shortcuts pressed, [version, runs, again]
    done,               \* history: what was run, in this order, and the settings after it
    lost,               \* history: presses whose event was given up
    crossed             \* history: both polls carried events at once

controllerVars == <<held, port, shown, chorded, presses>>
listVars == <<chords, sending>>
pollVars == <<polls, retry, crossed>>
actionVars == <<queue, running, level, flag, blocked, spawned, done>>
vars == <<controllerVars, daemon, listVars, pollVars, actionVars, lost>>

-----------------------------------------------------------------------------
Nothing == [press |-> 0, slot |-> 0, shortcut |-> ""]
Idle == [state |-> "idle", event |-> Nothing]
NotRunning == [event |-> Nothing, runs |-> "", value |-> 0]
NoProcess == [program |-> "", args |-> <<>>]
Versioned(number, list) == [version |-> number, list |-> list]

Init ==
    /\ held = {} /\ shown = {} /\ chorded = {} /\ port = [previous |-> {}, consumed |-> {}]
    /\ chords \in {Versioned(0, list) : list \in ChordLists}
    /\ daemon = [chords |-> chords, pending |-> <<>>]
    /\ sending = <<>> /\ polls = [p \in {"timer", "status"} |-> Idle] /\ retry = FALSE
    /\ queue = <<>> /\ running = NotRunning /\ level = Start /\ flag = 0
    /\ blocked \in SUBSET Gated /\ spawned = NoProcess
    /\ presses = <<>> /\ done = <<>> /\ lost = {} /\ crossed = FALSE

-----------------------------------------------------------------------------
(* vdsd. *)

\* The slots whose starter is held and whose button has just been pressed; the first of
\* two chords with one button takes it.
Struck(pressed, consumed) ==
    LET list == daemon.chords.list
        strikes == {s \in DOMAIN list :
                      /\ list[s].starter \in pressed
                      /\ list[s].button \in pressed \ (port.previous \cup consumed)}
    IN  {s \in strikes : \A t \in strikes : list[t].button = list[s].button => s <= t}

Covered(pressed) ==
    {c.button : c \in {c \in ToSet(daemon.chords.list) : {c.starter, c.button} \subseteq pressed}}

\* The loop over the bindings meets the slots S in this order.
Ordered(S) == {o \in [1..Cardinality(S) -> S] : \A i, j \in DOMAIN o : i < j => o[i] < o[j]}

\* The events that find room, and the others are dropped.
Enqueue(events) ==
    LET room == MaxEvents - Len(daemon.pending)
        kept == IF Len(events) < room THEN Len(events) ELSE room
    IN  /\ daemon' = [daemon EXCEPT !.pending = @ \o SubSeq(events, 1, kept)]
        /\ lost' = lost \cup {events[i].press : i \in DOMAIN events \ 1..kept}

Strike(slots) ==
    LET list == daemon.chords.list
    IN  /\ Len(presses) + Len(slots) <= MaxPresses
        /\ presses' = presses \o [i \in DOMAIN slots |->
                [version |-> daemon.chords.version, runs |-> list[slots[i]].runs,
                 again |-> list[slots[i]].button \in chorded]]
        /\ Enqueue([i \in DOMAIN slots |->
                [press |-> Len(presses) + i, slot |-> slots[i], shortcut |-> ""]])

\* companion_translate_input where no button is remapped: without bindings the report
\* passes as it is and the port keeps the state it had.
TranslateInput(pressed) ==
    LET consumed == port.consumed \cap pressed
        struck == Struck(pressed, consumed)
        buttons == {daemon.chords.list[s].button : s \in struck}
    IN  IF daemon.chords.list = <<>>
        THEN shown' = pressed /\ chorded' = {} /\ UNCHANGED <<port, daemon, presses, lost>>
        ELSE /\ port' = [previous |-> pressed, consumed |-> consumed \cup Covered(pressed)]
             /\ shown' = pressed \ port'.consumed
             /\ chorded' = (chorded \cap pressed) \cup buttons
             /\ \E slots \in Ordered(struck) : Strike(slots)

\* A report with other buttons pressed.
Input(pressed) ==
    /\ held' = pressed
    /\ TranslateInput(pressed)
    /\ UNCHANGED <<listVars, pollVars, actionVars>>

\* A Pico's firmware has events of its own.
FirmwareShortcut(shortcut) ==
    /\ Len(presses) < MaxPresses
    /\ presses' = Append(presses, [version |-> 0, runs |-> shortcut, again |-> FALSE])
    /\ Enqueue(<<[press |-> Len(presses) + 1, slot |-> 0, shortcut |-> shortcut]>>)
    /\ UNCHANGED <<held, port, shown, chorded, listVars, pollVars, actionVars>>

\* SET_CHORD_BINDINGS forgets the events of the old ones.
BindingsArrive ==
    /\ sending # <<>>
    /\ daemon' = [chords |-> Head(sending), pending |-> <<>>]
    /\ sending' = Tail(sending)
    /\ lost' = lost \cup {e.press : e \in ToSet(daemon.pending)}
    /\ UNCHANGED <<controllerVars, chords, pollVars, actionVars>>

\* The command fails, which is not told (throwOnCommandError: false).
BindingsFail ==
    /\ sending # <<>>
    /\ sending' = Tail(sending)
    /\ UNCHANGED <<controllerVars, daemon, chords, pollVars, actionVars, lost>>

\* setChordConfiguration, setChordFunctions, setChordAssignments: stored at once, sent later.
SetChordAssignments ==
    /\ chords.version < MaxEdits
    /\ \E list \in ChordLists \ {chords.list} : chords' = Versioned(chords.version + 1, list)
    /\ sending' = Append(sending, chords')
    /\ UNCHANGED <<controllerVars, daemon, pollVars, actionVars, lost>>

\* applyCurrentSettings sends the list again.
ReapplyChordBindings ==
    /\ sending = <<>> /\ daemon.chords # chords
    /\ sending' = <<chords>>
    /\ UNCHANGED <<controllerVars, daemon, chords, pollVars, actionVars, lost>>

-----------------------------------------------------------------------------
(* The polls. *)

\* Each of the two asks for itself; a failed request holds back both.
Ask(p) ==
    /\ polls[p].state = "idle" /\ ~retry
    /\ polls' = [polls EXCEPT ![p].state = "asked"]
    /\ UNCHANGED <<controllerVars, daemon, listVars, retry, crossed, actionVars, lost>>

\* The daemon hands out its first event and forgets it.
PeekedMutant(pending) == pending
Remaining(pending) == IF pending = <<>> THEN <<>> ELSE Tail(pending)

Serve(p) ==
    /\ polls[p].state = "asked"
    /\ polls' = [polls EXCEPT ![p] =
            [state |-> "served", event |-> IF daemon.pending = <<>> THEN Nothing ELSE Head(daemon.pending)]]
    /\ daemon' = [daemon EXCEPT !.pending = Remaining(@)]
    /\ crossed' = (crossed \/ /\ daemon.pending # <<>>
                              /\ \E q \in DOMAIN polls : polls[q].event # Nothing)
    /\ UNCHANGED <<controllerVars, listVars, retry, actionVars, lost>>

\* pollShortcutEvent and enqueueShortcutEvent.
Receive(p) ==
    /\ polls[p].state = "served"
    /\ polls' = [polls EXCEPT ![p] = Idle]
    /\ queue' = IF polls[p].event = Nothing THEN queue ELSE Append(queue, polls[p].event)
    /\ retry' = FALSE
    /\ UNCHANGED <<controllerVars, daemon, listVars, crossed, running, level, flag, blocked,
                   spawned, done, lost>>

\* The request or its answer is lost.
PollFails(p) ==
    /\ polls[p].state \in {"asked", "served"}
    /\ polls' = [polls EXCEPT ![p] = Idle]
    /\ retry' = TRUE
    /\ lost' = lost \cup ({polls[p].event.press} \ {0})
    /\ UNCHANGED <<controllerVars, daemon, listVars, crossed, actionVars>>

RetryDue ==
    /\ retry /\ retry' = FALSE
    /\ UNCHANGED <<controllerVars, daemon, listVars, polls, crossed, actionVars, lost>>

-----------------------------------------------------------------------------
(* The actions. *)

\* sendLinuxKeySequence: what each turn of its two loops adds to the arguments of wtype.
\* Modifiers are pressed where they stand and released in reverse at the end.
Arguments(keys) ==
    [i \in 1..2 * Len(keys) |->
        LET key == keys[IF i <= Len(keys) THEN i ELSE 2 * Len(keys) + 1 - i]
        IN  IF i <= Len(keys) THEN <<IF KindOf[key] = "modifier" THEN "press" ELSE "key", key>>
            ELSE IF KindOf[key] = "modifier" THEN <<"release", key>> ELSE <<>>]

LoneMediaKey(keys) == Len(keys) = 1 /\ KindOf[keys[1]] = "media"

\* A key without a code, or without a keysym, and nothing is typed.
Typable(keys) ==
    /\ keys # <<>>
    /\ \/ LoneMediaKey(keys)
       \/ \A i \in DOMAIN keys : KindOf[keys[i]] \in {"modifier", "sym"}

Media == [program |-> "media", args |-> <<>>]
ProcessFor(keys) ==
    IF LoneMediaKey(keys) THEN Media ELSE [program |-> "wtype", args |-> Arguments(keys)]

\* clampChordPercent.
Clamp(value) == IF value < 0 THEN 0 ELSE IF value > Top THEN Top ELSE value

\* What a function makes of the settings.
Effect(f, before) ==
    CASE Functions[f].does = "step" -> [before EXCEPT !.level = Clamp(@ + Functions[f].by)]
      [] Functions[f].does = "toggle" -> [before EXCEPT !.flag = 1 - @]
      [] Functions[f].does = "mark" -> [before EXCEPT !.flag = Functions[f].by]
      [] OTHER -> before

\* dispatchInputShortcutAction, dispatchChordFunctionSlot: the assignments are read when the
\* action's turn comes.
Runs(event) ==
    IF event.shortcut # "" THEN {event.shortcut}
    ELSE {chords.list[s].runs : s \in {event.slot} \cap DOMAIN chords.list}

Ended(event, runs, ok) ==
    done' = Append(done, [press |-> event.press, runs |-> runs, ok |-> ok,
                          version |-> chords.version, level |-> level', flag |-> flag'])
Begun(event, runs, value) ==
    running' = [event |-> event, runs |-> runs, value |-> value] /\ UNCHANGED done

\* A slot that is gone, a function that is turned off or cannot be typed.
DispatchNothing(event, runs) ==
    /\ UNCHANGED <<running, level, flag, spawned>>
    /\ Ended(event, runs, FALSE)

\* executeChordFunction: a process is run for the keys, and awaited.
DispatchKeys(event, f) ==
    /\ Functions[f].does = "keys"
    /\ IF Typable(Functions[f].keys)
       THEN /\ spawned' = ProcessFor(Functions[f].keys)
            /\ Begun(event, f, 0) /\ UNCHANGED <<level, flag>>
       ELSE DispatchNothing(event, f)

DispatchMedia(event, f) ==
    /\ Functions[f].does = "media"
    /\ spawned' = Media
    /\ Begun(event, f, 0) /\ UNCHANGED <<level, flag>>

\* stepSpeakerVolume and its five likes, applyControllerVolumeShortcut: a step that changes
\* nothing sends nothing.
DispatchStep(event, f) ==
    LET value == Clamp(level + Functions[f].by)
    IN  /\ Functions[f].does = "step"
        /\ UNCHANGED <<level, flag, spawned>>
        /\ IF value # level THEN Begun(event, f, value)
           ELSE Ended(event, f, TRUE) /\ UNCHANGED running

\* toggle-lightbar-override, toggle-mic-mute; sleepController, setHostPersonaMode and
\* applySleepShortcut, which store nothing here.
DispatchCommand(event, f) ==
    /\ Functions[f].does \in {"toggle", "request"}
    /\ Begun(event, f, IF Functions[f].does = "toggle" THEN 1 - flag ELSE 0)
    /\ UNCHANGED <<level, flag, spawned>>

\* applyControllerMicMuteEvent: the controller has muted itself, which is stored at once.
DispatchMark(event, f) ==
    /\ Functions[f].does = "mark"
    /\ flag' = Functions[f].by
    /\ UNCHANGED <<running, level, spawned>>
    /\ Ended(event, f, TRUE)

\* executeChordFunction, executeChordControllerSettingAction, shortcutActionHandlers.
Execute(event, f) ==
    \/ DispatchKeys(event, f) \/ DispatchMedia(event, f) \/ DispatchStep(event, f)
    \/ DispatchCommand(event, f) \/ DispatchMark(event, f)

Dispatch ==
    /\ running = NotRunning /\ queue # <<>>
    /\ queue' = Tail(queue)
    /\ \/ Runs(Head(queue)) = {} /\ DispatchNothing(Head(queue), "")
       \/ \E f \in Runs(Head(queue)) \cap blocked : DispatchNothing(Head(queue), f)
       \/ \E f \in Runs(Head(queue)) \ blocked : Execute(Head(queue), f)
    /\ UNCHANGED <<controllerVars, daemon, listVars, pollVars, blocked, lost>>

\* The process has exited or the command was acknowledged and its value is stored, or
\* either failed; the next is served.
ExecuteEnds(ok) ==
    /\ running # NotRunning
    /\ level' = IF ok /\ Functions[running.runs].does = "step" THEN running.value ELSE level
    /\ flag' = IF ok /\ Functions[running.runs].does = "toggle" THEN running.value ELSE flag
    /\ running' = NotRunning
    /\ Ended(running.event, running.runs, ok)
    /\ UNCHANGED <<controllerVars, daemon, listVars, pollVars, queue, blocked, spawned, lost>>

Next ==
    \/ \E pressed \in SUBSET (Starters \cup Buttons) \ {held} : Input(pressed)
    \/ \E s \in Shortcuts : FirmwareShortcut(s)
    \/ BindingsArrive \/ BindingsFail \/ SetChordAssignments \/ ReapplyChordBindings
    \/ \E p \in DOMAIN polls : Ask(p) \/ Serve(p) \/ Receive(p) \/ PollFails(p)
    \/ RetryDue \/ Dispatch \/ ExecuteEnds(TRUE) \/ ExecuteEnds(FALSE)

Spec == Init /\ [][Next]_vars

-----------------------------------------------------------------------------
\* Where a press is, or what became of it.
At(where, events, p) == {<<where, i>> : i \in {i \in DOMAIN events : events[i].press = p}}
Places(p) ==
    At("pending", daemon.pending, p) \cup At("queue", queue, p) \cup At("done", done, p)
    \cup {<<"poll", q>> : q \in {q \in DOMAIN polls : polls[q].event.press = p}}
    \cup {<<"running", 0>> : e \in {running.event.press} \cap {p}}
    \cup {<<"lost", 0>> : e \in lost \cap {p}}

\* The settings before the i-th function run.
Before(i) ==
    IF i = 1 THEN [level |-> Start, flag |-> 0]
    ELSE [level |-> done[i - 1].level, flag |-> done[i - 1].flag]

\* Every shortcut pressed is in one place: it is run once and in the order of the presses,
\* unless the two polls carried events at once, and never given up without a reason; it
\* runs what it meant when it was pressed, unless the list was edited since; no function
\* overwrites what another has stored.  A button that made a chord makes no second one and
\* is kept from the game while it is held; and every modifier that is pressed is released,
\* the last one first (vds_companion.cc companion_translate_input; bridge-service.ts
\* pollShortcutEvent, enqueueShortcutEvent, dispatchInputShortcutAction).
ShortcutsMatch ==
    /\ \A p \in DOMAIN presses : (\E x \in Places(p) : Places(p) = {x}) /\ ~presses[p].again
    /\ crossed \/ \A i, j \in DOMAIN done : i < j => done[i].press < done[j].press
    /\ \A i \in DOMAIN done :
          /\ presses[done[i].press].version = done[i].version
              => done[i].runs = presses[done[i].press].runs
          /\ [level |-> done[i].level, flag |-> done[i].flag]
                = IF done[i].ok THEN Effect(done[i].runs, Before(i)) ELSE Before(i)
    /\ [level |-> level, flag |-> flag] = Before(Len(done) + 1)
    /\ shown \cap chorded = {}
    /\ \A i \in DOMAIN spawned.args : \A key \in DOMAIN KindOf :
          spawned.args[i] = <<"press", key>>
            <=> spawned.args[Len(spawned.args) + 1 - i] = <<"release", key>>
=============================================================================
