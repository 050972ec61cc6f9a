# OpenDS5 in TLA+

OpenDS5 makes a DualSense that is connected over Bluetooth appear to the host as
a wired one.  A kernel module emulates a USB host controller with a DualSense on
it, a daemon carries reports between the module and the Bluetooth controller,
and a companion application configures it all, follows the running game and
updates the program.

These modules model the parts of it that are hard to test: the kernel module,
the companion's conversation with the daemon, and the companion's own state.
TLC checks them on small instances, TLAPS proves most of their safety properties
for all instances.

    tlc -config X.cfg M      model-check (X.cfg and M: see "Runs")
    tlapm M.tla              check the proofs of M (see "Proofs")

`PROJECT.json` lists the components, the runs with their properties, the
mutations each property is tested with, the source lines of every definition,
the hazards and the theorems.

## 1. The system

| Part | Keeps | Does | Hard about it |
|---|---|---|---|
| Host controller, `src/vds/module/vds_hcd_core.c` | URB contexts on five lists, frame queue, port and status flags, pacing deadlines | accepts, parks, completes, unlinks URBs; serves `/dev/vdsN`; tells usbcore of connections | kernel threads, processes and usbcore interleave at every unlock; one context, many who may complete it |
| Emulated device, `vds_usb_core.c` | configuration, alternate settings, feature cache | control requests; defers GET_REPORT to the daemon | state split over three locks |
| Daemon, `src/vds/src` | ports, Bluetooth links, companion settings | conversion of reports, pacing of audio, companion channel | restarts, lost controllers |
| Bridge service, `main/bridge-service.ts` | settings, status, session, reapply, persona switch | every operation of the user, a poll, the queue of commands, shortcuts | every operation awaits the controller between reading and storing |
| Transports, `winusb-`, `vdsd-companion-transport.ts`, `hid-discovery-*.ts` | pending requests | requests over a helper process or a socket | time limits, late answers, exits |
| Settings store, `settings-store.ts` | settings, the snapshot for "custom", the file | presets, profiles, remappings, chords | long sequences of legal edits, torn writes |
| Game settings, `game-settings-coordinator.ts` | restore point, applied game, scope | selects a game's profiles and puts the user's back | queued jobs that read state late, crashes, refused steps |
| Trigger profiles, `trigger-profile-engine.ts`, `game-watcher.ts`, `trigger-*.ts` | active profile, suspension, what was written last | writes effects to the controller, follows games and inputs | one promise chain, effects written behind its back |
| Audio mirror, `audio-helper.ts` | helper process, its state | mirrors the host's sound as haptics | processes start and stop slowly |
| Updates and setup, `update-service.ts`, `setup-*.ts` | phase, files, recorded hash | download, verify, swap, rebuild of the module | kills, buttons pressed twice |
| User interface, `renderer/App.tsx` and its parts | drafts, lists, drags | edits profiles and values, shows what the bridge tells | its copies grow stale at every await |

Parts talk by calls that await (renderer to main process to daemon), by frames
and system calls (daemon to module) and by callbacks (usbcore to module).

## 2. Modules

| Module | Models | State and actions |
|---|---|---|
| `VdsGivebackQueue` | the completion queue of `vds_hcd_core.c` | operators on sequences |
| `VdsHcd` | `vds_hcd_core.c` with `vds_usb_core.c` | one variable per list or field; one action per critical section of `dev->lock`; what lies between two of them interleaves |
| `UrbService` | what any host controller driver owes its callers | abstract: accept, cancel, return |
| `VdsHcdService` | fairness, liveness and the refinement VdsHcd => UrbService | |
| `VdsHcdProofs`, `VdsHcdCompletionProofs`, `BridgeProofs`, `CompanionProofs`, `ShortcutProofs`, `SettingsStoreProofs`, `GameSettingsProofs`, `TriggerEngineProofs` | proofs, see section 5 | |
| `SettingsStore` | `settings-store.ts` | live settings, snapshot, file; one action per method, each ending in the write |
| `GameSettings` | `game-settings-coordinator.ts` with what it calls in bridge, store and main | chain of jobs, a job suspended at each round trip |
| `TriggerEngine` | engine, game watcher, store and handlers of trigger profiles | chain of jobs and the sink call under way |
| `TriggerInput` | evdev reader, state switcher, modifier evaluation | frames of several changes at once; what the switcher infers beside what was pressed |
| `TriggerProfileFiles`, `TriggerParts` | profile files, imports, downloads, the renderer's list | two operations that overlap at their awaits |
| `TriggerProfileEditor` | the draft: states, rules, wheel, normalisation and validation | one action per edit |
| `TriggerEffects` | one effect and one condition under edit | one action per control |
| `SettingsScreen` | the settings as `App.tsx` shows them: dragged, sent, answered, refused, pushed while the window is moved | one action per control and per message; functions of the window that wait |
| `ChordEditor` | the chords page: functions, assignments, rows without a button, the drag | two whole lists sent at each edit; the draft and rows made anew from each snapshot |
| `BridgeCommands` | every operation of `bridge-service.ts` as a program of sends and stores | operators |
| `BridgeSession` | runs those programs, the poll and the reapply against the daemon | tasks suspended at each await, the command queue |
| `CompanionProtocol` | every report, as built by one side and as read by the other | one exchange |
| `CompanionTransport`, `HidDiscovery` | requests, time limits, late and mangled answers, exits, close | |
| `ShortcutFlow` | chords from the buttons to what they do: `vds_companion.cc` and the shortcut part of `bridge-service.ts` | bindings and events of the daemon, what a chord keeps from the game, two polls, one queue of actions, the process or command under way |
| `PersonaSwitch` | the switch of the host persona | device gone and back, mask, restoration of the default output |
| `AudioMirror` | start, stop and restart of the haptics helper, and the commands that tell the firmware who plays | callers that overlap at every await; commands that fail; beside the firmware the flag the bridge service keeps of it |
| `UpdateFlow` | update, setup wizard, toast | files, starts, installers, kills |

`VdsHcdService` composes the host controller with its class drivers, the hub
thread and the process behind `/dev/vdsN`.  `BridgeSession` composes the bridge
service with the daemon and the host's audio.  `GameSettings` composes the
coordinator with store, bridge and main process, `TriggerEngine` the engine with
watcher, files and main process.  `CompanionParts` gives updates, transports, lookups,
mirror, persona switch and shortcuts variables of their own, `TriggerParts` the profile files.  `MCCompanion` and `MCTriggers` put parts that
do not influence each other into one run: a behaviour explores the part named by
`focus` and leaves every other in one initial state.  The invariants of a part
are guarded by its focus.  This is an arrangement for checking, not a claim that
the parts never meet; where they do (the mirror and the bridge service, the
engine and the profile files) the module's comments say how the other side
appears.

Definitions whose names end in `Mutant` are defective forms of a definition that
follows.  No specification uses them; the mutation tests put one in the place of
the definition and expect the property to fail.

### Conventions

* An `await` is where an action ends.  Code between two awaits is one action, in
  the main process and in the renderer, because JavaScript runs it so.  In the
  kernel a critical section is one action.
* Variables marked *history* record what happened; no action of the code reads
  them.
* An *excuse* is a history variable that records a known flaw of the code: the
  property holds whenever none of the catalogued sequences has happened.
  Section 6 lists them; each was met as a counterexample.

## 3. Runs

| Run | Asks | Bounds |
|---|---|---|
| `hcd_paced` | do completions leave in order and at the endpoint's pace, do input reports return in the order written | 2 URBs of any kind of transfer, 2 reports, 1 connection and its end; audio lasts 2 ticks |
| `hcd_feature` | is every context in one place, is a deferred request ever forgotten | 2 URBs, a queue of one frame, 2 connections |
| `hcd_config` | do port, flags and device agree again, is the end of a connection always noticed | 2 URBs, 2 openers, 2 connections, ports usbcore disables |
| `hcd_service` | does the driver implement `UrbService`, do teardown and removal end | 2 URBs, 1 session, unbinding allowed |
| `hcd_answer` | is every completion one the abstract service allows, does a deferred GET_REPORT return | 2 deferred URBs, failing request frames, replies |
| `hcd_failed_defer` | violation, see Findings | |
| `hcd_unlink_race` | violation, see Findings | |
| `bridge` | is the controller, in the end, as the settings say | 10 groups of commands; 2 acts out of 2 operations, 1 event and 1 failure, between all awaits of poll and reapply |
| `games` | do the user's selections come back, is every crash recoverable, does the right game win | 2 games, 4 events, 1 crash, 1 rejected round trip |
| `games_toggle` | violation, see Findings | 5 events |
| `triggers` | is the controller's effect that of the active profile; are profiles, drafts and effects as edited | engine: 2 games, 4 events, 1 rejection, 1 crash; files: 2 operations; drafts: 3 edits; screen: 3 acts, 1 failed request, 2 waiting functions, a value in range, one that is capped, one beyond |
| `companion` | each remaining part of the companion | see below |

Two URBs are enough for every order of two contexts on a list, one ahead of
another with a later deadline, one that is unlinked while the other is being
handled; a queue of one frame makes "full" happen at once; two connections give a
stale device.  Two games give one that replaces another; two overlapping
operations give every stale merge.  Where an instance is bounded further (`MC...`
modules), the definition is preceded by a comment that begins with *Bound*.

The parts of the `companion` run and their bounds: at most two profiles beside
Default in each list (one that is cut, one saved, one of a game), the three lists
of the store one at a time; 1 kill and 2 starts of an update; 3 requests and 2
attempts to open; 3 lookups and 2 workers; 2 helpers and 2 callers of the mirror,
of which the second neither configures nor reapplies, one excuse at a time, and the second helper
only while the controller is there and nothing went unheard; 4 changes of the buttons, sticks and
triggers, two of them at once in a frame, or 3 and a break, over 2 units of time with a rapid-fire
window of 1, so that presses leave it; 2 callers of the persona switch; four lists of chords on two buttons, among them one with
two chords on the same button, 2 presses, 1 edit and room for one event in the daemon, so that
it overflows; 3 edits on the chords page, with at most 3 functions and
3 assignments, so that either list can be full; one report of each kind with values at both ends
of every range and one past it.

`CHECK_DEADLOCK FALSE`: in the runs of the kernel module a submission is made
once, so a behaviour ends when all are back and the connection is closed; in the
runs of the companion the user may stop, and every bound on steps is such an end.
`bridge` checks for deadlock, because its poll never ends.  Its safety properties also
hold, without the liveness one, with 3 acts out of 3 operations in every group (7
million states), and with 5 acts out of 3 operations for the trigger intensity
alone (17 million); the run keeps to what its liveness property affords.

### Fairness

`VdsHcdService!KernelFairness`: a handler that was called runs on, a thread that
was woken runs, time passes.  Nothing is asked of class drivers or of the process
behind `/dev/vdsN` beyond finishing the system call it is inside of.  Only
`DeferredGetReturns` asks for more, a daemon that keeps reading frames and a
controller that answers (`DaemonFairness`); strong fairness, because reading is
disabled while the queue is empty.  `games`, `triggers` and `bridge` assume that a
call that was sent is answered (by an acknowledgement, a rejection or a time
limit, which all transports have), that a job that is first in its chain runs and
that timers fire.  Nothing is assumed of the user or of games.

## 4. Environment

* Kernel: memory allocation succeeds; usbcore unlinks a URB only after its
  submission returned, except in `hcd_unlink_race` (`RacySpec`).  A freed context
  still reads as giving back, which is what the memory holds in most builds.
  `HubEnumerates` stands for a whole enumeration; `Removable` bounds it to runs in
  which the driver is unbound or not.
* Daemon, seen from the bridge: applies a command it acknowledges, may fail a
  request, may stop and start again with its defaults.  The controller comes and
  goes.  Uptime is what tells two runs apart; a daemon less than one second old at
  the last poll may restart unnoticed, which is excused.  A command of the audio
  mirror that gets no right answer may have been taken or not; without a device
  nothing is sent.
* The kernel's input events: a frame (up to `EV_SYN`) holds any changes, one of each
  button or axis, the axes named before the buttons, as a report of the controller
  gives them.  They happen at once, but the release of the wheel's button comes before the presses of
  its frame and picks what the stick pointed to before.  Time is that at which the reader
  consumes a frame, which is what it stamps; the delay of the stream is left out.
* Files: a write is torn only by a crash; writes that throw are not modelled.  The
  files were written by this version.
* Electron: calls of one renderer arrive in order and are answered in any order.
  In `GameSettings` queued microtasks run before the next event (`Quiet`).

## 5. Proofs

TLAPS checks every theorem for all values of the constants that satisfy the named
assumptions; no step is left out.  Each inductive invariant was first checked by
TLC on the constants of its run.

| Module | Theorem | Says of every behaviour of the component's `Spec` |
|---|---|---|
| `VdsHcdProofs` | `TypeCorrect` | `TypeOK` |
| | `PlaceCorrect` | `OnePlace`: each context on the one list its state names |
| | `StaleCorrect` | `StaleDeviceIsFlagged` |
| | `AudioCorrect` | `AudioFlagSettles` |
| | `DeferredCorrect` | `DeferredIsRequested` |
| `VdsHcdCompletionProofs` | `ReportsCorrect` | `NoReportWaits` |
| | `OrderCorrect` | `CompletionOrder` |
| | `PacedCorrect` | `Paced` |
| | `ReportOrderCorrect` | `HidInInOrder` |
| | `ServiceImplemented` | `ServiceSafe`: VdsHcd implements `UrbService!SafeSpec` |
| `GameSettingsProofs` | `OwnedCorrect` | `SelectedIsOwned` |
| | `CrashCorrect` | `CrashSafe` |
| | `GlobalsCorrect` | `GlobalsComeBack` |
| | `ScopeCorrect` | `ScopeConverges` |
| `TriggerEngineProofs` | `PinCorrect` | `PinHolds` |
| | `StoreCorrect` | `EngineFollowsStore` |
| | `ResetCorrect` | `NoWriteAfterReset` |
| | `PadCorrect` | `PadIsCurrent` |
| | `OutsideCorrect` | `OutsideAgrees` |
| | `ProfilesCorrect` | `ProfilesHold`, of `TriggerProfileFiles` |
| `SettingsStoreProofs` | `ReferencesCorrect` | `ReferencesHold` |
| | `RestartCorrect` | `RestartIsInvisible` |
| | `ListsCorrect` | `ListsKept` |
| `CompanionProofs` | `RequestsCorrect` | `RequestsMatch` |
| | `MirrorCorrect` | `MirrorMatches` |
| | `UpdateCorrect` | `UpdateSafe` |
| | `SwitchCorrect` | `SwitchIsInvisible` |
| | `ShortcutsCorrect` | `ShortcutsMatch`, by `ShortcutProofs` |
| `BridgeProofs` | `EngineCorrect` | `MirrorStops`, of `BridgeSession` |

`VdsHcdProofs` proves of the completion queue too, for any contexts and deadlines, that
insertion keeps what was queued, adds what is new and nothing else, makes no
duplicate (`QueueGivebackMembers`) and keeps the order (`QueueGivebackOrder`).

### Host controller

`IInv` is the base of all that follows.  `OnePlace` alone is not inductive: an
action that parks a context must know that its handler is still inside
`vds_urb_enqueue`, that a context with the giveback thread is on no list, and that
lists have no duplicates.  The unlink race of section 6 is outside `Spec`.

* *Port.*  `StaleDeviceIsFlagged` is inductive.  `AudioFlagSettles` is not, since
  device and flag are written in different critical sections: `HandlerInv` adds
  that one change of configuration or alternate setting is handled at a time (the
  caller of usbcore waits for its end), and `AltInv` what the alternate setting is
  while the flag has still to follow it.  `DeferredIsRequested` needs `LinkInv`: no
  URB is of a connection to come, a connected port is known to `vds_release` by its
  flag, and nothing waits in a driver that was stopped.
* *Order.*  `WaitInv`: a URB that waits, or whose handler has not decided yet, has
  no deadline.  `DueInv`: no deadline of a periodic endpoint is beyond the one the
  endpoint keeps (`next_hid_in_ready`, `next_iso_out_ready`, `next_iso_in_ready`),
  so the next is at least an interval later.  `ReportInv` relates the numbers of
  the reports that URBs carry to their deadlines, to the handlers under way and
  to the report still buffered.
* *Refinement.*  The mapping hides everything but accepted, unlinked and returned
  URBs.  `ServiceInv` adds that a URB unlinked in time carries the result
  `UNLINKED` from then on, and any other one a result of its handler.  Each action
  is then a step of `UrbService` (submission, unlink, giveback) or one its
  callers do not see.

Assumed: `BoundsAssumption` (intervals are positive numbers), `RequestsAssumption`
(the requests are well formed) and `DistinctAssumption` (null is no URB and no report).

### Game settings

`GInv` relates the chain of jobs, the job that is suspended at a round trip
(`run`), the restore point in memory and on disk, and what is selected.  None of the four
properties is inductive, because most of them speak of the coordinator at rest:

* `ChainInv`, `RunInv`: at which await which kind of job can stand.
* `RestoreInv`: the restore point and the state file agree and name selections of
  the user, and exist whenever a game's profile is selected, applied or being
  applied.  `BackInv` says what a job that restores has put back so far,
  `RejectInv` that without a rejection a restore point is kept only for a job to come.
* `OwnInv`, `ScopeInv`: a selected profile of a game exists, and is that of the game
  whose turn it is at this point of the running job.
* `ConvergeInv`: unless a job that applies the target anew is queued, the running
  job leaves the target applied.  `PickInv` says the same of what is selected in
  each list.

Assumed: `GameSettingsAssumption` (games and the user's profiles are disjoint, null is neither).

### Trigger engine

The argument is about `Rest`, the jobs that have not begun.  `Reaction` says of
every handler and timer what it queues, so that the proof about jobs need not look
at the handlers, nor that about handlers at the jobs.

* `SafeInv`: an effect is being written to an engine that is off or suspended only
  with a reset in `Rest`.
* `InputInv`, `ResetInv`: a job that will apply an old input or reset a live
  engine is followed by one that applies what is wanted.
* `AppliedInv`: what is wanted is what was written last, or is being written, or a
  job in `Rest` will write it.  `PadInv` ties the controller to what was written
  last; `ToldInv` and `FileInv` do for the status and the state file what
  `AppliedInv` does for the effects.
* `StoreInv`: a game without a profile file had it deleted.

Assumed: `TriggerEngineAssumption`, and `NullAssumption`: null is none of the
records and numbers the engine keeps where null can stand.

### Profile files

`ProfilesHold` is proved for any names, words and number of overlapping
operations.  It speaks of the moment after an operation, so `ProfilesInv` says what
each stage between two awaits has already done:

* `QuietInv`: unless operations overlapped, one is under way at most, the list it
  began with is still the renderer's, and the list it read back is that of the
  files.  The profile it will write or remove is the one its identifier has on disk,
  if any (`Own`).
* `KeptInv`: whatever overlaps, only an identifier the renderer chose can lose a
  profile.  What the main process writes has an identifier that no file has
  (`ImportedIs`), because among one number more than there are names one is free
  (`NumberFree`), or is the file it has just read.
* `CalmInv`: a listed profile is a draft, has a file, or has just lost it to the
  operation that will leave it out (`Leaving`); no file has a draft's identifier.

Assumed: `ProfileNames` (names are sequences of words, and each word is written as
one; the words the program itself uses are among them).

### Settings store

`StoreInv` says three things.  `Normal`: the live settings and the snapshot are
what `normalizeSettings` makes of any settings.  `Agrees`: what is in force is what the
selected profiles hold.  `FileInv`: the file holds both, or it was not readable and
memory has the defaults.

* Normal settings are a fixed point of the normalisation (`NormalIsFixed`), so
  reading them back changes nothing.  For the chords this is a statement about a
  recursive function: `ResolvingFacts` proves by induction that it keeps only
  chords whose function exists, and all of them if every function does.
* The library's induction theorems cannot be used here, so `Induction` states the
  principle for a set instead of a predicate; it follows from the least element
  that a set of numbers has.
* Each operation has one lemma: it keeps `StoreInv` and changes or drops no
  profile but its own.  The store normalizes twice in most operations;
  `NormalizeKeeps` says that this leaves the fields of the lists alone as soon as
  Default is there and the selected ids exist.

Assumed: `StoreAssumption` (Default and "custom" are different ids, and no id that is made
or cut is either of them).

### Requests, mirror, updates and persona

Each has an inductive invariant of its own in `CompanionProofs`:

* `TransportInv`: a call that is open was not settled, any other was settled once,
  with its own answer or a failure; what the helper or the daemon reports as done
  was done; after the helper's close nothing is open.  `DiscoveryInv` is the same for
  the lookups, and adds `WorkersKnown`: whoever can still report an exit is the
  present worker, unless it was forked too early.
* `MirrorInv`: whoever plays is the engine's process, which plays `active`
  (`Engine`); nothing is started or waited for without a source (`NamesSource`); what
  runs or waits to be started is what is to play, unless a call is about to look again or
  something was overtaken (`WantedStarts`); and the firmware is as flag and settings
  say, or a command went unheard, or a call is on its way to tell it (`FirmwareTold`).
* `UpdateInv`: the old version is only in the file that is started, which no
  download writes (`OldAlone`); with one start at a time a verified temporary
  file is whole (`OneStart`); a new version is never replaced by the old one
  (`NoDowngrade`); and no hash is recorded that is ahead of the running version.
  The last two are what keeps an installer that outlives its process, and a
  launch after it, from making a recorded hash wrong.

* `PersonaInv`: a device on its way to another persona is hidden by a transition
  that is not complete (`LeavingHides`), and the persona it was told is the one
  stored (`WantsSetting`).  While every loss was shown, a controller that counts as
  connected is there or on its way, and so is one that a poll has read and not yet
  shown (`LossesShown`).  The output is the bridge, or its restoration names the
  persona the device was told (`OutputReturns`).  Each part stands only as long as
  none of its excuses was recorded, as `SwitchIsInvisible` has it.

Assumed: `VersionsDiffer` (the release is another version than the installed one),
`PersonasNamed` (no persona is called "none") and `SourcesNamed` (no source of sound is
called "off").

### Shortcuts

`ShortcutProofs` proves `ShortcutFlow` for any buttons, lists of chords, functions, keys
and bounds; `CompanionProofs` takes its theorem over for the instance in `CompanionParts`.
The conjuncts of `Inv`:

* `PlacesInv`: a press is in exactly one of six stages (waiting in the daemon, with a
  poll, queued, running, run, given up), once.  An action moves at most one event from
  one stage to the next; a full daemon, a new list or a failed request gives it up.
* `OrderInv`: unless the polls have crossed, what is run, running, queued, with a poll
  and waiting is in the order of the presses.
* `VersionsInv` and `MeantInv`: lists have the same number only if they are the same,
  and an event with the number of the present list names the chord that was pressed.
  This is where edits that wait to be sent come in: the daemon's list is the present
  one or has an earlier number.
* `SettingsInv`: the settings are those after the last function run, and a command
  under way stores what its function makes of them, because no other function starts
  before it has ended.
* `InputInv`, `SpawnInv`: a button that made a chord is consumed while it is held; the
  arguments of the process release what they press, in reverse.

Assumed: `ShortcutConstants` (every chord names a function, and none is called "").

### Bridge

`EngineCorrect` is proved for any groups of commands and bounds, over the programs
of all operations.  `MirrorStops` speaks of a settled app; `IInv` says what holds
on the way there:

* `ProgramsInv`: in what a task has still to do, every step that may turn audio
  haptics off (a store of an update that is not `Harmless`, the end of a reapply) is
  followed by one that brings the engine in line (`ProgramOK`).  `OperationsOK` shows
  it of each operation, with any arguments; `FollowOK`, that leaving out commands of other
  groups keeps it, by the induction of the settings store's proof.
* `QueueInv`: each command in the queue is the one its task waits for, so no task
  goes on twice; `PollInv`: the poll has commands to send and then its end, or
  nothing, so it never holds a step for the engine.
* `ReapplyInv`: while a reapply counts as under way, one of them will still reach its
  end.  That is what `engineUnlessReapplying` relies on when it leaves the engine alone.
* `EngineInv`: the engine runs although it should not only if some task has such a
  step left, or one that had it failed or its push was left out.

A push adds the steps of `applyCurrentSettings` to a task, so `ProgramOK` is shown
closed under concatenation.  That the restart of a daemon must keep the excuse of the engine came
out of this proof: no behaviour within the bounds of the run shows it.

Assumed: `WatchedAssumption` (the commands of a group are commands).

### Only model-checked

* Liveness (`Settles` of games, engine and bridge, `TeardownEnds`,
  `DeferredGetReturns`, the live part of `ServiceSpec`): fairness is beyond TLAPS.
* The invariants of the other parts of the companion: `ControllerMatches` of the
  bridge, those of `MCCompanion` (`WireAgrees`,
  `ChordsAgree`, `InputTracked`) and of `MCTriggers` (`RendererAgrees`).
  The state of most of them is small and their data has fixed bounds, and `WireAgrees` and the drafts of `RendererAgrees` evaluate the operators they
  are about on tables of values, where TLC says as much as a proof would.
* `ControllerMatches` runs programs that are sequences of commands, one per
  operation of the bridge; that a program leaves what it should is induction over
  its steps.
* Two violation runs of the host controller concern `NoUseAfterGiveback` and
  `RacySpec`; what they refute has no theorem.

## 6. Findings

Violation runs, each a property quoted from the code's comments:

* `hcd_failed_defer`: `vds_usb_core.c:399`.  A GET_REPORT is on the pending list
  before its frame is queued; a reply may complete it, and the failing enqueue
  then hands the freed context on.
* `hcd_unlink_race`: `vds_hcd_core.c:226`.  A URB unlinked inside
  `vds_urb_enqueue` is put on a second list.
* `games_toggle`: `game-settings-coordinator.ts:197`.  Toggling the scope of
  a game without profiles selects Default for good.

Sequences that passing properties excuse (`excused`, `overtaken`, ... in the
modules), all behaviours of the code:

* Bridge (`ControllerMatches`): a daemon that restarts during a reapply counts as
  reapplied; a reapply sends its old copy over a newer setting; switching the
  microphone off during a reapply leaves it unmuted; a value that is pushed while
  the state is "error" is skipped; power saving that changes during a reapply
  leaves uncapped values; a poll notes whether power saving is active by the
  settings it began with after a switch has pushed newer ones, and the next change
  is taken for none; power saving switched while the state is "error" is stored
  but not noted, so that a command sent meanwhile is capped and switching back
  pushes nothing (this takes four calls and a failed request, more than the run's
  bounds); restoring defaults sends nothing; the lightbar's override
  switched off while the lightbar is off; two reapplies overlap after the
  transport was lost; the gain raised from off leaves the audio engine as it was.
* Persona (`SwitchIsInvisible`): a close that lists devices after a poll reopened
  the bridge; a poll that keeps a status across an unplug; a restoration in flight
  that drops a newer one; a second switch before the first was seen.
* Shortcuts: an event fetched before the list changed runs what has its number in
  the new list; the two polls may cross.
* Mirror, the engine (`overtaken`): an update that arrives while another waits between stop
  and start is overtaken by it; `setHapticsEnabled` stores before its command, and
  when that fails the engine stays as it was; a poll without a controller notes so only
  after its stop, and a call made meanwhile starts the engine again.
* Mirror, the firmware (`unheard`): `systemAudioHapticsPassthroughActive` changes before
  the command (`bridge-service.ts` 3407, 3424, 3469, 3485), so that a failing command leaves
  flag and firmware apart; at 3425 it also stops the engine that was just started (3428).
  The flag falls without a word when the device is closed or the controller gone; settings
  that end the wish for sound may be stored without a command; a reapply or power saving sends the
  settings it began with; a daemon that restarted has not been told.
* HID lookups: a worker forked before its predecessor's exit is
  reported is orphaned.  Update: two starts write one temporary file.
* Trigger input: a frame lost with the event stream, or while a draft is shown; a profile
  that changes while buttons are held, or while the reader's copy is behind; a profile with
  nothing but a wheel is not followed.
* Trigger profiles: two operations that overlap merge stale lists; a profile named
  "Engine State" overwrites `engine-state.json`; Delete on an unsaved copy of a
  game's profile saves it; a profile without `meta.game` is deleted although the
  user keeps its effects.
* Screen (`ScreenAgrees` of `SettingsScreen`): a slider held again before its last value was answered
  jumps back ("overlap"); a value let go while an action is under way is dropped, as
  is a button mapping chosen then, which the page shows nevertheless ("busy",
  "dropped"); a cap that came meanwhile ("capped"); a request that never reached
  the controller ("refused"); a volume that changes while another settles
  ("settling"); the black of a lightbar that is off becomes the user's own colour
  ("dark"); a poll that read the colour before it was changed ("stale").
* Chords page (`ChordsAgree`): an edit made before the last one was answered is made
  in the old lists and undoes it, as does the click that ends the typing of a step;
  a row whose button is chosen when the list has just become full vanishes
  ("overlap"); a function beyond the 64th is dropped by the store ("full").
* Protocol: vibration without a frequency is sent as 0, which the daemon refuses;
  rumble above 400 % is cut by the daemon; the keys of the number pad have no
  keysym on Linux.

## 7. Not modelled

* `vdsd` (its epoll loop, ports, audio queue, Bluetooth) and the Windows drivers:
  the module and the companion are modelled up to their interfaces with it.  The
  conversion of reports and packing of audio is arithmetic on byte arrays.
* `vds_read` with an unreadable user buffer, `VDS_IOC_GET_STATUS`, poll readiness.
* Isochronous packets inside a URB; suspend; the contents of reports that nothing
  looks at.
* Display names of controller profiles, migration of an old data directory,
  window placement, artwork, the search for installed games, the firmware copy:
  sequential file and window handling.
* Packaging and shell scripts.

Simplifications within what is modelled, about which the runs say nothing:

* `GameSettings.Pick`: `applyPreset('custom')` (`bridge-service.ts` 3103), which brings
  back the lists of the snapshot while a game is applied; the user interface does not offer it.
* `TriggerEngine.Crash`: a start with a running game queues two jobs that apply the
  base effects, the model one.  `ResetAdapt`: the reset of the controller and the
  resume that follows are one step.
* `UpdateFlow.Launch`: what an installer that outlived its process does is settled at the
  next launch; the detached one of `setup-service.ts` 64 may finish later.
* `PersonaSwitch.PollReads`: a transition is complete at the first status of the new
  persona; the settling period of `advanceHostPersonaTransition` (`bridge-service.ts`
  1843-1863) is left out.
* `ShortcutFlow`: level and flag change by shortcuts only.  A change of the stepped
  setting in the window meanwhile, and `toggle-audio-haptics`, which stores although its command
  failed (`bridge-service.ts` 2471-2495), are left out.
* `TriggerProfileFiles.Uniq`: a file that `list()` skips because it is invalid could be
  overwritten by an import; there are no such files in the model.
