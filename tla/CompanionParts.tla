--------------------------- MODULE CompanionParts ---------------------------
(***************************************************************************)
(* Parts of the companion's main process that do not influence each other: *)
(* updates, the two transports, the lookup of devices, the audio haptics,  *)
(* the switch of persona and the shortcuts.  Each has its own variables.   *)
(***************************************************************************)
CONSTANTS Old, New, MaxKills, MaxCalls, MaxOpens, MaxLookups, MaxWorkers,
          Sources, Callers, MaxHelpers, HostPersonas, MaxSwitches, MaxLosses,
          PadStarters, PadButtons, Bindings, ShortcutFunctions, Switched, FirmwareEvents, KeyKinds,
          FirstLevel, TopLevel, MaxPending, MaxPresses, MaxEdits

\* A release has another version than the program it replaces.
ASSUME VersionsDiffer == Old # New /\ {Old, New} \cap {"none", "empty", "part"} = {}

\* No persona is called "none".
ASSUME PersonasNamed == "none" \notin HostPersonas

\* No source of sound is called "off".
ASSUME SourcesNamed == "off" \notin Sources

VARIABLES disk, content, starts, running, check, phase, toast, pending, installs, wizard,
          driver, stored, changed, overlapped, kills

Update == INSTANCE UpdateFlow

VARIABLES platform, opening, attempts, helper, closed, calls, lines, replies, sockets, applied

Transport == INSTANCE CompanionTransport

VARIABLES workers, worker, lookups, early

Discovery == INSTANCE HidDiscovery

VARIABLES wanted, link, process, starting, active, helpers, callers, passthrough, retrying,
          firmware, overtaken, unheard

Mirror == INSTANCE AudioMirror

VARIABLES usb, output, device, setting, status, state, transition, restore, connected, poll,
          closing, switching, switches, losses, toasts, excused

Persona == INSTANCE PersonaSwitch WITH calls <- switching, Personas <- HostPersonas

VARIABLES held, port, shown, chorded, daemon, chords, sending, polls, retry, queue, stepping,
          level, flag, blocked, spawned, presses, done, lost, crossed

Shortcut == INSTANCE ShortcutFlow WITH
    running <- stepping, Starters <- PadStarters, Buttons <- PadButtons, ChordLists <- Bindings,
    Functions <- ShortcutFunctions, Gated <- Switched, Shortcuts <- FirmwareEvents,
    KindOf <- KeyKinds, Start <- FirstLevel, Top <- TopLevel, MaxEvents <- MaxPending

ASSUME ShortcutConstants == Shortcut!ConstantsOK

-----------------------------------------------------------------------------
\* An update or a setup that fails, is killed or is repeated leaves a program that
\* can be started and a module that fits what is recorded of it; see UpdateFlow.
UpdateSafe == Update!UpdateSafe

\* A request gets its own answer, once; see CompanionTransport and HidDiscovery.
RequestsMatch == Transport!AnswersMatch /\ Discovery!LookupsMatch

\* One helper plays what is wanted, and the firmware does as it is told; see AudioMirror.
MirrorMatches == Mirror!MirrorMatches

\* A switch of persona is not taken for a lost controller and leaves the host's
\* output where it was; see PersonaSwitch.
SwitchIsInvisible == Persona!SwitchIsInvisible

\* Every shortcut pressed is run once, in order, as it was meant; see ShortcutFlow.
ShortcutsMatch == Shortcut!ShortcutsMatch
=============================================================================
