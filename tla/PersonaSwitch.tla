---------------------------- MODULE PersonaSwitch ----------------------------
(* The switch to another host persona in bridge-service.ts.  The bridge      *)
(* device leaves the USB and returns as another one; in the meantime its     *)
(* absence is masked, and the host's default output, which the host moves    *)
(* when the endpoint goes, is moved back.  Times are events that may come    *)
(* late: the deadlines pass when DeadlinePasses says so.                     *)
EXTENDS Integers, Sequences, FiniteSets

CONSTANTS
    Personas,
    Callers,      \* calls of setHostPersonaMode that may overlap
    MaxSwitches,  \* bound: switches
    MaxLosses     \* bound: unplugged bridges and controllers switched off

VARIABLES
    usb,          \* the device: [persona, wants, present, controller]
    output,       \* the default output is the bridge's endpoint
    device,       \* BridgeService.device is open
    setting,      \* settings.hostPersonaMode
    status,       \* snapshot.status: [persona, connected], NoStatus if null
    state,        \* snapshot.state
    transition,   \* hostPersonaTransition: [from, to, completed], NoTransition if null
    restore,      \* hostPersonaDefaultRenderRestore: [to, of, late], NoRestore if null
    connected,    \* previousControllerConnected: "unknown", "yes", "no"
    poll,         \* the poll under way: [pc, status, masked, restore]
    closing,      \* the close of the transport waits for the list of devices
    calls,        \* calls[c]: [pc, to, from, moves]
    switches, losses,  \* how many there were
    toasts,       \* how often "Controller disconnected" was shown
    excused       \* history: why the output may stay elsewhere or the mask may not fit

deviceVars == <<usb, output, losses>>
shownVars == <<status, state, connected, toasts>>
vars == <<usb, output, device, setting, status, state, transition, restore, connected, poll,
          closing, calls, switches, losses, toasts, excused>>

-----------------------------------------------------------------------------
NoStatus == [persona |-> "none", connected |-> FALSE]
NoTransition == [from |-> "none", to |-> "none", completed |-> FALSE]
NoRestore == [to |-> "none", of |-> 0, late |-> FALSE]
IdlePoll == [pc |-> "idle", status |-> NoStatus, masked |-> FALSE, restore |-> NoRestore]
IdleCall == [pc |-> "idle", to |-> "none", from |-> "none", moves |-> FALSE]

Init ==
    /\ setting \in Personas /\ output \in BOOLEAN
    /\ usb = [persona |-> setting, wants |-> setting, present |-> TRUE, controller |-> TRUE]
    /\ device = FALSE /\ status = NoStatus /\ state = "no-bridge" /\ transition = NoTransition
    /\ restore = NoRestore /\ connected = "unknown" /\ poll = IdlePoll /\ closing = FALSE
    /\ calls = [c \in Callers |-> IdleCall] /\ switches = 0 /\ losses = 0 /\ toasts = 0
    /\ excused = IF output THEN {} ELSE {"output"}

-----------------------------------------------------------------------------
(* The device and the host. *)

\* To take on the persona it was told, the device leaves and returns; the controller stays.
Leaves ==
    /\ usb.present /\ usb.wants # usb.persona
    /\ usb' = [usb EXCEPT !.present = FALSE] /\ output' = FALSE
    /\ UNCHANGED <<device, setting, shownVars, transition, restore, poll, closing, calls, switches,
                   losses, excused>>

Returns ==
    /\ ~usb.present
    /\ usb' = [usb EXCEPT !.present = TRUE, !.persona = usb.wants]
    /\ UNCHANGED <<output, device, setting, shownVars, transition, restore, poll, closing, calls,
                   switches, losses, excused>>

\* The bridge is unplugged, or the controller switched off or on.
Unplugged ==
    /\ usb.present /\ losses < MaxLosses /\ losses' = losses + 1
    /\ usb' = [usb EXCEPT !.present = FALSE] /\ output' = FALSE
    /\ excused' = IF output THEN excused \cup {"output"} ELSE excused
    /\ UNCHANGED <<device, setting, shownVars, transition, restore, poll, closing, calls, switches>>

ControllerChanges ==
    /\ usb.controller => losses < MaxLosses
    /\ losses' = IF usb.controller THEN losses + 1 ELSE losses
    /\ usb' = [usb EXCEPT !.controller = ~@]
    /\ UNCHANGED <<output, device, setting, shownVars, transition, restore, poll, closing, calls,
                   switches, excused>>

\* deadlineAt and reconnectingUntil have passed; a device still away is then reported.
DeadlinePasses ==
    /\ transition # NoTransition /\ transition' = NoTransition
    /\ excused' = IF transition.completed THEN excused ELSE excused \cup {"late"}
    /\ UNCHANGED <<deviceVars, device, setting, shownVars, restore, poll, closing, calls, switches>>

RestoreDeadlinePasses ==
    /\ restore # NoRestore /\ ~restore.late /\ transition = NoTransition
    /\ restore' = [restore EXCEPT !.late = TRUE]
    /\ UNCHANGED <<deviceVars, device, setting, shownVars, transition, poll, closing, calls,
                   switches, excused>>

-----------------------------------------------------------------------------
(* What is shown while the device is away. *)

\* noteControllerUnavailableForToasts.
NoteControllerUnavailable ==
    /\ toasts' = IF connected = "yes" THEN toasts + 1 ELSE toasts
    /\ connected' = "no"

\* applyHostPersonaTransitionSnapshot: a transition hides that the bridge is away.
UnmaskedMutant == FALSE
Masked == transition # NoTransition

\* markBridgeUnavailableAfterDisconnect.
MarkUnavailable ==
    IF Masked THEN state' = "transitioning" /\ UNCHANGED <<status, connected, toasts>>
    ELSE state' = "no-bridge" /\ status' = NoStatus /\ NoteControllerUnavailable

\* publishError, from a poll or from the device.
PublishError ==
    /\ device
    /\ state' = IF Masked THEN "transitioning" ELSE IF state = "no-bridge" THEN state ELSE "error"
    /\ UNCHANGED <<deviceVars, device, setting, status, transition, restore, connected, poll,
                   closing, calls, switches, toasts, excused>>

\* handleCompanionTransportClose: the devices are listed before the bridge is given up,
\* by then a poll may have opened it again and shown its status.
TransportCloses ==
    /\ device /\ ~usb.present /\ ~closing
    /\ device' = FALSE /\ closing' = TRUE
    /\ UNCHANGED <<deviceVars, setting, shownVars, transition, restore, poll, calls, switches,
                   excused>>

CloseListed ==
    /\ closing /\ closing' = FALSE
    /\ MarkUnavailable
    /\ excused' = IF device THEN excused \cup {"stale"} ELSE excused
    /\ UNCHANGED <<deviceVars, device, setting, transition, restore, poll, calls, switches>>

-----------------------------------------------------------------------------
(* The poll. *)

\* openAndReadStatus fails.
PollUnavailable ==
    /\ poll.pc = "idle" /\ ~usb.present
    /\ device' = FALSE /\ MarkUnavailable
    /\ UNCHANGED <<deviceVars, setting, transition, restore, poll, closing, calls, switches, excused>>

\* The status is read, and a transition whose persona it shows is completed
\* (advanceHostPersonaTransition).  The audio status and the traces are read next.
PollReads ==
    /\ poll.pc = "idle" /\ usb.present
    /\ device' = TRUE
    /\ LET seen == [persona |-> usb.persona, connected |-> usb.controller]
           arrived == Masked /\ transition.to = seen.persona
       IN  /\ transition' = IF arrived THEN [transition EXCEPT !.completed = TRUE] ELSE transition
           /\ poll' = [pc |-> "reading", status |-> seen, restore |-> NoRestore,
                       masked |-> Masked /\ ~arrived /\ ~transition.completed]
    /\ UNCHANGED <<deviceVars, setting, shownVars, restore, closing, calls, switches, excused>>

\* maybeEmitStatusToasts, then the snapshot; the bridge may have been given up in the meantime.
PollShows ==
    /\ poll.pc = "reading" /\ poll' = [poll EXCEPT !.pc = "shown"]
    /\ status' = poll.status
    /\ state' = IF poll.masked THEN "transitioning" ELSE "connected"
    /\ connected' = IF poll.status.connected THEN "yes" ELSE "no"
    /\ toasts' = IF connected = "yes" /\ ~poll.status.connected THEN toasts + 1 ELSE toasts
    /\ excused' = IF device THEN excused ELSE excused \cup {"stale"}
    /\ UNCHANGED <<deviceVars, device, setting, transition, restore, closing, calls, switches>>

\* restoreHostPersonaDefaultRenderIfReady: not before the persona is there, nor before its
\* transition is complete, nor after its deadline.
RestoreReady ==
    /\ restore # NoRestore /\ poll.status.persona = restore.to
    /\ ~(Masked /\ transition.to = restore.to /\ ~transition.completed)

PollEnds ==
    /\ poll.pc = "shown"
    /\ \/ ~RestoreReady /\ poll' = IdlePoll /\ UNCHANGED <<restore, excused>>
       \/ RestoreReady /\ restore.late /\ poll' = IdlePoll /\ restore' = NoRestore
          /\ excused' = excused \cup {"output"}
       \/ RestoreReady /\ ~restore.late /\ poll' = [poll EXCEPT !.pc = "restoring", !.restore = restore]
          /\ UNCHANGED <<restore, excused>>
       \/ RestoreReady /\ poll' = IdlePoll /\ UNCHANGED <<restore, excused>>  \* nextAttemptAt
    /\ UNCHANGED <<deviceVars, device, setting, shownVars, transition, closing, calls, switches>>

\* The output is set, if its endpoint is there; whatever restoration waits by then is
\* forgotten with it.
RestoreEnds ==
    /\ poll.pc = "restoring" /\ poll' = IdlePoll
    /\ \/ /\ usb.present /\ output' = (poll.restore.to = usb.persona) /\ restore' = NoRestore
          /\ excused' = IF restore.of # poll.restore.of THEN excused \cup {"output"} ELSE excused
       \/ UNCHANGED <<output, restore, excused>>
    /\ UNCHANGED <<usb, device, setting, shownVars, transition, closing, calls, switches, losses>>

-----------------------------------------------------------------------------
(* setHostPersonaMode. *)

Previous == IF status = NoStatus THEN setting ELSE status.persona

Switch(c, to) ==
    /\ calls[c].pc = "idle" /\ switches < MaxSwitches /\ switches' = switches + 1
    /\ calls' = [calls EXCEPT ![c] = [pc |-> IF Previous # to THEN "checking" ELSE "sending",
                                      to |-> to, from |-> Previous, moves |-> FALSE]]
    /\ UNCHANGED <<deviceVars, device, setting, shownVars, transition, restore, poll, closing,
                   excused>>

\* defaultRenderIsBridgeEndpoint; a check that fails says no.
Checked(c, works) ==
    /\ calls[c].pc = "checking"
    /\ calls' = [calls EXCEPT ![c].pc = "sending", ![c].moves = output /\ works]
    /\ excused' = IF output /\ ~works THEN excused \cup {"output"} ELSE excused
    /\ UNCHANGED <<deviceVars, device, setting, shownVars, transition, restore, poll, closing,
                   switches>>

\* SET_HOST_PERSONA, one call after the other.  A second switch before the output was
\* moved back finds it elsewhere, and one that returns to the persona last shown begins no
\* transition of its own.
Acknowledged(c) ==
    /\ calls[c].pc = "sending" /\ usb.present
    /\ usb' = [usb EXCEPT !.wants = calls[c].to]
    /\ setting' = calls[c].to
    /\ IF calls[c].from = calls[c].to
       THEN /\ calls' = [calls EXCEPT ![c] = IdleCall]
            /\ excused' = IF usb.wants = calls[c].to THEN excused ELSE excused \cup {"mask", "output"}
            /\ UNCHANGED <<restore, transition>>
       ELSE /\ calls' = [calls EXCEPT ![c].pc = "stopping"]
            /\ restore' = IF calls[c].moves
                          THEN [to |-> setting', of |-> switches, late |-> FALSE] ELSE NoRestore
            /\ transition' = [from |-> calls[c].from, to |-> setting', completed |-> FALSE]
            /\ excused' = IF restore # NoRestore \/ (~calls[c].moves /\ output)
                          THEN excused \cup {"output"} ELSE excused
    /\ UNCHANGED <<output, device, shownVars, poll, closing, switches, losses>>

\* The device may have done what it was told all the same.
CommandFails(c) ==
    /\ calls[c].pc = "sending"
    /\ calls' = [calls EXCEPT ![c] = IdleCall]
    /\ \/ UNCHANGED <<usb, losses, excused>>
       \/ /\ usb.present /\ usb' = [usb EXCEPT !.wants = calls[c].to]
          /\ excused' = excused \cup {"mask", "output"} /\ losses' = losses + 1
    /\ UNCHANGED <<output, device, setting, shownVars, transition, restore, poll, closing, switches>>

\* The haptics of the host's audio are stopped before the transition is shown.
Stopped(c) ==
    /\ calls[c].pc = "stopping" /\ calls' = [calls EXCEPT ![c] = IdleCall]
    /\ state' = IF Masked THEN "transitioning" ELSE state
    /\ UNCHANGED <<deviceVars, device, setting, status, transition, restore, connected, poll,
                   closing, switches, toasts, excused>>

Next ==
    \/ Leaves \/ Returns \/ Unplugged \/ ControllerChanges \/ DeadlinePasses \/ RestoreDeadlinePasses
    \/ PublishError \/ TransportCloses \/ CloseListed
    \/ PollUnavailable \/ PollReads \/ PollShows \/ PollEnds \/ RestoreEnds
    \/ \E c \in Callers :
          \/ \E to \in Personas : Switch(c, to)
          \/ Checked(c, TRUE) \/ Checked(c, FALSE) \/ Acknowledged(c) \/ CommandFails(c) \/ Stopped(c)

Spec == Init /\ [][Next]_vars

-----------------------------------------------------------------------------
\* A switch is not taken for a lost controller: "Controller disconnected" is shown once for
\* each bridge unplugged, controller switched off or device that did not return in time.
\* The transition shown leads to the persona that was stored last, and the host's default
\* output returns to the bridge: it is there, or its restoration waits, unless the user
\* switched again before it was done, or the deadline passed (bridge-service.ts
\* setHostPersonaMode, applyHostPersonaTransitionSnapshot, restoreHostPersonaDefaultRenderIfReady).
SwitchIsInvisible ==
    /\ toasts <= losses \/ excused \cap {"stale", "mask", "late"} # {}
    /\ transition # NoTransition => transition.to = setting \/ "mask" \in excused
    /\ output \/ restore # NoRestore \/ "output" \in excused
=============================================================================
