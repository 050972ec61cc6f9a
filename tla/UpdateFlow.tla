----------------------------- MODULE UpdateFlow -----------------------------
(***************************************************************************)
(* Updating and setting up the companion: main/update-service.ts with its  *)
(* handlers in main.ts, the toast and the setup wizard.                    *)
(*                                                                         *)
(* An update replaces the AppImage the program runs from: a download into  *)
(* a hidden file beside it, a check of its sum, a rename.  The kernel      *)
(* module is rebuilt by the next launch, which runs the new version, when  *)
(* the hash of its bundled sources is not the recorded one.  The process   *)
(* may be killed at any point; the toast shows a phase a little later than *)
(* the service enters it, so a button may be pressed twice.                *)
(***************************************************************************)
EXTENDS Integers, FiniteSets

CONSTANTS
    Old, New,    \* versions: the installed one and the release
    MaxKills     \* bound: kills of the process

VARIABLES
    disk,        \* [target, temp]: the files at the two paths
    content,     \* content[f]: what file f holds, and which start writes it
    starts,      \* UpdateService.start calls: [pc, file]
    running,     \* the version this process runs
    check,       \* where the update:check of this launch is
    phase,       \* UpdateService.state.phase, and retry of a failed one; "busy"
                 \* stands for the three without buttons
    toast,       \* the phase the renderer shows
    pending,     \* UpdateService.pending # null
    installs,    \* installers that run, by who started them
    wizard,      \* the setup window: the screen, or "closed"
    driver,      \* version of the installed kernel module, or "none"
    stored,      \* settings: the recorded hash, skipped versions, setupSkipped
    changed,     \* the release changes the sources of the module
    overlapped,  \* history: two starts of this process ran at once
    kills

vars == <<disk, content, starts, running, check, phase, toast, pending, installs, wizard,
          driver, stored, changed, overlapped, kills>>

-----------------------------------------------------------------------------
Starts == {1, 2}            \* bound: start calls of one process
Files == 0..2               \* the first AppImage, one for each start
None == 3                   \* no file at the path
Idle == [pc |-> "idle", file |-> 0]

\* moduleSourceHash of the sources bundled with a version.
Hash(v) == IF v = New /\ changed THEN "hash2" ELSE "hash1"
Active(t) == starts[t].pc # "idle"
Whole(f) == content[f].holds \in {Old, New}

\* shouldShowSetupWizard, isSetupNeeded: an installed module may not be loaded, or
\* its service not run.
Wizard(d) ==
    IF stored.setupSkipped THEN {"closed"}
    ELSE IF d = "none" THEN {"welcome"} ELSE {"welcome", "closed"}

Init ==
    /\ disk = [target |-> 0, temp |-> None]
    /\ content = [f \in Files |-> [holds |-> IF f = 0 THEN Old ELSE "empty", by |-> 0]]
    /\ starts = [t \in Starts |-> Idle]
    /\ running = Old /\ check = "due" /\ phase = "idle" /\ toast = "idle" /\ pending = FALSE
    /\ installs = {} /\ changed \in BOOLEAN
    /\ driver \in {Old, "none"}
    /\ \E h \in {"", "hash1"} : stored = [hash |-> h, skipped |-> FALSE, setupSkipped |-> FALSE]
    /\ wizard \in Wizard(driver)
    /\ overlapped = FALSE /\ kills = 0

\* What a file held is forgotten once no path and no start leads to it.
Forget(c, d, s) ==
    [f \in Files |-> IF f \in {d.target, d.temp} \/ \E t \in Starts : s[t].pc # "idle" /\ s[t].file = f
                    THEN c[f] ELSE [holds |-> "empty", by |-> 0]]

Unowned == UNCHANGED <<running, changed, kills>>
Wizards == UNCHANGED <<wizard, installs, driver>>
Downloads == UNCHANGED <<disk, content, starts, overlapped>>

-----------------------------------------------------------------------------
(* The setup wizard.  Closing its window, by a button or by the window      *)
(* manager, opens the main window; an installer it started goes on.         *)

Installs(who) == installs' = installs \cup {who}

Review ==
    /\ wizard = "welcome" /\ wizard' = "review"
    /\ UNCHANGED <<installs, driver, stored, check, phase, toast, pending>>
    /\ Downloads /\ Unowned

StartInstall ==
    /\ wizard \in {"review", "error"} /\ wizard' = "progress"
    /\ Installs("wizard")
    /\ UNCHANGED <<driver, stored, check, phase, toast, pending>> /\ Downloads /\ Unowned

Close(skipped) ==
    /\ wizard' = "closed" /\ stored' = [stored EXCEPT !.setupSkipped = skipped]
    /\ UNCHANGED <<installs, driver, check, phase, toast, pending>> /\ Downloads /\ Unowned

Skip == wizard \in {"welcome", "review", "error"} /\ Close(TRUE)
Finish == wizard = "done" /\ Close(FALSE)
Dismiss == wizard # "closed" /\ Close(stored.setupSkipped)

\* The installer ends; when it fails, the module may be the new one already.  The
\* wizard takes one of its failures, a reboot that is required, for an end.
Exit(ok, v) ==
    /\ driver' \in (IF ok THEN {v} ELSE {driver, v})

WizardInstallEnds(ok) ==
    /\ "wizard" \in installs /\ installs' = installs \ {"wizard"}
    /\ Exit(ok, running)
    /\ wizard' \in IF wizard # "progress" THEN {wizard}
                   ELSE IF ok THEN {"done"} ELSE {"error", "done"}
    /\ UNCHANGED <<stored, check, phase, toast, pending>> /\ Downloads /\ Unowned

-----------------------------------------------------------------------------
(* update:check, once in a launch, and update:rebuild.                      *)

\* decideRebuild: nothing to do, record the hash, or run the installer.
Rebuild(recorded) ==
    CASE driver = "none" \/ recorded = Hash(running) -> "not-needed"
      [] recorded = "" /\ driver = running -> "adopt"
      [] OTHER -> "rebuild"

\* rebuildIfNeeded up to the installer, for who; "" has the gate look again.
RebuildIfNeeded(who, recorded, then) ==
    LET outcome == Rebuild(recorded)
    IN  IF outcome = "rebuild"
        THEN /\ Installs(who) /\ phase' = "busy"
             /\ UNCHANGED <<stored, check>>
        ELSE /\ stored' = IF outcome = "adopt" THEN [stored EXCEPT !.hash = Hash(running)] ELSE stored
             /\ check' = then
             /\ UNCHANGED <<installs, phase>>

\* The window is open: leftovers of a killed process go first.
CheckBegins ==
    /\ check = "due" /\ wizard = "closed"
    /\ disk' = [disk EXCEPT !.temp = None]
    /\ RebuildIfNeeded("check", stored.hash, "fetching")
    /\ content' = Forget(content, disk', starts)
    /\ UNCHANGED <<toast, pending, starts, overlapped, wizard, driver>> /\ Unowned

RecordsAnywayMutant(ok) == [stored EXCEPT !.hash = Hash(running)]
Records(ok) == IF ok THEN [stored EXCEPT !.hash = Hash(running)] ELSE stored

RebuildEnds(who, ok) ==
    /\ who \in installs /\ who # "wizard" /\ installs' = installs \ {who}
    /\ Exit(ok, running)
    /\ stored' = Records(ok)
    /\ phase' = IF ok THEN "idle" ELSE "failed rebuild"
    /\ check' = IF who # "check" THEN check ELSE IF ok THEN "fetching" ELSE "done"
    /\ UNCHANGED <<toast, pending, wizard>> /\ Downloads /\ Unowned

\* decideUpdate of what was fetched: nothing (no answer, no release, not due), or
\* the release if it is newer and not skipped.  "readonly" stands for "notify", too.
CheckEnds ==
    /\ check = "fetching" /\ check' = "done"
    /\ \E found \in BOOLEAN, replaceable \in BOOLEAN :
          /\ found => running = Old /\ ~stored.skipped
          /\ pending' = found
          /\ phase' = IF ~found THEN "idle" ELSE IF replaceable THEN "offer" ELSE "readonly"
    /\ UNCHANGED <<toast, stored>> /\ Wizards /\ Downloads /\ Unowned

-----------------------------------------------------------------------------
(* The toast.                                                               *)

Shown ==
    /\ toast # phase /\ toast' = phase
    /\ UNCHANGED <<check, phase, pending, stored>> /\ Wizards /\ Downloads /\ Unowned

SkipVersion ==
    /\ toast = "offer" /\ toast' = "idle"
    /\ stored' = [stored EXCEPT !.skipped = TRUE]
    /\ UNCHANGED <<check, phase, pending>> /\ Wizards /\ Downloads /\ Unowned

RemindLater ==
    /\ toast \in {"offer", "restart", "failed download", "failed rebuild", "readonly"}
    /\ toast' = "idle"
    /\ UNCHANGED <<check, phase, pending, stored>> /\ Wizards /\ Downloads /\ Unowned

TryRebuild ==
    /\ toast = "failed rebuild"
    /\ "retry" \notin installs /\ RebuildIfNeeded("retry", "", check)
    /\ UNCHANGED <<toast, pending, driver, wizard>> /\ Downloads /\ Unowned

-----------------------------------------------------------------------------
(* start: download, verify, swap.                                           *)

\* The download opens the file at the temporary path and empties it.
Begin(t) ==
    /\ toast \in {"offer", "failed download"} /\ pending
    /\ ~Active(t) /\ \A u \in Starts : u < t => Active(u)
    /\ phase' = "busy"
    /\ LET f == IF disk.temp = None THEN CHOOSE g \in Files : g # disk.target
                                         /\ \A u \in Starts : Active(u) => starts[u].file # g
                ELSE disk.temp
       IN  /\ disk' = [disk EXCEPT !.temp = f]
           /\ starts' = [starts EXCEPT ![t] = [pc |-> "downloading", file |-> f]]
           /\ content' = Forget([content EXCEPT ![f] = [holds |-> "part", by |-> t]], disk', starts')
    /\ overlapped' = (overlapped \/ \E u \in Starts \ {t} : Active(u))
    /\ UNCHANGED <<check, toast, pending, stored>> /\ Wizards /\ Unowned

\* All bytes are in the file, unless another start emptied it meanwhile.
Downloaded(t) ==
    /\ starts[t].pc = "downloading"
    /\ starts' = [starts EXCEPT ![t].pc = "verifying"]
    /\ content' = IF content[starts[t].file].by = t
                  THEN [content EXCEPT ![starts[t].file].holds = New] ELSE content
    /\ phase' = "busy"
    /\ UNCHANGED <<disk, overlapped, check, toast, pending, stored>> /\ Wizards /\ Unowned

\* The sum of the file at the temporary path is compared.
HashedUnverifiedMutant(t) == "hashed"
Hashed(t) == IF disk.temp # None /\ content[disk.temp].holds = New THEN "hashed" ELSE "failing"

Verified(t) ==
    /\ starts[t].pc = "verifying"
    /\ starts' = [starts EXCEPT ![t].pc = Hashed(t)]
    /\ UNCHANGED <<disk, content, overlapped, check, phase, toast, pending, stored>>
    /\ Wizards /\ Unowned

Swap(t) ==
    /\ starts[t].pc = "hashed"
    /\ starts' = [starts EXCEPT ![t] = Idle]
    /\ IF disk.temp = None THEN UNCHANGED disk /\ phase' = "failed download"
       ELSE disk' = [target |-> disk.temp, temp |-> None] /\ phase' = "restart"
    /\ content' = Forget(content, disk', starts')
    /\ UNCHANGED <<overlapped, check, toast, pending, stored>> /\ Wizards /\ Unowned

\* The connection breaks, the download stalls, a sum does not fit, the disk is
\* full: the file at the temporary path is removed.
Fails(t) ==
    /\ Active(t)
    /\ starts' = [starts EXCEPT ![t] = Idle]
    /\ disk' = [disk EXCEPT !.temp = None]
    /\ phase' = "failed download"
    /\ content' = Forget(content, disk', starts')
    /\ UNCHANGED <<overlapped, check, toast, pending, stored>> /\ Wizards /\ Unowned

-----------------------------------------------------------------------------
(* A new process: after a kill, the user's restart or a quit.  Installers   *)
(* run on their own but their outcome is lost.                              *)
Launch ==
    /\ Whole(disk.target)
    /\ \/ toast = "restart" /\ UNCHANGED kills
       \/ kills < MaxKills /\ kills' = kills + 1
    /\ running' = content[disk.target].holds
    /\ starts' = [t \in Starts |-> Idle]
    /\ check' = "due" /\ phase' = "idle" /\ toast' = "idle" /\ pending' = FALSE
    /\ installs' = {}
    /\ driver' \in IF installs = {} THEN {driver} ELSE {driver, running}
    /\ wizard' \in Wizard(driver')
    /\ content' = Forget(content, disk, starts')
    /\ overlapped' = FALSE
    /\ UNCHANGED <<disk, stored, changed>>

Next ==
    \/ Review \/ StartInstall \/ Skip \/ Finish \/ Dismiss
    \/ \E ok \in BOOLEAN : \/ WizardInstallEnds(ok)
                           \/ \E who \in installs : RebuildEnds(who, ok)
    \/ CheckBegins \/ CheckEnds
    \/ Shown \/ SkipVersion \/ RemindLater \/ TryRebuild
    \/ \E t \in Starts : Begin(t) \/ Downloaded(t) \/ Verified(t) \/ Swap(t) \/ Fails(t)
    \/ Launch

Spec == Init /\ [][Next]_vars

-----------------------------------------------------------------------------
\* The AppImage can be started at any time, whatever was killed or failed,
\* unless two starts wrote the same temporary file at once (update-service.ts
\* start, appimage-updater.ts swapInPlace).
TargetWhole == Whole(disk.target) \/ overlapped

\* A recorded hash of the sources this version bundles means that the installed
\* module was built from them (update-service.ts rebuildIfNeeded).
DriverCurrent ==
    stored.hash = Hash(running) /\ driver # "none" => Hash(driver) = Hash(running)

UpdateSafe == TargetWhole /\ DriverCurrent
=============================================================================
