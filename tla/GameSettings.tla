---------------------------- MODULE GameSettings ----------------------------
(***************************************************************************)
(* Settings that follow the running game: main/game-settings-coordinator.ts *)
(* with the parts of bridge-service.ts, settings-store.ts and main.ts it    *)
(* works on.                                                               *)
(*                                                                         *)
(* The coordinator selects the profiles of the game that runs, or of the   *)
(* game the user edits, and puts the user's own selections back afterwards. *)
(* Its jobs run one at a time (enqueue), but each awaits a round trip to   *)
(* the bridge after every selection, and the user, the engine's status     *)
(* events, a deletion or a crash may come in between.                      *)
(***************************************************************************)
EXTENDS Integers, Sequences

CONSTANTS
    Games,          \* trigger profile ids; also the ids game:<id> they own
    None,           \* null
    UserIds,        \* ids of the user's own profiles, with Default among them
    Default,
    MaxEvents,      \* bound: steps of the user and of the engine
    MaxCrashes,     \* bound
    MaxRejects      \* bound: round trips to the bridge that fail

ASSUME GameSettingsAssumption ==
    /\ None \notin Games \cup UserIds /\ Games \cap UserIds = {} /\ Default \in UserIds
    /\ MaxEvents \in Nat /\ MaxCrashes \in Nat /\ MaxRejects \in Nat

VARIABLES
    selected,   \* what the settings file has selected: [ctl, remap]
    owned,      \* games that have a controller profile, games that have a remap profile
    disk,       \* restore in game-settings-state.json
    watched,    \* the game of the engine's status
    owed,       \* the engine has a status to emit
    triggers,   \* trigger profiles that exist
    active, editing, applied, restore,   \* fields of the coordinator
    chain,      \* its queued jobs, the running one first
    run,        \* what the running job waits for
    chosen,     \* history: what the user selected and a restore may bring back
    picked,     \* history: games whose profile in a list was not selected by the
                \* coordinator since the user chose another one there
    lost,       \* history: lists whose remembered selection the code has replaced
                \* with Default
    deleted,    \* history: games the user deleted
    events, crashes, rejects

coordinator == <<active, editing, applied, restore, chain, run>>
store == <<selected, owned>>
engine == <<watched, owed, triggers>>
history == <<chosen, picked, lost, deleted>>
bounds == <<events, crashes, rejects>>
vars == <<coordinator, store, disk, engine, history, bounds>>

-----------------------------------------------------------------------------
Lists == {"ctl", "remap"}
NoRestore == [l \in Lists |-> None]
Idle == [pc |-> "idle", goal |-> None, remapToo |-> FALSE]
Jobs == [kind : {"recover", "enter", "sync", "deleted"}, game : Games \cup {None}]
Job(kind, g) == [kind |-> kind, game |-> g]

\* selectControllerProfile, selectButtonRemappingProfile: an id without a
\* profile selects Default.
Resolved(list, id) == IF id \in UserIds \cup owned[list] THEN id ELSE Default
Sanitized(id) == IF id \in Games THEN Default ELSE id
SanitizedRestore(r) == [l \in Lists |-> Sanitized(r[l])]

HasGameSettings(g, own) == g \in own["ctl"]

\* The profile applyTarget wants selected.
TargetOf(ed, act, own) ==
    IF ed # None THEN ed
    ELSE IF act # None /\ HasGameSettings(act, own) THEN act ELSE None
Target == TargetOf(editing, active, owned)

Init ==
    /\ selected = [l \in Lists |-> Default]
    /\ owned = [l \in Lists |-> {}]
    /\ disk = NoRestore
    /\ watched = None /\ owed = FALSE /\ triggers = Games
    /\ active = None /\ editing = None /\ applied = None /\ restore = NoRestore
    /\ chain = <<Job("recover", None)>> /\ run = Idle
    /\ chosen = [l \in Lists |-> {Default}] /\ picked = [l \in Lists |-> Games]
    /\ lost = {} /\ deleted = {}
    /\ events = 0 /\ crashes = 0 /\ rejects = 0

-----------------------------------------------------------------------------
(* The running job.  Each of these ends at an await or ends the job.       *)

\* The end of a job; the handler of a deletion goes on before the next job.
Ends == run' = Idle /\ chain' = Tail(chain)
Done == IF Head(chain).kind = "deleted"
        THEN run' = [Idle EXCEPT !.pc = "removing"] /\ UNCHANGED chain
        ELSE Ends

\* Waiting for the round trip that follows a selection.
Await(pc, goal, remapToo) ==
    /\ run' = [pc |-> pc, goal |-> goal, remapToo |-> remapToo]
    /\ UNCHANGED chain

Select(list, id) ==
    /\ selected' = [selected EXCEPT ![list] = Resolved(list, id)]
    /\ picked' = [picked EXCEPT ![list] = @ \ {Resolved(list, id)}]
    /\ lost' = IF id \in Games /\ Resolved(list, id) = Default THEN lost \cup {list} ELSE lost

EndRestore ==
    /\ restore' = NoRestore
    /\ disk' = NoRestore
    /\ applied' = None
    /\ Done

RestoreRemap ==
    /\ Select("remap", restore["remap"])
    /\ Await("restoredRemap", None, FALSE)
    /\ UNCHANGED <<restore, disk, applied>>

\* applyRestorePoint: only selections that still name a game are put back.
BeginRestore ==
    LET remapToo == selected["remap"] \in Games
    IN  CASE restore # NoRestore /\ selected["ctl"] \in Games ->
                /\ Select("ctl", restore["ctl"])
                /\ Await("restoredCtl", None, remapToo)
                /\ UNCHANGED <<restore, disk, applied>>
          [] restore # NoRestore /\ selected["ctl"] \notin Games /\ remapToo -> RestoreRemap
          [] OTHER -> EndRestore /\ UNCHANGED <<selected, picked, lost>>

CaptureNowMutant == SanitizedRestore(selected)
CaptureRestorePoint == IF applied = None THEN SanitizedRestore(selected) ELSE restore

PersistLateMutant(r) == restore' = r /\ UNCHANGED disk

\* The restore point is written before the first selection.
Persist(r) == restore' = r /\ disk' = r

\* applyTarget with the fields the job just changed: ed for editing, act for active.
BeginApply(ed, act) ==
    LET target == TargetOf(ed, act, owned)
    IN  CASE target = applied -> Done /\ UNCHANGED <<selected, picked, lost, restore, disk, applied>>
          [] target # applied /\ target # None ->
                /\ Persist(CaptureRestorePoint)
                /\ Select("ctl", target)
                /\ Await("appliedCtl", target, FALSE)
                /\ UNCHANGED applied
          [] OTHER -> BeginRestore

Starting(kind) == run.pc = "idle" /\ chain # <<>> /\ Head(chain).kind = kind

RunRecover ==
    /\ Starting("recover")
    /\ IF restore # NoRestore /\ applied = None
       THEN BeginRestore
       ELSE Done /\ UNCHANGED <<selected, picked, lost, restore, disk, applied>>
    /\ UNCHANGED <<active, editing, owned, engine, chosen, deleted, bounds>>

RunSync ==
    /\ Starting("sync")
    /\ BeginApply(editing, active)
    /\ UNCHANGED <<active, editing, owned, engine, chosen, deleted, bounds>>

\* The enter job first makes the game's two profiles.
RunEnter ==
    /\ Starting("enter")
    /\ owned' = [l \in Lists |-> owned[l] \cup {Head(chain).game}]
    /\ Await("ensured", None, FALSE)
    /\ UNCHANGED <<active, editing, applied, restore, selected, disk, engine, history, bounds>>

RunEnsured ==
    /\ run.pc = "ensured"
    /\ BeginApply(editing, active)
    /\ UNCHANGED <<active, editing, owned, engine, chosen, deleted, bounds>>

RunDeletedKeepsScopeMutant ==
    /\ Starting("deleted")
    /\ Done
    /\ UNCHANGED <<active, editing, restore, disk, applied, store, engine, history, bounds>>

\* The scope of the deleted game ends.
RunDeleted ==
    /\ Starting("deleted")
    /\ LET g == Head(chain).game
           ed == IF editing = g THEN None ELSE editing
           act == IF active = g THEN None ELSE active
       IN  /\ editing' = ed /\ active' = act
           /\ IF <<ed, act>> # <<editing, active>> \/ applied = g
              THEN BeginApply(ed, act)
              ELSE Done /\ UNCHANGED <<selected, picked, lost, restore, disk, applied>>
    /\ UNCHANGED <<owned, engine, chosen, deleted, bounds>>

RemoveGameSettingsPlainMutant ==
    /\ run.pc = "removing"
    /\ LET g == Head(chain).game IN
          /\ owned' = [l \in Lists |-> owned[l] \ {g}]
          /\ picked' = [l \in Lists |-> picked[l] \cup {g}]
    /\ Ends
    /\ UNCHANGED <<active, editing, applied, restore, selected, disk, engine,
                   chosen, lost, deleted, bounds>>

\* A removed profile that is selected leaves Default selected.
RemoveGameSettings ==
    /\ run.pc = "removing"
    /\ LET g == Head(chain).game IN
          /\ selected' = [l \in Lists |-> IF selected[l] = g THEN Default ELSE selected[l]]
          /\ owned' = [l \in Lists |-> owned[l] \ {g}]
          /\ picked' = [l \in Lists |-> picked[l] \cup {g}]
    /\ Ends
    /\ UNCHANGED <<active, editing, applied, restore, disk, engine, chosen, lost, deleted, bounds>>

Answered == run.pc \in {"appliedCtl", "appliedRemap", "restoredCtl", "restoredRemap"}

\* The bridge has taken the controller profile, the remap profile follows.
AppliedCtl ==
    /\ run.pc = "appliedCtl"
    /\ Select("remap", run.goal)
    /\ Await("appliedRemap", run.goal, FALSE)
    /\ UNCHANGED <<active, editing, applied, restore, owned, disk, engine, chosen, deleted, bounds>>

AppliedRemap ==
    /\ run.pc = "appliedRemap"
    /\ applied' = run.goal
    /\ Done
    /\ UNCHANGED <<active, editing, restore, store, disk, engine, history, bounds>>

RestoredCtl ==
    /\ run.pc = "restoredCtl"
    /\ IF run.remapToo
       THEN RestoreRemap
       ELSE EndRestore /\ UNCHANGED <<selected, picked, lost>>
    /\ UNCHANGED <<active, editing, owned, engine, chosen, deleted, bounds>>

RestoredRemap ==
    /\ run.pc = "restoredRemap"
    /\ EndRestore
    /\ UNCHANGED <<active, editing, store, engine, history, bounds>>

\* The round trip fails and the job rejects: the store keeps the selection,
\* nothing counts as applied, and the deletion's handler stops before
\* removeGameSettings.
Rejected ==
    /\ rejects < MaxRejects /\ rejects' = rejects + 1
    /\ Answered
    /\ Ends
    /\ lost' = Lists
    /\ UNCHANGED <<active, editing, applied, restore, store, disk, engine,
                   chosen, picked, deleted, events, crashes>>

JobStep ==
    \/ RunRecover \/ RunSync \/ RunEnter \/ RunEnsured \/ RunDeleted \/ RemoveGameSettings
    \/ AppliedCtl \/ AppliedRemap \/ RestoredCtl \/ RestoredRemap \/ Rejected

-----------------------------------------------------------------------------
(* The engine, the user and crashes.  Their handlers run when every promise *)
(* that is settled has been followed up: at rest or during a round trip.    *)

Quiet == chain = <<>> \/ Answered

Event == events < MaxEvents /\ events' = events + 1 /\ UNCHANGED <<crashes, rejects>> /\ Quiet
Enqueue(job) == chain' = Append(chain, job)

\* The watcher matches another game, or the engine is switched off.
GameChanges(g) ==
    /\ Event
    /\ g \in triggers \cup {None} /\ g # watched
    /\ watched' = g /\ owed' = TRUE
    /\ UNCHANGED <<coordinator, store, disk, triggers, history>>

EngineStatusUnsyncedMutant ==
    /\ owed /\ Quiet
    /\ owed' = FALSE
    /\ active' = watched
    /\ UNCHANGED <<chain, editing, applied, restore, run, store, disk, watched, triggers, history, bounds>>

\* onEngineStatus
EngineStatus ==
    /\ owed /\ Quiet
    /\ owed' = FALSE
    /\ IF watched = active
       THEN UNCHANGED <<active, chain>>
       ELSE active' = watched /\ Enqueue(Job("sync", None))
    /\ UNCHANGED <<editing, applied, restore, run, store, disk, watched, triggers, history, bounds>>

EnterEditScope(g) ==
    /\ Event
    /\ g \in triggers
    /\ editing' = g
    /\ Enqueue(Job("enter", g))
    /\ UNCHANGED <<active, applied, restore, run, store, disk, engine, history>>

ExitEditScope ==
    /\ Event
    /\ editing # None
    /\ editing' = None
    /\ Enqueue(Job("sync", None))
    /\ UNCHANGED <<active, applied, restore, run, store, disk, engine, history>>

AtRest == chain = <<>>
Undisturbed == AtRest /\ applied = None /\ restore = NoRestore

\* A selection the user makes in one of the two lists: at rest it replaces the
\* user's globals, later it competes with them.
Pick(list, id) ==
    /\ Event
    /\ id # selected[list]
    /\ selected' = [selected EXCEPT ![list] = id]
    /\ chosen' = [chosen EXCEPT ![list] = IF Undisturbed THEN {id} ELSE @ \cup {id}]
    /\ lost' = IF Undisturbed THEN lost \ {list} ELSE lost
    /\ picked' = [picked EXCEPT ![list] = Games]
    /\ UNCHANGED <<coordinator, owned, disk, engine, deleted>>

\* restoreDefaults keeps the controller profiles and drops the remap profiles.
RestoreDefaults ==
    /\ Event
    /\ selected' = [l \in Lists |-> Default]
    /\ owned' = [owned EXCEPT !["remap"] = {}]
    /\ chosen' = [l \in Lists |-> IF Undisturbed THEN {Default} ELSE chosen[l] \cup {Default}]
    /\ lost' = IF Undisturbed THEN {} ELSE lost
    /\ picked' = [l \in Lists |-> Games]
    /\ UNCHANGED <<coordinator, disk, engine, deleted>>

\* deleteTriggerProfile, and deleteGameProfile, which may keep the trigger
\* profile.  refreshProfiles makes the engine report what it still watches.
DeleteGame(g, keep) ==
    /\ Event
    /\ g \in triggers
    /\ triggers' = IF keep THEN triggers ELSE triggers \ {g}
    /\ owed' = TRUE
    /\ Enqueue(Job("deleted", g))
    /\ deleted' = deleted \cup {g}
    /\ UNCHANGED <<active, editing, applied, restore, run, store, disk, watched, chosen, picked, lost>>

\* saveTriggerProfile: the profile is written, again if it was deleted, and the
\* game's settings, if it has any, are made complete to carry its name.
SaveGame(g) ==
    /\ Event
    /\ triggers' = triggers \cup {g}
    /\ owed' = TRUE
    /\ owned' = IF g \in owned["ctl"] THEN [l \in Lists |-> owned[l] \cup {g}] ELSE owned
    /\ UNCHANGED <<coordinator, selected, disk, watched, history>>

\* The process dies and starts again: constructor, recover.
Crash ==
    /\ crashes < MaxCrashes /\ crashes' = crashes + 1 /\ UNCHANGED <<events, rejects>>
    /\ active' = None /\ editing' = None /\ applied' = None
    /\ restore' = IF disk = NoRestore THEN NoRestore ELSE SanitizedRestore(disk)
    /\ chain' = <<Job("recover", None)>> /\ run' = Idle
    /\ watched' = None /\ owed' = FALSE
    /\ UNCHANGED <<store, disk, triggers, history>>

Environment ==
    \/ \E g \in Games \cup {None} : GameChanges(g)
    \/ EngineStatus
    \/ \E g \in Games : EnterEditScope(g) \/ SaveGame(g) \/ \E keep \in BOOLEAN : DeleteGame(g, keep)
    \/ ExitEditScope
    \/ \E l \in Lists, id \in UserIds : Pick(l, id)
    \/ RestoreDefaults
    \/ Crash

Next == JobStep \/ Environment

Fairness == WF_vars(JobStep) /\ WF_vars(EngineStatus)
Spec == Init /\ [][Next]_vars /\ Fairness

-----------------------------------------------------------------------------
(* Properties                                                              *)

Ids == UserIds \cup Games

\* Every variable has its type.
TypeOK ==
    /\ selected \in [Lists -> Ids] /\ owned \in [Lists -> SUBSET Games]
    /\ disk \in [Lists -> UserIds \cup {None}] /\ restore \in [Lists -> UserIds \cup {None}]
    /\ watched \in Games \cup {None} /\ owed \in BOOLEAN /\ triggers \subseteq Games
    /\ {active, editing, applied} \subseteq Games \cup {None}
    /\ chain \in Seq(Jobs)
    /\ run.goal \in Games \cup {None}
    /\ lost \subseteq Lists /\ deleted \subseteq Games
    /\ chosen \in [Lists -> SUBSET UserIds] /\ picked \in [Lists -> SUBSET Games]
    /\ events \in Nat /\ crashes \in Nat /\ rejects \in Nat

\* What may be selected when the coordinator has put a list back: what the user
\* selected there, or Default once that is lost.
MayComeBack(l) == chosen[l] \cup (IF l \in lost THEN {Default} ELSE {})

\* With no game to apply and nothing queued, no list has a game's profile
\* selected, and what is selected is what the user selected: the restore point
\* survives overlapping games, edits, deletions, crashes and recoveries, and is
\* lost only by a selection of a profile that does not exist or a rejection.
GlobalsComeBack ==
    AtRest /\ applied = None /\ Target = None /\ (rejects = 0 \/ restore = NoRestore) =>
        \A l \in Lists : selected[l] \in MayComeBack(l)

\* What the comments promise: when the game exits, the remembered global
\* selections are restored.
GlobalsAlwaysComeBack ==
    AtRest /\ Target = None => \A l \in Lists : selected[l] \in chosen[l]

\* While a game's profile is selected the state file names what to go back to,
\* so a crash at any moment cannot make a game's settings the user's globals.
CrashSafe ==
    \A l \in Lists : selected[l] \in Games => disk # NoRestore /\ disk[l] \in MayComeBack(l)

\* At rest, if no round trip was rejected, the coordinator has applied what it
\* should, and the game's profiles are the selected ones unless they did not
\* exist when it selected them or the user chose others meanwhile.
ScopeConverges ==
    AtRest /\ rejects = 0 =>
        /\ applied = Target
        /\ applied # None => \A l \in Lists :
              applied \in picked[l] \/ selected[l] = Resolved(l, applied)

\* A game's profiles are never selected once they are deleted.
SelectedIsOwned == TypeOK /\ \A l \in Lists : selected[l] \in Games => selected[l] \in owned[l]

\* When the user and the engine stop, the coordinator comes to rest knowing the
\* game that runs, unless that game was deleted, with the right game applied: no
\* job waits for ever and no status is forgotten.
Settles ==
    <>[](/\ AtRest
         /\ rejects = 0 => applied = Target
         /\ active = watched \/ (active = None /\ watched \in deleted))
=============================================================================
