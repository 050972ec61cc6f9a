---------------------------- MODULE TriggerEngine ----------------------------
(***************************************************************************)
(* Adaptive trigger profiles that follow the running game:                 *)
(* main/trigger-profile-engine.ts, main/game-watcher.ts, the profile files *)
(* of main/trigger-profile-store.ts and their handlers in main/main.ts.    *)
(*                                                                         *)
(* The watcher decides which profile is active, the engine turns it into   *)
(* calls of the sink, which reach the controller one round trip later.     *)
(* Every call is made by a job of one chain.  Jobs read the engine's state  *)
(* when they run, not when they were queued.  A profile stands for what    *)
(* tells its effects apart: its id, its edition, the named state that is    *)
(* active and whether a modifier holds.                                    *)
(***************************************************************************)
EXTENDS Integers, Sequences

CONSTANTS
    Games,          \* ids of the profiles other than Default
    Default,
    None,           \* null
    MaxEvents, MaxRejects, MaxCrashes   \* bounds

ASSUME TriggerEngineAssumption ==
    /\ Default \notin Games /\ None \notin Games \cup {Default}
    /\ MaxEvents \in Nat /\ MaxRejects \in Nat /\ MaxCrashes \in Nat

VARIABLES
    stored,         \* the edition of each game's profile file, None without one
    newest,         \* the game whose profile was saved last
    running,        \* games whose process runs
    file,           \* engine-state.json
    pinned, watched, candidate, ripe,   \* the watcher; ripe: debounceMs have passed
    enabled, suspended, draft,          \* the engine
    active,         \* activeProfile, a copy of the file's contents
    state,          \* the switcher's index
    lastApplied,
    latest, scheduled,                  \* latestDesired, writeScheduled
    chain,          \* writeChain: queued jobs, the running one first
    run,            \* the sink call the running job waits for
    pad,            \* the effects on the controller
    testing,        \* a trigger test whose suspension has been answered
    told,           \* the game of the last status
    disturbed,      \* history: the controller has lost or got an effect behind
                    \* the engine's back since its last reset
    removed,        \* history: profiles that were deleted
    events, rejects, crashes

files == <<stored, newest, running>>
watcher == <<pinned, watched, candidate, ripe>>
profile == <<active, state>>
input == <<latest, scheduled>>
bounds == <<events, rejects, crashes>>
vars == <<files, file, watcher, enabled, suspended, draft, profile, lastApplied, input,
          chain, run, pad, testing, told, disturbed, removed, bounds>>

-----------------------------------------------------------------------------
(* Profiles and effects                                                    *)

Ids == Games \cup {Default}
Triggers == {"l2", "r2"}
NoEffect == [t \in Triggers |-> None]
Effect(kind, id, edition, st, held) ==
    [kind |-> kind, id |-> id, edition |-> edition, st |-> st, held |-> held]
TestEffect == [t \in Triggers |-> Effect("test", None, 0, 0, FALSE)]

\* A game's profile has a modifier on L2, and an effect on R2 in its first state.
Effects(p, st, held) ==
    IF p = None \/ p.id = Default THEN NoEffect
    ELSE [t \in Triggers |->
            CASE t = "l2" -> Effect("profile", p.id, p.edition, st, held)
              [] t = "r2" -> IF st = 0 THEN Effect("profile", p.id, p.edition, st, FALSE) ELSE None]
DraftEffects == [NoEffect EXCEPT !["l2"] = Effect("draft", None, 0, 0, FALSE)]

Contents(id, files0) ==
    IF id = Default THEN [id |-> Default, edition |-> 0]
    ELSE IF files0[id] = None THEN None ELSE [id |-> id, edition |-> files0[id]]

\* What the engine copies of a profile and what it asks of the sink; null is none of
\* these and no edition.
Copies == [id : Ids, edition : {0, 1}]
SinkEffects ==
    [kind : {"profile", "draft", "test"}, id : Ids \cup {None}, edition : {0, 1}, st : {0, 1},
     held : BOOLEAN]
Wants == [Triggers -> SinkEffects \cup {None}]
SinkCalls == [call : Triggers \cup {"reset"}, want : Wants]
ASSUME NullAssumption ==
    None \notin {0, 1} /\ None \notin Copies /\ None \notin SinkCalls /\ None \notin Wants

\* matchProcesses: of the running games with a profile, the one saved last.
Matched ==
    LET found == {g \in running : stored[g] # None}
    IN  CASE found = {} -> Default
          [] newest \in found -> newest
          [] OTHER -> CHOOSE g \in found : TRUE

\* The game of the status the engine emits.
StatusOf(on, id) == IF on /\ id # Default THEN id ELSE None

Init ==
    /\ stored = [g \in Games |-> 0] /\ newest \in Games /\ running = {}
    /\ file = [enabled |-> FALSE, pin |-> None]
    /\ pinned = None /\ watched = Default /\ candidate = None /\ ripe = FALSE
    /\ enabled = FALSE /\ suspended = FALSE /\ draft = FALSE
    /\ active = None /\ state = 0
    /\ lastApplied = NoEffect /\ latest = None /\ scheduled = FALSE
    /\ chain = <<>> /\ run = None /\ pad = NoEffect /\ testing = FALSE
    /\ told = None /\ disturbed = FALSE /\ removed = {}
    /\ events = 0 /\ rejects = 0 /\ crashes = 0

-----------------------------------------------------------------------------
(* The jobs of the chain                                                   *)

Job(kind, tell, after) == [kind |-> kind, tell |-> tell, after |-> after]
Pin == IF pinned # None THEN watched ELSE None

\* What the caller does that awaited the job.
Ends ==
    /\ chain' = Tail(chain) /\ run' = None
    /\ told' = IF Head(chain).tell THEN StatusOf(enabled, watched) ELSE told
    /\ file' = IF Head(chain).after = "save" THEN [enabled |-> enabled, pin |-> Pin] ELSE file
    /\ testing' = (testing \/ Head(chain).after = "test")

Calls(call, want) ==
    /\ run' = [call |-> call, want |-> want]
    /\ UNCHANGED <<chain, told, file, testing>>

\* writeDesired: only triggers whose effect differs from the last one applied.
WriteDesired(want) ==
    CASE want = NoEffect /\ lastApplied # NoEffect -> Calls("reset", want)
      [] want # NoEffect /\ want["l2"] # lastApplied["l2"] -> Calls("l2", want)
      [] want # NoEffect /\ want["l2"] = lastApplied["l2"] /\ want["r2"] # lastApplied["r2"] ->
            Calls("r2", want)
      [] OTHER -> Ends

Bases == IF draft THEN DraftEffects ELSE Effects(active, state, FALSE)

Starting(kind) == chain # <<>> /\ run = None /\ Head(chain).kind = kind
Live == enabled /\ ~suspended

\* applyBasesJob
BasesJob ==
    /\ Starting("bases")
    /\ IF Live THEN WriteDesired(Bases) ELSE Ends
    /\ UNCHANGED <<files, watcher, enabled, suspended, draft, profile, lastApplied, input,
                   pad, disturbed, removed, bounds>>

\* resetIfNeeded(true)
ResetJob ==
    /\ Starting("reset")
    /\ Calls("reset", NoEffect)
    /\ UNCHANGED <<files, watcher, enabled, suspended, draft, profile, lastApplied, input,
                   pad, disturbed, removed, bounds>>

\* The coalesced write of onInput.
InputJob ==
    /\ Starting("input")
    /\ scheduled' = FALSE /\ latest' = None
    /\ IF latest # None /\ Live THEN WriteDesired(latest) ELSE Ends
    /\ UNCHANGED <<files, watcher, enabled, suspended, draft, profile, lastApplied,
                   pad, disturbed, removed, bounds>>

\* The sink has written one trigger, writeDesired goes on to the next.
TriggerWritten ==
    /\ run # None /\ run.call \in Triggers
    /\ lastApplied' = [lastApplied EXCEPT ![run.call] = run.want[run.call]]
    /\ pad' = [pad EXCEPT ![run.call] = run.want[run.call]]
    /\ IF run.call = "l2" /\ run.want["r2"] # lastApplied["r2"]
       THEN Calls("r2", run.want)
       ELSE Ends
    /\ UNCHANGED <<files, watcher, enabled, suspended, draft, profile, input,
                   disturbed, removed, bounds>>

ResetWrittenStaleMutant ==
    /\ run # None /\ run.call = "reset"
    /\ pad' = NoEffect /\ disturbed' = FALSE
    /\ Ends
    /\ UNCHANGED <<files, watcher, enabled, suspended, draft, profile, lastApplied, input, removed, bounds>>

ResetWritten ==
    /\ run # None /\ run.call = "reset"
    /\ lastApplied' = NoEffect /\ pad' = NoEffect /\ disturbed' = FALSE
    /\ Ends
    /\ UNCHANGED <<files, watcher, enabled, suspended, draft, profile, input, removed, bounds>>

\* The call fails: the job rejects, whoever awaited it emits and saves nothing.
Rejected ==
    /\ run # None
    /\ rejects < MaxRejects /\ rejects' = rejects + 1
    /\ chain' = Tail(chain) /\ run' = None
    /\ UNCHANGED <<files, file, watcher, enabled, suspended, draft, profile, lastApplied,
                   input, pad, testing, told, disturbed, removed, events, crashes>>

JobStep ==
    BasesJob \/ ResetJob \/ InputJob \/ TriggerWritten \/ ResetWritten \/ Rejected

-----------------------------------------------------------------------------
(* The engine's reactions.  jobs are appended to the chain by the caller.  *)

Queue(jobs) == chain' = chain \o jobs

\* onActiveProfileChange for the profile id, with the files as they now are.
\* The jobs it queues; with none the status is emitted at once.
ReappliedSilentMutant == IF suspended THEN <<>> ELSE <<Job("bases", FALSE, "none")>>
Reapplied == IF suspended THEN <<>> ELSE <<Job("bases", TRUE, "none")>>
ChangesTo(id, files0) ==
    /\ active' = Contents(id, files0)
    /\ state' = 0
    /\ Queue(Reapplied)
    /\ told' = IF suspended THEN StatusOf(TRUE, id) ELSE told

Unaffected == UNCHANGED <<profile, chain, told>>

\* activate
Activate(id) ==
    /\ candidate' = None /\ ripe' = FALSE
    /\ watched' = id
    /\ IF id # watched /\ enabled THEN ChangesTo(id, stored) ELSE Unaffected

-----------------------------------------------------------------------------
(* The watcher                                                             *)

\* Handlers and timers run when every settled promise has been followed up.
Quiet == chain = <<>> \/ run # None

PollAnyTimeMutant ==
    /\ Quiet /\ enabled
    /\ IF Matched = watched
       THEN candidate' = None /\ ripe' = FALSE /\ UNCHANGED watched /\ Unaffected
       ELSE Activate(Matched)
    /\ UNCHANGED <<pinned, files, file, enabled, suspended, draft, lastApplied, input, run,
                   pad, testing, disturbed, removed, bounds>>

PollRestartsDebounceMutant ==
    /\ Quiet /\ enabled /\ pinned = None
    /\ candidate' = IF Matched = watched THEN None ELSE Matched
    /\ ripe' = FALSE
    /\ UNCHANGED watched /\ Unaffected
    /\ UNCHANGED <<pinned, files, file, enabled, suspended, draft, lastApplied, input, run,
                   pad, testing, disturbed, removed, bounds>>

\* poll(false), from the timer.
Poll ==
    /\ Quiet /\ enabled /\ pinned = None
    /\ CASE Matched = watched ->
                candidate' = None /\ ripe' = FALSE /\ UNCHANGED watched /\ Unaffected
         [] Matched # watched /\ candidate # Matched ->
                candidate' = Matched /\ ripe' = FALSE /\ UNCHANGED watched /\ Unaffected
         [] Matched # watched /\ candidate = Matched ->
                ripe /\ Activate(Matched)
    /\ UNCHANGED <<pinned, files, file, enabled, suspended, draft, lastApplied, input, run,
                   pad, testing, disturbed, removed, bounds>>

\* Five seconds pass.
Ripen ==
    /\ Quiet
    /\ candidate # None /\ ~ripe
    /\ ripe' = TRUE
    /\ UNCHANGED <<pinned, watched, candidate, files, file, enabled, suspended, draft, profile,
                   lastApplied, input, chain, run, pad, testing, told, disturbed, removed, bounds>>

-----------------------------------------------------------------------------
(* Handlers, input and crashes                                             *)

Event == Quiet /\ events < MaxEvents /\ events' = events + 1 /\ UNCHANGED <<rejects, crashes>>

GamesRun(games) ==
    /\ Event
    /\ games # running
    /\ running' = games
    /\ UNCHANGED <<stored, newest, file, watcher, enabled, suspended, draft, profile, lastApplied,
                   input, chain, run, pad, testing, told, disturbed, removed>>

\* setTriggerProfilesEnabled(true): start polls at once, then the active
\* profile is applied, again if it was just found.
Enable ==
    /\ Event
    /\ ~enabled
    /\ enabled' = TRUE
    /\ LET id == IF pinned = None THEN Matched ELSE watched
           found == IF id # watched THEN Reapplied ELSE <<>>
           apply == IF suspended THEN <<>> ELSE <<Job("bases", TRUE, "save")>>
       IN  /\ watched' = id
           /\ candidate' = IF pinned = None THEN None ELSE candidate
           /\ ripe' = IF pinned = None THEN FALSE ELSE ripe
           /\ active' = Contents(id, stored) /\ state' = 0
           /\ Queue(found \o apply)
           /\ told' = IF suspended THEN StatusOf(TRUE, id) ELSE told
           /\ file' = IF suspended
                      THEN [enabled |-> TRUE, pin |-> IF pinned # None THEN id ELSE None]
                      ELSE file
    /\ UNCHANGED <<pinned, files, suspended, draft, lastApplied, input, run, pad, testing,
                   disturbed, removed>>

Disable ==
    /\ Event
    /\ enabled
    /\ enabled' = FALSE /\ draft' = FALSE
    /\ active' = None /\ state' = 0
    /\ Queue(<<Job("reset", TRUE, "save")>>)
    /\ UNCHANGED <<watcher, files, file, suspended, lastApplied, input, run, pad, testing, told,
                   disturbed, removed>>

\* pinTriggerProfile(id)
PinProfile(id) ==
    /\ Event
    /\ pinned' = id
    /\ Activate(id)
    /\ file' = [enabled |-> enabled, pin |-> id]
    /\ UNCHANGED <<files, enabled, suspended, draft, lastApplied, input, run, pad, testing,
                   disturbed, removed>>

\* pinTriggerProfile(null): poll(true)
Unpin ==
    /\ Event
    /\ pinned # None
    /\ pinned' = None
    /\ Activate(Matched)
    /\ file' = [enabled |-> enabled, pin |-> None]
    /\ UNCHANGED <<files, enabled, suspended, draft, lastApplied, input, run, pad, testing,
                   disturbed, removed>>

TestUnserializedMutant ==
    /\ Event
    /\ ~testing
    /\ testing' = TRUE /\ suspended' = TRUE /\ draft' = FALSE
    /\ UNCHANGED <<files, file, watcher, enabled, profile, lastApplied, input, chain, run, pad, told,
                   disturbed, removed>>

\* testAdaptiveTriggers, previewAdaptiveTriggerEffect: suspend, then the test.
Test ==
    /\ Event
    /\ ~testing
    /\ IF suspended
       THEN testing' = TRUE /\ UNCHANGED <<suspended, draft, chain>>
       ELSE /\ suspended' = TRUE /\ draft' = FALSE
            /\ Queue(<<Job("reset", TRUE, "test")>>)
            /\ UNCHANGED testing
    /\ UNCHANGED <<files, file, watcher, enabled, profile, lastApplied, input, run, pad, told,
                   disturbed, removed>>

\* The bridge has taken the test effect.
Tested ==
    /\ Quiet
    /\ testing /\ testing' = FALSE
    /\ pad' = TestEffect
    /\ disturbed' = (disturbed \/ ~suspended)
    /\ UNCHANGED <<files, file, watcher, enabled, suspended, draft, profile, lastApplied, input,
                   chain, run, told, removed, bounds>>

\* resetAdaptiveTriggers, when the bridge has taken the reset: resume.
ResetAdaptiveTriggers ==
    /\ Event
    /\ pad' = NoEffect
    /\ disturbed' = (disturbed \/ lastApplied # NoEffect \/ run # None)
    /\ suspended' = FALSE
    /\ IF suspended /\ enabled THEN Queue(<<Job("bases", TRUE, "none")>>) ELSE UNCHANGED chain
    /\ told' = IF suspended /\ ~enabled THEN StatusOf(enabled, watched) ELSE told
    /\ UNCHANGED <<files, file, watcher, enabled, draft, profile, lastApplied, input, run,
                   testing, removed>>

\* previewTriggerProfileDraft with a draft, and with null.
PreviewDraft ==
    /\ Event
    /\ Live
    /\ draft' = TRUE
    /\ Queue(<<Job("bases", FALSE, "none")>>)
    /\ UNCHANGED <<files, file, watcher, enabled, suspended, profile, lastApplied, input, run, pad,
                   testing, told, disturbed, removed>>

ClearDraft ==
    /\ Event
    /\ draft
    /\ draft' = FALSE
    /\ Queue(IF Live THEN <<Job("bases", FALSE, "none")>> ELSE <<>>)
    /\ UNCHANGED <<files, file, watcher, enabled, suspended, profile, lastApplied, input, run, pad,
                   testing, told, disturbed, removed>>

\* selectTriggerProfileState; a game's profile has two states.
SelectState ==
    /\ Event
    /\ active # None /\ active.id # Default
    /\ state' = 1 - state
    /\ Queue(Reapplied)
    /\ told' = IF suspended THEN StatusOf(enabled, watched) ELSE told
    /\ UNCHANGED <<files, file, watcher, enabled, suspended, draft, active, lastApplied, input, run,
                   pad, testing, disturbed, removed>>

\* refreshProfiles, with the files as they now are.
Refresh(files0) ==
    IF enabled /\ active # None THEN ChangesTo(watched, files0) ELSE Unaffected

\* saveTriggerProfile, resetLibraryProfile
SaveProfile(g) ==
    /\ Event
    /\ stored' = [stored EXCEPT ![g] = IF @ = 0 THEN 1 ELSE 0]
    /\ newest' = g
    /\ Refresh(stored')
    /\ UNCHANGED <<running, file, watcher, enabled, suspended, draft, lastApplied, input, run, pad,
                   testing, disturbed, removed>>

DeleteProfileQuietlyMutant(g) ==
    /\ Event
    /\ stored[g] # None
    /\ stored' = [stored EXCEPT ![g] = None]
    /\ removed' = removed \cup {g}
    /\ Unaffected
    /\ UNCHANGED <<newest, running, file, watcher, enabled, suspended, draft, lastApplied, input, run,
                   pad, testing, disturbed>>

DeleteProfile(g) ==
    /\ Event
    /\ stored[g] # None
    /\ stored' = [stored EXCEPT ![g] = None]
    /\ removed' = removed \cup {g}
    /\ Refresh(stored')
    /\ UNCHANGED <<newest, running, file, watcher, enabled, suspended, draft, lastApplied, input, run,
                   pad, testing, disturbed>>

\* onInput for a game's profile: switched is a rule that fires, held a modifier.
Input(switched, held) ==
    /\ Event
    /\ Live /\ ~draft
    /\ active # None /\ active.id # Default
    /\ LET st == IF switched THEN 1 - state ELSE state
       IN  /\ state' = st
           /\ latest' = Effects(active, st, held)
    /\ scheduled' = TRUE
    /\ Queue((IF switched THEN <<Job("bases", FALSE, "none")>> ELSE <<>>)
             \o (IF scheduled THEN <<>> ELSE <<Job("input", FALSE, "none")>>))
    /\ told' = IF switched THEN StatusOf(enabled, watched) ELSE told
    /\ UNCHANGED <<files, file, watcher, enabled, suspended, draft, active, lastApplied, run, pad,
                   testing, disturbed, removed>>

\* The process dies and starts again; the controller keeps its effects.
Crash ==
    /\ crashes < MaxCrashes /\ crashes' = crashes + 1 /\ UNCHANGED <<events, rejects>>
    /\ LET id == CASE file.pin # None -> file.pin
                   [] file.pin = None /\ file.enabled -> Matched
                   [] OTHER -> Default
       IN  /\ pinned' = file.pin /\ watched' = id
           /\ active' = IF file.enabled THEN Contents(id, stored) ELSE None
    /\ candidate' = None /\ ripe' = FALSE
    /\ enabled' = file.enabled /\ suspended' = FALSE /\ draft' = FALSE /\ state' = 0
    /\ lastApplied' = NoEffect /\ latest' = None /\ scheduled' = FALSE
    /\ chain' = IF file.enabled THEN <<Job("bases", TRUE, "none")>> ELSE <<>>
    /\ run' = None /\ testing' = FALSE
    /\ told' = None
    /\ disturbed' = (disturbed \/ pad # NoEffect \/ run # None)
    /\ UNCHANGED <<files, file, pad, removed>>

Handlers ==
    \/ \E games \in SUBSET Games : GamesRun(games)
    \/ Enable \/ Disable \/ Unpin \/ Test \/ ResetAdaptiveTriggers
    \/ \E id \in Ids : PinProfile(id)
    \/ PreviewDraft \/ ClearDraft \/ SelectState
    \/ \E g \in Games : SaveProfile(g) \/ DeleteProfile(g)
    \/ \E switched, held \in BOOLEAN : Input(switched, held)
    \/ Crash

Next == JobStep \/ Poll \/ Ripen \/ Tested \/ Handlers

Fairness == WF_vars(JobStep) /\ WF_vars(Poll) /\ WF_vars(Ripen)
Spec == Init /\ [][Next]_vars /\ Fairness

-----------------------------------------------------------------------------
(* Properties                                                              *)

AtRest == chain = <<>>

\* Every variable has its type.
TypeOK ==
    /\ stored \in [Games -> {None, 0, 1}] /\ newest \in Games /\ running \subseteq Games
    /\ file.enabled \in BOOLEAN /\ file.pin \in Ids \cup {None}
    /\ pinned \in Ids \cup {None} /\ watched \in Ids /\ candidate \in Ids \cup {None}
    /\ {ripe, enabled, suspended, draft, scheduled, testing, disturbed} \subseteq BOOLEAN
    /\ active # None => active.id \in Ids
    /\ state \in {0, 1} /\ told \in Games \cup {None} /\ removed \subseteq Games
    /\ run # None => AtRest = FALSE /\ run.call \in Triggers \cup {"reset"}

\* When the chain has drained, the controller has no effect of a profile, state
\* or draft that is no longer active, and none while the engine is off or
\* suspended, except where a rejected call, a reset behind the engine's back or
\* a crash has come between.
PadIsCurrent ==
    AtRest /\ ~disturbed /\ rejects = 0 =>
        IF ~Live THEN pad = NoEffect \/ (suspended /\ pad = TestEffect)
        ELSE pad \in IF draft THEN {DraftEffects}
                     ELSE {Effects(active, state, held) : held \in BOOLEAN}

\* The engine writes no effect while it is off or suspended, unless the reset
\* that will undo it is still queued.
NoWriteAfterReset ==
    /\ TypeOK
    /\ run # None /\ run.call \in Triggers /\ ~Live =>
          \E i \in 2..Len(chain) : chain[i].kind = "reset"

\* A switched on engine works with the watcher's profile as it is in its file;
\* a deleted one is not there, even if it comes back under its id.
EngineFollowsStore ==
    enabled => \/ active = Contents(watched, stored)
               \/ active = None /\ watched \in removed

\* A pin holds against the processes, the timer and switching off and on, and
\* no debounce started before it ends after it.
PinHolds == pinned # None => watched = pinned /\ candidate = None

\* Without rejected calls, the last status told names the active game, and the
\* state file restores what the engine does now.
OutsideAgrees == AtRest /\ rejects = 0 =>
    /\ told = StatusOf(enabled, watched)
    /\ file = [enabled |-> enabled, pin |-> pinned]

\* When games, users and errors come to rest, the watcher settles on the game
\* that matches and the chain drains.
Settles == <>[](AtRest /\ (enabled /\ pinned = None => watched = Matched /\ candidate = None))
=============================================================================
