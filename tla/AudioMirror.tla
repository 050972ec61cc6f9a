----------------------------- MODULE AudioMirror -----------------------------
(***************************************************************************)
(* The host's audio haptics: SystemAudioHapticsEngine of                   *)
(* main/audio-helper.ts, which runs one helper process, and the bridge     *)
(* service's operations that make calls of it.  Every call waits for       *)
(* processes to start or end, or for the answer to a command, while other  *)
(* calls, status lines and exits arrive.                                   *)
(*                                                                         *)
(* The firmware of the bridge plays the sound itself (passthrough) while   *)
(* the output device is the bridge; it is told by commands, which may      *)
(* fail.  They reach it in the order they were given, so that what becomes *)
(* of one is settled when it is given; who waits for it goes on later.     *)
(***************************************************************************)
EXTENDS Integers, Sequences

CONSTANTS
    Sources,     \* sources of sound, with the persona they are played for
    Callers,     \* numbers of the calls that may be under way at once
    MaxHelpers   \* bound: helpers started

VARIABLES
    wanted,      \* the source to mirror by the settings, or "off"
    link,        \* "none" without a device, "deaf" without a controller, or "ready"
    process,     \* the engine's process, 0 if null
    starting,    \* helper whose start the promise `starting` waits for, or 0
    active,      \* activeConfig: the source last started
    helpers,     \* helpers[h]: [source, state, killed, start], start: its recording-started
    callers,     \* callers[c]: [pc, source, helper] of an update
    passthrough, \* systemAudioHapticsPassthroughActive
    retrying,    \* systemAudioHapticsRetryAt is in the future
    firmware,    \* whether the firmware plays the sound
    overtaken,   \* history: an update came while another waited to start another source, a
                 \* change was not followed, or a call did not know the controller was gone
    unheard      \* history: since the firmware last took a command, one that would have changed
                 \* what it does was not taken, or not given, or named settings that had changed

engineVars == <<process, starting, active, helpers>>
toldVars == <<firmware, unheard>>
vars == <<wanted, link, engineVars, callers, passthrough, retrying, overtaken, toldVars>>

-----------------------------------------------------------------------------
Helpers == DOMAIN helpers
Idle == [pc |-> "idle", source |-> "off", helper |-> 0]
Busy(c) == callers[c].pc # "idle"
Free(c) == ~Busy(c) /\ \A d \in Callers : d < c => Busy(d)

\* The source the engine is to play.
Target == IF link = "ready" THEN wanted ELSE "off"

Init ==
    /\ wanted = "off" /\ link = "ready" /\ process = 0 /\ starting = 0 /\ active = "off"
    /\ helpers = <<>> /\ callers = [c \in Callers |-> Idle]
    /\ passthrough = FALSE /\ retrying = FALSE /\ firmware = FALSE
    /\ overtaken = FALSE /\ unheard = FALSE

Go(c, pc, source, h) == callers' = [callers EXCEPT ![c] = [pc |-> pc, source |-> source, helper |-> h]]

\* helper.kill(): a signal; the process may take its time.
Kill(hs, h) == [hs EXCEPT ![h].killed = TRUE]

\* SystemAudioHapticsEngine.stop, after which c goes on at then.
Stop(c, then, source) ==
    /\ process' = 0
    /\ helpers' = IF process = 0 THEN helpers ELSE Kill(helpers, process)
    /\ Go(c, then, source, process)

\* The wait of stop: for the exit, or half a second.
StopWaits(c) == callers[c].helper # 0 /\ helpers[callers[c].helper].state # "gone"

-----------------------------------------------------------------------------
(* start                                                                    *)

\* The configuration is passed on when the source did not change, else the
\* helper is stopped first; a start that is under way is waited for.
Running(c, source) ==
    /\ process # 0 \/ starting # 0
    /\ IF process # 0 /\ active = source
       THEN Go(c, "started", source, 0) /\ UNCHANGED <<process, helpers>>
       ELSE IF process # 0 THEN Stop(c, "restarting", source)
       ELSE Go(c, "joining", source, starting) /\ UNCHANGED <<process, helpers>>
    /\ UNCHANGED <<starting, active>>

\* startInternal: a process, then the wait for recording-started.
Spawn(c, source) ==
    /\ process = 0 /\ starting = 0 /\ Len(helpers) < MaxHelpers
    /\ LET h == Len(helpers) + 1
       IN  /\ helpers' = Append(helpers, [source |-> source, state |-> "up", killed |-> FALSE, start |-> "waits"])
           /\ process' = h /\ starting' = h
           /\ Go(c, "starting", source, h)
    /\ active' = source

Start(c, source) == Running(c, source) \/ Spawn(c, source)

\* start goes on after the stop of the helper with another source.
Restart(c) ==
    /\ callers[c].pc = "restarting" /\ ~StopWaits(c) /\ Start(c, callers[c].source)
    /\ UNCHANGED <<wanted, link, passthrough, retrying, overtaken, toldVars>>

\* Those whose stop ended with an exit run before those who waited for the start.
StopsFirst(h) == \A c \in Callers : ~(callers[c].pc = "restarting" /\ callers[c].helper = h)

\* The start that was waited for is over, and `starting` null again.
Begun(c) ==
    LET call == callers[c]  h == call.helper
    IN  /\ call.pc \in {"starting", "joining"} /\ helpers[h].start # "waits" /\ StopsFirst(h)
        /\ IF helpers[h].start = "failed"
           THEN /\ Go(c, "failed", call.source, 0)
                /\ starting' = IF starting = h THEN 0 ELSE starting
                /\ UNCHANGED <<process, active, helpers>>
           ELSE IF call.pc = "starting"
           THEN /\ Go(c, "started", call.source, 0)
                /\ starting' = IF starting = h THEN 0 ELSE starting
                /\ UNCHANGED <<process, active, helpers>>
           ELSE starting # h /\ Start(c, call.source)
        /\ UNCHANGED <<wanted, link, passthrough, retrying, overtaken, toldVars>>

-----------------------------------------------------------------------------
(* Commands and updateSystemAudioHapticsEngine                              *)

\* applyAudioReactiveHapticsSettings with settings that want sound iff on, and
\* the flag of the moment; ok: the answer is a right one.  Without it the
\* firmware may have taken the command, or not; without a device nothing is
\* given, and the caller learns that or does not.
Tell(on, ok) ==
    LET value == on /\ passthrough'
        stale == value # (passthrough' /\ wanted' # "off")
    IN  \/ link # "none" /\ firmware' = value /\ unheard' = stale
        \/ /\ ok => link = "none"
           /\ unheard' = (unheard \/ stale \/ firmware # value)
           /\ UNCHANGED firmware

\* Settings that change whether sound is wanted are stored, and no command is
\* given on that account.
Unsaid ==
    /\ unheard' = (unheard \/ (passthrough /\ (wanted = "off") # (wanted' = "off")))
    /\ UNCHANGED firmware

Playing == {h \in Helpers : helpers[h].state = "up" /\ ~helpers[h].killed}
AllIdle == \A c \in Callers : ~Busy(c)
Waits(c) == callers[c].pc \in {"restarting", "joining"}

\* c is about to bring the engine in line with source w.
Overtakes(c, w) ==
    overtaken' = /\ \E d \in Callers \ {c} : Busy(d)
                 /\ overtaken \/ \E d \in Callers \ {c} : Waits(d) /\ callers[d].source # w

\* The engine is stopped if no source is to play, by settings that want sound
\* or not, or the next try has to wait; which may be due by now.
UpdateWith(c, settings, w) ==
    /\ \/ /\ w = "off"
          /\ Stop(c, IF passthrough THEN "stopping, then telling" ELSE "stopping", settings)
          /\ passthrough' = FALSE /\ retrying' = FALSE
          /\ UNCHANGED <<starting, active>>
       \/ /\ w # "off" /\ retrying
          /\ Stop(c, "stopping", "off")
          /\ UNCHANGED <<starting, active, passthrough, retrying>>
       \/ w # "off" /\ Start(c, w) /\ retrying' = FALSE /\ UNCHANGED passthrough
    /\ Overtakes(c, w)

\* setAudioReactiveHapticsConfig: a command whose failure is ignored, then the
\* settings are stored and the engine follows.
Configure(c) ==
    /\ Free(c) /\ link # "none" /\ UNCHANGED <<wanted, passthrough>>
    /\ \E w \in Sources \cup {"off"}, ok \in BOOLEAN : Tell(w # "off", ok) /\ Go(c, "storing", w, 0)
    /\ UNCHANGED <<link, engineVars, retrying, overtaken>>

Store(c) ==
    /\ callers[c].pc = "storing" /\ wanted' = callers[c].source
    /\ UpdateWith(c, wanted', IF link = "ready" THEN wanted' ELSE "off")
    /\ Unsaid
    /\ UNCHANGED link

\* setHapticsEnabled: stored before the command, whose failure leaves the engine
\* as it was; without one in a state other than "connected", and in restoreDefaults.
Toggle(c) ==
    /\ Free(c) /\ wanted' \in (IF wanted = "off" THEN Sources ELSE {"off"})
    /\ \/ /\ UpdateWith(c, wanted', IF link = "ready" THEN wanted' ELSE "off")
          /\ Unsaid
       \/ /\ link # "none" /\ UNCHANGED <<engineVars, passthrough, retrying>>
          /\ \/ /\ Tell(wanted' # "off", TRUE) /\ Go(c, "updating", "off", 0)
                /\ Overtakes(c, IF link = "ready" THEN wanted' ELSE "off")
             \/ Tell(wanted' # "off", FALSE) /\ overtaken' = TRUE /\ UNCHANGED callers
    /\ UNCHANGED link

\* A reapply, or power saving, sends the settings it began with; a reapply that
\* got through brings the engine in line.
Reapply(c) ==
    /\ Free(c) /\ link # "none" /\ Go(c, "reapplying", wanted, 0)
    /\ UNCHANGED <<wanted, link, engineVars, passthrough, retrying, overtaken, toldVars>>

Reapplied(c) ==
    /\ callers[c].pc = "reapplying" /\ UNCHANGED <<wanted, passthrough>>
    /\ \E ok \in BOOLEAN, then \in {"updating", "idle"} :
          /\ Tell(callers[c].source # "off", ok) /\ (then = "updating" => ok)
          /\ Go(c, then, "off", 0)
    /\ UNCHANGED <<link, engineVars, retrying, overtaken>>

\* The flag changes after the start; until the answer the next try stays due.
Started(c) ==
    /\ callers[c].pc = "started" /\ passthrough' = FALSE
    /\ IF passthrough
       THEN \E ok \in BOOLEAN : /\ UNCHANGED wanted /\ Tell(TRUE, ok)
                                /\ Go(c, IF ok THEN "told" ELSE "failed", "off", 0)
       ELSE Go(c, "told", "off", 0) /\ UNCHANGED <<wanted, toldVars>>
    /\ UNCHANGED <<link, engineVars, retrying, overtaken>>

Told(c) ==
    /\ callers[c].pc = "told" /\ Go(c, "idle", "off", 0) /\ retrying' = FALSE
    /\ UNCHANGED <<wanted, link, engineVars, passthrough, overtaken, toldVars>>

\* The start or the command was rejected: whatever runs now is stopped, another
\* try has to wait.
Failed(c) ==
    /\ callers[c].pc = "failed" /\ Stop(c, "stopping, then waiting", "off")
    /\ UNCHANGED <<wanted, link, starting, active, passthrough, retrying, overtaken, toldVars>>

Stopped(c) ==
    LET call == callers[c] IN
    /\ call.pc \in {"stopping", "stopping, then telling", "stopping, then waiting"} /\ ~StopWaits(c)
    /\ Go(c, "idle", "off", 0)
    /\ retrying' = (retrying \/ call.pc = "stopping, then waiting")
    /\ UNCHANGED <<wanted, passthrough>>
    /\ \/ /\ \/ call.pc = "stopping, then telling"
             \/ call.pc = "stopping, then waiting" /\ passthrough
          /\ \E ok \in BOOLEAN : Tell(call.pc = "stopping, then waiting" \/ call.source # "off", ok)
       \/ /\ call.pc = "stopping" \/ (call.pc = "stopping, then waiting" /\ ~passthrough)
          /\ UNCHANGED toldVars
    /\ UNCHANGED <<link, engineVars, overtaken>>

\* closeDevice, and a poll that sees no controller: the flag falls without a word.
StopPolling(c, then) ==
    /\ Free(c)
    /\ retrying' = FALSE /\ passthrough' = FALSE /\ unheard' = (unheard \/ passthrough)
    /\ Stop(c, then, "off")
    /\ UNCHANGED <<wanted, starting, active, firmware>>

CloseDevice(c) ==
    link # "none" /\ link' = "none" /\ StopPolling(c, "stopping") /\ Overtakes(c, "off")

NoController(c) ==
    link # "none" /\ StopPolling(c, "stopping, then noting") /\ UNCHANGED <<link, overtaken>>

\* The snapshot has the status of the poll.
Noted(c) ==
    /\ callers[c].pc = "stopping, then noting" /\ ~StopWaits(c) /\ Go(c, "idle", "off", 0)
    /\ link' = IF link = "none" THEN "none" ELSE "deaf"
    /\ overtaken' = (overtaken \/ process # 0 \/ \E d \in Callers : Waits(d))
    /\ UNCHANGED <<wanted, engineVars, passthrough, retrying, toldVars>>

\* Another poll opens the bridge, which may have been restarted and then was not
\* told, or finds a controller; the engine follows when something brings it in line.
Found ==
    /\ link # "ready" /\ link' \in {"deaf", "ready"} \ {link}
    /\ firmware' \in {firmware, firmware /\ link # "none"}
    /\ unheard' = (unheard \/ (passthrough /\ firmware' # firmware))
    /\ UNCHANGED <<wanted, engineVars, callers, passthrough, retrying, overtaken>>

-----------------------------------------------------------------------------
(* The processes and handleSystemAudioHapticsStatus                         *)

Alive(h) == helpers[h].state = "up"
Desired == wanted # "off"

\* "recording-started": the sound is mirrored again.
Recording(h) ==
    /\ Alive(h) /\ helpers[h].start = "waits"
    /\ helpers' = [helpers EXCEPT ![h].start = "done"]
    /\ passthrough' = FALSE /\ UNCHANGED wanted
    /\ IF passthrough THEN \E ok \in BOOLEAN : Tell(Desired, ok) ELSE UNCHANGED toldVars
    /\ UNCHANGED <<link, process, starting, active, callers, retrying, overtaken>>

\* "capture-unavailable", or no line within eight seconds: the helper is killed.
Unavailable(h) ==
    /\ helpers[h].start = "waits"
    /\ helpers' = Kill([helpers EXCEPT ![h].start = "failed"], h)
    /\ UNCHANGED <<wanted, link, process, starting, active, callers, passthrough, retrying,
                   overtaken, toldVars>>

\* "system-haptics-bypassed": the output device is the bridge itself.
Bypassed(h) ==
    /\ Alive(h) /\ Desired /\ ~passthrough
    /\ passthrough' = TRUE /\ UNCHANGED wanted /\ \E ok \in BOOLEAN : Tell(Desired, ok)
    /\ UNCHANGED <<link, engineVars, callers, retrying, overtaken>>

\* "route-changed", or the end of a change of persona: stop and update.
RouteChanged(c) ==
    /\ Free(c) /\ retrying' = FALSE
    /\ \/ (\E h \in Helpers : Alive(h)) /\ Desired /\ UNCHANGED <<wanted, overtaken>>
       \/ /\ wanted' \in (IF Desired THEN Sources ELSE {"off"})
          /\ Overtakes(c, IF link = "ready" THEN wanted' ELSE "off")
    /\ Stop(c, "updating", "off")
    /\ UNCHANGED <<link, starting, active, passthrough, toldVars>>

UpdateAgain(c) ==
    /\ callers[c].pc = "updating" /\ ~StopWaits(c) /\ UpdateWith(c, wanted, Target)
    /\ UNCHANGED <<wanted, link, toldVars>>

\* The process ends: killed, by itself, or because a stream of it ended.
ExitClearsMutant(h) == 0
ProcessAfterExit(h) == IF process = h THEN 0 ELSE process

Exit(h) ==
    /\ Alive(h)
    /\ helpers' = [helpers EXCEPT ![h].state = "gone",
                                  ![h].start = IF @ = "waits" THEN "failed" ELSE @]
    /\ process' = ProcessAfterExit(h)
    /\ UNCHANGED <<wanted, link, starting, active, callers, passthrough, retrying, overtaken, toldVars>>

\* Half a second passed and the process has not ended.  The second signal is
\* never sent: `killed` is true as soon as the first one was.
StopGivesUp(c) ==
    /\ StopWaits(c) /\ callers[c].pc \notin {"starting", "joining"}
    /\ callers' = [callers EXCEPT ![c].helper = 0]
    /\ UNCHANGED <<wanted, link, engineVars, passthrough, retrying, overtaken, toldVars>>

Next ==
    \/ \E c \in Callers :
          \/ Configure(c) \/ Store(c) \/ Toggle(c) \/ Reapply(c) \/ Reapplied(c)
          \/ CloseDevice(c) \/ NoController(c) \/ Noted(c) \/ RouteChanged(c)
          \/ UpdateAgain(c) \/ StopGivesUp(c) \/ Restart(c) \/ Begun(c)
          \/ Started(c) \/ Told(c) \/ Failed(c) \/ Stopped(c)
    \/ Found
    \/ \E h \in Helpers : Recording(h) \/ Unavailable(h) \/ Bypassed(h) \/ Exit(h)

Spec == Init /\ [][Next]_vars

-----------------------------------------------------------------------------
\* Two helpers never play at once, unless one ignores that it was told to end;
\* the helper that runs when no call is under way plays the source that is
\* wanted and can be played; and the firmware plays the sound exactly while the
\* flag and the settings say so.  Excused is what `overtaken` and `unheard` name
\* (audio-helper.ts SystemAudioHapticsEngine, bridge-service.ts
\* updateSystemAudioHapticsEngine, handleSystemAudioHapticsStatus).
OneMirror == \A g, h \in Playing : g = h

MirrorMatches ==
    /\ OneMirror
    /\ AllIdle =>
          /\ overtaken \/ \A h \in Playing : h = process /\ helpers[h].source = Target
          /\ unheard \/ firmware = (passthrough /\ Desired)
=============================================================================
