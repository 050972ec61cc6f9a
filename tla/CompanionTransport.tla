------------------------- MODULE CompanionTransport -------------------------
(***************************************************************************)
(* The requests of main/winusb-companion-transport.ts and                  *)
(* main/vdsd-companion-transport.ts.  On Windows a helper process answers  *)
(* one line for each line it is given, in order, and the id in the answer  *)
(* names the request; on Linux every request has a connection of its own   *)
(* to the daemon.  Answers may come after the time limit, the helper and   *)
(* the daemon may go away at any moment, and the transport may be closed   *)
(* while requests are out.                                                 *)
(***************************************************************************)
EXTENDS Integers, Sequences, SequencesExt

CONSTANTS
    MaxCalls,    \* bound: requests of a session
    MaxOpens     \* bound: attempts to open

VARIABLES
    platform,    \* which of the two
    opening,     \* open(): "no", "starting" an attempt, "waiting" for the next, "open", "thrown"
    attempts,
    helper,      \* the helper: "none", "up", "dead" (its exit is not seen yet)
    closed,      \* the closed flag
    calls,       \* calls[id]: [pending, outcome, settles]
    lines,       \* lines the helper has not read, in order (ids; 0 asks it to end)
    replies,     \* what it wrote and nobody read: [id, ok], id 0 for a line that is no answer
    sockets,     \* sockets[id]: the connection of a request to the daemon
    applied      \* ids of the requests the bridge or the daemon carried out

vars == <<platform, opening, attempts, helper, closed, calls, lines, replies, sockets, applied>>

-----------------------------------------------------------------------------
CallIds == DOMAIN calls
Nothing == [id |-> -1, ok |-> FALSE]
Refused == [id |-> 0, ok |-> FALSE]

Init ==
    /\ platform \in {"win32", "linux"}
    /\ opening = "no" /\ attempts = 0 /\ helper = "none" /\ closed = FALSE
    /\ calls = <<>> /\ lines = <<>> /\ replies = <<>> /\ sockets = <<>> /\ applied = {}

-----------------------------------------------------------------------------
(* open: attempts until one succeeds or the time for retries is over.       *)

Attempt ==
    /\ opening \in {"no", "waiting"} /\ attempts < MaxOpens
    /\ attempts' = attempts + 1 /\ opening' = "starting"
    /\ helper' = IF platform = "win32" THEN "up" ELSE helper
    /\ UNCHANGED <<platform, closed, calls, lines, replies, sockets, applied>>

\* The helper announced a path, or the daemon answered the first status request.
Opened ==
    /\ opening = "starting" /\ opening' = "open"
    /\ UNCHANGED <<platform, attempts, helper, closed, calls, lines, replies, sockets, applied>>

\* An error line, a line that is no announcement, an exit, a spawn error or the
\* start limit: the helper is killed.  The daemon: any error of the request.
OpenFails ==
    /\ opening = "starting" /\ opening' \in {"waiting", "thrown"}
    /\ helper' = "none"
    /\ UNCHANGED <<platform, attempts, closed, calls, lines, replies, sockets, applied>>

-----------------------------------------------------------------------------
(* Requests.                                                                *)

Settle(id, outcome) ==
    [calls EXCEPT ![id].pending = FALSE, ![id].outcome = outcome, ![id].settles = @ + 1]

\* failAll.
FailAll(cs) ==
    [id \in DOMAIN cs |-> IF cs[id].pending
                          THEN [cs[id] EXCEPT !.pending = FALSE, !.outcome = Refused, !.settles = @ + 1]
                          ELSE cs[id]]

Request ==
    /\ opening = "open" /\ Len(calls) < MaxCalls
    /\ LET running == ~closed /\ (platform = "win32" => helper # "none")
           call == [pending |-> running, outcome |-> IF running THEN Nothing ELSE Refused,
                    settles |-> IF running THEN 0 ELSE 1]
           id == Len(calls) + 1
       IN  /\ calls' = Append(calls, call)
           /\ lines' = IF running /\ helper = "up" THEN Append(lines, id) ELSE lines
           /\ sockets' = Append(sockets, IF running /\ platform = "linux" THEN "connecting" ELSE "none")
    /\ UNCHANGED <<platform, opening, attempts, helper, closed, replies, applied>>

\* The time limit of a request; the connection to the daemon is destroyed.
Timeout(id) ==
    /\ calls[id].pending
    /\ calls' = Settle(id, Refused)
    /\ sockets' = [sockets EXCEPT ![id] = IF @ = "sent" THEN "cut" ELSE "none"]
    /\ UNCHANGED <<platform, opening, attempts, helper, closed, lines, replies, applied>>

-----------------------------------------------------------------------------
(* The helper.                                                              *)

\* The helper reads a line, does what it asks and answers, or reports an error.
HelperAnswers(ok) ==
    /\ helper = "up" /\ lines # <<>> /\ Head(lines) # 0
    /\ lines' = Tail(lines)
    /\ applied' = IF ok THEN applied \cup {Head(lines)} ELSE applied
    /\ replies' = Append(replies, [id |-> Head(lines), ok |-> ok])
    /\ UNCHANGED <<platform, opening, attempts, helper, closed, calls, sockets>>

\* A line that is not JSON: an error event of the transport, nothing else.
HelperMumbles ==
    /\ helper = "up" /\ opening = "open" /\ \A k \in DOMAIN replies : replies[k].id # 0
    /\ replies' = Append(replies, [id |-> 0, ok |-> FALSE])
    /\ UNCHANGED <<platform, opening, attempts, helper, closed, calls, lines, sockets, applied>>

\* handleStdout: one line.  What is left in the pipe is read after the exit, too.
FirstPendingMutant(id) ==
    IF \E c \in CallIds : calls[c].pending
    THEN CHOOSE c \in CallIds : calls[c].pending /\ \A d \in CallIds : calls[d].pending => c <= d
    ELSE 0
Addressee(id) == IF id \in CallIds /\ calls[id].pending THEN id ELSE 0

HandleResponse ==
    /\ replies # <<>> /\ replies' = Tail(replies)
    /\ LET reply == Head(replies)
           id == Addressee(reply.id)
       IN  calls' = IF reply.id # 0 /\ id # 0 THEN Settle(id, reply) ELSE calls
    /\ UNCHANGED <<platform, opening, attempts, helper, closed, lines, sockets, applied>>

\* The helper ends: by itself, or because it was asked to and killed.
HelperDies ==
    /\ helper = "up" /\ opening = "open"
    /\ helper' = "dead" /\ lines' = <<>>
    /\ UNCHANGED <<platform, opening, attempts, closed, calls, replies, sockets, applied>>

\* A line could not be written because the helper is gone.
WriteFails(id) ==
    /\ helper # "up" /\ platform = "win32" /\ calls[id].pending
    /\ calls' = Settle(id, Refused)
    /\ UNCHANGED <<platform, opening, attempts, helper, closed, lines, replies, sockets, applied>>

\* An error event of the process: every request fails, the process may live on.
HelperError ==
    /\ helper # "none" /\ opening = "open"
    /\ calls' = FailAll(calls) /\ calls' # calls
    /\ UNCHANGED <<platform, opening, attempts, helper, closed, lines, replies, sockets, applied>>

Exit ==
    /\ helper = "dead" /\ helper' = "none"
    /\ closed' = TRUE /\ calls' = FailAll(calls)
    /\ UNCHANGED <<platform, opening, attempts, lines, replies, sockets, applied>>

-----------------------------------------------------------------------------
(* The daemon.                                                              *)

Connected(id) ==
    /\ sockets[id] = "connecting" /\ sockets' = [sockets EXCEPT ![id] = "sent"]
    /\ UNCHANGED <<platform, opening, attempts, helper, closed, calls, lines, replies, applied>>

\* The daemon carries a request out and writes its answer, even when nobody waits.
DaemonAnswers(id, ok) ==
    /\ sockets[id] \in {"sent", "cut"}
    /\ sockets' = [sockets EXCEPT ![id] = IF @ = "cut" THEN "none" ELSE IF ok THEN "ok" ELSE "rejected"]
    /\ applied' = IF ok THEN applied \cup {id} ELSE applied
    /\ UNCHANGED <<platform, opening, attempts, helper, closed, calls, lines, replies>>

\* The connection closes: with an answer, or with none, with half a line or an error.
SocketEnds(id) ==
    /\ sockets[id] \in {"connecting", "sent", "ok", "rejected"}
    /\ sockets' = [sockets EXCEPT ![id] = IF @ = "sent" THEN "cut" ELSE "none"]
    /\ calls' = IF ~calls[id].pending THEN calls
                ELSE Settle(id, IF sockets[id] = "ok" THEN [id |-> id, ok |-> TRUE] ELSE Refused)
    /\ UNCHANGED <<platform, opening, attempts, helper, closed, lines, replies, applied>>

-----------------------------------------------------------------------------
\* close: the helper is asked to end and every request fails; requests to the
\* daemon go on.
CloseLeavesMutant(cs) == cs
Abandoned(cs) == IF platform = "win32" THEN FailAll(cs) ELSE cs

Close ==
    /\ opening = "open" /\ ~closed /\ closed' = TRUE
    /\ lines' = IF helper = "up" THEN Append(lines, 0) ELSE lines
    /\ calls' = Abandoned(calls)
    /\ UNCHANGED <<platform, opening, attempts, helper, replies, sockets, applied>>

Next ==
    \/ Attempt \/ Opened \/ OpenFails
    \/ Request
    \/ \E id \in CallIds :
          \/ Timeout(id) \/ WriteFails(id) \/ Connected(id) \/ SocketEnds(id)
          \/ \E ok \in BOOLEAN : DaemonAnswers(id, ok)
    \/ \E ok \in BOOLEAN : HelperAnswers(ok)
    \/ HelperMumbles \/ HandleResponse \/ HelperDies \/ HelperError \/ Exit
    \/ Close

Spec == Init /\ [][Next]_vars

-----------------------------------------------------------------------------
\* A call gets one result: an answer only if it is the answer to this call and
\* what it asked for was done, never the late answer to another one; and a
\* closed helper transport leaves no call waiting (winusb-companion-transport.ts
\* handleResponse, failAll; vdsd-companion-transport.ts request).
AnswersMatch ==
    /\ \A id \in CallIds :
          /\ calls[id].settles = IF calls[id].pending THEN 0 ELSE 1
          /\ calls[id].outcome.ok => calls[id].outcome.id = id /\ id \in applied
    /\ platform = "win32" /\ closed => \A id \in CallIds : ~calls[id].pending
=============================================================================
