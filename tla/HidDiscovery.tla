---------------------------- MODULE HidDiscovery ----------------------------
(***************************************************************************)
(* main/hid-discovery-client.ts and its worker process.  HID enumeration    *)
(* may hang, so a child process does it: a lookup that takes too long or    *)
(* cannot be sent fails every lookup that waits and has the worker killed,  *)
(* the next one forks another.  A worker that ended is noticed in two       *)
(* steps: first its channel is gone, then its exit is reported.             *)
(***************************************************************************)
EXTENDS Integers, Sequences

CONSTANTS
    MaxLookups,  \* bound: lookups
    MaxWorkers   \* bound: forks

VARIABLES
    workers,     \* workers[w]: [state, killed, heard, inbox, outbox], in the order of the forks;
                 \* heard: its messages and its exit are listened to
    worker,      \* HidDiscoveryClient.worker, 0 if null
    lookups,     \* lookups[id]: [by, pending, answer], by: the worker it was sent to
    early        \* history: a worker was forked before the exit of another was reported

vars == <<workers, worker, lookups, early>>

-----------------------------------------------------------------------------
LookupIds == DOMAIN lookups
Workers == DOMAIN workers
Forked == [state |-> "up", killed |-> FALSE, heard |-> TRUE, inbox |-> <<>>, outbox |-> <<>>]
Connected(w) == w # 0 /\ workers[w].state = "up"

Init == workers = <<>> /\ worker = 0 /\ lookups = <<>> /\ early = FALSE

\* rejectPending; answer 0 is a rejection.
RejectPending(ls) == [id \in DOMAIN ls |-> [ls[id] EXCEPT !.pending = FALSE]]

\* ensureWorker.
EnsureWorker == IF Connected(worker) THEN workers ELSE Append(workers, Forked)

ListDevices ==
    /\ Len(lookups) < MaxLookups /\ (Connected(worker) \/ Len(workers) < MaxWorkers)
    /\ LET to == IF Connected(worker) THEN worker ELSE Len(workers) + 1
           id == Len(lookups) + 1
       IN  /\ worker' = to
           /\ workers' = [EnsureWorker EXCEPT ![to].inbox = Append(@, id)]
           /\ lookups' = Append(lookups, [by |-> to, pending |-> TRUE, answer |-> 0])
           /\ early' = (early \/ (to # worker /\ \E w \in Workers : workers[w].state # "gone" /\ workers[w].heard))

\* restartWorker: the worker is forgotten before it is killed.
RestartWorker ==
    /\ worker' = 0
    /\ lookups' = RejectPending(lookups)
    /\ workers' = IF worker = 0 THEN workers
                  ELSE [workers EXCEPT ![worker].heard = FALSE, ![worker].killed = TRUE]
    /\ UNCHANGED early

\* The time limit of a lookup; send reports an error when the channel is gone.
Timeout(id) == lookups[id].pending /\ RestartWorker
SendFails(id) == lookups[id].pending /\ ~Connected(lookups[id].by) /\ RestartWorker

\* The listeners stay: the exit of the stopped worker is still reported.
Stop ==
    /\ worker' = 0
    /\ workers' = IF worker = 0 THEN workers ELSE [workers EXCEPT ![worker].killed = TRUE]
    /\ lookups' = RejectPending(lookups)
    /\ UNCHANGED early
    /\ vars' # vars

-----------------------------------------------------------------------------
\* The worker enumerates and answers with the devices or an error.
WorkerAnswers(w) ==
    /\ workers[w].state = "up" /\ workers[w].inbox # <<>>
    /\ workers' = [workers EXCEPT ![w].inbox = Tail(@), ![w].outbox = Append(@, Head(workers[w].inbox))]
    /\ UNCHANGED <<worker, lookups, early>>

\* handleMessage.
Waiting(id) == {p \in {id} \cap LookupIds : lookups[p].pending}

Message(w) ==
    /\ workers[w].outbox # <<>>
    /\ workers' = [workers EXCEPT ![w].outbox = Tail(@)]
    /\ LET id == Head(workers[w].outbox)
       IN  \/ /\ workers[w].heard /\ Waiting(id) # {}
              /\ \E p \in Waiting(id) :
                    lookups' = [lookups EXCEPT ![p].pending = FALSE, ![p].answer = id]
           \/ (~workers[w].heard \/ Waiting(id) = {}) /\ UNCHANGED lookups
    /\ UNCHANGED <<worker, early>>

\* It crashes, or the kill takes effect.
WorkerEnds(w) ==
    /\ workers[w].state = "up"
    /\ workers' = [workers EXCEPT ![w].state = "ended", ![w].inbox = <<>>]
    /\ UNCHANGED <<worker, lookups, early>>

\* The exit handler drops whatever worker there is now.
ExitReported(w) ==
    /\ workers[w].state = "ended"
    /\ workers' = [workers EXCEPT ![w].state = "gone"]
    /\ worker' = IF workers[w].heard THEN 0 ELSE worker
    /\ lookups' = IF workers[w].heard THEN RejectPending(lookups) ELSE lookups
    /\ UNCHANGED early

Next ==
    \/ ListDevices \/ Stop
    \/ \E id \in LookupIds : Timeout(id) \/ SendFails(id)
    \/ \E w \in Workers : WorkerAnswers(w) \/ Message(w) \/ WorkerEnds(w) \/ ExitReported(w)

Spec == Init /\ [][Next]_vars

-----------------------------------------------------------------------------
\* A lookup is answered with its own enumeration and by the worker it was sent
\* to; none waits for a worker that was dropped; and no worker is left running
\* that nobody will kill, unless one was forked before the exit of its
\* predecessor was reported (hid-discovery-client.ts).
LookupsMatch ==
    /\ \A id \in LookupIds :
          /\ lookups[id].answer \in {0, id}
          /\ lookups[id].pending => worker # 0
    /\ early \/ \A w \in Workers : Connected(w) => w = worker \/ workers[w].killed
=============================================================================
